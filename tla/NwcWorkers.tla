------------------------------ MODULE NwcWorkers ------------------------------
(***************************************************************************)
(* The two worker lists of struct nwc_looper (nwc_looper.c, list.h) and    *)
(* the only code that fills them, nwc_connection_send and                  *)
(* nwc_connection_close.  The lists are modelled with their pointers: the  *)
(* walk of nwc_looper_dispatch_worker keeps a pointer to the next node     *)
(* across a callback, and the callback may move nodes to the other list.   *)
(***************************************************************************)
EXTENDS Naturals, FiniteSets

CONSTANTS
  Workers,  \* addresses malloc can return for a struct nwc_worker (reused)
  Conns,    \* connections, each going up at most once
  NULL

Heads == {"worker_hdr", "removed_worker_hdr"}
Nodes == Workers \cup Heads

ASSUME WorkersAssumption ==
  /\ NULL \notin Nodes \cup Conns \cup {"stat", "send"}
  /\ Workers \cap Heads = {}
  \* malloc always finds room for the workers of every connection
  /\ IsFiniteSet(Workers) /\ IsFiniteSet(Conns)
  /\ Cardinality(Workers) >= 2 * Cardinality(Conns)

VARIABLES
  nxt, prv,     \* the next and prev pointers of the list nodes
  allocated,    \* the workers that are allocated
  worker_do,    \* worker->worker_do: "stat", "send" or NULL
  userdata,     \* worker->userdata
  conn,         \* a connection is "down", then "up", then "freed"
  stat_wk_handle, send_wk_handle,  \* the handles kept in the connection
  pc,           \* "dispatch", "events" (epoll_wait and its batch) or "delete"
  pos, n        \* the variables of list_for_each_safe

listVars == <<nxt, prv>>
workerVars == <<allocated, worker_do, userdata>>
connVars == <<conn, stat_wk_handle, send_wk_handle>>
vars == <<nxt, prv, allocated, worker_do, userdata, conn, stat_wk_handle, send_wk_handle,
          pc, pos, n>>

TypeOK ==
  /\ nxt \in [Nodes -> Nodes \cup {NULL}]
  /\ prv \in [Nodes -> Nodes \cup {NULL}]
  /\ allocated \subseteq Workers
  /\ worker_do \in [Workers -> {"stat", "send", NULL}]
  /\ userdata \in [Workers -> Conns \cup {NULL}]
  /\ conn \in [Conns -> {"down", "up", "freed"}]
  /\ stat_wk_handle \in [Conns -> Workers \cup {NULL}]
  /\ send_wk_handle \in [Conns -> Workers \cup {NULL}]
  /\ pc \in {"dispatch", "events", "delete"}
  /\ pos \in Nodes
  /\ n \in Nodes

-----------------------------------------------------------------------------
(* list.h, on a pair l of pointer functions.                               *)

list_add_tail(l, new, head) ==
  LET last == l.prv[head]
  IN [nxt |-> [l.nxt EXCEPT ![new] = head, ![last] = new],
      prv |-> [l.prv EXCEPT ![head] = new, ![new] = last]]

list_del(l, w) ==
  [nxt |-> [l.nxt EXCEPT ![l.prv[w]] = l.nxt[w], ![w] = NULL],
   prv |-> [l.prv EXCEPT ![l.nxt[w]] = l.prv[w], ![w] = NULL]]

Lists == [nxt |-> nxt, prv |-> prv]
SetLists(l) == nxt' = l.nxt /\ prv' = l.prv

\* (mutant: the worker is queued for removal without leaving its list)
move_without_del(l, w) == list_add_tail(l, w, "removed_worker_hdr")

\* nwc_looper_cancel_worker, on the lists.
move_to_removed(l, w) == list_add_tail(list_del(l, w), w, "removed_worker_hdr")

\* The nodes reached from a head through the next pointers: those that no set of
\* nodes which has the head and follows the pointers can do without.
OnList(head) ==
  {x \in Nodes :
     \A S \in SUBSET Nodes :
       head \in S /\ (\A y \in S : nxt[y] \in S \cup {NULL}) => x \in S}

-----------------------------------------------------------------------------

Init ==
  /\ nxt = [x \in Nodes |-> IF x \in Heads THEN x ELSE NULL]
  /\ prv = nxt
  /\ allocated = {}
  /\ worker_do = [w \in Workers |-> NULL]
  /\ userdata = [w \in Workers |-> NULL]
  /\ conn = [c \in Conns |-> "down"]
  /\ stat_wk_handle = [c \in Conns |-> NULL]
  /\ send_wk_handle = [c \in Conns |-> NULL]
  /\ pc = "events"
  /\ pos = "worker_hdr" /\ n = "worker_hdr"

\* (mutant: the send worker is registered before the stat worker)
ConnectionSendSwapped(c) ==
  /\ pc = "events"
  /\ conn[c] = "down"
  /\ conn' = [conn EXCEPT ![c] = "up"]
  /\ \E w1 \in Workers \ allocated, w2 \in Workers \ allocated :
       /\ w1 # w2
       /\ SetLists(list_add_tail(list_add_tail(Lists, w2, "worker_hdr"), w1, "worker_hdr"))
       /\ allocated' = allocated \cup {w1, w2}
       /\ worker_do' = [worker_do EXCEPT ![w1] = "stat", ![w2] = "send"]
       /\ userdata' = [userdata EXCEPT ![w1] = c, ![w2] = c]
       /\ stat_wk_handle' = [stat_wk_handle EXCEPT ![c] = w1]
       /\ send_wk_handle' = [send_wk_handle EXCEPT ![c] = w2]
  /\ UNCHANGED <<pc, pos, n>>

\* nwc_connection_send, called by nwc_connection_on_connect or at the start of
\* the client: the stat worker is registered before the send worker.
ConnectionSend(c) ==
  /\ pc = "events"
  /\ conn[c] = "down"
  /\ conn' = [conn EXCEPT ![c] = "up"]
  /\ \E w1 \in Workers \ allocated, w2 \in Workers \ allocated :
       /\ w1 # w2
       /\ SetLists(list_add_tail(list_add_tail(Lists, w1, "worker_hdr"), w2, "worker_hdr"))
       /\ allocated' = allocated \cup {w1, w2}
       /\ worker_do' = [worker_do EXCEPT ![w1] = "stat", ![w2] = "send"]
       /\ userdata' = [userdata EXCEPT ![w1] = c, ![w2] = c]
       /\ stat_wk_handle' = [stat_wk_handle EXCEPT ![c] = w1]
       /\ send_wk_handle' = [send_wk_handle EXCEPT ![c] = w2]
  /\ UNCHANGED <<pc, pos, n>>

\* (mutant: close cancels the send worker only)
CancelSendOnly(c) ==
  LET w2 == send_wk_handle[c]
  IN /\ SetLists(move_to_removed(Lists, w2))
     /\ worker_do' = [worker_do EXCEPT ![w2] = NULL]
     /\ userdata' = [userdata EXCEPT ![w2] = NULL]
     /\ conn' = [conn EXCEPT ![c] = "freed"]
     /\ UNCHANGED <<allocated, stat_wk_handle, send_wk_handle>>

\* nwc_connection_close: both workers are cancelled, the connection is freed.
CancelWorkers(c) ==
  LET w1 == stat_wk_handle[c]
      w2 == send_wk_handle[c]
  IN /\ SetLists(move_to_removed(move_to_removed(Lists, w1), w2))
     /\ worker_do' = [worker_do EXCEPT ![w1] = NULL, ![w2] = NULL]
     /\ userdata' = [userdata EXCEPT ![w1] = NULL, ![w2] = NULL]
     /\ conn' = [conn EXCEPT ![c] = "freed"]
     /\ UNCHANGED <<allocated, stat_wk_handle, send_wk_handle>>

\* A connection meets the end of its stream, or an error, during the batch.
CloseInBatch(c) ==
  /\ pc = "events"
  /\ conn[c] = "up"
  /\ CancelWorkers(c)
  /\ UNCHANGED <<pc, pos, n>>

\* (mutant: the removed workers are never reaped)
BatchDoneNoDelete ==
  /\ pc = "events"
  /\ pc' = "dispatch" /\ pos' = nxt["worker_hdr"]
  /\ n' = nxt[pos']
  /\ UNCHANGED <<listVars, workerVars, connVars>>

\* The batch is over; epoll_wait was interrupted, and the lists are not reaped,
\* or it was not.
BatchDone ==
  /\ pc = "events"
  /\ \/ pc' = "delete" /\ pos' = nxt["removed_worker_hdr"]
     \/ pc' = "dispatch" /\ pos' = nxt["worker_hdr"]
  /\ n' = nxt[pos']
  /\ UNCHANGED <<listVars, workerVars, connVars>>

\* list_for_each_safe goes on from the node it saved before the body ran.
Advance ==
  /\ pos' = n
  /\ n' = nxt'[n]

\* One round of nwc_looper_dispatch_worker.  The stat worker only computes; the
\* send worker closes its connection when the send fails.  (A worker without
\* worker_do is skipped by the code; WorkerOfLiveConnection shows that no such
\* worker is ever on this list.)
DispatchWorker ==
  /\ pc = "dispatch"
  /\ pos \in Workers
  /\ worker_do[pos] # NULL
  /\ \/ UNCHANGED <<listVars, workerVars, connVars>>
     \/ /\ worker_do[pos] = "send"
        /\ CancelWorkers(userdata[pos])
  /\ Advance
  /\ UNCHANGED pc

DispatchDone ==
  /\ pc = "dispatch"
  /\ pos = "worker_hdr"
  /\ pc' = "events"
  /\ UNCHANGED <<listVars, workerVars, connVars, pos, n>>

\* One round of nwc_looper_delete_removed_worker.
DeleteRemovedWorker ==
  /\ pc = "delete"
  /\ pos \in Workers
  /\ SetLists(list_del(Lists, pos))
  /\ allocated' = allocated \ {pos}
  /\ Advance
  /\ UNCHANGED <<pc, worker_do, userdata, connVars>>

DeleteDone ==
  /\ pc = "delete"
  /\ pos = "removed_worker_hdr"
  /\ pc' = "dispatch"
  /\ pos' = nxt["worker_hdr"]
  /\ n' = nxt[pos']
  /\ UNCHANGED <<listVars, workerVars, connVars>>

Next ==
  \/ \E c \in Conns : ConnectionSend(c) \/ CloseInBatch(c)
  \/ BatchDone
  \/ DispatchWorker \/ DispatchDone
  \/ DeleteRemovedWorker \/ DeleteDone

\* The thread of the looper keeps running, and not every wait is interrupted.
Spec == Init /\ [][Next]_vars /\ WF_vars(Next)
             /\ SF_vars(BatchDone /\ pc' = "delete")

-----------------------------------------------------------------------------
(* Properties *)

\* Both lists are circular and consistent, no worker is on both, the allocated
\* workers are exactly those on a list: none is lost, none is freed while linked.  (With
\* the types of the variables.)
ListsWellFormed ==
  /\ TypeOK
  /\ OnList("worker_hdr") \cap OnList("removed_worker_hdr") = {}
  /\ allocated = (OnList("worker_hdr") \cup OnList("removed_worker_hdr")) \ Heads
  /\ \A x \in allocated \cup Heads : nxt[x] # NULL /\ prv[nxt[x]] = x

\* A walk stays on the list it started on although the send worker unlinks
\* itself and its sibling: the node list_for_each_safe saved is never one that
\* the callback moves, because the stat worker stands before the send worker.
WalkStaysOnList ==
  /\ pc = "dispatch" => {pos, n} \subseteq OnList("worker_hdr")
  /\ pc = "delete" => {pos, n} \subseteq OnList("removed_worker_hdr")

\* A worker is only run for a connection that is up.
WorkerOfLiveConnection ==
  \A w \in OnList("worker_hdr") \ Heads :
    /\ worker_do[w] # NULL
    /\ userdata[w] \in Conns
    /\ conn[userdata[w]] = "up"

\* A worker that was cancelled is freed in the end.
CancelledWorkersAreFreed ==
  \A w \in Workers : (w \in allocated /\ worker_do[w] = NULL) ~> w \notin allocated

=============================================================================
