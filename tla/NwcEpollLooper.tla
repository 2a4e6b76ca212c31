---------------------------- MODULE NwcEpollLooper ----------------------------
(***************************************************************************)
(* The epoll event loop of 04-30_nwchecker_refactor (nwc_epoll_looper.c)   *)
(* together with the life of the TCP and UDP handlers it serves            *)
(* (nwc_tcp_handler.c, nwc_udp_handler.c, nwc.c, nwc_connection.c): malloc *)
(* of a handler and of its struct epoll_entry, registration, dispatch of   *)
(* one batch of events, close from inside a callback, deferred free of the *)
(* entries.                                                                *)
(*                                                                         *)
(* One thread runs everything, so one action is one whole callback.  What  *)
(* the kernel reports, and whether a recv or a send fails, is a            *)
(* nondeterministic choice; the bytes are the matter of NwcTcpStream and   *)
(* the two worker lists, with their pointers, of NwcWorkers.               *)
(***************************************************************************)
EXTENDS Naturals, FiniteSets

CONSTANTS
  Handlers,  \* nwc_tcp_handler and nwc_udp_handler objects, each one malloc
  Root,      \* the handler nwc_server_start or nwc_client_start creates
  Entries,   \* addresses malloc can return for a struct epoll_entry (reused)
  NULL       \* INVALID_HANDLE, and "no entry"

ASSUME LooperAssumption ==
  /\ Root \in Handlers
  /\ NULL \notin Handlers \cup Entries

VARIABLES
  pc,          \* where nwc_epoll_run stands
  state,       \* tcp->state of every handler, "UDP_SERVER" for udp->type; a UDP client is
               \* "NTS_ESTABLISHED"; "unused" before malloc, "freed" after free
  h_handle,    \* handler->h_handle: the entry of the handler
  heap,        \* the entries that are allocated
  fd,          \* entry->fd: "fd" while valid, or "INVALID_HANDLE"
  mask,        \* entry->mask
  eh,          \* entry->eh
  removed,     \* looper->removed_epoll_entrys
  ev_list,     \* the bits of ev_list still to be looked at, by data.ptr
  cur,         \* the entry of ev_list[i] whose turn it is, NULL between two turns
  workers,     \* handlers whose connection has its stat and send workers registered
  reported     \* history: the handler each entry belonged to when epoll_wait returned

handlerVars == <<state, h_handle, workers>>
entryVars == <<heap, fd, mask, eh, removed>>
batchVars == <<ev_list, cur, reported>>
vars == <<pc, state, h_handle, heap, fd, mask, eh, removed, ev_list, cur, workers, reported>>

EventMasks == SUBSET {"EM_READ", "EM_WRITE"}
EpollBits == {"HUP", "IN", "OUT"}
ServerStates == {"NTS_LISTEN", "UDP_SERVER"}
OpenStates == ServerStates \cup {"NTS_CONNECTING", "NTS_ESTABLISHED"}
Open(h) == state[h] \in OpenStates

NoEvents == [e \in Entries |-> {}]

TypeOK ==
  /\ pc \in {"dispatch", "wait", "event", "returned", "exited"}
  /\ state \in [Handlers -> OpenStates \cup {"unused", "freed"}]
  /\ h_handle \in [Handlers -> Entries \cup {NULL}]
  /\ heap \subseteq Entries
  /\ fd \in [Entries -> {"fd", "INVALID_HANDLE"}]
  /\ mask \in [Entries -> EventMasks]
  /\ eh \in [Entries -> Handlers \cup {NULL}]
  /\ removed \subseteq Entries
  /\ ev_list \in [Entries -> SUBSET EpollBits]
  /\ cur \in Entries \cup {NULL}
  /\ workers \subseteq Handlers
  /\ reported \in [Entries -> Handlers \cup {NULL}]

-----------------------------------------------------------------------------
(* The looper's operations, as the handlers call them.                     *)

\* nwc_looper_add_handler followed by nwc_looper_register_event, the pair
\* every handler makes.  malloc or EPOLL_CTL_ADD can fail: the handler then
\* has no entry and register_event returns at once.
AddHandler(h, events) ==
  \/ \E e \in Entries \ heap :
        /\ heap' = heap \cup {e}
        /\ fd' = [fd EXCEPT ![e] = "fd"]
        /\ eh' = [eh EXCEPT ![e] = h]
        /\ mask' = [mask EXCEPT ![e] = events]
        /\ h_handle' = [h_handle EXCEPT ![h] = e]
        /\ UNCHANGED removed
  \/ /\ h_handle' = [h_handle EXCEPT ![h] = NULL]
     /\ UNCHANGED entryVars

\* (mutant: remove_handler frees the entry at once)
RemoveHandlerNow(e) ==
  /\ mask' = [mask EXCEPT ![e] = {}]
  /\ fd' = [fd EXCEPT ![e] = "INVALID_HANDLE"]
  /\ heap' = heap \ {e}
  /\ UNCHANGED <<eh, removed>>

\* (mutant: remove_handler forgets to queue the entry)
RemoveHandlerForgets(e) ==
  /\ mask' = [mask EXCEPT ![e] = {}]
  /\ fd' = [fd EXCEPT ![e] = "INVALID_HANDLE"]
  /\ UNCHANGED <<heap, eh, removed>>

\* (mutant: remove_handler leaves entry->fd as it is)
RemoveHandlerKeepsFd(e) ==
  /\ mask' = [mask EXCEPT ![e] = {}]
  /\ removed' = removed \cup {e}
  /\ UNCHANGED <<heap, fd, eh>>

\* nwc_epoll_remove_handler: the entry leaves epoll now and its memory later.
RemoveHandler(e) ==
  /\ mask' = [mask EXCEPT ![e] = {}]
  /\ fd' = [fd EXCEPT ![e] = "INVALID_HANDLE"]
  /\ removed' = removed \cup {e}
  /\ UNCHANGED <<heap, eh>>

\* The wrappers of nwc.c do nothing for a handler whose handle is INVALID_HANDLE.
Registered(h) == h_handle[h] # NULL

\* nwc_connection_close: the handler leaves the looper, its socket is closed,
\* its memory freed, and both workers of the connection are cancelled.  The close
\* of a UDP handler, nwc_udp_handler_close, takes the same steps.
CloseConnection(h) ==
  /\ state' = [state EXCEPT ![h] = "freed"]
  /\ workers' = workers \ {h}
  /\ UNCHANGED h_handle
  /\ IF Registered(h) THEN RemoveHandler(h_handle[h])
                      ELSE UNCHANGED entryVars

-----------------------------------------------------------------------------
(* The state nwc_epoll_run starts from: nwc_server_start or                *)
(* nwc_client_start has created and registered the root handler, a         *)
(* listener, or a connection whose connect is in progress or is done; a    *)
(* UDP client's connect is always done, and its workers registered.        *)

StartedAs(s, events, wks) ==
  /\ state = [h \in Handlers |-> IF h = Root THEN s ELSE "unused"]
  /\ workers = wks
  /\ reported = [e \in Entries |-> NULL]
  /\ removed = {}
  /\ \/ \E e \in Entries :
          /\ heap = {e}
          /\ h_handle = [h \in Handlers |-> IF h = Root THEN e ELSE NULL]
          /\ eh = [x \in Entries |-> IF x = e THEN Root ELSE NULL]
          /\ fd = [x \in Entries |-> IF x = e THEN "fd" ELSE "INVALID_HANDLE"]
          /\ mask = [x \in Entries |-> IF x = e THEN events ELSE {}]
     \/ /\ heap = {}
        /\ h_handle = [h \in Handlers |-> NULL]
        /\ eh = [x \in Entries |-> NULL]
        /\ fd = [x \in Entries |-> "INVALID_HANDLE"]
        /\ mask = [x \in Entries |-> {}]

\* nwc_server_start: nwc_tcp_handler_listen or nwc_udp_handler_listen.
ServerStarted == \E s \in ServerStates : StartedAs(s, {"EM_READ"}, {})

\* nwc_client_start: nwc_tcp_handler_connect or nwc_udp_handler_connect, and
\* nwc_connection_send at once when there is nothing to wait for.
ClientStarted ==
  \/ StartedAs("NTS_CONNECTING", {"EM_READ", "EM_WRITE"}, {})
  \/ StartedAs("NTS_ESTABLISHED", {"EM_READ"}, {Root})

Init ==
  /\ pc = "dispatch"
  /\ ev_list = NoEvents
  /\ cur = NULL
  /\ ServerStarted \/ ClientStarted

-----------------------------------------------------------------------------
(* nwc_epoll_run, up to the batch of events.                               *)

\* nwc_looper_dispatch_worker: the stat worker changes nothing here; the send
\* worker of a connection closes it when the send fails.
DispatchWorkers ==
  /\ pc = "dispatch"
  /\ pc' = "wait"
  /\ UNCHANGED batchVars
  /\ \/ UNCHANGED <<handlerVars, entryVars>>
     \/ \E h \in workers : CloseConnection(h)

\* What epoll_wait may report: entries in epoll, for the bits of their mask;
\* a hang-up or an error needs no mask, and never comes on a server's socket.
Reportable(e) ==
  IF e \in heap /\ fd[e] = "fd"
  THEN {bit \in EpollBits :
          /\ bit = "HUP" => state[eh[e]] \notin ServerStates
          /\ bit = "IN" => "EM_READ" \in mask[e]
          /\ bit = "OUT" => "EM_WRITE" \in mask[e]}
  ELSE {}

\* epoll_wait returns a batch, possibly empty (the 50 ms timeout).
EpollWait ==
  /\ pc = "wait"
  /\ pc' = "event"
  /\ ev_list' \in [Entries -> SUBSET EpollBits]
  /\ \A e \in Entries : ev_list'[e] \subseteq Reportable(e)
  /\ reported' = eh
  /\ UNCHANGED <<cur, handlerVars, entryVars>>

\* epoll_wait is interrupted: the loop starts again and skips the reclaim.
EpollWaitEINTR ==
  /\ pc = "wait"
  /\ pc' = "dispatch"
  /\ UNCHANGED <<handlerVars, entryVars, batchVars>>

\* epoll_wait fails: nwc_epoll_run returns, with whatever is still removed.
EpollWaitError ==
  /\ pc = "wait"
  /\ pc' = "returned"
  /\ UNCHANGED <<handlerVars, entryVars, batchVars>>

-----------------------------------------------------------------------------
(* The batch: for every entry of ev_list, in the kernel's order, the       *)
(* hang-up, the input and the output, each after a test of entry->fd.      *)

NextEvent ==
  /\ pc = "event" /\ cur = NULL
  /\ \E e \in Entries : ev_list[e] # {} /\ cur' = e
  /\ UNCHANGED <<pc, ev_list, reported, handlerVars, entryVars>>

\* entry->fd == INVALID_HANDLE: the rest of this entry's bits is skipped.
SkipRemoved ==
  /\ pc = "event" /\ cur # NULL
  /\ ev_list[cur] # {}
  /\ fd[cur] = "INVALID_HANDLE"
  /\ ev_list' = [ev_list EXCEPT ![cur] = {}]
  /\ UNCHANGED <<pc, cur, reported, handlerVars, entryVars>>

\* (mutant: the three tests are an else-if chain, one bit of an entry is served)
TurnElseIf(bit) ==
  /\ pc = "event" /\ cur # NULL
  /\ fd[cur] = "fd"
  /\ bit \in ev_list[cur]
  /\ bit = "IN" => "HUP" \notin ev_list[cur]
  /\ bit = "OUT" => ev_list[cur] = {"OUT"}
  /\ ev_list' = [ev_list EXCEPT ![cur] = {}]
  /\ UNCHANGED <<pc, cur, reported>>

\* The next bit of the current entry, in the order of the three tests.
Turn(bit) ==
  /\ pc = "event" /\ cur # NULL
  /\ fd[cur] = "fd"
  /\ bit \in ev_list[cur]
  /\ bit = "IN" => "HUP" \notin ev_list[cur]
  /\ bit = "OUT" => ev_list[cur] = {"OUT"}
  /\ ev_list' = [ev_list EXCEPT ![cur] = @ \ {bit}]
  /\ UNCHANGED <<pc, cur, reported>>

\* nwc_tcp_handle_input of a listener: accept fails, or a new handler is made,
\* nwc_server_accept gives it a connection and it is registered for reading.
HandleAccept ==
  /\ Turn("IN")
  /\ state[eh[cur]] = "NTS_LISTEN"
  /\ \/ UNCHANGED <<handlerVars, entryVars>>
     \/ \E g \in Handlers :
          /\ state[g] = "unused"
          /\ state' = [state EXCEPT ![g] = "NTS_ESTABLISHED"]
          /\ AddHandler(g, {"EM_READ"})
          /\ UNCHANGED workers

\* nwc_udp_handle_input of a server: nwc_connection_udp_accept answers one
\* datagram, or meets an error, which it only reports.  (The record it keeps of
\* each address is never closed and is not part of this module.)
HandleDatagram ==
  /\ Turn("IN")
  /\ state[eh[cur]] = "UDP_SERVER"
  /\ UNCHANGED <<handlerVars, entryVars>>

\* nwc_tcp_handle_input of a connection, nwc_udp_handle_input of a UDP client:
\* nwc_connection_on_recv, which closes
\* the connection on end of stream or error.  Called for a hang-up and for
\* input.
HandleRecv ==
  /\ \E bit \in {"HUP", "IN"} : Turn(bit)
  /\ state[eh[cur]] \notin ServerStates
  /\ \/ UNCHANGED <<handlerVars, entryVars>>
     \/ CloseConnection(eh[cur])

\* (mutant: handle_output forgets to cancel EM_WRITE)
HandleConnectedKeepsWrite ==
  /\ Turn("OUT")
  /\ state[eh[cur]] = "NTS_CONNECTING"
  /\ UNCHANGED entryVars
  /\ UNCHANGED h_handle
  /\ \/ UNCHANGED <<state, workers>>
     \/ /\ state' = [state EXCEPT ![eh[cur]] = "NTS_ESTABLISHED"]
        /\ workers' = workers \cup {eh[cur]}

\* nwc_tcp_handle_output while connecting: the write interest is dropped, then
\* SO_ERROR says whether the connection is up.  A failed connection is left as
\* it is.  (The branch for any other state is never reached: see
\* WriteMeansConnecting.)
HandleConnected ==
  /\ Turn("OUT")
  /\ state[eh[cur]] = "NTS_CONNECTING"
  /\ mask' = [mask EXCEPT ![h_handle[eh[cur]]] = @ \ {"EM_WRITE"}]
  /\ UNCHANGED <<h_handle, heap, fd, eh, removed>>
  /\ \/ UNCHANGED <<state, workers>>
     \/ /\ state' = [state EXCEPT ![eh[cur]] = "NTS_ESTABLISHED"]
        /\ workers' = workers \cup {eh[cur]}

EventDone ==
  /\ pc = "event" /\ cur # NULL
  /\ ev_list[cur] = {}
  /\ cur' = NULL
  /\ UNCHANGED <<pc, ev_list, reported, handlerVars, entryVars>>

\* (mutant: the list of removed entries is not emptied by the reclaim)
ReclaimNothing ==
  /\ pc = "event" /\ cur = NULL
  /\ ev_list = NoEvents
  /\ pc' = "dispatch"
  /\ UNCHANGED <<handlerVars, entryVars, batchVars>>

\* After the batch every removed entry is freed.
Reclaim ==
  /\ pc = "event" /\ cur = NULL
  /\ ev_list = NoEvents
  /\ heap' = heap \ removed
  /\ removed' = {}
  /\ pc' = "dispatch"
  /\ UNCHANGED <<fd, mask, eh, handlerVars, batchVars>>

\* After nwc_epoll_run: the server closes its root handler (nwc_server_stop),
\* the client only destroys the looper.
Exit ==
  /\ pc = "returned"
  /\ pc' = "exited"
  /\ UNCHANGED batchVars
  /\ \/ state[Root] \in ServerStates /\ CloseConnection(Root)
     \/ state[Root] \notin ServerStates /\ UNCHANGED <<handlerVars, entryVars>>

Next ==
  \/ DispatchWorkers
  \/ EpollWait \/ EpollWaitEINTR \/ EpollWaitError
  \/ NextEvent \/ SkipRemoved
  \/ HandleAccept \/ HandleDatagram \/ HandleRecv \/ HandleConnected
  \/ EventDone \/ Reclaim
  \/ Exit

Spec == Init /\ [][Next]_vars

\* The loop keeps running, and epoll_wait is not interrupted for ever: it has
\* a timeout of 50 ms and no signal is sent periodically.
FairSpec == Spec /\ WF_vars(Next) /\ SF_vars(EpollWait)

-----------------------------------------------------------------------------
(* Properties *)

\* Every allocated entry is either the entry of one open handler, or waits in
\* removed_epoll_entrys to be freed, and no entry is ever both: nothing leaks
\* while the loop runs and nothing is queued for free twice.
\* (nwc_epoll_add_handler, nwc_epoll_remove_handler, nwc_tcp_handler_close)
EntryOwnership ==
  /\ removed \subseteq heap
  /\ \A e \in heap :
       \/ e \in removed /\ fd[e] = "INVALID_HANDLE"
       \/ /\ e \notin removed
          /\ fd[e] = "fd"
          /\ eh[e] \in Handlers
          /\ Open(eh[e])
          /\ h_handle[eh[e]] = e

\* The same with the types of the variables, which the other properties need.
EntriesOwned == TypeOK /\ EntryOwnership

\* A bit of ev_list that is still to be looked at names an allocated entry, so
\* the tests of entry->fd at lines 155, 168 and 173 read live memory even when
\* an earlier callback of the batch closed that handler.
BatchReadsLiveEntries ==
  /\ \A e \in Entries : ev_list[e] # {} => e \in heap
  /\ cur # NULL => cur \in heap

\* A callback is only run on the handler the kernel reported: no entry address
\* changes hands, by a close and an accept, between epoll_wait and its turn, and
\* that handler has not been freed.
DeliveredToReported ==
  \A e \in Entries :
    ev_list[e] # {} /\ fd[e] = "fd" =>
      /\ eh[e] = reported[e]
      /\ Open(eh[e])

\* handle_output, which is NULL for a listener, can only be due to a handler
\* that is still connecting: nothing but nwc_tcp_handler_connect asks for
\* EM_WRITE, and the first output takes it away again.
WriteMeansConnecting ==
  /\ \A e \in heap :
       "EM_WRITE" \in mask[e] => state[eh[e]] = "NTS_CONNECTING"
  /\ \A e \in heap :
       "OUT" \in ev_list[e] /\ fd[e] = "fd" => state[eh[e]] = "NTS_CONNECTING"

\* The workers are those of connections that are up: a worker never runs on a
\* connection that nwc_connection_close has freed, nor before on_connect.
WorkersOfOpenConnections ==
  \A h \in workers : state[h] = "NTS_ESTABLISHED"

\* Memory of an entry is only given back between two batches, and only after it
\* has left epoll.
FreedOnlyBetweenBatches ==
  [][\A e \in heap \ heap' :
       /\ e \in removed
       /\ ev_list = NoEvents
       /\ cur = NULL]_vars

\* An entry taken out of epoll is freed, as long as nwc_epoll_run goes on: the
\* interrupted rounds that skip the reclaim only delay it.
RemovedEntriesAreFreed ==
  \A e \in Entries :
    e \in removed ~> (e \notin heap \/ pc \in {"returned", "exited"})

-----------------------------------------------------------------------------
(* The loop implements EventDelivery: an event is due to a handler while it  *)
(* stands in ev_list under the entry of that handler.                        *)

Fresh == {h \in Handlers : state[h] = "unused"}
OpenHandlers == {h \in Handlers : Open(h)}
Due == [h \in Handlers |->
          IF Open(h) /\ h_handle[h] # NULL THEN ev_list[h_handle[h]] ELSE {}]

Delivery == INSTANCE EventDelivery WITH fresh <- Fresh, open <- OpenHandlers, due <- Due

\* The deferred free of the entries makes the loop deliver every reported event
\* to the open handler it was raised for, in order, or to nobody once that
\* handler is closed; and all of a batch is served before the next poll.
ImplementsDelivery == Delivery!Spec

=============================================================================
