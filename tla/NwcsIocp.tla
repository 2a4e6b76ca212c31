------------------------------ MODULE NwcsIocp ------------------------------
(***************************************************************************)
(* The I/O completion port server of lesson 04-25 (nwcs_iocp.cpp): one     *)
(* thread posts overlapped accepts, reads and writes, takes completions    *)
(* from the port and answers every read with a pong.  A connection counts  *)
(* its posted operations in pending_ops, so that one that is on the delete *)
(* list is freed when nothing of it is in flight any more.                 *)
(*                                                                         *)
(* A turn of nwcs_run_loop -- the message and the pass over the delete     *)
(* list -- is one action: the thread shares nothing but the port with the  *)
(* kernel, whose completions are actions of their own.  Memory matters: a  *)
(* connection is allocated without pending_ops being set, an operation     *)
(* block may be freed while its completion is still queued, and a turn     *)
(* that touches freed memory leaves the program undefined ("broken").      *)
(***************************************************************************)
EXTENDS Integers, Sequences, FiniteSets

CONSTANTS Clients,    \* client connections
          Acceptor,   \* accept_conn, the listening socket's nwc_connection
          Messages,   \* messages a client sends
          MaxFaults,  \* calls that fail in a behaviour
          Births      \* what malloc can leave in pending_ops

ASSUME NwcsIocpAssumption ==
    /\ Acceptor \notin Clients /\ Births \subseteq Int
    /\ Messages \in Nat /\ MaxFaults \in Nat

VARIABLES
    peer,         \* the client's end of each connection
    sent, up,     \* messages it has sent, and those not yet received
    accepting,    \* an AcceptEx is posted
    reading,      \* connections with a WSARecv posted
    writing,      \* per connection, WSASends posted
    port,         \* the completions not yet taken
    list,         \* which list each nwc_connection is on
    pending_ops,  \* per nwc_connection
    born,         \* history: pending_ops as malloc returned it
    failed,       \* history: whose completions failed, or whose accept was not posted
    broken,       \* the program has touched freed memory
    faults        \* failures so far

peerVars == <<peer, sent, up>>
kernelVars == <<accepting, reading, writing, port>>
connVars == <<list, pending_ops, born>>
vars == <<peerVars, kernelVars, connVars, failed, broken, faults>>

Completion == [nwc : Clients \cup {Acceptor}, op : {"accept", "read", "write"},
               socket : Clients, ok : BOOLEAN, live : BOOLEAN]

\* nwcs_iocp_open: the listening socket, and the first accept, whose failure is
\* not noticed.
Init ==
    /\ peer = [c \in Clients |-> "absent"]
    /\ sent = [c \in Clients |-> 0] /\ up = [c \in Clients |-> 0]
    /\ faults \in 0 .. 1 /\ faults <= MaxFaults
    /\ accepting = (faults = 0)
    /\ reading = {} /\ writing = [c \in Clients |-> 0]
    /\ port = <<>>
    /\ list = [n \in Clients \cup {Acceptor} |-> IF n = Acceptor THEN "accept" ELSE "none"]
    /\ pending_ops = [n \in Clients \cup {Acceptor} |-> 0]
    /\ born = [c \in Clients |-> 0]
    /\ failed = (IF accepting THEN {} ELSE {Acceptor}) /\ broken = FALSE

-----------------------------------------------------------------------------
(* The clients and the network *)

PeerConnects(c) ==
    /\ peer[c] = "absent" /\ peer' = [peer EXCEPT ![c] = "open"]
    /\ UNCHANGED <<sent, up, kernelVars, connVars, failed, broken, faults>>

PeerSends(c) ==
    /\ peer[c] = "open" /\ sent[c] < Messages
    /\ sent' = [sent EXCEPT ![c] = @ + 1] /\ up' = [up EXCEPT ![c] = @ + 1]
    /\ UNCHANGED <<peer, kernelVars, connVars, failed, broken, faults>>

PeerCloses(c) ==
    /\ peer[c] = "open" /\ peer' = [peer EXCEPT ![c] = "closed"]
    /\ UNCHANGED <<sent, up, kernelVars, connVars, failed, broken, faults>>

\* A reset discards what was not yet received.
PeerResets(c) ==
    /\ peer[c] \in {"open", "closed"} /\ peer' = [peer EXCEPT ![c] = "reset"]
    /\ up' = [up EXCEPT ![c] = 0]
    /\ UNCHANGED <<sent, kernelVars, connVars, failed, broken, faults>>
-----------------------------------------------------------------------------
(* The kernel completes operations, in any order, into the port *)

Done(n, op, c, ok) == [nwc |-> n, op |-> op, socket |-> c, ok |-> ok, live |-> TRUE]

AcceptCompletes(c) ==
    /\ accepting /\ peer[c] # "absent" /\ list[c] = "none"
    /\ accepting' = FALSE
    /\ list' = [list EXCEPT ![c] = "accepted"]
    /\ \E ok \in IF peer[c] = "reset" THEN BOOLEAN ELSE {TRUE} :
          port' = Append(port, Done(Acceptor, "accept", c, ok))
    /\ UNCHANGED <<peerVars, reading, writing, pending_ops, born, failed, broken, faults>>

\* Data, the end of the stream, or a failure: of the connection, or because
\* the socket has been closed under the operation.
ReadCompletes(c) ==
    /\ c \in reading
    /\ reading' = reading \ {c}
    /\ LET ok == peer[c] # "reset" /\ list[c] # "freed"
       IN /\ up[c] > 0 \/ peer[c] = "closed" \/ ~ok
          /\ port' = Append(port, Done(c, "read", c, ok))
    /\ up' = [up EXCEPT ![c] = 0]
    /\ UNCHANGED <<peer, sent, accepting, writing, connVars, failed, broken, faults>>

WriteCompletes(c) ==
    /\ writing[c] > 0
    /\ writing' = [writing EXCEPT ![c] = @ - 1]
    /\ \E ok \in IF list[c] = "freed" THEN {FALSE}
                 ELSE IF peer[c] = "reset" THEN BOOLEAN ELSE {TRUE} :
          port' = Append(port, Done(c, "write", c, ok))
    /\ UNCHANGED <<peerVars, accepting, reading, connVars, failed, broken, faults>>
-----------------------------------------------------------------------------
(* The program *)

Dying(l, p) == {n \in DOMAIN l : l[n] = "delete" /\ p[n] <= 0}

\* (mutant: the test is for more than one operation)
FreePassEarly(l, p) ==
    /\ list' = [n \in DOMAIN l |-> IF l[n] = "delete" /\ p[n] <= 1 THEN "freed" ELSE l[n]]
    /\ pending_ops' = p
    /\ broken' = (Acceptor \in Dying(l, p))

\* The pass over the delete list that ends a turn.  accept_conn is a field of
\* struct nwcs_iocp: freeing it is undefined.
FreePass(l, p) ==
    /\ list' = [n \in DOMAIN l |-> IF n \in Dying(l, p) THEN "freed" ELSE l[n]]
    /\ pending_ops' = p
    /\ broken' = (Acceptor \in Dying(l, p))

\* The head of the port, when it is still safe to look at.
Takes(op, ok) ==
    /\ ~broken /\ port # <<>>
    /\ Head(port).op = op /\ Head(port).ok = ok
    /\ Head(port).live /\ list[Head(port).nwc] # "freed"

\* A completion whose block or connection has been freed.
TakesDangling ==
    /\ ~broken /\ port # <<>>
    /\ ~Head(port).live \/ list[Head(port).nwc] = "freed"
    /\ broken' = TRUE /\ port' = Tail(port)
    /\ UNCHANGED <<peerVars, accepting, reading, writing, connVars, failed, faults>>

\* GetQueuedCompletionStatus fails: the block is freed, the connection moves to
\* the delete list, pending_ops keeps its value and the pass is skipped.
TakesFailure ==
    /\ \E op \in {"accept", "read", "write"} : Takes(op, FALSE)
    /\ list' = [list EXCEPT ![Head(port).nwc] = "delete"]
    /\ failed' = failed \cup {Head(port).nwc}
    /\ port' = Tail(port)
    /\ UNCHANGED <<peerVars, accepting, reading, writing, pending_ops, born, broken, faults>>

\* WSARecv: pending; done at once, with a completion all the same; at the end
\* of the stream, when the block is freed before its completion arrives; or
\* failed.
ReadResults(c) ==
    IF peer[c] = "reset" THEN {"failed"}
    ELSE {IF up[c] > 0 THEN "done" ELSE IF peer[c] = "closed" THEN "eof" ELSE "pending", "failed"}

\* (mutant: a read that could not be posted is counted too)
CountsFailed(result) == IF result = "eof" THEN 0 ELSE 1

\* pending_ops++ where a completion of the read is still to be handled.
Counts(result) == IF result \in {"pending", "done"} THEN 1 ELSE 0

nwcs_read_request(c, result) ==
    /\ reading' = IF result = "pending" THEN reading \cup {c} ELSE reading
    /\ up' = IF result = "done" THEN [up EXCEPT ![c] = 0] ELSE up
    /\ port' = Tail(port) \o
               (CASE result = "done" -> <<Done(c, "read", c, TRUE)>>
                  [] result = "eof" -> <<[Done(c, "read", c, TRUE) EXCEPT !.live = FALSE]>>
                  [] OTHER -> <<>>)

\* Failures that no reset explains are taken from MaxFaults.
Spends(n) == faults + n <= MaxFaults /\ faults' = faults + n
Cost(c, result) == IF result = "failed" /\ peer[c] # "reset" THEN 1 ELSE 0

\* (mutant: the next accept is posted only for a connection that was set up)
PostsAcceptIfReady(posted, ready) == posted /\ ready

\* nwcs_accept_request comes first, whatever becomes of the new connection.
PostsAccept(posted, ready) == posted

\* OP_ACCEPT: post the next accept, set the new connection up (setsockopt or
\* the association may fail: not ready), post its first read; a connection that
\* gets no read is freed on the spot.  The operation that ended is counted off
\* accept_conn, which never counted it.
HandleAccept ==
    /\ Takes("accept", TRUE)
    /\ LET c == Head(port).socket IN
       \E b \in Births, posted, ready \in BOOLEAN, result \in ReadResults(c) :
          LET counted == IF ready THEN Counts(result) ELSE 0 IN
          /\ born' = [born EXCEPT ![c] = b]
          /\ accepting' = PostsAccept(posted, ready)
          /\ Spends((IF posted THEN 0 ELSE 1) + (IF ready THEN Cost(c, result) ELSE 1))
          /\ failed' = IF posted THEN failed ELSE failed \cup {Acceptor}
          /\ IF ready THEN nwcs_read_request(c, result)
                      ELSE port' = Tail(port) /\ UNCHANGED <<reading, up>>
          /\ FreePass([list EXCEPT ![c] = IF ready /\ result \in {"pending", "done"}
                                          THEN "client" ELSE "freed"],
                      [pending_ops EXCEPT ![c] = b + counted, ![Acceptor] = @ - 1])
    /\ UNCHANGED <<peer, sent, writing>>

\* OP_READ: post the pong, then the next read; where one of them fails, or the
\* stream has ended, the connection goes to the delete list.  (An end of stream
\* that a posted read completes with is answered with a pong like a message.)
HandleRead ==
    /\ Takes("read", TRUE)
    /\ LET c == Head(port).nwc
           p == [pending_ops EXCEPT ![c] = @ - 1]
           deleted == [list EXCEPT ![c] = "delete"]
       IN \/ \E result \in ReadResults(c) :
              /\ nwcs_read_request(c, result)
              /\ writing' = [writing EXCEPT ![c] = @ + 1]
              /\ Spends(Cost(c, result))
              /\ FreePass(IF result \in {"eof", "failed"} THEN deleted ELSE list,
                          [p EXCEPT ![c] = @ + 1 + Counts(result)])
          \/ /\ Spends(Cost(c, "failed"))
             /\ port' = Tail(port)
             /\ FreePass(deleted, p)
             /\ UNCHANGED <<reading, writing, up>>
    /\ UNCHANGED <<peer, sent, accepting, born, failed>>

\* OP_WRITE: nothing but the end of the turn.
HandleWrite ==
    /\ Takes("write", TRUE)
    /\ port' = Tail(port)
    /\ FreePass(list, [pending_ops EXCEPT ![Head(port).nwc] = @ - 1])
    /\ UNCHANGED <<peerVars, accepting, reading, writing, born, failed, faults>>
-----------------------------------------------------------------------------
Kernel == \E c \in Clients : AcceptCompletes(c) \/ ReadCompletes(c) \/ WriteCompletes(c)
nwcs_run_loop == TakesDangling \/ TakesFailure \/ HandleAccept \/ HandleRead \/ HandleWrite

Next ==
    \/ \E c \in Clients : PeerConnects(c) \/ PeerSends(c) \/ PeerCloses(c) \/ PeerResets(c)
    \/ Kernel
    \/ nwcs_run_loop

\* The kernel completes what is posted and the one thread keeps turning.
Fairness == WF_vars(nwcs_run_loop)
            /\ \A c \in Clients : WF_vars(ReadCompletes(c)) /\ WF_vars(WriteCompletes(c))

Spec == Init /\ [][Next]_vars /\ Fairness
-----------------------------------------------------------------------------
TypeOK ==
    /\ peer \in [Clients -> {"absent", "open", "closed", "reset"}]
    /\ sent \in [Clients -> 0 .. Messages] /\ up \in [Clients -> 0 .. Messages]
    /\ accepting \in BOOLEAN /\ broken \in BOOLEAN
    /\ reading \subseteq Clients /\ writing \in [Clients -> Nat]
    /\ port \in Seq(Completion)
    /\ list \in [Clients \cup {Acceptor} ->
                   {"accept", "none", "accepted", "client", "delete", "freed"}]
    /\ pending_ops \in [Clients \cup {Acceptor} -> Int]
    /\ \A c \in Clients : list[c] \in {"client", "delete"} =>
                          pending_ops[c] - born[c] \in 0 .. 2 * (Messages + 1)
    /\ born \in [Clients -> Births \cup {0}]
    /\ failed \subseteq Clients \cup {Acceptor}
    /\ faults \in 0 .. MaxFaults

InPort(n, op) == {i \in DOMAIN port : port[i].nwc = n /\ port[i].op = op /\ port[i].live}

(* A connection that has been freed has no operation in flight: pending_ops is
   never below the number of them, so the kernel is not left with buffers and
   OVERLAPPEDs of freed memory -- provided malloc did not hand it out with a
   negative pending_ops ("Free unused nwc.", nwcs_iocp.cpp:262-273).  (With the
   types of the variables.) *)
FreedIsUnused ==
    /\ TypeOK
    /\ \A c \in Clients :
         list[c] = "freed" /\ born[c] >= 0
             => /\ c \notin reading /\ writing[c] = 0
                /\ InPort(c, "read") = {} /\ InPort(c, "write") = {}

(* There is always an accept under way: posted, or completed and not yet
   handled.  Only a failed accept ends it, and nothing posts one again
   (nwcs_accept_request is called from the handling of an accept alone). *)
AcceptStaysPosted ==
    ~broken => accepting \/ InPort(Acceptor, "accept") # {} \/ Acceptor \in failed

(* A connection on the delete list is freed in the end.  It is kept for ever
   when one of its operations completed with a failure (which is not counted
   off), or when malloc left a positive number in pending_ops. *)
DeletedAreFreed ==
    \A c \in Clients :
        list[c] = "delete" ~> list[c] = "freed" \/ c \in failed \/ born[c] > 0 \/ broken
=============================================================================
