------------------------- MODULE DescriptorHandover -------------------------
(***************************************************************************)
(* What the multi-process server promises about a connection, without the  *)
(* socketpairs, the descriptor numbers and the index: the master accepts   *)
(* one connection at a time and hands it to one process, that process and  *)
(* no other serves it, and it ends once, alone or with everything that its *)
(* process has or is about to get.  MultiProcess implements it.            *)
(***************************************************************************)

CONSTANTS Clients, Procs, Master

VARIABLES
    stage,  \* where each connection is
    owner   \* the process it is sent to or served by; the master's otherwise

vars == <<stage, owner>>

Init ==
    /\ stage = [c \in Clients |-> "idle"]
    /\ owner = [c \in Clients |-> Master]

Moves(c, from, to) ==
    /\ stage[c] = from
    /\ stage' = [stage EXCEPT ![c] = to]

Connect(c) == Moves(c, "idle", "backlog") /\ UNCHANGED owner

\* One connection at a time is between accept and its handing over.
Accept(c) ==
    /\ \A d \in Clients : stage[d] # "accepted"
    /\ Moves(c, "backlog", "accepted")
    /\ UNCHANGED owner

HandOver(c, p) ==
    /\ Moves(c, "accepted", "sent")
    /\ owner' = [owner EXCEPT ![c] = p]

\* There is no process to hand it to.
Drop(c) == Moves(c, "accepted", "closed") /\ UNCHANGED owner

Receive(c) == Moves(c, "sent", "served") /\ UNCHANGED owner

Close(c) ==
    /\ Moves(c, "served", "closed")
    /\ owner' = [owner EXCEPT ![c] = Master]

\* A process leaves its loop: what it serves and what was sent to it ends.
Leave(p) ==
    LET gone == {c \in Clients : stage[c] \in {"sent", "served"} /\ owner[c] = p}
    IN /\ stage' = [c \in Clients |-> IF c \in gone THEN "closed" ELSE stage[c]]
       /\ owner' = [c \in Clients |-> IF c \in gone THEN Master ELSE owner[c]]

Next ==
    \/ \E c \in Clients : Connect(c) \/ Accept(c) \/ Drop(c) \/ Receive(c) \/ Close(c)
    \/ \E c \in Clients, p \in Procs : HandOver(c, p)
    \/ \E p \in Procs : Leave(p)

Spec == Init /\ [][Next]_vars
=============================================================================
