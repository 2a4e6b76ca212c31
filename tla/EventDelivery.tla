---------------------------- MODULE EventDelivery ----------------------------
(***************************************************************************)
(* What an event loop promises to the handlers registered with it, with no *)
(* entries, no lists and no deferred free: an event is delivered to the    *)
(* open handler it was raised for, hang-up before input before output, and *)
(* a handler that closes loses the events it had not been given yet.       *)
(* NwcEpollLooper implements it.                                           *)
(***************************************************************************)
EXTENDS FiniteSets

CONSTANT Handlers

VARIABLES
  fresh,  \* handlers that were not created yet
  open,   \* handlers that are open
  due     \* events raised by the last poll and not delivered yet

vars == <<fresh, open, due>>

Bits == {"HUP", "IN", "OUT"}
NothingDue == [h \in Handlers |-> {}]

Init ==
  /\ open \subseteq Handlers
  /\ fresh = Handlers \ open
  /\ due = NothingDue

\* A new poll, only once the last one has been served in full.
Poll ==
  /\ due = NothingDue
  /\ due' \in [Handlers -> SUBSET Bits]
  /\ \A h \in Handlers : due'[h] # {} => h \in open
  /\ UNCHANGED <<fresh, open>>

Close(h) ==
  /\ open' = open \ {h}
  /\ UNCHANGED fresh

\* Outside a batch the owner of a handler may close it.
CloseIdle ==
  /\ due = NothingDue
  /\ \E h \in open : Close(h)
  /\ UNCHANGED due

\* One event reaches its handler, which may close itself or open another one.
Deliver ==
  \E h \in open, bit \in Bits :
    /\ bit \in due[h]
    /\ bit = "IN" => "HUP" \notin due[h]
    /\ bit = "OUT" => due[h] = {"OUT"}
    /\ \/ /\ due' = [due EXCEPT ![h] = @ \ {bit}]
          /\ \/ UNCHANGED <<fresh, open>>
             \/ \E g \in fresh : open' = open \cup {g} /\ fresh' = fresh \ {g}
       \/ /\ due' = [due EXCEPT ![h] = {}]
          /\ Close(h)

Next == Poll \/ CloseIdle \/ Deliver

\* Whatever has been raised is delivered.
Spec == Init /\ [][Next]_vars /\ WF_vars(Deliver)

=============================================================================
