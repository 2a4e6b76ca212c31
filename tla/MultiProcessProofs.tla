-------------------------- MODULE MultiProcessProofs --------------------------
(* The multi-process server for every number of workers, connections and     *)
(* signals: the master leaves no worker behind, and the out-of-range index a *)
(* signal can cause is used for one connection only, on the way out; an open *)
(* descriptor is in one place of the system and closed ones in none; the     *)
(* server implements DescriptorHandover; and no worker leaves its loop       *)
(* behind the master's back before AliasFd connections have been made.       *)
EXTENDS MultiProcess, FiniteSetTheorems, SequenceTheorems, TLAPS

Typed ==
  /\ i \in 0 .. N /\ index \in Nat /\ chosen \in Nat
  /\ proc \in [Workers -> {"none", "failed", "run", "zombie", "reaped"}]
  /\ q \in [Procs -> Seq(Commands)]
  /\ held \subseteq Clients

ExitQueued == Exit \in Range(q[Master])

\* What get_worker reads between its two statements is in range unless a
\* signal came in between.
IndexBetween == pc = "inc1" => index < N \/ ExitQueued

\* The workers the exit loop has passed are gone.
PassedAreGone ==
  /\ pc \in {"notify", "wait", "done"} => \A w \in Workers : w < i => proc[w] # "run"
  /\ pc = "wait" => i < N
  /\ pc = "done" => i = N

IInv == Typed /\ IndexBetween /\ WildChoiceOnlyWhenStopping /\ PassedAreGone

-----------------------------------------------------------------------------
\* What a queue holds once a command is appended to it.
LEMMA RangeOfAppend ==
  ASSUME NEW s \in Seq(Commands), NEW m \in Commands
  PROVE  /\ Append(s, m) \in Seq(Commands)
         /\ m \in Range(Append(s, m))
         /\ \A x \in Range(s) : x \in Range(Append(s, m))
<1>1. /\ Append(s, m) \in Seq(Commands)
      /\ Len(Append(s, m)) = Len(s) + 1
      /\ Append(s, m)[Len(s) + 1] = m
      /\ \A k \in 1 .. Len(s) : Append(s, m)[k] = s[k]
  OBVIOUS
<1>2. DOMAIN Append(s, m) = 1 .. Len(s) + 1 /\ DOMAIN s = 1 .. Len(s) /\ Len(s) \in Nat
  BY <1>1
<1>3. QED
  BY <1>1, <1>2 DEF Range

\* Commands that the actions append.
LEMMA CommandsSent ==
  /\ Exit \in Commands
  /\ \A c \in Clients : Fd(c) \in Commands
BY DEF Commands

\* What the queues are after one of them got a command more.
LEMMA QueuesAfterSend ==
  ASSUME NEW f \in [Procs -> Seq(Commands)], NEW p \in Procs, NEW m \in Commands
  PROVE  /\ [f EXCEPT ![p] = Append(f[p], m)] \in [Procs -> Seq(Commands)]
         /\ m \in Range([f EXCEPT ![p] = Append(f[p], m)][p])
         /\ \A r \in Procs : \A x \in Range(f[r]) :
              x \in Range([f EXCEPT ![p] = Append(f[p], m)][r])
<1>1. /\ f[p] \in Seq(Commands)
      /\ Append(f[p], m) \in Seq(Commands)
      /\ m \in Range(Append(f[p], m))
      /\ \A x \in Range(f[p]) : x \in Range(Append(f[p], m))
  BY RangeOfAppend
<1>2. QED
  BY <1>1

\* get_worker's index is a number whatever it was.
LEMMA IndexMoves ==
  ASSUME NEW k \in Nat
  PROVE  k % N \in 0 .. N - 1 /\ (k % N) + 1 \in Nat
BY ParametersAssumption

LEMMA InitInv == Init => IInv
<1> SUFFICES ASSUME Init PROVE IInv
  OBVIOUS
<1> USE ParametersAssumption
<1>1. Typed
  <2>1. <<>> \in Seq(Commands)
    OBVIOUS
  <2>2. QED
    BY <2>1 DEF Init, Typed
<1>2. QED
  BY <1>1 DEF Init, IInv, IndexBetween, WildChoiceOnlyWhenStopping, PassedAreGone

\* Leaving the loop, by a process whose loop is running.
LEMMA LeaveLoopInv ==
  ASSUME IInv, NEW p \in Procs, LeaveLoop(p),
         p = Master => pc \in InLoop, p # Master => proc[p] = "run"
  PROVE  IInv'
<1> USE ParametersAssumption
<1>1. Typed'
  <2>1. <<>> \in Seq(Commands)
    OBVIOUS
  <2>2. p # Master => p \in Workers
    BY DEF Procs, Master, Workers
  <2>3. QED
    BY <2>1, <2>2 DEF IInv, Typed, LeaveLoop
<1>2. CASE p = Master
  BY <1>1, <1>2 DEF IInv, Typed, LeaveLoop, IndexBetween, WildChoiceOnlyWhenStopping,
     PassedAreGone, Workers
<1>3. CASE p # Master
  <2>1. q'[Master] = q[Master]
    BY <1>3 DEF IInv, Typed, LeaveLoop, Procs, Master
  <2>2. \A w \in Workers : proc'[w] = "run" => proc[w] = "run"
    BY <1>3 DEF IInv, Typed, LeaveLoop
  <2>3. QED
    BY <1>1, <1>3, <2>1, <2>2 DEF IInv, LeaveLoop, IndexBetween, ExitQueued,
       WildChoiceOnlyWhenStopping, PassedAreGone
<1>4. QED
  BY <1>2, <1>3

LEMMA NextInv == IInv /\ [Next]_vars => IInv'
<1> SUFFICES ASSUME IInv, [Next]_vars PROVE IInv'
  OBVIOUS
<1> USE ParametersAssumption
<1> USE DEF IInv, IndexBetween, WildChoiceOnlyWhenStopping, PassedAreGone, ExitQueued
<1>0. Master \in Procs /\ N \in Nat /\ \A w \in Workers : w \in Procs /\ w # Master
  BY DEF Master, Procs, Workers
<1>1. CASE \E c \in Clients : Connect(c)
  BY <1>1 DEF Connect, Typed
<1>2. CASE Signal
  <2>0. \/ pc \in InLoop /\ q' = [q EXCEPT ![Master] = Append(q[Master], Exit)] /\ pc' = pc
        \/ q' = q /\ pc' = "stuck"
        \/ q' = q /\ pc' = pc /\ pc \notin InLoop
    BY <1>2 DEF Signal
  <2>1. Typed'
    <3>1. q' \in [Procs -> Seq(Commands)]
      <4>1. q \in [Procs -> Seq(Commands)] /\ Master \in Procs /\ Exit \in Commands
        BY <1>0, CommandsSent DEF Typed
      <4>2. [q EXCEPT ![Master] = Append(q[Master], Exit)] \in [Procs -> Seq(Commands)]
        BY <4>1, QueuesAfterSend
      <4>3. QED
        BY <2>0, <4>1, <4>2
    <3>2. QED
      BY <1>2, <3>1, IndexMoves DEF Signal, Typed
  <2>2. Exit \in Range(q[Master]) => Exit \in Range(q'[Master])
    BY <1>0, <2>0, CommandsSent, QueuesAfterSend DEF Typed
  <2>3. pc' \in InLoop => Exit \in Range(q'[Master])
    BY <1>0, <2>0, CommandsSent, QueuesAfterSend DEF Typed, InLoop
  <2>4. IndexBetween' /\ WildChoiceOnlyWhenStopping'
    BY <2>3 DEF InLoop
  <2>5. PassedAreGone'
    <3>1. i' = i /\ proc' = proc
      BY <1>2 DEF Signal
    <3>2. pc' \in {"notify", "wait", "done"} => pc' = pc
      BY <2>0
    <3>3. QED
      BY <3>1, <3>2
  <2>6. QED
    BY <2>1, <2>4, <2>5
<1>3. CASE Fork
  BY <1>3 DEF Fork, Typed, Workers
<1>4. CASE InstallHandlers \/ InitMaster \/ Select \/ Accept \/ AcceptEINTR
  BY <1>4 DEF InstallHandlers, InitMaster, Select, Accept, AcceptEINTR, Typed
<1>5. CASE SocketpairFails
  BY <1>5 DEF SocketpairFails, Typed, Workers
<1>6. CASE GetWorkerMod
  BY <1>6 DEF GetWorkerMod, Wrapped, Typed
<1>7. CASE GetWorkerInc
  BY <1>7 DEF GetWorkerInc, Typed, Workers
<1>8. CASE SendFd
  <2>1. Typed'
    <3>1. \/ UNCHANGED q
          \/ \E c \in held, p \in Procs : q' = [q EXCEPT ![p] = Append(q[p], Fd(c))]
      BY <1>0, <1>8 DEF SendFd
    <3>2. ASSUME NEW c \in held, NEW p \in Procs,
                 q' = [q EXCEPT ![p] = Append(q[p], Fd(c))]
          PROVE  q' \in [Procs -> Seq(Commands)]
      <4>1. Fd(c) \in Commands /\ q \in [Procs -> Seq(Commands)]
        BY CommandsSent DEF Typed
      <4>2. QED
        BY <3>2, <4>1, QueuesAfterSend
    <3>3. q' \in [Procs -> Seq(Commands)]
      BY <3>1, <3>2 DEF Typed
    <3>4. QED
      BY <1>8, <3>3 DEF SendFd, Typed
  <2>2. QED
    BY <1>8, <2>1 DEF SendFd
<1>9. CASE Notify
  <2>1. Typed'
    <3>1. i \in Workers
      BY <1>9 DEF Notify, Typed, Workers
    <3>2. q' \in [Procs -> Seq(Commands)]
      <4>1. q \in [Procs -> Seq(Commands)] /\ i \in Procs /\ Exit \in Commands
        BY <1>0, <3>1, CommandsSent DEF Typed
      <4>2. \/ q' = q
            \/ \E p \in Procs : q' = [q EXCEPT ![p] = Append(q[p], Exit)]
        BY <1>9, <4>1 DEF Notify
      <4>3. ASSUME NEW p \in Procs, q' = [q EXCEPT ![p] = Append(q[p], Exit)]
            PROVE  q' \in [Procs -> Seq(Commands)]
        BY <4>1, <4>3, QueuesAfterSend
      <4>4. QED
        BY <4>1, <4>2, <4>3
    <3>3. QED
      BY <1>9, <3>2, IndexMoves DEF Notify, Typed
  <2>2. QED
    BY <1>9, <2>1 DEF Notify
<1>10. CASE Wait
  <2>1. i \in Workers => proc'[i] # "run"
    BY <1>10 DEF Wait, Awaited, Children, Typed
  <2>2. \A w \in Workers : proc'[w] = "run" => proc[w] = "run"
    BY <1>10 DEF Wait, Awaited, Children, Typed
  <2>3. Typed'
    <3>1. proc' \in [Workers -> {"none", "failed", "run", "zombie", "reaped"}]
      BY <1>10 DEF Wait, Typed
    <3>2. i' \in 0 .. N
      BY <1>10 DEF Wait, Typed
    <3>3. QED
      BY <1>10, <3>1, <3>2 DEF Wait, Typed
  <2>4. PassedAreGone'
    BY <1>10, <2>1, <2>2 DEF Wait, Typed, Workers
  <2>5. QED
    BY <1>10, <2>3, <2>4 DEF Wait
<1>11. CASE MasterExits
  BY <1>11 DEF MasterExits, Typed
<1>12. CASE AcceptFails
  BY <1>0, <1>12, LeaveLoopInv DEF AcceptFails, InLoop
<1>13. CASE \E p \in Procs : LoopStep(p)
  <2>1. PICK p \in Procs : LoopStep(p)
    BY <1>13
  <2>2. CASE ReadExitCmd(p) \/ AcceptOnNoSocket(p)
    BY <2>2, LeaveLoopInv DEF ReadExitCmd, AcceptOnNoSocket, Looping, InLoop
  <2>3. CASE CloseConn(p)
    BY <2>3 DEF CloseConn, Typed
  <2>4. CASE ReadFdCmd(p)
    <3>1. Typed'
      BY <2>4 DEF ReadFdCmd, Typed
    <3>2. CASE p = Master
      BY <2>4, <3>1, <3>2 DEF ReadFdCmd, Looping
    <3>3. CASE p # Master
      <4>1. q'[Master] = q[Master]
        BY <1>0, <2>4, <3>3 DEF ReadFdCmd, Typed
      <4>2. QED
        BY <2>4, <3>1, <4>1 DEF ReadFdCmd
    <3>4. QED
      BY <3>2, <3>3
  <2>5. QED
    BY <2>1, <2>2, <2>3, <2>4 DEF LoopStep, ReadCmd
<1>14. CASE UNCHANGED vars
  BY <1>14 DEF vars, Typed
<1>15. QED
  BY <1>1, <1>2, <1>3, <1>4, <1>5, <1>6, <1>7, <1>8, <1>9, <1>10, <1>11, <1>12,
     <1>13, <1>14 DEF Next, MasterStep

THEOREM Invariance == Spec => []IInv
BY InitInv, NextInv, PTL DEF Spec

\* Whatever failed while the server ran, the master exits after all its
\* workers (code: the notify and waitpid loop at the end of
\* nwc_server_process).
THEOREM MasterExitsLast == Spec => []NoOrphanedWorker
<1>1. IInv => NoOrphanedWorker
  BY ParametersAssumption DEF IInv, PassedAreGone, NoOrphanedWorker, Workers
<1>2. QED
  BY <1>1, Invariance, PTL

\* An index past the end of worker_ctxs is only used once the exit command is
\* queued for the master (code: get_worker interrupted by exit_handler).
THEOREM WildChoiceIsTheLast == Spec => []WildChoiceOnlyWhenStopping
<1>1. IInv => WildChoiceOnlyWhenStopping
  BY DEF IInv
<1>2. QED
  BY <1>1, Invariance, PTL

-----------------------------------------------------------------------------
(* The descriptors.  The argument looks at a step twice: first what it does  *)
(* with queues and lists, a sequence at a time, then, as one of the          *)
(* movements below, with sets of connections alone.  Placed and the          *)
(* refinement are preserved by movements; no sequence appears in those       *)
(* proofs any more.                                                          *)

Served == [conn : Clients, fd : 0 .. Cardinality(Clients)]

\* The types the counting needs beyond Typed.
Shapes ==
  /\ pc \in InLoop \cup {"fork", "handlers", "notify", "wait", "done", "stuck"}
  /\ index \in 0 .. N + 1 /\ chosen \in 0 .. N
  /\ pc \in {"inc1", "inc2"} => index <= N
  /\ list \in [Procs -> Seq(Served)]
  /\ conn \in [Clients -> {"idle", "backlog", "open", "closed"}]
  /\ signals \in 0 .. MaxSignals
  /\ \A p \in Procs : Len(q[p]) <= QCap

\* A value occurs in a sequence once at most.
Once(s, x) == \A j, k \in DOMAIN s : s[j] = x /\ s[k] = x => j = k

\* No queue and no list has a connection at two of its positions.
QueuesOnce == \A p \in Procs, c \in Clients : Once(q[p], Fd(c))

ListsOnce ==
  \A p \in Procs : \A j, k \in DOMAIN list[p] :
    list[p][j].conn = list[p][k].conn => j = k

\* What one process has: the connections on their way to it, and its own.
At(p) == QueuedConns(p) \cup ListConns(p)

\* The open connections are split among the master's hand, the queues and the
\* lists.
Placed ==
  /\ \A p \in Procs : QueuedConns(p) \cap ListConns(p) = {} /\ At(p) \cap held = {}
  /\ \A p, r \in Procs : p # r => At(p) \cap At(r) = {}
  /\ \A c \in Clients : conn[c] = "open" <=> c \in held \/ \E p \in Procs : c \in At(p)

\* The master holds one connection at most, and none before accept.
InHand ==
  /\ \A c, d \in held : c = d
  /\ held # {} => pc \in {"mod1", "inc1", "mod2", "inc2", "send", "stuck"}

\* What a step does with a connection, process by process: the queues and lists
\* of the others stay what they are.
Keeps(p) == QueuedConns(p)' = QueuedConns(p) /\ ListConns(p)' = ListConns(p)
OthersKeep(p) == \A r \in Procs \ {p} : Keeps(r)
AllKeep == \A r \in Procs : Keeps(r)

Connects(c) ==
  /\ conn[c] = "idle" /\ conn' = [conn EXCEPT ![c] = "backlog"]
  /\ held' = held /\ AllKeep
IsAccepted(c) ==
  /\ held = {} /\ held' = {c}
  /\ conn[c] = "backlog" /\ conn' = [conn EXCEPT ![c] = "open"]
  /\ AllKeep
IsHandedOver(c, p) ==
  /\ c \in held /\ held' = {} /\ conn' = conn
  /\ QueuedConns(p)' = QueuedConns(p) \cup {c} /\ ListConns(p)' = ListConns(p)
  /\ OthersKeep(p)
IsDropped(c) ==
  /\ c \in held /\ held' = {} /\ conn' = [conn EXCEPT ![c] = "closed"]
  /\ AllKeep
IsReceived(c, p) ==
  /\ c \in QueuedConns(p) /\ held' = held /\ conn' = conn
  /\ QueuedConns(p)' = QueuedConns(p) \ {c} /\ ListConns(p)' = ListConns(p) \cup {c}
  /\ OthersKeep(p)
IsClosed(c, p) ==
  /\ c \in ListConns(p) /\ held' = held /\ conn' = [conn EXCEPT ![c] = "closed"]
  /\ QueuedConns(p)' = QueuedConns(p) /\ ListConns(p)' = ListConns(p) \ {c}
  /\ OthersKeep(p)
Leaves(p) ==
  /\ held' = held /\ conn' = [c \in Clients |-> IF c \in At(p) THEN "closed" ELSE conn[c]]
  /\ QueuedConns(p)' = {} /\ ListConns(p)' = {}
  /\ OthersKeep(p)
NothingMoves == held' = held /\ conn' = conn /\ AllKeep

Movement ==
  \/ \E c \in Clients : Connects(c) \/ IsAccepted(c) \/ IsDropped(c)
  \/ \E c \in Clients, p \in Procs : IsHandedOver(c, p) \/ IsReceived(c, p) \/ IsClosed(c, p)
  \/ \E p \in Procs : Leaves(p)
  \/ NothingMoves

HInv == Shapes /\ QueuesOnce /\ ListsOnce /\ Placed /\ InHand

-----------------------------------------------------------------------------
(* Sequences of commands and of connections *)

LEMMA CommandsDiffer ==
  ASSUME NEW c \in Clients, NEW d \in Clients
  PROVE  Fd(c) # Exit /\ (Fd(c) = Fd(d) => c = d)
<1>1. Fd(c) # Exit
  <2>1. Fd(c).cmd = "CMD_FD" /\ Exit.cmd = "CMD_EXIT"
    BY DEF Fd, Exit
  <2>2. QED
    BY <2>1
<1>2. Fd(c).fd = c /\ Fd(d).fd = d
  BY DEF Fd
<1>3. QED
  BY <1>1, <1>2

LEMMA AppendOccurrences ==
  ASSUME NEW S, NEW s \in Seq(S), NEW m \in S, NEW x
  PROVE  /\ x \in Range(Append(s, m)) <=> x \in Range(s) \/ x = m
         /\ Once(s, x) /\ (x = m => x \notin Range(s)) => Once(Append(s, m), x)
<1>1. /\ Append(s, m) \in Seq(S)
      /\ DOMAIN s = 1 .. Len(s) /\ DOMAIN Append(s, m) = 1 .. Len(s) + 1 /\ Len(s) \in Nat
      /\ Append(s, m)[Len(s) + 1] = m
      /\ \A k \in 1 .. Len(s) : Append(s, m)[k] = s[k]
  OBVIOUS
<1>2. QED
  BY <1>1 DEF Range, Once

LEMMA TailOccurrences ==
  ASSUME NEW S, NEW s \in Seq(S), s # <<>>, NEW x
  PROVE  /\ x \in Range(s) <=> x \in Range(Tail(s)) \/ x = Head(s)
         /\ Once(s, x) => Once(Tail(s), x)
         /\ Once(s, x) /\ x = Head(s) => x \notin Range(Tail(s))
<1>1. /\ Tail(s) \in Seq(S)
      /\ DOMAIN s = 1 .. Len(s) /\ DOMAIN Tail(s) = 1 .. Len(s) - 1 /\ Len(s) \in Nat \ {0}
      /\ Head(s) = s[1]
      /\ \A k \in 1 .. Len(s) - 1 : Tail(s)[k] = s[k + 1]
  BY HeadTailProperties
<1>2. \A k \in 1 .. Len(s) - 1 : k + 1 \in 1 .. Len(s)
  BY <1>1
<1>4. x \in Range(s) <=> x \in Range(Tail(s)) \/ x = Head(s)
  <2>1. x \in Range(s) <=> \E k \in 1 .. Len(s) : s[k] = x
    BY <1>1 DEF Range
  <2>2. x \in Range(Tail(s)) <=> \E k \in 1 .. Len(s) - 1 : s[k + 1] = x
    BY <1>1 DEF Range
  <2>3. ASSUME NEW k \in 1 .. Len(s), k # 1
        PROVE  k - 1 \in 1 .. Len(s) - 1 /\ s[(k - 1) + 1] = s[k]
    BY <1>1, <2>3
  <2>4. 1 \in 1 .. Len(s)
    BY <1>1
  <2>5. QED
    BY <1>1, <1>2, <2>1, <2>2, <2>3, <2>4
<1>5. ASSUME Once(s, x) PROVE Once(Tail(s), x)
  BY <1>1, <1>2, <1>5 DEF Once
<1>6. ASSUME Once(s, x), x = Head(s), x \in Range(Tail(s)) PROVE FALSE
  BY <1>1, <1>2, <1>6 DEF Range, Once
<1>7. QED
  BY <1>4, <1>5, <1>6

LEMMA RemoveAtElements ==
  ASSUME NEW S, NEW s \in Seq(S), NEW k \in DOMAIN s
  PROVE  /\ RemoveAt(s, k) \in Seq(S)
         /\ Len(RemoveAt(s, k)) = Len(s) - 1
         /\ \A j \in 1 .. Len(s) - 1 :
              RemoveAt(s, k)[j] = IF j < k THEN s[j] ELSE s[j + 1]
<1>1. DOMAIN s = 1 .. Len(s) /\ Len(s) \in Nat
  OBVIOUS
<1>2. /\ SubSeq(s, 1, k - 1) \in Seq(S) /\ Len(SubSeq(s, 1, k - 1)) = k - 1
      /\ \A j \in 1 .. k - 1 : SubSeq(s, 1, k - 1)[j] = s[j]
  BY <1>1
<1>3. /\ SubSeq(s, k + 1, Len(s)) \in Seq(S) /\ Len(SubSeq(s, k + 1, Len(s))) = Len(s) - k
      /\ \A j \in 1 .. Len(s) - k : SubSeq(s, k + 1, Len(s))[j] = s[k + j]
  BY <1>1
<1> DEFINE a == SubSeq(s, 1, k - 1)
           b == SubSeq(s, k + 1, Len(s))
<1>4. /\ a \o b \in Seq(S)
      /\ Len(a \o b) = Len(a) + Len(b)
      /\ \A j \in 1 .. Len(a) + Len(b) :
           (a \o b)[j] = IF j <= Len(a) THEN a[j] ELSE b[j - Len(a)]
  BY <1>2, <1>3, ConcatProperties
<1>5. RemoveAt(s, k) = a \o b
  BY DEF RemoveAt
<1>6. Len(a) + Len(b) = Len(s) - 1
  BY <1>1, <1>2, <1>3
<1>7. ASSUME NEW j \in 1 .. Len(s) - 1
      PROVE  (a \o b)[j] = IF j < k THEN s[j] ELSE s[j + 1]
  <2>1. CASE j < k
    BY <1>1, <1>2, <1>4, <1>6, <2>1
  <2>2. CASE ~(j < k)
    <3>1. j - (k - 1) \in 1 .. Len(s) - k /\ k + (j - (k - 1)) = j + 1
      BY <1>1, <2>2
    <3>2. (a \o b)[j] = b[j - (k - 1)]
      <4>1. Len(a) = k - 1 /\ ~ (j <= Len(a)) /\ j \in 1 .. Len(a) + Len(b)
        BY <1>1, <1>2, <1>6, <2>2
      <4>2. (a \o b)[j] = b[j - Len(a)]
        BY <1>4, <4>1
      <4>3. QED
        BY <4>1, <4>2
    <3>3. QED
      BY <1>3, <2>2, <3>1, <3>2
  <2>3. QED
    BY <2>1, <2>2
<1>8. QED
  BY <1>4, <1>5, <1>6, <1>7
-----------------------------------------------------------------------------
(* Movements of connections *)

LEMMA PlacedInit == Init => Placed
<1> SUFFICES ASSUME Init PROVE Placed
  OBVIOUS
<1>1. \A p \in Procs : QueuedConns(p) = {} /\ ListConns(p) = {}
  BY DEF Init, QueuedConns, ListConns, Range
<1>2. QED
  BY <1>1 DEF Init, Placed, At

LEMMA MovementKeepsPlaced ==
  ASSUME Placed, InHand, Shapes, Movement
  PROVE  Placed'
<1> USE DEF Placed, At, Keeps, OthersKeep, AllKeep
<1>1. ASSUME NEW c \in Clients, Connects(c) PROVE Placed'
  BY <1>1 DEF Connects, Shapes
<1>2. ASSUME NEW c \in Clients, IsAccepted(c) PROVE Placed'
  BY <1>2 DEF IsAccepted, Shapes
<1>3. ASSUME NEW c \in Clients, IsDropped(c) PROVE Placed'
  BY <1>3 DEF IsDropped, Shapes, InHand
<1>4. ASSUME NEW c \in Clients, NEW p \in Procs, IsHandedOver(c, p) PROVE Placed'
  BY <1>4 DEF IsHandedOver, InHand
<1>5. ASSUME NEW c \in Clients, NEW p \in Procs, IsReceived(c, p) PROVE Placed'
  BY <1>5 DEF IsReceived
<1>6. ASSUME NEW c \in Clients, NEW p \in Procs, IsClosed(c, p) PROVE Placed'
  <2>1. c \notin held /\ c \notin QueuedConns(p) /\ \A r \in Procs \ {p} : c \notin At(r)
    BY <1>6 DEF IsClosed
  <2>2. \A r \in Procs : At(r)' = IF r = p THEN At(p) \ {c} ELSE At(r)
    BY <1>6, <2>1 DEF IsClosed
  <2>3. \A d \in Clients : conn'[d] = "open" <=> conn[d] = "open" /\ d # c
    BY <1>6 DEF IsClosed, Shapes
  <2>4. \A r \in Procs : QueuedConns(r)' \cap ListConns(r)' = {} /\ At(r)' \cap held' = {}
    BY <1>6, <2>2 DEF IsClosed
  <2>5. \A r, s \in Procs : r # s => At(r)' \cap At(s)' = {}
    BY <2>2
  <2>6. \A d \in Clients : conn'[d] = "open" <=> d \in held' \/ \E r \in Procs : d \in At(r)'
    <3>1. held' = held
      BY <1>6 DEF IsClosed
    <3>2. \A d \in Clients, r \in Procs : d \in At(r)' <=> d \in At(r) /\ d # c
      BY <2>1, <2>2
    <3> HIDE DEF At
    <3>3. QED
      BY <2>1, <2>3, <3>1, <3>2
  <2>7. QED
    BY <2>4, <2>5, <2>6
<1>7. ASSUME NEW p \in Procs, Leaves(p) PROVE Placed'
  <2>2. \A r \in Procs : At(r)' = IF r = p THEN {} ELSE At(r)
    BY <1>7 DEF Leaves
  <2>3. \A d \in Clients : conn'[d] = "open" <=> conn[d] = "open" /\ d \notin At(p)
    BY <1>7 DEF Leaves
  <2>4. \A r \in Procs : QueuedConns(r)' \cap ListConns(r)' = {} /\ At(r)' \cap held' = {}
    BY <1>7, <2>2 DEF Leaves
  <2>5. \A r, s \in Procs : r # s => At(r)' \cap At(s)' = {}
    BY <2>2
  <2>6. \A d \in Clients : conn'[d] = "open" <=> d \in held' \/ \E r \in Procs : d \in At(r)'
    <3>1. held' = held
      BY <1>7 DEF Leaves
    <3>2. \A d \in Clients, r \in Procs : d \in At(r)' <=> d \in At(r) /\ d \notin At(p)
      BY <2>2
    <3>3. \A d \in Clients : d \in held => d \notin At(p)
      OBVIOUS
    <3> HIDE DEF At
    <3>4. QED
      BY <2>3, <3>1, <3>2, <3>3
  <2>7. QED
    BY <2>4, <2>5, <2>6
<1>8. ASSUME NothingMoves PROVE Placed'
  BY <1>8 DEF NothingMoves
<1>9. QED
  BY <1>1, <1>2, <1>3, <1>4, <1>5, <1>6, <1>7, <1>8 DEF Movement

-----------------------------------------------------------------------------
(* What sending, reading and closing do to queues and lists *)

\* A command is appended to the queue of p.
LEMMA QueuesAfterAppend ==
  ASSUME Typed, QueuesOnce, NEW p \in Procs, NEW m \in Commands,
         m # Exit => m \notin Range(q[p]),
         q' = [q EXCEPT ![p] = Append(q[p], m)]
  PROVE  /\ QueuesOnce'
         /\ QueuedConns(p)' = QueuedConns(p) \cup {c \in Clients : Fd(c) = m}
         /\ \A r \in Procs \ {p} : QueuedConns(r)' = QueuedConns(r)
<1>1. /\ q \in [Procs -> Seq(Commands)] /\ q[p] \in Seq(Commands)
      /\ q'[p] = Append(q[p], m) /\ \A r \in Procs \ {p} : q'[r] = q[r]
  BY DEF Typed
<1>2. ASSUME NEW c \in Clients
      PROVE  /\ Fd(c) \in Range(q'[p]) <=> Fd(c) \in Range(q[p]) \/ Fd(c) = m
             /\ Once(q'[p], Fd(c))
  <2>1. Once(q[p], Fd(c)) /\ (Fd(c) = m => Fd(c) \notin Range(q[p]))
    BY CommandsDiffer DEF QueuesOnce
  <2>2. QED
    BY <1>1, <2>1, AppendOccurrences
<1>3. QED
  BY <1>1, <1>2 DEF QueuesOnce, QueuedConns

\* The command of c is taken from the queue of p.
LEMMA QueuesAfterRead ==
  ASSUME Typed, QueuesOnce, NEW p \in Procs, NEW c \in Clients,
         q[p] # <<>>, Head(q[p]) = Fd(c), q' = [q EXCEPT ![p] = Tail(q[p])]
  PROVE  /\ QueuesOnce'
         /\ c \in QueuedConns(p) /\ QueuedConns(p)' = QueuedConns(p) \ {c}
         /\ \A r \in Procs \ {p} : QueuedConns(r)' = QueuedConns(r)
<1>1. /\ q \in [Procs -> Seq(Commands)] /\ q[p] \in Seq(Commands)
      /\ q'[p] = Tail(q[p]) /\ \A r \in Procs \ {p} : q'[r] = q[r]
  BY DEF Typed
<1>2. ASSUME NEW d \in Clients
      PROVE  /\ Fd(d) \in Range(q[p]) <=> Fd(d) \in Range(q'[p]) \/ d = c
             /\ Once(q'[p], Fd(d))
             /\ d = c => Fd(d) \notin Range(q'[p])
  <2>1. Once(q[p], Fd(d)) /\ (Fd(d) = Head(q[p]) <=> d = c)
    BY CommandsDiffer DEF QueuesOnce
  <2>2. QED
    BY <1>1, <2>1, TailOccurrences
<1>3. QED
  BY <1>1, <1>2 DEF QueuesOnce, QueuedConns

\* A connection is appended to the list of p.
LEMMA ListsAfterAppend ==
  ASSUME list \in [Procs -> Seq(Served)], ListsOnce, NEW p \in Procs, NEW e \in Served,
         e.conn \notin ListConns(p), list' = [list EXCEPT ![p] = Append(list[p], e)]
  PROVE  /\ list' \in [Procs -> Seq(Served)] /\ ListsOnce'
         /\ ListConns(p)' = ListConns(p) \cup {e.conn}
         /\ \A r \in Procs \ {p} : ListConns(r)' = ListConns(r)
<1>1. /\ list[p] \in Seq(Served) /\ Append(list[p], e) \in Seq(Served)
      /\ DOMAIN list[p] = 1 .. Len(list[p]) /\ Len(list[p]) \in Nat
      /\ DOMAIN Append(list[p], e) = 1 .. Len(list[p]) + 1
      /\ Append(list[p], e)[Len(list[p]) + 1] = e
      /\ \A k \in 1 .. Len(list[p]) : Append(list[p], e)[k] = list[p][k]
  OBVIOUS
<1>2. list'[p] = Append(list[p], e) /\ \A r \in Procs \ {p} : list'[r] = list[r]
  OBVIOUS
<1>3. list' \in [Procs -> Seq(Served)]
  BY <1>1
<1>4. \A k \in 1 .. Len(list[p]) : list[p][k].conn # e.conn
  BY <1>1 DEF ListConns
<1>5. \A j, k \in DOMAIN list'[p] : list'[p][j].conn = list'[p][k].conn => j = k
  BY <1>1, <1>2, <1>4 DEF ListsOnce
<1>6. ListConns(p)' = ListConns(p) \cup {e.conn}
  <2>1. ListConns(p) = {list[p][k].conn : k \in 1 .. Len(list[p])}
    BY <1>1 DEF ListConns
  <2>2. ListConns(p)' = {Append(list[p], e)[k].conn : k \in 1 .. Len(list[p]) + 1}
    BY <1>1, <1>2 DEF ListConns
  <2>3. \A k \in 1 .. Len(list[p]) + 1 : k \in 1 .. Len(list[p]) \/ k = Len(list[p]) + 1
    BY <1>1
  <2>4. QED
    BY <1>1, <2>1, <2>2, <2>3
<1>7. QED
  BY <1>2, <1>3, <1>5, <1>6 DEF ListsOnce, ListConns

\* The k-th connection is taken from the list of p.
LEMMA ListsAfterRemove ==
  ASSUME list \in [Procs -> Seq(Served)], ListsOnce, NEW p \in Procs,
         NEW k \in DOMAIN list[p], list' = [list EXCEPT ![p] = RemoveAt(list[p], k)]
  PROVE  /\ list' \in [Procs -> Seq(Served)] /\ ListsOnce'
         /\ list[p][k].conn \in ListConns(p)
         /\ ListConns(p)' = ListConns(p) \ {list[p][k].conn}
         /\ \A r \in Procs \ {p} : ListConns(r)' = ListConns(r)
<1> DEFINE s == list[p]
           t == RemoveAt(list[p], k)
<1>1. /\ t \in Seq(Served) /\ Len(t) = Len(s) - 1
      /\ \A j \in 1 .. Len(s) - 1 : t[j] = IF j < k THEN s[j] ELSE s[j + 1]
      /\ DOMAIN s = 1 .. Len(s) /\ Len(s) \in Nat /\ DOMAIN t = 1 .. Len(s) - 1
  BY RemoveAtElements
<1>2. list'[p] = t /\ \A r \in Procs \ {p} : list'[r] = list[r]
  OBVIOUS
<1>3. list' \in [Procs -> Seq(Served)]
  BY <1>1
<1> HIDE DEF t
<1>4. \A j \in 1 .. Len(s) - 1 : \E m \in DOMAIN s :
         m # k /\ t[j] = s[m] /\ m = (IF j < k THEN j ELSE j + 1)
  BY <1>1
<1>5. \A m \in DOMAIN s : m # k => \E j \in 1 .. Len(s) - 1 : t[j] = s[m]
  <2>1. SUFFICES ASSUME NEW m \in DOMAIN s, m # k
                 PROVE  \E j \in 1 .. Len(s) - 1 : t[j] = s[m]
    OBVIOUS
  <2>2. CASE m < k
    BY <1>1, <2>1, <2>2
  <2>3. CASE m > k
    <3>1. m - 1 \in 1 .. Len(s) - 1 /\ ~ (m - 1 < k) /\ (m - 1) + 1 = m
      BY <1>1, <2>3
    <3>2. QED
      BY <1>1, <3>1
  <2>4. QED
    BY <1>1, <2>1, <2>2, <2>3
<1>6. \A i1, i2 \in DOMAIN s : s[i1].conn = s[i2].conn => i1 = i2
  BY DEF ListsOnce
<1>7. \A i1, i2 \in DOMAIN t : t[i1].conn = t[i2].conn => i1 = i2
  BY <1>1, <1>4, <1>6
<1>8. {t[j].conn : j \in DOMAIN t} = {s[j].conn : j \in DOMAIN s} \ {s[k].conn}
  <2>1. ASSUME NEW j \in DOMAIN t
        PROVE  t[j].conn \in {s[m].conn : m \in DOMAIN s} \ {s[k].conn}
    BY <1>1, <1>4, <1>6
  <2>2. ASSUME NEW m \in DOMAIN s, s[m].conn # s[k].conn
        PROVE  s[m].conn \in {t[j].conn : j \in DOMAIN t}
    BY <1>1, <1>5, <2>2
  <2>3. QED
    BY <2>1, <2>2
<1>9. ListsOnce'
  BY <1>2, <1>7 DEF ListsOnce
<1>10. /\ ListConns(p)' = ListConns(p) \ {list[p][k].conn}
       /\ list[p][k].conn \in ListConns(p)
       /\ \A r \in Procs \ {p} : ListConns(r)' = ListConns(r)
  <2>1. ListConns(p)' = {t[j].conn : j \in DOMAIN t}
    BY <1>2 DEF ListConns
  <2>2. ListConns(p) = {s[j].conn : j \in DOMAIN s}
    BY DEF ListConns
  <2>3. list[p][k].conn \in ListConns(p)
    BY DEF ListConns
  <2>4. \A r \in Procs \ {p} : ListConns(r)' = ListConns(r)
    BY <1>2 DEF ListConns
  <2>5. QED
    BY <1>8, <2>1, <2>2, <2>3, <2>4
<1>11. QED
  BY <1>3, <1>9, <1>10
-----------------------------------------------------------------------------
(* The descriptor a process gets for a connection it receives *)

LEMMA MinOfNaturals ==
  ASSUME NEW S \in SUBSET Nat, S # {}
  PROVE  Min(S) \in S /\ \A x \in S : Min(S) <= x
<1>1. PICK m \in S : \A y \in S : ~ (<<y, m>> \in OpToRel(<, Nat))
  BY WFMin, NatLessThanWellFounded
<1> DEFINE R == {ss \in Nat \X Nat : ss[1] < ss[2]}
<1>2. OpToRel(<, Nat) = R
  BY DEF OpToRel
<1>3. ASSUME NEW y \in S PROVE m <= y
  <2>1. y \in Nat /\ m \in Nat /\ <<y, m>> \notin R
    BY <1>1, <1>2
  <2>2. y < m => <<y, m>> \in R
    BY <2>1
  <2>3. QED
    BY <2>1, <2>2
<1>4. QED
  BY <1>3 DEF Min

\* The descriptors in use are as many as the connections served, and those are
\* as many as there are clients at most.
LEMMA DescriptorsInUse ==
  ASSUME Shapes, ListsOnce, NEW p \in Procs
  PROVE  /\ Len(list[p]) \in Nat /\ Len(list[p]) <= Cardinality(Clients)
         /\ IsFiniteSet(UsedFds(p)) /\ Cardinality(UsedFds(p)) <= Len(list[p])
         /\ Cardinality(ListConns(p)) = Len(list[p])
<1> DEFINE s == list[p]
           D == 1 .. Len(s)
           f == [k \in D |-> s[k].conn]
           g == [k \in D |-> s[k].fd]
<1>1. s \in Seq(Served) /\ Len(s) \in Nat /\ DOMAIN s = D /\ \A k \in D : s[k] \in Served
  BY DEF Shapes
<1>2. IsFiniteSet(D) /\ Cardinality(D) = Len(s)
  BY <1>1, FS_Interval
<1>3. f \in Injection(D, Clients)
  BY <1>1 DEF Injection, IsInjective, ListsOnce, Served
<1>4. g \in Surjection(D, UsedFds(p))
  BY <1>1 DEF Surjection, UsedFds
<1>5. IsFiniteSet(Clients)
  BY ParametersAssumption
<1>6. Cardinality(D) <= Cardinality(Clients)
  BY <1>3, <1>5, FS_Injection
<1>7. IsFiniteSet(UsedFds(p)) /\ Cardinality(UsedFds(p)) <= Cardinality(D)
  BY <1>2, <1>4, FS_Surjection
<1>8. f \in Bijection(D, ListConns(p))
  BY <1>1, <1>3 DEF Bijection, Injection, Surjection, IsInjective, ListConns
<1>9. Cardinality(ListConns(p)) = Cardinality(D)
  <2>1. ExistsBijection(D, ListConns(p))
    BY <1>8 DEF ExistsBijection
  <2>2. QED
    BY <1>2, <2>1, FS_Bijection
<1>10. QED
  BY <1>1, <1>2, <1>6, <1>7, <1>9

LEMMA LowestFree ==
  ASSUME Shapes, ListsOnce, NEW p \in Procs
  PROVE  /\ FreeFd(p) \in 0 .. Cardinality(Clients)
         /\ \A x \in 0 .. FreeFd(p) - 1 : x \in UsedFds(p)
<1> DEFINE C == Cardinality(Clients)
           S == (0 .. C) \ UsedFds(p)
<1>1. C \in Nat
  BY ParametersAssumption, FS_CardinalityType
<1>2. IsFiniteSet(UsedFds(p)) /\ Cardinality(UsedFds(p)) <= C
  <2>1. Cardinality(UsedFds(p)) \in Nat
    BY DescriptorsInUse, FS_CardinalityType
  <2>2. QED
    BY <1>1, <2>1, DescriptorsInUse
<1>3. S # {}
  <2>1. SUFFICES ASSUME 0 .. C \subseteq UsedFds(p) PROVE FALSE
    OBVIOUS
  <2>2. Cardinality(0 .. C) = C + 1
    BY <1>1, FS_Interval
  <2>3. Cardinality(0 .. C) <= Cardinality(UsedFds(p))
    BY <1>2, <2>1, FS_Subset
  <2>4. Cardinality(UsedFds(p)) \in Nat
    BY <1>2, FS_CardinalityType
  <2>5. QED
    BY <1>1, <1>2, <2>2, <2>3, <2>4
<1>4. Min(S) \in S /\ \A x \in S : Min(S) <= x
  BY <1>1, <1>3, MinOfNaturals
<1>5. FreeFd(p) = Min(S)
  BY DEF FreeFd
<1>6. QED
  BY <1>1, <1>4, <1>5
-----------------------------------------------------------------------------
(* What each action does *)

Effect == Shapes' /\ QueuesOnce' /\ ListsOnce' /\ InHand' /\ Movement

LEMMA QueuesStay ==
  ASSUME QueuesOnce, q' = q
  PROVE  QueuesOnce' /\ \A r \in Procs : QueuedConns(r)' = QueuedConns(r)
BY DEF QueuesOnce, QueuedConns

LEMMA ListsStay ==
  ASSUME ListsOnce, list' = list
  PROVE  ListsOnce' /\ \A r \in Procs : ListConns(r)' = ListConns(r)
BY DEF ListsOnce, ListConns

\* An exit command moves no connection.
LEMMA QueuesAfterExit ==
  ASSUME Typed, QueuesOnce, NEW p \in Procs, q' = [q EXCEPT ![p] = Append(q[p], Exit)]
  PROVE  QueuesOnce' /\ \A r \in Procs : QueuedConns(r)' = QueuedConns(r)
<1>1. Exit \in Commands /\ \A c \in Clients : Fd(c) # Exit
  BY CommandsSent, CommandsDiffer
<1>2. /\ QueuesOnce'
      /\ QueuedConns(p)' = QueuedConns(p) \cup {c \in Clients : Fd(c) = Exit}
      /\ \A r \in Procs \ {p} : QueuedConns(r)' = QueuedConns(r)
  BY <1>1, QueuesAfterAppend
<1>3. QED
  BY <1>1, <1>2

LEMMA LenAfterAppend ==
  ASSUME Typed, Shapes, NEW p \in Procs, NEW m \in Commands, Len(q[p]) < QCap,
         q' = [q EXCEPT ![p] = Append(q[p], m)]
  PROVE  \A r \in Procs : Len(q'[r]) <= QCap
<1>1. q \in [Procs -> Seq(Commands)] /\ q[p] \in Seq(Commands)
  BY DEF Typed
<1>2. Len(Append(q[p], m)) = Len(q[p]) + 1 /\ Len(q[p]) \in Nat /\ QCap \in Nat
  BY <1>1, ParametersAssumption
<1>3. QED
  BY <1>1, <1>2 DEF Shapes

LEMMA LeaveLoopEffect ==
  ASSUME Typed, HInv, NEW p \in Procs, LeaveLoop(p),
         p = Master => pc \in {"select", "accept"}
  PROVE  Effect
<1> USE DEF HInv
<1>1. /\ q' = [q EXCEPT ![p] = <<>>] /\ list' = [list EXCEPT ![p] = <<>>]
      /\ q \in [Procs -> Seq(Commands)] /\ list \in [Procs -> Seq(Served)]
      /\ <<>> \in Seq(Commands) /\ <<>> \in Seq(Served) /\ Len(<<>>) = 0
  BY DEF LeaveLoop, Typed, Shapes
<1>2. /\ q'[p] = <<>> /\ list'[p] = <<>>
      /\ \A r \in Procs \ {p} : q'[r] = q[r] /\ list'[r] = list[r]
  BY <1>1
<1>3. QueuesOnce' /\ ListsOnce'
  BY <1>2 DEF QueuesOnce, ListsOnce, Once
<1>4. Leaves(p)
  <2>1. QueuedConns(p)' = {} /\ ListConns(p)' = {}
    BY <1>2 DEF QueuedConns, ListConns, Range
  <2>2. \A r \in Procs \ {p} : Keeps(r)
    BY <1>2 DEF QueuedConns, ListConns, Keeps
  <2>3. held' = held
        /\ conn' = [c \in Clients |-> IF c \in At(p) THEN "closed" ELSE conn[c]]
    BY DEF LeaveLoop, At
  <2>4. QED
    BY <2>1, <2>2, <2>3 DEF Leaves, OthersKeep
<1>5. /\ UNCHANGED <<index, chosen, held, signals>>
      /\ p = Master => pc' = "notify"
      /\ p # Master => pc' = pc
  BY DEF LeaveLoop
<1>6. InHand'
  BY <1>5 DEF InHand
<1>7. Shapes'
  <2>1. conn' \in [Clients -> {"idle", "backlog", "open", "closed"}]
    BY DEF LeaveLoop, Shapes
  <2>2. list' \in [Procs -> Seq(Served)]
    BY <1>1
  <2>3. \A r \in Procs : Len(q'[r]) <= QCap
    BY <1>1, <1>2, ParametersAssumption DEF Shapes
  <2>4. QED
    BY <1>5, <2>1, <2>2, <2>3 DEF Shapes
<1>8. QED
  BY <1>3, <1>4, <1>6, <1>7 DEF Effect, Movement

LEMMA ReadFdEffect ==
  ASSUME Typed, HInv, NEW p \in Procs, ReadFdCmd(p)
  PROVE  Effect
<1> USE DEF HInv
<1>1. PICK c \in Clients :
        /\ q[p] # <<>> /\ Head(q[p]) = Fd(c)
        /\ list' = [list EXCEPT ![p] = Append(list[p], [conn |-> c, fd |-> FreeFd(p)])]
  BY DEF ReadFdCmd
<1>2. q' = [q EXCEPT ![p] = Tail(q[p])]
      /\ UNCHANGED <<pc, i, index, chosen, proc, held, conn, signals>>
  BY DEF ReadFdCmd
<1> DEFINE e == [conn |-> c, fd |-> FreeFd(p)]
<1>3. e \in Served /\ e.conn = c
  BY LowestFree DEF Served
<1>4. /\ QueuesOnce'
      /\ c \in QueuedConns(p) /\ QueuedConns(p)' = QueuedConns(p) \ {c}
      /\ \A r \in Procs \ {p} : QueuedConns(r)' = QueuedConns(r)
  BY <1>1, <1>2, QueuesAfterRead
<1>5. c \notin ListConns(p)
  BY <1>4 DEF Placed
<1>6. /\ list' \in [Procs -> Seq(Served)] /\ ListsOnce'
      /\ ListConns(p)' = ListConns(p) \cup {c}
      /\ \A r \in Procs \ {p} : ListConns(r)' = ListConns(r)
  <2>1. list' = [list EXCEPT ![p] = Append(list[p], e)] /\ list \in [Procs -> Seq(Served)]
    BY <1>1 DEF Shapes
  <2> HIDE DEF e
  <2>2. QED
    BY <1>3, <1>5, <2>1, ListsAfterAppend
<1>7. IsReceived(c, p)
  BY <1>2, <1>4, <1>6 DEF IsReceived, OthersKeep, Keeps
<1>8. Shapes'
  <2>1. q \in [Procs -> Seq(Commands)] /\ Len(Tail(q[p])) <= Len(q[p])
    BY <1>1 DEF Typed
  <2>2. \A r \in Procs : Len(q'[r]) <= QCap
    <3>1. /\ Len(q[p]) \in Nat /\ Len(Tail(q[p])) \in Nat /\ QCap \in Nat
      BY <1>1, ParametersAssumption DEF Typed
    <3>2. QED
      BY <1>2, <2>1, <3>1 DEF Shapes
  <2>3. QED
    BY <1>2, <1>6, <2>2 DEF Shapes
<1>9. InHand'
  BY <1>2 DEF InHand
<1>10. QED
  BY <1>4, <1>6, <1>7, <1>8, <1>9 DEF Effect, Movement

LEMMA CloseEffect ==
  ASSUME Typed, HInv, NEW p \in Procs, CloseConn(p)
  PROVE  Effect
<1> USE DEF HInv
<1>1. PICK k \in DOMAIN list[p] :
        /\ conn' = [conn EXCEPT ![list[p][k].conn] = "closed"]
        /\ list' = [list EXCEPT ![p] = RemoveAt(list[p], k)]
  BY DEF CloseConn
<1>2. UNCHANGED <<pc, i, index, chosen, proc, q, held, signals>>
  BY DEF CloseConn
<1>3. /\ list' \in [Procs -> Seq(Served)] /\ ListsOnce'
      /\ list[p][k].conn \in ListConns(p)
      /\ ListConns(p)' = ListConns(p) \ {list[p][k].conn}
      /\ \A r \in Procs \ {p} : ListConns(r)' = ListConns(r)
  BY <1>1, ListsAfterRemove DEF Shapes
<1>4. QueuesOnce' /\ \A r \in Procs : QueuedConns(r)' = QueuedConns(r)
  BY <1>2, QueuesStay
<1>5. list[p][k].conn \in Clients
  <2>1. list[p] \in Seq(Served)
    BY DEF Shapes
  <2>2. list[p][k] \in Served
    BY <2>1
  <2>3. QED
    BY <2>2 DEF Served
<1>6. IsClosed(list[p][k].conn, p)
  BY <1>1, <1>2, <1>3, <1>4 DEF IsClosed, OthersKeep, Keeps
<1>7. Shapes'
  BY <1>1, <1>2, <1>3, <1>5 DEF Shapes
<1>8. InHand'
  BY <1>2 DEF InHand
<1>9. QED
  BY <1>3, <1>4, <1>5, <1>6, <1>7, <1>8 DEF Effect, Movement

\* Steps that touch neither a descriptor nor a connection.
LEMMA QuietEffect ==
  ASSUME IInv, HInv,
         \/ Fork \/ InstallHandlers \/ InitMaster \/ SocketpairFails \/ Select \/ AcceptEINTR
         \/ GetWorkerMod \/ GetWorkerInc \/ Wait \/ MasterExits \/ UNCHANGED vars
  PROVE  Effect
<1> USE DEF HInv
<1>1. UNCHANGED <<q, list, held, conn, signals>>
  BY DEF Fork, InstallHandlers, InitMaster, SocketpairFails, Select, AcceptEINTR,
     GetWorkerMod, GetWorkerInc, Wait, MasterExits, vars
<1>2. QueuesOnce' /\ ListsOnce' /\ NothingMoves
  BY <1>1, QueuesStay, ListsStay DEF NothingMoves, AllKeep, Keeps
<1>3. InHand'
  BY <1>1 DEF InHand, Fork, InstallHandlers, InitMaster, SocketpairFails, Select, AcceptEINTR,
     GetWorkerMod, GetWorkerInc, Wait, MasterExits, vars
<1>4. /\ pc' \in InLoop \cup {"fork", "handlers", "notify", "wait", "done", "stuck"}
      /\ index' \in 0 .. N + 1 /\ chosen' \in 0 .. N
      /\ pc' \in {"inc1", "inc2"} => index' <= N
  <2>1. CASE GetWorkerMod
    <3>1. index' \in 0 .. N - 1
      BY <2>1, IndexMoves DEF GetWorkerMod, Wrapped, IInv, Typed
    <3>2. QED
      BY <2>1, <3>1, ParametersAssumption DEF GetWorkerMod, Shapes, InLoop
  <2>2. CASE GetWorkerInc
    BY <2>2, ParametersAssumption DEF GetWorkerInc, Shapes, InLoop
  <2>3. CASE ~ (GetWorkerMod \/ GetWorkerInc)
    BY <2>3 DEF Fork, InstallHandlers, InitMaster, SocketpairFails, Select, AcceptEINTR,
       Wait, MasterExits, vars, Shapes, InLoop
  <2>4. QED
    BY <2>1, <2>2, <2>3
<1>5. Shapes'
  BY <1>1, <1>4 DEF Shapes
<1>6. QED
  BY <1>2, <1>3, <1>5 DEF Effect, Movement

LEMMA SignalEffect ==
  ASSUME IInv, HInv, Signal
  PROVE  Effect
<1> USE DEF HInv
<1>1. UNCHANGED <<i, chosen, proc, list, held, conn>> /\ signals' = signals + 1
      /\ signals < MaxSignals
  BY DEF Signal
<1>2. index' \in 1 .. N
  BY IndexMoves, ParametersAssumption DEF Signal, IInv, Typed
<1>3. \/ /\ Len(q[Master]) < QCap /\ pc' = pc
         /\ q' = [q EXCEPT ![Master] = Append(q[Master], Exit)]
      \/ pc \in InLoop /\ pc' = "stuck" /\ q' = q
      \/ pc' = pc /\ q' = q
  BY DEF Signal
<1>4. Master \in Procs /\ Exit \in Commands
  BY ParametersAssumption, CommandsSent DEF Master, Procs
<1>5. QueuesOnce' /\ \A r \in Procs : QueuedConns(r)' = QueuedConns(r)
  BY <1>3, <1>4, QueuesStay, QueuesAfterExit DEF IInv
<1>6. \A r \in Procs : Len(q'[r]) <= QCap
  BY <1>3, <1>4, LenAfterAppend DEF Shapes, IInv
<1>7. ListsOnce' /\ NothingMoves
  BY <1>1, <1>5, ListsStay DEF NothingMoves, AllKeep, Keeps
<1>8. InHand'
  BY <1>1, <1>3 DEF InHand, InLoop
<1>9. signals' \in 0 .. MaxSignals
  BY <1>1, ParametersAssumption DEF Shapes
<1>10. Shapes'
  BY <1>1, <1>2, <1>3, <1>6, <1>9, ParametersAssumption DEF Shapes
<1>11. QED
  BY <1>5, <1>7, <1>8, <1>10 DEF Effect, Movement

LEMMA NotifyEffect ==
  ASSUME IInv, HInv, Notify
  PROVE  Effect
<1> USE DEF HInv
<1>1. /\ UNCHANGED <<i, chosen, proc, list, held, conn, signals>>
      /\ pc = "notify" /\ pc' = "wait"
  BY DEF Notify
<1>2. index' \in 1 .. N
  BY IndexMoves, ParametersAssumption DEF Notify, IInv, Typed
<1>3. i \in Procs /\ Exit \in Commands
  BY ParametersAssumption, CommandsSent DEF Notify, Procs, IInv, Typed
<1>4. \/ Len(q[i]) < QCap /\ q' = [q EXCEPT ![i] = Append(q[i], Exit)]
      \/ q' = q
  BY DEF Notify
<1>5. QueuesOnce' /\ \A r \in Procs : QueuedConns(r)' = QueuedConns(r)
  BY <1>3, <1>4, QueuesStay, QueuesAfterExit DEF IInv
<1>6. \A r \in Procs : Len(q'[r]) <= QCap
  BY <1>3, <1>4, LenAfterAppend DEF Shapes, IInv
<1>7. ListsOnce' /\ NothingMoves
  BY <1>1, <1>5, ListsStay DEF NothingMoves, AllKeep, Keeps
<1>8. InHand'
  BY <1>1 DEF InHand
<1>9. Shapes'
  BY <1>1, <1>2, <1>6, ParametersAssumption DEF Shapes
<1>10. QED
  BY <1>5, <1>7, <1>8, <1>9 DEF Effect, Movement

LEMMA ConnectEffect ==
  ASSUME HInv, NEW c \in Clients, Connect(c)
  PROVE  Effect
<1> USE DEF HInv
<1>1. /\ UNCHANGED <<pc, i, index, chosen, proc, q, list, held, signals>>
      /\ conn[c] = "idle" /\ conn' = [conn EXCEPT ![c] = "backlog"]
  BY DEF Connect
<1>2. QueuesOnce' /\ ListsOnce' /\ AllKeep
  BY <1>1, QueuesStay, ListsStay DEF AllKeep, Keeps
<1>3. Connects(c)
  BY <1>1, <1>2 DEF Connects
<1>4. Shapes' /\ InHand'
  BY <1>1 DEF Shapes, InHand
<1>5. QED
  BY <1>2, <1>3, <1>4 DEF Effect, Movement

LEMMA AcceptEffect ==
  ASSUME HInv, Accept
  PROVE  Effect
<1> USE DEF HInv
<1>1. PICK c \in Clients : /\ conn[c] = "backlog" /\ held' = {c}
                           /\ conn' = [conn EXCEPT ![c] = "open"]
  BY DEF Accept
<1>2. /\ UNCHANGED <<i, index, chosen, proc, q, list, signals>>
      /\ pc = "accept" /\ pc' = "mod1"
  BY DEF Accept
<1>3. QueuesOnce' /\ ListsOnce' /\ AllKeep
  BY <1>2, QueuesStay, ListsStay DEF AllKeep, Keeps
<1>4. held = {}
  BY <1>2 DEF InHand
<1>5. IsAccepted(c)
  BY <1>1, <1>3, <1>4 DEF IsAccepted
<1>6. Shapes' /\ InHand'
  BY <1>1, <1>2 DEF Shapes, InHand, InLoop
<1>7. QED
  BY <1>3, <1>5, <1>6 DEF Effect, Movement

LEMMA SendEffect ==
  ASSUME IInv, HInv, SendFd
  PROVE  Effect
<1> USE DEF HInv
<1>1. /\ UNCHANGED <<i, index, chosen, proc, list, signals>>
      /\ held' = {} /\ pc = "send" /\ pc' = "select"
  BY DEF SendFd
<1>2. PICK c \in held :
        \/ conn' = [conn EXCEPT ![c] = "closed"] /\ q' = q
        \/ /\ conn' = conn
           /\ \E p \in Procs : Len(q[p]) < QCap /\ q' = [q EXCEPT ![p] = Append(q[p], Fd(c))]
  BY ParametersAssumption DEF SendFd, Workers, Procs, Master
<1>3. c \in Clients /\ Fd(c) \in Commands
  BY CommandsSent DEF IInv, Typed
<1>4. ListsOnce' /\ \A r \in Procs : ListConns(r)' = ListConns(r)
  BY <1>1, ListsStay
<1>5. InHand'
  BY <1>1 DEF InHand
<1>6. CASE conn' = [conn EXCEPT ![c] = "closed"] /\ q' = q
  <2>1. QueuesOnce' /\ IsDropped(c)
    BY <1>1, <1>4, <1>6, QueuesStay DEF IsDropped, AllKeep, Keeps
  <2>2. Shapes'
    BY <1>1, <1>3, <1>6 DEF Shapes, InLoop
  <2>3. QED
    BY <1>3, <1>4, <1>5, <2>1, <2>2 DEF Effect, Movement
<1>7. ASSUME NEW p \in Procs, Len(q[p]) < QCap, conn' = conn,
             q' = [q EXCEPT ![p] = Append(q[p], Fd(c))]
      PROVE  Effect
  <2>1. Fd(c) \notin Range(q[p])
    BY <1>3 DEF Placed, At, QueuedConns
  <2>2. {d \in Clients : Fd(d) = Fd(c)} = {c}
    BY <1>3, CommandsDiffer
  <2>3. QueuesOnce' /\ IsHandedOver(c, p)
    <3>1. /\ QueuesOnce'
          /\ QueuedConns(p)' = QueuedConns(p) \cup {d \in Clients : Fd(d) = Fd(c)}
          /\ \A r \in Procs \ {p} : QueuedConns(r)' = QueuedConns(r)
      BY <1>3, <1>7, <2>1, QueuesAfterAppend DEF IInv
    <3>2. QED
      BY <1>1, <1>4, <1>7, <2>2, <3>1 DEF IsHandedOver, OthersKeep, Keeps
  <2>4. Shapes'
    <3>1. \A r \in Procs : Len(q'[r]) <= QCap
      BY <1>3, <1>7, LenAfterAppend DEF IInv
    <3>2. QED
      BY <1>1, <1>7, <3>1 DEF Shapes, InLoop
  <2>5. QED
    BY <1>3, <1>4, <1>5, <2>3, <2>4 DEF Effect, Movement
<1>8. QED
  BY <1>2, <1>6, <1>7

LEMMA StepEffect ==
  ASSUME IInv, HInv, [Next]_vars
  PROVE  Effect
<1>1. Master \in Procs
  BY ParametersAssumption DEF Master, Procs
<1>2. CASE MasterStep
  <2>1. CASE AcceptFails
    BY <1>1, <2>1, LeaveLoopEffect DEF AcceptFails, IInv
  <2>2. QED
    BY <1>2, <2>1, QuietEffect, NotifyEffect, AcceptEffect, SendEffect DEF MasterStep
<1>3. CASE \E p \in Procs : LoopStep(p)
  <2>1. PICK p \in Procs : LoopStep(p)
    BY <1>3
  <2>2. CASE ReadExitCmd(p) \/ AcceptOnNoSocket(p)
    BY <2>2, LeaveLoopEffect DEF ReadExitCmd, AcceptOnNoSocket, Looping, IInv
  <2>3. QED
    BY <2>1, <2>2, ReadFdEffect, CloseEffect DEF LoopStep, ReadCmd, IInv
<1>4. QED
  BY <1>2, <1>3, SignalEffect, ConnectEffect, QuietEffect DEF Next

LEMMA HandoverInit == Init => HInv
<1> SUFFICES ASSUME Init PROVE HInv
  OBVIOUS
<1>1. \A p \in Procs : q[p] = <<>> /\ list[p] = <<>>
  BY DEF Init
<1>2. QueuesOnce /\ ListsOnce
  BY <1>1 DEF QueuesOnce, ListsOnce, Once
<1>3. Shapes
  <2>1. <<>> \in Seq(Served) /\ Len(<<>>) = 0
    OBVIOUS
  <2>2. QED
    BY <1>1, <2>1, ParametersAssumption DEF Init, Shapes
<1>4. InHand
  BY DEF Init, InHand
<1>5. QED
  BY <1>2, <1>3, <1>4, PlacedInit DEF HInv

LEMMA HandoverNext == IInv /\ HInv /\ [Next]_vars => HInv'
<1> SUFFICES ASSUME IInv, HInv, [Next]_vars PROVE HInv'
  OBVIOUS
<1>1. Effect
  BY StepEffect
<1>2. Placed'
  BY <1>1, MovementKeepsPlaced DEF HInv, Effect
<1>3. QED
  BY <1>1, <1>2 DEF HInv, Effect

\* Every reachable state has its connections split among the master's hand, the
\* queues and the lists, each connection at one position (code: send_cmd,
\* read_cmd, destroy_all_nwc).
THEOREM HandoverInvariance == Spec => []HInv
BY HandoverInit, HandoverNext, Invariance, PTL DEF Spec
-----------------------------------------------------------------------------
(* One owner *)

QueuePlaces(c) == {s \in Procs \X (1 .. QCap) :
                     s[2] <= Len(q[s[1]]) /\ q[s[1]][s[2]] = Fd(c)}
ListPlaces(c)  == {s \in Procs \X (1 .. Cardinality(Clients)) :
                     s[2] <= Len(list[s[1]]) /\ list[s[1]][s[2]].conn = c}

LEMMA QueuePlacesCounted ==
  ASSUME IInv, HInv, NEW c \in Clients
  PROVE  Cardinality(QueuePlaces(c)) = IF \E p \in Procs : c \in QueuedConns(p) THEN 1 ELSE 0
<1>0. /\ \A p \in Procs : /\ DOMAIN q[p] = 1 .. Len(q[p]) /\ Len(q[p]) \in Nat
                          /\ Len(q[p]) <= QCap
      /\ QCap \in Nat
  BY ParametersAssumption DEF IInv, Typed, HInv, Shapes
<1>1. ASSUME NEW p \in Procs, c \in QueuedConns(p)
      PROVE  \E k \in 1 .. QCap : QueuePlaces(c) = {<<p, k>>}
  <2>1. PICK k \in 1 .. Len(q[p]) : q[p][k] = Fd(c)
    BY <1>0, <1>1 DEF QueuedConns, Range
  <2>2. k \in 1 .. QCap /\ <<p, k>> \in QueuePlaces(c)
    BY <1>0, <2>1 DEF QueuePlaces
  <2>3. ASSUME NEW s \in QueuePlaces(c) PROVE s = <<p, k>>
    <3>1. /\ s[1] \in Procs /\ s[2] \in 1 .. Len(q[s[1]]) /\ q[s[1]][s[2]] = Fd(c)
          /\ s = <<s[1], s[2]>>
      BY <1>0 DEF QueuePlaces
    <3>2. c \in QueuedConns(s[1])
      BY <1>0, <3>1 DEF QueuedConns, Range
    <3>3. s[1] = p
      BY <1>1, <3>1, <3>2 DEF HInv, Placed, At
    <3>4. s[2] = k
      BY <1>0, <2>1, <3>1, <3>3 DEF HInv, QueuesOnce, Once
    <3>5. QED
      BY <3>1, <3>3, <3>4
  <2>4. QED
    BY <2>2, <2>3
<1>2. ASSUME \A p \in Procs : c \notin QueuedConns(p)
      PROVE  QueuePlaces(c) = {}
  BY <1>0, <1>2 DEF QueuePlaces, QueuedConns, Range
<1>3. QED
  BY <1>1, <1>2, FS_Singleton, FS_EmptySet

LEMMA ListPlacesCounted ==
  ASSUME IInv, HInv, NEW c \in Clients
  PROVE  Cardinality(ListPlaces(c)) = IF \E p \in Procs : c \in ListConns(p) THEN 1 ELSE 0
<1>0. /\ \A p \in Procs : /\ DOMAIN list[p] = 1 .. Len(list[p]) /\ Len(list[p]) \in Nat
                          /\ Len(list[p]) <= Cardinality(Clients)
      /\ Cardinality(Clients) \in Nat
  <2>1. \A p \in Procs : list[p] \in Seq(Served)
    BY DEF HInv, Shapes
  <2>2. \A p \in Procs : Len(list[p]) \in Nat /\ Len(list[p]) <= Cardinality(Clients)
    BY DescriptorsInUse DEF HInv
  <2>3. QED
    BY <2>1, <2>2, ParametersAssumption, FS_CardinalityType
<1>1. ASSUME NEW p \in Procs, c \in ListConns(p)
      PROVE  \E k \in 1 .. Cardinality(Clients) : ListPlaces(c) = {<<p, k>>}
  <2>1. PICK k \in 1 .. Len(list[p]) : list[p][k].conn = c
    BY <1>0, <1>1 DEF ListConns
  <2>2. k \in 1 .. Cardinality(Clients) /\ <<p, k>> \in ListPlaces(c)
    BY <1>0, <2>1 DEF ListPlaces
  <2>3. ASSUME NEW s \in ListPlaces(c) PROVE s = <<p, k>>
    <3>1. /\ s[1] \in Procs /\ s[2] \in 1 .. Len(list[s[1]]) /\ list[s[1]][s[2]].conn = c
          /\ s = <<s[1], s[2]>>
      BY <1>0 DEF ListPlaces
    <3>2. c \in ListConns(s[1])
      BY <1>0, <3>1 DEF ListConns
    <3>3. s[1] = p
      BY <1>1, <3>1, <3>2 DEF HInv, Placed, At
    <3>4. s[2] = k
      BY <1>0, <2>1, <3>1, <3>3 DEF HInv, ListsOnce
    <3>5. QED
      BY <3>1, <3>3, <3>4
  <2>4. QED
    BY <2>2, <2>3
<1>2. ASSUME \A p \in Procs : c \notin ListConns(p)
      PROVE  ListPlaces(c) = {}
  BY <1>0, <1>2 DEF ListPlaces, ListConns
<1>3. QED
  BY <1>1, <1>2, FS_Singleton, FS_EmptySet

\* A descriptor the master accepted is owned once until its connection is
\* closed: by the master, by one datagram or by one list (code: accept, send_cmd
\* and close in the loop of worker(), read_cmd, destroy_all_nwc).
THEOREM DescriptorsHaveOneOwner == Spec => []OneOwner
<1>1. ASSUME IInv, HInv PROVE OneOwner
  <2>1. TypeOK
    <3>1. \A p \in Procs : Range(q[p]) \subseteq Commands
      BY <1>1 DEF IInv, Typed, Range
    <3>2. \A p \in Procs : ListConns(p) \subseteq Clients
      <4>1. ASSUME NEW p \in Procs, NEW k \in DOMAIN list[p] PROVE list[p][k].conn \in Clients
        <5>1. list[p] \in Seq(Served)
          BY <1>1 DEF HInv, Shapes
        <5>2. list[p][k] \in Served
          BY <5>1
        <5>3. QED
          BY <5>2 DEF Served
      <4>2. QED
        BY <4>1 DEF ListConns
    <3>3. QED
      BY <1>1, <3>1, <3>2 DEF TypeOK, IInv, Typed, HInv, Shapes
  <2>2. ASSUME NEW c \in Clients PROVE Owners(c) = IF conn[c] = "open" THEN 1 ELSE 0
    <3>1. Owners(c) = (IF c \in held THEN 1 ELSE 0)
                      + Cardinality(QueuePlaces(c)) + Cardinality(ListPlaces(c))
      BY DEF Owners, QueuePlaces, ListPlaces
    <3>2. /\ Cardinality(QueuePlaces(c))
                = IF \E p \in Procs : c \in QueuedConns(p) THEN 1 ELSE 0
          /\ Cardinality(ListPlaces(c))
                = IF \E p \in Procs : c \in ListConns(p) THEN 1 ELSE 0
      BY <1>1, QueuePlacesCounted, ListPlacesCounted
    <3>3. \A p, r \in Procs : c \in QueuedConns(p) => c \notin ListConns(r) /\ c \notin held
      BY <1>1 DEF HInv, Placed, At
    <3>4. \A p \in Procs : c \in ListConns(p) => c \notin held
      BY <1>1 DEF HInv, Placed, At
    <3>5. conn[c] = "open"
            <=> c \in held \/ \E p \in Procs : c \in QueuedConns(p) \/ c \in ListConns(p)
      BY <1>1 DEF HInv, Placed, At
    <3>6. QED
      BY <3>1, <3>2, <3>3, <3>4, <3>5
  <2>3. QED
    BY <2>1, <2>2 DEF OneOwner
<1>2. QED
  BY <1>1, Invariance, HandoverInvariance, PTL

-----------------------------------------------------------------------------
(* The refinement *)

StageOf == [c \in Clients |-> Stage(c)]
OwnerOf == [c \in Clients |-> Owner(c)]

\* Where a connection is determines its stage and its owner.
Mapped ==
  \A c \in Clients :
    /\ conn[c] # "open" => Stage(c) = conn[c] /\ Owner(c) = Master
    /\ c \in held => Stage(c) = "accepted" /\ Owner(c) = Master
    /\ \A p \in Procs :
         /\ c \in QueuedConns(p) => Stage(c) = "sent" /\ Owner(c) = p
         /\ c \in ListConns(p) => Stage(c) = "served" /\ Owner(c) = p

LEMMA PlacedIsMapped == Placed /\ Shapes => Mapped
<1> SUFFICES ASSUME Placed, Shapes, NEW c \in Clients
             PROVE  /\ conn[c] # "open" => Stage(c) = conn[c] /\ Owner(c) = Master
                    /\ c \in held => Stage(c) = "accepted" /\ Owner(c) = Master
                    /\ \A p \in Procs :
                         /\ c \in QueuedConns(p) => Stage(c) = "sent" /\ Owner(c) = p
                         /\ c \in ListConns(p) => Stage(c) = "served" /\ Owner(c) = p
  BY DEF Mapped
<1>1. ASSUME conn[c] # "open" PROVE Stage(c) = conn[c] /\ Owner(c) = Master
  <2>0. c \notin held /\ \A p \in Procs : c \notin QueuedConns(p)
    BY <1>1 DEF Placed, At
  <2>1. Stage(c) = conn[c]
    BY <1>1, <2>0 DEF Stage
  <2>2. conn[c] \notin {"sent", "served"}
    BY DEF Shapes
  <2>3. QED
    BY <2>1, <2>2 DEF Owner
<1>2. ASSUME c \in held PROVE Stage(c) = "accepted" /\ Owner(c) = Master
  <2>1. conn[c] = "open" /\ \A p \in Procs : c \notin QueuedConns(p)
    BY <1>2 DEF Placed, At
  <2>2. Stage(c) = "accepted"
    BY <1>2, <2>1 DEF Stage
  <2>3. QED
    BY <2>2 DEF Owner
<1>3. ASSUME NEW p \in Procs, c \in At(p)
      PROVE  /\ Stage(c) \in {"sent", "served"} /\ Owner(c) = p
             /\ c \in QueuedConns(p) => Stage(c) = "sent"
             /\ c \in ListConns(p) => Stage(c) = "served"
  <2>1. conn[c] = "open" /\ c \notin held /\ \A r \in Procs : c \in At(r) => r = p
    BY <1>3 DEF Placed
  <2>2. c \in QueuedConns(p) => Stage(c) = "sent"
    BY <2>1 DEF Stage
  <2>3. c \in ListConns(p) => Stage(c) = "served"
    BY <1>3, <2>1 DEF Stage, Placed, At
  <2>4. Stage(c) \in {"sent", "served"}
    BY <1>3, <2>2, <2>3 DEF At
  <2>5. Owner(c) = p
    BY <1>3, <2>1, <2>4 DEF Owner, At
  <2>6. QED
    BY <2>2, <2>3, <2>4, <2>5
<1>4. QED
  BY <1>1, <1>2, <1>3 DEF At

\* A connection that stays where it is keeps its stage and its owner.
LEMMA StaysMapped ==
  ASSUME Mapped, Mapped', Placed, NEW d \in Clients, conn'[d] = conn[d],
         d \in held' <=> d \in held,
         \A p \in Procs : /\ d \in QueuedConns(p) => d \in QueuedConns(p)'
                          /\ d \in ListConns(p) => d \in ListConns(p)'
  PROVE  Stage(d)' = Stage(d) /\ Owner(d)' = Owner(d)
<1>1. CASE conn[d] # "open"
  BY <1>1 DEF Mapped, Master
<1>2. CASE d \in held
  BY <1>2 DEF Mapped, Master
<1>3. CASE \E p \in Procs : d \in At(p)
  BY <1>3 DEF Mapped, At
<1>4. QED
  BY <1>1, <1>2, <1>3 DEF Placed

\* The steps of DescriptorHandover that the movements are.
LEMMA MovementMaps ==
  ASSUME Mapped, Mapped', Placed, Placed', InHand, Shapes, Shapes', Movement
  PROVE  [Handover!Next]_<<StageOf, OwnerOf>>
<1> USE DEF Handover!Next, Handover!Moves, StageOf, OwnerOf
<1>0. /\ \A c \in Clients : StageOf[c] = Stage(c) /\ OwnerOf[c] = Owner(c)
      /\ Master \in Procs
  BY ParametersAssumption DEF Master, Procs
<1>1. ASSUME NEW c \in Clients, Connects(c) PROVE Handover!Connect(c)
  <2>1. Stage(c) = "idle" /\ Stage(c)' = "backlog" /\ Owner(c) = Master /\ Owner(c)' = Master
    BY <1>1 DEF Connects, Mapped, Shapes, Master
  <2>2. \A d \in Clients \ {c} : Stage(d)' = Stage(d) /\ Owner(d)' = Owner(d)
    BY <1>1, StaysMapped DEF Connects, AllKeep, Keeps
  <2>3. QED
    BY <2>1, <2>2 DEF Handover!Connect
<1>2. ASSUME NEW c \in Clients, IsAccepted(c) PROVE Handover!Accept(c)
  <2>1. Stage(c) = "backlog" /\ Stage(c)' = "accepted" /\ Owner(c) = Master /\ Owner(c)' = Master
    BY <1>2 DEF IsAccepted, Mapped, Shapes, Master
  <2>2. \A d \in Clients \ {c} : Stage(d)' = Stage(d) /\ Owner(d)' = Owner(d)
    BY <1>2, StaysMapped DEF IsAccepted, AllKeep, Keeps
  <2>3. \A d \in Clients : Stage(d) # "accepted"
    <3>1. \A d \in Clients : conn[d] # "open" \/ \E p \in Procs : d \in At(p)
      BY <1>2 DEF IsAccepted, Placed
    <3>2. QED
      BY <3>1 DEF Mapped, At, Shapes
  <2>4. QED
    BY <2>1, <2>2, <2>3 DEF Handover!Accept
<1>3. ASSUME NEW c \in Clients, IsDropped(c) PROVE Handover!Drop(c)
  <2>0. \A d \in held : d = c
    BY <1>3 DEF IsDropped, InHand
  <2>1. Stage(c) = "accepted" /\ Stage(c)' = "closed" /\ Owner(c) = Master /\ Owner(c)' = Master
    BY <1>3 DEF IsDropped, Mapped, Shapes, Master
  <2>2. \A d \in Clients \ {c} : Stage(d)' = Stage(d) /\ Owner(d)' = Owner(d)
    BY <1>3, <2>0, StaysMapped DEF IsDropped, AllKeep, Keeps
  <2>3. QED
    BY <2>1, <2>2 DEF Handover!Drop
<1>4. ASSUME NEW c \in Clients, NEW p \in Procs, IsHandedOver(c, p)
      PROVE  Handover!HandOver(c, p)
  <2>0. \A d \in held : d = c
    BY <1>4 DEF IsHandedOver, InHand
  <2>1. Stage(c) = "accepted" /\ Stage(c)' = "sent" /\ Owner(c)' = p
    BY <1>4 DEF IsHandedOver, Mapped
  <2>2. \A d \in Clients \ {c} : Stage(d)' = Stage(d) /\ Owner(d)' = Owner(d)
    BY <1>4, <2>0, StaysMapped DEF IsHandedOver, OthersKeep, Keeps
  <2>3. QED
    BY <2>1, <2>2 DEF Handover!HandOver
<1>5. ASSUME NEW c \in Clients, NEW p \in Procs, IsReceived(c, p)
      PROVE  Handover!Receive(c)
  <2>1. Stage(c) = "sent" /\ Owner(c) = p /\ Stage(c)' = "served" /\ Owner(c)' = p
    BY <1>5 DEF IsReceived, Mapped
  <2>2. \A d \in Clients \ {c} : Stage(d)' = Stage(d) /\ Owner(d)' = Owner(d)
    BY <1>5, StaysMapped DEF IsReceived, OthersKeep, Keeps
  <2>3. QED
    BY <2>1, <2>2 DEF Handover!Receive
<1>6. ASSUME NEW c \in Clients, NEW p \in Procs, IsClosed(c, p)
      PROVE  Handover!Close(c)
  <2>1. Stage(c) = "served" /\ Stage(c)' = "closed" /\ Owner(c)' = Master
    BY <1>6 DEF IsClosed, Mapped, Shapes, Master
  <2>2. \A d \in Clients \ {c} : Stage(d)' = Stage(d) /\ Owner(d)' = Owner(d)
    BY <1>6, StaysMapped DEF IsClosed, OthersKeep, Keeps
  <2>3. QED
    BY <2>1, <2>2 DEF Handover!Close
<1>7. ASSUME NEW p \in Procs, Leaves(p) PROVE Handover!Leave(p)
  <2>1. ASSUME NEW d \in Clients
        PROVE  (Stage(d) \in {"sent", "served"} /\ Owner(d) = p) <=> d \in At(p)
    <3>1. d \in At(p) => Stage(d) \in {"sent", "served"} /\ Owner(d) = p
      BY DEF Mapped, At
    <3>2. CASE conn[d] # "open"
      BY <3>1, <3>2 DEF Mapped, Shapes
    <3>3. CASE d \in held
      BY <3>1, <3>3 DEF Mapped
    <3>4. CASE \E r \in Procs : d \in At(r)
      BY <3>1, <3>4 DEF Mapped, At
    <3>5. QED
      BY <3>2, <3>3, <3>4 DEF Placed
  <2>2. ASSUME NEW d \in At(p), d \in Clients PROVE Stage(d)' = "closed" /\ Owner(d)' = Master
    BY <1>7, <2>2 DEF Leaves, Mapped, Master
  <2>3. \A d \in Clients \ At(p) : Stage(d)' = Stage(d) /\ Owner(d)' = Owner(d)
    BY <1>7, StaysMapped DEF Leaves, OthersKeep, Keeps, At
  <2>4. QED
    BY <2>1, <2>2, <2>3 DEF Handover!Leave
<1>8. ASSUME NothingMoves PROVE UNCHANGED <<StageOf, OwnerOf>>
  BY <1>8, StaysMapped DEF NothingMoves, AllKeep, Keeps
<1>9. QED
  BY <1>1, <1>2, <1>3, <1>4, <1>5, <1>6, <1>7, <1>8 DEF Movement

LEMMA HandoverStarts == Init => Handover!Init
<1> SUFFICES ASSUME Init PROVE Handover!Init
  OBVIOUS
<1>1. \A c \in Clients : conn[c] = "idle"
  BY DEF Init
<1>2. \A c \in Clients : Stage(c) = "idle" /\ Owner(c) = Master
  BY <1>1, HandoverInit, PlacedIsMapped DEF HInv, Mapped
<1>3. QED
  BY <1>2 DEF Handover!Init

\* The multi-process server is a pool that owns descriptors: seen through Stage
\* and Owner each of its behaviours hands a connection to one process, which
\* serves it to its end (code: worker(), send_cmd, read_cmd, destroy_all_nwc).
THEOREM ServerHandsOver == Spec => ImplementsHandover
<1>1. HInv => Mapped
  BY PlacedIsMapped DEF HInv
<1>2. HInv /\ HInv' /\ Mapped /\ Mapped' /\ IInv /\ [Next]_vars
        => [Handover!Next]_<<StageOf, OwnerOf>>
  BY StepEffect, MovementMaps DEF HInv, Effect
<1>3. [Handover!Next]_<<StageOf, OwnerOf>> <=> [Handover!Next]_Handover!vars
  BY DEF Handover!vars, StageOf, OwnerOf
<1>4. QED
  BY <1>1, <1>2, <1>3, HandoverStarts, Invariance, HandoverInvariance, PTL
     DEF Spec, ImplementsHandover, Handover!Spec

-----------------------------------------------------------------------------
(* Workers that leave their loop early *)

Made == {c \in Clients : conn[c] \in {"open", "closed"}}

Stopping == pc \in {"notify", "wait", "done"}

\* A worker has its descriptor AliasFd only if that many connections were made
\* before.
AliasIsLate == \A p \in Procs : AliasFd \in UsedFds(p) => Cardinality(Made) > AliasFd

\* The exit command reaches a worker in the exit loop only.
ExitsAreLast == ~Stopping => \A w \in Workers : Exit \notin Range(q[w])

\* Each worker has been forked, or its fork has failed, when the loop begins.
AllForked ==
  /\ pc = "fork" => \A w \in Workers : w < i => proc[w] # "none"
  /\ pc \notin {"fork"} /\ ~Stopping => \A w \in Workers : proc[w] # "none"

NoneLeft ==
  ~Stopping /\ Cardinality(Made) <= AliasFd
    => \A w \in Workers : proc[w] \in {"none", "run", "failed"}

WInv == AliasIsLate /\ ExitsAreLast /\ AllForked /\ NoneLeft

LEMMA MadeGrows ==
  ASSUME Shapes, Shapes', Movement
  PROVE  /\ Made \subseteq Made' /\ IsFiniteSet(Made')
         /\ Cardinality(Made) \in Nat /\ Cardinality(Made') \in Nat
         /\ Cardinality(Made) <= Cardinality(Made')
<1>1. Made \subseteq Made'
  <2>1. ASSUME NEW d \in Made PROVE conn'[d] \in {"open", "closed"}
    BY DEF Made, Movement, Connects, IsAccepted, IsDropped, IsHandedOver, IsReceived,
       IsClosed, Leaves, NothingMoves, Shapes
  <2>2. QED
    BY <2>1 DEF Made
<1>2. IsFiniteSet(Made) /\ IsFiniteSet(Made')
  <2>1. Made \in SUBSET Clients /\ Made' \in SUBSET Clients
    BY DEF Made
  <2>2. QED
    BY <2>1, ParametersAssumption, FS_Subset
<1>3. QED
  BY <1>1, <1>2, FS_Subset, FS_CardinalityType

\* With AliasFd connections in its list and one more on its way to it.
LEMMA AliasNeedsConnections ==
  ASSUME HInv, NEW p \in Procs, NEW c \in QueuedConns(p), FreeFd(p) = AliasFd
  PROVE  Cardinality(Made) > AliasFd
<1> USE DEF HInv
<1>1. \A x \in 0 .. AliasFd - 1 : x \in UsedFds(p)
  BY LowestFree
<1>2. AliasFd \in Nat /\ IsFiniteSet(Clients)
  BY ParametersAssumption
<1>3. AliasFd <= Cardinality(UsedFds(p))
  <2>1. Cardinality(0 .. AliasFd - 1) = AliasFd
    BY <1>2, FS_Interval
  <2>2. 0 .. AliasFd - 1 \in SUBSET UsedFds(p) /\ IsFiniteSet(UsedFds(p))
    BY <1>1, DescriptorsInUse
  <2>3. Cardinality(0 .. AliasFd - 1) <= Cardinality(UsedFds(p))
    BY <2>2, FS_Subset
  <2>4. QED
    BY <2>1, <2>3
<1>4. /\ IsFiniteSet(ListConns(p)) /\ AliasFd <= Cardinality(ListConns(p))
      /\ Cardinality(ListConns(p)) \in Nat /\ ListConns(p) \in SUBSET Clients
  <2>1. ListConns(p) \in SUBSET Clients
    <3>1. ASSUME NEW k \in DOMAIN list[p] PROVE list[p][k].conn \in Clients
      <4>1. list[p] \in Seq(Served)
        BY DEF Shapes
      <4>2. list[p][k] \in Served
        BY <4>1
      <4>3. QED
        BY <4>2 DEF Served
    <3>2. QED
      BY <3>1 DEF ListConns
  <2>2. IsFiniteSet(ListConns(p))
    BY <1>2, <2>1, FS_Subset
  <2>3. Cardinality(UsedFds(p)) \in Nat /\ Cardinality(ListConns(p)) \in Nat
    BY <2>2, DescriptorsInUse, FS_CardinalityType
  <2>4. QED
    BY <1>2, <1>3, <2>1, <2>2, <2>3, DescriptorsInUse
<1>5. c \notin ListConns(p) /\ ListConns(p) \cup {c} \in SUBSET Made
  <2>1. c \in Clients
    BY DEF QueuedConns
  <2>2. \A d \in Clients : d \in At(p) => conn[d] = "open"
    BY DEF Placed
  <2>3. \A d \in Clients : d \in At(p) => d \in Made
    BY <2>2 DEF Made
  <2>4. c \notin ListConns(p)
    BY <2>1 DEF Placed
  <2>5. QED
    BY <1>4, <2>1, <2>3, <2>4 DEF At
<1>6. Cardinality(ListConns(p) \cup {c}) = Cardinality(ListConns(p)) + 1
  BY <1>4, <1>5, FS_AddElement
<1>7. IsFiniteSet(Made)
  <2>1. Made \in SUBSET Clients
    BY DEF Made
  <2>2. QED
    BY <1>2, <2>1, FS_Subset
<1>8. Cardinality(ListConns(p) \cup {c}) <= Cardinality(Made) /\ Cardinality(Made) \in Nat
  BY <1>5, <1>7, FS_Subset, FS_CardinalityType
<1>9. QED
  BY <1>2, <1>4, <1>6, <1>8

\* The descriptors a process has in use after a step: those it had, or one
\* more with a connection that it received.
LEMMA DescriptorsAfterStep ==
  ASSUME IInv, HInv, [Next]_vars, NEW p \in Procs, AliasFd \in UsedFds(p)'
  PROVE  AliasFd \in UsedFds(p) \/ \E c \in QueuedConns(p) : FreeFd(p) = AliasFd
<1> USE DEF HInv
<1>0. list \in [Procs -> Seq(Served)]
  BY DEF Shapes
<1>1. CASE list' = list
  BY <1>1 DEF UsedFds
<1>2. ASSUME NEW r \in Procs, LeaveLoop(r) PROVE AliasFd \in UsedFds(p)
  <2>1. list'[r] = <<>> /\ \A s \in Procs \ {r} : list'[s] = list[s]
    BY <1>0, <1>2 DEF LeaveLoop
  <2>2. QED
    BY <2>1 DEF UsedFds
<1>3. ASSUME NEW r \in Procs, CloseConn(r) PROVE AliasFd \in UsedFds(p)
  <2>1. PICK k \in DOMAIN list[r] : list' = [list EXCEPT ![r] = RemoveAt(list[r], k)]
    BY <1>3 DEF CloseConn
  <2>2. CASE r # p
    BY <1>0, <2>1, <2>2 DEF UsedFds
  <2>3. CASE r = p
    <3>1. /\ list'[p] = RemoveAt(list[p], k) /\ RemoveAt(list[p], k) \in Seq(Served)
          /\ Len(RemoveAt(list[p], k)) = Len(list[p]) - 1
          /\ \A j \in 1 .. Len(list[p]) - 1 :
               RemoveAt(list[p], k)[j] = IF j < k THEN list[p][j] ELSE list[p][j + 1]
      BY <1>0, <2>1, <2>3, RemoveAtElements
    <3>2. PICK j \in 1 .. Len(list[p]) - 1 : list'[p][j].fd = AliasFd
      BY <3>1 DEF UsedFds
    <3>3. Len(list[p]) \in Nat /\ DOMAIN list[p] = 1 .. Len(list[p])
      BY <1>0
    <3>4. list'[p][j] = list[p][j] \/ list'[p][j] = list[p][j + 1]
      BY <3>1
    <3>5. j \in DOMAIN list[p] /\ j + 1 \in DOMAIN list[p]
      BY <3>3
    <3>6. QED
      BY <3>2, <3>4, <3>5 DEF UsedFds
  <2>4. QED
    BY <2>2, <2>3
<1>4. ASSUME NEW r \in Procs, ReadFdCmd(r)
      PROVE  AliasFd \in UsedFds(p) \/ \E c \in QueuedConns(p) : FreeFd(p) = AliasFd
  <2>1. PICK c \in Clients :
          /\ q[r] # <<>> /\ Head(q[r]) = Fd(c)
          /\ list' = [list EXCEPT ![r] = Append(list[r], [conn |-> c, fd |-> FreeFd(r)])]
    BY <1>4 DEF ReadFdCmd
  <2>2. CASE r # p
    BY <1>0, <2>1, <2>2 DEF UsedFds
  <2>3. CASE r = p
    <3>1. /\ list[p] \in Seq(Served) /\ Len(list[p]) \in Nat
          /\ list'[p] = Append(list[p], [conn |-> c, fd |-> FreeFd(p)])
          /\ DOMAIN list[p] = 1 .. Len(list[p])
      BY <1>0, <2>1, <2>3
    <3>2. /\ DOMAIN list'[p] = 1 .. Len(list[p]) + 1
          /\ list'[p][Len(list[p]) + 1] = [conn |-> c, fd |-> FreeFd(p)]
          /\ \A k \in 1 .. Len(list[p]) : list'[p][k] = list[p][k]
      BY <3>1
    <3>3. PICK k \in 1 .. Len(list[p]) + 1 : list'[p][k].fd = AliasFd
      BY <3>2 DEF UsedFds
    <3>4. CASE k \in 1 .. Len(list[p])
      BY <3>1, <3>2, <3>3, <3>4 DEF UsedFds
    <3>5. CASE k = Len(list[p]) + 1
      <4>1. FreeFd(p) = AliasFd
        BY <3>2, <3>3, <3>5
      <4>2. c \in QueuedConns(p)
        <5>1. q[p] \in Seq(Commands) /\ q[p] # <<>> /\ Head(q[p]) = Fd(c)
          BY <2>1, <2>3 DEF IInv, Typed
        <5>2. 1 \in DOMAIN q[p] /\ q[p][1] = Fd(c)
          BY <5>1
        <5>3. QED
          BY <5>2 DEF QueuedConns, Range
      <4>3. QED
        BY <4>1, <4>2
    <3>6. QED
      BY <3>1, <3>4, <3>5
  <2>4. QED
    BY <2>2, <2>3
<1>5. CASE \E r \in Procs : LoopStep(r)
  BY <1>2, <1>3, <1>4, <1>5 DEF LoopStep, ReadCmd, ReadExitCmd, AcceptOnNoSocket
<1>6. CASE AcceptFails
  BY <1>2, <1>6, ParametersAssumption DEF AcceptFails, Master, Procs
<1>7. CASE MasterStep /\ ~AcceptFails
  BY <1>1, <1>7 DEF MasterStep, Fork, InstallHandlers, InitMaster, SocketpairFails, Select,
     Accept, AcceptEINTR, GetWorkerMod, GetWorkerInc, SendFd, Notify, Wait, MasterExits
<1>8. CASE Signal \/ (\E c \in Clients : Connect(c)) \/ UNCHANGED vars
  BY <1>1, <1>8 DEF Signal, Connect, vars
<1>9. QED
  BY <1>5, <1>6, <1>7, <1>8 DEF Next

\* A server that stops does not go back to its loop.
LEMMA StopsForGood == [Next]_vars /\ Stopping => Stopping'
<1> SUFFICES ASSUME [Next]_vars, Stopping PROVE Stopping'
  OBVIOUS
<1> USE DEF Stopping
<1>1. CASE \E p \in Procs : LoopStep(p)
  BY <1>1 DEF LoopStep, ReadCmd, ReadFdCmd, ReadExitCmd, CloseConn, AcceptOnNoSocket,
     LeaveLoop
<1>2. CASE MasterStep
  BY <1>2 DEF MasterStep, Fork, InstallHandlers, InitMaster, SocketpairFails, Select,
     Accept, AcceptEINTR, AcceptFails, GetWorkerMod, GetWorkerInc, SendFd, Notify, Wait,
     MasterExits
<1>3. CASE Signal
  BY <1>3 DEF Signal, InLoop
<1>4. CASE (\E c \in Clients : Connect(c)) \/ UNCHANGED vars
  BY <1>4 DEF Connect, vars
<1>5. QED
  BY <1>1, <1>2, <1>3, <1>4 DEF Next

\* What a step outside the exit loop does with the queue of a worker.
LEMMA QueueOfWorker ==
  ASSUME IInv, [Next]_vars, ~Stopping, ~Stopping', NEW w \in Workers
  PROVE  \/ q'[w] = q[w] \/ q'[w] = <<>>
         \/ q[w] # <<>> /\ q'[w] = Tail(q[w])
         \/ \E c \in Clients : q'[w] = Append(q[w], Fd(c))
<1>0. q \in [Procs -> Seq(Commands)] /\ w \in Procs /\ w # Master /\ Workers \subseteq Procs
  BY ParametersAssumption DEF IInv, Typed, Workers, Procs, Master
<1>1. ASSUME NEW p \in Procs, LeaveLoop(p) PROVE q'[w] = q[w] \/ q'[w] = <<>>
  BY <1>0, <1>1 DEF LeaveLoop
<1>2. ASSUME NEW p \in Procs, ReadFdCmd(p)
      PROVE  q'[w] = q[w] \/ (q[w] # <<>> /\ q'[w] = Tail(q[w]))
  BY <1>0, <1>2 DEF ReadFdCmd
<1>3. CASE SendFd
  BY <1>0, <1>3 DEF SendFd, IInv, Typed
<1>4. CASE Signal
  BY <1>0, <1>4 DEF Signal
<1>5. CASE \E p \in Procs : LoopStep(p)
  BY <1>1, <1>2, <1>5 DEF LoopStep, ReadCmd, ReadExitCmd, CloseConn, AcceptOnNoSocket
<1>6. CASE AcceptFails
  <2>1. Master \in Procs
    BY ParametersAssumption DEF Master, Procs
  <2>2. QED
    BY <1>1, <1>6, <2>1 DEF AcceptFails
<1>7. CASE MasterStep /\ ~SendFd /\ ~AcceptFails
  BY <1>7 DEF MasterStep, Fork, InstallHandlers, InitMaster, SocketpairFails, Select,
     Accept, AcceptEINTR, GetWorkerMod, GetWorkerInc, Notify, Wait, MasterExits, Stopping
<1>8. CASE (\E c \in Clients : Connect(c)) \/ UNCHANGED vars
  BY <1>8 DEF Connect, vars
<1>9. QED
  BY <1>3, <1>4, <1>5, <1>6, <1>7, <1>8 DEF Next

\* What a step outside the exit loop does with a worker.
LEMMA StepOfWorker ==
  ASSUME IInv, [Next]_vars, ~Stopping, ~Stopping', NEW w \in Workers
  PROVE  \/ proc'[w] = proc[w] /\ (pc = "fork" /\ pc' = "fork" /\ i' = i + 1 => w # i)
                               /\ (pc' = "fork" => pc = "fork" /\ i' \in {i, i + 1})
         \/ pc = "fork" /\ pc' = "fork" /\ w = i /\ i' = i + 1
              /\ proc'[w] \in {"run", "failed"}
         \/ pc' = pc /\ i' = i /\ proc'[w] = "zombie"
              /\ (ReadExitCmd(w) \/ AcceptOnNoSocket(w))
<1>0. /\ proc \in [Workers -> {"none", "failed", "run", "zombie", "reaped"}]
      /\ w \in Procs /\ w # Master /\ i \in Nat /\ Workers = 0 .. N - 1
      /\ Master \notin Workers
  BY ParametersAssumption DEF IInv, Typed, Workers, Procs, Master
<1>1. CASE Fork
  BY <1>0, <1>1 DEF Fork
<1>2. ASSUME NEW p \in Procs, ReadExitCmd(p) \/ AcceptOnNoSocket(p)
      PROVE  \/ proc'[w] = proc[w] /\ pc' = pc /\ i' = i
             \/ pc' = pc /\ i' = i /\ proc'[w] = "zombie"
                  /\ (ReadExitCmd(w) \/ AcceptOnNoSocket(w))
  <2>1. p # Master
    BY <1>2 DEF ReadExitCmd, AcceptOnNoSocket, LeaveLoop, Stopping
  <2>2. proc' = [proc EXCEPT ![p] = "zombie"] /\ pc' = pc /\ i' = i
    BY <1>2, <2>1 DEF ReadExitCmd, AcceptOnNoSocket, LeaveLoop
  <2>3. QED
    BY <1>0, <1>2, <2>2
<1>3. ASSUME NEW p \in Procs, ReadFdCmd(p) \/ CloseConn(p)
      PROVE  proc' = proc /\ pc' = pc /\ i' = i
  BY <1>3 DEF ReadFdCmd, CloseConn
<1>4. CASE \E p \in Procs : LoopStep(p)
  <2>1. PICK p \in Procs : LoopStep(p)
    BY <1>4
  <2>2. i # i + 1
    BY <1>0
  <2>3. CASE ReadExitCmd(p) \/ AcceptOnNoSocket(p)
    BY <1>2, <2>2, <2>3
  <2>4. CASE ReadFdCmd(p) \/ CloseConn(p)
    BY <1>3, <2>2, <2>4
  <2>5. QED
    BY <2>1, <2>3, <2>4 DEF LoopStep, ReadCmd
<1>5. CASE MasterStep /\ ~Fork
  <2>1. proc' = proc /\ pc' # "fork"
    BY <1>5 DEF MasterStep, InstallHandlers, InitMaster, SocketpairFails, Select, Accept,
       AcceptEINTR, AcceptFails, LeaveLoop, GetWorkerMod, GetWorkerInc, SendFd, Notify, Wait,
       MasterExits, Stopping
  <2>2. QED
    BY <2>1
<1>6. CASE Signal
  <2>1. proc' = proc /\ pc' # "fork"
    BY <1>6 DEF Signal, InLoop
  <2>2. QED
    BY <2>1
<1>7. CASE (\E c \in Clients : Connect(c)) \/ UNCHANGED vars
  <2>1. proc' = proc /\ pc' = pc /\ i' = i
    BY <1>7 DEF Connect, vars
  <2>2. QED
    BY <1>0, <2>1
<1>8. QED
  BY <1>1, <1>4, <1>5, <1>6, <1>7 DEF Next

LEMMA WorkersStart == Init => WInv
<1> SUFFICES ASSUME Init PROVE WInv
  OBVIOUS
<1>1. AliasIsLate
  <2>1. \A p \in Procs : UsedFds(p) = {}
    BY DEF Init, UsedFds
  <2>2. QED
    BY <2>1 DEF AliasIsLate
<1>2. ExitsAreLast
  <2>1. \A w \in Workers : w \in Procs
    BY ParametersAssumption DEF Workers, Procs
  <2>2. QED
    BY <2>1 DEF Init, ExitsAreLast, Range
<1>3. AllForked /\ NoneLeft
  BY ParametersAssumption DEF Init, AllForked, NoneLeft, Workers
<1>4. QED
  BY <1>1, <1>2, <1>3 DEF WInv

LEMMA WorkersNext == IInv /\ HInv /\ WInv /\ [Next]_vars => WInv'
<1> SUFFICES ASSUME IInv, HInv, WInv, [Next]_vars PROVE WInv'
  OBVIOUS
<1>0. /\ Made \subseteq Made' /\ AliasFd \in Nat
      /\ Cardinality(Made) \in Nat /\ Cardinality(Made') \in Nat
      /\ Cardinality(Made) <= Cardinality(Made')
  BY StepEffect, MadeGrows, ParametersAssumption DEF Effect, HInv
<1>1. AliasIsLate'
  <2> SUFFICES ASSUME NEW p \in Procs, AliasFd \in UsedFds(p)'
               PROVE  Cardinality(Made') > AliasFd
    BY DEF AliasIsLate
  <2>1. Cardinality(Made) > AliasFd
    BY DescriptorsAfterStep, AliasNeedsConnections DEF WInv, AliasIsLate
  <2>2. QED
    BY <1>0, <2>1
<1>2. CASE Stopping'
  BY <1>1, <1>2 DEF WInv, ExitsAreLast, AllForked, NoneLeft, Stopping
<1>3. CASE ~Stopping'
  <2>0. ~Stopping
    BY <1>3, StopsForGood
  <2>1. ExitsAreLast'
    <3> SUFFICES ASSUME NEW w \in Workers PROVE Exit \notin Range(q'[w])
      BY DEF ExitsAreLast
    <3>1. q[w] \in Seq(Commands) /\ Exit \notin Range(q[w])
      BY <2>0, ParametersAssumption DEF WInv, ExitsAreLast, IInv, Typed, Workers, Procs
    <3>2. CASE q'[w] = q[w] \/ q'[w] = <<>>
      BY <3>1, <3>2 DEF Range
    <3>3. CASE q[w] # <<>> /\ q'[w] = Tail(q[w])
      BY <3>1, <3>3, TailOccurrences
    <3>4. ASSUME NEW c \in Clients, q'[w] = Append(q[w], Fd(c))
          PROVE  Exit \notin Range(q'[w])
      BY <3>1, <3>4, AppendOccurrences, CommandsDiffer, CommandsSent
    <3>5. QED
      BY <1>3, <2>0, <3>2, <3>3, <3>4, QueueOfWorker
  <2>2. AllForked'
    <3>1. ASSUME NEW w \in Workers, pc' = "fork", w < i' PROVE proc'[w] # "none"
      <4>1. i \in Nat /\ w \in Nat
        BY ParametersAssumption DEF IInv, Typed, Workers
      <4>2. w < i /\ pc = "fork" => proc[w] # "none"
        BY DEF WInv, AllForked
      <4>3. QED
        BY <1>3, <2>0, <3>1, <4>1, <4>2, StepOfWorker
    <3>2. ASSUME NEW w \in Workers, pc' # "fork" PROVE proc'[w] # "none"
      <4>1. CASE pc # "fork"
        BY <1>3, <2>0, <3>2, <4>1, StepOfWorker DEF WInv, AllForked
      <4>2. CASE pc = "fork"
        <5>1. InstallHandlers
          <6>1. ASSUME NEW p \in Procs, LoopStep(p) PROVE FALSE
            BY <1>3, <3>2, <4>2, <6>1 DEF LoopStep, ReadCmd, ReadFdCmd, ReadExitCmd,
               CloseConn, AcceptOnNoSocket, LeaveLoop, Stopping
          <6>2. QED
            BY <1>3, <3>2, <4>2, <6>1 DEF Next, MasterStep, Fork, InitMaster,
               SocketpairFails, Select, Accept, AcceptEINTR, AcceptFails, LeaveLoop,
               GetWorkerMod, GetWorkerInc, SendFd, Notify, Wait, MasterExits, Signal, InLoop,
               Connect, Stopping, vars
        <5>2. i = N /\ proc' = proc /\ w < i
          BY <5>1, ParametersAssumption DEF InstallHandlers, Workers
        <5>3. QED
          BY <4>2, <5>2 DEF WInv, AllForked
      <4>3. QED
        BY <4>1, <4>2
    <3>3. QED
      BY <3>1, <3>2 DEF AllForked
  <2>3. NoneLeft'
    <3> SUFFICES ASSUME Cardinality(Made') <= AliasFd, NEW w \in Workers
                 PROVE  proc'[w] \in {"none", "run", "failed"}
      BY DEF NoneLeft
    <3>1. Cardinality(Made) <= AliasFd
      BY <1>0
    <3>2. proc[w] \in {"none", "run", "failed"}
      BY <2>0, <3>1 DEF WInv, NoneLeft
    <3>3. w \in Procs /\ q[w] \in Seq(Commands)
      BY ParametersAssumption DEF IInv, Typed, Workers, Procs
    <3>4. ~ AcceptOnNoSocket(w)
      BY <1>0, <3>1, <3>3 DEF AcceptOnNoSocket, WInv, AliasIsLate
    <3>5. ~ ReadExitCmd(w)
      <4>1. ASSUME q[w] # <<>>, Head(q[w]) = Exit PROVE FALSE
        <5>1. 1 \in DOMAIN q[w] /\ q[w][1] = Exit
          BY <3>3, <4>1
        <5>2. QED
          BY <2>0, <5>1 DEF WInv, ExitsAreLast, Range
      <4>2. QED
        BY <4>1 DEF ReadExitCmd
    <3>6. QED
      BY <1>3, <2>0, <3>2, <3>4, <3>5, StepOfWorker
  <2>4. QED
    BY <1>1, <2>1, <2>2, <2>3 DEF WInv
<1>4. QED
  BY <1>2, <1>3

\* No worker leaves its loop while the master still hands out connections,
\* unless more connections have been made than the number of the descriptor
\* that FD_ISSET(-1) looks at (code: worker(), the listen_fd of a worker).
THEOREM WorkersStay == Spec => []WorkersOutliveTheLoop
<1>1. WInv => WorkersOutliveTheLoop
  <2> SUFFICES ASSUME WInv, Cardinality(Made) <= AliasFd, pc \in InLoop, NEW w \in Workers
               PROVE  proc[w] \in {"run", "failed"}
    BY DEF WorkersOutliveTheLoop, Made
  <2>1. ~Stopping /\ pc # "fork"
    BY DEF InLoop, Stopping
  <2>2. QED
    BY <2>1 DEF WInv, AllForked, NoneLeft
<1>2. QED
  BY <1>1, WorkersStart, WorkersNext, Invariance, HandoverInvariance, PTL DEF Spec

=============================================================================
