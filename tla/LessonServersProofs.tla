-------------------------- MODULE LessonServersProofs -------------------------
(* The lessons' servers, for every number of clients and every command line. *)
(*                                                                           *)
(* The select, epoll and WSAEventSelect servers: MutedByAFullBuffer.  On an  *)
(* epoll server with a clean stack and whole pings what a client has sent and*)
(* still has to read is one message at most, and one more for each recv that *)
(* failed: no buffer fills, nobody is parked, and the upper half of ev.data  *)
(* stays zero.  The ping/pong programs follow, with names of their own.      *)
EXTENDS EventServers, PingPong, SequenceTheorems, TLAPS

Types == TypeOK /\ run \in Scenarios

\* accept is called for a connection that is there.
ListenerHasOne == lset => backlog # <<>>

\* A client in its loop has something to send, and a round to make.
Rounds(c) ==
  /\ cstate[c] \in {"start", "sending"} => todo[c] >= 1
  /\ cstate[c] = "polling" => C.polls
  /\ cstate[c] \in {"start", "sending", "waiting", "polling"} /\ ~Infinite => left[c] >= 1

\* An epoll server that should mute nobody.
Calm == S.waits = "epoll" /\ ~run.garbage /\ Size <= 1 /\ faults < Cap

\* A client waits for one pong, and has to read one more for each failure.
Quiet(c) ==
  /\ ~wants[c]
  /\ c \in rest => c \in rset /\ (up[c] > 0 \/ Gone(c))
  /\ ~Gone(c) => up[c] + down[c] <= faults + (IF cstate[c] = "waiting" THEN 1 ELSE 0)

AllQuiet == ~stale /\ pollout = {} /\ wset = {} /\ \A c \in Clients : Quiet(c)

IInv == Types /\ ListenerHasOne /\ (\A c \in Clients : Rounds(c)) /\ (Calm => AllQuiet)

-----------------------------------------------------------------------------
(* The scenario                                                              *)

\* What a lesson's programs have in common, and what goes with epoll.
Known ==
  /\ Size \in Nat \ {0} /\ run.count \in Int /\ C.takes \in {1, 2}
  /\ S.on_accept_error \in {"exit", "rewait", "go on"}
  /\ S.waits = "epoll" =>
       /\ ~C.polls /\ ~S.everyone /\ S.parks /\ ~S.echo /\ S.on_recv_error = "send"
  /\ Cap \in Nat \ {0} /\ MaxFaults \in Nat

LEMMA RunKnown == ASSUME run \in Scenarios PROVE Known
<1>1. run \in Lines /\ Cap \in Nat \ {0} /\ MaxFaults \in Nat
  BY ServersAssumption
<1>2. <<S, C>> \in Programs /\ run.count \in Int /\ run.size \in Int
      /\ ("size" \in C.options => run.size > 0)
  BY <1>1 DEF Lines, S, C
<1>3. \/ S = SelectServer_0318 /\ C = SelectClient_0318
      \/ S = EpollServer_0319 /\ C = StreamClient_0319
      \/ S = WsaServer_0321 /\ C = WsaClient_0321
  BY <1>2 DEF Programs, SelectServer_0319, SelectServer_0423, SelectServer_0424,
     SelectClient_0319, SelectClient_0423, SelectClient_0424, EpollServer_0423,
     EpollServer_0424, StreamClient_0423, StreamClient_0424
<1>4. /\ C.takes \in {1, 2} /\ S.on_accept_error \in {"exit", "rewait", "go on"}
      /\ S.waits = "epoll" =>
           /\ ~C.polls /\ ~S.everyone /\ S.parks /\ ~S.echo /\ S.on_recv_error = "send"
  <2>1. CASE S = SelectServer_0318 /\ C = SelectClient_0318
    <3>1. S.waits = "select" /\ S.on_accept_error = "exit"
      BY <2>1 DEF SelectServer_0318
    <3>2. C.takes = 2
      BY <2>1 DEF SelectClient_0318
    <3>3. QED
      BY <3>1, <3>2
  <2>2. CASE S = EpollServer_0319 /\ C = StreamClient_0319
    <3>1. S.on_accept_error = "rewait" /\ ~S.everyone /\ S.parks /\ ~S.echo
          /\ S.on_recv_error = "send"
      BY <2>2 DEF EpollServer_0319
    <3>2. C.takes = 1 /\ ~C.polls
      BY <2>2 DEF StreamClient_0319
    <3>3. QED
      BY <3>1, <3>2
  <2>3. CASE S = WsaServer_0321 /\ C = WsaClient_0321
    <3>1. S.waits = "wsa" /\ S.on_accept_error = "go on"
      BY <2>3 DEF WsaServer_0321
    <3>2. C.takes = 2
      BY <2>3 DEF WsaClient_0321
    <3>3. QED
      BY <3>1, <3>2
  <2>4. QED
    BY <1>3, <2>1, <2>2, <2>3
<1>5. Size \in Nat \ {0}
  <2>1. CASE "size" \in C.options
    <3>1. Size = run.size
      BY <2>1 DEF Size
    <3>2. run.size \in Int /\ run.size > 0
      BY <1>2, <2>1
    <3>3. QED
      BY <3>1, <3>2
  <2>2. CASE "size" \notin C.options
    BY <2>2 DEF Size
  <2>3. QED
    BY <2>1, <2>2
<1>6. QED
  BY <1>1, <1>2, <1>4, <1>5 DEF Known

LEMMA RunStays ==
  ASSUME run' = run
  PROVE  /\ S' = S /\ C' = C /\ Size' = Size /\ Infinite' = Infinite
         /\ Reads' = Reads /\ Writes' = Writes
BY DEF S, C, Size, Infinite, Reads, Writes

LEMMA MinOf == ASSUME NEW a \in Int, NEW b \in Int PROVE Min({a, b}) = IF a <= b THEN a ELSE b
<1>1. \E x \in {a, b} : \A y \in {a, b} : x =< y
  <2>1. CASE a <= b
    BY <2>1
  <2>2. CASE ~(a <= b)
    BY <2>2
  <2>3. QED
    BY <2>1, <2>2
<1>2. Min({a, b}) \in {a, b} /\ \A y \in {a, b} : Min({a, b}) =< y
  BY <1>1 DEF Min
<1>3. QED
  BY <1>2

-----------------------------------------------------------------------------
(* The clients                                                               *)

\* What a step needs to know.
Now == IInv /\ Known

LEMMA ConnectStep ==
  ASSUME Now, NEW c \in Clients, Connect(c)
  PROVE  IInv'
<1>1. run' = run /\ S' = S /\ C' = C /\ Size' = Size /\ Infinite' = Infinite
  BY RunStays DEF Connect
<1>2. Types'
  <2>1. Types
    BY DEF Now, IInv
  <2>2. cstate' \in [Clients -> {"absent", "start", "sending", "waiting", "polling", "done"}]
    BY <2>1 DEF Types, TypeOK, Connect
  <2>3. cwrite' \in [Clients -> BOOLEAN]
    BY <2>1 DEF Types, TypeOK, Connect
  <2>4. conn' \in [Clients -> {"none", "queued", "open", "closed"}]
    BY <2>1 DEF Types, TypeOK, Connect
  <2>5. backlog' \in Seq(Clients)
    <3>1. backlog' = backlog \/ backlog' = Append(backlog, c)
      BY DEF Connect
    <3>2. backlog \in Seq(Clients)
      BY <2>1 DEF Types, TypeOK
    <3>3. QED
      BY <3>1, <3>2
  <2>6. QED
    BY <1>1, <2>1, <2>2, <2>3, <2>4, <2>5 DEF Types, TypeOK, Connect, scanVars, noteVars
<1>3. ListenerHasOne'
  <2>1. backlog \in Seq(Clients) /\ (backlog' = backlog \/ backlog' = Append(backlog, c)) /\ lset' = lset
    BY DEF Now, IInv, Types, TypeOK, Connect, scanVars
  <2>2. QED
    BY <2>1 DEF Now, IInv, ListenerHasOne
<1>4. ASSUME NEW d \in Clients PROVE Rounds(d)'
  <2>1. cstate[c] = "start" /\ cstate \in [Clients -> {"absent", "start", "sending", "waiting", "polling", "done"}]
        /\ todo' = todo /\ left' = left /\ todo \in [Clients -> 0 .. Size]
    BY DEF Now, IInv, Types, TypeOK, Connect
  <2>2. \/ cstate' = [cstate EXCEPT ![c] = "done"]
        \/ cstate' = [cstate EXCEPT ![c] = IF C.polls THEN "polling" ELSE "sending"]
    BY DEF Connect
  <2>3. Rounds(d) /\ Rounds(c)
    BY DEF Now, IInv
  <2>4. QED
    BY <1>1, <2>1, <2>2, <2>3 DEF Rounds
<1>5. ASSUME Calm' PROVE AllQuiet'
  <2>1. Calm /\ AllQuiet
    BY <1>1, <1>5 DEF Now, IInv, Calm, Connect
  <2>2. QED
    BY <1>1, <2>1 DEF AllQuiet, Quiet, Gone, Connect, Now, IInv, Types, TypeOK, scanVars, noteVars
<1>6. QED
  BY <1>2, <1>3, <1>4, <1>5 DEF IInv

Places == {"absent", "start", "sending", "waiting", "polling", "done"}

\* The types, as the steps use them.
LEMMA Typed ==
  ASSUME Now
  PROVE  /\ cstate \in [Clients -> Places] /\ todo \in [Clients -> 0 .. Size]
         /\ left \in [Clients -> Nat] /\ up \in [Clients -> 0 .. Cap] /\ down \in [Clients -> 0 .. Cap]
         /\ wants \in [Clients -> BOOLEAN]
         /\ faults \in Nat /\ MaxFaults \in Nat /\ Cap \in Nat \ {0} /\ Size \in Nat \ {0}
<1>1. /\ cstate \in [Clients -> Places] /\ todo \in [Clients -> 0 .. Size]
      /\ left \in [Clients -> Nat] /\ up \in [Clients -> 0 .. Cap] /\ down \in [Clients -> 0 .. Cap]
      /\ wants \in [Clients -> BOOLEAN]
  BY DEF Now, IInv, Types, TypeOK, Places
<1>2. faults \in 0 .. MaxFaults
  BY DEF Now, IInv, Types, TypeOK
<1>3. MaxFaults \in Nat /\ Cap \in Nat \ {0} /\ Size \in Nat \ {0}
  BY DEF Now, Known
<1>4. QED
  BY <1>1, <1>2, <1>3

\* What the end of a client's round leaves.
LEMMA RoundEnds ==
  ASSUME Now, NEW c \in Clients, NEW again, run' = run,
         again = "sending" \/ (again = "polling" /\ C.polls),
         (cstate[c] \in {"waiting", "polling"} /\ EndRound(c, again)) \/ Quit(c)
  PROVE  /\ cstate' \in [Clients -> Places] /\ todo' \in [Clients -> 0 .. Size]
         /\ left' \in [Clients -> Nat]
         /\ cstate'[c] \in {"done", again}
         /\ \A d \in Clients : d # c => cstate'[d] = cstate[d]
         /\ \A d \in Clients : Rounds(d)'
<1>1. S' = S /\ C' = C /\ Size' = Size /\ Infinite' = Infinite
  BY RunStays
<1>2. cstate \in [Clients -> Places] /\ todo \in [Clients -> 0 .. Size] /\ left \in [Clients -> Nat]
  BY Typed
<1>3. Size \in Nat \ {0}
  BY DEF Now, Known
<1>4. \A d \in Clients : Rounds(d)
  BY DEF Now, IInv
<1>5. CASE Quit(c)
  <2>1. cstate' = [cstate EXCEPT ![c] = "done"] /\ todo' = todo /\ left' = left
    BY <1>5 DEF Quit
  <2>2. ASSUME NEW d \in Clients PROVE Rounds(d)'
    BY <1>1, <1>2, <1>4, <2>1 DEF Rounds
  <2>3. cstate' \in [Clients -> Places]
    BY <1>2, <2>1 DEF Places
  <2>4. QED
    BY <1>2, <2>1, <2>2, <2>3
<1>6. CASE cstate[c] \in {"waiting", "polling"} /\ EndRound(c, again)
  <2>1. /\ left' = [left EXCEPT ![c] = IF Infinite THEN @ ELSE @ - 1]
        /\ todo' = [todo EXCEPT ![c] = Size]
        /\ cstate' = [cstate EXCEPT ![c] = IF ~Infinite /\ left[c] = 1 THEN "done" ELSE again]
    BY <1>6 DEF EndRound
  <2>2. left[c] \in Nat /\ (~Infinite => left[c] >= 1)
    BY <1>2, <1>4, <1>6 DEF Rounds
  <2>3. left' \in [Clients -> Nat]
    BY <1>2, <2>1, <2>2
  <2>4. todo' \in [Clients -> 0 .. Size]
    BY <1>2, <1>3, <2>1
  <2>5. cstate' \in [Clients -> Places]
    BY <1>2, <2>1 DEF Places
  <2>6. /\ cstate'[c] \in {"done", again} /\ todo'[c] = Size
        /\ ~Infinite /\ cstate'[c] # "done" => left'[c] >= 1
    BY <1>2, <2>1, <2>2
  <2>7. \A d \in Clients : d # c => cstate'[d] = cstate[d] /\ todo'[d] = todo[d] /\ left'[d] = left[d]
    BY <1>2, <2>1
  <2>8. ASSUME NEW d \in Clients PROVE Rounds(d)'
    <3>1. CASE d = c
      <4>1. cstate'[c] = "sending" => todo'[c] >= 1
        BY <1>3, <2>6
      <4>2. cstate'[c] = "polling" => C.polls
        BY <2>6
      <4>3. cstate'[c] # "start"
        BY <2>6
      <4>4. QED
        BY <1>1, <2>6, <3>1, <4>1, <4>2, <4>3 DEF Rounds
    <3>2. CASE d # c
      BY <1>1, <1>4, <2>7, <3>2 DEF Rounds
    <3>3. QED
      BY <3>1, <3>2
  <2>9. QED
    BY <2>3, <2>4, <2>5, <2>6, <2>7, <2>8
<1>7. QED
  BY <1>5, <1>6

LEMMA ClientSendStep ==
  ASSUME Now, NEW c \in Clients, ClientSend(c)
  PROVE  IInv'
<1>1. run' = run /\ S' = S /\ C' = C /\ Size' = Size /\ Infinite' = Infinite
  BY RunStays DEF ClientSend
<1>2. Types /\ Size \in Nat \ {0} /\ \A d \in Clients : Rounds(d)
  BY DEF Now, IInv, Known
<1>3. /\ cstate \in [Clients -> Places] /\ todo \in [Clients -> 0 .. Size]
      /\ left \in [Clients -> Nat] /\ up \in [Clients -> 0 .. Cap] /\ down \in [Clients -> 0 .. Cap]
      /\ faults \in Nat /\ Cap \in Nat \ {0}
  BY Typed
<1>4. todo[c] \in 1 .. Size /\ up[c] \in 0 .. Cap /\ cstate[c] = "sending"
  BY <1>2, <1>3 DEF Rounds, ClientSend
<1>5. UNCHANGED <<run, cwrite, conn, backlog, down, table, scanVars, noteVars, deaf, faults>>
  BY DEF ClientSend
<1>6. ListenerHasOne'
  BY <1>5 DEF Now, IInv, ListenerHasOne, scanVars
<1>7. CASE Shut(c) /\ Quit(c) /\ UNCHANGED up
  <2>1. /\ cstate' \in [Clients -> Places] /\ todo' \in [Clients -> 0 .. Size]
        /\ left' \in [Clients -> Nat] /\ cstate'[c] = "done"
        /\ \A d \in Clients : Rounds(d)'
    BY <1>1, <1>3, <1>7, RoundEnds DEF Quit
  <2>2. \A d \in Clients : d # c => cstate'[d] = cstate[d]
    BY <1>3, <1>7 DEF Quit
  <2>3. Types'
    BY <1>1, <1>2, <1>5, <1>7, <2>1 DEF Types, TypeOK, Places, scanVars, noteVars
  <2>4. ASSUME Calm' PROVE AllQuiet'
    <3>1. Calm /\ AllQuiet
      BY <1>1, <1>5, <2>4 DEF Now, IInv, Calm
    <3>2. QED
      BY <1>5, <1>7, <2>1, <2>2, <3>1 DEF AllQuiet, Quiet, Gone, scanVars, noteVars
  <2>5. QED
    BY <1>6, <2>1, <2>3, <2>4 DEF IInv
<1>8. CASE /\ up[c] < Cap /\ up' = [up EXCEPT ![c] = @ + 1] /\ todo' = [todo EXCEPT ![c] = @ - 1]
           /\ cstate' = [cstate EXCEPT ![c] = IF todo[c] = 1 THEN "waiting" ELSE @]
           /\ left' = left
  <2>1. up' \in [Clients -> 0 .. Cap] /\ todo' \in [Clients -> 0 .. Size]
    <3>1. up[c] + 1 \in 0 .. Cap /\ todo[c] - 1 \in 0 .. Size
      BY <1>2, <1>3, <1>4, <1>8
    <3>2. up' = [up EXCEPT ![c] = up[c] + 1] /\ todo' = [todo EXCEPT ![c] = todo[c] - 1]
      BY <1>8
    <3>3. QED
      BY <1>3, <3>1, <3>2
  <2>2. cstate' \in [Clients -> Places]
    BY <1>3, <1>8 DEF Places
  <2>3. Types'
    BY <1>1, <1>2, <1>5, <1>8, <2>1, <2>2 DEF Types, TypeOK, Places, scanVars, noteVars
  <2>4. ASSUME NEW d \in Clients PROVE Rounds(d)'
    <3>1. CASE d = c
      <4>1. /\ todo'[c] = todo[c] - 1 /\ left'[c] = left[c]
            /\ cstate'[c] = IF todo[c] = 1 THEN "waiting" ELSE "sending"
        BY <1>3, <1>4, <1>8
      <4>2. cstate'[c] = "sending" => todo'[c] >= 1
        BY <1>2, <1>4, <4>1
      <4>3. ~Infinite => left[c] >= 1
        BY <1>2, <1>4 DEF Rounds
      <4>4. QED
        BY <1>1, <3>1, <4>1, <4>2, <4>3 DEF Rounds
    <3>2. CASE d # c
      BY <1>1, <1>2, <1>3, <1>8, <3>2 DEF Rounds
    <3>3. QED
      BY <3>1, <3>2
  <2>5. ASSUME Calm' PROVE AllQuiet'
    <3>1. Calm /\ AllQuiet
      BY <1>1, <1>5, <2>5 DEF Now, IInv, Calm
    <3>2. todo[c] = 1
      BY <1>2, <1>4, <3>1 DEF Calm
    <3>3. cstate'[c] = "waiting" /\ up'[c] = up[c] + 1
      BY <1>3, <1>8, <3>2
    <3>4. ASSUME NEW d \in Clients PROVE Quiet(d)'
      <4>1. Quiet(d) /\ up[d] \in Nat /\ down[d] \in Nat
        BY <1>3, <3>1 DEF AllQuiet
      <4>2. /\ rest' = rest /\ rset' = rset /\ wants' = wants /\ faults' = faults /\ down' = down
        BY <1>5 DEF scanVars, noteVars
      <4>3. CASE d = c
        BY <1>3, <1>4, <3>3, <4>1, <4>2, <4>3 DEF Quiet, Gone
      <4>4. CASE d # c
        <5>1. cstate'[d] = cstate[d] /\ up'[d] = up[d]
          BY <1>3, <1>8, <4>4
        <5>2. QED
          BY <4>1, <4>2, <5>1 DEF Quiet, Gone
      <4>5. QED
        BY <4>3, <4>4
    <3>5. QED
      BY <1>5, <3>1, <3>4 DEF AllQuiet, scanVars, noteVars
  <2>6. QED
    BY <1>6, <2>3, <2>4, <2>5 DEF IInv
<1>9. QED
  BY <1>7, <1>8 DEF ClientSend

\* recv takes pongs that are there.
LEMMA TakesPongs ==
  ASSUME Now, NEW c \in Clients, NEW n \in 1 .. Min({C.takes, down[c]})
  PROVE  /\ [down EXCEPT ![c] = @ - n] \in [Clients -> 0 .. Cap]
         /\ n \in Nat \ {0}
<1>1. C.takes \in Nat /\ down \in [Clients -> 0 .. Cap] /\ Cap \in Nat
  <2>1. C.takes \in {1, 2}
    BY DEF Now, Known
  <2>2. QED
    BY <2>1, Typed
<1>2. down[c] \in Nat /\ down[c] <= Cap
  BY <1>1
<1>3. Min({C.takes, down[c]}) <= down[c] /\ Min({C.takes, down[c]}) \in Nat
  BY <1>1, <1>2, MinOf
<1>4. n \in Nat \ {0} /\ n <= down[c]
  BY <1>2, <1>3
<1>5. down[c] - n \in 0 .. Cap
  BY <1>1, <1>2, <1>4
<1>6. QED
  BY <1>1, <1>4, <1>5

LEMMA ClientRecvStep ==
  ASSUME Now, NEW c \in Clients, ClientRecv(c)
  PROVE  IInv'
<1>1. run' = run /\ S' = S /\ C' = C /\ Size' = Size /\ Infinite' = Infinite
  BY RunStays DEF ClientRecv
<1>2. Types
  BY DEF Now, IInv
<1>3. UNCHANGED <<run, cwrite, conn, backlog, up, table, scanVars, noteVars, deaf, faults>>
      /\ cstate[c] = "waiting"
  BY DEF ClientRecv
<1>4. /\ cstate' \in [Clients -> Places] /\ todo' \in [Clients -> 0 .. Size]
      /\ left' \in [Clients -> Nat] /\ cstate'[c] \in {"done", "sending"}
      /\ \A d \in Clients : d # c => cstate'[d] = cstate[d]
      /\ \A d \in Clients : Rounds(d)'
  <2>1. EndRound(c, "sending") \/ Quit(c)
    BY DEF ClientRecv
  <2>2. QED
    BY <1>1, <1>3, <2>1, RoundEnds
<1>5. /\ down' \in [Clients -> 0 .. Cap]
      /\ \A d \in Clients : d # c => down'[d] = down[d]
      /\ cstate'[c] = "sending" => down'[c] + 1 <= down[c]
  <2>1. down \in [Clients -> 0 .. Cap] /\ Cap \in Nat
    BY Typed
  <2>2. CASE Shut(c) /\ Quit(c) /\ UNCHANGED down
    <3>1. cstate'[c] = "done"
      BY <2>2, Typed DEF Quit
    <3>2. QED
      BY <2>1, <2>2, <3>1
  <2>3. CASE \E n \in 1 .. Min({C.takes, down[c]}) : down' = [down EXCEPT ![c] = @ - n]
    <3>1. PICK n \in 1 .. Min({C.takes, down[c]}) : down' = [down EXCEPT ![c] = @ - n]
      BY <2>3
    <3>2. down' \in [Clients -> 0 .. Cap] /\ n \in Nat \ {0}
      BY <3>1, TakesPongs
    <3>3. down'[c] = down[c] - n
      BY <2>1, <3>1
    <3>4. down[c] \in Nat
      BY <2>1
    <3>5. \A d \in Clients : d # c => down'[d] = down[d]
      BY <2>1, <3>1
    <3>6. QED
      BY <3>2, <3>3, <3>4, <3>5
  <2>4. QED
    BY <2>2, <2>3 DEF ClientRecv
<1>6. Types'
  BY <1>1, <1>2, <1>3, <1>4, <1>5 DEF Types, TypeOK, Places, scanVars, noteVars
<1>7. ListenerHasOne'
  BY <1>3 DEF Now, IInv, ListenerHasOne, scanVars
<1>8. ASSUME Calm' PROVE AllQuiet'
  <2>1. Calm /\ AllQuiet
    BY <1>1, <1>3, <1>8 DEF Now, IInv, Calm
  <2>2. ASSUME NEW d \in Clients PROVE Quiet(d)'
    <3>1. Quiet(d) /\ up[d] \in Nat /\ down[d] \in Nat /\ down'[d] \in Nat /\ faults \in Nat
      BY <1>5, <2>1, Typed DEF AllQuiet
    <3>2. rest' = rest /\ rset' = rset /\ wants' = wants /\ faults' = faults /\ up' = up
      BY <1>3 DEF scanVars, noteVars
    <3>3. CASE d = c
      BY <1>3, <1>4, <1>5, <3>1, <3>2, <3>3 DEF Quiet, Gone
    <3>4. CASE d # c
      BY <1>4, <1>5, <3>1, <3>2, <3>4 DEF Quiet, Gone
    <3>5. QED
      BY <3>3, <3>4
  <2>3. QED
    BY <1>3, <2>1, <2>2 DEF AllQuiet, scanVars, noteVars
<1>9. QED
  BY <1>4, <1>6, <1>7, <1>8 DEF IInv

\* A polling client is not epoll's, so only the types are in question.
LEMMA ClientPollsStep ==
  ASSUME Now, NEW c \in Clients, ClientPolls(c)
  PROVE  IInv'
<1>1. run' = run /\ S' = S /\ C' = C /\ Size' = Size /\ Infinite' = Infinite
  BY RunStays DEF ClientPolls
<1>2. Types
  BY DEF Now, IInv
<1>3. UNCHANGED <<run, conn, backlog, table, scanVars, noteVars, deaf, faults>>
      /\ cstate[c] = "polling"
  BY DEF ClientPolls
<1>4. C.polls
  BY <1>3 DEF Now, IInv, Rounds
<1>5. /\ cstate' \in [Clients -> Places] /\ todo' \in [Clients -> 0 .. Size]
      /\ left' \in [Clients -> Nat] /\ \A d \in Clients : Rounds(d)'
  <2>1. EndRound(c, "polling") \/ Quit(c)
    BY DEF ClientPolls
  <2>2. QED
    BY <1>1, <1>3, <1>4, <2>1, RoundEnds
<1>6. down' \in [Clients -> 0 .. Cap]
  <2>1. CASE down' = down
    BY <2>1, Typed
  <2>2. CASE \E n \in 1 .. Min({C.takes, down[c]}) : down' = [down EXCEPT ![c] = @ - n]
    BY <2>2, TakesPongs
  <2>3. QED
    BY <2>1, <2>2 DEF ClientPolls
<1>7. up' \in [Clients -> 0 .. Cap]
  <2>1. up \in [Clients -> 0 .. Cap] /\ Cap \in Nat /\ Size \in Nat /\ up[c] \in Nat
    BY Typed
  <2>2. Min({Cap, up[c] + Size}) \in 0 .. Cap
    BY <2>1, MinOf
  <2>3. up' = [up EXCEPT ![c] = Min({Cap, up[c] + Size})] \/ up' = [up EXCEPT ![c] = up[c]]
    BY DEF ClientPolls
  <2>4. QED
    BY <2>1, <2>2, <2>3
<1>8. cwrite' \in [Clients -> BOOLEAN]
  <2>1. cwrite \in [Clients -> BOOLEAN]
    BY <1>2 DEF Types, TypeOK
  <2>2. \E b \in BOOLEAN : cwrite' = [cwrite EXCEPT ![c] = b]
    <3>1. cwrite[c] \in BOOLEAN
      BY <2>1
    <3>2. \/ cwrite' = [cwrite EXCEPT ![c] = cwrite[c]]
          \/ cwrite' = [cwrite EXCEPT ![c] = ~(up[c] < Cap \/ Shut(c))]
      BY DEF ClientPolls
    <3>3. (~(up[c] < Cap \/ Shut(c))) \in BOOLEAN
      OBVIOUS
    <3>4. QED
      BY <3>1, <3>2, <3>3
  <2>3. QED
    BY <2>1, <2>2
<1>9. Types'
  BY <1>1, <1>2, <1>3, <1>5, <1>6, <1>7, <1>8 DEF Types, TypeOK, Places, scanVars, noteVars
<1>10. ListenerHasOne'
  BY <1>3 DEF Now, IInv, ListenerHasOne, scanVars
<1>11. ~Calm'
  BY <1>1, <1>4 DEF Now, Known, Calm
<1>12. QED
  BY <1>5, <1>9, <1>10, <1>11 DEF IInv

LEMMA ClientFailsStep ==
  ASSUME Now, NEW c \in Clients, ClientFails(c)
  PROVE  IInv'
<1>1. run' = run /\ S' = S /\ C' = C /\ Size' = Size /\ Infinite' = Infinite
  BY RunStays DEF ClientFails
<1>2. Types
  BY DEF Now, IInv
<1>3. /\ UNCHANGED <<run, cwrite, conn, backlog, up, down, table, scanVars, noteVars, deaf>>
      /\ Quit(c) /\ faults < MaxFaults /\ faults' = faults + 1
  BY DEF ClientFails
<1>4. /\ cstate' \in [Clients -> Places] /\ todo' \in [Clients -> 0 .. Size]
      /\ left' \in [Clients -> Nat] /\ \A d \in Clients : Rounds(d)'
  BY <1>1, <1>3, RoundEnds
<1>5. cstate'[c] = "done" /\ \A d \in Clients : d # c => cstate'[d] = cstate[d]
  BY <1>3, Typed DEF Quit
<1>6. faults' \in 0 .. MaxFaults
  BY <1>3, Typed
<1>7. Types'
  BY <1>1, <1>2, <1>3, <1>4, <1>6 DEF Types, TypeOK, Places, scanVars, noteVars
<1>8. ListenerHasOne'
  BY <1>3 DEF Now, IInv, ListenerHasOne, scanVars
<1>9. ASSUME Calm' PROVE AllQuiet'
  <2>1. Calm /\ AllQuiet
    <3>1. faults < Cap
      BY <1>3, <1>9, Typed DEF Calm
    <3>2. QED
      BY <1>1, <1>9, <3>1 DEF Now, IInv, Calm
  <2>2. ASSUME NEW d \in Clients PROVE Quiet(d)'
    <3>1. Quiet(d) /\ up[d] \in Nat /\ down[d] \in Nat /\ faults \in Nat
      BY <2>1, Typed DEF AllQuiet
    <3>2. rest' = rest /\ rset' = rset /\ wants' = wants /\ faults' = faults + 1 /\ up' = up /\ down' = down
      BY <1>3 DEF scanVars, noteVars
    <3>3. CASE d = c
      BY <1>5, <3>1, <3>2, <3>3 DEF Quiet, Gone
    <3>4. CASE d # c
      BY <1>5, <3>1, <3>2, <3>4 DEF Quiet, Gone
    <3>5. QED
      BY <3>3, <3>4
  <2>3. QED
    BY <1>3, <2>1, <2>2 DEF AllQuiet, scanVars, noteVars
<1>10. QED
  BY <1>4, <1>7, <1>8, <1>9 DEF IInv

-----------------------------------------------------------------------------
(* The server                                                                *)

\* A step of the server changes no client's round.
LEMMA RoundsStay ==
  ASSUME Now, run' = run, UNCHANGED clientVars
  PROVE  \A d \in Clients : Rounds(d)'
<1>1. C' = C /\ Size' = Size /\ Infinite' = Infinite
  BY RunStays
<1>2. QED
  BY <1>1 DEF Now, IInv, Rounds, clientVars

LEMMA WaitStep ==
  ASSUME Now, Wait
  PROVE  IInv'
<1>1. run' = run /\ S' = S /\ C' = C /\ Size' = Size /\ Infinite' = Infinite
  BY RunStays DEF Wait
<1>2. UNCHANGED <<run, clientVars, conn, backlog, up, down, table, noteVars, deaf, faults>>
  BY DEF Wait
<1>3. /\ lset' = (backlog # <<>> /\ ~deaf) /\ spc' \in {"wait", "scan"}
      /\ rset' = {c \in Watched : Readable(c)}
      /\ wset' = {c \in AskedToWrite \cap Watched : Writable(c)}
      /\ rest' \subseteq Watched
  <2>1. Wait
    OBVIOUS
  <2>2. rest' \subseteq Watched
    BY <2>1 DEF Wait
  <2>3. spc' \in {"wait", "scan"}
    BY <2>1 DEF Wait
  <2>4. QED
    BY <2>2, <2>3 DEF Wait
<1>4. Types'
  <2>1. Types
    BY DEF Now, IInv
  <2>2. Watched \subseteq Clients
    BY DEF Watched
  <2>3. rset' \subseteq Clients /\ wset' \subseteq Clients /\ rest' \subseteq Clients
    BY <1>3, <2>2
  <2>4. lset' \in BOOLEAN /\ spc' \in {"wait", "scan", "exited"}
    BY <1>3
  <2>5. QED
    BY <1>1, <1>2, <2>1, <2>3, <2>4 DEF Types, TypeOK, clientVars, noteVars
<1>5. ListenerHasOne'
  BY <1>2, <1>3 DEF ListenerHasOne
<1>6. \A d \in Clients : Rounds(d)'
  BY <1>1, <1>2, RoundsStay
<1>7. ASSUME Calm' PROVE AllQuiet'
  <2>1. Calm /\ AllQuiet
    BY <1>1, <1>2, <1>7 DEF Now, IInv, Calm
  <2>2. S.waits = "epoll" /\ ~S.everyone
    BY <2>1 DEF Calm, Now, Known
  <2>3. wset' = {}
    BY <1>3, <2>1, <2>2 DEF AllQuiet, AskedToWrite
  <2>4. rest' = rset'
    BY <2>2, <2>3 DEF Wait
  <2>5. ASSUME NEW d \in Clients PROVE Quiet(d)'
    <3>1. d \in rest' => d \in rset' /\ (up[d] > 0 \/ Gone(d))
      BY <1>3, <2>4 DEF Readable
    <3>2. UNCHANGED <<wants, cstate, up, down, faults>>
      BY <1>2 DEF clientVars, noteVars
    <3>3. QED
      BY <2>1, <3>1, <3>2 DEF AllQuiet, Quiet, Gone
  <2>6. QED
    BY <1>2, <2>1, <2>3, <2>5 DEF AllQuiet, noteVars
<1>8. QED
  BY <1>4, <1>5, <1>6, <1>7 DEF IInv

LEMMA WaitInterruptedStep ==
  ASSUME Now, WaitInterrupted
  PROVE  IInv'
<1>1. run' = run /\ S' = S /\ C' = C /\ Size' = Size /\ Infinite' = Infinite
  BY RunStays DEF WaitInterrupted
<1>2. /\ UNCHANGED <<run, clientVars, conn, backlog, up, down, table, lset, rset, wset, rest,
                     noteVars, deaf>>
      /\ faults < MaxFaults /\ faults' = faults + 1 /\ spc' = "exited"
  BY DEF WaitInterrupted
<1>3. faults' \in 0 .. MaxFaults
  BY <1>2, Typed
<1>4. Types'
  BY <1>1, <1>2, <1>3 DEF Now, IInv, Types, TypeOK, clientVars, noteVars
<1>5. ListenerHasOne' /\ \A d \in Clients : Rounds(d)'
  BY <1>2, RoundsStay DEF Now, IInv, ListenerHasOne
<1>6. ASSUME Calm' PROVE AllQuiet'
  <2>1. faults < Cap
    BY <1>2, <1>6, Typed DEF Calm
  <2>2. Calm /\ AllQuiet
    BY <1>1, <1>2, <1>6, <2>1 DEF Now, IInv, Calm
  <2>3. ASSUME NEW d \in Clients PROVE Quiet(d)'
    <3>1. Quiet(d) /\ up[d] \in Nat /\ down[d] \in Nat /\ faults \in Nat
      BY <2>2, Typed DEF AllQuiet
    <3>2. UNCHANGED <<rest, rset, wants, up, down, cstate>> /\ faults' = faults + 1
      BY <1>2 DEF clientVars, noteVars
    <3>3. QED
      BY <3>1, <3>2 DEF Quiet, Gone
  <2>4. QED
    BY <1>2, <2>2, <2>3 DEF AllQuiet, noteVars
<1>7. QED
  BY <1>4, <1>5, <1>6 DEF IInv

LEMMA AcceptFailsStep ==
  ASSUME Now, AcceptFails
  PROVE  IInv'
<1>1. run' = run /\ S' = S /\ C' = C /\ Size' = Size /\ Infinite' = Infinite
  BY RunStays DEF AcceptFails
<1>2. /\ UNCHANGED <<run, clientVars, conn, backlog, up, down, table, rset, wset, noteVars, deaf>>
      /\ faults < MaxFaults /\ faults' = faults + 1 /\ lset' = FALSE
  BY DEF AcceptFails
<1>3. S.on_accept_error \in {"exit", "rewait", "go on"}
  BY DEF Now, Known
<1>4. rest' \subseteq rest /\ spc' \in {"wait", "scan", "exited"}
  BY <1>3 DEF AcceptFails, Rescan
<1>5. faults' \in 0 .. MaxFaults
  BY <1>2, Typed
<1>6. Types'
  <2>1. Types
    BY DEF Now, IInv
  <2>2. rest' \subseteq Clients
    BY <1>4, <2>1 DEF Types, TypeOK
  <2>3. QED
    BY <1>1, <1>2, <1>4, <1>5, <2>1, <2>2 DEF Types, TypeOK, clientVars, noteVars
<1>7. ListenerHasOne' /\ \A d \in Clients : Rounds(d)'
  BY <1>2, RoundsStay DEF ListenerHasOne
<1>8. ASSUME Calm' PROVE AllQuiet'
  <2>1. faults < Cap
    BY <1>2, <1>8, Typed DEF Calm
  <2>2. Calm /\ AllQuiet
    BY <1>1, <1>2, <1>8, <2>1 DEF Now, IInv, Calm
  <2>3. ASSUME NEW d \in Clients PROVE Quiet(d)'
    <3>1. Quiet(d) /\ up[d] \in Nat /\ down[d] \in Nat /\ faults \in Nat
      BY <2>2, Typed DEF AllQuiet
    <3>2. UNCHANGED <<rset, wants, up, down, cstate>> /\ faults' = faults + 1
      BY <1>2 DEF clientVars, noteVars
    <3>3. QED
      BY <1>4, <3>1, <3>2 DEF Quiet, Gone
  <2>4. QED
    BY <1>2, <2>2, <2>3 DEF AllQuiet, noteVars
<1>9. QED
  BY <1>6, <1>7, <1>8 DEF IInv

LEMMA AcceptStep ==
  ASSUME Now, Accept
  PROVE  IInv'
<1>1. run' = run /\ S' = S /\ C' = C /\ Size' = Size /\ Infinite' = Infinite
  BY RunStays DEF Accept
<1>2. /\ UNCHANGED <<run, clientVars, up, down, rset, wset, pollout, stale, faults>>
      /\ lset' = FALSE
  BY DEF Accept
<1>3. Types /\ backlog \in Seq(Clients) /\ backlog # <<>>
  BY DEF Now, IInv, Types, TypeOK, ListenerHasOne, Accept
<1>4. Head(backlog) \in Clients /\ Tail(backlog) \in Seq(Clients)
  BY <1>3
<1>5. CASE /\ deaf' = TRUE /\ spc' = Rescan(rest, FALSE)
           /\ UNCHANGED <<conn, backlog, table, rest, wants>>
  <2>1. spc' \in {"wait", "scan"}
    BY <1>5 DEF Rescan
  <2>2. Types'
    BY <1>1, <1>2, <1>3, <1>5, <2>1 DEF Types, TypeOK, clientVars
  <2>3. ListenerHasOne' /\ \A d \in Clients : Rounds(d)'
    BY <1>2, RoundsStay DEF ListenerHasOne
  <2>4. ASSUME Calm' PROVE AllQuiet'
    <3>1. Calm /\ AllQuiet
      BY <1>1, <1>2, <2>4 DEF Now, IInv, Calm
    <3>2. QED
      BY <1>2, <1>5, <3>1 DEF AllQuiet, Quiet, Gone, clientVars
  <2>5. QED
    BY <2>2, <2>3, <2>4 DEF IInv
<1>6. CASE \E c \in Clients :
             /\ conn' = [conn EXCEPT ![c] = "open"]
             /\ backlog' = Tail(backlog) /\ table' = Append(table, c)
             /\ wants' = [wants EXCEPT ![c] = RegisteredNote]
             /\ rest' = IF S.everyone THEN rest \cup {c} ELSE rest
             /\ spc' = Rescan(rest', FALSE) /\ UNCHANGED deaf
  <2>1. PICK c \in Clients :
             /\ conn' = [conn EXCEPT ![c] = "open"]
             /\ backlog' = Tail(backlog) /\ table' = Append(table, c)
             /\ wants' = [wants EXCEPT ![c] = RegisteredNote]
             /\ rest' = IF S.everyone THEN rest \cup {c} ELSE rest
             /\ spc' = Rescan(rest', FALSE) /\ UNCHANGED deaf
    BY <1>6
  <2>2. Types'
    <3>1. spc' \in {"wait", "scan"}
      BY <2>1 DEF Rescan
    <3>2. conn' \in [Clients -> {"none", "queued", "open", "closed"}]
      BY <1>3, <2>1 DEF Types, TypeOK
    <3>3. wants' \in [Clients -> BOOLEAN]
      <4>1. wants \in [Clients -> BOOLEAN] /\ stale \in BOOLEAN
        BY <1>3 DEF Types, TypeOK
      <4>2. RegisteredNote \in BOOLEAN
        BY <4>1 DEF RegisteredNote
      <4>3. QED
        BY <2>1, <4>1, <4>2
    <3>4. rest' \subseteq Clients
      BY <1>3, <2>1 DEF Types, TypeOK
    <3>5. table' \in Seq(Clients)
      <4>1. table \in Seq(Clients)
        BY <1>3 DEF Types, TypeOK
      <4>2. QED
        BY <2>1, <4>1
    <3>6. backlog' \in Seq(Clients)
      BY <1>4, <2>1
    <3>7. QED
      BY <1>1, <1>2, <1>3, <2>1, <3>1, <3>2, <3>3, <3>4, <3>5, <3>6 DEF Types, TypeOK, clientVars
  <2>3. ListenerHasOne' /\ \A d \in Clients : Rounds(d)'
    BY <1>2, RoundsStay DEF ListenerHasOne
  <2>4. ASSUME Calm' PROVE AllQuiet'
    <3>1. Calm /\ AllQuiet
      BY <1>1, <1>2, <2>4 DEF Now, IInv, Calm
    <3>2. rest' = rest
      BY <2>1, <3>1 DEF Calm, Now, Known
    <3>3. wants' = [wants EXCEPT ![c] = FALSE]
      BY <2>1, <3>1 DEF AllQuiet, RegisteredNote
    <3>4. ASSUME NEW d \in Clients PROVE ~wants'[d]
      <4>1. ~wants[d]
        BY <3>1 DEF AllQuiet, Quiet
      <4>2. wants \in [Clients -> BOOLEAN]
        BY Typed
      <4>3. QED
        BY <3>3, <4>1, <4>2
    <3>5. QED
      BY <1>2, <3>1, <3>2, <3>4 DEF AllQuiet, Quiet, Gone, clientVars
  <2>5. QED
    BY <2>2, <2>3, <2>4 DEF IInv
<1>7. QED
  BY <1>4, <1>5, <1>6 DEF Accept

-----------------------------------------------------------------------------
(* A visit                                                                   *)

\* What a visit does to the server's own variables, whichever way it ends.
Visit(c) ==
  /\ UNCHANGED <<run, clientVars, backlog, table, deaf>>
  /\ lset' \in {lset, FALSE} /\ spc' \in {"wait", "scan"}
  /\ UNCHANGED <<rset, wset>> /\ rest' \subseteq rest
  /\ conn' \in {conn, [conn EXCEPT ![c] = "closed"]}
  /\ pollout' \in {pollout, pollout \cup {c}, pollout \ {c}}
  /\ stale' \in BOOLEAN
  /\ \E b \in BOOLEAN : wants' = [wants EXCEPT ![c] = b]
  /\ down' = down \/ (down[c] < Cap /\ down' = [down EXCEPT ![c] = @ + 1])
  /\ up' = up \/ up' = [up EXCEPT ![c] = 0]
  /\ faults' = faults \/ (faults < MaxFaults /\ faults' = faults + 1)

LEMMA WriteEnds ==
  ASSUME Now, NEW c \in Clients, Sent(c) \/ Parked(c) \/ SendCloses(c)
  PROVE  /\ lset' \in {lset, FALSE} /\ spc' \in {"wait", "scan"}
         /\ UNCHANGED <<rset, wset>> /\ rest' \subseteq rest
         /\ conn' \in {conn, [conn EXCEPT ![c] = "closed"]}
         /\ pollout' \in {pollout, pollout \cup {c}, pollout \ {c}}
         /\ stale' \in BOOLEAN
         /\ \E b \in BOOLEAN : wants' = [wants EXCEPT ![c] = b]
         /\ down' = down \/ (down[c] < Cap /\ down' = [down EXCEPT ![c] = @ + 1])
<1>1. wants[c] \in BOOLEAN /\ stale \in BOOLEAN /\ down[c] \in 0 .. Cap /\ Cap \in Nat
  BY Typed DEF Now, IInv, Types, TypeOK
<1>2. CASE Sent(c)
  <2>1. lset' = lset /\ spc' \in {"wait", "scan"} /\ UNCHANGED <<rset, wset>> /\ rest' \subseteq rest
    BY <1>2 DEF Sent, PassOn, Rescan
  <2>2. conn' = conn /\ pollout' \in {pollout, pollout \ {c}} /\ stale' \in BOOLEAN
    <3>1. pollout' = pollout \ (wset \cap {c}) /\ stale' = (stale /\ c \notin wset) /\ conn' = conn
      BY <1>2 DEF Sent
    <3>2. wset \cap {c} = {} \/ wset \cap {c} = {c}
      OBVIOUS
    <3>3. QED
      BY <3>1, <3>2
  <2>3. \E b \in BOOLEAN : wants' = [wants EXCEPT ![c] = b]
    <3>1. wants' = [wants EXCEPT ![c] = wants[c]] \/ wants' = [wants EXCEPT ![c] = FALSE]
      BY <1>2 DEF Sent
    <3>2. QED
      BY <1>1, <3>1
  <2>4. down' = down \/ (down[c] < Cap /\ down' = [down EXCEPT ![c] = @ + 1])
    BY <1>2 DEF Sent
  <2>5. QED
    BY <2>1, <2>2, <2>3, <2>4
<1>3. CASE Parked(c)
  <2>1. lset' = lset /\ spc' \in {"wait", "scan"} /\ UNCHANGED <<rset, wset>> /\ rest' \subseteq rest
    BY <1>3 DEF Parked, PassOn, Rescan
  <2>2. conn' = conn /\ pollout' \in {pollout, pollout \cup {c}} /\ stale' \in BOOLEAN /\ down' = down
    BY <1>3 DEF Parked
  <2>3. \E b \in BOOLEAN : wants' = [wants EXCEPT ![c] = b]
    BY <1>3 DEF Parked
  <2>4. QED
    BY <2>1, <2>2, <2>3
<1>4. CASE SendCloses(c)
  <2>1. lset' = FALSE /\ spc' = "wait" /\ UNCHANGED <<rset, wset>> /\ rest' = {}
        /\ conn' = [conn EXCEPT ![c] = "closed"]
    BY <1>4 DEF SendCloses, CloseAndBreak
  <2>2. pollout' = pollout \ {c} /\ stale' \in BOOLEAN /\ down' = down
    BY <1>4 DEF SendCloses
  <2>3. \E b \in BOOLEAN : wants' = [wants EXCEPT ![c] = b]
    BY <1>4 DEF SendCloses
  <2>4. QED
    BY <2>1, <2>2, <2>3
<1>5. QED
  BY <1>2, <1>3, <1>4

\* The three ways a visit goes on after its recv.
ClosesOnRead(c, got) ==
  /\ got = 0 \/ (got = -1 /\ S.on_recv_error = "close")
  /\ CloseAndBreak(c) \/ (got = 0 /\ CloseAndGoOn(c))
  /\ pollout' = pollout \ {c}
  /\ wants' = [wants EXCEPT ![c] = FALSE]
  /\ UNCHANGED <<down, stale>>

Writing(c, got) ==
  /\ ~(got = 0 \/ (got = -1 /\ S.on_recv_error = "close"))
  /\ MayWrite(c) /\ Writes /\ ~(S.waits = "wsa" /\ got = NotRead)
  /\ Sent(c) \/ Parked(c) \/ SendCloses(c)

Skipping(c, got) ==
  /\ ~(got = 0 \/ (got = -1 /\ S.on_recv_error = "close"))
  /\ ~(MayWrite(c) /\ Writes /\ ~(S.waits = "wsa" /\ got = NotRead))
  /\ PassOn(c) /\ UNCHANGED <<conn, down, noteVars>>

Reading(c, got) ==
  /\ faults' = IF got = -1 /\ ~Gone(c) THEN faults + 1 ELSE faults
  /\ up' = IF got > 0 \/ (got = -1 /\ Gone(c)) THEN [up EXCEPT ![c] = 0] ELSE up

LEMMA ServeParts ==
  ASSUME NEW c, Serve(c)
  PROVE  /\ c \in rest /\ UNCHANGED <<run, clientVars, backlog, table, deaf>>
         /\ \E got \in Received(c) :
              /\ Reading(c, got)
              /\ ClosesOnRead(c, got) \/ Writing(c, got) \/ Skipping(c, got)
BY DEF Serve, Visits, Reading, ClosesOnRead, Writing, Skipping

\* What recv returned; an error of a live connection is a failure to come.
LEMMA Gets ==
  ASSUME NEW c, NEW got \in Received(c), up[c] \in Nat
  PROVE  /\ got \in {NotRead, up[c], 0, -1} /\ NotRead = -2
         /\ got = -1 /\ ~Gone(c) => faults < MaxFaults
         /\ got = 0 => Gone(c)
         /\ got = NotRead => ~Reads \/ c \notin rset \/ S.waits = "wsa"
         /\ got > 0 => got = up[c]
BY DEF Received, NotRead

LEMMA ServeIsAVisit ==
  ASSUME Now, NEW c \in Clients, Serve(c)
  PROVE  Visit(c)
<1>1. PICK got \in Received(c) :
        /\ Reading(c, got)
        /\ ClosesOnRead(c, got) \/ Writing(c, got) \/ Skipping(c, got)
  BY ServeParts
<1>2. up[c] \in Nat /\ wants \in [Clients -> BOOLEAN] /\ stale \in BOOLEAN
  BY Typed DEF Now, IInv, Types, TypeOK
<1>3. UNCHANGED <<run, clientVars, backlog, table, deaf>>
  BY ServeParts
<1>4. up' = up \/ up' = [up EXCEPT ![c] = 0]
  BY <1>1 DEF Reading
<1>5. faults' = faults \/ (faults < MaxFaults /\ faults' = faults + 1)
  BY <1>1, <1>2, Gets DEF Reading
<1>6. CASE Writing(c, got)
  BY <1>3, <1>4, <1>5, <1>6, WriteEnds DEF Writing, Visit
<1>7. CASE Skipping(c, got)
  <2>1. lset' = lset /\ spc' \in {"wait", "scan"} /\ UNCHANGED <<rset, wset>> /\ rest' \subseteq rest
    BY <1>7 DEF Skipping, PassOn, Rescan
  <2>2. conn' = conn /\ down' = down /\ wants' = wants /\ pollout' = pollout /\ stale' = stale
    BY <1>7 DEF Skipping, noteVars
  <2>3. wants' = [wants EXCEPT ![c] = wants[c]] /\ wants[c] \in BOOLEAN
    BY <1>2, <2>2
  <2>4. QED
    BY <1>2, <1>3, <1>4, <1>5, <2>1, <2>2, <2>3 DEF Visit
<1>8. CASE ClosesOnRead(c, got)
  <2>1. lset' \in {lset, FALSE} /\ spc' \in {"wait", "scan"} /\ UNCHANGED <<rset, wset>>
        /\ rest' \subseteq rest /\ conn' = [conn EXCEPT ![c] = "closed"]
    <3>1. CASE CloseAndBreak(c)
      BY <3>1 DEF CloseAndBreak
    <3>2. CASE CloseAndGoOn(c)
      BY <3>2 DEF CloseAndGoOn, PassOn, Rescan
    <3>3. QED
      BY <1>8, <3>1, <3>2 DEF ClosesOnRead
  <2>2. down' = down /\ wants' = [wants EXCEPT ![c] = FALSE] /\ pollout' = pollout \ {c} /\ stale' = stale
    BY <1>8 DEF ClosesOnRead
  <2>3. QED
    BY <1>2, <1>3, <1>4, <1>5, <2>1, <2>2 DEF Visit
<1>9. QED
  BY <1>1, <1>6, <1>7, <1>8

LEMMA VisitTypes ==
  ASSUME Now, NEW c \in Clients, Visit(c)
  PROVE  Types' /\ ListenerHasOne' /\ \A d \in Clients : Rounds(d)'
<1>1. run' = run /\ S' = S /\ C' = C /\ Size' = Size /\ Infinite' = Infinite
  BY RunStays DEF Visit
<1>2. Types
  BY DEF Now, IInv
<1>3. up' \in [Clients -> 0 .. Cap] /\ down' \in [Clients -> 0 .. Cap]
  <2>1. up \in [Clients -> 0 .. Cap] /\ down \in [Clients -> 0 .. Cap] /\ Cap \in Nat
        /\ down[c] \in Nat
    BY Typed
  <2>2. up' = up \/ up' = [up EXCEPT ![c] = 0]
    BY DEF Visit
  <2>3. down' = down \/ (down[c] < Cap /\ down' = [down EXCEPT ![c] = down[c] + 1])
    BY DEF Visit
  <2>4. QED
    BY <2>1, <2>2, <2>3
<1>4. faults' \in 0 .. MaxFaults
  <2>1. faults \in 0 .. MaxFaults /\ MaxFaults \in Nat
    BY <1>2, Typed DEF Types, TypeOK
  <2>2. faults' = faults \/ (faults < MaxFaults /\ faults' = faults + 1)
    BY DEF Visit
  <2>3. QED
    BY <2>1, <2>2
<1>5. wants' \in [Clients -> BOOLEAN]
  BY Typed DEF Visit
<1>6. conn' \in [Clients -> {"none", "queued", "open", "closed"}]
  BY <1>2 DEF Types, TypeOK, Visit
<1>7. /\ lset' \in BOOLEAN /\ spc' \in {"wait", "scan", "exited"} /\ stale' \in BOOLEAN
      /\ rset' = rset /\ wset' = wset /\ rest' \subseteq Clients /\ pollout' \subseteq Clients
  BY <1>2 DEF Types, TypeOK, Visit
<1>8. Types'
  BY <1>1, <1>2, <1>3, <1>4, <1>5, <1>6, <1>7 DEF Types, TypeOK, Visit, clientVars
<1>9. ListenerHasOne'
  BY DEF Now, IInv, ListenerHasOne, Visit
<1>10. \A d \in Clients : Rounds(d)'
  BY RoundsStay DEF Visit
<1>11. QED
  BY <1>8, <1>9, <1>10

\* A visit of a calm epoll server: what was read makes room for the answer, and
\* a recv that failed is a failure more.
LEMMA VisitIsQuiet ==
  ASSUME Now, NEW c \in Clients, Serve(c), Calm'
  PROVE  AllQuiet'
<1>1. Visit(c)
  BY ServeIsAVisit
<1>2. run' = run /\ S' = S /\ Size' = Size /\ UNCHANGED clientVars
  BY <1>1, RunStays DEF Visit
<1>3. cstate' = cstate
  BY <1>2 DEF clientVars
<1>4. faults \in Nat /\ (faults' = faults \/ faults' = faults + 1) /\ faults' < Cap /\ Cap \in Nat
  BY <1>1, Typed DEF Visit, Calm
<1>5. Calm /\ AllQuiet
  BY <1>2, <1>4 DEF Now, IInv, Calm
<1>6. S.waits = "epoll" /\ S.parks /\ S.on_recv_error = "send" /\ Reads /\ Writes
  BY <1>5 DEF Calm, Now, Known, Reads, Writes
<1>7. up \in [Clients -> 0 .. Cap] /\ down \in [Clients -> 0 .. Cap] /\ wants \in [Clients -> BOOLEAN]
  BY Typed
<1>8. up[c] \in Nat /\ down[c] \in Nat /\ down[c] <= Cap
  BY <1>4, <1>7
<1>9. c \in rset /\ (up[c] > 0 \/ Gone(c)) /\ ~wants[c]
      /\ (~Gone(c) => up[c] + down[c] <= faults + (IF cstate[c] = "waiting" THEN 1 ELSE 0))
  <2>1. c \in rest
    BY ServeParts
  <2>2. QED
    BY <1>5, <2>1 DEF AllQuiet, Quiet
<1>10. PICK got \in Received(c) :
         /\ Reading(c, got)
         /\ ClosesOnRead(c, got) \/ Writing(c, got) \/ Skipping(c, got)
  BY ServeParts
<1>11. /\ got \in {up[c], 0, -1} /\ (got = 0 => Gone(c)) /\ (got > 0 => got = up[c])
  BY <1>6, <1>8, <1>9, Gets
<1>12. ~Skipping(c, got)
  BY <1>6, <1>9, <1>11, <1>8 DEF Skipping, MayWrite
<1>13. ASSUME ~Gone(c)
       PROVE  /\ got # 0
              /\ up'[c] + down[c] + 1 <= faults' + (IF cstate[c] = "waiting" THEN 1 ELSE 0)
  <2>1. CASE got > 0
    <3>1. up' = [up EXCEPT ![c] = 0] /\ faults' = faults
      BY <1>10, <2>1 DEF Reading
    <3>2. up'[c] = 0
      BY <1>7, <3>1
    <3>3. up[c] >= 1
      BY <1>8, <1>9, <1>13
    <3>4. QED
      BY <1>4, <1>8, <1>9, <1>13, <2>1, <3>1, <3>2, <3>3
  <2>2. CASE got = -1
    <3>1. up' = up /\ faults' = faults + 1
      BY <1>10, <1>13, <2>2 DEF Reading
    <3>2. QED
      BY <1>4, <1>8, <1>9, <1>13, <2>2, <3>1
  <2>3. QED
    BY <1>8, <1>9, <1>11, <1>13, <2>1, <2>2
<1>14. ~Parked(c)
  <2>1. ASSUME Parked(c) PROVE FALSE
    <3>1. ~Gone(c) /\ down[c] = Cap
      BY <2>1 DEF Parked
    <3>2. up'[c] \in Nat
      BY <1>1, <1>7, <1>8 DEF Visit
    <3>3. QED
      BY <1>4, <1>8, <1>13, <3>1, <3>2
  <2>2. QED
    BY <2>1
<1>15. CASE ClosesOnRead(c, got) \/ SendCloses(c)
  <2>1. Gone(c)
    BY <1>6, <1>11, <1>15 DEF ClosesOnRead, SendCloses
  <2>2. CloseAndBreak(c) /\ wants' = [wants EXCEPT ![c] = FALSE] /\ pollout' = pollout \ {c}
        /\ (stale' = stale \/ stale' = (stale /\ c \notin wset))
    BY <1>6, <1>15 DEF ClosesOnRead, SendCloses, CloseAndGoOn
  <2>3. rest' = {} /\ wset' = wset /\ ~stale' /\ pollout' = {}
    <3>1. ~stale /\ pollout = {}
      BY <1>5 DEF AllQuiet
    <3>2. ~stale'
      BY <2>2, <3>1, Zenon
    <3>3. rest' = {} /\ wset' = wset /\ pollout' = {}
      BY <2>2, <3>1 DEF CloseAndBreak
    <3>4. QED
      BY <3>2, <3>3
  <2>4. ASSUME NEW d \in Clients PROVE Quiet(d)'
    <3>1. CASE d = c
      <4>1. ~wants'[c]
        BY <1>7, <2>2
      <4>2. QED
        BY <1>3, <2>1, <2>3, <3>1, <4>1 DEF Quiet, Gone
    <3>2. CASE d # c
      <4>1. ~wants'[d] /\ up'[d] = up[d] /\ down'[d] = down[d]
        BY <1>1, <1>5, <1>7, <3>2 DEF Visit, AllQuiet, Quiet
      <4>2. up[d] \in Nat /\ down[d] \in Nat
        BY <1>7
      <4>3. ~Gone(d) => up[d] + down[d] <= faults + (IF cstate[d] = "waiting" THEN 1 ELSE 0)
        BY <1>5 DEF AllQuiet, Quiet
      <4>4. QED
        BY <1>3, <1>4, <2>3, <4>1, <4>2, <4>3 DEF Quiet, Gone
    <3>3. QED
      BY <3>1, <3>2
  <2>5. QED
    BY <1>5, <2>3, <2>4 DEF AllQuiet
<1>16. CASE Sent(c)
  <2>1. rest' = rest \ {c} /\ rset' = rset /\ wset' = wset /\ ~stale' /\ pollout' = {}
    BY <1>5, <1>16 DEF AllQuiet, Sent, PassOn
  <2>2. \A d \in Clients : ~wants'[d]
    <3>1. wants' = [wants EXCEPT ![c] = wants[c]] \/ wants' = [wants EXCEPT ![c] = FALSE]
      BY <1>16 DEF Sent
    <3>2. \A d \in Clients : ~wants[d]
      BY <1>5 DEF AllQuiet, Quiet
    <3>3. QED
      BY <1>7, <3>1, <3>2
  <2>3. ASSUME NEW d \in Clients PROVE Quiet(d)'
    <3>1. CASE d = c
      <4>1. ~Gone(c) => down'[c] = down[c] + 1
        BY <1>7, <1>16 DEF Sent
      <4>2. up'[c] \in Nat
        BY <1>1, <1>7, <1>8 DEF Visit
      <4>3. QED
        BY <1>3, <1>4, <1>8, <1>13, <2>1, <2>2, <3>1, <4>1, <4>2 DEF Quiet, Gone
    <3>2. CASE d # c
      <4>1. up'[d] = up[d] /\ down'[d] = down[d]
        BY <1>1, <1>7, <3>2 DEF Visit
      <4>2. up[d] \in Nat /\ down[d] \in Nat
        BY <1>7
      <4>3. Quiet(d)
        BY <1>5 DEF AllQuiet
      <4>4. QED
        BY <1>3, <1>4, <2>1, <2>2, <4>1, <4>2, <4>3 DEF Quiet, Gone
    <3>3. QED
      BY <3>1, <3>2
  <2>4. QED
    BY <1>5, <2>1, <2>3 DEF AllQuiet
<1>17. QED
  BY <1>10, <1>12, <1>14, <1>15, <1>16 DEF Writing

LEMMA ServeStep ==
  ASSUME Now, NEW c \in Clients, Serve(c)
  PROVE  IInv'
BY ServeIsAVisit, VisitTypes, VisitIsQuiet DEF IInv

-----------------------------------------------------------------------------
(* The theorems                                                              *)

LEMMA InitHolds == ASSUME Init PROVE IInv
<1>1. run \in Scenarios
  BY DEF Init
<1>2. Known
  BY <1>1, RunKnown
<1>3. Size \in Nat \ {0} /\ run.count \in Int /\ Cap \in Nat \ {0} /\ MaxFaults \in Nat
  BY <1>2 DEF Known
<1>4. cstate = [c \in Clients |-> IF c \in run.clients THEN "start" ELSE "absent"]
      /\ todo = [c \in Clients |-> Size]
      /\ left = [c \in Clients |-> IF Infinite THEN 0 ELSE run.count]
  BY DEF Init
<1>5. ~Infinite => run.count >= 1
  BY <1>3 DEF Infinite
<1>6. left \in [Clients -> Nat]
  BY <1>3, <1>4, <1>5
<1>7. Types
  <2>1. todo \in [Clients -> 0 .. Size] /\ faults \in 0 .. MaxFaults
    BY <1>3, <1>4 DEF Init
  <2>2. up \in [Clients -> 0 .. Cap] /\ down \in [Clients -> 0 .. Cap]
    BY <1>3 DEF Init
  <2>3. cstate \in [Clients -> {"absent", "start", "sending", "waiting", "polling", "done"}]
    BY <1>4
  <2>4. backlog \in Seq(Clients) /\ table \in Seq(Clients)
    BY DEF Init
  <2>5. stale \in BOOLEAN
    <3>1. run \in Lines /\ stale = run.garbage
      BY <1>1, ServersAssumption DEF Init
    <3>2. QED
      BY <3>1 DEF Lines
  <2>6. QED
    BY <1>1, <1>6, <2>1, <2>2, <2>3, <2>4, <2>5 DEF Init, Types, TypeOK
<1>8. ListenerHasOne
  BY DEF Init, ListenerHasOne
<1>9. ASSUME NEW c \in Clients PROVE Rounds(c)
  <2>1. cstate[c] \in {"start", "absent"} /\ todo[c] = Size /\ (~Infinite => left[c] = run.count)
    BY <1>4
  <2>2. QED
    BY <1>3, <1>5, <2>1 DEF Rounds
<1>10. ASSUME Calm PROVE AllQuiet
  <2>1. ~stale /\ pollout = {} /\ wset = {} /\ rest = {}
    BY <1>10 DEF Init, Calm
  <2>2. ASSUME NEW c \in Clients PROVE Quiet(c)
    <3>1. ~wants[c] /\ up[c] = 0 /\ down[c] = 0 /\ faults = 0
      BY DEF Init
    <3>2. QED
      BY <2>1, <3>1 DEF Quiet
  <2>3. QED
    BY <2>1, <2>2 DEF AllQuiet
<1>11. QED
  BY <1>7, <1>8, <1>9, <1>10 DEF IInv

LEMMA StepHolds == ASSUME IInv, [Next]_vars PROVE IInv'
<1>1. Now
  BY RunKnown DEF Now, IInv, Types
<1>2. CASE \E c \in Clients : ClientStep(c) \/ ClientFails(c)
  <2>1. PICK c \in Clients : ClientStep(c) \/ ClientFails(c)
    BY <1>2
  <2>2. QED
    BY <1>1, <2>1, ConnectStep, ClientSendStep, ClientRecvStep, ClientPollsStep, ClientFailsStep
       DEF ClientStep
<1>3. CASE ServerStep
  BY <1>1, <1>3, WaitStep, AcceptStep, ServeStep DEF ServerStep
<1>4. CASE WaitInterrupted
  BY <1>1, <1>4, WaitInterruptedStep
<1>5. CASE AcceptFails
  BY <1>1, <1>5, AcceptFailsStep
<1>6. CASE UNCHANGED vars
  <2>1. run' = run /\ S' = S /\ C' = C /\ Size' = Size /\ Infinite' = Infinite
    BY <1>6, RunStays DEF vars
  <2>2. Types'
    BY <1>6, <2>1 DEF IInv, Types, TypeOK, vars, clientVars, scanVars, noteVars
  <2>3. ListenerHasOne' /\ \A c \in Clients : Rounds(c)'
    BY <1>1, <1>6, <2>1, RoundsStay DEF IInv, ListenerHasOne, vars, scanVars
  <2>4. Calm' => AllQuiet'
    BY <1>6, <2>1 DEF IInv, Calm, AllQuiet, Quiet, Gone, vars, clientVars, scanVars, noteVars
  <2>5. QED
    BY <2>2, <2>3, <2>4 DEF IInv
<1>7. QED
  BY <1>2, <1>3, <1>4, <1>5, <1>6 DEF Next

(* The variables keep their types; accept is called when a connection is     *)
(* there; a client in its loop has a ping to send and a round to make; and   *)
(* on an epoll server with a clean stack, whole pings and fewer failures     *)
(* than a buffer holds pongs, no connection has a note to write and none is  *)
(* watched for it, whatever the lesson, the command line and the clients.    *)
THEOREM Invariance == Spec => []IInv
<1>1. Init => IInv
  BY InitHolds
<1>2. IInv /\ [Next]_vars => IInv'
  BY StepHolds
<1>3. QED
  BY <1>1, <1>2, PTL DEF Spec

LEMMA QuietIsUnmuted == ASSUME IInv PROVE MutedByAFullBuffer
<1>1. TypeOK
  BY DEF IInv, Types
<1>2. Size \in Nat \ {0} /\ faults \in Nat /\ Cap \in Nat
  <2>1. Now
    BY RunKnown DEF Now, IInv, Types
  <2>2. QED
    BY <2>1, Typed
<1>3. ASSUME NEW c \in Clients, Muted(c), ~(run.garbage \/ Size > 1 \/ faults >= Cap)
      PROVE  FALSE
  <2>1. Calm
    BY <1>2, <1>3 DEF Muted, Calm
  <2>2. ~wants[c]
    BY <2>1 DEF IInv, AllQuiet, Quiet
  <2>3. QED
    BY <1>3, <2>2 DEF Muted
<1>4. QED
  BY <1>1, <1>3 DEF MutedByAFullBuffer

(* A connection of the epoll server with a note to write that no EPOLLOUT    *)
(* will withdraw takes a dirty stack, pings larger than the buffer, or as    *)
(* many failed recvs as the buffer holds pongs.                              *)
THEOREM MutedNeedsACause == Spec => []MutedByAFullBuffer
BY Invariance, QuietIsUnmuted, PTL

-----------------------------------------------------------------------------
(* The ping/pong programs: PeerSeesTheClose.  A descriptor of a connection   *)
(* is open in the child that serves it and in the parent until the parent's  *)
(* close, or it has leaked because its fork failed, and then nobody serves   *)
(* it.                                                                       *)

PingTypes == PingTypeOK /\ pair \in PingScenarios

\* A client in its loop has a round to make.
PingRounds == \A c \in PingClients : cpc[c] \in {"start", "send", "recv"} /\ ~Endless => loops[c] >= 1

\* No process of the server has had anything to do with c yet.
Untouched(c) == wpc[c] = "none" /\ c \notin orphans /\ \A p \in DOMAIN holds : c \notin holds[p]

\* A connection is accepted once, after it was made.
NewOnes == \A c \in PingClients :
  cpc[c] \in {"absent", "start"} => Untouched(c) /\ c \notin Range(queued)
Queue ==
  /\ \A c \in Range(queued) : Untouched(c)
  /\ \A i, j \in 1 .. Len(queued) : queued[i] = queued[j] => i = j

\* A connection whose fork failed is served by nobody.
Unserved == orphans \subseteq PingClients /\ \A c \in orphans : wpc[c] = "none"

\* A child has its own connection open, and what had leaked before its fork.
Children == \A c \in PingClients :
  /\ holds[c] \subseteq orphans \cup {c}
  /\ wpc[c] \in {"none", "exited"} => holds[c] = {}

\* The parent has the connection open that it is dealing with, and what leaked.
TheParent ==
  holds[Parent] \subseteq orphans \cup (IF ppc \in {"fork", "close", "serve"} THEN {cur} ELSE {})

\* What the server process is doing.
AtWork ==
  /\ ppc = "fork" => cur \in holds[Parent] /\ wpc[cur] = "none" /\ cur \notin orphans
  /\ ppc \in {"fork", "close"} => Ponger.accepts = "fork"
  /\ ppc = "serve" => Ponger.accepts = "one" /\ Serving(cur)
  /\ ppc \in {"fork", "close", "serve", "send"} => cur \in PingClients
  /\ ppc = "walk" => nwc_hdr # <<>>
  /\ Ponger.accepts = "one" =>
       /\ \A c \in PingClients : Serving(c) => ppc = "serve" /\ cur = c
       /\ \A c \in PingClients : holds[c] = {}
       /\ ppc = "exited" => holds[Parent] = {}
  /\ Stream => ppc \in {"accept", "fork", "close", "serve", "exited"}
  /\ ~Stream => queued = <<>> /\ \A c \in PingClients : wpc[c] = "none"

Served == NewOnes /\ Queue /\ Unserved /\ Children /\ TheParent /\ AtWork

PingIInv == PingTypes /\ PingRounds /\ Served

-----------------------------------------------------------------------------
(* The lessons *)

\* The different programs of the lessons.
TheClients == {Client_0202, Client_0206, Client_0207, UnixStreamClient_0313,
               UdpClient_0312,
               UnixDgramClient_0313, UDPClient, McastClient}
TheServers == {Server_0202, Server_0206, Server_0207, Server_0311,
               UnixStreamServer_0313,
               UdpServer_0312, UnixDgramServer_0313, SigioUdpServer, UDPServer}
Paired(p) == p.client \in TheClients /\ p.server \in TheServers

LEMMA EveryLesson == \A p \in PingPrograms : Paired(p)
<1>1. \A p \in Lesson_0202 : Paired(p)
    BY DEF Lesson_0202, Pair, Paired, TheClients, TheServers
<1>2. \A p \in Main_0206 : Paired(p)
    BY DEF Main_0206, Pair, Paired, TheClients, TheServers
<1>3. \A p \in Main_0207 : Paired(p)
    BY DEF Main_0207, Pair, Paired, TheClients, TheServers
<1>4. \A p \in Main_0311 : Paired(p)
    BY DEF Main_0311, Pair, Paired, TheClients, TheServers, Client_0311
<1>5. \A p \in Main_0312 : Paired(p)
    BY DEF Main_0312, Pair, Paired, TheClients, TheServers, Client_0312,
       Server_0312
<1>6. \A p \in Main_0313 : Paired(p)
    BY DEF Main_0313, Pair, Paired, TheClients, TheServers, Client_0313,
       Server_0313,
     UdpClient_0313, UdpServer_0313
<1>7. \A p \in Main_0318 : Paired(p)
    BY DEF Main_0318, Pair, Paired, TheClients, TheServers, UdpClient_0318,
       UdpServer_0318,
     UnixStreamClient_0318, UnixStreamServer_0318, UnixDgramClient_0318, UnixDgramServer_0318
<1>8. \A p \in Main_0319 : Paired(p)
    BY DEF Main_0319, Pair, Paired, TheClients, TheServers, UdpClient_0319,
       UdpServer_0319,
     UnixDgramClient_0319, UnixDgramServer_0319
<1>9. \A p \in Main_0423 : Paired(p)
    BY DEF Main_0423, Pair, Paired, TheClients, TheServers, UdpClient_0423,
       UdpServer_0423,
     UnixDgramClient_0423, UnixDgramServer_0423
<1>10. \A p \in Main_0424 : Paired(p)
    BY DEF Main_0424, Pair, Paired, TheClients, TheServers, UdpClient_0424,
       UdpServer_0424,
     UnixDgramClient_0424, UnixDgramServer_0424
<1>11. \A p \in Mcast_0426 : Paired(p)
    BY DEF Mcast_0426, Pair, Paired, TheClients, TheServers, McastServer
<1>12. \A p \in JavaUdp : Paired(p)
    BY DEF JavaUdp, Pair, Paired, TheClients, TheServers, UDPClientIO,
       UDPServerIO
<1>13. QED
  BY <1>1, <1>2, <1>3, <1>4, <1>5, <1>6, <1>7, <1>8, <1>9, <1>10, <1>11, <1>12 DEF PingPrograms

\* What the steps need to know of a lesson and its command line.
PingKnown ==
  /\ Pinger.reads \in Nat /\ Ponger.reads \in Nat
  /\ Ponger.accepts \in {"one", "fork", "none", "signal"}
  /\ MessageSize \in Nat \ {0} /\ LoopCount \in Nat /\ (~Endless => LoopCount >= 1)
  /\ PingCap \in Nat \ {0} /\ Datagrams \in Nat \ {0} /\ Parent \notin PingClients

LEMMA PingRunKnown == ASSUME pair \in PingScenarios PROVE PingKnown
<1>1. pair \in PingLines /\ PingCap \in Nat \ {0} /\ Datagrams \in Nat \ {0} /\ Parent \notin PingClients
  BY PingAssumption
<1>2. pair.count \in Int /\ pair.slots \in Int /\ pair.size \in Int /\ pair.program \in PingPrograms
  BY <1>1 DEF PingLines
<1>3. Pinger \in TheClients /\ Ponger \in TheServers
  BY <1>2, EveryLesson DEF Paired, Pinger, Ponger
<1>4. Pinger.reads \in Nat
  BY <1>3 DEF TheClients, Client_0202, Client_0206, Client_0207,
     UnixStreamClient_0313,
     UdpClient_0312, UnixDgramClient_0313, UDPClient, McastClient
<1>5. UdpServer_0312.reads = 1 /\ UdpServer_0312.accepts = "none"
      /\ UnixDgramServer_0313.reads = 1 /\ UnixDgramServer_0313.accepts = "none"
      /\ UDPServer.reads = 1 /\ UDPServer.accepts = "none"
      /\ SigioUdpServer.reads = 1 /\ SigioUdpServer.accepts = "signal"
  BY DEF UdpServer_0312, UdpServer_0424, UnixDgramServer_0313, UDPServer,
     SigioUdpServer
<1>6. Server_0202.reads \in Nat /\ Server_0202.accepts = "one"
      /\ Server_0206.reads \in Nat /\ Server_0206.accepts = "one"
      /\ Server_0207.reads \in Nat /\ Server_0207.accepts = "one"
      /\ Server_0311.reads \in Nat /\ Server_0311.accepts = "fork"
      /\ UnixStreamServer_0313.reads \in Nat /\ UnixStreamServer_0313.accepts = "fork"
  BY DEF Server_0202, Server_0206, Server_0207, Server_0311,
     UnixStreamServer_0313, OneShot,
     RECV_BUFF_LEN
<1>7. Ponger.reads \in Nat /\ Ponger.accepts \in {"one", "fork", "none", "signal"}
  BY <1>3, <1>5, <1>6 DEF TheServers
<1>8. MessageSize \in Nat \ {0}
  <2>1. pair.size <= 0 \/ pair.size \in Nat \ {0}
    BY <1>2
  <2>2. QED
    BY <2>1 DEF MessageSize
<1>9. Count \in Int
  <2>1. CASE "once" \in Pinger.options
    BY <2>1 DEF Count
  <2>2. CASE "once" \notin Pinger.options
    BY <1>2, <2>2 DEF Count
  <2>3. QED
    BY <2>1, <2>2
<1>10. LoopCount \in Nat /\ (~Endless => LoopCount >= 1)
  <2>1. CASE Endless
    BY <2>1 DEF LoopCount
  <2>2. CASE ~Endless
    <3>1. Count \in Nat \ {0}
      BY <1>9, <2>2 DEF Endless
    <3>2. PICK k \in Nat \ {0} : LoopCount = Count * k
      <4>1. CASE "slots" \in Pinger.options /\ pair.slots > 0
        <5>1. LoopCount = Count * pair.slots /\ pair.slots \in Nat \ {0}
          BY <1>2, <2>2, <4>1 DEF LoopCount
        <5>2. QED
          BY <5>1
      <4>2. CASE ~("slots" \in Pinger.options /\ pair.slots > 0)
        <5>1. LoopCount = Count * 1
          BY <2>2, <4>2 DEF LoopCount
        <5>2. QED
          BY <5>1
      <4>3. QED
        BY <4>1, <4>2
    <3>3. \A m, n \in Nat \ {0} : m * n \in Nat \ {0}
      OBVIOUS
    <3>4. QED
      BY <3>1, <3>2, <3>3
  <2>3. QED
    BY <2>1, <2>2
<1>11. QED
  BY <1>1, <1>4, <1>7, <1>8, <1>10 DEF PingKnown

LEMMA PingRunStays ==
  ASSUME pair' = pair
  PROVE  /\ Ponger' = Ponger /\ Pinger' = Pinger /\ MessageSize' = MessageSize /\ LoopCount' = LoopCount
         /\ Endless' = Endless /\ Stream' = Stream
BY DEF Ponger, Pinger, MessageSize, LoopCount, Endless, Count, Stream

LEMMA PingMinOf == ASSUME NEW a \in Int, NEW b \in Int PROVE Min({a, b}) = IF a <= b THEN a ELSE b
<1>1. \E x \in {a, b} : \A y \in {a, b} : x =< y
  <2>1. CASE a <= b
    BY <2>1
  <2>2. CASE ~(a <= b)
    BY <2>2
  <2>3. QED
    BY <2>1, <2>2
<1>2. Min({a, b}) \in {a, b} /\ \A y \in {a, b} : Min({a, b}) =< y
  BY <1>1 DEF Min
<1>3. QED
  BY <1>2

\* What a step needs to know.
PingNow == PingIInv /\ PingKnown

-----------------------------------------------------------------------------
(* The clients *)

PingPlaces == {"absent", "start", "send", "recv", "done", "failed"}
Phases == {"none", "recv", "send", "exited"}

LEMMA PingTyped ==
  ASSUME PingNow
  PROVE  /\ cpc \in [PingClients -> PingPlaces] /\ ctodo \in [PingClients -> 1 .. MessageSize]
         /\ loops \in [PingClients -> 0 .. LoopCount] /\ pings \in [PingClients -> 0 .. PingCap]
         /\ pongs \in [PingClients -> 0 .. IF Stream THEN PingCap ELSE Datagrams]
         /\ inbox \in Seq(PingClients) /\ Len(inbox) <= Datagrams /\ queued \in Seq(PingClients)
         /\ sigio \in [async : BOOLEAN, pending : BOOLEAN, early : SUBSET PingClients, open : BOOLEAN]
         /\ cur \in PingClients \cup {NoClient} /\ wpc \in [PingClients -> Phases]
         /\ wtodo \in [PingClients -> 0 .. 4] /\ holds \in [PingClients \cup {Parent} -> SUBSET PingClients]
         /\ nwc_hdr \in Seq(PingClients)
BY DEF PingNow, PingIInv, PingTypes, PingTypeOK, PingPlaces, Phases, PongLen

\* The end of a client's round, or an error, leaves the rounds in order.
LEMMA PingRoundEnds ==
  ASSUME PingNow, NEW c \in PingClients, pair' = pair,
         \/ cpc[c] \in {"send", "recv"} /\ FinishRound(c)
         \/ cpc[c] = "send" /\ cpc' = [cpc EXCEPT ![c] = "recv"] /\ UNCHANGED <<ctodo, loops>>
         \/ cpc' = [cpc EXCEPT ![c] = "failed"] /\ UNCHANGED <<ctodo, loops>>
  PROVE  /\ cpc' \in [PingClients -> PingPlaces] /\ ctodo' \in [PingClients -> 1 .. MessageSize]
         /\ loops' \in [PingClients -> 0 .. LoopCount] /\ PingRounds'
         /\ cpc'[c] \notin {"absent", "start"}
         /\ \A d \in PingClients : d # c => cpc'[d] = cpc[d]
<1>1. /\ cpc \in [PingClients -> PingPlaces] /\ ctodo \in [PingClients -> 1 .. MessageSize]
      /\ loops \in [PingClients -> 0 .. LoopCount]
  BY PingTyped
<1>2. Endless' = Endless
  BY PingRunStays
<1>3. PingRounds /\ MessageSize \in Nat \ {0} /\ LoopCount \in Nat
  BY DEF PingNow, PingKnown, PingIInv
<1>4. CASE UNCHANGED <<ctodo, loops>>
  <2>1. \/ cpc' = [cpc EXCEPT ![c] = "failed"]
        \/ cpc[c] \in {"send", "recv"} /\ cpc' = [cpc EXCEPT ![c] = "recv"]
        \/ cpc[c] \in {"send", "recv"} /\ cpc' = [cpc EXCEPT ![c] = "done"]
        \/ cpc[c] \in {"send", "recv"} /\ cpc' = [cpc EXCEPT ![c] = "send"]
    BY DEF FinishRound
  <2>2. cpc' \in [PingClients -> PingPlaces]
    BY <1>1, <2>1 DEF PingPlaces
  <2>3. PingRounds'
    BY <1>1, <1>2, <1>3, <1>4, <2>1 DEF PingRounds
  <2>4. QED
    BY <1>1, <1>4, <2>1, <2>2, <2>3
<1>5. CASE cpc[c] \in {"send", "recv"} /\ FinishRound(c)
  <2>1. /\ loops' = [loops EXCEPT ![c] = IF Endless THEN loops[c] ELSE loops[c] - 1]
        /\ ctodo' = [ctodo EXCEPT ![c] = MessageSize]
        /\ cpc' = [cpc EXCEPT ![c] = IF ~Endless /\ loops[c] = 1 THEN "done" ELSE "send"]
    BY <1>5 DEF FinishRound
  <2>2. loops[c] \in 0 .. LoopCount /\ (~Endless => loops[c] >= 1)
    BY <1>1, <1>3, <1>5 DEF PingRounds
  <2>3. (IF Endless THEN loops[c] ELSE loops[c] - 1) \in 0 .. LoopCount
    BY <1>3, <2>2
  <2>4. loops' \in [PingClients -> 0 .. LoopCount]
    BY <1>1, <2>1, <2>3
  <2>5. ctodo' \in [PingClients -> 1 .. MessageSize]
    BY <1>1, <1>3, <2>1
  <2>6. cpc' \in [PingClients -> PingPlaces]
    BY <1>1, <2>1 DEF PingPlaces
  <2>7. cpc'[c] \in {"done", "send"} /\ (~Endless /\ cpc'[c] = "send" => loops'[c] >= 1)
    BY <1>1, <1>3, <2>1, <2>2
  <2>8. \A d \in PingClients : d # c => cpc'[d] = cpc[d] /\ loops'[d] = loops[d]
    BY <1>1, <2>1
  <2>9. PingRounds'
    BY <1>2, <1>3, <2>7, <2>8 DEF PingRounds
  <2>10. QED
    BY <2>4, <2>5, <2>6, <2>7, <2>8, <2>9
<1>6. QED
  BY <1>4, <1>5

\* A client that is past its connect disturbs nothing of the server.
LEMMA ClientMoves ==
  ASSUME PingNow, NEW c \in PingClients,
         UNCHANGED <<pair, queued, ppc, cur, worker, holds, nwc_hdr, orphans>>,
         cpc'[c] \notin {"absent", "start"}, \A d \in PingClients : d # c => cpc'[d] = cpc[d]
  PROVE  Served'
<1>1. Ponger' = Ponger /\ Stream' = Stream
  BY PingRunStays
<1>2. Served /\ wpc' = wpc
  BY DEF PingNow, PingIInv, worker
<1>3. NewOnes'
  BY <1>2 DEF Served, NewOnes, Untouched
<1>4. Queue' /\ Unserved' /\ Children' /\ TheParent'
  BY <1>2 DEF Served, Queue, Untouched, Unserved, Children, TheParent
<1>5. AtWork'
  BY <1>1, <1>2 DEF Served, AtWork, Serving
<1>6. QED
  BY <1>3, <1>4, <1>5 DEF Served

LEMMA PingConnectStep ==
  ASSUME PingNow, NEW c \in PingClients, PingConnect(c)
  PROVE  PingIInv'
<1>1. UNCHANGED <<pair, sigio, ctodo, loops, pings, pongs, inbox, ppc, cur, worker, holds, nwc_hdr,
                  lost, orphans>>
      /\ cpc[c] = "start"
  BY DEF PingConnect
<1>2. Ponger' = Ponger /\ Stream' = Stream /\ MessageSize' = MessageSize
      /\ LoopCount' = LoopCount
      /\ Endless' = Endless /\ wpc' = wpc /\ wtodo' = wtodo
  BY <1>1, PingRunStays DEF worker
<1>3. PingTypes /\ PingRounds /\ Served
  BY DEF PingNow, PingIInv
<1>4. cpc \in [PingClients -> PingPlaces] /\ queued \in Seq(PingClients)
  BY PingTyped
<1>5. (cpc' = [cpc EXCEPT ![c] = "send"] \/ cpc' = [cpc EXCEPT ![c] = "failed"])
  BY DEF PingConnect
<1>6. queued' = queued \/ (Stream /\ queued' = Append(queued, c))
  BY DEF PingConnect
<1>7. cpc' \in [PingClients -> PingPlaces]
  BY <1>4, <1>5 DEF PingPlaces
<1>8. queued' \in Seq(PingClients)
  BY <1>4, <1>6
<1>9. PingTypes'
  BY <1>1, <1>2, <1>3, <1>7, <1>8 DEF PingTypes, PingTypeOK, PingPlaces
<1>10. PingRounds'
  BY <1>1, <1>2, <1>3, <1>4, <1>5 DEF PingRounds
<1>11. cpc'[c] \notin {"absent", "start"} /\ \A d \in PingClients : d # c => cpc'[d] = cpc[d]
  BY <1>4, <1>5
<1>12. CASE queued' = queued
  BY <1>1, <1>9, <1>10, <1>11, <1>12, ClientMoves DEF PingIInv
<1>13. CASE Stream /\ queued' = Append(queued, c)
  <2>1. Untouched(c) /\ c \notin Range(queued)
    BY <1>1, <1>3 DEF Served, NewOnes
  <2>2. Range(queued') = Range(queued) \cup {c}
    <3>1. Len(queued) \in Nat /\ Len(queued') = Len(queued) + 1
          /\ DOMAIN queued = 1 .. Len(queued) /\ DOMAIN queued' = 1 .. Len(queued')
          /\ queued'[Len(queued) + 1] = c
          /\ \A i \in 1 .. Len(queued) : queued'[i] = queued[i]
      BY <1>4, <1>13
    <3>2. \A i \in DOMAIN queued' : i \in DOMAIN queued \/ i = Len(queued) + 1
      BY <3>1
    <3>3. DOMAIN queued \subseteq DOMAIN queued' /\ Len(queued) + 1 \in DOMAIN queued'
      BY <3>1
    <3>4. QED
      BY <3>1, <3>2, <3>3 DEF Range
  <2>3. NewOnes'
    BY <1>1, <1>2, <1>3, <1>11, <2>2 DEF Served, NewOnes, Untouched
  <2>4. Queue'
    <3>1. \A d \in Range(queued') : Untouched(d)'
      BY <1>1, <1>2, <1>3, <2>1, <2>2 DEF Served, Queue, Untouched
    <3>2. ASSUME NEW i \in 1 .. Len(queued'), NEW j \in 1 .. Len(queued'), queued'[i] = queued'[j]
          PROVE  i = j
      <4>1. \A k \in 1 .. Len(queued) : queued[k] # c
        BY <1>4, <2>1 DEF Range
      <4>2. Len(queued) \in Nat /\ Len(queued') = Len(queued) + 1 /\ queued'[Len(queued) + 1] = c
            /\ \A k \in 1 .. Len(queued) : queued'[k] = queued[k]
        BY <1>4, <1>13
      <4>3. \A k, l \in 1 .. Len(queued) : queued[k] = queued[l] => k = l
        BY <1>3 DEF Served, Queue
      <4>4. QED
        BY <3>2, <4>1, <4>2, <4>3
    <3>3. QED
      BY <3>1, <3>2 DEF Queue
  <2>5. Unserved' /\ Children' /\ TheParent'
    BY <1>1, <1>2, <1>3 DEF Served, Unserved, Children, TheParent
  <2>6. AtWork'
    BY <1>1, <1>2, <1>3, <1>13 DEF Served, AtWork, Serving
  <2>7. QED
    BY <1>9, <1>10, <2>3, <2>4, <2>5, <2>6 DEF PingIInv, Served
<1>14. QED
  BY <1>6, <1>12, <1>13

\* What the steps of a client past its connect have in common.
LEMMA ClientKeeps ==
  ASSUME PingNow, NEW c \in PingClients,
         UNCHANGED <<pair, queued, ppc, cur, worker, holds, nwc_hdr, orphans>>,
         \/ cpc[c] \in {"send", "recv"} /\ FinishRound(c)
         \/ cpc[c] = "send" /\ cpc' = [cpc EXCEPT ![c] = "recv"] /\ UNCHANGED <<ctodo, loops>>
         \/ cpc' = [cpc EXCEPT ![c] = "failed"] /\ UNCHANGED <<ctodo, loops>>,
         pings' \in [PingClients -> 0 .. PingCap],
         pongs' \in [PingClients -> 0 .. IF Stream THEN PingCap ELSE Datagrams],
         inbox' \in Seq(PingClients), Len(inbox') <= Datagrams,
         sigio' \in [async : BOOLEAN, pending : BOOLEAN, early : SUBSET PingClients, open : BOOLEAN]
  PROVE  PingIInv'
<1>1. Ponger' = Ponger /\ Stream' = Stream /\ MessageSize' = MessageSize
      /\ LoopCount' = LoopCount
      /\ Endless' = Endless /\ wpc' = wpc /\ wtodo' = wtodo
  BY PingRunStays DEF worker
<1>2. /\ cpc' \in [PingClients -> PingPlaces] /\ ctodo' \in [PingClients -> 1 .. MessageSize]
      /\ loops' \in [PingClients -> 0 .. LoopCount] /\ PingRounds'
      /\ cpc'[c] \notin {"absent", "start"}
      /\ \A d \in PingClients : d # c => cpc'[d] = cpc[d]
  BY PingRoundEnds
<1>3. Served'
  BY <1>2, ClientMoves
<1>4. PingTypes'
  BY <1>1, <1>2 DEF PingNow, PingIInv, PingTypes, PingTypeOK, PingPlaces
<1>5. QED
  BY <1>2, <1>3, <1>4 DEF PingIInv

LEMMA PingClientSendStep ==
  ASSUME PingNow, NEW c \in PingClients, SendPing(c)
  PROVE  PingIInv'
<1>1. /\ UNCHANGED <<pair, sigio, pongs, inbox, queued, ppc, cur, worker, holds, nwc_hdr, lost, orphans>>
      /\ cpc[c] = "send" /\ pings[c] < PingCap
  BY DEF SendPing
<1>2. ctodo[c] \in 1 .. MessageSize /\ pings[c] \in 0 .. PingCap /\ PingCap \in Nat /\ MessageSize \in Nat
  BY PingTyped DEF PingNow, PingKnown
<1>3. PICK n \in Nat : /\ n = Min({ctodo[c], PingCap - pings[c]}) /\ pings' = [pings EXCEPT ![c] = @ + n]
                       /\ \/ n = ctodo[c] /\ PingSent(c)
                          \/ n < ctodo[c] /\ ctodo' = [ctodo EXCEPT ![c] = @ - n] /\ UNCHANGED <<cpc, loops>>
  <2>1. PingCap - pings[c] \in Nat /\ ctodo[c] \in Nat
    BY <1>2
  <2>2. Min({ctodo[c], PingCap - pings[c]}) \in Nat
    BY <2>1, PingMinOf
  <2>3. QED
    BY <2>2 DEF SendPing
<1>4. pings' \in [PingClients -> 0 .. PingCap]
  <2>1. n <= PingCap - pings[c]
    BY <1>1, <1>2, <1>3, PingMinOf
  <2>2. pings[c] + n \in 0 .. PingCap
    BY <1>2, <2>1
  <2>3. QED
    BY <1>3, <2>2, PingTyped
<1>5. CASE PingSent(c)
  BY <1>1, <1>4, <1>5, ClientKeeps, PingTyped DEF PingSent
<1>6. CASE n < ctodo[c] /\ ctodo' = [ctodo EXCEPT ![c] = @ - n] /\ UNCHANGED <<cpc, loops>>
  <2>1. ctodo[c] - n \in 1 .. MessageSize
    BY <1>2, <1>6
  <2>2. ctodo' \in [PingClients -> 1 .. MessageSize]
    BY <1>6, <2>1, PingTyped
  <2>3. Served'
    BY <1>1, <1>6, ClientMoves
  <2>4. Ponger' = Ponger /\ Stream' = Stream /\ MessageSize' = MessageSize
        /\ LoopCount' = LoopCount
        /\ Endless' = Endless
    BY <1>1, PingRunStays
  <2>5. PingTypes'
    BY <1>1, <1>4, <1>6, <2>2, <2>4 DEF PingNow, PingIInv, PingTypes, PingTypeOK, worker
  <2>6. PingRounds'
    BY <1>6, <2>4 DEF PingNow, PingIInv, PingRounds
  <2>7. QED
    BY <2>3, <2>5, <2>6 DEF PingIInv
<1>7. QED
  BY <1>3, <1>5, <1>6

LEMMA ClientSendClosedStep ==
  ASSUME PingNow, NEW c \in PingClients, ClientSendClosed(c)
  PROVE  PingIInv'
BY ClientKeeps, PingTyped DEF ClientSendClosed, PingSent

\* A datagram that is delivered fits the queues.
LEMMA Fits ==
  ASSUME PingNow, ~Stream, NEW D \in SUBSET PingClients, NEW copies \in [D -> Copies \cup {0}],
         Deliver(copies)
  PROVE  pongs' \in [PingClients -> 0 .. IF Stream THEN PingCap ELSE Datagrams]
<1>1. pongs \in [PingClients -> 0 .. Datagrams] /\ Datagrams \in Nat
  BY PingTyped DEF PingNow, PingKnown
<1>2. ASSUME NEW d \in D PROVE pongs[d] + copies[d] \in 0 .. Datagrams
  <2>1. copies[d] \in 0 .. 2
    <3>1. copies[d] \in Copies \cup {0}
      OBVIOUS
    <3>2. QED
      BY <3>1 DEF Copies
  <2>2. pongs[d] + copies[d] <= Datagrams
    BY DEF Deliver
  <2>3. pongs[d] \in Nat
    BY <1>1
  <2>4. QED
    BY <1>1, <2>1, <2>2, <2>3
<1>3. pongs' = [d \in PingClients |-> IF d \in D THEN pongs[d] + copies[d] ELSE pongs[d]]
  BY DEF Deliver
<1>4. pongs' \in [PingClients -> 0 .. Datagrams]
  BY <1>1, <1>2, <1>3
<1>5. QED
  BY <1>4

\* A datagram from a client gets to the socket, and rings if it is asked to.
LEMMA ToTheSocket ==
  ASSUME PingNow, NEW c \in PingClients, NEW k \in Copies \cup {0}, Len(inbox) + k <= Datagrams,
         inbox' = inbox \o [i \in 1 .. k |-> c], Arrives(c, k)
  PROVE  /\ inbox' \in Seq(PingClients) /\ Len(inbox') <= Datagrams
         /\ sigio' \in [async : BOOLEAN, pending : BOOLEAN, early : SUBSET PingClients, open : BOOLEAN]
<1>1. k \in Nat
  BY DEF Copies
<1>2. [i \in 1 .. k |-> c] \in Seq(PingClients) /\ Len([i \in 1 .. k |-> c]) = k
  <2>1. [i \in 1 .. k |-> c] \in [1 .. k -> PingClients]
    OBVIOUS
  <2>2. [i \in 1 .. k |-> c] \in Seq(PingClients)
    BY <1>1, <2>1, SeqDef
  <2>3. DOMAIN [i \in 1 .. k |-> c] = 1 .. k
    OBVIOUS
  <2>4. QED
    BY <1>1, <2>2, <2>3, LenProperties
<1>3. inbox' \in Seq(PingClients) /\ Len(inbox') = Len(inbox) + k
  <2>1. inbox \in Seq(PingClients)
    BY PingTyped
  <2>2. QED
    BY <1>1, <1>2, <2>1, ConcatProperties
<1>4. sigio' \in [async : BOOLEAN, pending : BOOLEAN, early : SUBSET PingClients, open : BOOLEAN]
  BY PingTyped DEF Arrives
<1>5. QED
  BY <1>3, <1>4

LEMMA ClientSendToStep ==
  ASSUME PingNow, NEW c \in PingClients, ClientSendTo(c)
  PROVE  PingIInv'
<1>1. UNCHANGED <<pair, pings, queued, ppc, cur, worker, holds, nwc_hdr, orphans>>
      /\ ~Stream /\ cpc[c] = "send" /\ PingSent(c)
  BY DEF ClientSendTo
<1>2. PICK k \in Copies \cup {0} : /\ Len(inbox) + k <= Datagrams
                                /\ inbox' = inbox \o [i \in 1 .. k |-> c] /\ Arrives(c, k)
  BY DEF ClientSendTo
<1>3. /\ inbox' \in Seq(PingClients) /\ Len(inbox') <= Datagrams
      /\ sigio' \in [async : BOOLEAN, pending : BOOLEAN, early : SUBSET PingClients, open : BOOLEAN]
  BY <1>2, ToTheSocket
<1>4. pongs' \in [PingClients -> 0 .. IF Stream THEN PingCap ELSE Datagrams]
  <2>1. Members(c) \in SUBSET PingClients
    BY DEF Members
  <2>2. PICK copies \in [Members(c) -> Copies] : Deliver(copies)
    BY DEF ClientSendTo
  <2>3. copies \in [Members(c) -> Copies \cup {0}]
    BY <2>2
  <2>4. QED
    BY <1>1, <2>1, <2>2, <2>3, Fits
<1>5. QED
  BY <1>1, <1>3, <1>4, ClientKeeps, PingTyped DEF PingSent

LEMMA PingClientRecvStep ==
  ASSUME PingNow, NEW c \in PingClients, RecvPong(c)
  PROVE  PingIInv'
<1>1. UNCHANGED <<pair, sigio, pings, inbox, queued, ppc, cur, worker, holds, nwc_hdr, lost, orphans>>
      /\ cpc[c] = "recv" /\ pongs[c] > 0 /\ FinishRound(c)
  BY DEF RecvPong
<1>2. PICK n \in 1 .. Min({Pinger.reads, pongs[c]}) : pongs' = [pongs EXCEPT ![c] = @ - n]
  BY DEF RecvPong
<1>3. PICK bound \in Nat : bound = IF Stream THEN PingCap ELSE Datagrams
  BY DEF PingNow, PingKnown
<1>4. pongs \in [PingClients -> 0 .. bound] /\ Pinger.reads \in Nat
  BY <1>3, PingTyped DEF PingNow, PingKnown
<1>5. pongs[c] \in Nat /\ pongs[c] <= bound
  BY <1>3, <1>4
<1>6. Min({Pinger.reads, pongs[c]}) \in Nat /\ Min({Pinger.reads, pongs[c]}) <= pongs[c]
  BY <1>4, <1>5, PingMinOf
<1>7. n \in Nat /\ n <= pongs[c]
  BY <1>5, <1>6
<1>8. pongs[c] - n \in 0 .. bound
  BY <1>3, <1>5, <1>7
<1>9. pongs' \in [PingClients -> 0 .. IF Stream THEN PingCap ELSE Datagrams]
  BY <1>2, <1>3, <1>4, <1>8
<1>10. QED
  BY <1>1, <1>9, ClientKeeps, PingTyped

LEMMA ClientEndStep ==
  ASSUME PingNow, NEW c \in PingClients, ClientRecvEnd(c) \/ ClientError(c)
  PROVE  PingIInv'
BY ClientKeeps, PingTyped DEF ClientRecvEnd, ClientError

-----------------------------------------------------------------------------
(* The loops that serve connections                                          *)

\* Whoever is served was accepted, and forked where that is the way.
LEMMA ServedIsKnown ==
  ASSUME PingNow, NEW c \in PingClients, Serving(c)
  PROVE  /\ cpc[c] \notin {"absent", "start"} /\ c \notin Range(queued) /\ c \notin orphans
         /\ Ponger.accepts \in {"one", "fork"} /\ ~(ppc = "fork" /\ cur = c)
<1>1. Served
  BY DEF PingNow, PingIInv
<1>2. wpc[c] # "none"
  BY DEF Serving
<1>3. ~Untouched(c)
  BY <1>2 DEF Untouched
<1>4. cpc[c] \notin {"absent", "start"} /\ c \notin Range(queued)
  BY <1>1, <1>3 DEF Served, NewOnes, Queue
<1>5. c \notin orphans /\ ~(ppc = "fork" /\ cur = c) /\ Stream
  BY <1>1, <1>2 DEF Served, Unserved, AtWork
<1>6. QED
  BY <1>4, <1>5 DEF Stream

\* A turn of the loop.
LEMMA TurnKeeps ==
  ASSUME PingNow, NEW c \in PingClients, Serving(c), NEW x \in {"recv", "send"},
         wpc' = [wpc EXCEPT ![c] = x],
         UNCHANGED <<pair, cpc, queued, ppc, cur, holds, nwc_hdr, orphans>>
  PROVE  Served'
<1>1. Ponger' = Ponger /\ Stream' = Stream
  BY PingRunStays
<1>2. Served
  BY DEF PingNow, PingIInv
<1>3. /\ cpc[c] \notin {"absent", "start"} /\ c \notin Range(queued) /\ c \notin orphans
      /\ Ponger.accepts \in {"one", "fork"} /\ ~(ppc = "fork" /\ cur = c)
  BY ServedIsKnown
<1>4. wpc'[c] = x /\ \A d : d # c /\ d \in PingClients => wpc'[d] = wpc[d]
  BY PingTyped
<1>5. NewOnes'
  BY <1>2, <1>3, <1>4 DEF Served, NewOnes, Untouched
<1>6. Queue'
  <2>1. queued \in Seq(PingClients) /\ Range(queued) \subseteq PingClients
    BY PingTyped DEF Range
  <2>2. \A d \in Range(queued) : Untouched(d)'
    BY <1>2, <1>3, <1>4, <2>1 DEF Served, Queue, Untouched
  <2>3. QED
    BY <1>2, <2>2 DEF Served, Queue
<1>7. Unserved'
  BY <1>2, <1>3, <1>4 DEF Served, Unserved
<1>8. Children'
  BY <1>2, <1>4 DEF Served, Children
<1>9. TheParent'
  BY <1>2 DEF Served, TheParent
<1>10. AtWork'
  <2>1. \A d \in PingClients : Serving(d)' => Serving(d)
    BY <1>4 DEF Serving
  <2>2. \A d \in PingClients : Serving(d) => Serving(d)'
    BY <1>4 DEF Serving
  <2>3. ppc = "fork" => cur \in holds[Parent] /\ wpc'[cur] = "none" /\ cur \notin orphans
    BY <1>2, <1>3, <1>4 DEF Served, AtWork
  <2>4. ppc = "serve" => Ponger.accepts = "one" /\ Serving(cur)'
    <3>1. ppc = "serve" => Ponger.accepts = "one" /\ Serving(cur) /\ cur \in PingClients
      BY <1>2 DEF Served, AtWork
    <3>2. QED
      BY <2>2, <3>1 DEF Serving
  <2>5. ~Stream => queued = <<>> /\ \A d \in PingClients : wpc'[d] = "none"
    BY <1>3 DEF Stream
  <2>6. QED
    BY <1>1, <1>2, <2>1, <2>3, <2>4, <2>5 DEF Served, AtWork
<1>11. QED
  BY <1>5, <1>6, <1>7, <1>8, <1>9, <1>10 DEF Served

\* The process that served the connection closes what it had open.
LEMMA EndKeeps ==
  ASSUME PingNow, NEW c \in PingClients, Serving(c), WorkerEnds(c),
         UNCHANGED <<pair, cpc, queued, cur, nwc_hdr, orphans>>
  PROVE  /\ Served' /\ wpc' \in [PingClients -> Phases] /\ wtodo' = wtodo
         /\ ppc' \in {ppc, "exited"} /\ holds' \in [PingClients \cup {Parent} -> SUBSET PingClients]
<1>1. Ponger' = Ponger /\ Stream' = Stream
  BY PingRunStays
<1>2. Served /\ Parent \notin PingClients
  BY DEF PingNow, PingIInv, PingKnown
<1>3. /\ cpc[c] \notin {"absent", "start"} /\ c \notin Range(queued) /\ c \notin orphans
      /\ Ponger.accepts \in {"one", "fork"} /\ ~(ppc = "fork" /\ cur = c)
  BY ServedIsKnown
<1>4. wpc' = [wpc EXCEPT ![c] = "exited"] /\ wtodo' = wtodo
  BY DEF WorkerEnds
<1>5. wpc' \in [PingClients -> Phases] /\ wpc'[c] = "exited"
      /\ \A d : d # c /\ d \in PingClients => wpc'[d] = wpc[d]
  BY <1>4, PingTyped DEF Phases
<1>6. PICK p \in PingClients \cup {Parent} :
        /\ holds' = [holds EXCEPT ![p] = {}]
        /\ \/ Ponger.accepts = "one" /\ p = Parent /\ ppc' = "exited"
           \/ Ponger.accepts = "fork" /\ p = c /\ ppc' = ppc
  <2>1. CASE Ponger.accepts = "one"
    <3>1. ppc' = "exited" /\ holds' = [holds EXCEPT ![Parent] = {}]
      BY <2>1 DEF WorkerEnds
    <3>2. QED
      BY <2>1, <3>1
  <2>2. CASE Ponger.accepts = "fork"
    <3>1. ppc' = ppc /\ holds' = [holds EXCEPT ![c] = {}]
      BY <2>2 DEF WorkerEnds
    <3>2. QED
      BY <2>2, <3>1
  <2>3. QED
    BY <1>3, <2>1, <2>2
<1>7. holds' \in [PingClients \cup {Parent} -> SUBSET PingClients]
  BY <1>6, PingTyped
<1>8. DOMAIN holds' = PingClients \cup {Parent} /\ DOMAIN holds = PingClients \cup {Parent}
      /\ \A q \in PingClients \cup {Parent} : holds'[q] = IF q = p THEN {} ELSE holds[q]
  BY <1>6, PingTyped
<1>9. ASSUME NEW d \in PingClients, Untouched(d) PROVE Untouched(d)'
  <2>1. d # c
    BY <1>9 DEF Untouched, Serving
  <2>2. QED
    BY <1>5, <1>8, <1>9, <2>1 DEF Untouched
<1>10. NewOnes'
  BY <1>2, <1>9 DEF Served, NewOnes
<1>11. Queue'
  <2>1. Range(queued) \subseteq PingClients
    <3>1. queued \in Seq(PingClients)
      BY PingTyped
    <3>2. QED
      BY <3>1 DEF Range
  <2>2. QED
    BY <1>2, <1>9, <2>1 DEF Served, Queue
<1>12. Unserved'
  BY <1>2, <1>3, <1>5 DEF Served, Unserved
<1>13. Children'
  <2>1. ASSUME NEW d \in PingClients
        PROVE  holds'[d] \subseteq orphans \cup {d} /\ (wpc'[d] \in {"none", "exited"} => holds'[d] = {})
    <3>1. CASE d = c
      <4>1. Ponger.accepts = "one" => holds[c] = {}
        BY <1>2 DEF Served, AtWork
      <4>2. QED
        BY <1>2, <1>6, <1>8, <3>1, <4>1
    <3>2. CASE d # c
      BY <1>2, <1>5, <1>8, <3>2 DEF Served, Children
    <3>3. QED
      BY <3>1, <3>2
  <2>2. QED
    BY <2>1 DEF Children
<1>14. TheParent'
  <2>1. CASE Ponger.accepts = "one"
    BY <1>2, <1>6, <1>8, <2>1 DEF TheParent
  <2>2. CASE Ponger.accepts = "fork"
    BY <1>2, <1>6, <1>8, <2>2 DEF Served, TheParent
  <2>3. QED
    BY <1>3, <2>1, <2>2
<1>15. AtWork'
  <2>1. \A d \in PingClients : Serving(d)' => Serving(d) /\ d # c
    BY <1>5 DEF Serving
  <2>2. CASE Ponger.accepts = "one"
    <3>1. \A d \in PingClients : ~Serving(d)'
      BY <1>2, <2>1, <2>2 DEF Served, AtWork
    <3>2. holds'[Parent] = {} /\ ppc' = "exited" /\ \A d \in PingClients : holds'[d] = {}
      BY <1>2, <1>6, <1>8, <2>2 DEF Served, AtWork
    <3>3. Stream'
      BY <1>1, <2>2 DEF Stream
    <3>4. QED
      BY <1>1, <2>2, <3>1, <3>2, <3>3 DEF AtWork
  <2>3. CASE Ponger.accepts = "fork"
    <3>1. ppc' = ppc /\ holds'[Parent] = holds[Parent] /\ Stream
      BY <1>2, <1>6, <1>8, <2>3 DEF Stream
    <3>2. ppc = "fork" => cur \in PingClients /\ wpc[cur] = "none"
      BY <1>2 DEF Served, AtWork
    <3>3. ppc = "fork" => wpc'[cur] = "none"
      BY <1>3, <1>5, <3>2
    <3>4. QED
      BY <1>1, <1>2, <2>3, <3>1, <3>3 DEF Served, AtWork
  <2>4. QED
    BY <1>3, <2>2, <2>3
<1>16. ppc' \in {ppc, "exited"}
  BY <1>6
<1>17. QED
  BY <1>4, <1>5, <1>7, <1>10, <1>11, <1>12, <1>13, <1>14, <1>15, <1>16 DEF Served

\* The types after a step of a loop.
LEMMA LoopKeeps ==
  ASSUME PingNow, Served', UNCHANGED <<pair, sigio, client, inbox, queued, cur, nwc_hdr>>,
         pings' \in [PingClients -> 0 .. PingCap],
         pongs' \in [PingClients -> 0 .. IF Stream THEN PingCap ELSE Datagrams],
         wpc' \in [PingClients -> Phases], wtodo' \in [PingClients -> 0 .. 4], ppc' \in {ppc, "exited"},
         holds' \in [PingClients \cup {Parent} -> SUBSET PingClients]
  PROVE  PingIInv'
<1>1. Ponger' = Ponger /\ Stream' = Stream /\ MessageSize' = MessageSize
      /\ LoopCount' = LoopCount
      /\ Endless' = Endless
  BY PingRunStays
<1>2. PingRounds'
  BY <1>1 DEF PingNow, PingIInv, PingRounds, client
<1>3. ppc' \in {"accept", "fork", "close", "serve", "recv", "send", "exited",
                "startup", "async", "suspend", "walk"}
  BY DEF PingNow, PingIInv, PingTypes, PingTypeOK
<1>4. PingTypes'
  BY <1>1, <1>3 DEF PingNow, PingIInv, PingTypes, PingTypeOK, client, Phases, PongLen
<1>5. QED
  BY <1>2, <1>4 DEF PingIInv

LEMMA WorkerRecvStep ==
  ASSUME PingNow, NEW c \in PingClients, WorkerRecv(c)
  PROVE  PingIInv'
<1>1. UNCHANGED <<pair, sigio, client, pongs, inbox, queued, ppc, cur, holds, nwc_hdr, lost, orphans>>
      /\ wpc[c] = "recv" /\ pings[c] > 0 /\ wtodo' = [wtodo EXCEPT ![c] = PongLen]
  BY DEF WorkerRecv
<1>2. PICK n \in 1 .. Min({Ponger.reads, pings[c]}) : pings' = [pings EXCEPT ![c] = @ - n]
  BY DEF WorkerRecv
<1>3. pings[c] \in 0 .. PingCap /\ PingCap \in Nat /\ Ponger.reads \in Nat
  BY PingTyped DEF PingNow, PingKnown
<1>4. Min({Ponger.reads, pings[c]}) \in Nat /\ Min({Ponger.reads, pings[c]}) <= pings[c]
  BY <1>3, PingMinOf
<1>5. pings[c] - n \in 0 .. PingCap
  BY <1>3, <1>4
<1>6. pings' \in [PingClients -> 0 .. PingCap]
  BY <1>2, <1>5, PingTyped
<1>7. PICK x \in {"recv", "send"} : wpc' = [wpc EXCEPT ![c] = x]
  BY <1>1 DEF WorkerRecv
<1>8. wpc' \in [PingClients -> Phases] /\ wtodo' \in [PingClients -> 0 .. 4]
  BY <1>1, <1>7, PingTyped DEF Phases, PongLen
<1>9. Served'
  BY <1>1, <1>7, TurnKeeps DEF Serving, client
<1>10. QED
  BY <1>1, <1>6, <1>8, <1>9, LoopKeeps, PingTyped

LEMMA PongSentKeeps ==
  ASSUME PingNow, NEW c \in PingClients, wpc[c] = "send", PongSent(c),
         UNCHANGED <<pair, cpc, queued, ppc, cur, holds, nwc_hdr, orphans>>
  PROVE  Served' /\ wpc' \in [PingClients -> Phases] /\ wtodo' \in [PingClients -> 0 .. 4]
<1>1. PICK x \in {"recv", "send"} : wpc' = [wpc EXCEPT ![c] = x]
  BY DEF PongSent
<1>2. wpc' \in [PingClients -> Phases]
  BY <1>1, PingTyped DEF Phases
<1>3. wtodo' \in [PingClients -> 0 .. 4]
  BY PingTyped DEF PongSent, PongLen
<1>4. Served'
  BY <1>1, TurnKeeps DEF Serving
<1>5. QED
  BY <1>2, <1>3, <1>4

LEMMA WorkerSendStep ==
  ASSUME PingNow, NEW c \in PingClients, WorkerSend(c)
  PROVE  PingIInv'
<1>1. UNCHANGED <<pair, sigio, client, pings, inbox, queued, ppc, cur, holds, nwc_hdr, lost, orphans>>
      /\ wpc[c] = "send" /\ pongs[c] < PingCap
  BY DEF WorkerSend
<1>2. Stream
  <2>1. Served
    BY DEF PingNow, PingIInv
  <2>2. QED
    BY <1>1, <2>1 DEF Served, AtWork
<1>3. pongs \in [PingClients -> 0 .. PingCap] /\ PingCap \in Nat /\ wtodo[c] \in 0 .. 4
  BY <1>2, PingTyped DEF PingNow, PingKnown
<1>4. pongs[c] \in Nat /\ PingCap - pongs[c] \in Nat /\ wtodo[c] \in Nat
  BY <1>1, <1>3
<1>5. PICK n \in Nat : /\ n = Min({wtodo[c], PingCap - pongs[c]}) /\ pongs' = [pongs EXCEPT ![c] = @ + n]
                       /\ \/ n = wtodo[c] /\ PongSent(c)
                          \/ n < wtodo[c] /\ wtodo' = [wtodo EXCEPT ![c] = @ - n] /\ UNCHANGED wpc
  <2>1. Min({wtodo[c], PingCap - pongs[c]}) \in Nat
    <3>1. PingCap - pongs[c] \in Nat /\ wtodo[c] \in Nat
      BY <1>4
    <3>2. QED
      BY <3>1, PingMinOf
  <2>2. QED
    BY <2>1 DEF WorkerSend
<1>6. n <= PingCap - pongs[c] /\ n <= wtodo[c]
  BY <1>4, <1>5, PingMinOf
<1>7. pongs[c] + n \in 0 .. PingCap
  BY <1>3, <1>4, <1>6
<1>8. pongs' \in [PingClients -> 0 .. IF Stream THEN PingCap ELSE Datagrams]
  BY <1>2, <1>3, <1>5, <1>7
<1>9. CASE n = wtodo[c] /\ PongSent(c)
  BY <1>1, <1>8, <1>9, PongSentKeeps, LoopKeeps, PingTyped DEF client
<1>10. CASE n < wtodo[c] /\ wtodo' = [wtodo EXCEPT ![c] = @ - n] /\ UNCHANGED wpc
  <2>1. wtodo[c] - n \in 0 .. 4
    BY <1>3, <1>10
  <2>2. wtodo' \in [PingClients -> 0 .. 4]
    <3>1. wtodo \in [PingClients -> 0 .. 4] /\ wtodo' = [wtodo EXCEPT ![c] = wtodo[c] - n]
      BY <1>10, PingTyped
    <3>2. QED
      BY <2>1, <3>1
  <2>3. wpc' = [wpc EXCEPT ![c] = "send"]
    BY <1>1, <1>10, PingTyped
  <2>4. Served'
    BY <1>1, <2>3, TurnKeeps DEF Serving, client
  <2>5. QED
    BY <1>1, <1>8, <1>10, <2>2, <2>4, LoopKeeps, PingTyped
<1>11. QED
  BY <1>5, <1>9, <1>10

LEMMA WorkerEndStep ==
  ASSUME PingNow, NEW c \in PingClients, WorkerSendClosed(c) \/ WorkerRecvEnd(c) \/ WorkerError(c)
  PROVE  PingIInv'
<1>1. UNCHANGED <<pair, sigio, client, pings, pongs, inbox, queued, cur, nwc_hdr, lost, orphans>>
  BY DEF WorkerSendClosed, WorkerRecvEnd, WorkerError
<1>2. Serving(c)
  BY DEF WorkerSendClosed, WorkerRecvEnd, WorkerError, Serving
<1>3. cpc' = cpc
  BY <1>1 DEF client
<1>4. CASE wpc[c] = "send" /\ PongSent(c) /\ UNCHANGED <<ppc, holds>>
  BY <1>1, <1>3, <1>4, PongSentKeeps, LoopKeeps, PingTyped
<1>5. CASE WorkerEnds(c)
  <2>1. /\ Served' /\ wpc' \in [PingClients -> Phases] /\ wtodo' = wtodo
        /\ ppc' \in {ppc, "exited"} /\ holds' \in [PingClients \cup {Parent} -> SUBSET PingClients]
    BY <1>1, <1>2, <1>3, <1>5, EndKeeps
  <2>2. QED
    BY <1>1, <2>1, LoopKeeps, PingTyped
<1>6. QED
  BY <1>4, <1>5 DEF WorkerSendClosed, WorkerRecvEnd, WorkerError

-----------------------------------------------------------------------------
(* The server process                                                        *)

Distinct(s) == \A i, j \in 1 .. Len(s) : s[i] = s[j] => i = j

LEMMA HeadGoes ==
  ASSUME NEW s \in Seq(PingClients), s # <<>>, Distinct(s)
  PROVE  /\ Head(s) \in PingClients /\ Head(s) \in Range(s) /\ Tail(s) \in Seq(PingClients)
         /\ Range(Tail(s)) \subseteq Range(s) \ {Head(s)} /\ Distinct(Tail(s))
<1>1. /\ Len(s) \in Nat \ {0} /\ Head(s) = s[1] /\ DOMAIN s = 1 .. Len(s) /\ Tail(s) \in Seq(PingClients)
      /\ Len(Tail(s)) = Len(s) - 1 /\ DOMAIN Tail(s) = 1 .. Len(s) - 1
      /\ \A i \in 1 .. Len(s) - 1 : Tail(s)[i] = s[i + 1]
  BY HeadTailProperties, LenProperties
<1>2. 1 \in 1 .. Len(s) /\ \A i \in 1 .. Len(s) - 1 : i + 1 \in 1 .. Len(s) /\ i + 1 # 1
  BY <1>1
<1>3. Head(s) \in PingClients /\ Head(s) \in Range(s)
  BY <1>1, <1>2 DEF Range
<1>4. ASSUME NEW x \in Range(Tail(s)) PROVE x \in Range(s) /\ x # Head(s)
  <2>1. PICK i \in 1 .. Len(s) - 1 : x = Tail(s)[i]
    BY <1>1 DEF Range
  <2>2. x = s[i + 1] /\ i + 1 \in 1 .. Len(s) /\ i + 1 # 1
    BY <1>1, <1>2, <2>1
  <2>3. s[i + 1] # s[1]
    BY <1>2, <2>2 DEF Distinct
  <2>4. QED
    BY <1>1, <2>2, <2>3 DEF Range
<1>5. ASSUME NEW i \in 1 .. Len(Tail(s)), NEW j \in 1 .. Len(Tail(s)), Tail(s)[i] = Tail(s)[j]
      PROVE  i = j
  <2>1. i + 1 \in 1 .. Len(s) /\ j + 1 \in 1 .. Len(s) /\ s[i + 1] = s[j + 1]
    BY <1>1, <1>2, <1>5
  <2>2. i + 1 = j + 1
    BY <2>1 DEF Distinct
  <2>3. QED
    BY <1>1, <2>2
<1>6. QED
  BY <1>1, <1>3, <1>4, <1>5 DEF Distinct

LEMMA PingAcceptStep ==
  ASSUME PingNow, ServerAccepts
  PROVE  PingIInv'
<1>1. /\ UNCHANGED <<pair, sigio, client, pings, pongs, inbox, nwc_hdr, lost, orphans>>
      /\ ppc = "accept" /\ queued # <<>> /\ cur' = Head(queued) /\ queued' = Tail(queued)
      /\ holds' = [holds EXCEPT ![Parent] = @ \cup {cur'}]
  BY DEF ServerAccepts
<1>2. Ponger' = Ponger /\ Stream' = Stream /\ MessageSize' = MessageSize
      /\ LoopCount' = LoopCount
      /\ Endless' = Endless /\ ServerReads \in BOOLEAN
  BY <1>1, PingRunStays DEF ServerReads
<1>3. Served /\ PingTypes /\ PingRounds /\ Parent \notin PingClients
  BY DEF PingNow, PingIInv, PingKnown
<1>4. Distinct(queued)
  BY <1>3 DEF Served, Queue, Distinct
<1>5. /\ cur' \in PingClients /\ cur' \in Range(queued) /\ queued' \in Seq(PingClients)
      /\ Range(queued') \subseteq Range(queued) \ {cur'} /\ Distinct(queued')
  BY <1>1, <1>4, HeadGoes, PingTyped
<1>6. Untouched(cur') /\ cpc[cur'] \notin {"absent", "start"}
  BY <1>3, <1>5 DEF Served, Queue, NewOnes
<1>7. Stream
  BY <1>1, <1>3 DEF Served, AtWork
<1>8. /\ DOMAIN holds' = PingClients \cup {Parent} /\ DOMAIN holds = PingClients \cup {Parent}
      /\ holds'[Parent] = holds[Parent] \cup {cur'}
      /\ \A d \in PingClients : holds'[d] = holds[d]
      /\ holds' \in [PingClients \cup {Parent} -> SUBSET PingClients]
  <2>1. holds \in [PingClients \cup {Parent} -> SUBSET PingClients]
    BY PingTyped
  <2>2. holds[Parent] \cup {cur'} \in SUBSET PingClients
    BY <1>5, <2>1
  <2>3. QED
    BY <1>1, <1>3, <2>1, <2>2
<1>9. PICK x \in {"recv", "send", "none"} :
        /\ wpc' = [wpc EXCEPT ![cur'] = x]
        /\ wtodo' \in [PingClients -> 0 .. 4]
        /\ \/ Ponger.accepts = "one" /\ ppc' = "serve" /\ x # "none"
           \/ Ponger.accepts = "fork" /\ ppc' = "fork" /\ x = "none"
  <2>1. wpc \in [PingClients -> Phases] /\ wtodo \in [PingClients -> 0 .. 4] /\ wpc[cur'] = "none"
    BY <1>6, PingTyped DEF Untouched
  <2>2. CASE Ponger.accepts = "one"
    <3>1. ppc' = "serve" /\ StartServing(cur')
      BY <2>2 DEF ServerAccepts
    <3>2. wtodo' \in [PingClients -> 0 .. 4]
      <4>1. wtodo' = [wtodo EXCEPT ![cur'] = 4]
        BY <3>1 DEF StartServing, PongLen
      <4>2. QED
        BY <1>5, <2>1, <4>1
    <3>3. QED
      BY <2>2, <3>1, <3>2 DEF StartServing
  <2>3. CASE Ponger.accepts = "fork"
    <3>1. ppc' = "fork" /\ wpc' = wpc /\ wtodo' = wtodo
      BY <2>3 DEF ServerAccepts, worker
    <3>2. wpc' = [wpc EXCEPT ![cur'] = "none"]
      BY <2>1, <3>1
    <3>3. QED
      BY <2>1, <2>3, <3>1, <3>2
  <2>4. QED
    BY <1>7, <2>2, <2>3 DEF Stream
<1>10. wpc' \in [PingClients -> Phases] /\ wpc'[cur'] = x
       /\ \A d \in PingClients : d # cur' => wpc'[d] = wpc[d]
  <2>1. wpc \in [PingClients -> Phases]
    BY PingTyped
  <2>2. QED
    BY <1>5, <1>9, <2>1 DEF Phases
<1>11. cpc' = cpc /\ orphans' = orphans
  BY <1>1 DEF client
<1>12. ASSUME NEW d \in PingClients, d # cur', Untouched(d) PROVE Untouched(d)'
  BY <1>8, <1>10, <1>11, <1>12 DEF Untouched
<1>13. NewOnes'
  BY <1>3, <1>5, <1>6, <1>11, <1>12 DEF Served, NewOnes
<1>14. Queue'
  <2>1. Range(queued) \subseteq PingClients
    <3>1. queued \in Seq(PingClients)
      BY PingTyped
    <3>2. QED
      BY <3>1 DEF Range
  <2>2. \A d \in Range(queued') : Untouched(d)'
    BY <1>3, <1>5, <1>12, <2>1 DEF Served, Queue
  <2>3. QED
    BY <1>5, <2>2 DEF Queue, Distinct
<1>15. Unserved'
  BY <1>3, <1>6, <1>10, <1>11 DEF Served, Unserved, Untouched
<1>16. Children'
  BY <1>3, <1>6, <1>8, <1>10, <1>11 DEF Served, Children, Untouched
<1>17. TheParent'
  BY <1>1, <1>3, <1>8, <1>9, <1>11 DEF Served, TheParent
<1>18. AtWork'
  <2>1. CASE Ponger.accepts = "one"
    <3>1. \A d \in PingClients : ~Serving(d) /\ holds[d] = {}
      BY <1>1, <1>3, <2>1 DEF Served, AtWork
    <3>2. ppc' = "serve" /\ x # "none"
      BY <1>9, <2>1
    <3>3. Serving(cur)' /\ \A d \in PingClients : Serving(d)' => d = cur'
      BY <1>9, <1>10, <3>1, <3>2 DEF Serving
    <3>4. QED
      BY <1>2, <1>5, <1>7, <1>8, <2>1, <3>1, <3>2, <3>3 DEF AtWork
  <2>2. CASE Ponger.accepts = "fork"
    <3>1. ppc' = "fork" /\ wpc'[cur'] = "none"
      BY <1>9, <1>10, <2>2
    <3>2. cur' \notin orphans'
      BY <1>6, <1>11 DEF Untouched
    <3>3. QED
      BY <1>2, <1>5, <1>7, <1>8, <2>2, <3>1, <3>2 DEF AtWork
  <2>3. QED
    BY <1>7, <2>1, <2>2 DEF Stream
<1>19. PingTypes'
  <2>1. ppc' \in {"serve", "fork"}
    BY <1>9
  <2>2. QED
    BY <1>1, <1>2, <1>3, <1>5, <1>8, <1>9, <1>10, <2>1 DEF PingTypes, PingTypeOK, Phases,
       PongLen, client
<1>20. PingRounds'
  BY <1>1, <1>2, <1>3 DEF PingRounds, client
<1>21. QED
  BY <1>13, <1>14, <1>15, <1>16, <1>17, <1>18, <1>19, <1>20 DEF PingIInv, Served

LEMMA AcceptErrorStep ==
  ASSUME PingNow, AcceptError
  PROVE  PingIInv'
<1>1. /\ UNCHANGED <<pair, sigio, client, pings, pongs, inbox, queued, cur, worker, nwc_hdr, lost, orphans>>
      /\ ppc = "accept" /\ ppc' = "exited" /\ holds' = [holds EXCEPT ![Parent] = {}]
  BY DEF AcceptError
<1>2. Served /\ Parent \notin PingClients
  BY DEF PingNow, PingIInv, PingKnown
<1>3. Ponger' = Ponger /\ Stream' = Stream /\ cpc' = cpc /\ wpc' = wpc /\ wtodo' = wtodo
  BY <1>1, PingRunStays DEF client, worker
<1>4. /\ holds' \in [PingClients \cup {Parent} -> SUBSET PingClients]
      /\ DOMAIN holds' = PingClients \cup {Parent} /\ DOMAIN holds = PingClients \cup {Parent}
      /\ holds'[Parent] = {} /\ \A d \in PingClients : holds'[d] = holds[d]
  BY <1>1, <1>2, PingTyped
<1>5. \A d : Untouched(d) => Untouched(d)'
  BY <1>1, <1>3, <1>4 DEF Untouched
<1>6. NewOnes' /\ Queue'
  BY <1>1, <1>2, <1>3, <1>5 DEF Served, NewOnes, Queue
<1>7. Unserved' /\ Children'
  BY <1>1, <1>2, <1>3, <1>4 DEF Served, Unserved, Children
<1>8. TheParent'
  BY <1>4 DEF TheParent
<1>9. AtWork'
  <2>1. \A d \in PingClients : Serving(d)' <=> Serving(d)
    BY <1>3 DEF Serving
  <2>2. Ponger.accepts = "one" => \A d \in PingClients : ~Serving(d)
    BY <1>1, <1>2 DEF Served, AtWork
  <2>3. QED
    BY <1>1, <1>2, <1>3, <1>4, <2>1, <2>2 DEF Served, AtWork
<1>10. Served'
  BY <1>6, <1>7, <1>8, <1>9 DEF Served
<1>11. QED
  BY <1>1, <1>3, <1>4, <1>10, LoopKeeps, PingTyped

\* The connection the parent forks for is new to everybody else.
LEMMA ForkedIsNew ==
  ASSUME PingNow, ppc = "fork"
  PROVE  /\ cur \in PingClients /\ Ponger.accepts = "fork" /\ cur \in holds[Parent]
         /\ wpc[cur] = "none" /\ cur \notin orphans /\ cur \notin Range(queued)
         /\ cpc[cur] \notin {"absent", "start"} /\ Stream
<1>1. Served
  BY DEF PingNow, PingIInv
<1>2. /\ cur \in PingClients /\ Ponger.accepts = "fork" /\ cur \in holds[Parent]
      /\ wpc[cur] = "none" /\ cur \notin orphans
  BY <1>1 DEF Served, AtWork
<1>3. ~Untouched(cur)
  <2>1. Parent \in DOMAIN holds
    BY PingTyped
  <2>2. QED
    BY <1>2, <2>1 DEF Untouched
<1>4. cur \notin Range(queued) /\ cpc[cur] \notin {"absent", "start"}
  BY <1>1, <1>2, <1>3 DEF Served, NewOnes, Queue
<1>5. QED
  BY <1>2, <1>4 DEF Stream

\* The types after a step of the server process.
LEMMA ParentTyped ==
  ASSUME PingNow, Served', UNCHANGED <<pair, sigio, client, pings, pongs, inbox, queued, cur>>,
         wpc' \in [PingClients -> Phases], wtodo' \in [PingClients -> 0 .. 4],
         ppc' \in {"accept", "close"}, nwc_hdr' \in Seq(PingClients),
         holds' \in [PingClients \cup {Parent} -> SUBSET PingClients]
  PROVE  PingIInv'
<1>1. Ponger' = Ponger /\ Stream' = Stream /\ MessageSize' = MessageSize
      /\ LoopCount' = LoopCount
      /\ Endless' = Endless
  BY PingRunStays
<1>2. PingRounds'
  BY <1>1 DEF PingNow, PingIInv, PingRounds, client
<1>3. PingTypes'
  BY <1>1 DEF PingNow, PingIInv, PingTypes, PingTypeOK, client, Phases, PongLen
<1>4. QED
  BY <1>2, <1>3 DEF PingIInv

LEMMA ForkStep ==
  ASSUME PingNow, Fork
  PROVE  PingIInv'
<1>1. /\ UNCHANGED <<pair, sigio, client, pings, pongs, inbox, queued, cur, nwc_hdr, lost, orphans>>
      /\ ppc = "fork" /\ ppc' = "close" /\ holds' = [holds EXCEPT ![cur] = holds[Parent]]
      /\ StartServing(cur)
  BY DEF Fork
<1>2. /\ cur \in PingClients /\ Ponger.accepts = "fork" /\ cur \in holds[Parent]
      /\ wpc[cur] = "none" /\ cur \notin orphans /\ cur \notin Range(queued)
      /\ cpc[cur] \notin {"absent", "start"} /\ Stream
  BY <1>1, ForkedIsNew
<1>3. Ponger' = Ponger /\ Stream' = Stream /\ cpc' = cpc
  BY <1>1, PingRunStays DEF client
<1>4. Served /\ Parent \notin PingClients
  BY DEF PingNow, PingIInv, PingKnown
<1>5. /\ wpc' \in [PingClients -> Phases] /\ wpc'[cur] \in {"recv", "send"}
      /\ wtodo' \in [PingClients -> 0 .. 4]
      /\ \A d \in PingClients : d # cur => wpc'[d] = wpc[d]
  <2>1. wpc \in [PingClients -> Phases] /\ wtodo \in [PingClients -> 0 .. 4]
    BY PingTyped
  <2>2. PICK x \in {"recv", "send"} : wpc' = [wpc EXCEPT ![cur] = x]
    BY <1>1 DEF StartServing
  <2>3. wtodo' = [wtodo EXCEPT ![cur] = 4]
    BY <1>1 DEF StartServing, PongLen
  <2>4. QED
    BY <1>2, <2>1, <2>2, <2>3 DEF Phases
<1>6. /\ holds' \in [PingClients \cup {Parent} -> SUBSET PingClients]
      /\ DOMAIN holds' = PingClients \cup {Parent} /\ DOMAIN holds = PingClients \cup {Parent}
      /\ holds'[cur] = holds[Parent] /\ holds'[Parent] = holds[Parent]
      /\ \A d \in PingClients : d # cur => holds'[d] = holds[d]
  BY <1>1, <1>2, <1>4, PingTyped
<1>7. ASSUME NEW d \in PingClients, d # cur, Untouched(d) PROVE Untouched(d)'
  BY <1>1, <1>5, <1>6, <1>7 DEF Untouched
<1>8. NewOnes'
  BY <1>1, <1>2, <1>3, <1>4, <1>7 DEF Served, NewOnes
<1>9. Queue'
  <2>1. Range(queued) \subseteq PingClients
    <3>1. queued \in Seq(PingClients)
      BY PingTyped
    <3>2. QED
      BY <3>1 DEF Range
  <2>2. \A d \in Range(queued) : Untouched(d)'
    BY <1>2, <1>4, <1>7, <2>1 DEF Served, Queue
  <2>3. QED
    BY <1>1, <1>4, <2>2 DEF Served, Queue
<1>10. Unserved'
  BY <1>1, <1>2, <1>4, <1>5 DEF Served, Unserved
<1>11. Children'
  <2>1. holds[Parent] \subseteq orphans \cup {cur}
    BY <1>1, <1>4 DEF Served, TheParent
  <2>2. QED
    BY <1>1, <1>4, <1>5, <1>6, <2>1 DEF Served, Children
<1>12. TheParent'
  BY <1>1, <1>4, <1>6 DEF Served, TheParent
<1>13. AtWork'
  BY <1>1, <1>2, <1>3 DEF AtWork
<1>14. Served'
  BY <1>8, <1>9, <1>10, <1>11, <1>12, <1>13 DEF Served
<1>15. QED
  BY <1>1, <1>5, <1>6, <1>14, ParentTyped, PingTyped

\* The parent is done with a connection: it has closed it, or leaked it.
LEMMA BackToAccept ==
  ASSUME PingNow, UNCHANGED <<pair, sigio, client, pings, pongs, inbox, queued, cur, worker>>,
         ppc \in {"fork", "close"}, ppc' = "accept", nwc_hdr' \in Seq(PingClients),
         holds' \in {holds, [holds EXCEPT ![Parent] = @ \ {cur}]},
         \/ orphans' = orphans /\ holds' # holds
         \/ orphans' = orphans /\ cur \notin holds[Parent]
         \/ ppc = "fork" /\ orphans' = orphans \cup {cur}
  PROVE  PingIInv'
<1>1. Ponger' = Ponger /\ Stream' = Stream /\ cpc' = cpc /\ wpc' = wpc /\ wtodo' = wtodo
  BY PingRunStays DEF client, worker
<1>2. Served /\ Parent \notin PingClients
  BY DEF PingNow, PingIInv, PingKnown
<1>3. cur \in PingClients /\ Ponger.accepts = "fork" /\ Stream
  BY <1>2 DEF Served, AtWork, Stream
<1>4. /\ holds' \in [PingClients \cup {Parent} -> SUBSET PingClients]
      /\ DOMAIN holds' = PingClients \cup {Parent} /\ DOMAIN holds = PingClients \cup {Parent}
      /\ holds'[Parent] \subseteq holds[Parent] /\ \A d \in PingClients : holds'[d] = holds[d]
  <2>1. holds \in [PingClients \cup {Parent} -> SUBSET PingClients]
    BY PingTyped
  <2>2. CASE holds' = holds
    BY <2>1, <2>2
  <2>3. CASE holds' = [holds EXCEPT ![Parent] = @ \ {cur}]
    <3>1. holds[Parent] \ {cur} \in SUBSET PingClients
      BY <2>1
    <3>2. QED
      BY <1>2, <2>1, <2>3, <3>1
  <2>4. QED
    BY <2>2, <2>3
<1>5. ASSUME NEW d \in PingClients, Untouched(d) PROVE Untouched(d)'
  <2>1. d \notin orphans'
    <3>1. CASE ppc = "fork" /\ orphans' = orphans \cup {cur}
      <4>1. cur \in holds[Parent] /\ Parent \in DOMAIN holds
        BY <1>4, <3>1, ForkedIsNew
      <4>2. QED
        BY <1>5, <3>1, <4>1 DEF Untouched
    <3>2. QED
      BY <1>5, <3>1 DEF Untouched
  <2>2. QED
    BY <1>1, <1>4, <1>5, <2>1 DEF Untouched
<1>6. NewOnes'
  BY <1>1, <1>2, <1>5 DEF Served, NewOnes
<1>7. Queue'
  <2>1. Range(queued) \subseteq PingClients
    <3>1. queued \in Seq(PingClients)
      BY PingTyped
    <3>2. QED
      BY <3>1 DEF Range
  <2>2. QED
    BY <1>2, <1>5, <2>1 DEF Served, Queue
<1>8. Unserved'
  <2>1. ppc = "fork" => wpc[cur] = "none"
    BY ForkedIsNew
  <2>2. QED
    BY <1>1, <1>2, <1>3, <2>1 DEF Served, Unserved
<1>9. Children'
  BY <1>1, <1>2, <1>4 DEF Served, Children
<1>10. TheParent'
  <2>1. holds[Parent] \subseteq orphans \cup {cur}
    BY <1>2 DEF Served, TheParent
  <2>2. cur \in orphans' \/ cur \notin holds'[Parent]
    <3>1. holds' # holds => cur \notin holds'[Parent]
      BY PingTyped
    <3>2. QED
      BY <1>4, <3>1
  <2>3. orphans \subseteq orphans'
    OBVIOUS
  <2>4. QED
    BY <1>4, <2>1, <2>2, <2>3 DEF TheParent
<1>11. AtWork'
  <2>1. Ponger'.accepts # "one" /\ Stream'
    BY <1>1, <1>3
  <2>2. QED
    BY <2>1 DEF AtWork
<1>12. Served'
  BY <1>6, <1>7, <1>8, <1>9, <1>10, <1>11 DEF Served
<1>13. QED
  BY <1>1, <1>4, <1>12, ParentTyped, PingTyped

LEMMA ParentClosesStep ==
  ASSUME PingNow, ParentCloses
  PROVE  PingIInv'
<1>1. /\ UNCHANGED <<pair, sigio, client, pings, pongs, inbox, queued, cur, worker, lost, orphans>>
      /\ ppc = "close" /\ ppc' = "accept" /\ holds' = [holds EXCEPT ![Parent] = @ \ {cur}]
      /\ nwc_hdr' \in {nwc_hdr, Append(nwc_hdr, cur)}
  BY DEF ParentCloses
<1>2. cur \in PingClients /\ nwc_hdr \in Seq(PingClients)
  <2>1. Served
    BY DEF PingNow, PingIInv
  <2>2. QED
    BY <1>1, <2>1, PingTyped DEF Served, AtWork
<1>3. nwc_hdr' \in Seq(PingClients)
  BY <1>1, <1>2
<1>4. holds' # holds \/ cur \notin holds[Parent]
  BY <1>1, PingTyped
<1>5. QED
  BY <1>1, <1>3, <1>4, BackToAccept

LEMMA ForkFailsStep ==
  ASSUME PingNow, ForkFails
  PROVE  PingIInv'
<1>1. /\ UNCHANGED <<pair, sigio, client, pings, pongs, inbox, queued, cur, worker, nwc_hdr, lost>>
      /\ ppc = "fork" /\ ppc' = "accept" /\ orphans' = orphans \cup {cur}
      /\ holds' \in {holds, [holds EXCEPT ![Parent] = @ \ {cur}]}
  BY DEF ForkFails
<1>2. QED
  BY <1>1, BackToAccept, PingTyped

-----------------------------------------------------------------------------
(* The datagram servers, and the signal-driven one                           *)

LEMMA DatagramKeeps ==
  ASSUME PingNow, ~Stream, UNCHANGED <<pair, client, pings, queued, worker, holds, orphans>>,
         ppc' \in {"recv", "send", "exited", "async", "suspend", "walk"},
         cur' \in PingClients \cup {NoClient}, ppc' = "send" => cur' \in PingClients,
         nwc_hdr' \in Seq(PingClients), ppc' = "walk" => nwc_hdr' # <<>>,
         inbox' \in Seq(PingClients), Len(inbox') <= Datagrams,
         pongs' \in [PingClients -> 0 .. IF Stream THEN PingCap ELSE Datagrams],
         sigio' \in [async : BOOLEAN, pending : BOOLEAN, early : SUBSET PingClients, open : BOOLEAN]
  PROVE  PingIInv'
<1>1. Ponger' = Ponger /\ Stream' = Stream /\ MessageSize' = MessageSize
      /\ LoopCount' = LoopCount
      /\ Endless' = Endless /\ cpc' = cpc /\ wpc' = wpc
  BY PingRunStays DEF client, worker
<1>2. Served
  BY DEF PingNow, PingIInv
<1>3. ppc \notin {"fork", "close", "serve"}
  BY <1>2 DEF Served, AtWork, Stream
<1>4. NewOnes' /\ Queue' /\ Unserved' /\ Children'
  BY <1>1, <1>2 DEF Served, NewOnes, Queue, Untouched, Unserved, Children
<1>5. TheParent'
  BY <1>2, <1>3 DEF Served, TheParent
<1>6. AtWork'
  <2>1. Ponger'.accepts # "one" /\ ~Stream'
    BY <1>1 DEF Stream
  <2>2. queued' = <<>> /\ \A c \in PingClients : wpc'[c] = "none"
    BY <1>1, <1>2 DEF Served, AtWork
  <2>3. QED
    BY <2>1, <2>2 DEF AtWork
<1>7. PingRounds'
  BY <1>1 DEF PingNow, PingIInv, PingRounds, client
<1>8. PingTypes'
  BY <1>1 DEF PingNow, PingIInv, PingTypes, PingTypeOK, client, worker
<1>9. QED
  BY <1>4, <1>5, <1>6, <1>7, <1>8 DEF PingIInv, Served

LEMMA NoStream ==
  ASSUME PingNow, ppc \notin {"accept", "fork", "close", "serve", "exited"}
  PROVE  ~Stream
BY DEF PingNow, PingIInv, Served, AtWork

\* The first of a list, and what is left.
LEMMA First ==
  ASSUME NEW s \in Seq(PingClients), s # <<>>
  PROVE  Head(s) \in PingClients /\ Tail(s) \in Seq(PingClients) /\ Len(Tail(s)) = Len(s) - 1
BY HeadTailProperties

LEMMA Recorded ==
  ASSUME PingNow, NEW c \in PingClients, Record(c) \/ UNCHANGED nwc_hdr
  PROVE  nwc_hdr' \in Seq(PingClients)
<1>1. nwc_hdr \in Seq(PingClients)
  BY PingTyped
<1>2. nwc_hdr' \in {nwc_hdr, Append(nwc_hdr, c)}
  BY DEF Record
<1>3. QED
  BY <1>1, <1>2

LEMMA ServerRecvFromStep ==
  ASSUME PingNow, ServerRecvFrom
  PROVE  PingIInv'
<1>1. /\ UNCHANGED <<pair, sigio, client, pings, pongs, queued, worker, holds, lost, orphans>>
      /\ ppc = "recv" /\ inbox # <<>> /\ cur' = Head(inbox) /\ inbox' = Tail(inbox)
      /\ ppc' \in {"recv", "send"} /\ (Record(cur') \/ UNCHANGED nwc_hdr)
  BY DEF ServerRecvFrom
<1>2. inbox \in Seq(PingClients) /\ Len(inbox) <= Datagrams /\ Datagrams \in Nat
  BY PingTyped DEF PingNow, PingKnown
<1>3. cur' \in PingClients /\ inbox' \in Seq(PingClients) /\ Len(inbox') = Len(inbox) - 1
  BY <1>1, <1>2, First
<1>4. Len(inbox') <= Datagrams
  BY <1>2, <1>3
<1>5. nwc_hdr' \in Seq(PingClients)
  BY <1>1, <1>3, Recorded
<1>6. ~Stream
  BY <1>1, NoStream
<1>7. QED
  BY <1>1, <1>3, <1>4, <1>5, <1>6, DatagramKeeps, PingTyped

LEMMA SendToKnown ==
  ASSUME PingNow, ppc = "send"
  PROVE  cur \in PingClients
BY DEF PingNow, PingIInv, Served, AtWork

LEMMA ServerSendToStep ==
  ASSUME PingNow, ServerSendTo
  PROVE  PingIInv'
<1>1. /\ UNCHANGED <<pair, sigio, client, pings, inbox, queued, cur, worker, holds, orphans>>
      /\ ppc = "send" /\ ppc' = "recv"
  BY DEF ServerSendTo
<1>2. cur \in PingClients /\ ~Stream
  BY <1>1, NoStream, SendToKnown
<1>3. ({cur} \cup Members(Parent)) \in SUBSET PingClients
  BY <1>2 DEF Members
<1>4. PICK copies \in [{cur} \cup Members(Parent) -> Copies] :
        Deliver(copies) /\ (Record(cur) \/ UNCHANGED nwc_hdr)
  BY DEF ServerSendTo
<1>5. pongs' \in [PingClients -> 0 .. IF Stream THEN PingCap ELSE Datagrams]
  <2>1. copies \in [{cur} \cup Members(Parent) -> Copies \cup {0}]
    BY <1>4
  <2>2. QED
    BY <1>2, <1>3, <1>4, <2>1, Fits
<1>6. nwc_hdr' \in Seq(PingClients)
  BY <1>2, <1>4, Recorded
<1>7. QED
  BY <1>1, <1>2, <1>5, <1>6, DatagramKeeps, PingTyped

LEMMA ServerSendToGoneStep ==
  ASSUME PingNow, ServerSendToGone
  PROVE  PingIInv'
<1>1. /\ UNCHANGED <<pair, sigio, client, pings, pongs, inbox, queued, cur, worker, holds, nwc_hdr, lost,
                     orphans>>
      /\ ppc = "send" /\ ppc' = "recv"
  BY DEF ServerSendToGone
<1>2. QED
  BY <1>1, NoStream, DatagramKeeps, PingTyped

LEMMA ServerThrowsStep ==
  ASSUME PingNow, ServerThrows
  PROVE  PingIInv'
<1>1. /\ UNCHANGED <<pair, sigio, client, pings, pongs, queued, cur, worker, holds, nwc_hdr, lost,
                     orphans>>
      /\ ppc \in {"recv", "send"} /\ ppc' = "exited" /\ inbox' = <<>>
  BY DEF ServerThrows
<1>2. inbox' \in Seq(PingClients) /\ Len(inbox') <= Datagrams
  BY <1>1 DEF PingNow, PingKnown
<1>3. QED
  BY <1>1, <1>2, NoStream, DatagramKeeps, PingTyped

LEMMA StartupStep ==
  ASSUME PingNow, SetAsync \/ BlockSigio
  PROVE  PingIInv'
<1>1. /\ UNCHANGED <<pair, client, pings, pongs, inbox, queued, cur, worker, holds, nwc_hdr, lost,
                     orphans>>
      /\ ppc \in {"startup", "async"}
      /\ ppc' = "async" \/ ppc' = IF nwc_hdr = <<>> THEN "suspend" ELSE "walk"
      /\ sigio' = sigio \/ sigio' = [sigio EXCEPT !.async = TRUE]
  BY DEF SetAsync, BlockSigio, LoopTop
<1>2. sigio' \in [async : BOOLEAN, pending : BOOLEAN, early : SUBSET PingClients, open : BOOLEAN]
  BY <1>1, PingTyped
<1>3. QED
  BY <1>1, <1>2, NoStream, DatagramKeeps, PingTyped

LEMMA SigioHandlerStep ==
  ASSUME PingNow, SigioHandler
  PROVE  PingIInv'
<1>1. /\ UNCHANGED <<pair, client, pings, pongs, queued, cur, worker, holds, lost, orphans>>
      /\ ppc \in {"async", "suspend"} /\ free_nwc_conn([sigio EXCEPT !.pending = FALSE], <<>>)
      /\ nwc_hdr' = nwc_hdr \o inbox /\ inbox' = <<>>
      /\ ppc' = "async" \/ ppc' = IF nwc_hdr' = <<>> THEN "suspend" ELSE "walk"
  BY DEF SigioHandler, LoopTop, free_nwc_conn
<1>2. sigio' \in [async : BOOLEAN, pending : BOOLEAN, early : SUBSET PingClients, open : BOOLEAN]
  BY <1>1, PingTyped DEF free_nwc_conn
<1>3. nwc_hdr' \in Seq(PingClients)
  <2>1. nwc_hdr \in Seq(PingClients) /\ inbox \in Seq(PingClients)
    BY PingTyped
  <2>2. QED
    BY <1>1, <2>1, ConcatProperties
<1>4. inbox' \in Seq(PingClients) /\ Len(inbox') <= Datagrams
  BY <1>1 DEF PingNow, PingKnown
<1>5. QED
  BY <1>1, <1>2, <1>3, <1>4, NoStream, DatagramKeeps, PingTyped

LEMMA WalkSendStep ==
  ASSUME PingNow, WalkSend
  PROVE  PingIInv'
<1>1. /\ UNCHANGED <<pair, client, pings, queued, cur, worker, holds, orphans>>
      /\ ppc = "walk" /\ nwc_hdr' = Tail(nwc_hdr) /\ free_nwc_conn(sigio, inbox)
      /\ ppc' = IF nwc_hdr' = <<>> THEN "suspend" ELSE "walk"
  BY DEF WalkSend, LoopTop
<1>2. nwc_hdr \in Seq(PingClients) /\ nwc_hdr # <<>>
  <2>1. Served
    BY DEF PingNow, PingIInv
  <2>2. QED
    BY <1>1, <2>1, PingTyped DEF Served, AtWork
<1>3. Head(nwc_hdr) \in PingClients /\ nwc_hdr' \in Seq(PingClients)
  BY <1>1, <1>2, First
<1>4. PICK c \in PingClients, k \in Copies \cup {0} : Deliver([d \in {c} |-> k])
  BY <1>3 DEF WalkSend
<1>5. pongs' \in [PingClients -> 0 .. IF Stream THEN PingCap ELSE Datagrams]
  <2>1. [d \in {c} |-> k] \in [{c} -> Copies \cup {0}] /\ {c} \in SUBSET PingClients
    OBVIOUS
  <2>2. QED
    BY <1>1, <1>4, <2>1, Fits, NoStream
<1>6. /\ inbox' \in Seq(PingClients) /\ Len(inbox') <= Datagrams
      /\ sigio' \in [async : BOOLEAN, pending : BOOLEAN, early : SUBSET PingClients, open : BOOLEAN]
  <2>1. (sigio' = sigio /\ inbox' = inbox) \/ (sigio' = [sigio EXCEPT !.open = FALSE] /\ inbox' = <<>>)
    BY <1>1 DEF free_nwc_conn
  <2>2. QED
    <3>1. CASE sigio' = sigio /\ inbox' = inbox
      BY <3>1, PingTyped
    <3>2. CASE sigio' = [sigio EXCEPT !.open = FALSE] /\ inbox' = <<>>
      <4>1. inbox' \in Seq(PingClients) /\ Len(inbox') <= Datagrams
        BY <3>2 DEF PingNow, PingKnown
      <4>2. QED
        BY <3>2, <4>1, PingTyped
    <3>3. QED
      BY <2>1, <3>1, <3>2
<1>7. QED
  BY <1>1, <1>3, <1>5, <1>6, NoStream, DatagramKeeps, PingTyped

-----------------------------------------------------------------------------
(* The theorems                                                              *)

LEMMA PingInitHolds == ASSUME PingInit PROVE PingIInv
<1>1. pair \in PingScenarios
  BY DEF PingInit
<1>2. PingKnown
  BY <1>1, PingRunKnown
<1>3. /\ cpc = [c \in PingClients |-> IF c \in pair.clients THEN "start" ELSE "absent"]
      /\ ctodo = [c \in PingClients |-> MessageSize] /\ loops = [c \in PingClients |-> LoopCount]
      /\ pings = [c \in PingClients |-> 0] /\ pongs = [c \in PingClients |-> 0]
      /\ wpc = [c \in PingClients |-> "none"] /\ wtodo = [c \in PingClients |-> 0]
      /\ holds = [p \in PingClients \cup {Parent} |-> {}]
      /\ inbox = <<>> /\ queued = <<>> /\ nwc_hdr = <<>> /\ orphans = {} /\ cur = NoClient
      /\ sigio = [async |-> FALSE, pending |-> FALSE, early |-> {}, open |-> TRUE]
  BY DEF PingInit
<1>4. (ppc = "accept" /\ Stream) \/ (ppc \in {"recv", "startup"} /\ ~Stream)
  <2>1. CASE Stream
    <3>1. Ponger.accepts # "none" /\ Ponger.accepts # "signal"
      BY <2>1 DEF Stream
    <3>2. ppc = "accept"
      BY <2>1, <3>1 DEF PingInit
    <3>3. QED
      BY <2>1, <3>2
  <2>2. CASE ~Stream
    <3>1. Ponger.accepts \in {"none", "signal"}
      BY <1>2, <2>2 DEF PingKnown, Stream
    <3>2. ppc \in {"recv", "startup"}
      BY <2>2, <3>1 DEF PingInit
    <3>3. QED
      BY <2>2, <3>2
  <2>3. QED
    BY <2>1, <2>2
<1>5. PingTypes
  <2>1. ctodo \in [PingClients -> 1 .. MessageSize] /\ loops \in [PingClients -> 0 .. LoopCount]
    BY <1>2, <1>3 DEF PingKnown
  <2>2. pings \in [PingClients -> 0 .. PingCap] /\ pongs \in [PingClients -> 0 .. IF Stream THEN PingCap ELSE Datagrams]
    BY <1>2, <1>3 DEF PingKnown
  <2>3. cpc \in [PingClients -> {"absent", "start", "send", "recv", "done", "failed"}]
        /\ wpc \in [PingClients -> {"none", "recv", "send", "exited"}] /\ wtodo \in [PingClients -> 0 .. PongLen]
    BY <1>3 DEF PongLen
  <2>4. inbox \in Seq(PingClients) /\ Len(inbox) <= Datagrams /\ queued \in Seq(PingClients)
        /\ nwc_hdr \in Seq(PingClients)
    BY <1>2, <1>3 DEF PingKnown
  <2>5. sigio \in [async : BOOLEAN, pending : BOOLEAN, early : SUBSET PingClients, open : BOOLEAN]
        /\ holds \in [PingClients \cup {Parent} -> SUBSET PingClients] /\ cur \in PingClients \cup {NoClient}
    BY <1>3
  <2>6. QED
    BY <1>1, <1>4, <2>1, <2>2, <2>3, <2>4, <2>5 DEF PingTypes, PingTypeOK
<1>6. PingRounds
  BY <1>2, <1>3 DEF PingRounds, PingKnown
<1>7. Range(queued) = {} /\ Len(queued) = 0
  BY <1>3 DEF Range
<1>8. NewOnes /\ Queue /\ Unserved /\ Children /\ TheParent
  <2>1. \A c \in PingClients : Untouched(c)
    BY <1>3 DEF Untouched
  <2>2. NewOnes /\ Queue
    BY <1>7, <2>1 DEF NewOnes, Queue
  <2>3. Unserved /\ Children /\ TheParent
    BY <1>3 DEF Unserved, Children, TheParent
  <2>4. QED
    BY <2>2, <2>3
<1>9. AtWork
  BY <1>3, <1>4 DEF AtWork, Serving
<1>10. QED
  BY <1>5, <1>6, <1>8, <1>9 DEF PingIInv, Served

LEMMA StutterHolds == ASSUME PingIInv, UNCHANGED pingVars PROVE PingIInv'
<1>1. Ponger' = Ponger /\ Stream' = Stream /\ MessageSize' = MessageSize
      /\ LoopCount' = LoopCount
      /\ Endless' = Endless
  BY PingRunStays DEF pingVars
<1>2. PingTypes' /\ PingRounds'
  BY <1>1 DEF PingIInv, PingTypes, PingTypeOK, PingRounds, pingVars, worker
<1>3. NewOnes' /\ Queue' /\ Unserved' /\ Children' /\ TheParent'
  BY DEF PingIInv, Served, NewOnes, Queue, Untouched, Unserved, Children, TheParent, pingVars,
     worker
<1>4. AtWork'
  BY <1>1 DEF PingIInv, Served, AtWork, Serving, pingVars, worker
<1>5. QED
  BY <1>2, <1>3, <1>4 DEF PingIInv, Served

LEMMA PingStepHolds == ASSUME PingIInv, [PingNext]_pingVars PROVE PingIInv'
<1>1. PingNow
  BY PingRunKnown DEF PingNow, PingIInv, PingTypes
<1>2. ASSUME NEW c \in PingClients, PingClientStep(c) \/ ClientError(c) PROVE PingIInv'
  BY <1>1, <1>2, PingConnectStep, PingClientSendStep, ClientSendClosedStep, ClientSendToStep,
     PingClientRecvStep, ClientEndStep DEF PingClientStep
<1>3. ASSUME NEW c \in PingClients, WorkerStep(c) \/ WorkerError(c) PROVE PingIInv'
  BY <1>1, <1>3, WorkerRecvStep, WorkerSendStep, WorkerEndStep DEF WorkerStep
<1>4. ASSUME PingServerStep PROVE PingIInv'
  BY <1>1, <1>4, PingAcceptStep, ForkStep, ParentClosesStep, ForkFailsStep, ServerRecvFromStep,
     ServerSendToStep, ServerSendToGoneStep, StartupStep, SigioHandlerStep, WalkSendStep
     DEF PingServerStep
<1>5. QED
  BY <1>1, <1>2, <1>3, <1>4, AcceptErrorStep, ServerThrowsStep, StutterHolds DEF PingNext

(* The variables keep their types, a connection is accepted once and by      *)
(* nobody before its connect, and a descriptor of it is open in its own       *)
(* child and in the parent that deals with it, or it has leaked because its   *)
(* fork failed, and then nobody serves it: in every lesson, for any clients,  *)
(* buffers and command lines.                                                *)
THEOREM PingInvariance == PingSpec => []PingIInv
<1>1. PingInit => PingIInv
  BY PingInitHolds
<1>2. PingIInv /\ [PingNext]_pingVars => PingIInv'
  BY PingStepHolds
<1>3. QED
  BY <1>1, <1>2, PTL DEF PingSpec

LEMMA ClosedForGood == ASSUME PingIInv PROVE PeerSeesTheClose
<1>1. PingTypeOK
  BY DEF PingIInv, PingTypes
<1>2. PingNow
  BY PingRunKnown DEF PingNow, PingIInv, PingTypes
<1>3. ASSUME NEW c \in PingClients, wpc[c] = "exited", ~(ppc = "close" /\ cur = c),
             NEW p \in DOMAIN holds
      PROVE  c \notin holds[p]
  <2>1. p \in PingClients \cup {Parent}
    BY <1>2, PingTyped
  <2>2. c \notin orphans /\ holds[c] = {}
    BY <1>3 DEF PingIInv, Served, Unserved, Children
  <2>3. CASE p \in PingClients
    BY <2>2, <2>3 DEF PingIInv, Served, Children
  <2>4. CASE p = Parent
    <3>1. ~(ppc = "fork" /\ cur = c) /\ ~(ppc = "serve" /\ cur = c)
      BY <1>3 DEF PingIInv, Served, AtWork, Serving
    <3>2. QED
      BY <1>3, <2>2, <2>4, <3>1 DEF PingIInv, Served, TheParent
  <2>5. QED
    BY <2>1, <2>3, <2>4
<1>4. QED
  BY <1>1, <1>3 DEF PeerSeesTheClose

(* When the process that served a connection has ended and the parent is past *)
(* its close, no process has a descriptor of it: the client sees the end.     *)
THEOREM NobodyHidesTheEnd == PingSpec => []PeerSeesTheClose
<1>1. PingIInv => PeerSeesTheClose
  BY ClosedForGood
<1>2. QED
  BY <1>1, PingInvariance, PTL

=============================================================================
