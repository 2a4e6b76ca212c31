----------------------------- MODULE JavaProofs -----------------------------
(***************************************************************************)
(* The programs of java_netprogramming.  JavaNetwork, for any number of    *)
(* threads, users, handlers and scenarios: the types of the variables come *)
(* first, a group of handlers at a time; then the index of the pool and    *)
(* the reasons for which a thread dies.  JavaStreams follows, for any      *)
(* clients, lengths and rounds.                                            *)
(***************************************************************************)
EXTENDS JavaNetwork, JavaStreams, Integers, FiniteSetTheorems, TLAPS

UserPlaces == {"absent", "idle", "read", "indexed", "modulo", "got", "offered", "up", "failed"}

PoolTypes ==
  /\ run \in Scenarios /\ started \in 0 .. thr_num
  /\ cur_index \in Nat /\ uidx \in [Users -> Nat] /\ umod \in [Users -> Nat]
  /\ upc \in [Users -> UserPlaces] /\ overlapped \in BOOLEAN /\ calls \in Nat
  /\ \A u \in Users : upc[u] \in {"indexed", "modulo"} => uidx[u] < thr_num

ThreadTypes ==
  /\ dpc \in {"idle", "stopped", "join", "next", "failed", "done"}
  /\ dnext \in 0 .. MaxThreads
  /\ dpc \in {"stopped", "join"} => dnext < thr_num
  /\ wpc \in [Threads -> {"none", "check", "dispatch", "select", "handle", "exited", "dead"}]
  /\ stop_ \in [Threads -> BOOLEAN] /\ wake \in [Threads -> BOOLEAN]
  /\ listener \in [Threads -> Seq(Listeners)]

Channels == {"none", "listening", "connecting", "established", "refused", "connected", "closed"}
Keys == {"none", "valid", "cancelled"}

HandlerTypes ==
  /\ thr \in [Handlers -> 0 .. MaxThreads]
  /\ chan \in [Handlers -> Channels] /\ key \in [Handlers -> Keys]
  /\ interest \in [Handlers -> SUBSET Ops] /\ seen \in [Handlers -> SUBSET Ops]
  /\ ready \in [Handlers -> SUBSET Ops]
  /\ adapterless \subseteq Accepted /\ misused \subseteq Handlers
  /\ restarted \subseteq Listeners /\ thrown \subseteq Threads

PeerTypes ==
  /\ inbox \in [Handlers -> BOOLEAN] /\ eof \in [Handlers -> BOOLEAN]
  /\ backlog \in [Handlers -> 0 .. Cardinality(Accepted)]
  /\ reset \subseteq Handlers /\ traffic \in 0 .. run.traffic

Types == PoolTypes /\ ThreadTypes /\ HandlerTypes /\ PeerTypes

LEMMA Sizes ==
  ASSUME run \in Scenarios
  PROVE  /\ run.threads \in 1 .. MaxThreads /\ run.traffic \in Nat /\ run.users \subseteq Users
         /\ MaxThreads \in Nat \ {0} /\ Cardinality(Accepted) \in Nat
         /\ Listeners \subseteq Users /\ Users \cap Accepted = {} /\ Handlers = Users \cup Accepted
  BY ParametersAssumption, FS_CardinalityType DEF Handlers

LEMMA InitTypes == Init => Types
<1> SUFFICES ASSUME Init PROVE Types
  OBVIOUS
<1>1. run \in Scenarios
  BY DEF Init
<1> USE <1>1, Sizes
<1>2. PoolTypes
  BY DEF Init, PoolTypes, UserPlaces, thr_num
<1>3. ThreadTypes
  BY DEF Init, ThreadTypes, Threads
<1>4. HandlerTypes
  BY DEF Init, HandlerTypes, Channels, Keys
<1>5. PeerTypes
  BY DEF Init, PeerTypes
<1>6. QED
  BY <1>2, <1>3, <1>4, <1>5 DEF Types

\* getIOThread.
LEMMA GetTypes ==
  ASSUME Types, NEW u \in Users,
         GetRead(u) \/ GetIncrement(u) \/ GetModRead(u) \/ GetModWrite(u)
  PROVE  Types'
<1>1. run \in Scenarios /\ run' = run /\ started' = started
  BY DEF Types, PoolTypes, GetRead, GetIncrement, GetModRead, GetModWrite
<1> USE <1>1, Sizes
<1>2. PoolTypes'
  <2>1. CASE GetRead(u)
    BY <2>1 DEF Types, PoolTypes, GetRead, UserPlaces, thr_num
  <2>2. CASE GetIncrement(u)
    BY <2>2 DEF Types, PoolTypes, GetIncrement, UserPlaces, thr_num
  <2>3. CASE GetModRead(u)
    BY <2>3 DEF Types, PoolTypes, GetModRead, UserPlaces, thr_num
  <2>4. CASE GetModWrite(u)
    <3>1. umod[u] % thr_num \in Nat
      BY DEF Types, PoolTypes, thr_num
    <3>2. QED
      BY <2>4, <3>1 DEF Types, PoolTypes, GetModWrite, UserPlaces, thr_num
  <2>5. QED
    BY <2>1, <2>2, <2>3, <2>4
<1>3. ThreadTypes'
  BY DEF Types, ThreadTypes, GetRead, GetIncrement, GetModRead, GetModWrite, manager, threads, thr_num
<1>4. PeerTypes'
  BY DEF Types, PeerTypes, GetRead, GetIncrement, GetModRead, GetModWrite, peer
<1>5. HandlerTypes'
  <2>1. CASE GetModWrite(u)
    BY <2>1 DEF Types, HandlerTypes, PoolTypes, GetModWrite, thr_num, history
  <2>2. CASE ~GetModWrite(u)
    BY <2>2 DEF Types, HandlerTypes, GetRead, GetIncrement, GetModRead, handler, history
  <2>3. QED
    BY <2>1, <2>2
<1>6. QED
  BY <1>2, <1>3, <1>4, <1>5 DEF Types

\* Starting a handler.
LEMMA StartTypes ==
  ASSUME Types, NEW u \in Users, AcceptorStart(u) \/ AcceptorRestart(u) \/ WakeUp(u) \/ Connect(u)
  PROVE  Types'
<1>1. run \in Scenarios /\ run' = run /\ started' = started
  BY DEF Types, PoolTypes, AcceptorStart, AcceptorRestart, WakeUp, Connect, UserGoes
<1> USE <1>1, Sizes
<1>2. PoolTypes'
  BY DEF Types, PoolTypes, AcceptorStart, AcceptorRestart, WakeUp, Connect, UserGoes, UserPlaces, thr_num
<1>3. ThreadTypes'
  <2>1. CASE AcceptorStart(u)
    <3>1. listener' \in [Threads -> Seq(Listeners)]
      <4>1. listener \in [Threads -> Seq(Listeners)] /\ u \in Listeners
        BY <2>1 DEF Types, ThreadTypes, AcceptorStart
      <4>2. CASE listener' = listener
        BY <4>1, <4>2
      <4>3. CASE Up(thr[u]) /\ listener' = [listener EXCEPT ![thr[u]] = Append(@, u)]
        <5>1. thr[u] \in Threads
          BY <4>3 DEF Types, HandlerTypes, PoolTypes, Up, Threads, thr_num
        <5>2. Append(listener[thr[u]], u) \in Seq(Listeners)
          BY <4>1, <5>1
        <5>3. QED
          BY <4>1, <4>3, <5>1, <5>2
      <4>4. QED
        BY <2>1, <4>2, <4>3 DEF AcceptorStart
    <3>2. QED
      BY <2>1, <3>1 DEF Types, ThreadTypes, AcceptorStart, UserGoes, manager, thr_num
  <2>2. CASE WakeUp(u) \/ Connect(u)
    BY <2>2 DEF Types, ThreadTypes, WakeUp, Connect, UserGoes, manager, threads, thr_num
  <2>3. CASE AcceptorRestart(u)
    <3>1. listener' \in [Threads -> Seq(Listeners)]
      <4>1. listener \in [Threads -> Seq(Listeners)] /\ u \in Listeners
            /\ listener' = [listener EXCEPT ![thr[u]] = Append(@, u)]
        BY <2>3 DEF Types, ThreadTypes, AcceptorRestart
      <4>2. CASE thr[u] \in Threads
        <5>1. Append(listener[thr[u]], u) \in Seq(Listeners)
          BY <4>1, <4>2
        <5>2. QED
          BY <4>1, <5>1
      <4>3. CASE thr[u] \notin Threads
        BY <4>1, <4>3
      <4>4. QED
        BY <4>2, <4>3
    <3>2. QED
      BY <2>3, <3>1 DEF Types, ThreadTypes, AcceptorRestart, UserGoes, manager, thr_num
  <2>4. QED
    BY <2>1, <2>2, <2>3
<1>4. PeerTypes'
  BY DEF Types, PeerTypes, AcceptorStart, AcceptorRestart, WakeUp, Connect, UserGoes, peer
<1>5. HandlerTypes'
  <2>1. CASE AcceptorStart(u)
    BY <2>1 DEF Types, HandlerTypes, AcceptorStart, Channels, history
  <2>2. CASE WakeUp(u)
    BY <2>2 DEF Types, HandlerTypes, WakeUp, handler, history
  <2>3. CASE Connect(u)
    BY <2>3 DEF Types, HandlerTypes, Connect, Channels, Keys, Ops, history
  <2>4. CASE AcceptorRestart(u)
    BY <2>4 DEF Types, HandlerTypes, AcceptorRestart, Channels
  <2>5. QED
    BY <2>1, <2>2, <2>3, <2>4
<1>6. QED
  BY <1>2, <1>3, <1>4, <1>5 DEF Types

\* A Worker, up to the keys.
LEMMA LoopTypes ==
  ASSUME Types, NEW t \in Threads,
         CheckStop(t) \/ DispatchListener(t) \/ EnterSelect(t) \/ SelectReturns(t)
  PROVE  Types'
<1>1. run \in Scenarios /\ UNCHANGED pool
  BY DEF Types, PoolTypes, CheckStop, DispatchListener, EnterSelect, SelectReturns
<1> USE <1>1, Sizes
<1>2. PoolTypes'
  BY DEF Types, PoolTypes, pool, thr_num
<1>3. ThreadTypes'
  <2>1. CASE DispatchListener(t)
    <3>1. Tail(listener[t]) \in Seq(Listeners)
      BY <2>1 DEF Types, ThreadTypes, DispatchListener
    <3>2. wpc' \in {wpc, [wpc EXCEPT ![t] = "dead"]}
      BY <2>1 DEF DispatchListener, WorkerGoes
    <3>3. QED
      BY <2>1, <3>1, <3>2 DEF Types, ThreadTypes, DispatchListener, manager, pool, thr_num
  <2>2. CASE ~DispatchListener(t)
    BY <2>2 DEF Types, ThreadTypes, CheckStop, EnterSelect, SelectReturns, WorkerGoes, manager,
                pool, thr_num
  <2>3. QED
    BY <2>1, <2>2
<1>4. PeerTypes'
  BY DEF Types, PeerTypes, CheckStop, DispatchListener, EnterSelect, SelectReturns, peer, pool
<1>5. HandlerTypes'
  <2>1. CASE DispatchListener(t)
    <3>1. Head(listener[t]) \in Handlers
      BY <2>1 DEF Types, ThreadTypes, DispatchListener
    <3> DEFINE g == Head(listener[t])
    <3>2. /\ \/ key' = key /\ interest' = interest
             \/ key' = [key EXCEPT ![g] = "valid"] /\ interest' = [interest EXCEPT ![g] = @ \cup {"ACCEPT"}]
          /\ UNCHANGED <<thr, chan, seen, ready, adapterless, misused, restarted, thrown>>
      BY <2>1 DEF DispatchListener, history
    <3> HIDE DEF g
    <3>3. key' \in [Handlers -> Keys] /\ interest' \in [Handlers -> SUBSET Ops]
      BY <3>2 DEF Types, HandlerTypes, Keys, Ops
    <3>4. QED
      BY <3>2, <3>3 DEF Types, HandlerTypes
  <2>2. CASE EnterSelect(t)
    BY <2>2 DEF Types, HandlerTypes, EnterSelect, history
  <2>3. CASE SelectReturns(t)
    <3>1. \A h \in Handlers : Fired(h) \in SUBSET Ops
      BY DEF Types, HandlerTypes, Fired, NetReady
    <3>2. QED
      BY <2>3, <3>1 DEF Types, HandlerTypes, SelectReturns, history
  <2>4. CASE CheckStop(t)
    BY <2>4 DEF Types, HandlerTypes, CheckStop, handler, history
  <2>5. QED
    BY <2>1, <2>2, <2>3, <2>4
<1>6. QED
  BY <1>2, <1>3, <1>4, <1>5 DEF Types

\* What the turn of a key does to the Worker.
LEMMA KeyThread ==
  ASSUME NEW t \in Threads, NEW h \in Handlers, HandleKey(t, h)
  PROVE  /\ wpc' \in {[wpc EXCEPT ![t] = "handle"], [wpc EXCEPT ![t] = "check"],
                      [wpc EXCEPT ![t] = "dead"]}
         /\ ready' \in {ready, [ready EXCEPT ![h] = {}]}
         /\ wpc[t] = "handle" /\ thr[h] = t /\ ready[h] # {}
BY DEF HandleKey, HandleCancelled, HandleAccept, HandleConnected, HandleRead, HandleWrite,
       NextKey, CloseThrows, Dies, WorkerGoes

\* A close() that throws in a callback.
LEMMA Throws ==
  ASSUME Types, NEW t \in Threads, CloseThrows(t)
  PROVE  /\ Dies(t) /\ thrown' = thrown \cup {t}
         /\ \E g \in Handlers :
              /\ key' = [key EXCEPT ![g] = IF @ = "valid" THEN "cancelled" ELSE @]
              /\ misused' = IF ready[g] # {} THEN misused \cup {g} ELSE misused
BY DEF CloseThrows, Cancelled, Misused, Handlers

LEMMA ThrowTypes ==
  ASSUME Types, NEW t \in Threads, CloseThrows(t)
  PROVE  key' \in [Handlers -> Keys] /\ misused' \subseteq Handlers /\ thrown' \subseteq Threads
BY Throws DEF Types, HandlerTypes, Keys

LEMMA KeyTypes ==
  ASSUME Types, NEW t \in Threads, NEW h \in Handlers, HandleKey(t, h)
  PROVE  Types'
<1>1. run \in Scenarios /\ UNCHANGED <<pool, manager, stop_, wake, listener, seen>>
  BY DEF Types, PoolTypes, HandleKey
<1> USE <1>1, Sizes
<1>2. PoolTypes'
  BY DEF Types, PoolTypes, pool, thr_num
<1>3. ThreadTypes'
  BY KeyThread DEF Types, ThreadTypes, manager, pool, thr_num
<1>4. ready' \in [Handlers -> SUBSET Ops]
  BY KeyThread DEF Types, HandlerTypes
<1>5. /\ run' = run /\ seen' = seen
  BY DEF pool
<1>6. HandlerTypes' /\ PeerTypes'
  <2>1. CASE HandleCancelled(t, h)
    BY <1>4, <1>5, <2>1 DEF Types, HandlerTypes, PeerTypes, HandleCancelled, peer, history
  <2>2. CASE HandleAccept(t, h)
    <3>1. backlog' \in [Handlers -> 0 .. Cardinality(Accepted)]
      BY <2>2 DEF Types, PeerTypes, HandleAccept
    <3>2. /\ thr' \in [Handlers -> 0 .. MaxThreads]
          /\ chan' \in [Handlers -> Channels] /\ key' \in [Handlers -> Keys]
          /\ interest' \in [Handlers -> SUBSET Ops] /\ adapterless' \subseteq Accepted
      BY <2>2 DEF Types, HandlerTypes, HandleAccept, Threads, Channels, Keys, Ops
    <3>3. QED
      BY <1>4, <1>5, <2>2, <3>1, <3>2 DEF Types, HandlerTypes, PeerTypes, HandleAccept, history
  <2>3. CASE HandleConnected(t, h)
    <3>1. chan' \in [Handlers -> Channels] /\ interest' \in [Handlers -> SUBSET Ops]
      BY <2>3 DEF Types, HandlerTypes, HandleConnected, Closed, Channels, Ops
    <3>2. key' \in [Handlers -> Keys] /\ misused' \subseteq Handlers /\ thrown' \subseteq Threads
          /\ restarted' = restarted
      BY <2>3, ThrowTypes DEF Types, HandlerTypes, HandleConnected, Closed, Cancelled, Misused, Keys, history
    <3>3. QED
      BY <1>4, <1>5, <2>3, <3>1, <3>2 DEF Types, HandlerTypes, PeerTypes, HandleConnected, peer
  <2>4. CASE HandleRead(t, h)
    <3>1. chan' \in [Handlers -> Channels] /\ inbox' \in [Handlers -> BOOLEAN]
      BY <2>4 DEF Types, HandlerTypes, PeerTypes, HandleRead, Closed, Channels
    <3>2. key' \in [Handlers -> Keys] /\ misused' \subseteq Handlers /\ thrown' \subseteq Threads
          /\ restarted' = restarted
      BY <2>4, ThrowTypes DEF Types, HandlerTypes, HandleRead, Closed, Cancelled, Keys, history
    <3>3. interest' \in [Handlers -> SUBSET Ops]
      <4>1. PICK ops \in {{}, {"WRITE"}} : interest' \in {interest, [interest EXCEPT ![h] = @ \cup ops]}
        BY <2>4 DEF HandleRead
      <4>2. QED
        BY <4>1 DEF Types, HandlerTypes, Ops
    <3>4. QED
      BY <1>4, <1>5, <2>4, <3>1, <3>2, <3>3 DEF Types, HandlerTypes, PeerTypes, HandleRead
  <2>5. CASE HandleWrite(t, h)
    <3>1. chan' \in [Handlers -> Channels] /\ interest' \in [Handlers -> SUBSET Ops]
      BY <2>5 DEF Types, HandlerTypes, HandleWrite, Closed, Channels
    <3>2. key' \in [Handlers -> Keys] /\ misused' \subseteq Handlers /\ thrown' \subseteq Threads
          /\ restarted' = restarted
      BY <2>5, ThrowTypes DEF Types, HandlerTypes, HandleWrite, Closed, Cancelled, Keys, history
    <3>3. QED
      BY <1>4, <1>5, <2>5, <3>1, <3>2 DEF Types, HandlerTypes, PeerTypes, HandleWrite, peer
  <2>6. QED
    BY <2>1, <2>2, <2>3, <2>4, <2>5 DEF HandleKey
<1>7. QED
  BY <1>2, <1>3, <1>6 DEF Types

\* The application closes, and the peers.
LEMMA OutsideTypes ==
  ASSUME Types, NEW h \in Handlers, AppCloses(h) \/ Peer(h)
  PROVE  Types'
<1>1. run \in Scenarios /\ UNCHANGED <<pool, manager, threads>>
  BY DEF Types, PoolTypes, AppCloses, Peer
<1> USE <1>1, Sizes
<1>2. PoolTypes' /\ ThreadTypes'
  BY DEF Types, PoolTypes, ThreadTypes, pool, manager, threads, thr_num
<1>3. CASE AppCloses(h)
  BY <1>2, <1>3 DEF Types, HandlerTypes, PeerTypes, AppCloses, Closed, Cancelled, Misused, Channels, Keys,
                    peer, pool
<1>4. CASE Peer(h)
  <2>1. HandlerTypes'
    <3>1. chan' \in [Handlers -> Channels]
      BY <1>4 DEF Types, HandlerTypes, Peer, Channels
    <3>2. QED
      BY <1>4, <3>1 DEF Types, HandlerTypes, Peer, history
  <2>2. backlog' \in [Handlers -> 0 .. Cardinality(Accepted)]
    <3>1. Cardinality({s \in Accepted : chan[s] = "none"}) \in Nat
          /\ Cardinality({s \in Accepted : chan[s] = "none"}) <= Cardinality(Accepted)
      BY ParametersAssumption, FS_Subset, FS_CardinalityType
    <3>2. QED
      BY <1>4, <3>1 DEF Types, PeerTypes, Peer
  <2>3. /\ inbox' \in [Handlers -> BOOLEAN] /\ eof' \in [Handlers -> BOOLEAN]
        /\ traffic' \in 0 .. run'.traffic /\ reset' \subseteq Handlers
    <3>1. inbox' \in {inbox, [inbox EXCEPT ![h] = TRUE]} /\ eof' \in {eof, [eof EXCEPT ![h] = TRUE]}
      BY <1>4 DEF Peer
    <3>2. traffic' = traffic + 1 /\ traffic < run.traffic /\ run' = run
      BY <1>4 DEF Peer, pool
    <3>3. inbox' \in [Handlers -> BOOLEAN] /\ eof' \in [Handlers -> BOOLEAN]
      BY <3>1 DEF Types, PeerTypes
    <3>4. traffic' \in 0 .. run'.traffic
      BY <3>2 DEF Types, PeerTypes
    <3>5. reset' \subseteq Handlers
      BY <1>4 DEF Types, PeerTypes, Peer
    <3>6. QED
      BY <3>3, <3>4, <3>5
  <2>4. QED
    BY <1>2, <2>1, <2>2, <2>3 DEF Types, PeerTypes
<1>5. QED
  BY <1>3, <1>4

LEMMA DestroyTypes ==
  ASSUME Types, DestroyStops \/ DestroyWakesUp \/ DestroyJoins
  PROVE  Types'
<1>1. run \in Scenarios /\ UNCHANGED <<pool, handler, peer>>
  BY DEF Types, PoolTypes, DestroyStops, DestroyWakesUp, DestroyJoins
<1> USE <1>1, Sizes
<1>2. PoolTypes' /\ HandlerTypes' /\ PeerTypes'
  BY DEF Types, PoolTypes, HandlerTypes, PeerTypes, pool, handler, history, peer, thr_num
<1>3. ThreadTypes'
  <2>1. CASE DestroyStops
    BY <2>1 DEF Types, ThreadTypes, DestroyStops, pool, thr_num
  <2>2. CASE DestroyWakesUp
    BY <2>2 DEF Types, ThreadTypes, DestroyWakesUp, pool, thr_num
  <2>3. CASE DestroyJoins
    BY <2>3 DEF Types, ThreadTypes, DestroyJoins, threads, pool, thr_num
  <2>4. QED
    BY <2>1, <2>2, <2>3
<1>4. QED
  BY <1>2, <1>3 DEF Types

LEMMA NextTypes ==
  ASSUME Types, [Next]_vars
  PROVE  Types'
<1>1. CASE UNCHANGED vars
  BY <1>1 DEF vars, pool, manager, threads, handler, history, peer, Types, PoolTypes, ThreadTypes,
              HandlerTypes, PeerTypes, thr_num
<1>2. CASE Next
  BY <1>2, GetTypes, StartTypes, LoopTypes, KeyTypes, OutsideTypes, DestroyTypes
     DEF Next, UserStep, WorkerStep, DestroyStep
<1>3. QED
  BY <1>1, <1>2

-----------------------------------------------------------------------------
(* The index of the pool: what the users' copies of it are worth as long as  *)
(* no two calls of getIOThread have overlapped.                              *)

Called == {u \in Users : upc[u] \notin {"absent", "idle"}}

Alone == \A u, v \in Users : InCall(u) /\ InCall(v) => u = v

\* The last call, calls - 1, has taken its thread from the index it read.
Index(u) ==
  /\ InCall(u) => calls > 0 /\ uidx[u] = (calls - 1) % thr_num
  /\ upc[u] = "indexed" => cur_index = uidx[u] + 1
  /\ upc[u] = "modulo" => umod[u] = uidx[u] + 1
  /\ upc[u] \in {"got", "offered", "up", "failed"} => thr[u] # MaxThreads

Pool ==
  /\ calls = Cardinality(Called)
  /\ ~overlapped =>
       /\ Alone
       /\ \A u \in Users : Index(u)
       /\ (\A u \in Users : ~InCall(u)) => cur_index = calls % thr_num

LEMMA Euclid ==
  ASSUME NEW a \in Int, NEW m \in Nat \ {0}
  PROVE  (a \div m) \in Int /\ (a % m) \in 0 .. m - 1 /\ a = m * (a \div m) + (a % m)
  OBVIOUS

LEMMA Residue ==
  ASSUME NEW q \in Int, NEW r \in Int, NEW m \in Nat \ {0}, 0 <= r, r < m
  PROVE  (m * q + r) % m = r
  OBVIOUS

\* cur_index++ and then %=: the residue goes on by one.
LEMMA NextResidue ==
  ASSUME NEW a \in Nat, NEW m \in Nat \ {0}
  PROVE  ((a % m) + 1) % m = (a + 1) % m
<1> DEFINE q == a \div m
           r == a % m
<1>1. q \in Int /\ r \in 0 .. m - 1 /\ a = m * q + r
  BY Euclid
<1> HIDE DEF q, r
<1>2. CASE r + 1 < m
  <2>1. (m * q + (r + 1)) % m = r + 1 /\ (m * 0 + (r + 1)) % m = r + 1
    BY <1>1, <1>2, Residue
  <2>2. m * q + (r + 1) = a + 1 /\ m * 0 + (r + 1) = r + 1
    BY <1>1
  <2>3. (r + 1) % m = (a + 1) % m
    BY <2>1, <2>2
  <2>4. QED
    BY <2>3 DEF r
<1>3. CASE r + 1 = m
  <2>1. (m * (q + 1) + 0) % m = 0 /\ (m * 1 + 0) % m = 0
    BY <1>1, Residue
  <2>2. m * (q + 1) + 0 = a + 1
    BY <1>1, <1>3
  <2>3. (r + 1) % m = (a + 1) % m
    BY <1>1, <1>3, <2>1, <2>2
  <2>4. QED
    BY <2>3 DEF r
<1>4. QED
  BY <1>1, <1>2, <1>3

LEMMA InitPool == Init => Pool
<1> SUFFICES ASSUME Init PROVE Pool
  OBVIOUS
<1>1. run \in Scenarios
  BY DEF Init
<1> USE <1>1, Sizes
<1>2. \A u \in Users : upc[u] \in {"absent", "idle"}
  BY DEF Init
<1>3. Called = {}
  BY <1>2 DEF Called
<1>4. calls = 0 /\ cur_index = 0 /\ Cardinality(Called) = 0
  BY <1>3, FS_EmptySet DEF Init
<1>5. 0 % thr_num = 0
  BY DEF thr_num
<1>6. \A u \in Users : ~InCall(u) /\ Index(u)
  BY <1>2 DEF InCall, Index
<1>7. QED
  BY <1>4, <1>5, <1>6 DEF Pool, Alone

\* A step that is none of getIOThread's leaves the index to the users.
LEMMA ElsewherePool ==
  ASSUME Types, Pool,
         UNCHANGED <<run, cur_index, uidx, umod, calls, overlapped>>,
         \A u \in Users : thr'[u] = thr[u],
         \A u \in Users : \/ upc'[u] = upc[u]
                          \/ /\ upc[u] \in {"got", "offered", "up"}
                             /\ upc'[u] \in {"got", "offered", "up", "failed"}
  PROVE  Pool'
<1>1. Called' = Called
  BY DEF Called
<1>2. \A u \in Users : InCall(u)' <=> InCall(u)
  BY DEF InCall
<1>3. \A u \in Users : Index(u) => Index(u)'
  BY <1>2 DEF Index, thr_num, InCall
<1>4. QED
  BY <1>1, <1>2, <1>3 DEF Pool, Alone, thr_num

LEMMA GetReadPool ==
  ASSUME Types, Pool, NEW u \in Users, GetRead(u)
  PROVE  Pool'
<1>1. /\ run' = run /\ cur_index' = cur_index /\ umod' = umod /\ thr' = thr
      /\ upc[u] = "idle" /\ upc' = [upc EXCEPT ![u] = "read"]
      /\ uidx' = [uidx EXCEPT ![u] = cur_index] /\ calls' = calls + 1
      /\ overlapped' = (overlapped \/ \E v \in Users : InCall(v))
  BY DEF GetRead, handler, history
<1>2. upc \in [Users -> UserPlaces] /\ uidx \in [Users -> Nat] /\ calls \in Nat
  BY DEF Types, PoolTypes
<1>3. Called' = Called \cup {u} /\ u \notin Called
  BY <1>1, <1>2 DEF Called
<1>4. IsFiniteSet(Called)
  BY ParametersAssumption, FS_Subset DEF Called
<1>5. calls' = Cardinality(Called')
  BY <1>1, <1>3, <1>4, FS_AddElement DEF Pool
<1>6. ASSUME ~overlapped'
      PROVE  Alone' /\ (\A v \in Users : Index(v)') /\ ~(\A v \in Users : ~InCall(v)')
  <2>1. ~overlapped /\ \A v \in Users : ~InCall(v)
    BY <1>1, <1>6, <1>2 DEF Types, PoolTypes
  <2>2. cur_index = calls % thr_num
    BY <2>1 DEF Pool
  <2>3. InCall(u)' /\ \A v \in Users : v # u => ~InCall(v)'
    BY <1>1, <1>2, <2>1 DEF InCall
  <2>4. calls' > 0 /\ calls' - 1 = calls
    BY <1>1, <1>2
  <2>5. Index(u)'
    BY <1>1, <1>2, <2>2, <2>4 DEF Index, thr_num
  <2>6. \A v \in Users : v # u => Index(v)'
    BY <1>1, <1>2, <2>1, <2>3 DEF Index, Pool, InCall
  <2>7. QED
    BY <2>3, <2>5, <2>6 DEF Alone
<1>7. QED
  BY <1>5, <1>6 DEF Pool

LEMMA GetRestPool ==
  ASSUME Types, Pool, NEW u \in Users, GetIncrement(u) \/ GetModRead(u) \/ GetModWrite(u)
  PROVE  Pool'
<1>1. /\ run' = run /\ calls' = calls /\ overlapped' = overlapped /\ uidx' = uidx
      /\ InCall(u)
      /\ \A v \in Users : v # u => upc'[v] = upc[v] /\ umod'[v] = umod[v] /\ thr'[v] = thr[v]
  <2>1. upc \in [Users -> UserPlaces] /\ umod \in [Users -> Nat] /\ u \in Handlers
        /\ thr \in [Handlers -> 0 .. MaxThreads] /\ Users \subseteq Handlers
    BY DEF Types, PoolTypes, HandlerTypes, Handlers
  <2>2. CASE GetIncrement(u)
    BY <2>1, <2>2 DEF GetIncrement, InCall, handler, history
  <2>3. CASE GetModRead(u)
    BY <2>1, <2>3 DEF GetModRead, InCall, handler, history
  <2>4. CASE GetModWrite(u)
    BY <2>1, <2>4 DEF GetModWrite, InCall
  <2>5. QED
    BY <2>2, <2>3, <2>4
<1>2. upc \in [Users -> UserPlaces] /\ uidx \in [Users -> Nat] /\ umod \in [Users -> Nat]
      /\ thr \in [Handlers -> 0 .. MaxThreads] /\ u \in Handlers /\ calls \in Nat
      /\ thr_num \in 1 .. MaxThreads
  BY Sizes DEF Types, PoolTypes, HandlerTypes, thr_num
<1>3. upc'[u] \notin {"absent", "idle"}
  BY <1>2 DEF GetIncrement, GetModRead, GetModWrite
<1>4. Called' = Called
  BY <1>1, <1>3 DEF Called, InCall
<1>5. ASSUME ~overlapped
      PROVE  /\ Alone' /\ (\A v \in Users : Index(v)')
             /\ (\A v \in Users : ~InCall(v)') => cur_index' = calls % thr_num
  <2>1. Alone /\ Index(u) /\ \A v \in Users : Index(v)
    BY <1>5 DEF Pool
  <2>2. \A v \in Users : v # u => ~InCall(v) /\ ~InCall(v)'
    BY <1>1, <2>1 DEF Alone, InCall
  <2>3. Alone'
    BY <2>2 DEF Alone
  <2>4. \A v \in Users : v # u => Index(v)'
    BY <1>1, <2>1, <2>2 DEF Index, InCall
  <2>5. calls > 0 /\ uidx[u] = (calls - 1) % thr_num
    BY <1>1, <2>1 DEF Index
  <2>6. uidx[u] < thr_num
    BY <1>2, <2>5, Euclid
  <2>7. Index(u)' /\ (~InCall(u)' => cur_index' = calls % thr_num)
    <3>1. CASE GetIncrement(u)
      <4>1. /\ upc' = [upc EXCEPT ![u] = "indexed"] /\ cur_index' = uidx[u] + 1
        BY <2>6, <3>1 DEF GetIncrement
      <4>2. QED
        BY <1>1, <1>2, <2>5, <4>1 DEF Index, InCall, thr_num
    <3>2. CASE GetModRead(u)
      <4>1. /\ upc' = [upc EXCEPT ![u] = "modulo"] /\ umod' = [umod EXCEPT ![u] = cur_index]
            /\ upc[u] = "indexed"
        BY <3>2 DEF GetModRead
      <4>2. cur_index = uidx[u] + 1
        BY <2>1, <4>1 DEF Index
      <4>3. QED
        BY <1>1, <1>2, <2>5, <4>1, <4>2 DEF Index, InCall, thr_num
    <3>3. CASE GetModWrite(u)
      <4>1. /\ upc' = [upc EXCEPT ![u] = "got"] /\ upc[u] = "modulo"
            /\ cur_index' = umod[u] % thr_num /\ thr' = [thr EXCEPT ![u] = uidx[u]]
        BY <3>3 DEF GetModWrite
      <4>2. umod[u] = uidx[u] + 1
        BY <2>1, <4>1 DEF Index
      <4>3. (((calls - 1) % thr_num) + 1) % thr_num = ((calls - 1) + 1) % thr_num
        <5>1. calls - 1 \in Nat /\ thr_num \in Nat \ {0}
          BY <1>2, <2>5
        <5>2. QED
          BY <5>1, NextResidue
      <4>4. (calls - 1) + 1 = calls
        BY <1>2
      <4>5. cur_index' = calls % thr_num
        BY <2>5, <4>1, <4>2, <4>3, <4>4
      <4>6. thr'[u] # MaxThreads /\ upc'[u] = "got"
        BY <1>2, <2>6, <4>1
      <4>7. QED
        BY <4>5, <4>6 DEF Index, InCall
    <3>4. QED
      BY <3>1, <3>2, <3>3
  <2>8. QED
    BY <2>3, <2>4, <2>7
<1>6. thr_num' = thr_num
  BY <1>1 DEF thr_num
<1>7. QED
  BY <1>1, <1>4, <1>5, <1>6 DEF Pool

\* What the steps outside of getIOThread leave alone.
LEMMA Elsewhere ==
  ASSUME Types, [Next]_vars,
         \A u \in Users : ~GetRead(u) /\ ~GetIncrement(u) /\ ~GetModRead(u) /\ ~GetModWrite(u)
  PROVE  /\ UNCHANGED <<run, cur_index, uidx, umod, calls, overlapped>>
         /\ \A u \in Users : thr'[u] = thr[u]
         /\ \A u \in Users : \/ upc'[u] = upc[u]
                             \/ /\ upc[u] \in {"got", "offered", "up"}
                                /\ upc'[u] \in {"got", "offered", "up", "failed"}
<1>1. CASE UNCHANGED vars
  BY <1>1 DEF vars, pool, handler, history
<1>2. ASSUME NEW u \in Users, AcceptorStart(u) \/ AcceptorRestart(u) \/ WakeUp(u) \/ Connect(u)
      PROVE  /\ UNCHANGED <<run, cur_index, uidx, umod, calls, overlapped, thr>>
             /\ upc[u] \in {"got", "offered", "up"}
             /\ \E to \in {"offered", "up", "failed"} : upc' = [upc EXCEPT ![u] = to]
  BY <1>2 DEF AcceptorStart, AcceptorRestart, WakeUp, Connect, UserGoes, handler, history
<1>3. ASSUME NEW t \in Threads,
             CheckStop(t) \/ DispatchListener(t) \/ EnterSelect(t) \/ SelectReturns(t)
      PROVE  UNCHANGED <<pool, thr>>
  BY <1>3 DEF CheckStop, DispatchListener, EnterSelect, SelectReturns, handler, history
<1>4. ASSUME NEW t \in Threads, NEW h \in Handlers, HandleKey(t, h)
      PROVE  UNCHANGED pool /\ \A u \in Users : thr'[u] = thr[u]
  <2>1. UNCHANGED pool
    BY <1>4 DEF HandleKey
  <2>2. CASE UNCHANGED thr
    BY <2>1, <2>2
  <2>3. CASE HandleAccept(t, h)
    <3>1. \/ thr' = thr
          \/ \E s \in Accepted : thr' = [thr EXCEPT ![s] = t]
      BY <2>3 DEF HandleAccept
    <3>2. QED
      BY <2>1, <3>1, ParametersAssumption DEF Types, HandlerTypes, Handlers
  <2>4. QED
    BY <1>4, <2>2, <2>3 DEF HandleKey, HandleCancelled, HandleConnected, HandleRead, HandleWrite
<1>5. ASSUME NEW h \in Handlers, AppCloses(h) \/ Peer(h)
      PROVE  UNCHANGED <<pool, thr>>
  BY <1>5 DEF AppCloses, Peer
<1>6. ASSUME DestroyStops \/ DestroyWakesUp \/ DestroyJoins
      PROVE  UNCHANGED <<pool, thr>>
  BY <1>6 DEF DestroyStops, DestroyWakesUp, DestroyJoins, handler, history
<1>7. CASE \E u \in Users : AcceptorStart(u) \/ AcceptorRestart(u) \/ WakeUp(u) \/ Connect(u)
  BY <1>2, <1>7 DEF Types, PoolTypes
<1>8. CASE \E t \in Threads : WorkerStep(t)
  BY <1>3, <1>4, <1>8 DEF WorkerStep, pool
<1>9. CASE \E h \in Handlers : AppCloses(h) \/ Peer(h)
  BY <1>5, <1>9 DEF pool
<1>10. CASE DestroyStops \/ DestroyStep
  BY <1>6, <1>10 DEF DestroyStep, pool
<1>11. QED
  BY <1>1, <1>7, <1>8, <1>9, <1>10 DEF Next, UserStep

LEMMA NextPool ==
  ASSUME Types, Pool, [Next]_vars
  PROVE  Pool'
<1>1. CASE \E u \in Users : GetRead(u)
  BY <1>1, GetReadPool
<1>2. CASE \E u \in Users : GetIncrement(u) \/ GetModRead(u) \/ GetModWrite(u)
  BY <1>2, GetRestPool
<1>3. QED
  BY <1>1, <1>2, Elsewhere, ElsewherePool

-----------------------------------------------------------------------------
(* The events posted to the threads.                                         *)

\* An Acceptor's event is in the queue of its own thread and, unless it has been
\* started again, there once and before it has a key.  No key without a start.
Plugs ==
  /\ \A t \in Threads : \A i \in 1 .. Len(listener[t]) :
       LET h == listener[t][i]
       IN /\ thr[h] = t /\ upc[h] \in {"offered", "up"}
          /\ h \notin restarted =>
               key[h] = "none" /\ \A j \in 1 .. Len(listener[t]) : listener[t][j] = h => j = i
  /\ \A u \in Listeners : key[u] # "none" => upc[u] \in {"offered", "up"}

LEMMA InitPlugs == Init => Plugs
<1> SUFFICES ASSUME Init PROVE Plugs
  OBVIOUS
<1>1. Listeners \subseteq Handlers
  BY ParametersAssumption DEF Handlers
<1>2. QED
  BY <1>1 DEF Init, Plugs

\* A step that leaves the queues alone.
LEMMA PlugsKept ==
  ASSUME Types, Plugs, UNCHANGED listener, restarted \subseteq restarted',
         \A u \in Listeners :
            /\ upc[u] \in {"offered", "up"} => upc'[u] \in {"offered", "up"} /\ thr'[u] = thr[u]
            /\ key[u] = "none" => key'[u] = "none"
  PROVE  Plugs'
<1>1. \A t \in Threads : listener[t] \in Seq(Listeners)
  BY DEF Types, ThreadTypes
<1>2. \A t \in Threads : \A i \in 1 .. Len(listener[t]) : listener[t][i] \in Listeners
  BY <1>1
<1>3. QED
  BY <1>2 DEF Plugs

\* Another event at the end of a queue, of an Acceptor that has none there or is
\* started again.
LEMMA PlugsAppend ==
  ASSUME Types, Plugs, NEW u \in Listeners,
         listener' = [listener EXCEPT ![thr[u]] = Append(@, u)],
         UNCHANGED <<thr, key>>, upc' = [upc EXCEPT ![u] = "offered"],
         restarted \subseteq restarted',
         u \in restarted' \/ upc[u] \notin {"offered", "up"}
  PROVE  Plugs'
<1>1. /\ \A t \in Threads : listener[t] \in Seq(Listeners)
      /\ listener \in [Threads -> Seq(Listeners)]
      /\ u \in Users /\ Listeners \subseteq Users /\ upc \in [Users -> UserPlaces]
  BY ParametersAssumption DEF Types, ThreadTypes, PoolTypes
<1>2. \A v \in Listeners : upc[v] \in {"offered", "up"} => upc'[v] \in {"offered", "up"}
  BY <1>1
<1>3. upc'[u] \in {"offered", "up"}
  BY <1>1
<1>4. ASSUME NEW t \in Threads, NEW i \in 1 .. Len(listener'[t])
      PROVE  LET h == listener'[t][i]
             IN /\ thr'[h] = t /\ upc'[h] \in {"offered", "up"}
                /\ h \notin restarted' =>
                     /\ key'[h] = "none"
                     /\ \A j \in 1 .. Len(listener'[t]) : listener'[t][j] = h => j = i
  <2>1. CASE t # thr[u]
    <3>1. listener'[t] = listener[t]
      BY <1>1, <2>1
    <3> DEFINE h == listener[t][i]
    <3>2. h \in Listeners /\ i \in 1 .. Len(listener[t])
      BY <1>1, <3>1
    <3>3. /\ thr[h] = t /\ upc[h] \in {"offered", "up"}
          /\ h \notin restarted =>
               key[h] = "none" /\ \A j \in 1 .. Len(listener[t]) : listener[t][j] = h => j = i
      BY <3>2 DEF Plugs
    <3>4. upc'[h] \in {"offered", "up"}
      BY <1>2, <3>2, <3>3
    <3>5. listener'[t][i] = h
      BY <3>1
    <3> HIDE DEF h
    <3>6. QED
      BY <3>1, <3>3, <3>4, <3>5
  <2>2. CASE t = thr[u]
    <3>1. listener'[t] = Append(listener[t], u)
      BY <1>1, <2>2
    <3>2. /\ Len(listener'[t]) = Len(listener[t]) + 1 /\ Len(listener[t]) \in Nat
          /\ listener'[t][Len(listener[t]) + 1] = u
          /\ \A j \in 1 .. Len(listener[t]) : listener'[t][j] = listener[t][j]
                                           /\ listener[t][j] \in Listeners
      BY <1>1, <3>1
    <3>3. u \notin restarted' => \A j \in 1 .. Len(listener[t]) : listener[t][j] # u
      BY DEF Plugs
    <3>4. u \notin restarted' => key[u] = "none"
      BY DEF Plugs
    <3>5. CASE i = Len(listener[t]) + 1
      <4>1. listener'[t][i] = u
        BY <3>2, <3>5
      <4>2. u \notin restarted' =>
              \A j \in 1 .. Len(listener'[t]) : listener'[t][j] = u => j = i
        BY <3>2, <3>3, <3>5
      <4>3. QED
        BY <1>3, <2>2, <3>4, <4>1, <4>2
    <3>6. CASE i \in 1 .. Len(listener[t])
      <4> DEFINE h == listener[t][i]
      <4>1. listener'[t][i] = h /\ h \in Listeners
        BY <3>2, <3>6
      <4>2. /\ thr[h] = t /\ upc[h] \in {"offered", "up"}
            /\ h \notin restarted =>
                 key[h] = "none" /\ \A j \in 1 .. Len(listener[t]) : listener[t][j] = h => j = i
        BY <3>6 DEF Plugs
      <4>3. h \notin restarted' => h # u
        BY <3>3, <3>6
      <4>4. h \notin restarted' =>
              \A j \in 1 .. Len(listener'[t]) : listener'[t][j] = h => j = i
        BY <3>2, <4>2, <4>3
      <4>5. QED
        BY <1>2, <4>1, <4>2, <4>4
    <3>7. QED
      BY <3>2, <3>5, <3>6
  <2>3. QED
    BY <2>1, <2>2
<1>5. \A v \in Listeners : key'[v] # "none" => upc'[v] \in {"offered", "up"}
  BY <1>2 DEF Plugs
<1>6. QED
  BY <1>4, <1>5 DEF Plugs

\* dispatchListeners takes the oldest event.
LEMMA PlugsDispatch ==
  ASSUME Types, Plugs, NEW t \in Threads, DispatchListener(t)
  PROVE  Plugs'
<1> DEFINE g == Head(listener[t])
<1>1. /\ listener \in [Threads -> Seq(Listeners)] /\ listener[t] # <<>>
      /\ listener' = [listener EXCEPT ![t] = Tail(@)]
      /\ UNCHANGED <<thr, restarted, upc>>
      /\ key' = key \/ key' = [key EXCEPT ![g] = "valid"]
      /\ key \in [Handlers -> Keys] /\ Listeners \subseteq Handlers
  BY ParametersAssumption DEF DispatchListener, Types, ThreadTypes, HandlerTypes, Handlers, history, pool
<1>2. /\ listener[t] \in Seq(Listeners) /\ Len(listener[t]) \in Nat \ {0}
      /\ g = listener[t][1] /\ 1 \in 1 .. Len(listener[t]) /\ g \in Listeners
      /\ Len(Tail(listener[t])) = Len(listener[t]) - 1
      /\ \A i \in 1 .. Len(Tail(listener[t])) :
           /\ Tail(listener[t])[i] = listener[t][i + 1]
           /\ i + 1 \in 1 .. Len(listener[t])
  BY <1>1
<1>3. /\ thr[g] = t /\ upc[g] \in {"offered", "up"}
      /\ g \notin restarted => \A j \in 1 .. Len(listener[t]) : listener[t][j] = g => j = 1
  BY <1>2 DEF Plugs
<1> HIDE DEF g
<1>4. ASSUME NEW s \in Threads, NEW i \in 1 .. Len(listener'[s])
      PROVE  LET h == listener'[s][i]
             IN /\ thr'[h] = s /\ upc'[h] \in {"offered", "up"}
                /\ h \notin restarted' =>
                     /\ key'[h] = "none"
                     /\ \A j \in 1 .. Len(listener'[s]) : listener'[s][j] = h => j = i
  <2>1. CASE s # t
    <3>1. listener'[s] = listener[s]
      BY <1>1, <2>1
    <3> DEFINE h == listener[s][i]
    <3>2. /\ thr[h] = s /\ upc[h] \in {"offered", "up"}
          /\ h \notin restarted =>
               key[h] = "none" /\ \A j \in 1 .. Len(listener[s]) : listener[s][j] = h => j = i
      BY <3>1 DEF Plugs
    <3>3. h # g
      BY <1>3, <2>1, <3>2
    <3>4. key'[h] = key[h]
      <4>1. h \in Handlers
        BY <1>1, <3>1
      <4> HIDE DEF h
      <4>2. QED
        BY <1>1, <3>3, <4>1
    <3>5. QED
      BY <1>1, <3>1, <3>2, <3>4
  <2>2. CASE s = t
    <3>1. /\ Len(listener'[s]) = Len(listener[t]) - 1
          /\ \A j \in 1 .. Len(listener'[s]) :
               listener'[s][j] = listener[t][j + 1] /\ j + 1 \in 1 .. Len(listener[t])
      BY <1>1, <1>2, <2>2
    <3> DEFINE h == listener[t][i + 1]
    <3>2. /\ thr[h] = t /\ upc[h] \in {"offered", "up"}
          /\ h \notin restarted => key[h] = "none"
          /\ h \notin restarted => \A j \in 1 .. Len(listener[t]) : listener[t][j] = h => j = i + 1
      BY <3>1 DEF Plugs
    <3>3. h \notin restarted => h # g
      <4>1. i + 1 \in 1 .. Len(listener[t]) /\ i \in 1 .. Len(listener'[s]) /\ i + 1 # 1
        BY <3>1
      <4>2. QED
        BY <1>3, <4>1
    <3>4. h \notin restarted => key'[h] = "none"
      <4>1. h \in Handlers
        BY <1>1, <3>1
      <4> HIDE DEF h
      <4>2. QED
        BY <1>1, <3>2, <3>3, <4>1
    <3>5. ASSUME h \notin restarted, NEW j \in 1 .. Len(listener'[s]), listener'[s][j] = h
          PROVE  j = i
      <4>1. j + 1 = i + 1
        BY <3>1, <3>2, <3>5
      <4>2. QED
        BY <4>1
    <3>6. listener'[s][i] = h
      BY <3>1
    <3> HIDE DEF h
    <3>7. QED
      BY <1>1, <2>2, <3>2, <3>4, <3>5, <3>6
  <2>3. QED
    BY <2>1, <2>2
<1>5. ASSUME NEW v \in Listeners, key'[v] # "none"
      PROVE  upc'[v] \in {"offered", "up"}
  <2>1. key[v] # "none" \/ v = g
    BY <1>1, <1>5
  <2>2. QED
    BY <1>1, <1>3, <2>1 DEF Plugs
<1>6. QED
  BY <1>4, <1>5 DEF Plugs

\* Starting a handler.
LEMMA PlugsStart ==
  ASSUME Types, Plugs, NEW u \in Users,
         AcceptorStart(u) \/ AcceptorRestart(u) \/ WakeUp(u) \/ Connect(u)
  PROVE  Plugs'
<1>1. /\ upc \in [Users -> UserPlaces] /\ key \in [Handlers -> Keys]
      /\ Listeners \subseteq Users /\ Users \subseteq Handlers
  BY ParametersAssumption DEF Types, PoolTypes, HandlerTypes, Handlers
<1>2. CASE AcceptorStart(u)
  <2>1. u \in Listeners /\ upc[u] = "got" /\ UNCHANGED <<thr, key, restarted>>
    BY <1>2 DEF AcceptorStart, history
  <2>2. CASE listener' = [listener EXCEPT ![thr[u]] = Append(@, u)]
             /\ upc' = [upc EXCEPT ![u] = "offered"]
    BY <2>1, <2>2, PlugsAppend
  <2>3. CASE listener' = listener /\ upc' = [upc EXCEPT ![u] = "failed"]
    BY <1>1, <2>1, <2>3, PlugsKept
  <2>4. QED
    BY <1>2, <2>2, <2>3 DEF AcceptorStart, UserGoes
<1>3. CASE AcceptorRestart(u)
  <2>1. /\ u \in Listeners /\ UNCHANGED <<thr, key>> /\ restarted' = restarted \cup {u}
        /\ listener' = [listener EXCEPT ![thr[u]] = Append(@, u)]
        /\ upc' = [upc EXCEPT ![u] = "offered"]
    BY <1>3 DEF AcceptorRestart, UserGoes
  <2>2. QED
    BY <2>1, PlugsAppend
<1>4. CASE WakeUp(u)
  BY <1>1, <1>4, PlugsKept DEF WakeUp, UserGoes, handler, history
<1>5. CASE Connect(u)
  <2>1. /\ upc[u] = "got" /\ UNCHANGED <<listener, thr, restarted>>
        /\ \E to \in {"up", "failed"} : upc' = [upc EXCEPT ![u] = to]
        /\ key' = key \/ key' = [key EXCEPT ![u] = "valid"]
        /\ u \notin Listeners
    BY <1>5 DEF Connect, Connectors, UserGoes, threads, history
  <2>2. \A v \in Listeners : upc'[v] = upc[v] /\ key'[v] = key[v]
    BY <1>1, <2>1
  <2>3. QED
    BY <2>1, <2>2, PlugsKept
<1>6. QED
  BY <1>2, <1>3, <1>4, <1>5

\* The turn of a key.
LEMMA PlugsKey ==
  ASSUME Types, Plugs, NEW t \in Threads, NEW h \in Handlers, HandleKey(t, h)
  PROVE  Plugs'
<1>1. /\ UNCHANGED <<listener, upc, restarted>>
      /\ key \in [Handlers -> Keys] /\ thr \in [Handlers -> 0 .. MaxThreads]
      /\ Listeners \subseteq Handlers /\ Listeners \cap Accepted = {}
  BY ParametersAssumption
     DEF HandleKey, HandleCancelled, HandleAccept, HandleConnected, HandleRead, HandleWrite,
         history, pool, Types, HandlerTypes, Handlers
<1>2. \/ thr' = thr /\ key' = key
      \/ thr' = thr /\ \E g \in Handlers :
                         key' = [key EXCEPT ![g] = IF @ = "valid" THEN "cancelled" ELSE @]
      \/ \E s \in Accepted : thr' = [thr EXCEPT ![s] = t] /\ key' = [key EXCEPT ![s] = "valid"]
  <2>1. CASE HandleCancelled(t, h)
    BY <2>1 DEF HandleCancelled
  <2>2. CASE HandleAccept(t, h)
    BY <2>2 DEF HandleAccept
  <2>3. CASE HandleConnected(t, h)
    BY <2>3, Throws DEF HandleConnected, Closed, Cancelled
  <2>4. CASE HandleRead(t, h)
    BY <2>4, Throws DEF HandleRead, Closed, Cancelled
  <2>5. CASE HandleWrite(t, h)
    BY <2>5, Throws DEF HandleWrite, Closed, Cancelled
  <2>6. QED
    BY <2>1, <2>2, <2>3, <2>4, <2>5 DEF HandleKey
<1>3. \A u \in Listeners : thr'[u] = thr[u] /\ (key[u] = "none" => key'[u] = "none")
  BY <1>1, <1>2
<1>4. QED
  BY <1>1, <1>3, PlugsKept

LEMMA NextPlugs ==
  ASSUME Types, Plugs, [Next]_vars
  PROVE  Plugs'
<1>1. /\ key \in [Handlers -> Keys] /\ thr \in [Handlers -> 0 .. MaxThreads]
      /\ upc \in [Users -> UserPlaces]
      /\ Listeners \subseteq Users /\ Users \subseteq Handlers
  BY ParametersAssumption DEF Types, PoolTypes, HandlerTypes, Handlers
<1>2. CASE UNCHANGED vars
  BY <1>2, PlugsKept DEF vars, pool, threads, handler, history
<1>3. ASSUME NEW u \in Users, GetRead(u) \/ GetIncrement(u) \/ GetModRead(u) \/ GetModWrite(u)
      PROVE  Plugs'
  <2>1. /\ UNCHANGED <<listener, key, restarted>>
        /\ upc[u] \notin {"offered", "up"}
        /\ \E to \in UserPlaces : upc' = [upc EXCEPT ![u] = to]
        /\ thr' = thr \/ thr' = [thr EXCEPT ![u] = uidx[u]]
    BY <1>1, <1>3 DEF GetRead, GetIncrement, GetModRead, GetModWrite, threads, handler, history, UserPlaces
  <2>2. \A v \in Listeners :
           upc[v] \in {"offered", "up"} => upc'[v] = upc[v] /\ thr'[v] = thr[v]
    BY <1>1, <2>1
  <2>3. QED
    BY <2>1, <2>2, PlugsKept
<1>4. ASSUME NEW t \in Threads, CheckStop(t) \/ EnterSelect(t) \/ SelectReturns(t)
      PROVE  Plugs'
  <2>1. UNCHANGED <<listener, key, restarted, thr, upc>>
    BY <1>4 DEF CheckStop, EnterSelect, SelectReturns, handler, history, pool
  <2>2. QED
    BY <2>1, PlugsKept
<1>5. ASSUME NEW h \in Handlers, AppCloses(h) \/ Peer(h)
      PROVE  Plugs'
  <2>1. /\ UNCHANGED <<listener, restarted, thr, upc>>
        /\ key' = key \/ key' = [key EXCEPT ![h] = IF @ = "valid" THEN "cancelled" ELSE @]
    BY <1>5 DEF AppCloses, Peer, Closed, Cancelled, history, threads, pool
  <2>2. QED
    BY <1>1, <2>1, PlugsKept
<1>6. ASSUME DestroyStops \/ DestroyWakesUp \/ DestroyJoins
      PROVE  Plugs'
  <2>1. UNCHANGED <<listener, key, restarted, thr, upc>>
    BY <1>6 DEF DestroyStops, DestroyWakesUp, DestroyJoins, handler, history, pool, threads
  <2>2. QED
    BY <2>1, PlugsKept
<1>7. CASE Next
  BY <1>3, <1>4, <1>5, <1>6, <1>7, PlugsStart, PlugsDispatch, PlugsKey
     DEF Next, UserStep, WorkerStep, DestroyStep
<1>8. QED
  BY <1>2, <1>7

-----------------------------------------------------------------------------
(* The reasons for which a thread dies.                                      *)

\* A handler without a thread has none yet; once it has one it keeps it.
Threadless ==
  /\ \A s \in Accepted : chan[s] = "none" => thr[s] = MaxThreads
  /\ \A u \in Users : upc[u] \in {"absent", "idle", "read", "indexed", "modulo"} => thr[u] = MaxThreads

\* A selected key that has been cancelled was closed behind the Worker's back,
\* and one selected for reading, or reset, still has something to read.
Selected(h) ==
  /\ ready[h] # {} /\ key[h] = "cancelled" => h \in misused
  /\ "READ" \in ready[h] => inbox[h] \/ eof[h]
  /\ h \in reset => eof[h]

Reason(h) ==
  \/ h \in misused
  \/ h \in adapterless /\ (inbox[h] \/ eof[h])
  \/ h \in restarted /\ key[h] = "cancelled"

Life == Threadless /\ (\A h \in Handlers : Selected(h)) /\ ThreadsDieByMisuse

LEMMA InitLife == Init => Life
<1> SUFFICES ASSUME Init PROVE Life
  OBVIOUS
<1>1. Threadless
  BY DEF Init, Threadless, Handlers
<1>2. \A h \in Handlers : Selected(h)
  BY DEF Init, Selected
<1>3. ThreadsDieByMisuse
  BY DEF Init, ThreadsDieByMisuse
<1>4. QED
  BY <1>1, <1>2, <1>3 DEF Life

\* A reason is a reason for ever, and so is the thread it is one for.
LEMMA DeadStayDead ==
  ASSUME Types, Life, thrown \subseteq thrown',
         \A h \in Handlers : Reason(h) => Reason(h)',
         \A h \in Handlers : thr[h] # MaxThreads => thr'[h] = thr[h],
         \A t \in Threads : wpc'[t] = "dead" =>
             wpc[t] = "dead" \/ t \in thrown' \/ \E h \in On(t) : Reason(h)'
  PROVE  ThreadsDieByMisuse'
<1> SUFFICES ASSUME NEW t \in Threads, wpc'[t] = "dead", t \notin thrown'
             PROVE  \E h \in On(t)' : Reason(h)'
  BY DEF ThreadsDieByMisuse, Reason
<1>1. PICK h \in On(t) : Reason(h)'
  BY DEF Life, ThreadsDieByMisuse, Reason, On
<1>2. t # MaxThreads
  BY ParametersAssumption DEF Threads
<1>3. h \in On(t)'
  BY <1>1, <1>2 DEF On, Handlers
<1>4. QED
  BY <1>1, <1>3

\* getIOThread: a user is given its thread once.
LEMMA GetLife ==
  ASSUME Types, Life, NEW u \in Users,
         GetRead(u) \/ GetIncrement(u) \/ GetModRead(u) \/ GetModWrite(u)
  PROVE  Life'
<1>1. UNCHANGED <<chan, key, ready, history, adapterless, inbox, eof, reset, wpc>>
  BY DEF GetRead, GetIncrement, GetModRead, GetModWrite, handler, history, threads, peer
<1>2. thr' = thr \/ (thr' = [thr EXCEPT ![u] = uidx[u]] /\ upc[u] = "modulo" /\ upc'[u] = "got")
  BY DEF GetRead, GetIncrement, GetModRead, GetModWrite, handler, history, Types, PoolTypes
<1>3. thr \in [Handlers -> 0 .. MaxThreads] /\ u \in Handlers /\ u \notin Accepted
      /\ Users \subseteq Handlers /\ Accepted \subseteq Handlers
  BY ParametersAssumption DEF Types, HandlerTypes, Handlers
<1>4. \A h \in Handlers : thr[h] # MaxThreads => thr'[h] = thr[h]
  BY <1>2, <1>3 DEF Life, Threadless
<1>5. Threadless'
  <2>1. \A s \in Accepted : thr'[s] = thr[s]
    BY <1>2, <1>3
  <2>2. ASSUME NEW v \in Users, upc'[v] \in {"absent", "idle", "read", "indexed", "modulo"}
        PROVE  thr'[v] = MaxThreads
    <3>1. upc[v] \in {"absent", "idle", "read", "indexed", "modulo"}
      BY <2>2 DEF Types, PoolTypes, GetRead, GetIncrement, GetModRead, GetModWrite
    <3>2. thr'[v] = thr[v]
      BY <1>2, <1>3, <2>2
    <3>3. QED
      BY <3>1, <3>2 DEF Life, Threadless
  <2>3. QED
    BY <1>1, <2>1, <2>2 DEF Life, Threadless
<1>6. \A h \in Handlers : Selected(h)' /\ (Reason(h) => Reason(h)')
  BY <1>1 DEF Life, Selected, Reason, history
<1>7. \A t \in Threads : wpc'[t] = "dead" => wpc[t] = "dead"
  BY <1>1
<1>8. ThreadsDieByMisuse'
  BY <1>1, <1>4, <1>6, <1>7, DeadStayDead DEF history
<1>9. QED
  BY <1>5, <1>6, <1>8 DEF Life

\* Every other step that no key's turn is in.
LEMMA QuietLife ==
  ASSUME Types, Life,
         UNCHANGED <<thr, adapterless>>, thrown \subseteq thrown',
         \A h \in Handlers : Selected(h)' /\ (Reason(h) => Reason(h)'),
         \A s \in Accepted : chan'[s] = "none" => chan[s] = "none",
         \A u \in Users : \/ upc'[u] = upc[u]
                          \/ upc'[u] \in {"got", "offered", "up", "failed"},
         \A t \in Threads : wpc'[t] = "dead" =>
             wpc[t] = "dead" \/ \E h \in On(t) : Reason(h)'
  PROVE  Life'
<1>1. Threadless'
  BY DEF Life, Threadless
<1>2. ThreadsDieByMisuse'
  BY DeadStayDead
<1>3. QED
  BY <1>1, <1>2 DEF Life

LEMMA StartLife ==
  ASSUME Types, Life, NEW u \in Users,
         AcceptorStart(u) \/ AcceptorRestart(u) \/ WakeUp(u) \/ Connect(u)
  PROVE  Life'
<1>1. /\ UNCHANGED <<thr, adapterless, ready, misused, thrown, inbox, eof, reset, wpc>>
      /\ restarted \subseteq restarted'
  BY DEF AcceptorStart, AcceptorRestart, WakeUp, Connect, handler, history, threads, peer
<1>2. \E to \in {"offered", "up", "failed"} : upc' = [upc EXCEPT ![u] = to]
  BY DEF AcceptorStart, AcceptorRestart, WakeUp, Connect, UserGoes
<1>3. key' = key \/ (key' = [key EXCEPT ![u] = "valid"] /\ u \notin Listeners)
  BY DEF AcceptorStart, AcceptorRestart, WakeUp, Connect, Connectors, handler, history
<1>4. chan' = chan \/ \E c \in {"listening", "connected", "connecting"} : chan' = [chan EXCEPT ![u] = c]
  BY DEF AcceptorStart, AcceptorRestart, WakeUp, Connect, handler, history
<1>5. \A s \in Accepted : chan'[s] = "none" => chan[s] = "none"
  BY <1>4 DEF Types, HandlerTypes, Handlers
<1>6. restarted \subseteq Listeners /\ key \in [Handlers -> Keys]
  BY DEF Types, HandlerTypes
<1>7. \A h \in Handlers : Selected(h)' /\ (Reason(h) => Reason(h)')
  BY <1>1, <1>3, <1>6 DEF Life, Selected, Reason
<1>8. \A v \in Users : upc'[v] = upc[v] \/ upc'[v] \in {"got", "offered", "up", "failed"}
  BY <1>2 DEF Types, PoolTypes
<1>9. QED
  BY <1>1, <1>5, <1>7, <1>8, QuietLife

\* The oldest event posted to a thread kills it only if its Acceptor has been
\* started twice.
LEMMA DispatchLife ==
  ASSUME Types, Plugs, Life, NEW t \in Threads, DispatchListener(t)
  PROVE  Life'
<1> DEFINE g == Head(listener[t])
<1>1. /\ UNCHANGED <<thr, chan, adapterless, ready, history, inbox, eof, reset, upc>>
      /\ \/ key[g] = "cancelled" /\ key' = key /\ wpc' = [wpc EXCEPT ![t] = "dead"]
         \/ key' = key /\ wpc' = wpc
         \/ key[g] # "cancelled" /\ key' = [key EXCEPT ![g] = "valid"] /\ wpc' = wpc
  BY DEF DispatchListener, WorkerGoes, peer, pool
<1>2. /\ listener[t] \in Seq(Listeners) /\ listener[t] # <<>>
      /\ wpc \in [Threads -> {"none", "check", "dispatch", "select", "handle", "exited", "dead"}]
      /\ key \in [Handlers -> Keys]
  BY DEF Types, ThreadTypes, HandlerTypes, DispatchListener
<1>3. /\ g \in Listeners /\ g \in Handlers /\ 1 \in 1 .. Len(listener[t]) /\ g = listener[t][1]
  BY <1>2, ParametersAssumption DEF Handlers
<1>4. thr[g] = t /\ (g \notin restarted => key[g] = "none")
  BY <1>3 DEF Plugs
<1> HIDE DEF g
<1>5. \A h \in Handlers : Selected(h)' /\ (Reason(h) => Reason(h)')
  BY <1>1, <1>2 DEF Life, Selected, Reason, history
<1>6. key[g] = "cancelled" => g \in On(t) /\ Reason(g)
  BY <1>3, <1>4 DEF Reason, On
<1>7. \A s \in Threads : wpc'[s] = "dead" => wpc[s] = "dead" \/ \E h \in On(s) : Reason(h)'
  <2> SUFFICES ASSUME NEW s \in Threads, wpc'[s] = "dead", wpc[s] # "dead"
               PROVE  \E h \in On(s) : Reason(h)'
    OBVIOUS
  <2>1. s = t /\ key[g] = "cancelled"
    BY <1>1, <1>2
  <2>2. QED
    BY <1>3, <1>5, <1>6, <2>1
<1>8. QED
  BY <1>1, <1>5, <1>7, QuietLife DEF history

LEMMA LoopLife ==
  ASSUME Types, Life, NEW t \in Threads, CheckStop(t) \/ EnterSelect(t) \/ SelectReturns(t)
  PROVE  Life'
<1>1. UNCHANGED <<thr, chan, key, adapterless, history, inbox, eof, reset, upc>>
  BY DEF CheckStop, EnterSelect, SelectReturns, handler, peer, pool
<1>2. \A s \in Threads : wpc'[s] = "dead" => wpc[s] = "dead"
  BY DEF CheckStop, EnterSelect, SelectReturns, WorkerGoes, Types, ThreadTypes
<1>3. ASSUME NEW h \in Handlers
      PROVE  Selected(h)'
  <2>1. Selected(h)
    BY DEF Life
  <2>2. CASE ready' = ready
    BY <1>1, <2>1, <2>2 DEF Selected, history
  <2>3. CASE SelectReturns(t)
    <3>1. ready'[h] = ready[h] \/ ready'[h] = Fired(h)
      BY <2>3 DEF SelectReturns
    <3>2. Fired(h) # {} => key[h] = "valid"
      BY DEF Fired
    <3>3. "READ" \in Fired(h) => inbox[h] \/ eof[h]
      BY <2>1 DEF Fired, NetReady, Selected
    <3>4. QED
      BY <1>1, <2>1, <3>1, <3>2, <3>3 DEF Selected, history
  <2>4. QED
    BY <2>2, <2>3 DEF CheckStop, EnterSelect, handler
<1>4. \A h \in Handlers : Reason(h) => Reason(h)'
  BY <1>1 DEF Reason, history
<1>5. QED
  BY <1>1, <1>2, <1>3, <1>4, QuietLife DEF history

LEMMA OutsideLife ==
  ASSUME Types, Life, NEW g \in Handlers, AppCloses(g) \/ Peer(g)
  PROVE  Life'
<1>1. UNCHANGED <<thr, adapterless, ready, restarted, thrown, upc, wpc>>
  BY DEF AppCloses, Peer, pool, threads, history
<1>2. CASE AppCloses(g)
  <2>1. /\ chan' = chan \/ chan' = [chan EXCEPT ![g] = "closed"]
        /\ key' = key \/ key' = [key EXCEPT ![g] = IF @ = "valid" THEN "cancelled" ELSE @]
        /\ misused' = IF ready[g] # {} THEN misused \cup {g} ELSE misused
        /\ UNCHANGED <<inbox, eof, reset>>
    BY <1>2 DEF AppCloses, Closed, Cancelled, Misused, peer
  <2>2. \A s \in Accepted : chan'[s] = "none" => chan[s] = "none"
    BY <2>1 DEF Types, HandlerTypes, Handlers
  <2>3. \A h \in Handlers : Selected(h)' /\ (Reason(h) => Reason(h)')
    BY <1>1, <2>1 DEF Life, Selected, Reason, Types, HandlerTypes
  <2>4. QED
    BY <1>1, <2>2, <2>3, QuietLife
<1>3. CASE Peer(g)
  <2>1. /\ inbox' \in {inbox, [inbox EXCEPT ![g] = TRUE]}
        /\ \/ reset' = reset /\ eof' \in {eof, [eof EXCEPT ![g] = TRUE]}
           \/ reset' = reset \cup {g} /\ eof' = [eof EXCEPT ![g] = TRUE]
        /\ chan' = chan \/ \E r \in {"established", "refused"} : chan' = [chan EXCEPT ![g] = r]
        /\ UNCHANGED <<key, misused>>
    BY <1>3 DEF Peer, history
  <2>2. \A s \in Accepted : chan'[s] = "none" => chan[s] = "none"
    BY <2>1 DEF Types, HandlerTypes, Handlers
  <2>3. \A h \in Handlers : /\ inbox[h] => inbox'[h]
                            /\ eof[h] => eof'[h]
                            /\ h \in reset' => h \in reset \/ eof'[h]
    BY <2>1 DEF Types, PeerTypes
  <2>4. \A h \in Handlers : Selected(h)' /\ (Reason(h) => Reason(h)')
    BY <1>1, <2>1, <2>3 DEF Life, Selected, Reason
  <2>5. QED
    BY <1>1, <2>2, <2>4, QuietLife
<1>4. QED
  BY <1>2, <1>3

LEMMA DestroyLife ==
  ASSUME Types, Life, DestroyStops \/ DestroyWakesUp \/ DestroyJoins
  PROVE  Life'
<1>1. UNCHANGED <<thr, chan, key, adapterless, ready, history, inbox, eof, reset, upc, wpc>>
  BY DEF DestroyStops, DestroyWakesUp, DestroyJoins, handler, peer, pool, threads
<1>2. \A h \in Handlers : Selected(h)' /\ (Reason(h) => Reason(h)')
  BY <1>1 DEF Life, Selected, Reason, history
<1>3. QED
  BY <1>1, <1>2, QuietLife DEF history

\* The turn of a key: either it is over, or the thread has died for a reason.
LEMMA KeyLife ==
  ASSUME Types, Life, NEW t \in Threads, NEW h \in Handlers, HandleKey(t, h)
  PROVE  Life'
<1>1. /\ wpc[t] = "handle" /\ thr[h] = t /\ ready[h] # {} /\ upc' = upc /\ h \in On(t)
      /\ Selected(h) /\ \A g \in Handlers : Selected(g)
  BY DEF HandleKey, pool, Life, On
<1>2. /\ thr \in [Handlers -> 0 .. MaxThreads] /\ chan \in [Handlers -> Channels]
      /\ key \in [Handlers -> Keys] /\ ready \in [Handlers -> SUBSET Ops]
      /\ inbox \in [Handlers -> BOOLEAN] /\ wpc \in [Threads -> {"none", "check", "dispatch",
            "select", "handle", "exited", "dead"}]
      /\ Accepted \subseteq Handlers /\ Users \subseteq Handlers /\ Accepted \cap Users = {}
      /\ restarted \cap Accepted = {} /\ t # MaxThreads
  BY ParametersAssumption DEF Types, HandlerTypes, PeerTypes, ThreadTypes, Handlers, Threads
<1>3. ASSUME NextKey(t, h)
      PROVE  ready' = [ready EXCEPT ![h] = {}] /\ \A s \in Threads : wpc'[s] = "dead" => wpc[s] = "dead"
  BY <1>2, <1>3 DEF NextKey, WorkerGoes
<1>4. ASSUME Dies(t)
      PROVE  ready' = ready /\ \A s \in Threads : wpc'[s] = "dead" => wpc[s] = "dead" \/ s = t
  BY <1>2, <1>4 DEF Dies, WorkerGoes
<1>5. CASE HandleCancelled(t, h)
  <2>1. /\ key[h] = "cancelled" /\ Dies(t)
        /\ UNCHANGED <<thr, chan, key, adapterless, history, inbox, eof, reset>>
    BY <1>5 DEF HandleCancelled, peer
  <2>2. Reason(h)'
    BY <1>1, <2>1 DEF Reason, Selected, history
  <2>3. \A g \in Handlers : Selected(g)' /\ (Reason(g) => Reason(g)')
    BY <1>1, <1>4, <2>1 DEF Reason, Selected, history
  <2>4. ThreadsDieByMisuse'
    BY <1>1, <1>4, <2>1, <2>2, <2>3, DeadStayDead DEF history
  <2>5. QED
    BY <1>1, <2>1, <2>3, <2>4 DEF Life, Threadless
<1>6. CASE HandleAccept(t, h)
  <2>1. NextKey(t, h) /\ UNCHANGED <<history, inbox, eof, reset>> /\ adapterless \subseteq adapterless'
    BY <1>6 DEF HandleAccept
  <2>2. \/ UNCHANGED <<thr, chan, key>>
        \/ \E s \in Accepted : /\ chan[s] = "none" /\ thr' = [thr EXCEPT ![s] = t]
                               /\ chan' = [chan EXCEPT ![s] = "connected"]
                               /\ key' = [key EXCEPT ![s] = "valid"]
    BY <1>6 DEF HandleAccept
  <2>3. \A g \in Handlers : thr[g] # MaxThreads => thr'[g] = thr[g]
    BY <1>2, <2>2 DEF Life, Threadless
  <2>4. \A g \in Handlers : Selected(g)' /\ (Reason(g) => Reason(g)')
    BY <1>1, <1>2, <1>3, <2>1, <2>2 DEF Reason, Selected, history
  <2>5. ThreadsDieByMisuse'
    BY <1>3, <2>1, <2>3, <2>4, DeadStayDead DEF history
  <2>6. Threadless'
    BY <1>1, <1>2, <2>2 DEF Life, Threadless
  <2>7. QED
    BY <2>4, <2>5, <2>6 DEF Life
<1>7. ASSUME UNCHANGED <<thr, adapterless>>, thrown \subseteq thrown',
             \A s \in Accepted : chan'[s] = "none" => chan[s] = "none",
             \A g \in Handlers : Selected(g)' /\ (Reason(g) => Reason(g)'),
             NextKey(t, h) \/ (Dies(t) /\ (t \in thrown' \/ Reason(h)'))
      PROVE  Life'
  <2>1. \A s \in Threads : wpc'[s] = "dead" =>
           wpc[s] = "dead" \/ s \in thrown' \/ \E g \in On(s) : Reason(g)'
    BY <1>1, <1>3, <1>4, <1>7
  <2>2. ThreadsDieByMisuse'
    BY <1>7, <2>1, DeadStayDead
  <2>3. QED
    BY <1>1, <1>7, <2>2 DEF Life, Threadless
<1>8. ASSUME CloseThrows(t), UNCHANGED <<thr, adapterless, inbox, eof, reset, restarted>>,
             \A s \in Accepted : chan'[s] = "none" => chan[s] = "none"
      PROVE  Life'
  <2>1. Dies(t) /\ thrown' = thrown \cup {t}
    BY <1>8, Throws
  <2>2. PICK g \in Handlers :
          /\ key' = [key EXCEPT ![g] = IF @ = "valid" THEN "cancelled" ELSE @]
          /\ misused' = IF ready[g] # {} THEN misused \cup {g} ELSE misused
    BY <1>8, Throws
  <2>3. \A f \in Handlers : Selected(f)' /\ (Reason(f) => Reason(f)')
    BY <1>1, <1>2, <1>4, <1>8, <2>1, <2>2 DEF Selected, Reason
  <2>4. QED
    BY <1>7, <1>8, <2>1, <2>3
<1>9. ASSUME UNCHANGED <<thr, adapterless, eof, reset, restarted, thrown>>,
             inbox' = inbox \/ (inbox' = [inbox EXCEPT ![h] = FALSE] /\ h \notin adapterless),
             \A s \in Accepted : chan'[s] = "none" => chan[s] = "none",
             key' = key \/ Cancelled(h),
             \/ NextKey(t, h) /\ misused' = misused
             \/ Dies(t) /\ Misused(h) /\ inbox' = inbox
      PROVE  Life'
  <2>1. misused \subseteq misused' /\ (NextKey(t, h) \/ (Dies(t) /\ h \in misused'))
    BY <1>1, <1>9 DEF Misused
  <2>2. \A g \in Handlers : Reason(g) => Reason(g)'
    BY <1>2, <1>9, <2>1 DEF Reason, Cancelled
  <2>3. \A g \in Handlers : Selected(g)'
    BY <1>1, <1>2, <1>3, <1>4, <1>9, <2>1 DEF Selected, Cancelled
  <2>4. QED
    BY <1>7, <1>9, <2>1, <2>2, <2>3 DEF Reason
<1>10. CASE HandleConnected(t, h)
  <2>1. /\ UNCHANGED <<thr, adapterless, inbox, eof, reset, restarted>>
        /\ \E c \in {"connected", "closed"} : chan' = [chan EXCEPT ![h] = c]
        /\ \/ CloseThrows(t)
           \/ /\ key' = key \/ Cancelled(h)
              /\ thrown' = thrown
              /\ (NextKey(t, h) /\ misused' = misused) \/ (Dies(t) /\ Misused(h))
    BY <1>10 DEF HandleConnected, Closed, peer, history
  <2>2. \A s \in Accepted : chan'[s] = "none" => chan[s] = "none"
    BY <1>2, <2>1
  <2>3. QED
    BY <1>8, <1>9, <2>1, <2>2
<1>11. CASE HandleRead(t, h)
  <2>1. UNCHANGED <<thr, adapterless, eof, reset>> /\ "READ" \in ready[h]
    BY <1>11 DEF HandleRead
  <2>2. CASE h \in adapterless /\ Dies(t) /\ UNCHANGED <<chan, key, inbox, history>>
    <3>1. Reason(h)'
      BY <1>1, <2>1, <2>2 DEF Reason, Selected
    <3>2. \A g \in Handlers : Selected(g)' /\ (Reason(g) => Reason(g)')
      BY <1>1, <1>4, <2>1, <2>2 DEF Reason, Selected, history
    <3>3. QED
      BY <1>7, <2>1, <2>2, <3>1, <3>2 DEF history
  <2>3. CASE /\ h \notin adapterless /\ NextKey(t, h) /\ UNCHANGED history
             /\ inbox' = [inbox EXCEPT ![h] = FALSE]
             /\ chan' = chan \/ chan' = [chan EXCEPT ![h] = "closed"]
             /\ key' = key \/ Cancelled(h)
    <3>1. \A s \in Accepted : chan'[s] = "none" => chan[s] = "none"
      BY <1>2, <2>3
    <3>2. QED
      BY <1>9, <2>1, <2>3, <3>1 DEF history
  <2>4. CASE CloseThrows(t) /\ UNCHANGED <<chan, inbox, restarted>>
    BY <1>8, <2>1, <2>4
  <2>5. QED
    BY <1>11, <2>2, <2>3, <2>4 DEF HandleRead, Closed
<1>12. CASE HandleWrite(t, h)
  <2>1. UNCHANGED <<thr, adapterless, inbox, eof, reset>>
    BY <1>12 DEF HandleWrite, peer
  <2>2. CASE /\ NextKey(t, h) /\ UNCHANGED history
             /\ chan' = chan \/ chan' = [chan EXCEPT ![h] = "closed"]
             /\ key' = key \/ Cancelled(h)
    <3>1. \A s \in Accepted : chan'[s] = "none" => chan[s] = "none"
      BY <1>2, <2>2
    <3>2. QED
      BY <1>9, <2>1, <2>2, <3>1 DEF history
  <2>3. CASE CloseThrows(t) /\ UNCHANGED <<chan, restarted>>
    BY <1>8, <2>1, <2>3
  <2>4. QED
    BY <1>12, <2>2, <2>3 DEF HandleWrite, Closed
<1>13. QED
  BY <1>5, <1>6, <1>10, <1>11, <1>12 DEF HandleKey

LEMMA NextLife ==
  ASSUME Types, Plugs, Life, [Next]_vars
  PROVE  Life'
<1>1. CASE UNCHANGED vars
  BY <1>1 DEF vars, pool, manager, threads, handler, history, peer, Life, Threadless, Selected,
              ThreadsDieByMisuse, On
<1>2. CASE Next
  BY <1>2, GetLife, StartLife, DispatchLife, LoopLife, KeyLife, OutsideLife, DestroyLife
     DEF Next, UserStep, WorkerStep, DestroyStep
<1>3. QED
  BY <1>1, <1>2

-----------------------------------------------------------------------------
IInv == Types /\ Pool /\ Plugs /\ Life

\* The invariant from which the others follow: the types, the index of the pool,
\* the events posted and what is known of handlers and threads hold in every state of the
\* framework (java_netprogramming: ThreadPool, IOThread, Poller and handlers).
THEOREM Invariance == Spec => []IInv
<1>1. Init => IInv
  BY InitTypes, InitPool, InitPlugs, InitLife DEF IInv
<1>2. IInv /\ [Next]_vars => IInv'
  BY NextTypes, NextPool, NextPlugs, NextLife DEF IInv
<1>3. QED
  BY <1>1, <1>2, PTL DEF Spec

\* getIOThread without a lock is round robin as long as no two calls overlap:
\* the variables have their types, none of the calls so far has been an
\* exception, and the next takes the thread after the last one's.
THEOREM PoolGoesRound == Spec => []PoolHandsOut
<1>1. IInv => PoolHandsOut
  <2> SUFFICES ASSUME IInv PROVE PoolHandsOut
    OBVIOUS
  <2> USE DEF IInv
  <2>1. calls \in 0 .. Cardinality(Users)
    <3>1. Cardinality(Called) \in Nat /\ Cardinality(Called) <= Cardinality(Users)
      <4>1. Called \subseteq Users
        BY DEF Called
      <4>2. QED
        BY <4>1, ParametersAssumption, FS_Subset, FS_CardinalityType
    <3>2. Cardinality(Users) \in Nat
      BY ParametersAssumption, FS_CardinalityType
    <3>3. QED
      BY <3>1, <3>2 DEF Pool
  <2>2. TypeOK
    BY <2>1 DEF Types, PoolTypes, ThreadTypes, HandlerTypes, PeerTypes, UserPlaces, Channels, Keys,
                TypeOK
  <2>3. ~overlapped => /\ \A u \in Users : upc[u] = "failed" => thr[u] # MaxThreads
                       /\ (\A u \in Users : ~InCall(u)) => cur_index = calls % thr_num
    BY DEF Pool, Index
  <2>4. QED
    BY <2>2, <2>3 DEF PoolHandsOut
<1>2. QED
  BY <1>1, Invariance, PTL

\* A thread of the pool dies only of a key that the application closed between
\* its selection and its turn, or in its own onConnected; of a connection that
\* onAccept gave no adapter and that has something to read; of a close() that
\* throws in one of its callbacks (an Acceptor's, or that of a connection made
\* at once); or of an Acceptor started again with the key of its first start
\* cancelled (SocketHandler.java:26-31, 73-80).
THEOREM OnlyMisuseKills == Spec => []ThreadsDieByMisuse
<1>1. IInv => ThreadsDieByMisuse
  BY DEF IInv, Life
<1>2. QED
  BY <1>1, Invariance, PTL

-----------------------------------------------------------------------------
(* The stream programs: RoundLeavesNothing and ParserKeepsStep.  While no    *)
(* read has ended inside a message, a connection carries one at most: the    *)
(* request, or what there is of its answer; and the NIO server's buffer      *)
(* holds what it has read of the next length and no more.                    *)

\* What a client has sent comes to its rounds so far, this one included.
Due(c) == Rounds - left[c] + IF cpc[c] \in {"recv", "body", "garbage", "failed"} THEN 1 ELSE 0
Room(c) == MsgLen * Due(c)
Sent(c) == up[c] + sbuf[c] <= Room(c)

\* A client asks only while it has requests to make.
Asking(c) ==
  /\ cpc[c] \in {"start", "send", "recv", "body", "garbage", "failed"} => left[c] >= 1
  /\ cpc[c] \in {"absent", "start"} => epc[c] = "none"

\* The NIO server has looked at everything but the start of the next length.
Parsed(c) ==
  /\ S.serves = "selector" /\ c \notin body_split => sbuf[c] = spos[c]
  /\ S.serves # "selector" => sbuf[c] = 0 /\ c \notin op_write

\* While no read has ended inside a message there is one on its way at most: a
\* request, or what there is of its answer.
OneMessage(c) == c \notin split =>
  /\ cpos[c] = 0 /\ spos[c] = 0
  /\ cpc[c] \notin {"body", "garbage"}
  /\ cpc[c] = "recv" => got[c] = 0
  /\ cpc[c] \in {"absent", "start"} =>
       up[c] = 0 /\ down[c] = 0 /\ spend[c] = 0 /\ c \notin op_write
  /\ PeerOpen(c) /\ cpc[c] = "send" =>
       up[c] = 0 /\ down[c] = 0 /\ spend[c] = 0 /\ c \notin op_write
  /\ PeerOpen(c) /\ cpc[c] = "recv" =>
       /\ up[c] <= MsgLen /\ down[c] + spend[c] <= MsgLen
       /\ up[c] > 0 => down[c] = 0 /\ spend[c] = 0
       /\ c \in op_write => spend[c] > 0

Keeps(c) == Asking(c) /\ Sent(c) /\ Parsed(c) /\ OneMessage(c)

StreamsIInv == StreamTypeOK /\ \A c \in Clients : Keeps(c)

-----------------------------------------------------------------------------
(* Lengths and positions *)

Places == {"absent", "start", "send", "recv", "body", "garbage", "done", "failed"}
Phases == {"none", "backlog", "queued", "read", "drain", "abandoned", "closed"}

\* What the parameters and the scenario say.
Known ==
  /\ HDR \in Nat \ {0} /\ MsgLen \in Nat /\ HDR < MsgLen /\ Rounds \in Nat \ {0}
  /\ RECV_BUF \in Nat /\ MsgLen <= RECV_BUF /\ Rounds * MsgLen \in Nat
  /\ MsgLen <= Rounds * MsgLen
  /\ C.rounds \in 1 .. Rounds

LEMMA RunKnown == ASSUME pair \in StreamScenarios PROVE Known
<1>1. HDR \in Nat \ {0} /\ BODY \in Nat \ {0} /\ Rounds \in Nat \ {0} /\ RECV_BUF \in Nat
  BY StreamsAssumption
<1>2. MsgLen \in Nat /\ HDR < MsgLen /\ MsgLen = HDR + BODY
  BY <1>1 DEF MsgLen
<1>3. \A a, b \in Nat : a * b \in Nat /\ (a >= 1 => a * b >= b)
  OBVIOUS
<1>4. Rounds * MsgLen \in Nat /\ MsgLen <= Rounds * MsgLen
  BY <1>1, <1>2, <1>3
<1>5. RECV_BUF > Rounds * MsgLen
  BY <1>2, StreamsAssumption
<1>6. <<pair.client, pair.server>> \in Pairs
  BY StreamsAssumption DEF Lines
<1>7. pair.client \in {TCPClient, TCPClientIO, TCPClientMultiThread, NonblockTCPClient, AsyncClient,
                       AsyncClientFuture}
  BY <1>6 DEF Pairs
<1>8. C.rounds \in {1, Rounds}
  BY <1>7 DEF C, TCPClient, TCPClientIO, TCPClientMultiThread,
     NonblockTCPClient, AsyncClient,
     AsyncClientFuture
<1>9. QED
  BY <1>1, <1>2, <1>4, <1>5, <1>8 DEF Known

LEMMA Mod == ASSUME NEW m \in Nat \ {0}, NEW x \in Nat PROVE x % m \in 0 .. m - 1
OBVIOUS

LEMMA ModSmall == ASSUME NEW m \in Nat \ {0}, NEW x \in 0 .. m - 1 PROVE x % m = x
OBVIOUS

LEMMA ModSelf == ASSUME NEW m \in Nat \ {0} PROVE m % m = 0
OBVIOUS

\* Reads that end between two messages have read one at least.
LEMMA WholeMessage ==
  ASSUME NEW m \in Nat \ {0}, NEW n \in Nat \ {0}, n % m = 0 PROVE n >= m
BY ModSmall

\* What a step needs to know.
Now == StreamsIInv /\ Known

LEMMA Typed ==
  ASSUME Now
  PROVE  /\ cpc \in [Clients -> Places] /\ left \in [Clients -> 0 .. Rounds]
         /\ got \in [Clients -> 0 .. RECV_BUF] /\ lim \in [Clients -> MsgLen .. RECV_BUF]
         /\ up \in [Clients -> Nat] /\ down \in [Clients -> Nat]
         /\ cpos \in [Clients -> 0 .. MsgLen - 1] /\ spos \in [Clients -> 0 .. MsgLen - 1]
         /\ sbuf \in [Clients -> Nat] /\ spend \in [Clients -> 0 .. MsgLen]
         /\ epc \in [Clients -> Phases]
         /\ split \subseteq Clients /\ body_split \subseteq split /\ op_write \subseteq Clients
<1>1. StreamTypeOK /\ Rounds * MsgLen \in Nat
  BY DEF Now, StreamsIInv, Known
<1>2. up \in [Clients -> 0 .. Rounds * MsgLen] /\ sbuf \in [Clients -> 0 .. Rounds * MsgLen]
  BY <1>1 DEF StreamTypeOK
<1>3. up \in [Clients -> Nat] /\ sbuf \in [Clients -> Nat]
  BY <1>1, <1>2
<1>4. QED
  BY <1>1, <1>3 DEF StreamTypeOK, Places, Phases

\* The types, but for the bounds of what is on its way.
Shapes ==
  /\ pair \in StreamScenarios
  /\ cpc \in [Clients -> Places] /\ left \in [Clients -> 0 .. Rounds]
  /\ got \in [Clients -> 0 .. RECV_BUF] /\ lim \in [Clients -> MsgLen .. RECV_BUF]
  /\ up \in [Clients -> Nat] /\ down \in [Clients -> Nat]
  /\ cpos \in [Clients -> 0 .. MsgLen - 1] /\ spos \in [Clients -> 0 .. MsgLen - 1]
  /\ sbuf \in [Clients -> Nat] /\ spend \in [Clients -> 0 .. MsgLen]
  /\ epc \in [Clients -> Phases] /\ spc \in {"accept", "serve", "deaf", "exited"}
  /\ split \subseteq Clients /\ body_split \subseteq split /\ op_write \subseteq Clients

LEMMA Scaled ==
  ASSUME NEW a \in Nat, NEW b \in Nat, NEW k \in Nat, b <= k PROVE a * b <= k * a /\ a * b \in Nat
<1>1. PICK d \in Nat : k = b + d
  <2>1. k - b \in Nat /\ k = b + (k - b)
    OBVIOUS
  <2>2. QED
    BY <2>1
<1>2. k * a = a * b + a * d /\ a * d \in Nat /\ a * b \in Nat
  BY <1>1
<1>3. QED
  BY <1>2

LEMMA Longer == ASSUME NEW a \in Nat, NEW b \in Nat PROVE a * (b + 1) = a * b + a
OBVIOUS

\* Every connection.
All == \A c \in Clients : Keeps(c)

LEMMA BoundsFollow == Known /\ Shapes /\ All => StreamTypeOK
<1> SUFFICES ASSUME Known, Shapes, All PROVE StreamTypeOK
  OBVIOUS
<1>1. ASSUME NEW c \in Clients PROVE up[c] + sbuf[c] <= Rounds * MsgLen
  <2>1. left[c] \in 0 .. Rounds /\ Asking(c) /\ Sent(c)
    BY DEF Shapes, Keeps, All
  <2>2. Due(c) \in Nat /\ Due(c) <= Rounds
    BY <2>1 DEF Due, Asking, Known
  <2>3. MsgLen * Due(c) <= Rounds * MsgLen /\ MsgLen * Due(c) \in Nat
    BY <2>2, Scaled DEF Known
  <2>4. up[c] + sbuf[c] <= Room(c) /\ up[c] \in Nat /\ sbuf[c] \in Nat
    BY <2>1 DEF Sent, Shapes
  <2>5. QED
    BY <2>3, <2>4 DEF Room, Known
<1>2. ASSUME NEW c \in Clients PROVE up[c] \in 0 .. Rounds * MsgLen /\ sbuf[c] \in 0 .. Rounds * MsgLen
  <2>1. up[c] \in Nat /\ sbuf[c] \in Nat /\ Rounds * MsgLen \in Nat
    BY DEF Shapes, Known
  <2>2. QED
    BY <1>1, <2>1
<1>3. up \in [Clients -> 0 .. Rounds * MsgLen] /\ sbuf \in [Clients -> 0 .. Rounds * MsgLen]
  BY <1>2 DEF Shapes
<1>4. QED
  BY <1>3 DEF Shapes, StreamTypeOK, Places, Phases

\* What a step says of the connections it is not about.
Same(d) ==
  /\ cpc'[d] = cpc[d] /\ left'[d] = left[d] /\ got'[d] = got[d]
  /\ up'[d] = up[d] /\ down'[d] = down[d] /\ cpos'[d] = cpos[d] /\ spos'[d] = spos[d]
  /\ sbuf'[d] = sbuf[d] /\ spend'[d] = spend[d]
  /\ (d \in split' <=> d \in split) /\ (d \in body_split' <=> d \in body_split)
  /\ d \in op_write' => d \in op_write

\* A connection goes on to its end.
Closing(d) ==
  /\ epc[d] = "none" => epc'[d] = "none"
  /\ PeerOpen(d)' => PeerOpen(d)

LEMMA OthersKeep ==
  ASSUME Now, pair' = pair, NEW d \in Clients, Same(d), Closing(d) PROVE Keeps(d)'
<1>1. Keeps(d)
  BY DEF Now, StreamsIInv
<1>2. Asking(d)'
  BY <1>1 DEF Keeps, Asking, Same, Closing
<1>3. Due(d)' = Due(d)
  BY DEF Due, Same
<1>4. Sent(d)'
  BY <1>1, <1>3 DEF Keeps, Sent, Room, Same
<1>5. Parsed(d)'
  BY <1>1 DEF Keeps, Parsed, S, Same
<1>6. OneMessage(d)'
  BY <1>1 DEF Keeps, OneMessage, Same, Closing
<1>7. QED
  BY <1>2, <1>4, <1>5, <1>6 DEF Keeps

LEMMA IInvFollows ==
  ASSUME Now, pair' = pair, Shapes', \A d \in Clients : Keeps(d)' PROVE StreamsIInv'
<1>1. Known'
  BY DEF Now, Known, C
<1>2. All'
  BY DEF All
<1>3. StreamTypeOK'
  BY <1>1, <1>2, BoundsFollow, PTL
<1>4. QED
  BY <1>3 DEF StreamsIInv

-----------------------------------------------------------------------------
(* The clients *)

LEMMA StepFollows ==
  ASSUME Now, pair' = pair, NEW c \in Clients, Shapes', Keeps(c)',
         \A d \in Clients : d # c => Same(d) /\ Closing(d)
  PROVE  StreamsIInv'
<1>1. ASSUME NEW d \in Clients PROVE Keeps(d)'
  <2>1. CASE d = c
    BY <2>1
  <2>2. CASE d # c
    BY <2>2, OthersKeep
  <2>3. QED
    BY <2>1, <2>2
<1>2. QED
  BY <1>1, IInvFollows

\* A client sends at most a message for a round it begins.
LEMMA ClientKeeps ==
  ASSUME Now, NEW c \in Clients, Shapes',
         UNCHANGED <<pair, server, body_split>>,
         \A d \in Clients : d # c => Same(d) /\ epc'[d] = epc[d],
         Asking(c)', OneMessage(c)',
         \/ up'[c] = up[c] /\ Due(c)' = Due(c)
         \/ up'[c] <= up[c] + MsgLen /\ Due(c)' = Due(c) + 1
  PROVE  StreamsIInv'
<1>1. Keeps(c) /\ up[c] \in Nat /\ up'[c] \in Nat /\ sbuf[c] \in Nat /\ MsgLen \in Nat
      /\ left[c] \in 0 .. Rounds /\ Rounds \in Nat
  BY Typed DEF Now, StreamsIInv, Shapes, Known
<1>2. sbuf' = sbuf /\ spos' = spos /\ op_write' = op_write /\ S' = S
  BY DEF server, S
<1>3. Parsed(c)'
  BY <1>1, <1>2 DEF Keeps, Parsed
<1>4. Sent(c)'
  <2>1. Due(c) \in Nat
    BY <1>1 DEF Due, Keeps, Asking
  <2>2. MsgLen * (Due(c) + 1) = MsgLen * Due(c) + MsgLen /\ MsgLen * Due(c) \in Nat
    BY <1>1, <2>1, Longer, Scaled
  <2>3. up[c] + sbuf[c] <= MsgLen * Due(c)
    BY <1>1 DEF Keeps, Sent, Room
  <2>4. up'[c] + sbuf[c] <= MsgLen * Due(c)'
    <3>1. CASE up'[c] = up[c] /\ Due(c)' = Due(c)
      BY <2>3, <3>1
    <3>2. CASE up'[c] <= up[c] + MsgLen /\ Due(c)' = Due(c) + 1
      BY <1>1, <2>2, <2>3, <3>2
    <3>3. QED
      BY <3>1, <3>2
  <2>5. QED
    BY <1>2, <2>4 DEF Sent, Room, MsgLen
<1>5. Keeps(c)'
  BY <1>3, <1>4 DEF Keeps
<1>6. \A d \in Clients : d # c => Same(d) /\ Closing(d)
  BY DEF Closing, PeerOpen
<1>7. QED
  BY <1>5, <1>6, StepFollows

LEMMA ConnectStep == ASSUME Now, NEW c \in Clients, StreamConnect(c) PROVE StreamsIInv'
<1>1. UNCHANGED <<pair, left, got, lim, cpos, spos, sbuf, spend, op_write, up, down, spc, split, body_split>>
  BY DEF StreamConnect, server, wire
<1>2. \/ cpc' = [cpc EXCEPT ![c] = "failed"] /\ epc' = epc
      \/ cpc' = [cpc EXCEPT ![c] = "send"] /\ epc' = [epc EXCEPT ![c] = "backlog"]
  BY DEF StreamConnect
<1>3. cpc[c] = "start" /\ left[c] \in 0 .. Rounds /\ Rounds \in Nat /\ up[c] \in Nat /\ MsgLen \in Nat
  BY Typed DEF StreamConnect, Now, Known
<1>4. Keeps(c)
  BY DEF Now, StreamsIInv
<1>5. \/ cpc'[c] = "failed" /\ epc'[c] = epc[c]
      \/ cpc'[c] = "send"
  BY <1>2, Typed
<1>6. \A d \in Clients : d # c => cpc'[d] = cpc[d] /\ epc'[d] = epc[d]
  BY <1>2, Typed
<1>7. cpc' \in [Clients -> Places] /\ epc' \in [Clients -> Phases]
  BY <1>2, Typed DEF Places, Phases
<1>8. Shapes'
  <2>1. Shapes
    BY Typed DEF Shapes, Now, StreamsIInv, StreamTypeOK
  <2>2. QED
    BY <1>1, <1>7, <2>1 DEF Shapes, MsgLen
<1>9. \A d \in Clients : d # c => Same(d) /\ epc'[d] = epc[d]
  BY <1>1, <1>6 DEF Same
<1>10. Asking(c)'
  BY <1>1, <1>3, <1>4, <1>5 DEF Keeps, Asking
<1>11. OneMessage(c)'
  <2>1. c \notin split => cpos[c] = 0 /\ spos[c] = 0 /\ up[c] = 0 /\ down[c] = 0 /\ spend[c] = 0
                           /\ c \notin op_write
    BY <1>3, <1>4 DEF Keeps, OneMessage
  <2>2. cpc'[c] \in {"failed", "send"}
    BY <1>5
  <2>3. QED
    BY <1>1, <2>1, <2>2 DEF OneMessage
<1>12. Due(c) = Rounds - left[c] /\ Due(c)' \in {Rounds - left[c], Rounds - left[c] + 1}
  BY <1>1, <1>3, <1>5 DEF Due
<1>13. \/ up'[c] = up[c] /\ Due(c)' = Due(c)
       \/ up'[c] <= up[c] + MsgLen /\ Due(c)' = Due(c) + 1
  BY <1>1, <1>3, <1>12
<1>14. UNCHANGED <<pair, server, body_split>>
  BY <1>1 DEF server
<1>15. QED
  BY <1>8, <1>9, <1>10, <1>11, <1>13, <1>14, ClientKeeps

LEMMA Shaped == ASSUME Now PROVE Shapes
BY Typed DEF Shapes, Now, StreamsIInv, StreamTypeOK

\* A client that is open has been connected, and has a request to make.
LEMMA OpenHasARequest ==
  ASSUME Now, NEW c \in Clients, ClientOpen(c) \/ Waiting(c)
  PROVE  /\ cpc[c] \in {"send", "recv", "body", "garbage"} /\ left[c] \in 1 .. Rounds
         /\ Rounds \in Nat /\ MsgLen \in Nat /\ up[c] \in Nat
         /\ Keeps(c)
         /\ Due(c) = Rounds - left[c] + IF cpc[c] = "send" THEN 0 ELSE 1
<1>1. Keeps(c) /\ left[c] \in 0 .. Rounds /\ up[c] \in Nat /\ Rounds \in Nat /\ MsgLen \in Nat
  BY Typed DEF Now, StreamsIInv, Known
<1>2. cpc[c] \in {"send", "recv", "body", "garbage"}
  BY DEF ClientOpen, Waiting
<1>3. left[c] \in 1 .. Rounds
  BY <1>1, <1>2 DEF Keeps, Asking
<1>4. QED
  BY <1>1, <1>2, <1>3 DEF Due

LEMMA SendStep == ASSUME Now, NEW c \in Clients, Send(c) PROVE StreamsIInv'
<1>1. UNCHANGED <<pair, left, lim, cpos, spos, sbuf, spend, op_write, down, epc, spc, split, body_split>>
  BY DEF Send, server
<1>2. cpc[c] = "send" /\ PeerOpen(c)
  BY DEF Send
<1>3. left[c] \in 1 .. Rounds /\ Rounds \in Nat /\ MsgLen \in Nat /\ up[c] \in Nat /\ Keeps(c)
      /\ Due(c) = Rounds - left[c]
  BY <1>2, OpenHasARequest DEF ClientOpen
<1>4. PICK n \in 1 .. MsgLen : up' = [up EXCEPT ![c] = @ + n]
  <2>1. MsgLen \in 1 .. MsgLen
    BY DEF Now, Known
  <2>2. QED
    BY <2>1 DEF Send
<1>5. cpc' = [cpc EXCEPT ![c] = "recv"] /\ got' = [got EXCEPT ![c] = 0]
  BY DEF Send
<1>6. cpc'[c] = "recv" /\ got'[c] = 0 /\ up'[c] = up[c] + n
  BY <1>4, <1>5, Typed
<1>7. \A d \in Clients : d # c => cpc'[d] = cpc[d] /\ got'[d] = got[d] /\ up'[d] = up[d]
  BY <1>4, <1>5, Typed
<1>8. cpc' \in [Clients -> Places] /\ got' \in [Clients -> 0 .. RECV_BUF]
  BY <1>5, Typed DEF Places, Now, Known
<1>9. up' \in [Clients -> Nat]
  <2>1. up[c] + n \in Nat
    BY <1>3
  <2>2. QED
    BY <1>4, <2>1, Typed
<1>10. Shapes'
  BY <1>1, <1>8, <1>9, Shaped DEF Shapes, MsgLen
<1>11. \A d \in Clients : d # c => Same(d) /\ epc'[d] = epc[d]
  BY <1>1, <1>7 DEF Same
<1>12. Asking(c)'
  BY <1>1, <1>3, <1>6 DEF Asking
<1>13. OneMessage(c)'
  <2>1. c \notin split =>
          /\ cpos[c] = 0 /\ spos[c] = 0 /\ up[c] = 0 /\ down[c] = 0 /\ spend[c] = 0
          /\ c \notin op_write
    BY <1>2, <1>3 DEF Keeps, OneMessage
  <2>2. c \notin split => up'[c] <= MsgLen /\ down[c] + spend[c] <= MsgLen
    BY <1>3, <1>6, <2>1
  <2>3. QED
    BY <1>1, <1>6, <2>1, <2>2 DEF OneMessage, MsgLen
<1>14. Due(c)' = Due(c) + 1 /\ up'[c] <= up[c] + MsgLen
  BY <1>1, <1>3, <1>6 DEF Due
<1>15. UNCHANGED <<pair, server, body_split>>
  BY <1>1 DEF server
<1>16. QED
  BY <1>10, <1>11, <1>12, <1>13, <1>14, <1>15, ClientKeeps

\* The client gives up: it keeps its request, or it had not sent it.
LEMMA GivesUp ==
  ASSUME Now, NEW c \in Clients, ClientOpen(c),
         cpc' = [cpc EXCEPT ![c] = "failed"],
         UNCHANGED <<pair, left, got, lim, cpos, server, wire, epc, spc, split, body_split>>
  PROVE  StreamsIInv'
<1>1. UNCHANGED <<spos, sbuf, spend, op_write, up, down>>
  BY DEF server, wire
<1>2. left[c] \in 1 .. Rounds /\ Rounds \in Nat /\ MsgLen \in Nat /\ up[c] \in Nat /\ Keeps(c)
      /\ cpc[c] \in {"send", "recv", "body", "garbage"}
      /\ Due(c) = Rounds - left[c] + IF cpc[c] = "send" THEN 0 ELSE 1
  BY OpenHasARequest
<1>3. cpc'[c] = "failed" /\ cpc' \in [Clients -> Places]
  BY Typed DEF Places
<1>4. \A d \in Clients : d # c => cpc'[d] = cpc[d]
  BY Typed
<1>5. Shapes'
  BY <1>1, <1>3, Shaped DEF Shapes, MsgLen
<1>6. \A d \in Clients : d # c => Same(d) /\ epc'[d] = epc[d]
  BY <1>1, <1>4 DEF Same
<1>7. Asking(c)'
  BY <1>2, <1>3 DEF Asking
<1>8. OneMessage(c)'
  BY <1>1, <1>2, <1>3 DEF Keeps, OneMessage
<1>9. up'[c] = up[c] /\ up[c] <= up[c] + MsgLen /\ Due(c)' = Rounds - left[c] + 1
  BY <1>1, <1>2, <1>3 DEF Due
<1>10. Due(c)' = Due(c) \/ Due(c)' = Due(c) + 1
  BY <1>2, <1>9
<1>11. QED
  BY <1>1, <1>5, <1>6, <1>7, <1>8, <1>9, <1>10, ClientKeeps

LEMMA ClientErrorStep == ASSUME Now, NEW c \in Clients, ClientError(c) PROVE StreamsIInv'
BY GivesUp DEF ClientError

LEMMA SendClosedStep == ASSUME Now, NEW c \in Clients, SendClosed(c) PROVE StreamsIInv'
<1>1. CASE cpc' = [cpc EXCEPT ![c] = "failed"] /\ UNCHANGED got
  BY <1>1, GivesUp DEF SendClosed, ClientOpen
<1>2. CASE cpc' = [cpc EXCEPT ![c] = "recv"] /\ got' = [got EXCEPT ![c] = 0]
  <2>1. UNCHANGED <<pair, left, lim, cpos, spos, sbuf, spend, op_write, up, down, epc, spc, split, body_split>>
    BY DEF SendClosed, server, wire
  <2>2. cpc[c] = "send" /\ ~PeerOpen(c)
    BY DEF SendClosed
  <2>3. left[c] \in 1 .. Rounds /\ Rounds \in Nat /\ MsgLen \in Nat /\ up[c] \in Nat /\ Keeps(c)
        /\ Due(c) = Rounds - left[c]
    BY <2>2, OpenHasARequest DEF ClientOpen
  <2>4. cpc'[c] = "recv" /\ got'[c] = 0
    BY <1>2, Typed
  <2>5. \A d \in Clients : d # c => cpc'[d] = cpc[d] /\ got'[d] = got[d]
    BY <1>2, Typed
  <2>6. cpc' \in [Clients -> Places] /\ got' \in [Clients -> 0 .. RECV_BUF]
    BY <1>2, Typed DEF Places, Now, Known
  <2>7. Shapes'
    BY <2>1, <2>6, Shaped DEF Shapes, MsgLen
  <2>8. \A d \in Clients : d # c => Same(d) /\ epc'[d] = epc[d]
    BY <2>1, <2>5 DEF Same
  <2>9. Asking(c)'
    BY <2>1, <2>3, <2>4 DEF Asking
  <2>10. OneMessage(c)'
    BY <2>1, <2>2, <2>3, <2>4 DEF Keeps, OneMessage, PeerOpen
  <2>11. Due(c)' = Due(c) + 1 /\ up'[c] <= up[c] + MsgLen
    BY <2>1, <2>3, <2>4 DEF Due
  <2>12. UNCHANGED <<pair, server, body_split>>
    BY <2>1 DEF server
  <2>13. QED
    BY <2>7, <2>8, <2>9, <2>10, <2>11, <2>12, ClientKeeps
<1>3. QED
  BY <1>1, <1>2 DEF SendClosed

LEMMA RoundEnds ==
  ASSUME Now, NEW c \in Clients, Waiting(c), FinishRound(c)
  PROVE  /\ cpc' \in [Clients -> Places] /\ left' \in [Clients -> 0 .. Rounds]
         /\ cpc'[c] \in {"done", "send"} /\ Due(c)' = Due(c)
         /\ cpc'[c] = "send" => left'[c] >= 1
         /\ \A d \in Clients : d # c => cpc'[d] = cpc[d] /\ left'[d] = left[d]
<1>1. left[c] \in 1 .. Rounds /\ Rounds \in Nat /\ Due(c) = Rounds - left[c] + 1
  BY OpenHasARequest DEF Waiting
<1>2. left' = [left EXCEPT ![c] = left[c] - 1]
      /\ cpc' = [cpc EXCEPT ![c] = IF left[c] = 1 THEN "done" ELSE "send"]
  BY DEF FinishRound
<1>3. left[c] - 1 \in 0 .. Rounds
  BY <1>1
<1>4. left'[c] = left[c] - 1 /\ cpc'[c] = (IF left[c] = 1 THEN "done" ELSE "send")
      /\ \A d \in Clients : d # c => cpc'[d] = cpc[d] /\ left'[d] = left[d]
  BY <1>2, Typed
<1>5. left' \in [Clients -> 0 .. Rounds]
  BY <1>2, <1>3, Typed
<1>6. cpc' \in [Clients -> Places]
  BY <1>2, Typed DEF Places
<1>7. Due(c)' = Rounds - (left[c] - 1)
  BY <1>1, <1>4 DEF Due
<1>8. QED
  BY <1>1, <1>4, <1>5, <1>6, <1>7

\* A read of the client's that ended between two messages has read one at least.
LEMMA TakesBytes ==
  ASSUME Now, NEW c \in Clients, NEW n \in 1 .. down[c], Take(c, n)
  PROVE  /\ down' \in [Clients -> Nat] /\ cpos' \in [Clients -> 0 .. MsgLen - 1]
         /\ split' \subseteq Clients /\ split \subseteq split'
         /\ down'[c] = down[c] - n
         /\ \A d \in Clients : d # c =>
              /\ down'[d] = down[d] /\ cpos'[d] = cpos[d] /\ (d \in split' <=> d \in split)
         /\ c \notin split' =>
              c \notin split /\ cpos[c] = 0 /\ cpos'[c] = 0 /\ n >= MsgLen
<1>1. down[c] \in Nat /\ cpos[c] \in 0 .. MsgLen - 1 /\ MsgLen \in Nat \ {0}
  BY Typed DEF Now, Known
<1>2. n \in Nat \ {0} /\ down[c] - n \in Nat /\ cpos[c] + n \in Nat
  BY <1>1
<1>3. (cpos[c] + n) % MsgLen \in 0 .. MsgLen - 1
  BY <1>1, <1>2, Mod
<1>4. down' = [down EXCEPT ![c] = down[c] - n]
      /\ cpos' = [cpos EXCEPT ![c] = (cpos[c] + n) % MsgLen]
      /\ split' = IF (cpos[c] + n) % MsgLen # 0 THEN split \cup {c} ELSE split
  BY DEF Take, Read
<1>5. down' \in [Clients -> Nat] /\ cpos' \in [Clients -> 0 .. MsgLen - 1]
  BY <1>2, <1>3, <1>4, Typed
<1>6. down'[c] = down[c] - n /\ cpos'[c] = (cpos[c] + n) % MsgLen
      /\ \A d \in Clients : d # c => down'[d] = down[d] /\ cpos'[d] = cpos[d]
  BY <1>4, Typed
<1>7. c \notin split' => c \notin split /\ cpos[c] = 0 /\ cpos'[c] = 0 /\ n >= MsgLen
  <2>1. ASSUME c \notin split' PROVE c \notin split /\ (cpos[c] + n) % MsgLen = 0
    BY <1>4, <2>1
  <2>2. ASSUME c \notin split PROVE cpos[c] = 0
    BY <2>2 DEF Now, StreamsIInv, Keeps, OneMessage
  <2>3. ASSUME c \notin split' PROVE n % MsgLen = 0
    <3>1. cpos[c] + n = n
      BY <1>2, <2>1, <2>2, <2>3
    <3>2. QED
      BY <2>1, <2>3, <3>1
  <2>4. QED
    BY <1>1, <1>2, <1>6, <2>1, <2>2, <2>3, WholeMessage
<1>8. split' \subseteq Clients /\ split \subseteq split'
      /\ \A d \in Clients : d # c => (d \in split' <=> d \in split)
  BY <1>4, Typed
<1>9. QED
  BY <1>5, <1>6, <1>7, <1>8

\* A read takes the answer, or it has ended inside a message.
LEMMA ReadKeeps ==
  ASSUME Now, NEW c \in Clients, Waiting(c), NEW n \in 1 .. down[c], Take(c, n),
         UNCHANGED <<pair, up, server, epc, spc, body_split>>,
         got' \in [Clients -> 0 .. RECV_BUF], lim' \in [Clients -> MsgLen .. RECV_BUF],
         \A d \in Clients : d # c => got'[d] = got[d],
         \/ FinishRound(c)
         \/ c \in split' /\ UNCHANGED left /\ cpc' \in [Clients -> Places]
            /\ cpc'[c] \in {"recv", "body", "garbage"}
            /\ \A d \in Clients : d # c => cpc'[d] = cpc[d]
  PROVE  StreamsIInv'
<1>1. UNCHANGED <<spos, sbuf, spend, op_write>>
  BY DEF server
<1>2. /\ down' \in [Clients -> Nat] /\ cpos' \in [Clients -> 0 .. MsgLen - 1]
      /\ split' \subseteq Clients /\ split \subseteq split' /\ down'[c] = down[c] - n
      /\ \A d \in Clients : d # c =>
           /\ down'[d] = down[d] /\ cpos'[d] = cpos[d] /\ (d \in split' <=> d \in split)
  BY TakesBytes
<1>3. c \notin split' => c \notin split /\ cpos[c] = 0 /\ cpos'[c] = 0 /\ n >= MsgLen
  BY TakesBytes
<1>4. left[c] \in 1 .. Rounds /\ Rounds \in Nat /\ MsgLen \in Nat /\ up[c] \in Nat /\ Keeps(c)
      /\ cpc[c] \in {"recv", "body", "garbage"} /\ Due(c) = Rounds - left[c] + 1
  BY OpenHasARequest DEF Waiting
<1>5. body_split \subseteq split'
  BY <1>2, Typed
<1>6. CASE FinishRound(c)
  <2>1. /\ cpc' \in [Clients -> Places] /\ left' \in [Clients -> 0 .. Rounds]
        /\ cpc'[c] \in {"done", "send"} /\ Due(c)' = Due(c)
        /\ cpc'[c] = "send" => left'[c] >= 1
        /\ \A d \in Clients : d # c => cpc'[d] = cpc[d] /\ left'[d] = left[d]
    BY <1>6, RoundEnds
  <2>2. Shapes'
    BY <1>1, <1>2, <1>5, <2>1, Shaped DEF Shapes, MsgLen
  <2>3. \A d \in Clients : d # c => Same(d) /\ epc'[d] = epc[d]
    BY <1>1, <1>2, <2>1 DEF Same
  <2>4. Asking(c)'
    BY <2>1 DEF Asking
  <2>5. OneMessage(c)'
    <3>1. SUFFICES ASSUME c \notin split' PROVE OneMessage(c)'
      BY DEF OneMessage
    <3>2. c \notin split /\ cpos'[c] = 0 /\ n >= MsgLen
      BY <1>3, <3>1
    <3>3. cpc[c] = "recv" /\ spos[c] = 0
          /\ (PeerOpen(c) => down[c] + spend[c] <= MsgLen)
          /\ (PeerOpen(c) /\ up[c] > 0 => down[c] = 0 /\ spend[c] = 0)
          /\ (PeerOpen(c) /\ c \in op_write => spend[c] > 0)
      BY <1>4, <3>2 DEF Keeps, OneMessage
    <3>4. down[c] \in Nat /\ spend[c] \in Nat /\ n <= down[c] /\ n \in Nat \ {0}
      BY Typed
    <3>5. PeerOpen(c) => up[c] = 0 /\ down[c] - n = 0 /\ spend[c] = 0 /\ c \notin op_write
      <4>1. SUFFICES ASSUME PeerOpen(c)
                     PROVE  up[c] = 0 /\ down[c] - n = 0 /\ spend[c] = 0 /\ c \notin op_write
        OBVIOUS
      <4>2. down[c] > 0
        BY <3>4
      <4>3. up[c] = 0
        BY <1>4, <3>3, <4>1, <4>2
      <4>4. down[c] + spend[c] <= MsgLen
        BY <3>3, <4>1
      <4>5. down[c] - n = 0 /\ spend[c] = 0
        BY <1>4, <3>2, <3>4, <4>4
      <4>6. QED
        BY <3>3, <4>1, <4>3, <4>5
    <3>6. QED
      BY <1>1, <1>2, <2>1, <3>2, <3>3, <3>5 DEF OneMessage, PeerOpen
  <2>6. QED
    BY <2>1, <2>2, <2>3, <2>4, <2>5, ClientKeeps
<1>7. CASE c \in split' /\ UNCHANGED left /\ cpc' \in [Clients -> Places]
           /\ cpc'[c] \in {"recv", "body", "garbage"}
           /\ \A d \in Clients : d # c => cpc'[d] = cpc[d]
  <2>1. Shapes'
    BY <1>1, <1>2, <1>5, <1>7, Shaped DEF Shapes, MsgLen
  <2>2. \A d \in Clients : d # c => Same(d) /\ epc'[d] = epc[d]
    BY <1>1, <1>2, <1>7 DEF Same
  <2>3. Asking(c)'
    BY <1>4, <1>7 DEF Asking
  <2>4. OneMessage(c)'
    BY <1>7 DEF OneMessage
  <2>5. Due(c)' = Due(c)
    BY <1>4, <1>7 DEF Due
  <2>6. QED
    BY <2>1, <2>2, <2>3, <2>4, <2>5, ClientKeeps
<1>8. QED
  BY <1>6, <1>7

LEMMA RecvBufferStep ==
  ASSUME Now, NEW c \in Clients, Waiting(c), RecvBuffer(c),
         UNCHANGED <<pair, up, server, epc, spc, body_split>>
  PROVE  StreamsIInv'
<1>1. PICK n \in 1 .. down[c] :
        /\ cpc[c] = "recv" => got[c] + n <= lim[c]
        /\ Take(c, n)
        /\ \/ /\ cpc[c] = "recv" /\ n < HDR
              /\ got' = [got EXCEPT ![c] = @ + n]
              /\ UNCHANGED <<cpc, left, lim>>
           \/ /\ cpc[c] = "recv" /\ n >= HDR
              /\ LET start == (cpos[c] + MsgLen - (got[c] % MsgLen)) % MsgLen
                     have  == got[c] + n
                 IN \/ /\ start # 0
                       /\ cpc' = [cpc EXCEPT ![c] = "garbage"]
                       /\ lim' = [lim EXCEPT ![c] = RECV_BUF]
                       /\ UNCHANGED left
                    \/ /\ start = 0 /\ have < MsgLen
                       /\ cpc' = [cpc EXCEPT ![c] = "body"]
                       /\ lim' = [lim EXCEPT ![c] = RECV_BUF]
                       /\ UNCHANGED left
                    \/ /\ start = 0 /\ have >= MsgLen
                       /\ FinishRound(c)
                       /\ lim' = [lim EXCEPT ![c] = have]
              /\ UNCHANGED got
           \/ /\ cpc[c] = "body"
              /\ FinishRound(c)
              /\ UNCHANGED <<got, lim>>
           \/ /\ cpc[c] = "garbage"
              /\ UNCHANGED <<cpc, left, got, lim>>
  BY DEF RecvBuffer
<1>2. got[c] \in 0 .. RECV_BUF /\ lim[c] \in MsgLen .. RECV_BUF /\ down[c] \in Nat
      /\ MsgLen \in Nat \ {0} /\ HDR \in Nat /\ HDR < MsgLen /\ RECV_BUF \in MsgLen .. RECV_BUF
      /\ RECV_BUF \in Nat
  BY Typed DEF Now, Known
<1>3. got \in [Clients -> 0 .. RECV_BUF] /\ lim \in [Clients -> MsgLen .. RECV_BUF]
      /\ cpc \in [Clients -> Places]
  BY Typed
<1>4. n \in Nat \ {0} /\ n <= down[c]
  BY <1>2
<1>5. c \notin split' => c \notin split /\ cpos[c] = 0 /\ n >= MsgLen
  BY <1>1, TakesBytes
<1>6. c \notin split => cpc[c] = "recv" /\ got[c] = 0
  <2>1. Keeps(c) /\ cpc[c] \in {"recv", "body", "garbage"}
    BY DEF Now, StreamsIInv, Waiting
  <2>2. QED
    BY <2>1 DEF Keeps, OneMessage
<1>7. CASE /\ cpc[c] = "recv" /\ n < HDR
           /\ got' = [got EXCEPT ![c] = @ + n]
           /\ UNCHANGED <<cpc, left, lim>>
  <2>1. c \in split'
    BY <1>2, <1>4, <1>5, <1>7
  <2>2. got[c] + n \in 0 .. RECV_BUF
    BY <1>1, <1>2, <1>4, <1>7
  <2>3. got' \in [Clients -> 0 .. RECV_BUF] /\ \A d \in Clients : d # c => got'[d] = got[d]
    BY <1>3, <1>7, <2>2
  <2>4. QED
    BY <1>1, <1>3, <1>7, <2>1, <2>3, ReadKeeps
<1>8. CASE /\ cpc[c] = "recv" /\ n >= HDR /\ UNCHANGED got
           /\ (cpos[c] + MsgLen - (got[c] % MsgLen)) % MsgLen # 0
           /\ cpc' = [cpc EXCEPT ![c] = "garbage"]
           /\ lim' = [lim EXCEPT ![c] = RECV_BUF]
           /\ UNCHANGED left
  <2>1. c \in split'
    <3>1. SUFFICES ASSUME c \notin split' PROVE FALSE
      OBVIOUS
    <3>2. cpos[c] = 0 /\ got[c] = 0
      BY <1>5, <1>6, <3>1
    <3>3. 0 % MsgLen = 0 /\ MsgLen % MsgLen = 0
      BY <1>2, ModSelf
    <3>4. cpos[c] + MsgLen - (got[c] % MsgLen) = MsgLen
      BY <1>2, <3>2, <3>3
    <3>5. QED
      BY <1>8, <3>3, <3>4
  <2>2. lim' \in [Clients -> MsgLen .. RECV_BUF] /\ cpc' \in [Clients -> Places]
    BY <1>2, <1>3, <1>8 DEF Places
  <2>3. cpc'[c] = "garbage" /\ \A d \in Clients : d # c => cpc'[d] = cpc[d]
    BY <1>3, <1>8
  <2>4. QED
    BY <1>1, <1>3, <1>8, <2>1, <2>2, <2>3, ReadKeeps
<1>9. CASE /\ cpc[c] = "recv" /\ n >= HDR /\ UNCHANGED got
           /\ got[c] + n < MsgLen
           /\ cpc' = [cpc EXCEPT ![c] = "body"]
           /\ lim' = [lim EXCEPT ![c] = RECV_BUF]
           /\ UNCHANGED left
  <2>1. c \in split'
    BY <1>2, <1>4, <1>5, <1>9
  <2>2. lim' \in [Clients -> MsgLen .. RECV_BUF] /\ cpc' \in [Clients -> Places]
    BY <1>2, <1>3, <1>9 DEF Places
  <2>3. cpc'[c] = "body" /\ \A d \in Clients : d # c => cpc'[d] = cpc[d]
    BY <1>3, <1>9
  <2>4. QED
    BY <1>1, <1>3, <1>9, <2>1, <2>2, <2>3, ReadKeeps
<1>10. CASE /\ cpc[c] = "recv" /\ n >= HDR /\ UNCHANGED got
            /\ got[c] + n >= MsgLen
            /\ FinishRound(c)
            /\ lim' = [lim EXCEPT ![c] = got[c] + n]
  <2>1. got[c] + n \in MsgLen .. RECV_BUF
    BY <1>1, <1>2, <1>4, <1>10
  <2>2. lim' \in [Clients -> MsgLen .. RECV_BUF]
    BY <1>3, <1>10, <2>1
  <2>3. QED
    BY <1>1, <1>3, <1>10, <2>2, ReadKeeps
<1>11. CASE cpc[c] = "body" /\ FinishRound(c) /\ UNCHANGED <<got, lim>>
  BY <1>1, <1>3, <1>11, ReadKeeps
<1>12. CASE cpc[c] = "garbage" /\ UNCHANGED <<cpc, left, got, lim>>
  <2>1. c \in split'
    BY <1>5, <1>6, <1>12
  <2>2. QED
    BY <1>1, <1>3, <1>12, <2>1, ReadKeeps
<1>13. QED
  BY <1>1, <1>7, <1>8, <1>9, <1>10, <1>11, <1>12

LEMMA RecvStep == ASSUME Now, NEW c \in Clients, Recv(c) PROVE StreamsIInv'
<1>1. UNCHANGED <<pair, up, server, epc, spc, body_split>>
  BY DEF Recv
<1>2. got \in [Clients -> 0 .. RECV_BUF] /\ lim \in [Clients -> MsgLen .. RECV_BUF]
      /\ down[c] \in Nat /\ MsgLen \in Nat \ {0} /\ HDR \in Nat \ {0}
  BY Typed DEF Now, Known
<1>3. ASSUME cpc[c] = "recv", NEW n \in 1 .. down[c], Take(c, n), FinishRound(c),
             UNCHANGED <<got, lim>>
      PROVE  StreamsIInv'
  <2>1. Waiting(c)
    BY <1>3 DEF Waiting
  <2>2. QED
    BY <1>1, <1>2, <1>3, <2>1, ReadKeeps
<1>4. CASE RecvLine(c)
  <2>1. MsgLen \in 1 .. down[c]
    BY <1>2, <1>4 DEF RecvLine
  <2>2. QED
    BY <1>3, <1>4, <2>1 DEF RecvLine
<1>5. CASE RecvFrame(c)
  <2>1. CASE (\E n \in FrameSizes(down[c], ~PeerOpen(c)) : Take(c, n)) /\ FinishRound(c)
    <3>1. PICK n \in FrameSizes(down[c], ~PeerOpen(c)) : Take(c, n)
      BY <2>1
    <3>2. n \in 1 .. down[c]
      BY <1>2 DEF FrameSizes
    <3>3. QED
      BY <1>3, <1>5, <2>1, <3>1, <3>2 DEF RecvFrame
  <2>2. CASE cpc' = [cpc EXCEPT ![c] = "failed"] /\ UNCHANGED <<down, cpos, split, left>>
    <3>1. UNCHANGED <<pair, left, got, lim, cpos, server, wire, epc, spc, split, body_split>>
      BY <1>1, <1>5, <2>2 DEF RecvFrame, wire
    <3>2. QED
      BY <1>5, <2>2, <3>1, GivesUp DEF RecvFrame, ClientOpen, Waiting
  <2>3. QED
    BY <1>5, <2>1, <2>2 DEF RecvFrame
<1>6. CASE RecvAny(c)
  BY <1>3, <1>6 DEF RecvAny
<1>7. QED
  BY <1>1, <1>4, <1>5, <1>6, RecvBufferStep DEF Recv

LEMMA RecvEndStep == ASSUME Now, NEW c \in Clients, RecvEnd(c) PROVE StreamsIInv'
<1>1. Waiting(c) /\ ~PeerOpen(c)
      /\ UNCHANGED <<pair, got, lim, cpos, server, wire, epc, spc, split, body_split>>
  BY DEF RecvEnd
<1>2. CASE cpc' = [cpc EXCEPT ![c] = "failed"] /\ UNCHANGED left
  BY <1>1, <1>2, GivesUp DEF ClientOpen
<1>3. CASE FinishRound(c)
  <2>1. UNCHANGED <<spos, sbuf, spend, op_write, up, down>>
    BY <1>1 DEF server, wire
  <2>2. /\ cpc' \in [Clients -> Places] /\ left' \in [Clients -> 0 .. Rounds]
        /\ cpc'[c] \in {"done", "send"} /\ Due(c)' = Due(c)
        /\ cpc'[c] = "send" => left'[c] >= 1
        /\ \A d \in Clients : d # c => cpc'[d] = cpc[d] /\ left'[d] = left[d]
    BY <1>1, <1>3, RoundEnds
  <2>3. Shapes'
    BY <1>1, <2>1, <2>2, Shaped DEF Shapes, MsgLen
  <2>4. \A d \in Clients : d # c => Same(d) /\ epc'[d] = epc[d]
    BY <1>1, <2>1, <2>2 DEF Same
  <2>5. Asking(c)'
    BY <2>2 DEF Asking
  <2>6. OneMessage(c)'
    <3>1. Keeps(c)
      BY DEF Now, StreamsIInv
    <3>2. QED
      BY <1>1, <2>1, <2>2, <3>1 DEF Keeps, OneMessage, PeerOpen
  <2>7. QED
    BY <1>1, <2>1, <2>2, <2>3, <2>4, <2>5, <2>6, ClientKeeps
<1>4. QED
  BY <1>2, <1>3 DEF RecvEnd

-----------------------------------------------------------------------------
(* The servers *)

\* A step in which connections only go on to their ends, and their keys with them.
LEMMA OnlyTheEnds ==
  ASSUME Now, UNCHANGED <<pair, client, spos, sbuf, spend, wire, split, body_split>>,
         op_write' \subseteq op_write,
         epc' \in [Clients -> Phases], spc' \in {"accept", "serve", "deaf", "exited"},
         \A d \in Clients : Closing(d)
  PROVE  StreamsIInv'
<1>1. UNCHANGED <<cpc, left, got, lim, cpos, up, down>>
  BY DEF client, wire
<1>2. \A d \in Clients : Same(d)
  BY <1>1 DEF Same
<1>3. Shapes'
  BY <1>1, Shaped DEF Shapes, MsgLen
<1>4. QED
  BY <1>2, <1>3, OthersKeep, IInvFollows

LEMMA AcceptStep == ASSUME Now, NEW c \in Clients, Accept(c) PROVE StreamsIInv'
<1>1. epc' \in [Clients -> Phases] /\ epc'[c] \in {"queued", "read"} /\ epc[c] = "backlog"
      /\ \A d \in Clients : d # c => epc'[d] = epc[d]
  BY Typed DEF Accept, Phases
<1>2. \A d \in Clients : Closing(d)
  BY <1>1 DEF Closing, PeerOpen
<1>3. QED
  BY <1>1, <1>2, OnlyTheEnds DEF Accept, server

LEMMA PoolStartsStep == ASSUME Now, NEW c \in Clients, PoolStarts(c) PROVE StreamsIInv'
<1>1. epc' \in [Clients -> Phases] /\ epc'[c] = "read" /\ epc[c] = "queued"
      /\ \A d \in Clients : d # c => epc'[d] = epc[d]
  BY Typed DEF PoolStarts, Phases
<1>2. \A d \in Clients : Closing(d)
  BY <1>1 DEF Closing, PeerOpen
<1>3. spc' \in {"accept", "serve", "deaf", "exited"}
  BY Shaped DEF PoolStarts, Shapes
<1>4. QED
  BY <1>1, <1>2, <1>3, OnlyTheEnds DEF PoolStarts, server

LEMMA ExitStep ==
  ASSUME Now, Exit, UNCHANGED <<pair, client, server, wire, split, body_split>> PROVE StreamsIInv'
<1>1. \A d \in Clients : epc'[d] = epc[d] \/ (epc'[d] = "closed" /\ epc[d] # "none")
  BY DEF Exit, PeerOpen
<1>2. \A d \in Clients : Closing(d)
  BY <1>1 DEF Closing, PeerOpen
<1>3. epc' \in [Clients -> Phases]
  BY Typed DEF Exit, Phases
<1>4. QED
  BY <1>2, <1>3, OnlyTheEnds DEF Exit, server

LEMMA AcceptFailsStep == ASSUME Now, AcceptFails PROVE StreamsIInv'
<1>1. CASE spc' = "deaf" /\ UNCHANGED epc
  <2>1. \A d \in Clients : Closing(d)
    BY <1>1 DEF Closing, PeerOpen
  <2>2. QED
    BY <1>1, <2>1, Typed, OnlyTheEnds DEF AcceptFails, server
<1>2. QED
  BY <1>1, ExitStep DEF AcceptFails

LEMMA ServerTimesOutStep == ASSUME Now, ServerTimesOut PROVE StreamsIInv'
BY ExitStep DEF ServerTimesOut

LEMMA ServerKeeps ==
  ASSUME Now, NEW c \in Clients, UNCHANGED <<pair, client>>, Shapes',
         \A d \in Clients : d # c => Same(d) /\ Closing(d),
         epc[c] # "none", up'[c] + sbuf'[c] <= up[c] + sbuf[c],
         Parsed(c)', OneMessage(c)'
  PROVE  StreamsIInv'
<1>1. UNCHANGED <<cpc, left>>
  BY DEF client
<1>2. Keeps(c)
  BY DEF Now, StreamsIInv
<1>3. Asking(c)'
  BY <1>1, <1>2 DEF Keeps, Asking
<1>4. Sent(c)'
  <2>1. up[c] \in Nat /\ sbuf[c] \in Nat /\ up'[c] \in Nat /\ sbuf'[c] \in Nat
    BY Typed DEF Shapes
  <2>2. Due(c)' = Due(c) /\ up[c] + sbuf[c] <= MsgLen * Due(c)
    BY <1>1, <1>2 DEF Keeps, Sent, Room, Due
  <2>3. MsgLen * Due(c) \in Nat
    <3>1. left[c] \in 0 .. Rounds /\ Rounds \in Nat /\ MsgLen \in Nat
      BY Typed DEF Now, Known
    <3>2. Due(c) \in Nat
      BY <1>2, <3>1 DEF Due, Keeps, Asking
    <3>3. QED
      BY <3>1, <3>2, Scaled
  <2>4. up'[c] + sbuf'[c] <= MsgLen * Due(c)
    BY <2>1, <2>2, <2>3
  <2>5. QED
    BY <2>2, <2>4 DEF Sent, Room, MsgLen
<1>5. QED
  BY <1>3, <1>4, StepFollows DEF Keeps

\* A read of the server's.
LEMMA FetchesBytes ==
  ASSUME Now, NEW c \in Clients, NEW n \in 1 .. up[c], Fetch(c, n)
  PROVE  /\ up' \in [Clients -> Nat] /\ spos' \in [Clients -> 0 .. MsgLen - 1]
         /\ split' \subseteq Clients /\ body_split' \subseteq split'
         /\ up'[c] = up[c] - n /\ spos'[c] = (spos[c] + n) % MsgLen
         /\ \A d \in Clients : d # c =>
              /\ up'[d] = up[d] /\ spos'[d] = spos[d]
              /\ (d \in split' <=> d \in split) /\ (d \in body_split' <=> d \in body_split)
         /\ c \notin split' => c \notin split /\ spos'[c] = 0 /\ n >= MsgLen
         /\ c \notin body_split' => c \notin body_split /\ spos'[c] < HDR
<1>1. up[c] \in Nat /\ spos[c] \in 0 .. MsgLen - 1 /\ MsgLen \in Nat \ {0} /\ HDR \in Nat \ {0}
  BY Typed DEF Now, Known
<1>2. n \in Nat \ {0} /\ up[c] - n \in Nat /\ spos[c] + n \in Nat
  BY <1>1
<1>3. (spos[c] + n) % MsgLen \in 0 .. MsgLen - 1
  BY <1>1, <1>2, Mod
<1>4. up' = [up EXCEPT ![c] = up[c] - n]
      /\ spos' = [spos EXCEPT ![c] = (spos[c] + n) % MsgLen]
      /\ split' = (IF (spos[c] + n) % MsgLen # 0 THEN split \cup {c} ELSE split)
      /\ body_split' = IF (spos[c] + n) % MsgLen >= HDR THEN body_split \cup {c} ELSE body_split
  BY DEF Fetch, Read
<1>5. up' \in [Clients -> Nat] /\ spos' \in [Clients -> 0 .. MsgLen - 1]
  BY <1>2, <1>3, <1>4, Typed
<1>6. up'[c] = up[c] - n /\ spos'[c] = (spos[c] + n) % MsgLen
      /\ \A d \in Clients : d # c => up'[d] = up[d] /\ spos'[d] = spos[d]
  BY <1>4, Typed
<1>7. c \notin split' => c \notin split /\ spos'[c] = 0 /\ n >= MsgLen
  <2>1. ASSUME c \notin split' PROVE c \notin split /\ (spos[c] + n) % MsgLen = 0
    BY <1>4, <2>1
  <2>2. ASSUME c \notin split PROVE spos[c] = 0
    BY <2>2 DEF Now, StreamsIInv, Keeps, OneMessage
  <2>3. ASSUME c \notin split' PROVE n % MsgLen = 0
    <3>1. spos[c] + n = n
      BY <1>2, <2>1, <2>2, <2>3
    <3>2. QED
      BY <2>1, <2>3, <3>1
  <2>4. QED
    BY <1>1, <1>2, <1>6, <2>1, <2>3, WholeMessage
<1>8. c \notin body_split' => c \notin body_split /\ spos'[c] < HDR
  BY <1>1, <1>3, <1>4, <1>6
<1>9. split' \subseteq Clients
      /\ \A d \in Clients : d # c =>
           (d \in split' <=> d \in split) /\ (d \in body_split' <=> d \in body_split)
  BY <1>4, Typed
<1>10. body_split' \subseteq split'
  <2>1. (spos[c] + n) % MsgLen >= HDR => (spos[c] + n) % MsgLen # 0
    BY <1>1, <1>3
  <2>2. QED
    BY <1>4, <2>1, Typed
<1>11. QED
  BY <1>5, <1>6, <1>7, <1>8, <1>9, <1>10

LEMMA AnswersBytes ==
  ASSUME Now, NEW c \in Clients, NEW n \in Nat, Answer(c, n)
  PROVE  /\ down' \in [Clients -> Nat]
         /\ down'[c] = IF ClientOpen(c) THEN down[c] + n ELSE down[c]
         /\ \A d \in Clients : d # c => down'[d] = down[d]
<1>1. down \in [Clients -> Nat] /\ down[c] + n \in Nat
  BY Typed
<1>2. QED
  BY <1>1 DEF Answer

\* What is read whole is the one request, and nothing of its answer is there.
LEMMA OneRequest ==
  ASSUME Now, NEW c \in Clients, PeerOpen(c), NEW n \in 1 .. up[c], c \notin split, n >= MsgLen
  PROVE  /\ cpc[c] \notin {"absent", "start", "send"}
         /\ cpc[c] = "recv" => up[c] - n = 0 /\ down[c] = 0 /\ spend[c] = 0 /\ c \notin op_write
<1>1. Keeps(c) /\ up[c] \in Nat /\ MsgLen \in Nat /\ n <= up[c] /\ up[c] > 0
  BY Typed DEF Now, StreamsIInv, Known
<1>2. cpc[c] \notin {"absent", "start", "send"}
  BY <1>1 DEF Keeps, OneMessage, Asking, PeerOpen
<1>3. cpc[c] = "recv" => up[c] <= MsgLen /\ down[c] = 0 /\ spend[c] = 0 /\ c \notin op_write
  BY <1>1 DEF Keeps, OneMessage
<1>4. QED
  BY <1>1, <1>2, <1>3

LEMMA ServedKeeps ==
  ASSUME Now, NEW c \in Clients, UNCHANGED client, PeerOpen(c),
         c \notin split' =>
           /\ c \notin split /\ spos'[c] = 0 /\ cpc[c] \notin {"absent", "start", "send"}
           /\ cpc[c] = "recv" /\ PeerOpen(c)' =>
                /\ up'[c] <= MsgLen /\ down'[c] + spend'[c] <= MsgLen
                /\ up'[c] > 0 => down'[c] = 0 /\ spend'[c] = 0
                /\ c \in op_write' => spend'[c] > 0
  PROVE  OneMessage(c)'
<1>1. cpc' = cpc /\ got' = got /\ cpos' = cpos /\ MsgLen' = MsgLen
  BY DEF client, MsgLen
<1>2. c \notin split => cpos[c] = 0 /\ cpc[c] \notin {"body", "garbage"} /\ (cpc[c] = "recv" => got[c] = 0)
  BY DEF Now, StreamsIInv, Keeps, OneMessage
<1>3. QED
  BY <1>1, <1>2 DEF OneMessage

LEMMA ClosesKeeps ==
  ASSUME Now, NEW c \in Clients, CloseAndExit(c), epc[c] # "none"
  PROVE  /\ epc' \in [Clients -> Phases] /\ spc' = "exited" /\ ~PeerOpen(c)'
         /\ \A d \in Clients : Closing(d)
<1>1. \A d \in Clients : epc'[d] = epc[d] \/ (epc'[d] = "closed" /\ epc[d] # "none")
  BY DEF CloseAndExit, PeerOpen
<1>2. epc' \in [Clients -> Phases] /\ spc' = "exited" /\ epc'[c] = "closed"
  BY Typed DEF CloseAndExit, Phases
<1>3. QED
  BY <1>1, <1>2 DEF Closing, PeerOpen

LEMMA ServeOneStep ==
  ASSUME Now, NEW c \in Clients, ServeOne(c), UNCHANGED <<pair, client>> PROVE StreamsIInv'
<1>1. S.serves = "one" /\ epc[c] = "read" /\ CloseAndExit(c)
      /\ UNCHANGED <<sbuf, spend, op_write>>
  BY DEF ServeOne
<1>2. MsgLen \in Nat \ {0} /\ up[c] \in Nat /\ HDR \in Nat \ {0} /\ sbuf[c] \in Nat
  BY Typed DEF Now, Known
<1>3. PICK n \in 1 .. up[c], m \in Nat : Fetch(c, n) /\ Answer(c, m)
  <2>1. CASE S.reads = "line" /\ up[c] >= MsgLen /\ Fetch(c, MsgLen) /\ Answer(c, MsgLen)
    <3>1. MsgLen \in 1 .. up[c] /\ MsgLen \in Nat
      BY <1>2, <2>1
    <3>2. QED
      BY <2>1, <3>1
  <2>2. CASE \E n \in FrameSizes(up[c], ~ClientOpen(c)) : Fetch(c, n) /\ Answer(c, MsgLen)
    <3>1. FrameSizes(up[c], ~ClientOpen(c)) \subseteq 1 .. up[c] /\ MsgLen \in Nat
      BY <1>2 DEF FrameSizes
    <3>2. QED
      BY <2>2, <3>1
  <2>3. CASE \E n \in 1 .. up[c] : Fetch(c, n) /\ Answer(c, n)
    <3>1. 1 .. up[c] \subseteq Nat
      BY <1>2
    <3>2. QED
      BY <2>3, <3>1
  <2>4. QED
    BY <2>1, <2>2, <2>3 DEF ServeOne
<1>4. /\ up' \in [Clients -> Nat] /\ spos' \in [Clients -> 0 .. MsgLen - 1]
      /\ split' \subseteq Clients /\ body_split' \subseteq split' /\ up'[c] = up[c] - n
      /\ \A d \in Clients : d # c =>
           /\ up'[d] = up[d] /\ spos'[d] = spos[d]
           /\ (d \in split' <=> d \in split) /\ (d \in body_split' <=> d \in body_split)
      /\ c \notin split' => c \notin split /\ spos'[c] = 0 /\ n >= MsgLen
  BY <1>3, FetchesBytes
<1>5. down' \in [Clients -> Nat] /\ \A d \in Clients : d # c => down'[d] = down[d]
  BY <1>3, AnswersBytes
<1>6. epc' \in [Clients -> Phases] /\ spc' = "exited" /\ ~PeerOpen(c)'
      /\ \A d \in Clients : Closing(d)
  BY <1>1, ClosesKeeps
<1>7. Shapes'
  BY <1>1, <1>4, <1>5, <1>6, Shaped DEF Shapes, client, MsgLen
<1>8. \A d \in Clients : d # c => Same(d) /\ Closing(d)
  BY <1>1, <1>4, <1>5, <1>6 DEF Same, client
<1>9. Parsed(c)'
  <2>1. S' = S /\ Parsed(c)
    BY DEF S, Now, StreamsIInv, Keeps
  <2>2. QED
    BY <1>1, <2>1 DEF Parsed
<1>10. OneMessage(c)'
  <2>1. PeerOpen(c)
    BY <1>1 DEF PeerOpen
  <2>2. QED
    BY <1>4, <1>6, <2>1, OneRequest, ServedKeeps
<1>11. up'[c] + sbuf'[c] <= up[c] + sbuf[c]
  BY <1>1, <1>2, <1>4
<1>12. QED
  BY <1>1, <1>7, <1>8, <1>9, <1>10, <1>11, ServerKeeps

LEMMA ServeThreadStep ==
  ASSUME Now, NEW c \in Clients, ServeThread(c), UNCHANGED <<pair, client>> PROVE StreamsIInv'
<1>1. S.serves \in {"thread", "pool"} /\ epc[c] = "read" /\ UNCHANGED <<sbuf, spend, op_write, spc>>
  BY DEF ServeThread
<1>2. MsgLen \in Nat \ {0} /\ up[c] \in Nat /\ HDR \in Nat \ {0} /\ sbuf[c] \in Nat /\ PeerOpen(c)
  BY <1>1, Typed DEF Now, Known, PeerOpen
<1>3. CASE /\ \E n \in FrameSizes(up[c], ~ClientOpen(c)) : Fetch(c, n)
           /\ Answer(c, MsgLen)
           /\ \/ UNCHANGED epc
              \/ ~ClientOpen(c) /\ epc' = [epc EXCEPT ![c] = "closed"]
  <2>1. PICK n \in 1 .. up[c] : Fetch(c, n)
    <3>1. FrameSizes(up[c], ~ClientOpen(c)) \subseteq 1 .. up[c]
      BY <1>2 DEF FrameSizes
    <3>2. QED
      BY <1>3, <3>1
  <2>2. /\ up' \in [Clients -> Nat] /\ spos' \in [Clients -> 0 .. MsgLen - 1]
        /\ split' \subseteq Clients /\ body_split' \subseteq split' /\ up'[c] = up[c] - n
        /\ \A d \in Clients : d # c =>
             /\ up'[d] = up[d] /\ spos'[d] = spos[d]
             /\ (d \in split' <=> d \in split) /\ (d \in body_split' <=> d \in body_split)
        /\ c \notin split' => c \notin split /\ spos'[c] = 0 /\ n >= MsgLen
    BY <2>1, FetchesBytes
  <2>3. down' \in [Clients -> Nat] /\ \A d \in Clients : d # c => down'[d] = down[d]
    BY <1>2, <1>3, AnswersBytes
  <2>4. down'[c] = IF ClientOpen(c) THEN down[c] + MsgLen ELSE down[c]
    BY <1>2, <1>3, AnswersBytes
  <2>5. epc' \in [Clients -> Phases] /\ \A d \in Clients : Closing(d)
    <3>1. CASE UNCHANGED epc
      BY <3>1, Typed DEF Closing, PeerOpen
    <3>2. CASE epc' = [epc EXCEPT ![c] = "closed"]
      <4>1. epc' \in [Clients -> Phases] /\ epc'[c] = "closed"
            /\ \A d \in Clients : d # c => epc'[d] = epc[d]
        BY <3>2, Typed DEF Phases
      <4>2. QED
        BY <1>1, <4>1 DEF Closing, PeerOpen
    <3>3. QED
      BY <1>3, <3>1, <3>2
  <2>6. Shapes'
    BY <1>1, <2>2, <2>3, <2>5, Shaped DEF Shapes, client, MsgLen
  <2>7. \A d \in Clients : d # c => Same(d) /\ Closing(d)
    BY <1>1, <2>2, <2>3, <2>5 DEF Same, client
  <2>8. Parsed(c)'
    <3>1. S' = S /\ Parsed(c)
      BY DEF S, Now, StreamsIInv, Keeps
    <3>2. QED
      BY <1>1, <3>1 DEF Parsed
  <2>9. OneMessage(c)'
    <3>1. c \notin split' =>
            /\ cpc[c] \notin {"absent", "start", "send"}
            /\ cpc[c] = "recv" => up'[c] = 0 /\ down[c] = 0 /\ spend'[c] = 0 /\ c \notin op_write'
      BY <1>1, <1>2, <2>2, OneRequest
    <3>2. down[c] = 0 => down'[c] <= MsgLen /\ down'[c] \in Nat
      BY <1>2, <2>4
    <3>3. c \notin split' =>
            /\ c \notin split /\ spos'[c] = 0 /\ cpc[c] \notin {"absent", "start", "send"}
            /\ cpc[c] = "recv" /\ PeerOpen(c)' =>
                 /\ up'[c] <= MsgLen /\ down'[c] + spend'[c] <= MsgLen
                 /\ up'[c] > 0 => down'[c] = 0 /\ spend'[c] = 0
                 /\ c \in op_write' => spend'[c] > 0
      BY <1>2, <2>2, <3>1, <3>2
    <3>4. QED
      BY <1>2, <3>3, ServedKeeps
  <2>10. up'[c] + sbuf'[c] <= up[c] + sbuf[c]
    BY <1>1, <1>2, <2>2
  <2>11. QED
    BY <1>1, <2>6, <2>7, <2>8, <2>9, <2>10, ServerKeeps
<1>4. CASE epc' = [epc EXCEPT ![c] = "closed"] /\ UNCHANGED <<up, down, spos, split, body_split>>
  <2>1. epc' \in [Clients -> Phases] /\ epc'[c] = "closed"
        /\ \A d \in Clients : d # c => epc'[d] = epc[d]
    BY <1>4, Typed DEF Phases
  <2>2. \A d \in Clients : Closing(d)
    BY <1>1, <2>1 DEF Closing, PeerOpen
  <2>3. spc' \in {"accept", "serve", "deaf", "exited"}
    BY <1>1, Shaped DEF Shapes
  <2>4. QED
    BY <1>1, <1>4, <2>1, <2>2, <2>3, OnlyTheEnds DEF wire
<1>5. QED
  BY <1>3, <1>4 DEF ServeThread

\* sendData: what it does not send, it keeps, and OP_WRITE with it.
LEMMA SendsData ==
  ASSUME Now, NEW c \in Clients, NEW ops \in SUBSET op_write, SendData(c, ops)
  PROVE  /\ down' \in [Clients -> Nat] /\ spend' \in [Clients -> 0 .. MsgLen]
         /\ \A d \in Clients : d # c => down'[d] = down[d] /\ spend'[d] = spend[d]
         /\ cpc[c] = "recv" =>
              down'[c] + spend'[c] = down[c] + IF spend[c] = 0 THEN MsgLen ELSE spend[c]
         /\ op_write' \subseteq Clients
         /\ \A d \in Clients : d # c /\ d \in op_write' => d \in op_write
         /\ c \notin ops /\ c \in op_write' => spend'[c] > 0
<1> DEFINE total == IF spend[c] = 0 THEN MsgLen ELSE spend[c]
<1>1. PICK n \in 0 .. total : 
        /\ Answer(c, n) /\ spend' = [spend EXCEPT ![c] = total - n]
        /\ op_write' = IF n < total THEN ops \cup {c} ELSE ops
  BY DEF SendData
<1>2. total \in 0 .. MsgLen /\ MsgLen \in Nat /\ down[c] \in Nat
  BY Typed DEF Now, Known
<1> HIDE DEF total
<1>3. n \in Nat /\ total - n \in 0 .. MsgLen
  BY <1>2
<1>4. down' \in [Clients -> Nat] /\ down'[c] = (IF ClientOpen(c) THEN down[c] + n ELSE down[c])
      /\ \A d \in Clients : d # c => down'[d] = down[d]
  BY <1>1, <1>3, AnswersBytes
<1>5. spend' \in [Clients -> 0 .. MsgLen] /\ spend'[c] = total - n
      /\ \A d \in Clients : d # c => spend'[d] = spend[d]
  BY <1>1, <1>3, Typed
<1>6. cpc[c] = "recv" => down'[c] + spend'[c] = down[c] + total
  BY <1>2, <1>3, <1>4, <1>5 DEF ClientOpen, Waiting
<1>7. op_write' \subseteq Clients /\ \A d \in Clients : d # c /\ d \in op_write' => d \in op_write
  BY <1>1, Typed
<1>8. c \notin ops /\ c \in op_write' => spend'[c] > 0
  BY <1>1, <1>2, <1>3, <1>5
<1>9. QED
  BY <1>4, <1>5, <1>6, <1>7, <1>8 DEF total

\* The parser's position, for as long as no read has ended inside a body.
LEMMA ParserAtABoundary ==
  ASSUME Now, NEW c \in Clients, S.serves = "selector", c \notin body_split
  PROVE  sbuf[c] = spos[c] /\ ParsePos(c) = 0
<1>1. sbuf[c] = spos[c] /\ spos[c] \in 0 .. MsgLen - 1 /\ MsgLen \in Nat \ {0}
  BY Typed DEF Now, StreamsIInv, Keeps, Parsed, Known
<1>2. sbuf[c] % MsgLen = spos[c]
  BY <1>1, ModSmall
<1>3. spos[c] + MsgLen - (sbuf[c] % MsgLen) = MsgLen
  BY <1>1, <1>2
<1>4. QED
  BY <1>1, <1>3, ModSelf DEF ParsePos

LEMMA ParseKeeps ==
  ASSUME Known, NEW p \in Nat, NEW b \in Nat
  PROVE  Parse(p, b) \in Nat /\ Parse(p, b) <= b /\ (p = 0 /\ b % MsgLen < HDR => Parse(p, b) = b % MsgLen)
<1>1. HDR \in Nat /\ MsgLen \in Nat \ {0}
  BY DEF Known
<1>2. b % MsgLen \in 0 .. MsgLen - 1 /\ b % MsgLen <= b
  <2>1. b % MsgLen \in 0 .. MsgLen - 1
    BY <1>1, Mod
  <2>2. CASE b < MsgLen
    BY <1>1, <2>2, ModSmall
  <2>3. CASE ~(b < MsgLen)
    BY <1>1, <2>1, <2>3
  <2>4. QED
    BY <2>1, <2>2, <2>3
<1>3. Unparsed(p, b) \in Nat /\ Unparsed(p, b) <= b /\ (p = 0 => Unparsed(p, b) = b % MsgLen)
  BY <1>1, <1>2 DEF Unparsed
<1>4. QED
  BY <1>1, <1>3 DEF Parse

LEMMA ServeReadableStep ==
  ASSUME Now, NEW c \in Clients, ServeReadable(c), UNCHANGED <<pair, client>> PROVE StreamsIInv'
<1>1. S.serves = "selector" /\ epc[c] = "read" /\ SendData(c, op_write) /\ UNCHANGED <<epc, spc>>
  BY DEF ServeReadable
<1>2. PICK n \in 1 .. up[c] :
        Fetch(c, n) /\ sbuf' = [sbuf EXCEPT ![c] = Parse(ParsePos(c), @ + n)]
  BY DEF ServeReadable
<1>3. MsgLen \in Nat \ {0} /\ up[c] \in Nat /\ HDR \in Nat /\ sbuf[c] \in Nat /\ PeerOpen(c)
      /\ spos[c] \in 0 .. MsgLen - 1 /\ n \in Nat /\ n <= up[c]
  BY <1>1, Typed DEF Now, Known, PeerOpen
<1>4. /\ up' \in [Clients -> Nat] /\ spos' \in [Clients -> 0 .. MsgLen - 1]
      /\ split' \subseteq Clients /\ body_split' \subseteq split' /\ up'[c] = up[c] - n
      /\ \A d \in Clients : d # c =>
           /\ up'[d] = up[d] /\ spos'[d] = spos[d]
           /\ (d \in split' <=> d \in split) /\ (d \in body_split' <=> d \in body_split)
      /\ c \notin split' => c \notin split /\ spos'[c] = 0 /\ n >= MsgLen
  BY <1>2, FetchesBytes
<1>5. spos'[c] = (spos[c] + n) % MsgLen
      /\ (c \notin body_split' => c \notin body_split /\ spos'[c] < HDR)
  BY <1>2, FetchesBytes
<1>6. /\ down' \in [Clients -> Nat] /\ spend' \in [Clients -> 0 .. MsgLen]
      /\ \A d \in Clients : d # c => down'[d] = down[d] /\ spend'[d] = spend[d]
      /\ cpc[c] = "recv" =>
           down'[c] + spend'[c] = down[c] + IF spend[c] = 0 THEN MsgLen ELSE spend[c]
      /\ op_write' \subseteq Clients
      /\ \A d \in Clients : d # c /\ d \in op_write' => d \in op_write
      /\ c \notin op_write /\ c \in op_write' => spend'[c] > 0
  BY <1>1, SendsData
<1>7. ParsePos(c) \in Nat /\ sbuf[c] + n \in Nat
  <2>1. sbuf[c] % MsgLen \in 0 .. MsgLen - 1
    BY <1>3, Mod
  <2>2. spos[c] + MsgLen - (sbuf[c] % MsgLen) \in Nat
    BY <1>3, <2>1
  <2>3. ParsePos(c) \in 0 .. MsgLen - 1
    BY <1>3, <2>2, Mod DEF ParsePos
  <2>4. QED
    BY <1>3, <2>3
<1>8. Known
  BY DEF Now
<1>9. Parse(ParsePos(c), sbuf[c] + n) \in Nat
      /\ Parse(ParsePos(c), sbuf[c] + n) <= sbuf[c] + n
      /\ (ParsePos(c) = 0 /\ (sbuf[c] + n) % MsgLen < HDR =>
            Parse(ParsePos(c), sbuf[c] + n) = (sbuf[c] + n) % MsgLen)
  BY <1>7, <1>8, ParseKeeps
<1>10. sbuf' \in [Clients -> Nat] /\ sbuf'[c] = Parse(ParsePos(c), sbuf[c] + n)
       /\ \A d \in Clients : d # c => sbuf'[d] = sbuf[d]
  BY <1>2, <1>9, Typed
<1>11. Shapes'
  BY <1>1, <1>4, <1>6, <1>10, Shaped DEF Shapes, client, MsgLen
<1>12. \A d \in Clients : d # c => Same(d) /\ Closing(d)
  BY <1>1, <1>4, <1>6, <1>10 DEF Same, client, Closing, PeerOpen
<1>13. Parsed(c)'
  <2>1. S' = S
    BY DEF S
  <2>2. ASSUME c \notin body_split' PROVE sbuf'[c] = spos'[c]
    <3>1. sbuf[c] = spos[c] /\ ParsePos(c) = 0
      BY <1>1, <1>5, <2>2, ParserAtABoundary
    <3>2. QED
      BY <1>5, <1>9, <1>10, <2>2, <3>1
  <2>3. QED
    BY <1>1, <2>1, <2>2 DEF Parsed
<1>14. OneMessage(c)'
  <2>1. c \notin split' =>
          /\ cpc[c] \notin {"absent", "start", "send"}
          /\ cpc[c] = "recv" => up'[c] = 0 /\ down[c] = 0 /\ spend[c] = 0 /\ c \notin op_write
    BY <1>3, <1>4, OneRequest
  <2>2. cpc[c] = "recv" /\ down[c] = 0 /\ spend[c] = 0 => down'[c] + spend'[c] <= MsgLen
    BY <1>3, <1>6
  <2>3. c \notin split' =>
          /\ c \notin split /\ spos'[c] = 0 /\ cpc[c] \notin {"absent", "start", "send"}
          /\ cpc[c] = "recv" /\ PeerOpen(c)' =>
               /\ up'[c] <= MsgLen /\ down'[c] + spend'[c] <= MsgLen
               /\ up'[c] > 0 => down'[c] = 0 /\ spend'[c] = 0
               /\ c \in op_write' => spend'[c] > 0
    BY <1>3, <1>4, <1>6, <2>1, <2>2
  <2>4. QED
    BY <1>3, <2>3, ServedKeeps
<1>15. up'[c] + sbuf'[c] <= up[c] + sbuf[c]
  BY <1>3, <1>4, <1>9, <1>10
<1>16. QED
  BY <1>1, <1>11, <1>12, <1>13, <1>14, <1>15, ServerKeeps

\* What is left of an answer: nothing else of the connection is on its way.
LEMMA OneAnswer ==
  ASSUME Now, NEW c \in Clients, PeerOpen(c), spend[c] > 0 \/ c \in op_write, c \notin split
  PROVE  /\ spos[c] = 0 /\ cpc[c] \notin {"absent", "start", "send"}
         /\ cpc[c] = "recv" => up[c] = 0 /\ down[c] + spend[c] <= MsgLen /\ spend[c] > 0
<1>1. Keeps(c) /\ up[c] \in Nat /\ spend[c] \in Nat
  BY Typed DEF Now, StreamsIInv
<1>2. cpc[c] \notin {"absent", "start", "send"} /\ spos[c] = 0
  BY <1>1 DEF Keeps, OneMessage
<1>3. cpc[c] = "recv" => up[c] = 0 /\ down[c] + spend[c] <= MsgLen /\ spend[c] > 0
  BY <1>1 DEF Keeps, OneMessage
<1>4. QED
  BY <1>2, <1>3

\* A step that sends of an answer what is left of it, or is thought to be left.
LEMMA SendsTheRest ==
  ASSUME Now, NEW c \in Clients, UNCHANGED <<pair, client>>, PeerOpen(c),
         spend[c] > 0 \/ c \in op_write,
         UNCHANGED <<up, spos, sbuf, epc, spc, split, body_split>>,
         down' \in [Clients -> Nat], spend' \in [Clients -> 0 .. MsgLen],
         \A d \in Clients : d # c => down'[d] = down[d] /\ spend'[d] = spend[d],
         cpc[c] = "recv" /\ spend[c] > 0 => down'[c] + spend'[c] <= down[c] + spend[c],
         op_write' \subseteq Clients, S.serves = "selector" \/ op_write' = op_write,
         \A d \in Clients : d # c /\ d \in op_write' => d \in op_write,
         c \in op_write' => spend'[c] > 0
  PROVE  StreamsIInv'
<1>1. Shapes'
  BY Shaped DEF Shapes, client, MsgLen
<1>2. \A d \in Clients : d # c => Same(d) /\ Closing(d)
  BY DEF Same, client, Closing, PeerOpen
<1>3. Parsed(c)'
  <2>1. S' = S /\ Parsed(c)
    BY DEF S, Now, StreamsIInv, Keeps
  <2>2. QED
    BY <2>1 DEF Parsed
<1>4. MsgLen \in Nat /\ down[c] \in Nat /\ spend[c] \in Nat /\ down'[c] \in Nat /\ spend'[c] \in Nat
      /\ up[c] \in Nat /\ sbuf[c] \in Nat
  BY Typed DEF Now, Known
<1>5. OneMessage(c)'
  <2>1. c \notin split' =>
          /\ c \notin split /\ spos'[c] = 0 /\ cpc[c] \notin {"absent", "start", "send"}
          /\ cpc[c] = "recv" => up'[c] = 0 /\ down[c] + spend[c] <= MsgLen /\ spend[c] > 0
    BY OneAnswer
  <2>2. cpc[c] = "recv" /\ down[c] + spend[c] <= MsgLen /\ spend[c] > 0 =>
          down'[c] + spend'[c] <= MsgLen
    BY <1>4
  <2>3. c \notin split' =>
          /\ c \notin split /\ spos'[c] = 0 /\ cpc[c] \notin {"absent", "start", "send"}
          /\ cpc[c] = "recv" /\ PeerOpen(c)' =>
               /\ up'[c] <= MsgLen /\ down'[c] + spend'[c] <= MsgLen
               /\ up'[c] > 0 => down'[c] = 0 /\ spend'[c] = 0
               /\ c \in op_write' => spend'[c] > 0
    BY <1>4, <2>1, <2>2
  <2>4. QED
    BY <2>3, ServedKeeps
<1>6. up'[c] + sbuf'[c] <= up[c] + sbuf[c] /\ epc[c] # "none"
  BY <1>4 DEF PeerOpen
<1>7. QED
  BY <1>1, <1>2, <1>3, <1>5, <1>6, ServerKeeps

LEMMA ServeWritableStep ==
  ASSUME Now, NEW c \in Clients, ServeWritable(c), UNCHANGED <<pair, client>> PROVE StreamsIInv'
<1>1. S.serves = "selector" /\ PeerOpen(c) /\ c \in op_write /\ SendData(c, op_write \ {c})
      /\ UNCHANGED <<up, spos, sbuf, epc, spc, split, body_split>>
  BY DEF ServeWritable, PeerOpen
<1>2. /\ down' \in [Clients -> Nat] /\ spend' \in [Clients -> 0 .. MsgLen]
      /\ \A d \in Clients : d # c => down'[d] = down[d] /\ spend'[d] = spend[d]
      /\ cpc[c] = "recv" =>
           down'[c] + spend'[c] = down[c] + IF spend[c] = 0 THEN MsgLen ELSE spend[c]
      /\ op_write' \subseteq Clients
      /\ \A d \in Clients : d # c /\ d \in op_write' => d \in op_write
      /\ c \in op_write' => spend'[c] > 0
  BY <1>1, SendsData
<1>3. down[c] \in Nat /\ spend[c] \in Nat
  BY Typed
<1>4. cpc[c] = "recv" /\ spend[c] > 0 => down'[c] + spend'[c] <= down[c] + spend[c]
  BY <1>1, <1>2, <1>3
<1>5. QED
  BY <1>1, <1>2, <1>4, SendsTheRest

LEMMA WriteCompletesStep ==
  ASSUME Now, NEW c \in Clients, WriteCompletes(c), UNCHANGED <<pair, client>> PROVE StreamsIInv'
<1>1. S.serves # "selector" /\ PeerOpen(c) /\ spend[c] > 0 /\ spend' = [spend EXCEPT ![c] = 0]
      /\ UNCHANGED <<up, spos, sbuf, op_write, epc, spc, split, body_split>>
  BY DEF WriteCompletes
<1>2. PICK n \in 1 .. spend[c] : Answer(c, n)
  BY DEF WriteCompletes
<1>3. down[c] \in Nat /\ spend[c] \in Nat /\ n \in Nat /\ n <= spend[c] /\ MsgLen \in Nat
  BY Typed DEF Now, Known
<1>4. down' \in [Clients -> Nat] /\ down'[c] = (IF ClientOpen(c) THEN down[c] + n ELSE down[c])
      /\ \A d \in Clients : d # c => down'[d] = down[d]
  BY <1>2, <1>3, AnswersBytes
<1>5. spend' \in [Clients -> 0 .. MsgLen] /\ spend'[c] = 0
      /\ \A d \in Clients : d # c => spend'[d] = spend[d]
  BY <1>1, <1>3, Typed
<1>6. cpc[c] = "recv" => down'[c] + spend'[c] <= down[c] + spend[c]
  BY <1>3, <1>4, <1>5
<1>7. c \notin op_write'
  <2>1. Keeps(c)
    BY DEF Now, StreamsIInv
  <2>2. QED
    BY <1>1, <2>1 DEF Keeps, Parsed
<1>8. op_write' \subseteq Clients /\ \A d \in Clients : d # c /\ d \in op_write' => d \in op_write
  BY <1>1, Typed
<1>9. QED
  BY <1>1, <1>4, <1>5, <1>6, <1>7, <1>8, SendsTheRest

LEMMA ServeCompletionStep ==
  ASSUME Now, NEW c \in Clients, ServeCompletion(c), UNCHANGED <<pair, client>> PROVE StreamsIInv'
<1>1. S.serves = "handler" /\ epc[c] = "read" /\ UNCHANGED <<sbuf, op_write, spc>>
  BY DEF ServeCompletion
<1>2. PICK n \in 1 .. up[c] : Fetch(c, n)
  BY DEF ServeCompletion
<1>3. MsgLen \in Nat \ {0} /\ up[c] \in Nat /\ sbuf[c] \in Nat /\ PeerOpen(c)
      /\ n \in Nat /\ n <= up[c] /\ down[c] \in Nat /\ spend[c] \in Nat
  BY <1>1, Typed DEF Now, Known, PeerOpen
<1>4. /\ up' \in [Clients -> Nat] /\ spos' \in [Clients -> 0 .. MsgLen - 1]
      /\ split' \subseteq Clients /\ body_split' \subseteq split' /\ up'[c] = up[c] - n
      /\ \A d \in Clients : d # c =>
           /\ up'[d] = up[d] /\ spos'[d] = spos[d]
           /\ (d \in split' <=> d \in split) /\ (d \in body_split' <=> d \in body_split)
      /\ c \notin split' => c \notin split /\ spos'[c] = 0 /\ n >= MsgLen
  BY <1>2, FetchesBytes
<1>5. /\ down' \in [Clients -> Nat] /\ spend' \in [Clients -> 0 .. MsgLen]
      /\ epc' \in [Clients -> Phases] /\ epc'[c] \in {"read", "abandoned"}
      /\ \A d \in Clients : d # c =>
           down'[d] = down[d] /\ spend'[d] = spend[d] /\ epc'[d] = epc[d]
      /\ down[c] = 0 /\ spend[c] = 0 => down'[c] + spend'[c] <= MsgLen
  <2>1. CASE /\ spend[c] > 0 /\ epc' = [epc EXCEPT ![c] = "abandoned"]
             /\ UNCHANGED <<down, spend>>
    BY <1>1, <2>1, Typed DEF Phases
  <2>2. CASE spend[c] = 0 /\ UNCHANGED <<epc, spend>> /\ \E m \in 1 .. MsgLen : Answer(c, m)
    <3>1. PICK m \in 1 .. MsgLen : Answer(c, m)
      BY <2>2
    <3>2. m \in Nat /\ m <= MsgLen
      BY <1>3
    <3>3. down' \in [Clients -> Nat] /\ down'[c] = (IF ClientOpen(c) THEN down[c] + m ELSE down[c])
          /\ \A d \in Clients : d # c => down'[d] = down[d]
      BY <3>1, <3>2, AnswersBytes
    <3>4. down[c] = 0 => down'[c] + spend'[c] <= MsgLen
      BY <1>3, <2>2, <3>2, <3>3
    <3>5. QED
      BY <1>1, <2>2, <3>3, <3>4, Typed
  <2>3. CASE spend[c] = 0 /\ UNCHANGED <<epc, down>> /\ spend' = [spend EXCEPT ![c] = MsgLen]
    <3>1. MsgLen \in 0 .. MsgLen
      BY <1>3
    <3>2. spend' \in [Clients -> 0 .. MsgLen] /\ spend'[c] = MsgLen
          /\ \A d \in Clients : d # c => spend'[d] = spend[d]
      BY <2>3, <3>1, Typed
    <3>3. down[c] = 0 => down'[c] + spend'[c] <= MsgLen
      BY <1>3, <2>3, <3>2
    <3>4. QED
      BY <1>1, <2>3, <3>2, <3>3, Typed
  <2>4. QED
    BY <2>1, <2>2, <2>3 DEF ServeCompletion
<1>6. Shapes'
  BY <1>1, <1>4, <1>5, Shaped DEF Shapes, client, MsgLen
<1>7. \A d \in Clients : d # c => Same(d) /\ Closing(d)
  BY <1>1, <1>4, <1>5 DEF Same, client, Closing, PeerOpen
<1>8. Parsed(c)'
  <2>1. S' = S /\ Parsed(c)
    BY DEF S, Now, StreamsIInv, Keeps
  <2>2. QED
    BY <1>1, <2>1 DEF Parsed
<1>9. OneMessage(c)'
  <2>1. c \notin split' =>
          /\ cpc[c] \notin {"absent", "start", "send"}
          /\ cpc[c] = "recv" => up'[c] = 0 /\ down[c] = 0 /\ spend[c] = 0 /\ c \notin op_write
    BY <1>3, <1>4, OneRequest
  <2>2. c \notin split' =>
          /\ c \notin split /\ spos'[c] = 0 /\ cpc[c] \notin {"absent", "start", "send"}
          /\ cpc[c] = "recv" /\ PeerOpen(c)' =>
               /\ up'[c] <= MsgLen /\ down'[c] + spend'[c] <= MsgLen
               /\ up'[c] > 0 => down'[c] = 0 /\ spend'[c] = 0
               /\ c \in op_write' => spend'[c] > 0
    BY <1>1, <1>3, <1>4, <1>5, <2>1
  <2>3. QED
    BY <1>3, <2>2, ServedKeeps
<1>10. up'[c] + sbuf'[c] <= up[c] + sbuf[c]
  BY <1>1, <1>3, <1>4
<1>11. QED
  BY <1>1, <1>6, <1>7, <1>8, <1>9, <1>10, ServerKeeps

LEMMA SeesEndStep ==
  ASSUME Now, NEW c \in Clients, SeesEnd(c), UNCHANGED <<pair, client>> PROVE StreamsIInv'
<1>1. epc[c] \in {"read", "drain"} /\ UNCHANGED <<up, down, spos, sbuf, spend, split, body_split>>
  BY DEF SeesEnd
<1>2. UNCHANGED <<pair, client, spos, sbuf, spend, wire, split, body_split>>
      /\ op_write' \subseteq op_write
  BY <1>1 DEF SeesEnd, wire
<1>3. CASE CloseAndExit(c)
  BY <1>1, <1>2, <1>3, ClosesKeeps, OnlyTheEnds
<1>4. ASSUME NEW x \in {"drain", "abandoned", "closed"}, epc' = [epc EXCEPT ![c] = x], UNCHANGED spc
      PROVE  StreamsIInv'
  <2>1. epc' \in [Clients -> Phases] /\ epc'[c] = x /\ \A d \in Clients : d # c => epc'[d] = epc[d]
    BY <1>4, Typed DEF Phases
  <2>2. \A d \in Clients : Closing(d)
    BY <1>1, <2>1 DEF Closing, PeerOpen
  <2>3. spc' \in {"accept", "serve", "deaf", "exited"}
    BY <1>4, Shaped DEF Shapes
  <2>4. QED
    BY <1>2, <2>1, <2>2, <2>3, OnlyTheEnds
<1>5. QED
  BY <1>3, <1>4 DEF SeesEnd

-----------------------------------------------------------------------------
(* The theorems *)

LEMMA InitHolds == ASSUME StreamInit PROVE StreamsIInv
<1>1. pair \in StreamScenarios
  BY DEF StreamInit
<1>2. Known
  BY <1>1, RunKnown
<1>3. /\ cpc = [c \in Clients |-> IF c \in pair.clients THEN "start" ELSE "absent"]
      /\ left = [c \in Clients |-> C.rounds]
      /\ got = [c \in Clients |-> 0] /\ lim = [c \in Clients |-> RECV_BUF]
      /\ up = [c \in Clients |-> 0] /\ down = [c \in Clients |-> 0]
      /\ cpos = [c \in Clients |-> 0] /\ spos = [c \in Clients |-> 0]
      /\ sbuf = [c \in Clients |-> 0] /\ spend = [c \in Clients |-> 0]
      /\ epc = [c \in Clients |-> "none"] /\ spc = "accept" /\ split = {} /\ body_split = {}
      /\ op_write = {}
  BY DEF StreamInit
<1>4. MsgLen \in Nat \ {0} /\ RECV_BUF \in MsgLen .. RECV_BUF /\ C.rounds \in 1 .. Rounds
      /\ Rounds \in Nat /\ RECV_BUF \in Nat
  BY <1>2 DEF Known
<1>5. Shapes
  <2>1. 0 \in 0 .. MsgLen - 1 /\ 0 \in 0 .. MsgLen /\ 0 \in 0 .. RECV_BUF /\ C.rounds \in 0 .. Rounds
    BY <1>4
  <2>2. left \in [Clients -> 0 .. Rounds] /\ got \in [Clients -> 0 .. RECV_BUF]
        /\ lim \in [Clients -> MsgLen .. RECV_BUF]
    BY <1>3, <1>4, <2>1
  <2>3. cpos \in [Clients -> 0 .. MsgLen - 1] /\ spos \in [Clients -> 0 .. MsgLen - 1]
        /\ spend \in [Clients -> 0 .. MsgLen]
    BY <1>3, <2>1
  <2>4. cpc \in [Clients -> Places] /\ epc \in [Clients -> Phases]
    BY <1>3 DEF Places, Phases
  <2>5. up \in [Clients -> Nat] /\ down \in [Clients -> Nat] /\ sbuf \in [Clients -> Nat]
    BY <1>3
  <2>6. QED
    BY <1>1, <1>3, <2>2, <2>3, <2>4, <2>5 DEF Shapes
<1>6. ASSUME NEW c \in Clients PROVE Keeps(c)
  <2>1. Asking(c)
    BY <1>3, <1>4 DEF Asking
  <2>2. Sent(c)
    <3>1. Due(c) \in Nat
      BY <1>3, <1>4 DEF Due
    <3>2. MsgLen * Due(c) \in Nat
      BY <1>4, <3>1, Scaled
    <3>3. QED
      BY <1>3, <3>2 DEF Sent, Room
  <2>3. Parsed(c)
    BY <1>3 DEF Parsed
  <2>4. OneMessage(c)
    BY <1>3 DEF OneMessage, PeerOpen
  <2>5. QED
    BY <2>1, <2>2, <2>3, <2>4 DEF Keeps
<1>7. StreamTypeOK
  BY <1>2, <1>5, <1>6, BoundsFollow DEF All
<1>8. QED
  BY <1>6, <1>7 DEF StreamsIInv

LEMMA StepHolds == ASSUME StreamsIInv, [StreamNext]_streamVars PROVE StreamsIInv'
<1>1. Now
  BY RunKnown DEF Now, StreamsIInv, StreamTypeOK
<1>2. ASSUME NEW c \in Clients, ClientStep(c) \/ ClientError(c) PROVE StreamsIInv'
  BY <1>1, <1>2, ConnectStep, SendStep, SendClosedStep, RecvStep, RecvEndStep, ClientErrorStep
     DEF ClientStep
<1>3. ASSUME NEW c \in Clients, Serve(c) PROVE StreamsIInv'
  BY <1>1, <1>3, ServeOneStep, ServeThreadStep, ServeReadableStep, ServeWritableStep,
     ServeCompletionStep, WriteCompletesStep, SeesEndStep DEF Serve
<1>4. ASSUME NEW c \in Clients, ServerStep(c) PROVE StreamsIInv'
  BY <1>1, <1>3, <1>4, AcceptStep, PoolStartsStep DEF ServerStep
<1>5. CASE UNCHANGED streamVars
  <2>1. epc' \in [Clients -> Phases] /\ spc' \in {"accept", "serve", "deaf", "exited"}
        /\ \A d \in Clients : Closing(d)
    BY <1>1, <1>5, Shaped DEF streamVars, Shapes, Closing, PeerOpen
  <2>2. QED
    BY <1>1, <1>5, <2>1, OnlyTheEnds DEF streamVars, server
<1>6. QED
  BY <1>1, <1>2, <1>4, <1>5, AcceptFailsStep, ServerTimesOutStep DEF StreamNext

(* The variables keep their types, a client asks while it has requests to    *)
(* make, the NIO server has parsed what it has read, and there is one message *)
(* on its way at most on a connection on which no read ended inside one: for  *)
(* any clients, lengths and rounds.                                           *)
THEOREM StreamsInvariance == StreamSpec => []StreamsIInv
<1>1. StreamInit => StreamsIInv
  BY InitHolds
<1>2. StreamsIInv /\ [StreamNext]_streamVars => StreamsIInv'
  BY StepHolds
<1>3. QED
  BY <1>1, <1>2, PTL DEF StreamSpec

LEMMA OneAtATime == ASSUME StreamsIInv PROVE RoundLeavesNothing
<1>1. StreamTypeOK /\ Now
  BY RunKnown DEF Now, StreamsIInv, StreamTypeOK
<1>2. ASSUME NEW c \in Clients \ split, cpc[c] = "send", PeerOpen(c)
      PROVE  up[c] = 0 /\ down[c] = 0 /\ sbuf[c] = 0 /\ spend[c] = 0 /\ spos[c] = 0 /\ cpos[c] = 0
             /\ c \notin op_write
  <2>1. Keeps(c) /\ c \notin body_split
    BY <1>1, Typed DEF StreamsIInv
  <2>2. up[c] = 0 /\ down[c] = 0 /\ spend[c] = 0 /\ spos[c] = 0 /\ cpos[c] = 0 /\ c \notin op_write
    BY <1>2, <2>1 DEF Keeps, OneMessage
  <2>3. sbuf[c] = 0
    BY <2>1, <2>2 DEF Keeps, Parsed
  <2>4. QED
    BY <2>2, <2>3
<1>3. QED
  BY <1>1, <1>2 DEF RoundLeavesNothing

(* On a connection on which no read ended inside a message, nothing is left  *)
(* of the last round when the client sends its next request.                 *)
THEOREM NothingIsLeft == StreamSpec => []RoundLeavesNothing
<1>1. StreamsIInv => RoundLeavesNothing
  BY OneAtATime
<1>2. QED
  BY <1>1, StreamsInvariance, PTL

LEMMA ParserInStep == ASSUME StreamsIInv PROVE ParserKeepsStep
<1>1. Now
  BY RunKnown DEF Now, StreamsIInv, StreamTypeOK
<1>2. QED
  BY <1>1, ParserAtABoundary DEF ParserKeepsStep

(* The NIO server's parser stands at a message's boundary, unless a read of  *)
(* its own ended inside a body.                                              *)
THEOREM ParserStaysInStep == StreamSpec => []ParserKeepsStep
<1>1. StreamsIInv => ParserKeepsStep
  BY ParserInStep
<1>2. QED
  BY <1>1, StreamsInvariance, PTL

=============================================================================
