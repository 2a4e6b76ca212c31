----------------------------- MODULE JavaNetwork -----------------------------
(***************************************************************************)
(* The network framework of java_netprogramming: a ThreadPool of IOThreads,*)
(* each with a Poller (a selector) and a queue of events posted to it, and *)
(* the SocketHandlers registered with the poller: an Acceptor, TcpHandlers *)
(* it accepts and TcpHandlers that connect.                                *)
(*                                                                         *)
(* The application is not in the repository: users are threads that take   *)
(* an IOThread from the pool and start a handler on it, and the callbacks  *)
(* of an adapter do what the interface lets them, without exceptions of    *)
(* their own.  The selector is the JDK's: a wakeup is remembered until the *)
(* next select, a change of a key's interest is seen by the next select, a *)
(* connection its peer has reset is ready for whatever its key is          *)
(* interested in, and a cancelled key stays among the selected ones and    *)
(* throws when it is asked what it is ready for.  The selector's locks     *)
(* order stop_, which is not volatile; an IOException of poll() only starts*)
(* the Worker's loop again, and is left out.                               *)
(***************************************************************************)
EXTENDS Naturals, FiniteSets, Sequences

CONSTANTS Users,       \* application threads, each of which starts a handler
          Listeners,   \* the users whose handler is an Acceptor
          Accepted,    \* handlers that handle_accept may create
          MaxThreads,  \* bound: thr_num of ThreadPool.initialize
          Scenarios    \* [users, threads, traffic, destroy]: who calls, thr_num,
                       \* bound: what peers do, and is destroy() called?

ASSUME ParametersAssumption ==
    /\ Listeners \subseteq Users
    /\ Users \cap Accepted = {}
    /\ IsFiniteSet(Users) /\ IsFiniteSet(Accepted)
    /\ MaxThreads \in Nat \ {0}
    /\ Scenarios \subseteq [users : SUBSET Users, threads : 1 .. MaxThreads,
                           traffic : Nat, destroy : BOOLEAN]

\* A user's handler goes by the user's name.
Handlers   == Users \cup Accepted
Connectors == Users \ Listeners
Threads    == 0 .. MaxThreads - 1
Ops        == {"ACCEPT", "CONNECT", "READ", "WRITE"}

VARIABLES
    run,                \* the scenario
    started,            \* how many of the pool's threads came up
    cur_index,
    upc, uidx, umod,    \* a user: its place, and its copies of cur_index
    calls, overlapped,  \* history: calls of getIOThread, and did two overlap?
    dpc, dnext,         \* destroy(): its place, and the thread it is at
    wpc,                \* each thread's Worker
    stop_, wake,        \* stop_, and the selector's pending wakeup
    listener,           \* the events posted to each thread
    thr,                \* the IOThread of each handler
    chan, key,          \* its channel and its selection key
    interest, seen,     \* the key's operations, and those select knows of
    ready,              \* the operations selected and not yet dealt with
    adapterless,        \* handlers whose adapter is null
    inbox, eof, backlog,\* what the peers have sent, closed, connected
    reset,              \* connections the peer has reset
    traffic,            \* what the peers have done so far
    misused,            \* history: handlers closed when it kills the thread
    restarted,          \* history: listeners started again after a stop
    thrown              \* history: threads in whose callbacks a close() threw

thr_num == run.threads

pool    == <<run, started, cur_index, upc, uidx, umod, calls, overlapped>>
manager == <<dpc, dnext>>
threads == <<wpc, stop_, wake, listener>>
history == <<misused, restarted, thrown>>
handler == <<thr, chan, key, interest, seen, ready, adapterless, history>>
peer    == <<inbox, eof, backlog, reset, traffic>>
vars    == <<pool, manager, threads, handler, peer>>

\* initialize: the first thread whose selector cannot be opened ends the loop.
Init ==
    /\ run \in Scenarios
    /\ started \in 0 .. thr_num
    /\ cur_index = 0
    /\ upc = [u \in Users |-> IF u \in run.users THEN "idle" ELSE "absent"]
    /\ uidx = [u \in Users |-> 0] /\ umod = [u \in Users |-> 0]
    /\ calls = 0 /\ overlapped = FALSE
    /\ dpc = "idle" /\ dnext = 0
    /\ wpc = [t \in Threads |-> IF t < started THEN "check" ELSE "none"]
    /\ stop_ = [t \in Threads |-> FALSE] /\ wake = [t \in Threads |-> FALSE]
    /\ listener = [t \in Threads |-> <<>>]
    /\ thr = [h \in Handlers |-> MaxThreads]
    /\ chan = [h \in Handlers |-> "none"] /\ key = [h \in Handlers |-> "none"]
    /\ interest = [h \in Handlers |-> {}] /\ seen = [h \in Handlers |-> {}]
    /\ ready = [h \in Handlers |-> {}]
    /\ adapterless = {} /\ misused = {} /\ restarted = {} /\ thrown = {}
    /\ inbox = [h \in Handlers |-> FALSE] /\ eof = [h \in Handlers |-> FALSE]
    /\ backlog = [h \in Handlers |-> 0]
    /\ reset = {} /\ traffic = 0

-----------------------------------------------------------------------------
(* ThreadPool.getIOThread: thrs_[cur_index++], then cur_index %= thr_num;   *)
(* nothing is synchronized.                                                 *)

InCall(u) == upc[u] \in {"read", "indexed", "modulo"}

GetRead(u) ==
    /\ upc[u] = "idle"
    /\ uidx' = [uidx EXCEPT ![u] = cur_index]
    /\ upc' = [upc EXCEPT ![u] = "read"]
    /\ calls' = calls + 1
    /\ overlapped' = (overlapped \/ \E v \in Users : InCall(v))
    /\ UNCHANGED <<run, started, cur_index, umod, manager, threads, handler, peer>>

\* The index is stored before the array is asked for it.
GetIncrement(u) ==
    /\ upc[u] = "read"
    /\ cur_index' = uidx[u] + 1
    /\ upc' = [upc EXCEPT ![u] = IF uidx[u] < thr_num THEN "indexed" ELSE "failed"]
    /\ UNCHANGED <<run, started, uidx, umod, calls, overlapped, manager, threads,
                   handler, peer>>

GetModRead(u) ==
    /\ upc[u] = "indexed"
    /\ umod' = [umod EXCEPT ![u] = cur_index]
    /\ upc' = [upc EXCEPT ![u] = "modulo"]
    /\ UNCHANGED <<run, started, cur_index, uidx, calls, overlapped, manager, threads,
                   handler, peer>>

\* (mutant: the index comes round one call late)
GetModWriteLate(u) ==
    /\ upc[u] = "modulo"
    /\ cur_index' = umod[u] % (thr_num + 1)
    /\ thr' = [thr EXCEPT ![u] = uidx[u]]
    /\ upc' = [upc EXCEPT ![u] = "got"]
    /\ UNCHANGED <<run, started, uidx, umod, calls, overlapped, manager, threads, chan,
                   key, interest, seen, ready, adapterless, history, peer>>

GetModWrite(u) ==
    /\ upc[u] = "modulo"
    /\ cur_index' = umod[u] % thr_num
    /\ thr' = [thr EXCEPT ![u] = uidx[u]]
    /\ upc' = [upc EXCEPT ![u] = "got"]
    /\ UNCHANGED <<run, started, uidx, umod, calls, overlapped, manager, threads, chan,
                   key, interest, seen, ready, adapterless, history, peer>>

-----------------------------------------------------------------------------
(* Starting a handler, in the user's thread *)

UserGoes(u, to) ==
    /\ upc' = [upc EXCEPT ![u] = to]
    /\ UNCHANGED <<run, started, cur_index, uidx, umod, calls, overlapped, manager>>

Up(t) == t < started

\* Acceptor.start, up to the queue.  An address in use, or a thread that never
\* came up, is an exception.
AcceptorStart(u) ==
    /\ u \in Listeners /\ upc[u] = "got"
    /\ \/ /\ Up(thr[u])
          /\ chan' = [chan EXCEPT ![u] = "listening"]
          /\ listener' = [listener EXCEPT ![thr[u]] = Append(@, u)]
          /\ UserGoes(u, "offered")
       \/ UserGoes(u, "failed") /\ UNCHANGED <<chan, listener>>
    /\ UNCHANGED <<wpc, stop_, wake, thr, key, interest, seen, ready, adapterless, history,
                   peer>>

\* The same Acceptor after a stop(): another channel, the same sk_.  Bound: once.
AcceptorRestart(u) ==
    /\ u \in Listeners /\ upc[u] = "up"
    /\ chan[u] = "closed" /\ u \notin restarted
    /\ chan' = [chan EXCEPT ![u] = "listening"]
    /\ backlog' = [backlog EXCEPT ![u] = 0]
    /\ listener' = [listener EXCEPT ![thr[u]] = Append(@, u)]
    /\ restarted' = restarted \cup {u}
    /\ UserGoes(u, "offered")
    /\ UNCHANGED <<wpc, stop_, wake, thr, key, interest, seen, ready, adapterless, misused,
                   thrown, inbox, eof, reset, traffic>>

\* (mutant: addListener does not wake the selector)
WakeUpNot(u) ==
    /\ upc[u] = "offered"
    /\ UserGoes(u, "up")
    /\ UNCHANGED <<threads, handler, peer>>

\* addListener's second half.
WakeUp(u) ==
    /\ upc[u] = "offered"
    /\ wake' = [wake EXCEPT ![thr[u]] = TRUE]
    /\ UserGoes(u, "up")
    /\ UNCHANGED <<wpc, stop_, listener, handler, peer>>

\* TcpHandler.connect: connected at once, without a key; or OP_CONNECT is
\* registered with the selector, which may be asleep; or an exception.
Connect(u) ==
    /\ u \in Connectors /\ upc[u] = "got"
    /\ \/ /\ chan' = [chan EXCEPT ![u] = "connected"]
          /\ UserGoes(u, "up")
          /\ UNCHANGED <<key, interest>>
       \/ /\ Up(thr[u])
          /\ chan' = [chan EXCEPT ![u] = "connecting"]
          /\ key' = [key EXCEPT ![u] = "valid"]
          /\ interest' = [interest EXCEPT ![u] = {"CONNECT"}]
          /\ UserGoes(u, "up")
       \/ UserGoes(u, "failed") /\ UNCHANGED <<chan, key, interest>>
    /\ UNCHANGED <<threads, thr, seen, ready, adapterless, history, peer>>

-----------------------------------------------------------------------------
(* The Worker of an IOThread *)

WorkerGoes(t, to) == wpc' = [wpc EXCEPT ![t] = to]

CheckStop(t) ==
    /\ wpc[t] = "check"
    /\ WorkerGoes(t, IF stop_[t] THEN "exited" ELSE "dispatch")
    /\ UNCHANGED <<pool, manager, stop_, wake, listener, handler, peer>>

\* dispatchListeners and Acceptor.process: OP_ACCEPT, unless stop() has closed
\* the channel, which is an exception process() catches; that of a key cancelled
\* since an earlier start it does not.
DispatchListener(t) ==
    /\ wpc[t] = "dispatch" /\ listener[t] # <<>>
    /\ LET h == Head(listener[t])
       IN \/ key[h] = "cancelled" /\ WorkerGoes(t, "dead") /\ UNCHANGED <<key, interest>>
          \/ key[h] = "none" /\ chan[h] = "closed" /\ UNCHANGED <<wpc, key, interest>>
          \/ /\ key[h] = "valid" \/ (key[h] = "none" /\ chan[h] # "closed")
             /\ key' = [key EXCEPT ![h] = "valid"]
             /\ interest' = [interest EXCEPT ![h] = @ \cup {"ACCEPT"}]
             /\ UNCHANGED wpc
    /\ listener' = [listener EXCEPT ![t] = Tail(@)]
    /\ UNCHANGED <<pool, manager, stop_, wake, thr, chan, seen, ready, adapterless,
                   history, peer>>

EnterSelect(t) ==
    /\ wpc[t] = "dispatch" /\ listener[t] = <<>>
    /\ WorkerGoes(t, "select")
    /\ seen' = [h \in Handlers |-> IF thr[h] = t THEN interest[h] ELSE seen[h]]
    /\ UNCHANGED <<pool, manager, stop_, wake, listener, thr, chan, key, interest, ready,
                   adapterless, history, peer>>

NetReady(h) ==
    {op \in Ops :
        \/ op = "ACCEPT"  /\ chan[h] = "listening" /\ backlog[h] > 0
        \/ op = "CONNECT" /\ chan[h] \in {"established", "refused"}
        \/ op = "READ"    /\ chan[h] = "connected" /\ (inbox[h] \/ eof[h])
        \/ op = "WRITE"   /\ chan[h] = "connected"}

Fired(h) ==
    IF key[h] = "valid"
    THEN IF h \in reset /\ chan[h] = "connected" THEN seen[h] ELSE NetReady(h) \cap seen[h]
    ELSE {}

\* OP_CONNECT is never taken back: the socket is writable, for the JDK's poll a
\* sign of a connection, and the connected channel is ready for nothing.
Spins(h) == key[h] = "valid" /\ chan[h] = "connected" /\ "CONNECT" \in seen[h]

On(t) == {h \in Handlers : thr[h] = t}

SelectReturns(t) ==
    /\ wpc[t] = "select"
    /\ wake[t] \/ \E h \in On(t) : Fired(h) # {} \/ Spins(h)
    /\ ready' = [h \in Handlers |-> IF thr[h] = t THEN Fired(h) ELSE ready[h]]
    /\ wake' = [wake EXCEPT ![t] = FALSE]
    /\ WorkerGoes(t, IF \E h \in On(t) : Fired(h) # {} THEN "handle" ELSE "check")
    /\ UNCHANGED <<pool, manager, stop_, listener, thr, chan, key, interest, seen,
                   adapterless, history, peer>>

\* The key's turn is over.
NextKey(t, h) ==
    /\ ready' = [ready EXCEPT ![h] = {}]
    /\ WorkerGoes(t, IF \E g \in On(t) \ {h} : ready[g] # {} THEN "handle" ELSE "check")

\* A RuntimeException is caught neither by poll() nor by run().
Dies(t) == WorkerGoes(t, "dead") /\ UNCHANGED ready

Cancelled(h) == key' = [key EXCEPT ![h] = IF @ = "valid" THEN "cancelled" ELSE @]

\* SocketHandler.close, or Acceptor.stop.
Closed(h) == chan' = [chan EXCEPT ![h] = "closed"] /\ Cancelled(h)

\* h is closed while it is selected: its key will be asked what it is ready for.
Misused(h) == misused' = IF ready[h] # {} THEN misused \cup {h} ELSE misused

\* A callback closes g, and close() throws: a connection made at once has no key,
\* and an Acceptor's channel is not the one that close() closes.
CloseThrows(t) ==
    /\ \E g \in Users :
        /\ chan[g] = (IF g \in Listeners THEN "listening" ELSE "connected")
        /\ g \in Listeners \/ key[g] = "none"
        /\ Cancelled(g) /\ Misused(g)
    /\ thrown' = thrown \cup {t}
    /\ Dies(t)

HandleCancelled(t, h) ==
    /\ key[h] = "cancelled"
    /\ Dies(t)
    /\ UNCHANGED <<thr, chan, key, interest, adapterless, history, peer>>

\* (mutant: handle_accept catches IOException only)
HandleAcceptUncaught(t, h) ==
    /\ "ACCEPT" \in ready[h]
    /\ \/ /\ backlog[h] > 0
          /\ backlog' = [backlog EXCEPT ![h] = @ - 1]
          /\ \E s \in {s \in Accepted : chan[s] = "none"} :
                /\ thr' = [thr EXCEPT ![s] = t]
                /\ chan' = [chan EXCEPT ![s] = "connected"]
                /\ key' = [key EXCEPT ![s] = "valid"]
                /\ interest' = [interest EXCEPT ![s] = {"READ"}]
                /\ adapterless' \in {adapterless, adapterless \cup {s}}
          /\ NextKey(t, h)
       \/ /\ backlog[h] = 0 /\ UNCHANGED <<backlog, thr, chan, key, interest, adapterless>>
          /\ Dies(t)
    /\ UNCHANGED <<history, inbox, eof, reset, traffic>>

\* handle_accept registers what it has accepted before it looks at the adapter;
\* every exception is caught, that of a connection gone before the accept too.
HandleAccept(t, h) ==
    /\ "ACCEPT" \in ready[h]
    /\ \/ /\ backlog[h] > 0
          /\ backlog' = [backlog EXCEPT ![h] = @ - 1]
          /\ \E s \in {s \in Accepted : chan[s] = "none"} :
                /\ thr' = [thr EXCEPT ![s] = t]
                /\ chan' = [chan EXCEPT ![s] = "connected"]
                /\ key' = [key EXCEPT ![s] = "valid"]
                /\ interest' = [interest EXCEPT ![s] = {"READ"}]
                /\ adapterless' \in {adapterless, adapterless \cup {s}}
       \/ backlog[h] = 0 /\ UNCHANGED <<backlog, thr, chan, key, interest, adapterless>>
    /\ NextKey(t, h)
    /\ UNCHANGED <<history, inbox, eof, reset, traffic>>

\* finishConnect; onConnected, which may close the handler, and then OP_READ is
\* registered on a cancelled key.  A refusal closes the channel and is onClose.
\* OP_CONNECT stays registered: after a reset finishConnect finds the channel
\* connected, onConnected is called again, and nothing is read any more.
HandleConnected(t, h) ==
    /\ "CONNECT" \in ready[h]
    /\ \/ /\ chan[h] \in {"established", "connected"}
          /\ chan' = [chan EXCEPT ![h] = "connected"]
          /\ \/ /\ interest' = [interest EXCEPT ![h] = @ \cup {"READ"}]
                /\ NextKey(t, h)
                /\ UNCHANGED <<key, history>>
             \/ CloseThrows(t) /\ UNCHANGED <<interest, restarted>>
       \/ /\ chan[h] \in {"established", "connected"}
          /\ Closed(h) /\ Misused(h)
          /\ Dies(t)
          /\ UNCHANGED <<interest, restarted, thrown>>
       \/ /\ chan[h] = "refused"
          /\ Closed(h)
          /\ NextKey(t, h)
          /\ UNCHANGED <<interest, history>>
    /\ UNCHANGED <<thr, adapterless, peer>>

\* onRead takes what there is, and closes the handler at the end of the stream
\* or when it likes; an answer the kernel does not take at once is left to
\* OP_WRITE.  A null adapter is a NullPointerException.
HandleRead(t, h) ==
    /\ "READ" \in ready[h] /\ "CONNECT" \notin ready[h]
    /\ \/ /\ h \in adapterless
          /\ Dies(t)
          /\ UNCHANGED <<chan, key, interest, inbox, history>>
       \/ /\ h \notin adapterless
          /\ inbox' = [inbox EXCEPT ![h] = FALSE]
          /\ NextKey(t, h)
          /\ \/ Closed(h) /\ UNCHANGED interest
             \/ /\ ~eof[h]
                /\ \E ops \in {{}, {"WRITE"}} :
                     interest' = [interest EXCEPT ![h] = @ \cup ops]
                /\ UNCHANGED <<chan, key>>
          /\ UNCHANGED history
       \/ /\ h \notin adapterless
          /\ CloseThrows(t)
          /\ UNCHANGED <<chan, interest, inbox, restarted>>
    /\ UNCHANGED <<thr, adapterless, eof, backlog, reset, traffic>>

\* (mutant: OP_WRITE is not taken back)
HandleWriteAgain(t, h) ==
    /\ "WRITE" \in ready[h] /\ ready[h] \cap {"CONNECT", "READ"} = {}
    /\ \/ NextKey(t, h) /\ (Closed(h) \/ UNCHANGED <<chan, key>>) /\ UNCHANGED history
       \/ CloseThrows(t) /\ UNCHANGED <<chan, restarted>>
    /\ UNCHANGED <<thr, interest, adapterless, peer>>

\* OP_WRITE is taken back, then onWrite sends the rest; it may close too.
HandleWrite(t, h) ==
    /\ "WRITE" \in ready[h] /\ ready[h] \cap {"CONNECT", "READ"} = {}
    /\ interest' = [interest EXCEPT ![h] = @ \ {"WRITE"}]
    /\ \/ NextKey(t, h) /\ (Closed(h) \/ UNCHANGED <<chan, key>>) /\ UNCHANGED history
       \/ CloseThrows(t) /\ UNCHANGED <<chan, restarted>>
    /\ UNCHANGED <<thr, adapterless, peer>>

HandleKey(t, h) ==
    /\ wpc[t] = "handle" /\ thr[h] = t /\ ready[h] # {}
    /\ \/ HandleCancelled(t, h)
       \/ /\ key[h] = "valid"
          /\ \/ HandleAccept(t, h) \/ HandleConnected(t, h)
             \/ HandleRead(t, h)   \/ HandleWrite(t, h)
    /\ UNCHANGED <<pool, manager, stop_, wake, listener, seen>>

-----------------------------------------------------------------------------
(* The application closes a handler outside the handler's own callbacks: in *)
(* another's, or in a thread of its own, which an exception of close() is   *)
(* left to.                                                                 *)

AppCloses(h) ==
    /\ \/ h \in Listeners /\ chan[h] = "listening" /\ Closed(h)
       \/ h \in Listeners /\ chan[h] = "listening" /\ key[h] = "valid"
          /\ Cancelled(h) /\ UNCHANGED chan
       \/ h \notin Listeners /\ chan[h] # "closed" /\ key[h] = "valid" /\ Closed(h)
    /\ Misused(h)
    /\ UNCHANGED <<pool, manager, threads, thr, interest, seen, ready, adapterless, restarted,
                   thrown, peer>>

\* ThreadPool.destroy: stop_, wakeup and join of each thread in turn.  What was
\* not initialized is a NullPointerException.
DestroyStops ==
    /\ run.destroy
    /\ dpc \in {"idle", "next"} /\ dnext < thr_num
    /\ stop_' = [stop_ EXCEPT ![dnext] = TRUE]
    /\ dpc' = IF Up(dnext) THEN "stopped" ELSE "failed"
    /\ UNCHANGED <<pool, dnext, wpc, wake, listener, handler, peer>>

\* (mutant: the thread is told to stop and not woken)
DestroyWakesNot ==
    /\ dpc = "stopped"
    /\ dpc' = "join"
    /\ UNCHANGED <<pool, dnext, threads, handler, peer>>

DestroyWakesUp ==
    /\ dpc = "stopped"
    /\ wake' = [wake EXCEPT ![dnext] = TRUE]
    /\ dpc' = "join"
    /\ UNCHANGED <<pool, dnext, wpc, stop_, listener, handler, peer>>

DestroyJoins ==
    /\ dpc = "join" /\ wpc[dnext] \in {"exited", "dead"}
    /\ dnext' = dnext + 1
    /\ dpc' = IF dnext + 1 < thr_num THEN "next" ELSE "done"
    /\ UNCHANGED <<pool, threads, handler, peer>>

-----------------------------------------------------------------------------
(* The peers and the network *)

Peer(h) ==
    /\ traffic < run.traffic
    /\ traffic' = traffic + 1
    /\ \/ /\ chan[h] = "listening"
          /\ backlog[h] < Cardinality({s \in Accepted : chan[s] = "none"})
          /\ backlog' = [backlog EXCEPT ![h] = @ + 1]
          /\ UNCHANGED <<inbox, eof, reset, chan>>
       \/ /\ backlog[h] > 0
          /\ backlog' = [backlog EXCEPT ![h] = @ - 1]
          /\ UNCHANGED <<inbox, eof, reset, chan>>
       \/ /\ chan[h] \in {"connecting", "established"}
          /\ \E r \in {"established", "refused"} \ {chan[h]} : chan' = [chan EXCEPT ![h] = r]
          /\ UNCHANGED <<inbox, eof, reset, backlog>>
       \/ /\ chan[h] \in {"established", "connected"} /\ ~eof[h]
          /\ \/ inbox' = [inbox EXCEPT ![h] = TRUE] /\ UNCHANGED eof
             \/ eof' = [eof EXCEPT ![h] = TRUE] /\ UNCHANGED inbox
          /\ UNCHANGED <<backlog, reset, chan>>
       \/ /\ chan[h] = "connected"
          /\ reset' = reset \cup {h}
          /\ eof' = [eof EXCEPT ![h] = TRUE]
          /\ UNCHANGED <<inbox, backlog, chan>>
    /\ UNCHANGED <<pool, manager, threads, thr, key, interest, seen, ready, adapterless,
                   history>>

-----------------------------------------------------------------------------
UserStep(u) ==
    \/ GetIncrement(u) \/ GetModRead(u) \/ GetModWrite(u)
    \/ AcceptorStart(u) \/ WakeUp(u) \/ Connect(u)

WorkerStep(t) ==
    \/ CheckStop(t) \/ DispatchListener(t) \/ EnterSelect(t) \/ SelectReturns(t)
    \/ \E h \in Handlers : HandleKey(t, h)

DestroyStep == DestroyWakesUp \/ DestroyJoins \/ (dpc = "next" /\ DestroyStops)

Next ==
    \/ \E u \in Users : GetRead(u) \/ AcceptorRestart(u) \/ UserStep(u)
    \/ \E t \in Threads : WorkerStep(t)
    \/ \E h \in Handlers : AppCloses(h) \/ Peer(h)
    \/ DestroyStops \/ DestroyStep

\* Every thread runs; nobody has to begin anything.
Fairness ==
    /\ \A u \in Users : WF_vars(UserStep(u))
    /\ \A t \in Threads : WF_vars(WorkerStep(t))
    /\ WF_vars(DestroyStep)

Spec == Init /\ [][Next]_vars /\ Fairness
-----------------------------------------------------------------------------
TypeOK ==
    /\ run \in Scenarios /\ started \in 0 .. thr_num
    /\ cur_index \in Nat /\ uidx \in [Users -> Nat] /\ umod \in [Users -> Nat]
    /\ upc \in [Users -> {"absent", "idle", "read", "indexed", "modulo", "got", "offered", "up",
                          "failed"}]
    /\ calls \in 0 .. Cardinality(Users) /\ overlapped \in BOOLEAN
    /\ dpc \in {"idle", "stopped", "join", "next", "failed", "done"}
    /\ dnext \in 0 .. MaxThreads
    /\ wpc \in [Threads -> {"none", "check", "dispatch", "select", "handle", "exited",
                             "dead"}]
    /\ stop_ \in [Threads -> BOOLEAN] /\ wake \in [Threads -> BOOLEAN]
    /\ \A t \in Threads : listener[t] \in Seq(Listeners)
    /\ thr \in [Handlers -> 0 .. MaxThreads]
    /\ chan \in [Handlers -> {"none", "listening", "connecting", "established", "refused",
                              "connected", "closed"}]
    /\ key \in [Handlers -> {"none", "valid", "cancelled"}]
    /\ interest \in [Handlers -> SUBSET Ops] /\ seen \in [Handlers -> SUBSET Ops]
    /\ ready \in [Handlers -> SUBSET Ops]
    /\ adapterless \subseteq Accepted /\ misused \subseteq Handlers
    /\ restarted \subseteq Listeners /\ thrown \subseteq Threads
    /\ reset \subseteq Handlers
    /\ inbox \in [Handlers -> BOOLEAN] /\ eof \in [Handlers -> BOOLEAN]
    /\ backlog \in [Handlers -> 0 .. Cardinality(Accepted)]
    /\ traffic \in 0 .. run.traffic

(* As long as no two calls of getIOThread have overlapped none has thrown, and
   the next one continues where the last one stopped.  (Once two have, the index
   may be left behind the last thread, and then every later call throws.)  With the
   types of the variables. *)
PoolHandsOut ==
    /\ TypeOK
    /\ ~overlapped =>
        /\ \A u \in Users : upc[u] = "failed" => thr[u] # MaxThreads
        /\ (\A u \in Users : ~InCall(u)) => cur_index = calls % thr_num

(* A thread of the pool, and with it every connection it serves, dies only when
   the application has closed a handler between its selection and its turn, or in
   its own onConnected; when a connection whose onAccept returned no adapter is
   ready; when one of its callbacks closes an Acceptor or a connection made at
   once, of which close() throws; or when an Acceptor on it is started again
   after its key has been cancelled.  Whatever else users and peers do is
   survived. *)
ThreadsDieByMisuse ==
    \A t \in Threads :
        wpc[t] = "dead" =>
            \/ t \in thrown
            \/ \E h \in On(t) :
                \/ h \in misused
                \/ h \in adapterless /\ (inbox[h] \/ eof[h])
                \/ h \in restarted /\ key[h] = "cancelled"

Ended(t) == wpc[t] \in {"exited", "dead"}

\* h's peer waits: in the backlog of an Acceptor whose start has returned, for
\* the end of a connect, or for its bytes or its end to be read.
PeerWaits(h) ==
    /\ NetReady(h) \ {"WRITE"} # {}
    /\ h \in Listeners => upc[h] = "up"

\* h's thread will never hear of it: it was connected at once, without a key; or
\* its peer has reset it while OP_CONNECT, which is looked at first, is still
\* registered; or the Acceptor's key is cancelled, by close(), which leaves the
\* channel open, or before a second start.
Unheard(h) ==
    \/ h \in Connectors /\ chan[h] = "connected" /\ (key[h] = "none" \/ h \in reset)
    \/ h \in Listeners /\ key[h] = "cancelled"

(* Every peer that waits is dealt with, unless its handler is Unheard, or the
   thread ends, or sleeps through a registration made in another thread:
   connect() does not wake the selector, addListener does. *)
EventsAreHandled ==
    \A h \in Handlers :
        PeerWaits(h) ~>
            \/ ~PeerWaits(h)
            \/ Unheard(h)
            \/ \E t \in Threads :
                   /\ thr[h] = t
                   /\ \/ stop_[t] \/ Ended(t)
                      \/ h \in Connectors /\ wpc[t] = "select" /\ seen[h] # interest[h]

(* destroy() comes back, whatever the threads are doing when it is called (an
   uninitialized pool is an exception): no stop is lost between the test of
   stop_ and the select. *)
StopReturns == dpc # "idle" ~> dpc \in {"done", "failed"}

Asleep(t) == wpc[t] = "select" /\ ~wake[t] /\ \A h \in On(t) : Fired(h) = {}

(* When peers and users have nothing more to say every thread comes to sleep in
   its selector, except one with a connection made by connect(), which is left
   with OP_CONNECT and makes select return at once for ever. *)
ThreadsGoIdle ==
    <>[](\A t \in Threads :
           \/ wpc[t] = "none" \/ Ended(t) \/ Asleep(t)
           \/ \E h \in On(t) \cap Connectors : Spins(h))
=============================================================================
