------------------------- MODULE NwcEpollLooperProofs -------------------------
(***************************************************************************)
(* The safety of the event loop for every number of handlers and entries,  *)
(* and, at the end, that it implements EventDelivery.                      *)
(***************************************************************************)
EXTENDS NwcEpollLooper, TLAPS

\* An open handler that has an entry is the one its entry points back to.
HandlesMatch ==
  \A h \in Handlers :
    Open(h) /\ h_handle[h] # NULL =>
      /\ h_handle[h] \in heap \ removed
      /\ eh[h_handle[h]] = h

\* Outside the batch ev_list holds nothing.
BatchShape == pc # "event" => ev_list = NoEvents /\ cur = NULL

\* A removed entry asks for nothing.
RemovedAreSilent == \A e \in removed : mask[e] = {}

IInv ==
  /\ TypeOK
  /\ EntryOwnership
  /\ BatchReadsLiveEntries
  /\ DeliveredToReported
  /\ WriteMeansConnecting
  /\ WorkersOfOpenConnections
  /\ HandlesMatch
  /\ BatchShape
  /\ RemovedAreSilent

-----------------------------------------------------------------------------

LEMMA InitInv == Init => IInv
<1> SUFFICES ASSUME Init PROVE IInv
  OBVIOUS
<1> USE LooperAssumption
<1>1. PICK s \in OpenStates, events \in EventMasks, wks \in {{}, {Root}} :
        /\ StartedAs(s, events, wks)
        /\ "EM_WRITE" \in events => s = "NTS_CONNECTING"
        /\ wks = {Root} => s = "NTS_ESTABLISHED"
  BY DEF Init, ServerStarted, ClientStarted, OpenStates, ServerStates, EventMasks
<1>2. /\ ev_list = NoEvents /\ cur = NULL /\ pc = "dispatch"
  BY DEF Init
<1>3. CASE heap = {}
  BY <1>1, <1>2, <1>3 DEF StartedAs, IInv, TypeOK, EntryOwnership, BatchReadsLiveEntries,
     DeliveredToReported, WriteMeansConnecting, WorkersOfOpenConnections, HandlesMatch,
     BatchShape, RemovedAreSilent, NoEvents, OpenStates, ServerStates, EventMasks,
     EpollBits, Open
<1>4. CASE heap # {}
  <2>1. PICK e \in Entries :
          /\ heap = {e}
          /\ h_handle = [h \in Handlers |-> IF h = Root THEN e ELSE NULL]
          /\ eh = [x \in Entries |-> IF x = e THEN Root ELSE NULL]
          /\ fd = [x \in Entries |-> IF x = e THEN "fd" ELSE "INVALID_HANDLE"]
          /\ mask = [x \in Entries |-> IF x = e THEN events ELSE {}]
    BY <1>1, <1>4 DEF StartedAs
  <2>2. /\ state = [h \in Handlers |-> IF h = Root THEN s ELSE "unused"]
        /\ workers = wks
        /\ reported = [x \in Entries |-> NULL]
        /\ removed = {}
    BY <1>1 DEF StartedAs
  <2>3. TypeOK
    BY <1>1, <1>2, <2>1, <2>2 DEF TypeOK, NoEvents, EpollBits, OpenStates, ServerStates,
       EventMasks
  <2>4. EntryOwnership /\ HandlesMatch /\ RemovedAreSilent
    BY <1>1, <2>1, <2>2 DEF EntryOwnership, HandlesMatch, RemovedAreSilent, Open,
       OpenStates, ServerStates
  <2>5. BatchReadsLiveEntries /\ DeliveredToReported /\ BatchShape
    BY <1>2 DEF BatchReadsLiveEntries, DeliveredToReported, BatchShape, NoEvents
  <2>6. WriteMeansConnecting
    BY <1>1, <1>2, <2>1, <2>2 DEF WriteMeansConnecting, NoEvents
  <2>7. WorkersOfOpenConnections
    BY <1>1, <2>2 DEF WorkersOfOpenConnections
  <2> QED BY <2>3, <2>4, <2>5, <2>6, <2>7 DEF IInv
<1> QED BY <1>3, <1>4

-----------------------------------------------------------------------------
(* Two facts about the steps: what a close does, and what a step does that   *)
(* leaves the handlers and the entries alone.                                *)

\* Closing an open handler keeps the invariant, whatever the batch has left.
LEMMA CloseKeepsInv ==
  ASSUME IInv,
         NEW h \in Handlers, Open(h), CloseConnection(h),
         pc' \in {"dispatch", "wait", "event", "returned", "exited"},
         cur' = cur, reported' = reported,
         ev_list' \in [Entries -> SUBSET EpollBits],
         \A e \in Entries : ev_list'[e] \subseteq ev_list[e],
         BatchShape'
  PROVE  IInv'
<1> USE LooperAssumption
<1> USE DEF IInv
<1>1. /\ state' = [state EXCEPT ![h] = "freed"]
      /\ workers' = workers \ {h}
      /\ h_handle' = h_handle
  BY DEF CloseConnection
<1>2. CASE h_handle[h] = NULL
  <2>1. UNCHANGED entryVars
    BY <1>2 DEF CloseConnection, Registered
  <2>2. \A e \in heap \ removed : eh[e] # h
    BY <1>2 DEF EntryOwnership, TypeOK
  <2>3. TypeOK'
    BY <1>1, <2>1 DEF TypeOK, entryVars
  <2>4. EntryOwnership'
    BY <1>1, <2>1, <2>2 DEF EntryOwnership, TypeOK, entryVars, Open
  <2>5. BatchReadsLiveEntries' /\ DeliveredToReported'
    BY <1>1, <2>1, <2>2 DEF BatchReadsLiveEntries, DeliveredToReported, EntryOwnership,
       TypeOK, entryVars, Open
  <2>6. WriteMeansConnecting'
    BY <1>1, <2>1, <2>2 DEF WriteMeansConnecting, RemovedAreSilent, EntryOwnership, TypeOK,
       entryVars
  <2>7. WorkersOfOpenConnections' /\ HandlesMatch' /\ RemovedAreSilent'
    BY <1>1, <2>1 DEF WorkersOfOpenConnections, HandlesMatch, RemovedAreSilent, TypeOK,
       entryVars, Open, OpenStates, ServerStates
  <2> QED BY <2>3, <2>4, <2>5, <2>6, <2>7
<1>3. CASE h_handle[h] # NULL
  <2> DEFINE x == h_handle[h]
  <2>1. /\ x \in heap \ removed
        /\ x \in Entries
        /\ eh[x] = h
    BY <1>3 DEF HandlesMatch, TypeOK
  <2>2. /\ mask' = [mask EXCEPT ![x] = {}]
        /\ fd' = [fd EXCEPT ![x] = "INVALID_HANDLE"]
        /\ removed' = removed \cup {x}
        /\ heap' = heap /\ eh' = eh
    BY <1>3 DEF CloseConnection, Registered, RemoveHandler
  <2>3. \A e \in heap \ removed : e # x => eh[e] # h
    BY <2>1 DEF EntryOwnership
  <2> HIDE DEF x
  <2>4. TypeOK'
    BY <1>1, <2>1, <2>2 DEF TypeOK, EventMasks
  <2>5. EntryOwnership'
    BY <1>1, <2>1, <2>2, <2>3 DEF EntryOwnership, TypeOK, Open
  <2>6. BatchReadsLiveEntries'
    BY <1>1, <2>2 DEF BatchReadsLiveEntries, TypeOK
  <2>7. DeliveredToReported'
    BY <1>1, <2>1, <2>2, <2>3 DEF DeliveredToReported, BatchReadsLiveEntries,
       EntryOwnership, TypeOK, Open
  <2>8. WriteMeansConnecting'
    <3>1. \A e \in heap : e # x /\ eh[e] = h => mask[e] = {}
      BY <2>3 DEF RemovedAreSilent
    <3>2. \A e \in heap : e # x /\ fd[e] = "fd" => eh[e] # h
      BY <2>3 DEF EntryOwnership
    <3> QED BY <1>1, <2>1, <2>2, <3>1, <3>2 DEF WriteMeansConnecting, TypeOK, EntryOwnership
  <2>9. HandlesMatch'
    BY <1>1, <2>1, <2>2 DEF HandlesMatch, TypeOK, Open, OpenStates, ServerStates
  <2>10. WorkersOfOpenConnections' /\ RemovedAreSilent'
    BY <1>1, <2>1, <2>2 DEF WorkersOfOpenConnections, RemovedAreSilent, TypeOK
  <2> QED BY <2>4, <2>5, <2>6, <2>7, <2>8, <2>9, <2>10
<1> QED BY <1>2, <1>3

\* A step that changes no handler and no entry, and only forgets events.
LEMMA QuietKeepsInv ==
  ASSUME IInv,
         UNCHANGED <<handlerVars, entryVars>>,
         pc' \in {"dispatch", "wait", "event", "returned", "exited"},
         reported' = reported,
         cur' \in heap \cup {NULL},
         ev_list' \in [Entries -> SUBSET EpollBits],
         \A e \in Entries : ev_list'[e] \subseteq ev_list[e],
         BatchShape',
         pc = "exited" => pc' = "exited"
  PROVE  IInv'
<1> USE LooperAssumption
<1> USE DEF IInv, handlerVars, entryVars
<1>1. TypeOK'
  BY DEF TypeOK
<1>2. EntryOwnership' /\ HandlesMatch' /\ RemovedAreSilent'
  BY DEF EntryOwnership, HandlesMatch, RemovedAreSilent, Open
<1>3. BatchReadsLiveEntries' /\ DeliveredToReported'
  BY DEF BatchReadsLiveEntries, DeliveredToReported, Open
<1>4. WriteMeansConnecting'
  BY DEF WriteMeansConnecting, TypeOK
<1>5. WorkersOfOpenConnections'
  BY DEF WorkersOfOpenConnections
<1> QED BY <1>1, <1>2, <1>3, <1>4, <1>5

-----------------------------------------------------------------------------
(* One lemma per kind of step. *)

LEMMA LoopStepKeepsInv ==
  ASSUME IInv,
         \/ DispatchWorkers \/ EpollWaitEINTR \/ EpollWaitError
         \/ NextEvent \/ SkipRemoved \/ EventDone \/ Exit
  PROVE  IInv'
<1> USE DEF batchVars
<1>0. TypeOK /\ BatchShape /\ BatchReadsLiveEntries
  BY DEF IInv
<1>1. CASE DispatchWorkers
  <2>1. CASE UNCHANGED <<handlerVars, entryVars>>
    BY <1>0, <1>1, <2>1, QuietKeepsInv DEF DispatchWorkers, BatchShape, TypeOK,
       BatchReadsLiveEntries, NoEvents
  <2>2. ASSUME NEW h \in workers, CloseConnection(h) PROVE IInv'
    <3>1. h \in Handlers /\ Open(h)
      BY DEF IInv, WorkersOfOpenConnections, TypeOK, Open, OpenStates, ServerStates
    <3> QED
      BY <1>0, <1>1, <2>2, <3>1, CloseKeepsInv DEF DispatchWorkers, BatchShape,
         TypeOK, NoEvents
  <2> QED BY <1>1, <2>1, <2>2 DEF DispatchWorkers
<1>2. CASE EpollWaitEINTR \/ EpollWaitError
  BY <1>0, <1>2, QuietKeepsInv DEF EpollWaitEINTR, EpollWaitError, BatchShape, TypeOK,
     BatchReadsLiveEntries, NoEvents
<1>3. CASE NextEvent
  BY <1>0, <1>3, QuietKeepsInv DEF NextEvent, BatchShape, TypeOK, BatchReadsLiveEntries
<1>4. CASE SkipRemoved
  BY <1>0, <1>4, QuietKeepsInv DEF SkipRemoved, BatchShape, TypeOK, BatchReadsLiveEntries
<1>5. CASE EventDone
  BY <1>0, <1>5, QuietKeepsInv DEF EventDone, BatchShape, TypeOK, BatchReadsLiveEntries
<1>6. CASE Exit
  <2>1. CASE state[Root] \in ServerStates /\ CloseConnection(Root)
    BY <1>0, <1>6, <2>1, CloseKeepsInv, LooperAssumption DEF Exit, BatchShape,
       TypeOK, Open, OpenStates, ServerStates, NoEvents
  <2>2. CASE UNCHANGED <<handlerVars, entryVars>>
    BY <1>0, <1>6, <2>2, QuietKeepsInv DEF Exit, BatchShape, TypeOK, BatchReadsLiveEntries,
       NoEvents
  <2> QED BY <1>6, <2>1, <2>2 DEF Exit
<1> QED BY <1>1, <1>2, <1>3, <1>4, <1>5, <1>6

LEMMA EpollWaitKeepsInv == IInv /\ EpollWait => IInv'
<1> SUFFICES ASSUME IInv, EpollWait PROVE IInv'
  OBVIOUS
<1> USE DEF IInv, EpollWait, handlerVars, entryVars
<1>1. \A e \in Entries : ev_list'[e] # {} => e \in heap /\ fd[e] = "fd"
  BY DEF Reportable
<1>2. \A e \in Entries : "OUT" \in ev_list'[e] => "EM_WRITE" \in mask[e]
  BY DEF Reportable
<1>3. TypeOK'
  BY DEF TypeOK
<1>4. EntryOwnership' /\ HandlesMatch' /\ RemovedAreSilent'
  BY DEF EntryOwnership, HandlesMatch, RemovedAreSilent, Open
<1>5. BatchReadsLiveEntries' /\ BatchShape'
  BY <1>1 DEF BatchReadsLiveEntries, BatchShape
<1>6. DeliveredToReported'
  BY <1>1 DEF DeliveredToReported, EntryOwnership, Open, TypeOK
<1>7. WriteMeansConnecting'
  BY <1>2 DEF WriteMeansConnecting, TypeOK
<1>8. WorkersOfOpenConnections'
  BY DEF WorkersOfOpenConnections
<1> QED BY <1>3, <1>4, <1>5, <1>6, <1>7, <1>8

\* What every turn knows of the handler it calls.
LEMMA TurnFacts ==
  ASSUME IInv, NEW bit \in EpollBits, Turn(bit)
  PROVE  /\ cur \in heap \ removed /\ cur \in Entries
         /\ eh[cur] \in Handlers /\ Open(eh[cur]) /\ h_handle[eh[cur]] = cur
         /\ ev_list' \in [Entries -> SUBSET EpollBits]
         /\ \A e \in Entries : ev_list'[e] \subseteq ev_list[e]
         /\ pc = "event" /\ pc' = pc /\ cur' = cur /\ reported' = reported
         /\ BatchShape'
<1> USE DEF IInv, Turn
<1>1. cur \in heap \ removed /\ cur \in Entries
  BY DEF BatchReadsLiveEntries, EntryOwnership, TypeOK
<1>2. eh[cur] \in Handlers /\ Open(eh[cur]) /\ h_handle[eh[cur]] = cur
  BY <1>1 DEF EntryOwnership
<1> QED BY <1>1, <1>2 DEF TypeOK, BatchShape

LEMMA HandleRecvKeepsInv == IInv /\ HandleRecv => IInv'
<1> SUFFICES ASSUME IInv, HandleRecv PROVE IInv'
  OBVIOUS
<1>1. PICK bit \in EpollBits : Turn(bit)
  BY DEF HandleRecv, EpollBits
<1>2. CASE UNCHANGED <<handlerVars, entryVars>>
  BY <1>1, <1>2, TurnFacts, QuietKeepsInv
<1>3. CASE CloseConnection(eh[cur])
  BY <1>1, <1>3, TurnFacts, CloseKeepsInv
<1> QED BY <1>2, <1>3 DEF HandleRecv

LEMMA HandleDatagramKeepsInv == IInv /\ HandleDatagram => IInv'
<1> SUFFICES ASSUME IInv, HandleDatagram PROVE IInv'
  OBVIOUS
<1>1. Turn("IN") /\ UNCHANGED <<handlerVars, entryVars>>
  BY DEF HandleDatagram
<1> QED BY <1>1, TurnFacts, QuietKeepsInv DEF EpollBits

LEMMA HandleAcceptKeepsInv == IInv /\ HandleAccept => IInv'
<1> SUFFICES ASSUME IInv, HandleAccept PROVE IInv'
  OBVIOUS
<1> USE LooperAssumption
<1>1. Turn("IN")
  BY DEF HandleAccept
<1>2. /\ cur' = cur /\ pc' = pc /\ pc = "event" /\ reported' = reported
      /\ ev_list' \in [Entries -> SUBSET EpollBits]
      /\ \A e \in Entries : ev_list'[e] \subseteq ev_list[e]
      /\ BatchShape' /\ cur \in heap
  BY <1>1, TurnFacts DEF EpollBits
<1>3. CASE UNCHANGED <<handlerVars, entryVars>>
  BY <1>2, <1>3, QuietKeepsInv
<1>4. ASSUME NEW g \in Handlers, state[g] = "unused",
             state' = [state EXCEPT ![g] = "NTS_ESTABLISHED"],
             AddHandler(g, {"EM_READ"}), workers' = workers
      PROVE  IInv'
  <2> USE DEF IInv
  <2>0. \A e \in heap \ removed : eh[e] # g
    BY <1>4 DEF EntryOwnership, Open, OpenStates, ServerStates
  <2>1. CASE h_handle' = [h_handle EXCEPT ![g] = NULL] /\ UNCHANGED entryVars
    <3> USE DEF entryVars
    <3>1. TypeOK'
      BY <1>2, <1>4, <2>1 DEF TypeOK, OpenStates, ServerStates
    <3>2. EntryOwnership' /\ HandlesMatch' /\ RemovedAreSilent'
      BY <1>4, <2>0, <2>1 DEF EntryOwnership, HandlesMatch, RemovedAreSilent, TypeOK, Open
    <3>3. BatchReadsLiveEntries' /\ DeliveredToReported'
      BY <1>2, <1>4, <2>1 DEF BatchReadsLiveEntries, DeliveredToReported, TypeOK, Open,
         OpenStates, ServerStates
    <3>4. WriteMeansConnecting'
      BY <1>2, <1>4, <2>0, <2>1 DEF WriteMeansConnecting, EntryOwnership, TypeOK
    <3>5. WorkersOfOpenConnections'
      BY <1>2, <1>4 DEF WorkersOfOpenConnections, TypeOK
    <3> QED BY <1>2, <3>1, <3>2, <3>3, <3>4, <3>5
  <2>2. ASSUME NEW e \in Entries \ heap,
               heap' = heap \cup {e},
               fd' = [fd EXCEPT ![e] = "fd"],
               eh' = [eh EXCEPT ![e] = g],
               mask' = [mask EXCEPT ![e] = {"EM_READ"}],
               h_handle' = [h_handle EXCEPT ![g] = e],
               removed' = removed
        PROVE  IInv'
    <3>0. ev_list[e] = {} /\ e \notin removed
      BY DEF BatchReadsLiveEntries, EntryOwnership
    <3>1. TypeOK'
      BY <1>2, <1>4, <2>2 DEF TypeOK, OpenStates, ServerStates, EventMasks
    <3>2. EntryOwnership'
      BY <1>4, <2>0, <2>2, <3>0 DEF EntryOwnership, TypeOK, Open, OpenStates, ServerStates
    <3>3. HandlesMatch' /\ RemovedAreSilent'
      BY <1>4, <2>2, <3>0 DEF EntryOwnership, HandlesMatch, RemovedAreSilent, TypeOK, Open
    <3>4. BatchReadsLiveEntries' /\ DeliveredToReported'
      BY <1>2, <1>4, <2>2, <3>0 DEF BatchReadsLiveEntries, DeliveredToReported, TypeOK,
         Open, OpenStates, ServerStates
    <3>5. WriteMeansConnecting'
      <4>1. \A x \in heap : "EM_WRITE" \in mask[x] => eh[x] # g
        BY <1>4 DEF WriteMeansConnecting
      <4>2. \A x \in heap : "OUT" \in ev_list[x] /\ fd[x] = "fd" => eh[x] # g
        BY <1>4 DEF WriteMeansConnecting
      <4> QED BY <1>2, <1>4, <2>2, <3>0, <4>1, <4>2 DEF WriteMeansConnecting, TypeOK
    <3>6. WorkersOfOpenConnections'
      BY <1>2, <1>4 DEF WorkersOfOpenConnections, TypeOK
    <3> QED BY <1>2, <3>1, <3>2, <3>3, <3>4, <3>5, <3>6
  <2> QED BY <1>4, <2>1, <2>2 DEF AddHandler
<1> QED BY <1>3, <1>4 DEF HandleAccept

LEMMA HandleConnectedKeepsInv == IInv /\ HandleConnected => IInv'
<1> SUFFICES ASSUME IInv, HandleConnected PROVE IInv'
  OBVIOUS
<1> DEFINE h == eh[cur]
<1>1. Turn("OUT") /\ state[h] = "NTS_CONNECTING"
  BY DEF HandleConnected
<1>2. /\ cur \in heap \ removed /\ cur \in Entries
      /\ h \in Handlers /\ h_handle[h] = cur
      /\ cur' = cur /\ pc' = pc /\ pc = "event" /\ reported' = reported
      /\ ev_list' \in [Entries -> SUBSET EpollBits]
      /\ \A e \in Entries : ev_list'[e] \subseteq ev_list[e]
      /\ BatchShape'
  BY <1>1, TurnFacts DEF EpollBits
<1>3. ev_list' = [ev_list EXCEPT ![cur] = {}]
  BY <1>1 DEF Turn
<1>4. /\ mask' = [mask EXCEPT ![cur] = @ \ {"EM_WRITE"}]
      /\ UNCHANGED <<h_handle, heap, fd, eh, removed>>
  BY <1>2 DEF HandleConnected
<1>5. \/ UNCHANGED <<state, workers>>
      \/ /\ state' = [state EXCEPT ![h] = "NTS_ESTABLISHED"]
         /\ workers' = workers \cup {h}
  BY DEF HandleConnected
<1>6. \A e \in heap : e # cur /\ (fd[e] = "fd" \/ e \notin removed) => eh[e] # h
  BY <1>2 DEF IInv, EntryOwnership
<1> HIDE DEF h
<1> USE DEF IInv
<1>7. TypeOK'
  BY <1>2, <1>4, <1>5 DEF TypeOK, OpenStates, ServerStates, EventMasks
<1>8. EntryOwnership' /\ HandlesMatch' /\ RemovedAreSilent'
  BY <1>1, <1>2, <1>4, <1>5 DEF EntryOwnership, HandlesMatch, RemovedAreSilent, TypeOK,
     Open, OpenStates, ServerStates
<1>9. BatchReadsLiveEntries' /\ DeliveredToReported'
  BY <1>1, <1>2, <1>4, <1>5 DEF BatchReadsLiveEntries, DeliveredToReported,
     EntryOwnership, TypeOK, Open, OpenStates, ServerStates
<1>10. WriteMeansConnecting'
  <2>1. \A e \in heap : e # cur /\ "EM_WRITE" \in mask[e] => eh[e] # h
    BY <1>6 DEF RemovedAreSilent
  <2>2. "EM_WRITE" \notin mask'[cur]
    BY <1>2, <1>4 DEF TypeOK
  <2>3. \A e \in heap : e # cur => mask'[e] = mask[e]
    BY <1>4 DEF TypeOK
  <2>4. \A e \in heap \ removed : eh[e] # h => state'[eh[e]] = state[eh[e]]
    BY <1>5 DEF TypeOK, EntryOwnership
  <2>5. \A e \in heap : "EM_WRITE" \in mask'[e] => state'[eh[e]] = "NTS_CONNECTING"
    BY <2>1, <2>2, <2>3, <2>4 DEF WriteMeansConnecting, RemovedAreSilent
  <2>6. \A e \in heap : "OUT" \in ev_list'[e] /\ fd[e] = "fd"
                          => state'[eh[e]] = "NTS_CONNECTING"
    <3>1. ev_list'[cur] = {}
      BY <1>2, <1>3 DEF TypeOK
    <3>2. \A e \in heap : "OUT" \in ev_list'[e] /\ fd[e] = "fd"
               => e # cur /\ "OUT" \in ev_list[e] /\ eh[e] # h /\ e \notin removed
      BY <1>2, <1>6, <3>1 DEF TypeOK, EntryOwnership
    <3> QED BY <2>4, <3>2 DEF WriteMeansConnecting
  <2> QED BY <1>4, <2>5, <2>6 DEF WriteMeansConnecting
<1>11. WorkersOfOpenConnections'
  BY <1>1, <1>2, <1>5, LooperAssumption DEF WorkersOfOpenConnections, TypeOK
<1> QED BY <1>2, <1>7, <1>8, <1>9, <1>10, <1>11

LEMMA ReclaimKeepsInv == IInv /\ Reclaim => IInv'
<1> SUFFICES ASSUME IInv, Reclaim PROVE IInv'
  OBVIOUS
<1> USE DEF IInv, Reclaim, handlerVars, batchVars
<1>1. TypeOK'
  BY DEF TypeOK
<1>2. EntryOwnership' /\ HandlesMatch' /\ RemovedAreSilent'
  BY DEF EntryOwnership, HandlesMatch, RemovedAreSilent, Open
<1>3. BatchReadsLiveEntries' /\ DeliveredToReported' /\ BatchShape'
  BY DEF BatchReadsLiveEntries, DeliveredToReported, BatchShape, NoEvents
<1>4. WriteMeansConnecting'
  BY DEF WriteMeansConnecting
<1>5. WorkersOfOpenConnections'
  BY DEF WorkersOfOpenConnections
<1> QED BY <1>1, <1>2, <1>3, <1>4, <1>5

LEMMA StepKeepsInv == IInv /\ [Next]_vars => IInv'
<1> SUFFICES ASSUME IInv, [Next]_vars PROVE IInv'
  OBVIOUS
<1>1. CASE UNCHANGED vars
  BY <1>1, QuietKeepsInv DEF vars, handlerVars, entryVars, IInv, TypeOK,
     BatchReadsLiveEntries, BatchShape, NoEvents
<1>2. CASE \/ DispatchWorkers \/ EpollWaitEINTR \/ EpollWaitError
           \/ NextEvent \/ SkipRemoved \/ EventDone \/ Exit
  BY <1>2, LoopStepKeepsInv
<1>3. CASE EpollWait
  BY <1>3, EpollWaitKeepsInv
<1>4. CASE HandleAccept
  BY <1>4, HandleAcceptKeepsInv
<1>5. CASE HandleRecv
  BY <1>5, HandleRecvKeepsInv
<1>6. CASE HandleConnected
  BY <1>6, HandleConnectedKeepsInv
<1>7. CASE Reclaim
  BY <1>7, ReclaimKeepsInv
<1>8. CASE HandleDatagram
  BY <1>8, HandleDatagramKeepsInv
<1> QED BY <1>1, <1>2, <1>3, <1>4, <1>5, <1>6, <1>7, <1>8 DEF Next

-----------------------------------------------------------------------------
(* The theorems. *)

\* The inductive invariant holds throughout.
THEOREM Invariance == Spec => []IInv
<1> QED BY InitInv, StepKeepsInv, PTL DEF Spec

\* Every variable keeps its type (nwc_epoll_looper.c, nwc_tcp_handler.c).
THEOREM TypeCorrect == Spec => []TypeOK
<1>1. IInv => TypeOK
  BY DEF IInv
<1> QED BY <1>1, Invariance, PTL

\* Every allocated entry is owned by one open handler or waits to be freed.
THEOREM EntriesAreOwned == Spec => []EntriesOwned
<1>1. IInv => EntriesOwned
  BY DEF IInv, EntriesOwned
<1> QED BY <1>1, Invariance, PTL

\* However the callbacks of a batch close and accept, the loop reads allocated
\* entries only (lines 155, 168 and 173 of nwc_epoll_looper.c).
THEOREM SafeDispatch == Spec => []BatchReadsLiveEntries
<1>1. IInv => BatchReadsLiveEntries
  BY DEF IInv
<1> QED BY <1>1, Invariance, PTL

\* And it calls back the open handler the kernel reported, never one that took
\* over the address of its entry.
THEOREM EventsReachTheReported == Spec => []DeliveredToReported
<1>1. IInv => DeliveredToReported
  BY DEF IInv
<1> QED BY <1>1, Invariance, PTL

\* Output is only ever due to a connecting handler, and workers only run for
\* established connections.
THEOREM ConnectionPhases == Spec => [](WriteMeansConnecting /\ WorkersOfOpenConnections)
<1>1. IInv => WriteMeansConnecting /\ WorkersOfOpenConnections
  BY DEF IInv
<1> QED BY <1>1, Invariance, PTL

\* Entries are freed only between batches, after they left epoll.
THEOREM DeferredFree == Spec => FreedOnlyBetweenBatches
<1> DEFINE Deferred == \A e \in heap \ heap' :
             /\ e \in removed
             /\ ev_list = NoEvents
             /\ cur = NULL
<1>1. [Next]_vars => [Deferred]_vars
  <2> SUFFICES ASSUME Next PROVE Deferred
    OBVIOUS
  <2>1. CASE Reclaim
    BY <2>1 DEF Reclaim
  <2>2. CASE ~Reclaim
    <3>1. heap \subseteq heap'
      BY <2>2 DEF Next, DispatchWorkers, EpollWait, EpollWaitEINTR, EpollWaitError,
         NextEvent, SkipRemoved, HandleAccept, HandleDatagram, HandleRecv, HandleConnected,
         EventDone, Exit, AddHandler, CloseConnection, RemoveHandler, entryVars, vars
    <3> QED BY <3>1
  <2> QED BY <2>1, <2>2
<1> QED BY <1>1, PTL DEF Spec, FreedOnlyBetweenBatches

-----------------------------------------------------------------------------
(***************************************************************************)
(* The event loop implements EventDelivery: initial states map to initial  *)
(* states, every step to a step or to a stutter.                           *)
(***************************************************************************)

DeliveryStep == Delivery!Next \/ UNCHANGED <<Fresh, OpenHandlers, Due>>

\* In the invariant's states, the events due to an open handler with an entry
\* are those of its entry, and the entry whose turn it is belongs to it alone.
LEMMA DueOfTurn ==
  ASSUME IInv, NEW bit \in EpollBits, Turn(bit)
  PROVE  /\ eh[cur] \in OpenHandlers
         /\ Due[eh[cur]] = ev_list[cur]
         /\ \A h \in Handlers :
              h # eh[cur] /\ Open(h) /\ h_handle[h] # NULL => h_handle[h] # cur
<1> USE LooperAssumption
<1>1. /\ cur \in Entries /\ eh[cur] \in Handlers /\ Open(eh[cur])
      /\ h_handle[eh[cur]] = cur
  BY TurnFacts
<1>2. cur # NULL
  BY <1>1
<1>3. \A h \in Handlers :
        h # eh[cur] /\ Open(h) /\ h_handle[h] # NULL => h_handle[h] # cur
  BY DEF IInv, HandlesMatch
<1> QED BY <1>1, <1>2, <1>3 DEF OpenHandlers, Due

\* A turn whose callback leaves the handlers as they are delivers its event.
LEMMA DeliverOnly ==
  ASSUME IInv, NEW bit \in EpollBits, Turn(bit),
         h_handle' = h_handle,
         \A h \in Handlers : (Open(h))' <=> Open(h),
         \A h \in Handlers : state'[h] = "unused" <=> state[h] = "unused"
  PROVE  Delivery!Next
<1> DEFINE x == eh[cur]
<1>1. /\ x \in OpenHandlers /\ x \in Handlers /\ Due[x] = ev_list[cur]
      /\ h_handle[x] = cur /\ cur \in Entries
      /\ \A h \in Handlers :
           h # x /\ Open(h) /\ h_handle[h] # NULL => h_handle[h] # cur
  BY DueOfTurn, TurnFacts
<1>2. /\ bit \in ev_list[cur]
      /\ bit = "IN" => "HUP" \notin ev_list[cur]
      /\ bit = "OUT" => ev_list[cur] = {"OUT"}
      /\ ev_list' = [ev_list EXCEPT ![cur] = @ \ {bit}]
  BY DEF Turn
<1> HIDE DEF x
<1>3. Due' = [Due EXCEPT ![x] = @ \ {bit}]
  <2>1. ev_list \in [Entries -> SUBSET EpollBits] /\ h_handle \in [Handlers -> Entries \cup {NULL}]
    BY DEF IInv, TypeOK
  <2>2. ASSUME NEW h \in Handlers PROVE Due'[h] = [Due EXCEPT ![x] = @ \ {bit}][h]
    <3>1. CASE h = x
      BY <1>1, <1>2, <2>1, <3>1, LooperAssumption DEF Due, OpenHandlers
    <3>2. CASE h # x
      BY <1>1, <1>2, <2>1, <3>2 DEF Due
    <3> QED BY <3>1, <3>2
  <2> QED BY <2>2 DEF Due
<1>4. OpenHandlers' = OpenHandlers /\ Fresh' = Fresh
  BY DEF OpenHandlers, Fresh
<1> QED
  BY <1>1, <1>2, <1>3, <1>4 DEF Delivery!Next, Delivery!Deliver, Delivery!Bits, EpollBits

\* Closing a handler takes it out of the open ones with all that is due to it.
LEMMA CloseMaps ==
  ASSUME IInv, NEW x \in Handlers, Open(x), CloseConnection(x),
         \A h \in Handlers :
           h # x /\ Open(h) /\ h_handle[h] # NULL => ev_list'[h_handle[h]] = ev_list[h_handle[h]]
  PROVE  /\ OpenHandlers' = OpenHandlers \ {x}
         /\ Fresh' = Fresh
         /\ Due' = [Due EXCEPT ![x] = {}]
<1>1. state' = [state EXCEPT ![x] = "freed"] /\ h_handle' = h_handle
  BY DEF CloseConnection
<1>2. state \in [Handlers -> OpenStates \cup {"unused", "freed"}]
  BY DEF IInv, TypeOK
<1>3. OpenHandlers' = OpenHandlers \ {x} /\ Fresh' = Fresh
  BY <1>1, <1>2 DEF OpenHandlers, Fresh, Open, OpenStates, ServerStates
<1>4. \A h \in Handlers : Due'[h] = [Due EXCEPT ![x] = {}][h]
  BY <1>1, <1>2 DEF Due, Open, OpenStates, ServerStates
<1>5. Due' = [Due EXCEPT ![x] = {}]
  BY <1>4 DEF Due
<1> QED BY <1>3, <1>5

\* Outside the batch nothing is due.
LEMMA NothingDueOutside ==
  ASSUME ev_list = NoEvents, IInv
  PROVE  Due = Delivery!NothingDue
<1>1. h_handle \in [Handlers -> Entries \cup {NULL}]
  BY DEF IInv, TypeOK
<1> QED BY <1>1 DEF Due, NoEvents, Delivery!NothingDue

\* Steps of the loop that neither touch a handler nor the events due to one.
LEMMA StutterMaps ==
  ASSUME state' = state, h_handle' = h_handle,
         \A h \in Handlers :
           Open(h) /\ h_handle[h] # NULL => ev_list'[h_handle[h]] = ev_list[h_handle[h]]
  PROVE  UNCHANGED <<Fresh, OpenHandlers, Due>>
<1>1. UNCHANGED <<Fresh, OpenHandlers>>
  BY DEF Fresh, OpenHandlers, Open
<1>2. \A h \in Handlers : Due'[h] = Due[h]
  BY DEF Due, Open
<1>3. Due' = Due
  BY <1>2 DEF Due
<1> QED BY <1>1, <1>3

LEMMA InitMaps == Init => Delivery!Init
<1> SUFFICES ASSUME Init PROVE Delivery!Init
  OBVIOUS
<1>1. Due = Delivery!NothingDue
  BY InitInv, NothingDueOutside DEF Init
<1>2. PICK s \in OpenStates : state = [h \in Handlers |-> IF h = Root THEN s ELSE "unused"]
  BY DEF Init, ServerStarted, ClientStarted, StartedAs, OpenStates, ServerStates
<1>3. Fresh = Handlers \ OpenHandlers
  BY <1>2 DEF Fresh, OpenHandlers, Open, OpenStates, ServerStates
<1> QED BY <1>1, <1>3 DEF Delivery!Init, OpenHandlers

LEMMA PollMaps == IInv /\ EpollWait => Delivery!Next
<1> SUFFICES ASSUME IInv, EpollWait PROVE Delivery!Next
  OBVIOUS
<1>1. ev_list = NoEvents
  BY DEF IInv, BatchShape, EpollWait
<1>2. /\ state' = state /\ h_handle' = h_handle
      /\ ev_list' \in [Entries -> SUBSET EpollBits]
  BY DEF EpollWait, handlerVars
<1>3. Fresh' = Fresh /\ OpenHandlers' = OpenHandlers
  BY <1>2 DEF Fresh, OpenHandlers, Open
<1>4. h_handle \in [Handlers -> Entries \cup {NULL}]
  BY DEF IInv, TypeOK
<1>5. Due' \in [Handlers -> SUBSET Delivery!Bits]
  BY <1>2, <1>4 DEF Due, EpollBits, Delivery!Bits
<1>6. \A h \in Handlers : Due'[h] # {} => h \in OpenHandlers
  BY <1>2 DEF Due, OpenHandlers, Open
<1> QED BY <1>1, <1>3, <1>5, <1>6, NothingDueOutside DEF Delivery!Next, Delivery!Poll

\* The two closes that happen outside a batch.
LEMMA IdleCloseMaps ==
  ASSUME IInv, NEW x \in Handlers, Open(x), CloseConnection(x),
         ev_list = NoEvents, ev_list' = ev_list
  PROVE  Delivery!Next
<1>1. /\ OpenHandlers' = OpenHandlers \ {x} /\ Fresh' = Fresh
      /\ Due' = [Due EXCEPT ![x] = {}]
  BY CloseMaps
<1>2. Due = Delivery!NothingDue /\ Due' = Due
  BY <1>1, NothingDueOutside DEF Delivery!NothingDue
<1> QED
  BY <1>1, <1>2 DEF Delivery!Next, Delivery!CloseIdle, Delivery!Close, OpenHandlers

LEMMA RecvMaps == IInv /\ HandleRecv => Delivery!Next
<1> SUFFICES ASSUME IInv, HandleRecv PROVE Delivery!Next
  OBVIOUS
<1>1. PICK bit \in EpollBits : Turn(bit)
  BY DEF HandleRecv, EpollBits
<1>2. CASE UNCHANGED <<handlerVars, entryVars>>
  BY <1>1, <1>2, DeliverOnly DEF handlerVars, Open
<1>3. CASE CloseConnection(eh[cur])
  <2> DEFINE x == eh[cur]
  <2>1. /\ x \in Handlers /\ Open(x) /\ x \in OpenHandlers
        /\ Due[x] = ev_list[cur]
        /\ \A h \in Handlers :
             h # x /\ Open(h) /\ h_handle[h] # NULL => h_handle[h] # cur
    BY <1>1, DueOfTurn, TurnFacts
  <2>2. /\ bit \in ev_list[cur]
        /\ bit = "IN" => "HUP" \notin ev_list[cur]
        /\ bit = "OUT" => ev_list[cur] = {"OUT"}
        /\ ev_list' = [ev_list EXCEPT ![cur] = @ \ {bit}]
    BY <1>1 DEF Turn
  <2>3. ev_list \in [Entries -> SUBSET EpollBits] /\ h_handle \in [Handlers -> Entries \cup {NULL}]
    BY DEF IInv, TypeOK
  <2> HIDE DEF x
  <2>4. \A h \in Handlers :
          h # x /\ Open(h) /\ h_handle[h] # NULL => ev_list'[h_handle[h]] = ev_list[h_handle[h]]
    BY <2>1, <2>2, <2>3
  <2>5. /\ OpenHandlers' = OpenHandlers \ {x} /\ Fresh' = Fresh
        /\ Due' = [Due EXCEPT ![x] = {}]
    BY <1>3, <2>1, <2>4, CloseMaps DEF x
  <2> QED
    BY <2>1, <2>2, <2>5 DEF Delivery!Next, Delivery!Deliver, Delivery!Close,
       Delivery!Bits, EpollBits
<1> QED BY <1>2, <1>3 DEF HandleRecv

LEMMA DatagramMaps == IInv /\ HandleDatagram => Delivery!Next
<1> SUFFICES ASSUME IInv, HandleDatagram PROVE Delivery!Next
  OBVIOUS
<1>1. Turn("IN") /\ UNCHANGED <<handlerVars, entryVars>>
  BY DEF HandleDatagram
<1> QED BY <1>1, DeliverOnly DEF handlerVars, Open, EpollBits

LEMMA AcceptMaps == IInv /\ HandleAccept => Delivery!Next
<1> SUFFICES ASSUME IInv, HandleAccept PROVE Delivery!Next
  OBVIOUS
<1> USE LooperAssumption
<1>1. Turn("IN")
  BY DEF HandleAccept
<1>2. CASE UNCHANGED <<handlerVars, entryVars>>
  BY <1>1, <1>2, DeliverOnly DEF handlerVars, Open, EpollBits
<1>3. ASSUME NEW g \in Handlers, state[g] = "unused",
             state' = [state EXCEPT ![g] = "NTS_ESTABLISHED"],
             AddHandler(g, {"EM_READ"})
      PROVE  Delivery!Next
  <2>0. PICK x \in Handlers : x = eh[cur]
    BY <1>1, TurnFacts DEF EpollBits
  <2>1. /\ x \in Handlers /\ Open(x) /\ x \in OpenHandlers /\ x # g
        /\ Due[x] = ev_list[cur] /\ cur \in Entries /\ h_handle[x] = cur /\ cur \in heap
        /\ \A h \in Handlers :
             h # x /\ Open(h) /\ h_handle[h] # NULL => h_handle[h] # cur
    BY <1>1, <1>3, <2>0, DueOfTurn, TurnFacts DEF EpollBits, Open, OpenStates, ServerStates
  <2>2. /\ "IN" \in ev_list[cur] /\ "HUP" \notin ev_list[cur]
        /\ ev_list' = [ev_list EXCEPT ![cur] = @ \ {"IN"}]
    BY <1>1 DEF Turn
  <2>3. /\ ev_list \in [Entries -> SUBSET EpollBits]
        /\ h_handle \in [Handlers -> Entries \cup {NULL}]
        /\ state \in [Handlers -> OpenStates \cup {"unused", "freed"}]
    BY DEF IInv, TypeOK
  <2>4. PICK a \in Entries \cup {NULL} :
          /\ h_handle' = [h_handle EXCEPT ![g] = a]
          /\ a # NULL => a \notin heap
    BY <1>3 DEF AddHandler
  <2>5. a # NULL => ev_list'[a] = {}
    BY <2>1, <2>2, <2>3, <2>4 DEF IInv, BatchReadsLiveEntries
  <2>6. OpenHandlers' = OpenHandlers \cup {g} /\ Fresh' = Fresh \ {g} /\ g \in Fresh
    BY <1>3, <2>3 DEF OpenHandlers, Fresh, Open, OpenStates, ServerStates
  <2>7. Due' = [Due EXCEPT ![x] = @ \ {"IN"}]
    <3>1. ASSUME NEW h \in Handlers PROVE Due'[h] = [Due EXCEPT ![x] = @ \ {"IN"}][h]
      <4>1. CASE h = g
        <5>1. Due'[g] = {}
          BY <1>3, <2>3, <2>4, <2>5 DEF Due
        <5>2. Due[g] = {}
          BY <1>3 DEF Due, Open, OpenStates, ServerStates
        <5> QED BY <2>1, <4>1, <5>1, <5>2 DEF Due
      <4>2. CASE h = x
        <5>1. h_handle'[x] = cur /\ Open(x)'
          BY <1>3, <2>1, <2>3, <2>4 DEF Open
        <5>2. Due'[x] = ev_list'[cur]
          BY <2>1, <5>1 DEF Due
        <5> QED BY <2>1, <2>2, <2>3, <4>2, <5>2 DEF Due
      <4>3. CASE h # g /\ h # x
        <5>1. h_handle'[h] = h_handle[h] /\ Open(h)' = Open(h)
          BY <1>3, <2>3, <2>4, <4>3 DEF Open
        <5>2. Open(h) /\ h_handle[h] # NULL => ev_list'[h_handle[h]] = ev_list[h_handle[h]]
          BY <2>1, <2>2, <2>3, <4>3
        <5> QED BY <4>3, <5>1, <5>2 DEF Due
      <4> QED BY <4>1, <4>2, <4>3
    <3> QED BY <3>1 DEF Due
  <2> QED
    BY <2>1, <2>2, <2>6, <2>7 DEF Delivery!Next, Delivery!Deliver, Delivery!Bits
<1> QED BY <1>2, <1>3 DEF HandleAccept

LEMMA ConnectedMaps == IInv /\ HandleConnected => Delivery!Next
<1> SUFFICES ASSUME IInv, HandleConnected PROVE Delivery!Next
  OBVIOUS
<1>1. Turn("OUT") /\ state[eh[cur]] = "NTS_CONNECTING" /\ h_handle' = h_handle
  BY DEF HandleConnected
<1>2. state' = state \/ state' = [state EXCEPT ![eh[cur]] = "NTS_ESTABLISHED"]
  BY DEF HandleConnected
<1>3. \A h \in Handlers : (Open(h))' <=> Open(h)
  BY <1>1, <1>2 DEF Open, OpenStates, ServerStates, IInv, TypeOK
<1>4. \A h \in Handlers : state'[h] = "unused" <=> state[h] = "unused"
  BY <1>1, <1>2 DEF IInv, TypeOK
<1> QED BY <1>1, <1>3, <1>4, DeliverOnly DEF EpollBits

LEMMA LoopStepMaps ==
  ASSUME IInv,
         \/ DispatchWorkers \/ EpollWaitEINTR \/ EpollWaitError
         \/ NextEvent \/ SkipRemoved \/ EventDone \/ Reclaim \/ Exit
  PROVE  DeliveryStep
<1> USE DEF handlerVars, batchVars
<1>1. CASE DispatchWorkers
  <2>0. ev_list = NoEvents /\ ev_list' = ev_list
    BY <1>1 DEF DispatchWorkers, IInv, BatchShape
  <2>1. CASE UNCHANGED <<handlerVars, entryVars>>
    BY <2>0, <2>1, StutterMaps DEF DeliveryStep
  <2>2. ASSUME NEW h \in workers, CloseConnection(h) PROVE Delivery!Next
    <3>1. h \in Handlers /\ Open(h)
      BY DEF IInv, TypeOK, WorkersOfOpenConnections, Open, OpenStates, ServerStates
    <3> QED BY <2>0, <2>2, <3>1, IdleCloseMaps
  <2> QED BY <1>1, <2>1, <2>2 DEF DispatchWorkers, DeliveryStep
<1>2. CASE EpollWaitEINTR \/ EpollWaitError \/ NextEvent \/ EventDone \/ Reclaim
  <2>1. state' = state /\ h_handle' = h_handle /\ ev_list' = ev_list
    BY <1>2 DEF EpollWaitEINTR, EpollWaitError, NextEvent, EventDone, Reclaim
  <2> QED BY <2>1, StutterMaps DEF DeliveryStep
<1>3. CASE SkipRemoved
  <2>1. /\ state' = state /\ h_handle' = h_handle
        /\ ev_list' = [ev_list EXCEPT ![cur] = {}]
        /\ fd[cur] = "INVALID_HANDLE"
    BY <1>3 DEF SkipRemoved
  <2>2. \A h \in Handlers : Open(h) /\ h_handle[h] # NULL => h_handle[h] # cur
    BY <2>1 DEF IInv, HandlesMatch, EntryOwnership
  <2>3. \A h \in Handlers : Open(h) /\ h_handle[h] # NULL
                              => ev_list'[h_handle[h]] = ev_list[h_handle[h]]
    BY <2>1, <2>2 DEF IInv, TypeOK
  <2> QED BY <2>1, <2>3, StutterMaps DEF DeliveryStep
<1>4. CASE Exit
  <2>0. ev_list = NoEvents /\ ev_list' = ev_list
    BY <1>4 DEF Exit, IInv, BatchShape
  <2>1. CASE UNCHANGED <<handlerVars, entryVars>>
    BY <2>0, <2>1, StutterMaps DEF DeliveryStep
  <2>2. CASE state[Root] \in ServerStates /\ CloseConnection(Root)
    <3>1. Root \in Handlers /\ Open(Root)
      BY <2>2, LooperAssumption DEF Open, OpenStates, ServerStates
    <3> QED BY <2>0, <2>2, <3>1, IdleCloseMaps DEF DeliveryStep
  <2> QED BY <1>4, <2>1, <2>2 DEF Exit
<1> QED BY <1>1, <1>2, <1>3, <1>4

LEMMA StepMaps == IInv /\ [Next]_vars => DeliveryStep
<1> SUFFICES ASSUME IInv, [Next]_vars PROVE DeliveryStep
  OBVIOUS
<1>1. CASE UNCHANGED vars
  BY <1>1, StutterMaps DEF vars, DeliveryStep
<1>2. CASE EpollWait \/ HandleAccept \/ HandleDatagram \/ HandleRecv \/ HandleConnected
  BY <1>2, PollMaps, AcceptMaps, DatagramMaps, RecvMaps, ConnectedMaps DEF DeliveryStep
<1>3. CASE \/ DispatchWorkers \/ EpollWaitEINTR \/ EpollWaitError
           \/ NextEvent \/ SkipRemoved \/ EventDone \/ Reclaim \/ Exit
  BY <1>3, LoopStepMaps
<1> QED BY <1>1, <1>2, <1>3 DEF Next

\* The loop with its deferred frees is an event loop: every behaviour of
\* nwc_epoll_run, seen through Fresh, OpenHandlers and Due, is one that
\* EventDelivery allows (its safety part: liveness is left to the runs).
THEOREM LoopDelivers == Spec => Delivery!Init /\ [][Delivery!Next]_<<Fresh, OpenHandlers, Due>>
<1>1. IInv /\ [Next]_vars => [Delivery!Next]_<<Fresh, OpenHandlers, Due>>
  BY StepMaps DEF DeliveryStep
<1> QED BY <1>1, InitMaps, Invariance, PTL DEF Spec

=============================================================================
