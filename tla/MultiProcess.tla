---------------------------- MODULE MultiProcess ----------------------------
(* The multi-process TCP server, 04-24 nwchecker_server_multiprocess.c: a   *)
(* master forks the workers, accepts connections, and passes each accepted  *)
(* descriptor over a datagram socketpair to the worker that get_worker      *)
(* chooses.  SIGINT or SIGTERM makes the master's handler send CMD_EXIT to  *)
(* the master itself; the master then stops its workers one after another,  *)
(* sending CMD_EXIT and waiting for the child.                              *)
(*                                                                          *)
(* Master and workers run the same loop, worker(): it serves the socketpair *)
(* before the listening socket before the connections, one of the three in  *)
(* an iteration.  What a worker says to its clients (recv, pong) is         *)
(* abstracted to: a connection stays or fails.  get_worker is two           *)
(* statements, and a signal may arrive between them.                        *)
EXTENDS Naturals, Sequences, FiniteSets, FiniteSetsExt, SequencesExt

CONSTANTS N,            \* number of workers (4 in the code)
          Clients,      \* the connections clients make
          QCap,         \* datagrams a socketpair holds before send blocks
          MaxSignals,   \* bound: signals the master gets
          AliasFd,      \* the descriptor FD_ISSET(-1) looks at (63 on x86-64),
                        \* counted from the first one a connection can get
          MayFail       \* whether socketpair and fork may fail

ASSUME ParametersAssumption ==
    /\ N \in Nat \ {0} /\ QCap \in Nat \ {0} /\ AliasFd \in Nat
    /\ MaxSignals \in Nat
    /\ MayFail \in BOOLEAN
    /\ IsFiniteSet(Clients)

VARIABLES
    pc,        \* where the master is
    i,         \* the loop variable of the fork loop and of the exit loop
    index,     \* current_worker_index
    chosen,    \* the worker get_worker returned for the last connection
    proc,      \* each worker process, as the master's kernel sees it
    q,         \* datagrams in the socketpair of each process
    list,      \* nwc_hdr of each process: connections with their descriptors
    held,      \* connections the master has a descriptor of
    conn,      \* each connection, as its client sees it
    signals    \* signals delivered

vars == <<pc, i, index, chosen, proc, q, list, held, conn, signals>>

Workers == 0 .. N - 1
Master  == N
Procs   == 0 .. N

Exit  == [cmd |-> "CMD_EXIT"]
Fd(c) == [cmd |-> "CMD_FD", fd |-> c]
Commands == {Exit} \cup {Fd(c) : c \in Clients}

InLoop == {"select", "accept", "mod1", "inc1", "mod2", "inc2", "send"}

(* The connections a process serves, those on their way to it, and the      *)
(* descriptors it has in use.                                               *)
ListConns(p)   == {list[p][k].conn : k \in DOMAIN list[p]}
QueuedConns(p) == {c \in Clients : Fd(c) \in Range(q[p])}
UsedFds(p)     == {list[p][k].fd : k \in DOMAIN list[p]}

-----------------------------------------------------------------------------
Init ==
    /\ pc = "fork" /\ i = 0
    /\ index = 0
    /\ chosen = N - 1
    /\ proc = [w \in Workers |-> "none"]
    /\ q = [p \in Procs |-> <<>>]
    /\ list = [p \in Procs |-> <<>>]
    /\ held = {}
    /\ conn = [c \in Clients |-> "idle"]
    /\ signals = 0

(* A client connects: the listening socket exists before the first fork.    *)
Connect(c) ==
    /\ conn[c] = "idle" /\ pc # "done"
    /\ conn' = [conn EXCEPT ![c] = "backlog"]
    /\ UNCHANGED <<pc, i, index, chosen, proc, q, list, held, signals>>

(* socketpair, fork, and the parent's bookkeeping; a failed fork gives      *)
(* pid -1, and the parent goes on to the next worker.                       *)
Fork ==
    /\ pc = "fork"
    /\ i < N
    /\ \/ proc' = [proc EXCEPT ![i] = "run"]
       \/ MayFail /\ proc' = [proc EXCEPT ![i] = "failed"]
    /\ i' = i + 1
    /\ UNCHANGED <<pc, index, chosen, q, list, held, conn, signals>>

(* signal(): the handlers are installed before g_ctx has its socketpair.    *)
InstallHandlers ==
    /\ pc = "fork" /\ i = N
    /\ pc' = "handlers"
    /\ UNCHANGED <<i, index, chosen, proc, q, list, held, conn, signals>>

InitMaster ==
    /\ pc = "handlers"
    /\ pc' = "select"
    /\ UNCHANGED <<i, index, chosen, proc, q, list, held, conn, signals>>

(* goto exit: a socketpair for a worker or for the master cannot be made.   *)
SocketpairFails ==
    /\ MayFail
    /\ \/ pc = "fork" /\ i < N
       \/ pc = "handlers"
    /\ pc' = "notify" /\ i' = 0
    /\ UNCHANGED <<index, chosen, proc, q, list, held, conn, signals>>

-----------------------------------------------------------------------------
(* exit_handler: get_worker inside send_cmd moves the index whatever the    *)
(* master was doing with it.  g_ctx has no socketpair yet at "handlers",    *)
(* and none any more once the loop is left: the command is lost then.  The   *)
(* master's own queue is full after QCap signals; the next handler's sendmsg *)
(* waits for a reader, which only the master it interrupts could be.         *)
Signal ==
    /\ signals < MaxSignals
    /\ pc \in InLoop \cup {"handlers", "notify", "wait"}
    /\ signals' = signals + 1
    /\ index' = (index % N) + 1
    /\ \/ /\ pc \in InLoop /\ Len(q[Master]) < QCap
          /\ q' = [q EXCEPT ![Master] = Append(@, Exit)]
          /\ UNCHANGED pc
       \/ /\ pc \in InLoop /\ Len(q[Master]) = QCap
          /\ pc' = "stuck"
          /\ UNCHANGED q
       \/ pc \notin InLoop /\ UNCHANGED <<pc, q>>
    /\ UNCHANGED <<i, chosen, proc, list, held, conn>>

(* select found the listening socket readable and no command.               *)
Select ==
    /\ pc = "select" /\ q[Master] = <<>>
    /\ \E c \in Clients : conn[c] = "backlog"
    /\ pc' = "accept"
    /\ UNCHANGED <<i, index, chosen, proc, q, list, held, conn, signals>>

Accept ==
    /\ pc = "accept"
    /\ \E c \in Clients :
         /\ conn[c] = "backlog"
         /\ conn' = [conn EXCEPT ![c] = "open"]
         /\ held' = {c}
    /\ pc' = "mod1"
    /\ UNCHANGED <<i, index, chosen, proc, q, list, signals>>

AcceptEINTR ==
    /\ pc = "accept"
    /\ pc' = "select"
    /\ UNCHANGED <<i, index, chosen, proc, q, list, held, conn, signals>>

Wrapped == index % N

(* (mutant: the index is never wrapped)                                     *)
GetWorkerNoMod ==
    /\ pc \in {"mod1", "mod2"}
    /\ pc' = IF pc = "mod1" THEN "inc1" ELSE "inc2"
    /\ UNCHANGED <<i, index, chosen, proc, q, list, held, conn, signals>>

(* The two statements of get_worker, called to choose the worker and, by    *)
(* send_cmd, a second time for a result nobody uses.                        *)
GetWorkerMod ==
    /\ pc \in {"mod1", "mod2"}
    /\ index' = Wrapped
    /\ pc' = IF pc = "mod1" THEN "inc1" ELSE "inc2"
    /\ UNCHANGED <<i, chosen, proc, q, list, held, conn, signals>>

GetWorkerInc ==
    /\ pc \in {"inc1", "inc2"}
    /\ index' = index + 1
    /\ chosen' = IF pc = "inc1" THEN index ELSE chosen
    /\ pc' = IF pc = "inc1" THEN "mod2" ELSE "send"
    /\ UNCHANGED <<i, proc, q, list, held, conn, signals>>

(* (mutant: the close of client_sock_fd is missing)                         *)
SendFdKeepsFd ==
    /\ pc = "send"
    /\ \E c \in held :
         \/ /\ chosen \in Workers /\ proc[chosen] = "run"
            /\ Len(q[chosen]) < QCap
            /\ q' = [q EXCEPT ![chosen] = Append(@, Fd(c))]
            /\ UNCHANGED conn
         \/ /\ ~ (chosen \in Workers /\ proc[chosen] = "run")
            /\ conn' = [conn EXCEPT ![c] = "closed"]
            /\ UNCHANGED q
    /\ pc' = "select"
    /\ UNCHANGED <<i, index, chosen, proc, list, signals, held>>

(* send_cmd(CMD_FD) and close(client_sock_fd).  sendmsg blocks while the    *)
(* worker's queue is full and fails when the worker is gone.  An index past *)
(* the end of worker_ctxs reads whatever the build put there: no socket, or *)
(* g_ctx and so the master's own socketpair.                                *)
SendFd ==
    /\ pc = "send"
    /\ \E c \in held :
         \/ /\ chosen \in Workers /\ proc[chosen] = "run"
            /\ Len(q[chosen]) < QCap
            /\ q' = [q EXCEPT ![chosen] = Append(@, Fd(c))]
            /\ UNCHANGED conn
         \/ /\ chosen \in Workers /\ proc[chosen] # "run"
            /\ conn' = [conn EXCEPT ![c] = "closed"]
            /\ UNCHANGED q
         \/ /\ chosen \notin Workers
            /\ conn' = [conn EXCEPT ![c] = "closed"]
            /\ UNCHANGED q
         \/ /\ chosen \notin Workers
            /\ Len(q[Master]) < QCap
            /\ q' = [q EXCEPT ![Master] = Append(@, Fd(c))]
            /\ UNCHANGED conn
    /\ held' = {}
    /\ pc' = "select"
    /\ UNCHANGED <<i, index, chosen, proc, list, signals>>

-----------------------------------------------------------------------------
(* The loop of worker(), as master and workers run it.                      *)
Looping(p) == IF p = Master THEN pc = "select" ELSE proc[p] = "run"

(* After the loop: destroy_all_nwc and close(notify_fd[1]).  A worker then  *)
(* calls _exit, the master goes on to stop the workers.                     *)
LeaveLoop(p) ==
    /\ list' = [list EXCEPT ![p] = <<>>]
    /\ q' = [q EXCEPT ![p] = <<>>]
    /\ conn' = [c \in Clients |->
                 IF c \in ListConns(p) \cup QueuedConns(p) THEN "closed" ELSE conn[c]]
    /\ IF p = Master
       THEN pc' = "notify" /\ i' = 0 /\ UNCHANGED proc
       ELSE proc' = [proc EXCEPT ![p] = "zombie"] /\ UNCHANGED <<pc, i>>
    /\ UNCHANGED <<index, chosen, held, signals>>

(* The lowest descriptor the receiving process has free.                    *)
FreeFd(p) == Min((0 .. Cardinality(Clients)) \ UsedFds(p))

(* (mutant: no else between the two commands, every command ends the loop)  *)
ReadFdCmdFallsThrough(p) ==
    /\ Looping(p)
    /\ \E c \in Clients : q[p] # <<>> /\ Head(q[p]) = Fd(c)
    /\ LeaveLoop(p)

(* (mutant: the socketpairs a worker inherits with the fork are read too)   *)
ReadFdCmdOfOthers(p) ==
    /\ Looping(p)
    /\ \E r \in Procs, c \in Clients :
         /\ q[r] # <<>> /\ Head(q[r]) = Fd(c)
         /\ q' = [q EXCEPT ![r] = Tail(@)]
         /\ list' = [list EXCEPT ![p] = Append(@, [conn |-> c, fd |-> FreeFd(p)])]
    /\ UNCHANGED <<pc, i, index, chosen, proc, held, conn, signals>>

ReadFdCmd(p) ==
    /\ Looping(p)
    /\ \E c \in Clients :
         /\ q[p] # <<>> /\ Head(q[p]) = Fd(c)
         /\ list' = [list EXCEPT ![p] = Append(@, [conn |-> c, fd |-> FreeFd(p)])]
    /\ q' = [q EXCEPT ![p] = Tail(@)]
    /\ UNCHANGED <<pc, i, index, chosen, proc, held, conn, signals>>

ReadExitCmd(p) ==
    /\ Looping(p)
    /\ q[p] # <<>> /\ Head(q[p]) = Exit
    /\ LeaveLoop(p)

(* A connection's recv or send reports the end or an error: it is closed,   *)
(* the scan stops, and the next iteration unlinks and frees it before       *)
(* select.                                                                  *)
CloseConn(p) ==
    /\ Looping(p) /\ q[p] = <<>>
    /\ \E k \in DOMAIN list[p] :
         /\ conn' = [conn EXCEPT ![list[p][k].conn] = "closed"]
         /\ list' = [list EXCEPT ![p] = RemoveAt(@, k)]
    /\ UNCHANGED <<pc, i, index, chosen, proc, q, held, signals>>

(* A worker's listen_fd is -1 and FD_ISSET(-1, &readfds) looks at the bit   *)
(* of AliasFd: when that connection is readable the worker calls            *)
(* accept(-1), and the error ends its loop.                                 *)
AcceptOnNoSocket(p) ==
    /\ p # Master /\ Looping(p) /\ q[p] = <<>>
    /\ AliasFd \in UsedFds(p)
    /\ LeaveLoop(p)

(* accept failed with an error other than EINTR: break, the server stops.   *)
AcceptFails ==
    /\ pc = "accept"
    /\ LeaveLoop(Master)

-----------------------------------------------------------------------------
(* (mutant: the exit loop waits for every worker but notifies the first)    *)
NotifyFirst ==
    /\ pc = "notify" /\ i < N
    /\ q' = IF i = 0 /\ proc[i] = "run" /\ Len(q[i]) < QCap
            THEN [q EXCEPT ![i] = Append(@, Exit)] ELSE q
    /\ index' = (index % N) + 1
    /\ pc' = "wait"
    /\ UNCHANGED <<i, chosen, proc, list, held, conn, signals>>

(* notify_exit in the exit loop; get_worker moves the index once more.      *)
Notify ==
    /\ pc = "notify" /\ i < N
    /\ IF proc[i] = "run"
       THEN Len(q[i]) < QCap /\ q' = [q EXCEPT ![i] = Append(@, Exit)]
       ELSE UNCHANGED q
    /\ index' = (index % N) + 1
    /\ pc' = "wait"
    /\ UNCHANGED <<i, chosen, proc, list, held, conn, signals>>

(* waitpid.  Pid 0 (never forked) and -1 (fork failed) wait for any child;  *)
(* with no child left it returns at once.                                   *)
Children == {w \in Workers : proc[w] \in {"run", "zombie"}}
Awaited  == IF proc[i] \in {"none", "failed"} THEN Children ELSE {i} \cap Children

(* (mutant: waitpid with WNOHANG)                                           *)
WaitNoHang ==
    /\ pc = "wait"
    /\ pc' = "notify" /\ i' = i + 1
    /\ proc' = [proc EXCEPT ![i] = IF @ = "zombie" THEN "reaped" ELSE @]
    /\ UNCHANGED <<index, chosen, q, list, held, conn, signals>>

Wait ==
    /\ pc = "wait"
    /\ \/ Awaited = {} /\ UNCHANGED proc
       \/ \E w \in Awaited : /\ proc[w] = "zombie"
                             /\ proc' = [proc EXCEPT ![w] = "reaped"]
    /\ pc' = "notify" /\ i' = i + 1
    /\ UNCHANGED <<index, chosen, q, list, held, conn, signals>>

MasterExits ==
    /\ pc = "notify" /\ i = N
    /\ pc' = "done"
    /\ UNCHANGED <<i, index, chosen, proc, q, list, held, conn, signals>>

-----------------------------------------------------------------------------
MasterStep == \/ Fork \/ InstallHandlers \/ InitMaster \/ SocketpairFails
              \/ Select \/ Accept \/ AcceptEINTR \/ AcceptFails
              \/ GetWorkerMod \/ GetWorkerInc \/ SendFd
              \/ Notify \/ Wait \/ MasterExits

ReadCmd(p) == ReadFdCmd(p) \/ ReadExitCmd(p)
LoopStep(p) == ReadCmd(p) \/ CloseConn(p) \/ AcceptOnNoSocket(p)

(* 04-23 nwchecker_server_multiprocess.c is the same file, byte for byte:   *)
(* what its nwc_server_process and its worker do.                           *)
Server_0423 == MasterStep \/ Signal
Worker_0423(p) == LoopStep(p)

Next == \/ MasterStep
        \/ \E p \in Procs : LoopStep(p)
        \/ Signal
        \/ \E c \in Clients : Connect(c)

Spec == Init /\ [][Next]_vars

(* The kernel runs master and workers: a process that can take a step       *)
(* eventually takes one.  Nothing is assumed of clients and signals.        *)
FairSpec == /\ Spec
            /\ WF_vars(MasterStep)
            /\ \A p \in Procs : WF_vars(ReadCmd(p))

-----------------------------------------------------------------------------
(* Type correctness; the index is at most N outside get_worker's two        *)
(* statements, and at most N + 1 with a signal between them.                *)
TypeOK ==
    /\ pc \in InLoop \cup {"fork", "handlers", "notify", "wait", "done", "stuck"}
    /\ i \in 0 .. N /\ index \in 0 .. N + 1 /\ chosen \in 0 .. N
    /\ proc \in [Workers -> {"none", "failed", "run", "zombie", "reaped"}]
    /\ \A p \in Procs : Range(q[p]) \subseteq Commands /\ Len(q[p]) <= QCap
    /\ \A p \in Procs : ListConns(p) \subseteq Clients
    /\ held \subseteq Clients
    /\ conn \in [Clients -> {"idle", "backlog", "open", "closed"}]
    /\ signals \in 0 .. MaxSignals

Owners(c) ==
    (IF c \in held THEN 1 ELSE 0)
    + Cardinality({s \in Procs \X (1 .. QCap) :
                     s[2] <= Len(q[s[1]]) /\ q[s[1]][s[2]] = Fd(c)})
    + Cardinality({s \in Procs \X (1 .. Cardinality(Clients)) :
                     s[2] <= Len(list[s[1]]) /\ list[s[1]][s[2]].conn = c})

(* An accepted connection has one owner at every moment -- the master while *)
(* it hands it over, a datagram in flight, or one worker's list -- and a    *)
(* closed one has none: no descriptor is leaked by the master, lost or      *)
(* served twice on the way accept, SCM_RIGHTS, list, close.  (With the      *)
(* types of the variables.)                                                 *)
OneOwner ==
    /\ TypeOK
    /\ \A c \in Clients : Owners(c) = IF conn[c] = "open" THEN 1 ELSE 0

(* The master outlives its workers: when it exits, no worker process still  *)
(* runs, whatever failed on the way (code: the notify/waitpid loop).        *)
NoOrphanedWorker ==
    pc = "done" => \A w \in Workers : proc[w] # "run"

(* A signal between the two statements of get_worker makes the master use   *)
(* worker_ctxs[4].  That happens to the last connection only: the exit      *)
(* command is already in the master's own queue.                            *)
WildChoiceOnlyWhenStopping ==
    pc \in {"mod2", "inc2", "send"} /\ chosen \notin Workers
      => Exit \in Range(q[Master])

(* A server told to exit does exit: a command in the master's queue, or the *)
(* exit loop entered after an error, ends with every worker gone.  The      *)
(* exceptions are a failed fork, for waitpid(-1) then waits for a worker    *)
(* that is told to exit only later, and more signals than the master's own  *)
(* queue holds, each of which the handler answers with a blocking send.     *)
ExitCompletes ==
    (Exit \in Range(q[Master]) \/ pc \in {"notify", "wait"})
      ~> \/ pc = "done"
         \/ \E w \in Workers : proc[w] = "failed"
         \/ signals > QCap

(* Until AliasFd connections have been made, workers leave their loop on    *)
(* the master's command only: none dies while the master still hands out    *)
(* connections, whatever the clients do.                                    *)
WorkersOutliveTheLoop ==
    /\ Cardinality({c \in Clients : conn[c] \in {"open", "closed"}}) <= AliasFd
    /\ pc \in InLoop
    => \A w \in Workers : proc[w] \in {"run", "failed"}

(* Where a connection is, in the words of DescriptorHandover.               *)
Stage(c) ==
    CASE conn[c] # "open" -> conn[c]
      [] c \in held -> "accepted"
      [] \E p \in Procs : c \in QueuedConns(p) -> "sent"
      [] OTHER -> "served"

Owner(c) ==
    IF Stage(c) \in {"sent", "served"}
    THEN CHOOSE p \in Procs : c \in QueuedConns(p) \cup ListConns(p)
    ELSE Master

Handover == INSTANCE DescriptorHandover
              WITH stage <- [c \in Clients |-> Stage(c)],
                   owner <- [c \in Clients |-> Owner(c)]

(* A connection goes from accept to one process and to its end, and never    *)
(* back or across: the worker it was sent to serves it, and a worker that    *)
(* exits or dies takes its own connections with it and nobody else's.        *)
ImplementsHandover == Handover!Spec

(* "Get worker by Round Robin policy." (nwchecker_server_multiprocess.c:60): *)
(* consecutive connections go to consecutive workers.                       *)
RoundRobin ==
    [][pc = "inc1" /\ pc' = "mod2" => chosen' = (chosen + 1) % N]_vars

=============================================================================
