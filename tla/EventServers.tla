---------------------------- MODULE EventServers ----------------------------
(***************************************************************************)
(* The single-threaded servers that wait for readiness and answer every    *)
(* ready connection in turn, and the clients that talk to them:            *)
(*   select            nwchecker_server.c, lessons 03-18 to 04-24          *)
(*   epoll             unix_stream_server.c, lessons 03-19 to 04-24        *)
(*   WSAEventSelect    wsaselectdemo_server, lesson 03-21                  *)
(* They are one loop -- wait, accept, serve what is ready, wait again --   *)
(* that differs in what it scans, in what an error does, and in who keeps  *)
(* the note that a connection still has to be written to.  A program is a  *)
(* record of those differences, and Init picks one with its command line.  *)
(* Pings and pongs are counted; a ping may be larger than the buffer, and  *)
(* then reaches the server in pieces.  Time is abstracted: a timeout may   *)
(* expire at any moment.                                                   *)
(***************************************************************************)
EXTENDS Integers, Sequences, FiniteSets, FiniteSetsExt

CONSTANTS Clients,    \* the client processes
          Cap,        \* pings or pongs the kernel buffers in a direction
          MaxFaults,  \* calls that fail or are interrupted in a behaviour
          Scenarios   \* [server, client, clients, count, size, echo, timed, max, garbage]

-----------------------------------------------------------------------------
(* The programs *)

\* everyone: a wakeup serves every connection, not only the ready ones;
\* in_order: in table order (epoll may report in any order); on_accept_error
\* and on_recv_error: what those do; parks: a send that would block is kept
\* for later (otherwise it closes the connection); echo: honours --echo-mode.
SelectServer_0318 == [waits |-> "select", everyone |-> TRUE, in_order |-> TRUE,
                      on_accept_error |-> "exit", on_recv_error |-> "close",
                      parks |-> TRUE, echo |-> TRUE]
SelectServer_0319 == SelectServer_0318
SelectServer_0423 == SelectServer_0318
SelectServer_0424 == SelectServer_0318

\* The test "errno == EINTR || EAGAIN" is always true: a failed recv goes on to
\* the send.
EpollServer_0319 == [waits |-> "epoll", everyone |-> FALSE, in_order |-> FALSE,
                     on_accept_error |-> "rewait", on_recv_error |-> "send",
                     parks |-> TRUE, echo |-> FALSE]
EpollServer_0423 == EpollServer_0319
EpollServer_0424 == EpollServer_0319

\* Winsock does not set errno, so "errno == EWOULDBLOCK" is false and a send
\* that would block closes the connection.
WsaServer_0321 == [waits |-> "wsa", everyone |-> FALSE, in_order |-> TRUE,
                   on_accept_error |-> "go on", on_recv_error |-> "close",
                   parks |-> FALSE, echo |-> FALSE]

\* polls: a nonblocking socket and select; takes: the pongs one recv may take;
\* options: those of struct nwc_args it honours.
SelectClient_0318 == [polls |-> TRUE, takes |-> 2, options |-> {"count", "size"}]
SelectClient_0319 == SelectClient_0318
SelectClient_0423 == SelectClient_0318
SelectClient_0424 == SelectClient_0318
StreamClient_0319 == [polls |-> FALSE, takes |-> 1, options |-> {"count", "size"}]
StreamClient_0423 == StreamClient_0319
StreamClient_0424 == StreamClient_0319
WsaClient_0321 == [polls |-> FALSE, takes |-> 2, options |-> {}]

Programs == {<<SelectServer_0318, SelectClient_0318>>, <<SelectServer_0319, SelectClient_0319>>,
             <<SelectServer_0423, SelectClient_0423>>, <<SelectServer_0424, SelectClient_0424>>,
             <<EpollServer_0319, StreamClient_0319>>, <<EpollServer_0423, StreamClient_0423>>,
             <<EpollServer_0424, StreamClient_0424>>, <<WsaServer_0321, WsaClient_0321>>}

\* A scenario is a lesson's two programs, the clients that run, what --count,
\* --message-size, --echo-mode and the server's interval say, the length of the
\* WSA arrays, and whether the epoll server's stack is dirty.
Lines == {r \in [server : {p[1] : p \in Programs}, client : {p[2] : p \in Programs},
                 clients : SUBSET Clients, count : Int, size : Int, echo : Int,
                 timed : BOOLEAN, max : Int, garbage : BOOLEAN] :
            /\ <<r.server, r.client>> \in Programs
            /\ "size" \in r.client.options => r.size > 0}

ASSUME ServersAssumption ==
    Cap \in Nat \ {0} /\ MaxFaults \in Nat /\ Scenarios \subseteq Lines
-----------------------------------------------------------------------------
VARIABLES
    run,        \* the scenario
    cstate,     \* where each client is
    cwrite,     \* events & 2 of a polling client
    todo,       \* pieces of the current ping a blocking client still sends
    left,       \* loop_count
    conn,       \* the kernel's view of each connection
    backlog,    \* connections not yet accepted
    up, down,   \* pieces of pings, and pongs, in the kernel
    spc,        \* where the server is
    table,      \* nwc_hdr, or events[] and sockfds[], or the epoll set: the
                \* connections in the order of their accept, closed ones included
    lset,       \* the last wait reported the listening socket
    rset, wset, \* the connections it reported readable, writable
    rest,       \* the connections this scan has still to visit
    wants,      \* per connection, the program's note that it waits to write
    pollout,    \* the connections the kernel watches for writability
    stale,      \* epoll: the upper half of the local ev.data is not zero
    deaf,       \* WSA: an FD_ACCEPT was consumed and no accept followed
    faults      \* failures so far

clientVars == <<cstate, cwrite, todo, left>>
scanVars == <<spc, lset, rset, wset, rest>>
noteVars == <<wants, pollout, stale>>
vars == <<run, clientVars, conn, backlog, up, down, table, scanVars, noteVars, deaf, faults>>

S == run.server
C == run.client
Size == IF "size" \in C.options THEN run.size ELSE 1
Infinite == "count" \notin C.options \/ run.count <= 0
Reads == ~(S.echo /\ run.echo = 3)
Writes == ~(S.echo /\ run.echo = 2)

Init ==
    /\ run \in Scenarios
    /\ cstate = [c \in Clients |-> IF c \in run.clients THEN "start" ELSE "absent"]
    /\ cwrite = [c \in Clients |-> FALSE]
    /\ todo = [c \in Clients |-> Size]
    /\ left = [c \in Clients |-> IF Infinite THEN 0 ELSE run.count]
    /\ conn = [c \in Clients |-> "none"]
    /\ backlog = <<>>
    /\ up = [c \in Clients |-> 0]
    /\ down = [c \in Clients |-> 0]
    /\ spc = "wait"
    /\ table = <<>>
    /\ lset = FALSE
    /\ rset = {} /\ wset = {} /\ rest = {}
    /\ wants = [c \in Clients |-> FALSE]
    /\ pollout = {}
    /\ stale = run.garbage
    /\ deaf = FALSE
    /\ faults = 0

Gone(c) == cstate[c] = "done"
\* The server's end is closed: by the server, or by the end of its process.
Shut(c) == conn[c] = "closed" \/ spc = "exited"
-----------------------------------------------------------------------------
(* The clients *)

\* connect completes in the kernel.  A polling client that saw EINPROGRESS
\* waits to write before it goes on.
Connect(c) ==
    /\ cstate[c] = "start"
    /\ \/ /\ spc = "exited"
          /\ cstate' = [cstate EXCEPT ![c] = "done"]
          /\ UNCHANGED <<cwrite, conn, backlog>>
       \/ /\ spc # "exited"
          /\ conn' = [conn EXCEPT ![c] = "queued"]
          /\ backlog' = Append(backlog, c)
          /\ cstate' = [cstate EXCEPT ![c] = IF C.polls THEN "polling" ELSE "sending"]
          /\ \E in_progress \in IF C.polls THEN BOOLEAN ELSE {FALSE} :
                cwrite' = [cwrite EXCEPT ![c] = in_progress]
    /\ UNCHANGED <<run, todo, left, up, down, table, scanVars, noteVars, deaf, faults>>

\* The end of the loop's body: loop_count, and the next round or the end.
EndRound(c, again) ==
    /\ left' = [left EXCEPT ![c] = IF Infinite THEN @ ELSE @ - 1]
    /\ todo' = [todo EXCEPT ![c] = Size]
    /\ cstate' = [cstate EXCEPT ![c] = IF ~Infinite /\ left[c] = 1 THEN "done" ELSE again]

Quit(c) == cstate' = [cstate EXCEPT ![c] = "done"] /\ UNCHANGED <<todo, left>>

\* The blocking client's send returns when the kernel has the whole ping.
ClientSend(c) ==
    /\ cstate[c] = "sending"
    /\ \/ /\ ~Shut(c) /\ up[c] < Cap
          /\ up' = [up EXCEPT ![c] = @ + 1]
          /\ todo' = [todo EXCEPT ![c] = @ - 1]
          /\ cstate' = [cstate EXCEPT ![c] = IF todo[c] = 1 THEN "waiting" ELSE @]
          /\ UNCHANGED left
       \/ Shut(c) /\ Quit(c) /\ UNCHANGED up
    /\ UNCHANGED <<run, cwrite, conn, backlog, down, table, scanVars, noteVars, deaf, faults>>

ClientRecv(c) ==
    /\ cstate[c] = "waiting"
    /\ \/ /\ down[c] > 0
          /\ \E n \in 1 .. Min({C.takes, down[c]}) : down' = [down EXCEPT ![c] = @ - n]
          /\ EndRound(c, "sending")
       \/ Shut(c) /\ Quit(c) /\ UNCHANGED down
    /\ UNCHANGED <<run, cwrite, conn, backlog, up, table, scanVars, noteVars, deaf, faults>>

\* One round of the polling client: select returns, by readiness or timeout;
\* it sends unless it waits to write and may not yet; it reads if it can.
\* send takes what fits and reports EAGAIN only when nothing does.
ClientPolls(c) ==
    /\ cstate[c] = "polling"
    /\ LET writable == up[c] < Cap \/ Shut(c)
           sends == ~cwrite[c] \/ writable
       IN /\ up' = [up EXCEPT ![c] = IF sends /\ ~Shut(c) THEN Min({Cap, @ + Size}) ELSE @]
          /\ cwrite' = [cwrite EXCEPT ![c] = IF sends THEN ~writable ELSE @]
    /\ \/ /\ down[c] > 0
          /\ \E n \in 1 .. Min({C.takes, down[c]}) : down' = [down EXCEPT ![c] = @ - n]
          /\ EndRound(c, "polling")
       \/ down[c] = 0 /\ ~Shut(c) /\ EndRound(c, "polling") /\ UNCHANGED down
       \/ Shut(c) /\ Quit(c) /\ UNCHANGED down
    /\ UNCHANGED <<run, conn, backlog, table, scanVars, noteVars, deaf, faults>>

\* A call of the client fails, or a signal ends it.
ClientFails(c) ==
    /\ cstate[c] \in {"sending", "waiting", "polling"}
    /\ faults < MaxFaults /\ faults' = faults + 1
    /\ Quit(c)
    /\ UNCHANGED <<run, cwrite, conn, backlog, up, down, table, scanVars, noteVars, deaf>>
-----------------------------------------------------------------------------
(* The server: the wait *)

Readable(c) == up[c] > 0 \/ Gone(c)
Writable(c) == down[c] < Cap \/ Gone(c)

\* The top of the loop drops the connections the last scan closed: no scan
\* visits them, and they count no more.
Watched == {c \in Clients : conn[c] = "open"}

\* Whom the kernel is asked to watch for writability: select's sets are built
\* from the program's own notes, epoll has been told.
AskedToWrite == IF S.waits = "epoll" THEN pollout ELSE {c \in Clients : wants[c]}

\* WSAWaitForMultipleEvents names the first signalled event; the scan starts
\* there and asks again for each event it passes.
FromFirst(ready) ==
    {table[i] : i \in {j \in DOMAIN table : \E k \in 1 .. j : table[k] \in ready}}

\* select, epoll_wait or WSAWaitForMultipleEvents returns.
Wait ==
    /\ spc = "wait"
    /\ lset' = (backlog # <<>> /\ ~deaf)
    /\ rset' = {c \in Watched : Readable(c)}
    /\ wset' = {c \in AskedToWrite \cap Watched : Writable(c)}
    /\ rest' = IF S.everyone \/ (S.waits = "wsa" /\ lset') THEN Watched
               ELSE IF S.waits = "wsa" THEN FromFirst(rset') \cap Watched
               ELSE rset' \cup wset'
    /\ lset' \/ rset' # {} \/ wset' # {} \/ run.timed
    /\ spc' = IF lset' \/ rest' # {} THEN "scan" ELSE "wait"
    /\ UNCHANGED <<run, clientVars, conn, backlog, up, down, table, noteVars, deaf, faults>>

\* "nfds == EINTR" can not hold where nfds is -1: an interrupted wait ends the
\* epoll server.
WaitInterrupted ==
    /\ spc = "wait" /\ S.waits = "epoll"
    /\ faults < MaxFaults /\ faults' = faults + 1
    /\ spc' = "exited"
    /\ UNCHANGED <<run, clientVars, conn, backlog, up, down, table, lset, rset, wset, rest,
                   noteVars, deaf>>

Rescan(r, l) == IF r # {} \/ l THEN "scan" ELSE "wait"

-----------------------------------------------------------------------------
(* The server: the scan *)

\* (mutant: the new connection is registered as if it waited to write)
RegisteredNoteSet == S.waits = "epoll"

\* What a new connection's note is: epoll's is whatever ev.data.fd = newfd
\* leaves in the upper half of ev.data.
RegisteredNote == S.waits = "epoll" /\ stale

\* accept.  select serves the new connection in the same scan; the WSA server
\* has consumed the FD_ACCEPT even when its arrays are full and it does not accept.
Accept ==
    /\ spc = "scan" /\ lset
    /\ lset' = FALSE
    /\ LET c == Head(backlog) IN
       IF S.waits = "wsa" /\ Cardinality(Watched) + 1 >= run.max
       THEN /\ deaf' = TRUE
            /\ spc' = Rescan(rest, FALSE)
            /\ UNCHANGED <<conn, backlog, table, rest, wants>>
       ELSE /\ conn' = [conn EXCEPT ![c] = "open"]
            /\ backlog' = Tail(backlog)
            /\ table' = Append(table, c)
            /\ wants' = [wants EXCEPT ![c] = RegisteredNote]
            /\ rest' = IF S.everyone THEN rest \cup {c} ELSE rest
            /\ spc' = Rescan(rest', FALSE)
            /\ UNCHANGED deaf
    /\ UNCHANGED <<run, clientVars, up, down, rset, wset, pollout, stale, faults>>

\* accept fails: select's server leaves its loop, the epoll server drops the
\* rest of its batch, the WSA server goes on to the next event.
AcceptFails ==
    /\ spc = "scan" /\ lset
    /\ faults < MaxFaults /\ faults' = faults + 1
    /\ lset' = FALSE
    /\ CASE S.on_accept_error = "exit" -> spc' = "exited" /\ UNCHANGED rest
         [] S.on_accept_error = "rewait" -> spc' = "wait" /\ rest' = {}
         [] S.on_accept_error = "go on" -> spc' = Rescan(rest, FALSE) /\ UNCHANGED rest
    /\ UNCHANGED <<run, clientVars, conn, backlog, up, down, table, rset, wset, noteVars, deaf>>

\* What recv can return: everything queued, the end of the stream (0), or an
\* error (-1), which a client that went away causes once, with what is queued
\* lost.  -2 stands for a connection that is not read in this visit.
NotRead == -2
Received(c) ==
    IF ~Reads \/ c \notin (IF S.waits = "wsa" THEN {d \in Clients : Readable(d)} ELSE rset)
    THEN {NotRead}
    ELSE (IF up[c] > 0 THEN {up[c]} ELSE IF Gone(c) THEN {0} ELSE {})
         \cup (IF (Gone(c) /\ up[c] > 0) \/ (~Gone(c) /\ faults < MaxFaults) THEN {-1} ELSE {})

\* The next connection of the scan.
Visits(c) ==
    /\ spc = "scan" /\ c \in rest
    /\ S.in_order => /\ ~lset
                     /\ \A i, j \in DOMAIN table :
                           table[i] = c /\ table[j] \in rest => i <= j

\* (mutant: one connection per wakeup)
PassOnAndWait(c) == rest' = {} /\ spc' = "wait" /\ UNCHANGED <<lset, rset, wset>>

PassOn(c) == rest' = rest \ {c} /\ spc' = Rescan(rest', lset) /\ UNCHANGED <<lset, rset, wset>>

\* close, and out of the scan: what it had still to visit is reported again.
CloseAndBreak(c) ==
    /\ conn' = [conn EXCEPT ![c] = "closed"]
    /\ spc' = "wait" /\ rest' = {} /\ lset' = FALSE
    /\ UNCHANGED <<rset, wset>>

\* FD_CLOSE: the pong is sent all the same, and the scan goes on.
CloseAndGoOn(c) ==
    /\ S.waits = "wsa"
    /\ conn' = [conn EXCEPT ![c] = "closed"]
    /\ PassOn(c)

\* (mutant: the note to write stays when the write is due)
MayWriteKept(c) == ~wants[c]

\* A connection is written to unless it waits to write and may not yet.
MayWrite(c) == ~wants[c] \/ c \in wset

\* send succeeds; where the connection was waiting to write, the note and the
\* registration are withdrawn first.
Sent(c) ==
    /\ Gone(c) \/ down[c] < Cap
    /\ down' = IF Gone(c) THEN down ELSE [down EXCEPT ![c] = @ + 1]
    /\ wants' = [wants EXCEPT ![c] = IF S.waits = "epoll" /\ c \notin wset THEN @ ELSE FALSE]
    /\ pollout' = pollout \ (wset \cap {c})
    /\ stale' = (stale /\ c \notin wset)
    /\ PassOn(c)
    /\ UNCHANGED conn

\* send would block: note it and watch for EPOLLOUT.
Parked(c) ==
    /\ ~Gone(c) /\ down[c] = Cap /\ S.parks
    /\ wants' = [wants EXCEPT ![c] = TRUE]
    /\ pollout' = IF S.waits = "epoll" THEN pollout \cup {c} ELSE pollout
    /\ stale' = (S.waits = "epoll")
    /\ PassOn(c)
    /\ UNCHANGED <<conn, down>>

\* send fails for good, or would block where that is not told apart.
SendCloses(c) ==
    /\ Gone(c) \/ (~S.parks /\ down[c] = Cap)
    /\ CloseAndBreak(c)
    /\ pollout' = pollout \ {c}
    /\ wants' = [wants EXCEPT ![c] = FALSE]
    /\ stale' = (stale /\ c \notin wset)
    /\ UNCHANGED down

\* One visit: read if it is reported readable, then write unless it waits to.
Serve(c) ==
    /\ Visits(c)
    /\ \E got \in Received(c) :
        /\ faults' = IF got = -1 /\ ~Gone(c) THEN faults + 1 ELSE faults
        /\ up' = IF got > 0 \/ (got = -1 /\ Gone(c)) THEN [up EXCEPT ![c] = 0] ELSE up
        /\ IF got = 0 \/ (got = -1 /\ S.on_recv_error = "close")
           THEN /\ CloseAndBreak(c) \/ (got = 0 /\ CloseAndGoOn(c))
                /\ pollout' = pollout \ {c}
                /\ wants' = [wants EXCEPT ![c] = FALSE]
                /\ UNCHANGED <<down, stale>>
           ELSE IF MayWrite(c) /\ Writes /\ ~(S.waits = "wsa" /\ got = NotRead)
           THEN Sent(c) \/ Parked(c) \/ SendCloses(c)
           ELSE PassOn(c) /\ UNCHANGED <<conn, down, noteVars>>
    /\ UNCHANGED <<run, clientVars, backlog, table, deaf>>
-----------------------------------------------------------------------------
ClientStep(c) == Connect(c) \/ ClientSend(c) \/ ClientRecv(c) \/ ClientPolls(c)
ServerStep == Wait \/ Accept \/ \E c \in Clients : Serve(c)

Next ==
    \/ \E c \in Clients : ClientStep(c) \/ ClientFails(c)
    \/ ServerStep
    \/ WaitInterrupted
    \/ AcceptFails

\* Every process is scheduled; nothing obliges a call to fail.
Fairness == WF_vars(ServerStep) /\ \A c \in Clients : WF_vars(ClientStep(c))

Spec == Init /\ [][Next]_vars /\ Fairness
-----------------------------------------------------------------------------
TypeOK ==
    /\ cstate \in [Clients -> {"absent", "start", "sending", "waiting", "polling", "done"}]
    /\ cwrite \in [Clients -> BOOLEAN]
    /\ todo \in [Clients -> 0 .. Size]
    /\ left \in [Clients -> Nat]
    /\ conn \in [Clients -> {"none", "queued", "open", "closed"}]
    /\ backlog \in Seq(Clients) /\ table \in Seq(Clients)
    /\ up \in [Clients -> 0 .. Cap] /\ down \in [Clients -> 0 .. Cap]
    /\ spc \in {"wait", "scan", "exited"}
    /\ lset \in BOOLEAN /\ deaf \in BOOLEAN /\ stale \in BOOLEAN
    /\ rset \subseteq Clients /\ wset \subseteq Clients /\ rest \subseteq Clients
    /\ wants \in [Clients -> BOOLEAN]
    /\ pollout \subseteq Clients
    /\ faults \in 0 .. MaxFaults

\* c was registered with a note that no EPOLLOUT will ever withdraw.
Muted(c) == S.waits = "epoll" /\ conn[c] = "open" /\ wants[c] /\ c \notin pollout

(* Muting takes a dirty stack (ev is not initialised) or a connection whose
   buffer has filled, and with pings that arrive whole no buffer fills: every
   client then has at most one pong to read, however the connections are
   interleaved, and one more for every recv that failed and was answered all the
   same.  Only --message-size can start it, or as many failures as the buffer
   holds pongs.  (With the types of the variables.) *)
MutedByAFullBuffer ==
    /\ TypeOK
    /\ \A c \in Clients : Muted(c) => run.garbage \/ Size > 1 \/ faults >= Cap

(* No client starves: what it has sent is read and its connection accepted, or
   closed, whatever the other connections do -- although one close ends a scan
   and drops everybody else's events.  The exceptions are a server told not to
   read (--echo-mode 3), the end of the server, and, before the accept, an
   FD_ACCEPT lost to a full table. *)
NobodyStarves ==
    Reads => \A c \in Clients :
        up[c] > 0 \/ conn[c] = "queued"
            ~> \/ up[c] = 0 /\ conn[c] = "open"
               \/ Shut(c) \/ (deaf /\ conn[c] = "queued")

(* A blocking client that waits for its pong gets one or the end of the
   connection, unless it was never accepted or its connection was registered
   muted: the stale upper half of ev.data is the one way a live, accepted
   connection is never answered. *)
WaitingIsAnswered ==
    \A c \in Clients :
        cstate[c] = "waiting" ~> cstate[c] # "waiting" \/ Muted(c) \/ (deaf /\ conn[c] = "queued")
=============================================================================
