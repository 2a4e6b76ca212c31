------------------------------ MODULE PingPong ------------------------------
(***************************************************************************)
(* The course's blocking ping/pong programs, lessons 02-02 to 04-24: a     *)
(* client that sends a ping and waits for the pong, and the servers that   *)
(* answer it: one connection and no more (02-02 .. 02-07), a forked child  *)
(* per connection (03-11 .. 03-13, and the UNIX stream server up to        *)
(* 03-18), or one loop over a datagram socket (03-12 .. 04-24, and the     *)
(* datagram programs of java_netprogramming); 04-24's server that reads    *)
(* its datagrams in a SIGIO handler; and 04-26's time server, where what   *)
(* anybody sends goes to the whole multicast group.                        *)
(*                                                                         *)
(* The lessons repeat one program with small differences, so a program is  *)
(* a record that says how it differs, the actions interpret the record,    *)
(* and Init picks a lesson's pair and its command line from PingScenarios. *)
(* A stream is a count of bytes in flight, of which recv may take any      *)
(* part; a datagram is a unit that UDP may lose or deliver twice.  Sleeps  *)
(* are the time a process takes no step, and closing is what the end of    *)
(* the process does, with --no-close or without.                           *)
(***************************************************************************)
EXTENDS Integers, Sequences, FiniteSets, FiniteSetsExt, Functions

CONSTANTS PingClients,   \* the client processes
          PingCap,       \* bytes the kernel buffers in a direction of a stream
          Datagrams,     \* datagrams a socket's queue holds
          Parent,        \* the server process
          NoClient,      \* client_addr before the first datagram
          PingScenarios \* [program, clients, count, slots, size, cecho, secho]

-----------------------------------------------------------------------------
(* The programs *)

RECV_BUFF_LEN == 4 * 1024 * 1024
PongLen == 4

\* A client: what it talks over, how much it asks recv for, and the options
\* of struct nwc_args it honours (a program without "size" sends "ping").
Client_0202 == [over |-> "tcp", reads |-> 7, options |-> {}]
Client_0206 == [over |-> "tcp", reads |-> 7, options |-> {"count"}]
Client_0207 == [over |-> "tcp", reads |-> 7,
                options |-> {"count", "slots", "size", "echo"}]
Client_0311 == Client_0207
Client_0312 == Client_0207
Client_0313 == Client_0207

UnixStreamClient_0313 == [over |-> "unix_stream", reads |-> 4,
                          options |-> {"count", "slots", "size"}]
UnixStreamClient_0318 == UnixStreamClient_0313

UdpClient_0312 == [over |-> "udp", reads |-> 1,
                   options |-> {"count", "slots", "size", "echo"}]
UdpClient_0313 == UdpClient_0312
UdpClient_0318 == UdpClient_0312
UdpClient_0319 == UdpClient_0312
UdpClient_0423 == UdpClient_0312
UdpClient_0424 == UdpClient_0312

UnixDgramClient_0313 == [over |-> "unix_dgram", reads |-> 1, options |-> {}]
UnixDgramClient_0318 == UnixDgramClient_0313
UnixDgramClient_0319 == UnixDgramClient_0313
UnixDgramClient_0423 == UnixDgramClient_0313
UnixDgramClient_0424 == UnixDgramClient_0313

\* The Java clients' messages have a fixed text and never an end.
UDPClient   == [over |-> "udp", reads |-> 1, options |-> {}]
UDPClientIO == UDPClient

\* One request to the group, and whatever the group's port receives first is
\* printed as the answer; clients and server are on hosts of their own, for a
\* second bind of the port fails.
McastClient == [over |-> "group", reads |-> 1, options |-> {"once"}]

\* A server: how it accepts ("one" connection, "fork" a child for each, "none",
\* a datagram socket, or "signal", one that is read in a signal handler), what
\* a failed fork does with the connection, whether the children keep the
\* listening socket open, whether it keeps a list of nwc_connections, whether
\* a failing call ends its loop, and the options it honours.
OneShot(reads, options) ==
    [accepts |-> "one", reads |-> reads, fork_failure |-> "none",
     inherits |-> FALSE, lists |-> FALSE, on_error |-> "ends", options |-> options]
Server_0202 == OneShot(7, {})
Server_0206 == OneShot(7, {})
Server_0207 == OneShot(RECV_BUFF_LEN, {"echo"})

Server_0311 == [accepts |-> "fork", reads |-> RECV_BUFF_LEN, fork_failure |-> "leaks",
                inherits |-> TRUE, lists |-> TRUE, on_error |-> "ends",
                options |-> {"echo"}]
Server_0312 == Server_0311
Server_0313 == Server_0311

UnixStreamServer_0313 == [accepts |-> "fork", reads |-> RECV_BUFF_LEN,
                          fork_failure |-> "closes", inherits |-> FALSE,
                          lists |-> FALSE, on_error |-> "ends", options |-> {}]
UnixStreamServer_0318 == UnixStreamServer_0313

UdpServer_0312 == [accepts |-> "none", reads |-> 1, fork_failure |-> "none",
                   inherits |-> FALSE, lists |-> TRUE, on_error |-> "goes on",
                   options |-> {"echo"}]
UdpServer_0313 == UdpServer_0312
UdpServer_0318 == UdpServer_0312
UdpServer_0319 == UdpServer_0312
UdpServer_0423 == UdpServer_0312
UdpServer_0424 == UdpServer_0312

UnixDgramServer_0313 == [UdpServer_0312 EXCEPT !.lists = FALSE, !.options = {}]
UnixDgramServer_0318 == UnixDgramServer_0313
UnixDgramServer_0319 == UnixDgramServer_0313
UnixDgramServer_0423 == UnixDgramServer_0313
UnixDgramServer_0424 == UnixDgramServer_0313

\* nwc_hdr is the queue between the handler and the loop.
SigioUdpServer == [UdpServer_0424 EXCEPT !.accepts = "signal", !.lists = FALSE,
                                         !.options = {}]

\* The time of day goes to the whole group.
McastServer == UnixDgramServer_0313

\* Their try is around the loop: one IOException is the end of the server.
UDPServer   == [UnixDgramServer_0313 EXCEPT !.on_error = "ends"]
UDPServerIO == UDPServer

\* A lesson's main: the client and the server its options choose between.
\* (03-18 and later also choose programs built on select, epoll and fd passing:
\* modules EventServers and MultiProcess.)
Pair(c, s) == [client |-> c, server |-> s]
Main_0206 == {Pair(Client_0206, Server_0206)}
Main_0207 == {Pair(Client_0207, Server_0207)}
Main_0311 == {Pair(Client_0311, Server_0311)}
Main_0312 == {Pair(Client_0312, Server_0312), Pair(UdpClient_0312, UdpServer_0312)}
Main_0313 == {Pair(Client_0313, Server_0313), Pair(UdpClient_0313, UdpServer_0313),
              Pair(UnixStreamClient_0313, UnixStreamServer_0313),
              Pair(UnixDgramClient_0313, UnixDgramServer_0313)}
Main_0318 == {Pair(UdpClient_0318, UdpServer_0318),
              Pair(UnixStreamClient_0318, UnixStreamServer_0318),
              Pair(UnixDgramClient_0318, UnixDgramServer_0318)}
Main_0319 == {Pair(UdpClient_0319, UdpServer_0319),
              Pair(UnixDgramClient_0319, UnixDgramServer_0319)}
Main_0423 == {Pair(UdpClient_0423, UdpServer_0423),
              Pair(UnixDgramClient_0423, UnixDgramServer_0423)}
Main_0424 == {Pair(UdpClient_0424, UdpServer_0424), Pair(UdpClient_0424, SigioUdpServer),
              Pair(UnixDgramClient_0424, UnixDgramServer_0424)}
Lesson_0202 == {Pair(Client_0202, Server_0202)}
Mcast_0426 == {Pair(McastClient, McastServer)}
JavaUdp == {Pair(UDPClient, UDPServer), Pair(UDPClientIO, UDPServerIO)}

PingPrograms == UNION {Lesson_0202, Main_0206, Main_0207, Main_0311, Main_0312,
                       Main_0313, Main_0318, Main_0319, Main_0423, Main_0424, Mcast_0426,
                       JavaUdp}

\* A scenario is a lesson's two programs, the clients that run, and what
\* --count, --slots, --message-size and both sides' --echo-mode say.
PingLines == [program : PingPrograms, clients : SUBSET PingClients, count : Int, slots : Int,
              size : Int, cecho : Int, secho : Int]

ASSUME PingAssumption ==
    /\ PingCap \in Nat \ {0} /\ Datagrams \in Nat \ {0}
    /\ Parent \notin PingClients /\ NoClient \notin PingClients
    /\ PingScenarios \subseteq PingLines
-----------------------------------------------------------------------------
VARIABLES
    pair,      \* the scenario: the programs, their clients and command lines
    sigio,     \* the signal: asked for by O_ASYNC, pending; its socket still
               \* open; and, history, whose datagram came before O_ASYNC
    cpc,       \* where each client is
    ctodo,     \* bytes of the current ping send has not yet accepted
    loops,     \* loop_count
    pings,     \* bytes on the way to the server
    pongs,     \* bytes, or datagrams, on the way back
    inbox,     \* the datagrams in the server's socket, by sender
    queued,    \* connections not yet accepted
    ppc, cur,  \* where the server process is, and the client it deals with
    wpc,       \* where the loop that serves a connection is
    wtodo,     \* bytes of its pong still to send
    holds,     \* per process of the server, the connections it has open
    nwc_hdr,   \* the server's list of nwc_connections
    lost,      \* history: clients that had a datagram lost
    orphans    \* history: clients whose fork failed

client == <<cpc, ctodo, loops>>
worker == <<wpc, wtodo>>
pingVars == <<pair, sigio, cpc, ctodo, loops, pings, pongs, inbox, queued, ppc, cur, wpc, wtodo,
              holds, nwc_hdr, lost, orphans>>

Pinger == pair.program.client
Ponger == pair.program.server
Stream == Ponger.accepts \in {"one", "fork"}

\* The command line, as each program reads it.
MessageSize == IF "size" \notin Pinger.options THEN 4 ELSE IF pair.size <= 0 THEN 5 ELSE pair.size
Count == IF "once" \in Pinger.options THEN 1
         ELSE IF "count" \in Pinger.options THEN pair.count ELSE 0
Endless == Count <= 0
LoopCount == IF Endless THEN 0
             ELSE Count * (IF "slots" \in Pinger.options /\ pair.slots > 0 THEN pair.slots ELSE 1)
ClientReads == ~("echo" \in Pinger.options /\ pair.cecho = 2)
ServerReads == ~("echo" \in Ponger.options /\ pair.secho = 3)
ServerWrites == ~("echo" \in Ponger.options /\ pair.secho = 2)

PingInit ==
    /\ pair \in PingScenarios
    /\ cpc = [c \in PingClients |-> IF c \in pair.clients THEN "start" ELSE "absent"]
    /\ ctodo = [c \in PingClients |-> MessageSize]
    /\ loops = [c \in PingClients |-> LoopCount]
    /\ pings = [c \in PingClients |-> 0]
    /\ pongs = [c \in PingClients |-> 0]
    /\ inbox = <<>>
    /\ queued = <<>>
    /\ ppc = CASE Stream -> "accept"
               [] Ponger.accepts = "none"   -> "recv"
               [] Ponger.accepts = "signal" -> "startup"
    /\ sigio = [async |-> FALSE, pending |-> FALSE, early |-> {}, open |-> TRUE]
    /\ cur = NoClient
    /\ wpc = [c \in PingClients |-> "none"]
    /\ wtodo = [c \in PingClients |-> 0]
    /\ holds = [p \in PingClients \cup {Parent} |-> {}]
    /\ nwc_hdr = <<>>
    /\ lost = {}
    /\ orphans = {}

ClientOpen(c) == cpc[c] \in {"send", "recv"}
Serving(c) == wpc[c] \in {"recv", "send"}
DatagramsHeard == ppc # "exited" /\ sigio.open
ListenerOpen == ppc # "exited" \/ (Ponger.inherits /\ \E c \in PingClients : Serving(c))
\* The server's end of c's connection: the kernel keeps it open while it waits
\* to be accepted and while any process has a descriptor for it.
PeerOpen(c) == \/ c \in Range(queued) /\ ListenerOpen
               \/ \E p \in DOMAIN holds : c \in holds[p]
-----------------------------------------------------------------------------
(* The client *)

PingConnect(c) ==
    /\ cpc[c] = "start"
    /\ IF Stream
       THEN IF ListenerOpen
            THEN cpc' = [cpc EXCEPT ![c] = "send"] /\ queued' = Append(queued, c)
            ELSE cpc' = [cpc EXCEPT ![c] = "failed"] /\ UNCHANGED queued
       ELSE cpc' = [cpc EXCEPT ![c] = "send"] /\ UNCHANGED queued
    /\ UNCHANGED <<pair, sigio, ctodo, loops, pings, pongs, inbox, ppc, cur, worker, holds, nwc_hdr,
                   lost, orphans>>

\* (mutant: loop_count is not counted down)
FinishRoundUncounted(c) ==
    /\ UNCHANGED loops
    /\ ctodo' = [ctodo EXCEPT ![c] = MessageSize]
    /\ cpc' = [cpc EXCEPT ![c] = IF ~Endless /\ loops[c] = 1 THEN "done" ELSE "send"]

\* The end of the loop's body: loop_count, and the next ping or the end.
FinishRound(c) ==
    /\ loops' = [loops EXCEPT ![c] = IF Endless THEN @ ELSE @ - 1]
    /\ ctodo' = [ctodo EXCEPT ![c] = MessageSize]
    /\ cpc' = [cpc EXCEPT ![c] = IF ~Endless /\ loops[c] = 1 THEN "done" ELSE "send"]

PingSent(c) == IF ClientReads
               THEN cpc' = [cpc EXCEPT ![c] = "recv"] /\ UNCHANGED <<ctodo, loops>>
               ELSE FinishRound(c)

\* A blocking send: it returns when the kernel has taken the whole message.
SendPing(c) ==
    /\ Stream /\ cpc[c] = "send" /\ PeerOpen(c) /\ pings[c] < PingCap
    /\ LET n == Min({ctodo[c], PingCap - pings[c]})
       IN /\ pings' = [pings EXCEPT ![c] = @ + n]
          /\ \/ n = ctodo[c] /\ PingSent(c)
             \/ n < ctodo[c] /\ ctodo' = [ctodo EXCEPT ![c] = @ - n] /\ UNCHANGED <<cpc, loops>>
    /\ UNCHANGED <<pair, sigio, pongs, inbox, queued, ppc, cur, worker, holds, nwc_hdr, lost,
                   orphans>>

\* The peer is gone: the kernel drops what is sent, or reports it.
ClientSendClosed(c) ==
    /\ Stream /\ cpc[c] = "send" /\ ~PeerOpen(c)
    /\ \/ PingSent(c)
       \/ cpc' = [cpc EXCEPT ![c] = "failed"] /\ UNCHANGED <<ctodo, loops>>
    /\ UNCHANGED <<pair, sigio, pings, pongs, inbox, queued, ppc, cur, worker, holds, nwc_hdr, lost,
                   orphans>>

Copies == IF Pinger.over \in {"udp", "group"} THEN 0 .. 2 ELSE {1}

\* Who hears what `from' sends beside the server: the members of its group,
\* which a client is from its join to its close; the loop is off, so never
\* the sender.
Members(from) == IF Pinger.over = "group" THEN {c \in PingClients \ {from} : ClientOpen(c)} ELSE {}

\* Datagrams that reach clients: copies[c] for each c of its domain.
Deliver(copies) ==
    /\ \A c \in DOMAIN copies : pongs[c] + copies[c] <= Datagrams
    /\ pongs' = [c \in PingClients |->
                    IF c \in DOMAIN copies THEN pongs[c] + copies[c] ELSE pongs[c]]

\* A datagram raises SIGIO once O_ASYNC is set.
Arrives(c, k) ==
    sigio' = IF k = 0 \/ Ponger.accepts # "signal" THEN sigio
             ELSE IF sigio.async THEN [sigio EXCEPT !.pending = TRUE]
             ELSE [sigio EXCEPT !.early = @ \cup {c}]

\* Nobody tells the client that the server's socket is closed.
ClientSendTo(c) ==
    /\ ~Stream /\ cpc[c] = "send"
    /\ \E k \in IF DatagramsHeard THEN Copies ELSE {0} :
        /\ Len(inbox) + k <= Datagrams
        /\ inbox' = inbox \o [i \in 1 .. k |-> c]
        /\ Arrives(c, k)
        /\ lost' = IF k = 0 THEN lost \cup {c} ELSE lost
    /\ \E copies \in [Members(c) -> Copies] : Deliver(copies)
    /\ PingSent(c)
    /\ UNCHANGED <<pair, pings, queued, ppc, cur, worker, holds, nwc_hdr, orphans>>

RecvPong(c) ==
    /\ cpc[c] = "recv" /\ pongs[c] > 0
    /\ \E n \in 1 .. Min({Pinger.reads, pongs[c]}) : pongs' = [pongs EXCEPT ![c] = @ - n]
    /\ FinishRound(c)
    /\ UNCHANGED <<pair, sigio, pings, inbox, queued, ppc, cur, worker, holds, nwc_hdr, lost,
                   orphans>>

\* End of stream, or the reset that unread data at the server's end causes.
ClientRecvEnd(c) ==
    /\ Stream /\ cpc[c] = "recv" /\ ~PeerOpen(c)
    /\ pongs[c] = 0 \/ pings[c] > 0
    /\ cpc' = [cpc EXCEPT ![c] = "failed"]
    /\ UNCHANGED <<pair, sigio, ctodo, loops, pings, pongs, inbox, queued, ppc, cur, worker, holds,
                   nwc_hdr, lost, orphans>>

\* send or recv returns -1, or a signal ends the client.
ClientError(c) ==
    /\ ClientOpen(c)
    /\ cpc' = [cpc EXCEPT ![c] = "failed"]
    /\ UNCHANGED <<pair, sigio, ctodo, loops, pings, pongs, inbox, queued, ppc, cur, worker, holds,
                   nwc_hdr, lost, orphans>>
-----------------------------------------------------------------------------
(* The server process: accept, and for "fork" a child per connection *)

StartServing(c) ==
    /\ wpc' = [wpc EXCEPT ![c] = IF ServerReads THEN "recv" ELSE "send"]
    /\ wtodo' = [wtodo EXCEPT ![c] = PongLen]

ServerAccepts ==
    /\ ppc = "accept" /\ queued # <<>>
    /\ cur' = Head(queued)
    /\ queued' = Tail(queued)
    /\ holds' = [holds EXCEPT ![Parent] = @ \cup {cur'}]
    /\ IF Ponger.accepts = "one"
       THEN ppc' = "serve" /\ StartServing(cur')
       ELSE ppc' = "fork" /\ UNCHANGED worker
    /\ UNCHANGED <<pair, sigio, client, pings, pongs, inbox, nwc_hdr, lost, orphans>>

\* Any error of accept ends the server process; its children go on.
AcceptError ==
    /\ ppc = "accept"
    /\ ppc' = "exited"
    /\ holds' = [holds EXCEPT ![Parent] = {}]
    /\ UNCHANGED <<pair, sigio, client, pings, pongs, inbox, queued, cur, worker, nwc_hdr, lost,
                   orphans>>

\* The child inherits every connection the parent still has open.
Fork ==
    /\ ppc = "fork"
    /\ StartServing(cur)
    /\ holds' = [holds EXCEPT ![cur] = holds[Parent]]
    /\ ppc' = "close"
    /\ UNCHANGED <<pair, sigio, client, pings, pongs, inbox, queued, cur, nwc_hdr, lost, orphans>>

\* (mutant: the parent keeps its descriptor of the child's connection)
ParentKeeps ==
    /\ ppc = "close"
    /\ nwc_hdr' = IF Ponger.lists THEN Append(nwc_hdr, cur) ELSE nwc_hdr
    /\ ppc' = "accept"
    /\ UNCHANGED <<pair, sigio, client, pings, pongs, inbox, queued, cur, worker, holds, lost,
                   orphans>>

\* The parent's close, and add_nwc_tail.
ParentCloses ==
    /\ ppc = "close"
    /\ holds' = [holds EXCEPT ![Parent] = @ \ {cur}]
    /\ nwc_hdr' = IF Ponger.lists THEN Append(nwc_hdr, cur) ELSE nwc_hdr
    /\ ppc' = "accept"
    /\ UNCHANGED <<pair, sigio, client, pings, pongs, inbox, queued, cur, worker, lost, orphans>>

\* 03-11 .. 03-13 go back to accept with the descriptor still open.
ForkFails ==
    /\ ppc = "fork"
    /\ IF Ponger.fork_failure = "closes"
       THEN holds' = [holds EXCEPT ![Parent] = @ \ {cur}]
       ELSE UNCHANGED holds
    /\ orphans' = orphans \cup {cur}
    /\ ppc' = "accept"
    /\ UNCHANGED <<pair, sigio, client, pings, pongs, inbox, queued, cur, worker, nwc_hdr, lost>>
-----------------------------------------------------------------------------
(* The loop that serves a connection, in the server process or a child *)

\* (mutant: only a recv that returns a whole ping is answered)
WorkerRecvWhole(c) ==
    /\ wpc[c] = "recv" /\ pings[c] > 0
    /\ \E n \in 1 .. Min({Ponger.reads, pings[c]}) :
        /\ pings' = [pings EXCEPT ![c] = @ - n]
        /\ wpc' = [wpc EXCEPT ![c] = IF ServerWrites /\ n >= MessageSize THEN "send" ELSE @]
    /\ wtodo' = [wtodo EXCEPT ![c] = PongLen]
    /\ UNCHANGED <<pair, sigio, client, pongs, inbox, queued, ppc, cur, holds, nwc_hdr, lost,
                   orphans>>

\* One pong per successful recv, whatever part of a ping it returned.
WorkerRecv(c) ==
    /\ wpc[c] = "recv" /\ pings[c] > 0
    /\ \E n \in 1 .. Min({Ponger.reads, pings[c]}) : pings' = [pings EXCEPT ![c] = @ - n]
    /\ wpc' = [wpc EXCEPT ![c] = IF ServerWrites THEN "send" ELSE @]
    /\ wtodo' = [wtodo EXCEPT ![c] = PongLen]
    /\ UNCHANGED <<pair, sigio, client, pongs, inbox, queued, ppc, cur, holds, nwc_hdr, lost,
                   orphans>>

PongSent(c) ==
    /\ wpc' = [wpc EXCEPT ![c] = IF ServerReads THEN "recv" ELSE @]
    /\ wtodo' = [wtodo EXCEPT ![c] = PongLen]

WorkerSend(c) ==
    /\ wpc[c] = "send" /\ ClientOpen(c) /\ pongs[c] < PingCap
    /\ LET n == Min({wtodo[c], PingCap - pongs[c]})
       IN /\ pongs' = [pongs EXCEPT ![c] = @ + n]
          /\ \/ n = wtodo[c] /\ PongSent(c)
             \/ n < wtodo[c] /\ wtodo' = [wtodo EXCEPT ![c] = @ - n] /\ UNCHANGED wpc
    /\ UNCHANGED <<pair, sigio, client, pings, inbox, queued, ppc, cur, holds, nwc_hdr, lost,
                   orphans>>

\* The loop breaks: the process that ran it closes everything by exiting.
WorkerEnds(c) ==
    /\ wpc' = [wpc EXCEPT ![c] = "exited"]
    /\ UNCHANGED wtodo
    /\ IF Ponger.accepts = "one"
       THEN ppc' = "exited" /\ holds' = [holds EXCEPT ![Parent] = {}]
       ELSE UNCHANGED ppc /\ holds' = [holds EXCEPT ![c] = {}]

WorkerSendClosed(c) ==
    /\ wpc[c] = "send" /\ ~ClientOpen(c)
    /\ \/ PongSent(c) /\ UNCHANGED <<ppc, holds>>
       \/ WorkerEnds(c)
    /\ UNCHANGED <<pair, sigio, client, pings, pongs, inbox, queued, cur, nwc_hdr, lost, orphans>>

WorkerRecvEnd(c) ==
    /\ wpc[c] = "recv" /\ ~ClientOpen(c)
    /\ pings[c] = 0 \/ pongs[c] > 0
    /\ WorkerEnds(c)
    /\ UNCHANGED <<pair, sigio, client, pings, pongs, inbox, queued, cur, nwc_hdr, lost, orphans>>

\* send or recv returns -1, or a signal ends the process.
WorkerError(c) ==
    /\ Serving(c)
    /\ WorkerEnds(c)
    /\ UNCHANGED <<pair, sigio, client, pings, pongs, inbox, queued, cur, nwc_hdr, lost, orphans>>
-----------------------------------------------------------------------------
(* The datagram servers *)

get_nwc_connection(hdr, addr) == addr \in Range(hdr)

\* The end of the loop's body: a record for an address not seen before.
Record(c) == nwc_hdr' = IF Ponger.lists /\ ~get_nwc_connection(nwc_hdr, c)
                        THEN Append(nwc_hdr, c) ELSE nwc_hdr

ServerRecvFrom ==
    /\ ppc = "recv" /\ ServerReads /\ inbox # <<>>
    /\ cur' = Head(inbox)
    /\ inbox' = Tail(inbox)
    /\ IF ServerWrites THEN ppc' = "send" /\ UNCHANGED nwc_hdr
                       ELSE Record(cur') /\ UNCHANGED ppc
    /\ UNCHANGED <<pair, sigio, client, pings, pongs, queued, worker, holds, lost, orphans>>

\* sendto succeeds even when the pong is lost; when it fails the loop starts
\* over before the record is made.
ServerSendTo ==
    /\ ppc = "send"
    /\ ppc' = "recv"
    /\ \E copies \in [{cur} \cup Members(Parent) -> Copies] :
        /\ Deliver(copies)
        /\ IF copies[cur] = 0
           THEN lost' = lost \cup {cur} /\ (Record(cur) \/ UNCHANGED nwc_hdr)
           ELSE UNCHANGED lost /\ Record(cur)
    /\ UNCHANGED <<pair, sigio, client, pings, inbox, queued, cur, worker, holds, orphans>>

\* A UNIX socket has no one to deliver to once the client is gone.
ServerSendToGone ==
    /\ ppc = "send" /\ ~ClientOpen(cur) /\ Pinger.over = "unix_dgram"
    /\ ppc' = "recv"
    /\ UNCHANGED <<pair, sigio, client, pings, pongs, inbox, queued, cur, worker, holds, nwc_hdr,
                   lost, orphans>>

\* An IOException of receive or send leaves the loop and closes the socket.
ServerThrows ==
    /\ ppc \in {"recv", "send"} /\ Ponger.on_error = "ends"
    /\ ppc' = "exited"
    /\ inbox' = <<>>
    /\ UNCHANGED <<pair, sigio, client, pings, pongs, queued, cur, worker, holds, nwc_hdr, lost,
                   orphans>>
-----------------------------------------------------------------------------
(* The signal-driven server *)

\* From bind to fcntl(F_SETFL), and to sigprocmask, after which SIGIO comes in
\* sigsuspend only.
SetAsync ==
    /\ ppc = "startup"
    /\ ppc' = "async"
    /\ sigio' = [sigio EXCEPT !.async = TRUE]
    /\ UNCHANGED <<pair, client, pings, pongs, inbox, queued, cur, worker, holds, nwc_hdr, lost,
                   orphans>>

\* The loop waits for a signal when the list is empty.
LoopTop(hdr) == ppc' = IF hdr = <<>> THEN "suspend" ELSE "walk"

BlockSigio ==
    /\ ppc = "async"
    /\ LoopTop(nwc_hdr)
    /\ UNCHANGED <<pair, sigio, client, pings, pongs, inbox, queued, cur, worker, holds, nwc_hdr,
                   lost, orphans>>

\* free_nwc_conn closes nwc->fd, which nothing has set: a descriptor that says
\* nothing here, or the socket with what it still holds.
free_nwc_conn(s, left) ==
    \/ sigio' = s /\ inbox' = left
    \/ sigio' = [s EXCEPT !.open = FALSE] /\ inbox' = <<>>

\* (mutant: one datagram per signal)
SigioHandlerOne ==
    /\ ppc \in {"async", "suspend"} /\ sigio.pending
    /\ inbox # <<>> /\ Len(nwc_hdr) < Datagrams
    /\ nwc_hdr' = Append(nwc_hdr, Head(inbox))
    /\ free_nwc_conn([sigio EXCEPT !.pending = FALSE], Tail(inbox))
    /\ IF ppc = "suspend" THEN LoopTop(nwc_hdr') ELSE UNCHANGED ppc
    /\ UNCHANGED <<pair, client, pings, pongs, queued, cur, worker, holds, lost, orphans>>

\* sigio_handler: everything the socket holds goes to the list, and the record
\* for what was not there is freed (bound: before BlockSigio the list too holds
\* at most Datagrams).
SigioHandler ==
    /\ ppc \in {"async", "suspend"} /\ sigio.pending
    /\ nwc_hdr' = nwc_hdr \o inbox /\ Len(nwc_hdr') <= Datagrams
    /\ free_nwc_conn([sigio EXCEPT !.pending = FALSE], <<>>)
    /\ IF ppc = "suspend" THEN LoopTop(nwc_hdr') ELSE UNCHANGED ppc
    /\ UNCHANGED <<pair, client, pings, pongs, queued, cur, worker, holds, lost, orphans>>

\* One pong, whether or not sendto succeeds, and the record is freed.
WalkSend ==
    /\ ppc = "walk"
    /\ LET c == Head(nwc_hdr)
       IN \E k \in IF sigio.open THEN Copies ELSE {0} :
            /\ Deliver([d \in {c} |-> k])
            /\ lost' = IF k = 0 THEN lost \cup {c} ELSE lost
    /\ nwc_hdr' = Tail(nwc_hdr)
    /\ LoopTop(nwc_hdr')
    /\ free_nwc_conn(sigio, inbox)
    /\ UNCHANGED <<pair, client, pings, queued, cur, worker, holds, orphans>>
-----------------------------------------------------------------------------
PingClientStep(c) == \/ PingConnect(c) \/ SendPing(c) \/ ClientSendClosed(c) \/ ClientSendTo(c)
                     \/ RecvPong(c) \/ ClientRecvEnd(c)
WorkerStep(c) == WorkerRecv(c) \/ WorkerSend(c) \/ WorkerSendClosed(c) \/ WorkerRecvEnd(c)
PingServerStep == \/ ServerAccepts \/ Fork \/ ParentCloses \/ ForkFails \/ ServerRecvFrom
                  \/ ServerSendTo \/ ServerSendToGone
                  \/ SetAsync \/ BlockSigio \/ SigioHandler \/ WalkSend

PingNext ==
    \/ \E c \in PingClients : PingClientStep(c) \/ ClientError(c) \/ WorkerStep(c) \/ WorkerError(c)
    \/ PingServerStep
    \/ AcceptError \/ ServerThrows

\* Every process is scheduled; nothing obliges a call to fail.
PingFairness ==
    /\ \A c \in PingClients : WF_pingVars(PingClientStep(c)) /\ WF_pingVars(WorkerStep(c))
    /\ WF_pingVars(PingServerStep)

PingSpec == PingInit /\ [][PingNext]_pingVars /\ PingFairness
-----------------------------------------------------------------------------
PingTypeOK ==
    /\ cpc \in [PingClients -> {"absent", "start", "send", "recv", "done", "failed"}]
    /\ ctodo \in [PingClients -> 1 .. MessageSize]
    /\ loops \in [PingClients -> 0 .. LoopCount]
    /\ pings \in [PingClients -> 0 .. PingCap]
    /\ pongs \in [PingClients -> 0 .. IF Stream THEN PingCap ELSE Datagrams]
    /\ inbox \in Seq(PingClients) /\ Len(inbox) <= Datagrams
    /\ queued \in Seq(PingClients)
    /\ ppc \in {"accept", "fork", "close", "serve", "recv", "send", "exited",
                "startup", "async", "suspend", "walk"}
    /\ sigio \in [async : BOOLEAN, pending : BOOLEAN, early : SUBSET PingClients, open : BOOLEAN]
    /\ cur \in PingClients \cup {NoClient}
    /\ wpc \in [PingClients -> {"none", "recv", "send", "exited"}]
    /\ wtodo \in [PingClients -> 0 .. PongLen]
    /\ holds \in [PingClients \cup {Parent} -> SUBSET PingClients]
    /\ nwc_hdr \in Seq(PingClients)

(* When the process that served a connection has ended and the parent is
   past its close, no other process keeps the connection open, so the client
   sees the end of the stream: a descriptor leaked into a sibling would hide
   it (worker_process and the parent's close, 03-11 nwchecker_server.c).  (With
   the types of the variables.) *)
PeerSeesTheClose ==
    /\ PingTypeOK
    /\ \A c \in PingClients :
         wpc[c] = "exited" /\ ~(ppc = "close" /\ cur = c)
             => \A p \in DOMAIN holds : c \notin holds[p]

\* c's datagram came before O_ASYNC was set, and waits for the next one's signal.
Overlooked(c) == c \in sigio.early /\ c \in Range(inbox)

\* Nobody will ever answer c: the server was told not to (--echo-mode 2, and 3
\* for a datagram server, which then has no address to send to and spins on a
\* failing sendto), a datagram of the exchange is lost, or overlooked by the
\* signal-driven server, the fork for c failed and left its descriptor open,
\* nobody accepts any more, or the datagram server has closed its socket.
Abandoned(c) ==
    \/ ~ServerWrites \/ (~Stream /\ ~ServerReads)
    \/ c \in lost \/ Overlooked(c)
    \/ c \in orphans /\ Ponger.fork_failure = "leaks"
    \/ c \in Range(queued) /\ ppc \in {"serve", "exited"}
    \/ ~Stream /\ ~DatagramsHeard

\* Both directions are full and both sides are inside send.
Clogged(c) == pings[c] = PingCap /\ pongs[c] = PingCap /\ cpc[c] = "send" /\ wpc[c] = "send"

(* A client that waits for a pong gets some part of one or the end of the
   connection, unless it has been abandoned: pings that are split, merged or
   still half in the kernel never leave both sides inside recv. *)
PingsAreAnswered ==
    \A c \in PingClients : cpc[c] = "recv" ~> cpc[c] # "recv" \/ Abandoned(c)

(* A client with a --count comes to its end, unless it is abandoned or its
   connection clogs: a server answers every recv, so a ping that arrives in
   pieces earns more pongs than the client's one recv takes, and when what is
   left fills the buffers both sides block in send. *)
SessionsEnd ==
    \A c \in PingClients :
        cpc[c] = "start" /\ ~Endless
            ~> cpc[c] \in {"done", "failed"} \/ Abandoned(c) \/ Clogged(c)
=============================================================================
