----------------------------- MODULE JavaStreams -----------------------------
(***************************************************************************)
(* The stream programs of java_netprogramming: TCPServer and TCPClient     *)
(* (a line each way), TCPServerIO and TCPClientIO (a length and a body),   *)
(* the thread-per-connection and thread-pool servers, the NIO server and   *)
(* client, and the asynchronous-channel servers and clients.               *)
(*                                                                         *)
(* A program is a record, the actions interpret it, and Init picks a pair. *)
(* A direction of a connection is the number of bytes in flight, of which  *)
(* a read returns any part; all messages of a direction have the same      *)
(* length, so a reader's place in the stream is a position modulo Len, and *)
(* an integer is a message's length exactly when it is read at position 0. *)
(* Read anywhere else it is made of the text of a message, and as a length *)
(* larger than any buffer.                                                 *)
(***************************************************************************)
EXTENDS Naturals, FiniteSets

CONSTANTS Clients,
          HDR,        \* bytes of the length (4 in the code)
          BODY,       \* bytes of the text
          Rounds,     \* requests of the clients that repeat (10 or 11)
          POOL,       \* THREAD_NUMS (20)
          RECV_BUF,   \* bytes NonblockTCPClient's buffer holds (1024)
          StreamScenarios \* [client, server, clients]

MsgLen == HDR + BODY

-----------------------------------------------------------------------------
(* The programs *)

\* reads: how a client takes an answer; rounds: how many it asks for.
TCPClient            == [reads |-> "line",   rounds |-> 1]
TCPClientIO          == [reads |-> "frame",  rounds |-> 1]
TCPClientMultiThread == [reads |-> "frame",  rounds |-> Rounds]
NonblockTCPClient    == [reads |-> "buffer", rounds |-> Rounds]
AsyncClient          == [reads |-> "any",    rounds |-> 1]
AsyncClientFuture    == [reads |-> "any",    rounds |-> Rounds]

\* serves: who deals with a connection; reads: how it takes a request.
TCPServer            == [serves |-> "one",      reads |-> "line"]
TCPServerIO          == [serves |-> "one",      reads |-> "frame"]
TCPServerPerThread   == [serves |-> "thread",   reads |-> "frame"]
TCPServerThreadPool  == [serves |-> "pool",     reads |-> "frame"]
NonblockTCPServer    == [serves |-> "selector", reads |-> "buffer"]
AsyncServer          == [serves |-> "one",      reads |-> "any"]
AsyncServerCompletionHandler == [serves |-> "handler", reads |-> "any"]

Pairs == {<<TCPClient, TCPServer>>, <<TCPClientIO, TCPServerIO>>,
          <<TCPClientMultiThread, TCPServerPerThread>>,
          <<TCPClientMultiThread, TCPServerThreadPool>>,
          <<NonblockTCPClient, NonblockTCPServer>>,
          <<AsyncClient, AsyncServer>>,
          <<AsyncClient, AsyncServerCompletionHandler>>,
          <<AsyncClientFuture, AsyncServerCompletionHandler>>}

\* A scenario is a pair and the clients that run.
Lines == {r \in [client : {p[1] : p \in Pairs}, server : {p[2] : p \in Pairs},
                 clients : SUBSET Clients] : <<r.client, r.server>> \in Pairs}

ASSUME StreamsAssumption ==
    /\ HDR \in Nat \ {0} /\ BODY \in Nat \ {0}
    /\ Rounds \in Nat \ {0} /\ POOL \in Nat \ {0}
    /\ RECV_BUF \in Nat /\ RECV_BUF > Rounds * (HDR + BODY)
    /\ StreamScenarios \subseteq Lines

-----------------------------------------------------------------------------
VARIABLES
    pair,      \* the scenario
    cpc,       \* where each client is
    left,      \* the requests it has still to make
    got, lim,  \* NonblockTCPClient: bytes in recvBuff, and its limit
    up, down,  \* bytes on the way to the server, and back
    cpos,      \* the client's position in the stream of answers
    spos,      \* the server's position in the stream of requests
    sbuf,      \* NonblockTCPServer: bytes in recvBuff not yet parsed
    spend,     \* bytes of an answer the kernel has not accepted
    op_write,  \* NonblockTCPServer: connections with OP_WRITE registered
    epc,       \* the server's end of each connection
    spc,       \* the server's accept
    split,     \* history: connections on which a read ended inside a message
    body_split \* history: of those, where the server's ended inside a body

client == <<cpc, left, got, lim, cpos>>
server == <<spos, sbuf, spend, op_write>>
wire   == <<up, down>>
streamVars == <<pair, client, server, wire, epc, spc, split, body_split>>

C == pair.client
S == pair.server

StreamInit ==
    /\ pair \in StreamScenarios
    /\ cpc = [c \in Clients |-> IF c \in pair.clients THEN "start" ELSE "absent"]
    /\ left = [c \in Clients |-> C.rounds]
    /\ got = [c \in Clients |-> 0]
    /\ lim = [c \in Clients |-> RECV_BUF]
    /\ up = [c \in Clients |-> 0]
    /\ down = [c \in Clients |-> 0]
    /\ cpos = [c \in Clients |-> 0]
    /\ spos = [c \in Clients |-> 0]
    /\ sbuf = [c \in Clients |-> 0]
    /\ spend = [c \in Clients |-> 0]
    /\ op_write = {}
    /\ epc = [c \in Clients |-> "none"]
    /\ spc = "accept"
    /\ split = {} /\ body_split = {}

Waiting(c)    == cpc[c] \in {"recv", "body", "garbage"}
ClientOpen(c) == cpc[c] = "send" \/ Waiting(c)
PeerOpen(c)   == epc[c] \in {"backlog", "queued", "read", "drain", "abandoned"}

\* A read of n bytes on c's connection that started at position p.
Read(c, p, n) ==
    split' = IF (p + n) % MsgLen # 0 THEN split \cup {c} ELSE split

-----------------------------------------------------------------------------
(* The clients *)

StreamConnect(c) ==
    /\ cpc[c] = "start"
    /\ IF spc = "exited"
       THEN cpc' = [cpc EXCEPT ![c] = "failed"] /\ UNCHANGED epc
       ELSE cpc' = [cpc EXCEPT ![c] = "send"] /\ epc' = [epc EXCEPT ![c] = "backlog"]
    /\ UNCHANGED <<pair, left, got, lim, cpos, server, wire, spc, split, body_split>>

\* A stream's write sends the whole request, the asynchronous one what the
\* kernel accepts.
Send(c) ==
    /\ cpc[c] = "send"
    /\ PeerOpen(c)
    /\ \E n \in IF C.reads = "any" THEN 1 .. MsgLen ELSE {MsgLen} :
         up' = [up EXCEPT ![c] = @ + n]
    /\ cpc' = [cpc EXCEPT ![c] = "recv"]
    /\ got' = [got EXCEPT ![c] = 0]
    /\ UNCHANGED <<pair, left, lim, cpos, server, down, epc, spc, split, body_split>>

SendClosed(c) ==
    /\ cpc[c] = "send"
    /\ ~PeerOpen(c)
    /\ \/ cpc' = [cpc EXCEPT ![c] = "recv"] /\ got' = [got EXCEPT ![c] = 0]
       \/ cpc' = [cpc EXCEPT ![c] = "failed"] /\ UNCHANGED got
    /\ UNCHANGED <<pair, left, lim, cpos, server, wire, epc, spc, split, body_split>>

FinishRound(c) ==
    /\ left' = [left EXCEPT ![c] = @ - 1]
    /\ cpc' = [cpc EXCEPT ![c] = IF left[c] = 1 THEN "done" ELSE "send"]

Take(c, n) ==
    /\ down' = [down EXCEPT ![c] = @ - n]
    /\ cpos' = [cpos EXCEPT ![c] = (@ + n) % MsgLen]
    /\ Read(c, cpos[c], n)

\* TCPClient reads byte by byte up to the end of the line.
RecvLine(c) ==
    /\ C.reads = "line" /\ cpc[c] = "recv"
    /\ down[c] >= MsgLen
    /\ Take(c, MsgLen)
    /\ FinishRound(c)
    /\ UNCHANGED <<got, lim>>

\* Of n bytes: readInt waits for the whole integer, read(byte[]) only for its
\* first byte, or for the end of the stream, whose -1 nobody looks at.  What the
\* BufferedInputStream of this round has fetched beyond is dropped with it.
FrameSizes(n, ended) == (HDR + 1 .. n) \cup {m \in {HDR} : ended /\ n = HDR}

\* A length that is made of text is a gigabyte: the array is allocated and
\* filled with what there is, or it is not and the error ends the client.
RecvFrame(c) ==
    /\ C.reads = "frame" /\ cpc[c] = "recv"
    /\ \/ /\ \E n \in FrameSizes(down[c], ~PeerOpen(c)) : Take(c, n)
          /\ FinishRound(c)
       \/ /\ down[c] >= HDR /\ cpos[c] # 0
          /\ cpc' = [cpc EXCEPT ![c] = "failed"]
          /\ UNCHANGED <<down, cpos, split, left>>
    /\ UNCHANGED <<got, lim>>

RecvAny(c) ==
    /\ C.reads = "any" /\ cpc[c] = "recv"
    /\ \E n \in 1 .. down[c] : Take(c, n)
    /\ FinishRound(c)
    /\ UNCHANGED <<got, lim>>

\* NonblockTCPClient: rbytes, the bytes of the last read alone, is compared
\* with the length's four; the flag isFlip is never set again, so after a
\* second read the body is taken from wherever the buffer stands.  rewind keeps
\* the limit the last flip has set.  A length made of text never fits.
RecvBuffer(c) ==
    /\ C.reads = "buffer"
    /\ \E n \in 1 .. down[c] :
        /\ cpc[c] = "recv" => got[c] + n <= lim[c]
        /\ Take(c, n)
        /\ \/ /\ cpc[c] = "recv" /\ n < HDR
              /\ got' = [got EXCEPT ![c] = @ + n]
              /\ UNCHANGED <<cpc, left, lim>>
           \/ /\ cpc[c] = "recv" /\ n >= HDR
              /\ LET start == (cpos[c] + MsgLen - (got[c] % MsgLen)) % MsgLen
                     have  == got[c] + n
                 IN \/ /\ start # 0
                       /\ cpc' = [cpc EXCEPT ![c] = "garbage"]
                       /\ lim' = [lim EXCEPT ![c] = RECV_BUF]
                       /\ UNCHANGED left
                    \/ /\ start = 0 /\ have < MsgLen
                       /\ cpc' = [cpc EXCEPT ![c] = "body"]
                       /\ lim' = [lim EXCEPT ![c] = RECV_BUF]
                       /\ UNCHANGED left
                    \/ /\ start = 0 /\ have >= MsgLen
                       /\ FinishRound(c)
                       /\ lim' = [lim EXCEPT ![c] = have]
              /\ UNCHANGED got
           \/ /\ cpc[c] = "body"
              /\ FinishRound(c)
              /\ UNCHANGED <<got, lim>>
           \/ /\ cpc[c] = "garbage"
              /\ UNCHANGED <<cpc, left, got, lim>>

Recv(c) ==
    /\ RecvLine(c) \/ RecvFrame(c) \/ RecvAny(c) \/ (Waiting(c) /\ RecvBuffer(c))
    /\ UNCHANGED <<pair, up, server, epc, spc, body_split>>

\* The bytes with which a read of that kind succeeds at the end of the stream.
Enough(reads) == CASE reads = "line"  -> MsgLen
                   [] reads = "frame" -> HDR
                   [] OTHER           -> 1

\* End of stream, or the reset that bytes the server left unread cause.  A line
\* ends there too, and the asynchronous clients do not look at the -1.
RecvEnd(c) ==
    /\ Waiting(c)
    /\ ~PeerOpen(c)
    /\ down[c] < Enough(C.reads) \/ up[c] > 0
    /\ cpc[c] = "recv" /\ C.reads = "buffer" => got[c] < lim[c]
    /\ \/ C.reads \in {"line", "any"} /\ FinishRound(c)
       \/ cpc' = [cpc EXCEPT ![c] = "failed"] /\ UNCHANGED left
    /\ UNCHANGED <<pair, got, lim, cpos, server, wire, epc, spc, split, body_split>>

\* An exception, or the client is stopped: the socket is closed.
ClientError(c) ==
    /\ ClientOpen(c)
    /\ cpc' = [cpc EXCEPT ![c] = "failed"]
    /\ UNCHANGED <<pair, left, got, lim, cpos, server, wire, epc, spc, split, body_split>>

-----------------------------------------------------------------------------
(* Accepting *)

Busy == {c \in Clients : epc[c] \in {"read", "drain"}}

\* The process ends, or the listening socket is closed while the threads go on.
Exit ==
    /\ spc' = "exited"
    /\ epc' = [c \in Clients |->
                 IF epc[c] = "backlog" \/ (S.serves \notin {"thread", "pool"} /\ PeerOpen(c))
                 THEN "closed" ELSE epc[c]]

Accept(c) ==
    /\ spc = "accept"
    /\ epc[c] = "backlog"
    /\ epc' = [epc EXCEPT ![c] = IF S.serves = "pool" THEN "queued" ELSE "read"]
    /\ spc' = IF S.serves = "one" THEN "serve" ELSE "accept"
    /\ UNCHANGED <<pair, client, server, wire, split, body_split>>

\* An error of accept; the completion handler's failed() does nothing, so no
\* accept is pending any more.
AcceptFails ==
    /\ spc = "accept"
    /\ IF S.serves = "handler" THEN spc' = "deaf" /\ UNCHANGED epc ELSE Exit
    /\ UNCHANGED <<pair, client, server, wire, split, body_split>>

\* AsyncServer waits ten seconds for its connection; the main thread of the
\* completion handler sleeps for 1000 seconds and takes the process with it.
ServerTimesOut ==
    /\ \/ S = AsyncServer /\ spc = "accept"
       \/ S.serves = "handler" /\ spc # "exited"
    /\ Exit
    /\ UNCHANGED <<pair, client, server, wire, split, body_split>>

\* (mutant: a task of the pool never gives its thread back)
PoolStartsOnce(c) ==
    /\ epc[c] = "queued"
    /\ Cardinality({d \in Clients : epc[d] \in {"read", "closed"}}) < POOL
    /\ epc' = [epc EXCEPT ![c] = "read"]
    /\ UNCHANGED <<pair, client, server, wire, spc, split, body_split>>

PoolStarts(c) ==
    /\ epc[c] = "queued"
    /\ Cardinality(Busy) < POOL
    /\ epc' = [epc EXCEPT ![c] = "read"]
    /\ UNCHANGED <<pair, client, server, wire, spc, split, body_split>>

-----------------------------------------------------------------------------
(* Serving *)

Fetch(c, n) ==
    /\ up' = [up EXCEPT ![c] = @ - n]
    /\ spos' = [spos EXCEPT ![c] = (@ + n) % MsgLen]
    /\ Read(c, spos[c], n)
    /\ body_split' = IF (spos[c] + n) % MsgLen >= HDR THEN body_split \cup {c} ELSE body_split

\* n bytes of an answer; a client that has gone does not take them.
Answer(c, n) == down' = IF ClientOpen(c) THEN [down EXCEPT ![c] = @ + n] ELSE down

CloseAndExit(c) ==
    /\ spc' = "exited"
    /\ epc' = [d \in Clients |-> IF d = c \/ PeerOpen(d) THEN "closed" ELSE epc[d]]

\* The servers of one connection: one request, one answer (AsyncServer gives
\* back the bytes it has read), then everything is closed.
ServeOne(c) ==
    /\ S.serves = "one" /\ epc[c] = "read"
    /\ \/ S.reads = "line"  /\ up[c] >= MsgLen /\ Fetch(c, MsgLen) /\ Answer(c, MsgLen)
       \/ S.reads = "frame" /\ \E n \in FrameSizes(up[c], ~ClientOpen(c)) : Fetch(c, n) /\ Answer(c, MsgLen)
       \/ S.reads = "any"   /\ \E n \in 1 .. up[c] : Fetch(c, n) /\ Answer(c, n)
    /\ CloseAndExit(c)
    /\ UNCHANGED <<sbuf, spend, op_write>>

\* A thread's round.
ServeThread(c) ==
    /\ S.serves \in {"thread", "pool"} /\ epc[c] = "read"
    /\ \/ /\ \E n \in FrameSizes(up[c], ~ClientOpen(c)) : Fetch(c, n)
          /\ Answer(c, MsgLen)
          /\ \/ UNCHANGED epc
             \/ ~ClientOpen(c) /\ epc' = [epc EXCEPT ![c] = "closed"]
       \/ /\ up[c] >= HDR /\ spos[c] # 0
          /\ epc' = [epc EXCEPT ![c] = "closed"]
          /\ UNCHANGED <<up, down, spos, split, body_split>>
    /\ UNCHANGED <<sbuf, spend, op_write, spc>>

\* recvData's loop over b bytes that start at position p: what is left of them.
\* Whole messages are taken; a length whose body is not complete is taken too,
\* and not put back.
Unparsed(p, b) == IF p = 0 THEN b % MsgLen ELSE b

\* (mutant: the test for an incomplete length is missing)
ParseShortLength(p, b) ==
    IF Unparsed(p, b) < HDR THEN 0 ELSE Unparsed(p, b) - HDR

Parse(p, b) ==
    IF Unparsed(p, b) < HDR THEN Unparsed(p, b) ELSE Unparsed(p, b) - HDR

\* The parser's own position, behind the bytes it has not looked at.
ParsePos(c) == (spos[c] + MsgLen - (sbuf[c] % MsgLen)) % MsgLen

\* sendData: a new answer when canSend, else what is left of the last one; with
\* something left OP_WRITE joins the registered operations ops.
SendData(c, ops) ==
    LET total == IF spend[c] = 0 THEN MsgLen ELSE spend[c]
    IN \E n \in 0 .. total :
        /\ ~ClientOpen(c) => n = total
        /\ Answer(c, n)
        /\ spend' = [spend EXCEPT ![c] = total - n]
        /\ op_write' = IF n < total THEN ops \cup {c} ELSE ops

\* A key is readable: recvData, then sendData whatever has been read.  When it
\* sends all that was left OP_WRITE stays registered, and the next writable
\* event sends an answer nobody has asked for.
ServeReadable(c) ==
    /\ S.serves = "selector" /\ epc[c] = "read"
    /\ \E n \in 1 .. up[c] :
        /\ Fetch(c, n)
        /\ sbuf' = [sbuf EXCEPT ![c] = Parse(ParsePos(c), @ + n)]
    /\ SendData(c, op_write)
    /\ UNCHANGED <<epc, spc>>

\* (mutant: OP_WRITE is not cancelled before the write)
ServeWritableAgain(c) ==
    /\ S.serves = "selector" /\ epc[c] = "read"
    /\ c \in op_write
    /\ SendData(c, op_write)
    /\ UNCHANGED <<up, spos, sbuf, epc, spc, split, body_split>>

ServeWritable(c) ==
    /\ S.serves = "selector" /\ epc[c] = "read"
    /\ c \in op_write
    /\ SendData(c, op_write \ {c})
    /\ UNCHANGED <<up, spos, sbuf, epc, spc, split, body_split>>

\* A read of the completion handler: the answer is written at once or stays
\* pending, and the next read is started.  A write while one is pending throws
\* WritePendingException out of completed(): no read follows.
ServeCompletion(c) ==
    /\ S.serves = "handler" /\ epc[c] = "read"
    /\ \E n \in 1 .. up[c] : Fetch(c, n)
    /\ \/ spend[c] > 0 /\ epc' = [epc EXCEPT ![c] = "abandoned"] /\ UNCHANGED <<down, spend>>
       \/ spend[c] = 0 /\ UNCHANGED <<epc, spend>> /\ \E n \in 1 .. MsgLen : Answer(c, n)
       \/ spend[c] = 0 /\ UNCHANGED <<epc, down>> /\ spend' = [spend EXCEPT ![c] = MsgLen]
    /\ UNCHANGED <<sbuf, op_write, spc>>

\* A pending write completes with what the kernel accepts; nobody sends the rest.
WriteCompletes(c) ==
    /\ S.serves = "handler" /\ PeerOpen(c)
    /\ spend[c] > 0
    /\ \E n \in 1 .. spend[c] : Answer(c, n)
    /\ spend' = [spend EXCEPT ![c] = 0]
    /\ UNCHANGED <<up, spos, sbuf, op_write, epc, spc, split, body_split>>

\* The client has gone: end of stream, or a reset when it left bytes unread.
\* The completion handler takes -1 for a message and answers it; the failure of
\* a later write closes the connection.
SeesEnd(c) ==
    /\ epc[c] \in {"read", "drain"}
    /\ ~ClientOpen(c)
    /\ up[c] < Enough(S.reads) \/ down[c] > 0
    /\ \/ S.serves = "one" /\ CloseAndExit(c)
       \/ S.serves = "handler" /\ epc[c] = "read"
          /\ epc' = [epc EXCEPT ![c] = IF spend[c] = 0 THEN "drain" ELSE "abandoned"]
          /\ UNCHANGED spc
       \/ S.serves # "one" /\ epc' = [epc EXCEPT ![c] = "closed"] /\ UNCHANGED spc
    /\ op_write' = op_write \ {c}
    /\ UNCHANGED <<up, down, spos, sbuf, spend, split, body_split>>

Serve(c) ==
    /\ \/ ServeOne(c) \/ ServeThread(c) \/ ServeReadable(c) \/ ServeWritable(c)
       \/ ServeCompletion(c) \/ WriteCompletes(c) \/ SeesEnd(c)
    /\ UNCHANGED <<pair, client>>

-----------------------------------------------------------------------------
ClientStep(c) == StreamConnect(c) \/ Send(c) \/ SendClosed(c) \/ Recv(c) \/ RecvEnd(c)
ServerStep(c) == Accept(c) \/ PoolStarts(c) \/ Serve(c)

StreamNext ==
    \/ \E c \in Clients : ClientStep(c) \/ ServerStep(c) \/ ClientError(c)
    \/ AcceptFails
    \/ ServerTimesOut

\* Every thread runs, a selector's loop and the channel group come round to
\* every connection, and the kernel makes room for what is to be written.
\* Nothing has to fail or to time out.
StreamFairness == \A c \in Clients :
    /\ WF_streamVars(ClientStep(c)) /\ WF_streamVars(ServerStep(c))
    /\ WF_streamVars((ServeWritable(c) /\ spend'[c] = 0) /\ UNCHANGED <<pair, client>>)

StreamSpec == StreamInit /\ [][StreamNext]_streamVars /\ StreamFairness

-----------------------------------------------------------------------------
StreamTypeOK ==
    /\ pair \in StreamScenarios
    /\ cpc \in [Clients -> {"absent", "start", "send", "recv", "body", "garbage",
                            "done", "failed"}]
    /\ left \in [Clients -> 0 .. Rounds]
    /\ got \in [Clients -> 0 .. RECV_BUF] /\ lim \in [Clients -> MsgLen .. RECV_BUF]
    /\ up \in [Clients -> 0 .. Rounds * MsgLen]
    /\ down \in [Clients -> Nat]
    /\ cpos \in [Clients -> 0 .. MsgLen - 1] /\ spos \in [Clients -> 0 .. MsgLen - 1]
    /\ sbuf \in [Clients -> 0 .. Rounds * MsgLen]
    /\ spend \in [Clients -> 0 .. MsgLen] /\ op_write \subseteq Clients
    /\ epc \in [Clients -> {"none", "backlog", "queued", "read", "drain", "abandoned",
                            "closed"}]
    /\ spc \in {"accept", "serve", "deaf", "exited"}
    /\ split \subseteq Clients /\ body_split \subseteq split

(* As long as no read has ended inside a message, a round leaves nothing
   behind: when the next request is due no byte is on its way, none waits in a
   buffer, both readers stand between two messages, and the selector does not
   wait for a chance to write.  (A stale OP_WRITE earns one answer too many, and
   the programs match answers to requests by their order alone.  It takes a read
   that ended inside a message: a rest of an answer is then sent by the readable
   branch.  With the types of the variables.) *)
RoundLeavesNothing ==
    /\ StreamTypeOK
    /\ \A c \in Clients \ split :
         cpc[c] = "send" /\ PeerOpen(c) =>
             /\ up[c] = 0 /\ down[c] = 0 /\ sbuf[c] = 0 /\ spend[c] = 0
             /\ spos[c] = 0 /\ cpos[c] = 0 /\ c \notin op_write

(* recvData of the NIO server finds the boundaries of the messages whatever
   the reads return, except that a read which ends inside a body costs it the
   length it has already taken out of the buffer. *)
ParserKeepsStep ==
    \A c \in Clients :
        S.serves = "selector" /\ ParsePos(c) # 0 => c \in body_split

\* c's connection may be out of step: a read ended inside a message, and one of
\* the programs looks for lengths or may have a write pending.
OutOfStep(c) == c \in split /\ (S.reads \in {"frame", "buffer"} \/ S.serves = "handler")

(* Every client comes to its end, whatever TCP does to a line, and the other
   programs' as long as no read ends inside a message; a connection of the pool
   also waits for those before it, and nobody takes a connection after the
   completion handler's accept has failed. *)
SessionsEnd ==
    \A c \in Clients :
        cpc[c] = "start" ~>
            \/ cpc[c] \in {"done", "failed"}
            \/ OutOfStep(c)
            \/ epc[c] = "queued" /\ \E d \in Clients : OutOfStep(d)
            \/ epc[c] = "backlog" /\ spc = "deaf"
=============================================================================
