# A verification project for the course's network programs

The repository is the code of a course on network programming.  It is not one
program but a series: the lessons `02-02` to `04-24` grow a ping/pong pair
(`nwchecker`) from a blocking TCP client and server into select, epoll,
WSAEventSelect and multi-process servers, `04-25` is a Windows IOCP server, `04-26` a
multicast pair, `04-30_nwchecker_refactor` a program of its own size (an event
loop with handlers, workers, connections and a measurement protocol), and
`java_netprogramming` repeats the subject in Java.

The modules beside this file model the programs that have a state to get wrong,
TLC checks them on small instances, and TLAPS proves every safety invariant of
every module for every value of its constants.
`PROJECT.json` holds the tables: which definition stands for which lines, which
run checks which property, which change of the code each property notices, and
which hazard each property is there for.

## 1. The system

### 1.1 Components

| component | code | state it keeps | operations | module |
|---|---|---|---|---|
| event loop | `04-30` `nwc_epoll_looper.c`, `nwc_looper.c` | epoll entries, the list of removed entries, the batch | add / remove handler, register / cancel event, run | `NwcEpollLooper` |
| workers | `04-30` `nwc_looper.c`, `list.h`, `nwc_connection.c` | two linked lists, the handles in a connection | register, dispatch, cancel, delete removed | `NwcWorkers` |
| TCP stream | `04-30` `nwc_tcp_handler.c`, `nwc_connection.c` | `recv_buff`/`rbytes`, `can_send`, the socket's buffers | on_send, on_recv, send with EAGAIN and short counts (client), blocking send (server) | `NwcTcpStream` |
| QoS protocol | `04-30` `nwc_qos_protocol.c`, parts of `nwc_connection.c` | `sent_queue`, `rtt`, counters, the clock | create package, process package, stat | `NwcQos` |
| multi-process server | `04-23`, `04-24` `nwchecker_server_multiprocess.c` | worker contexts, socketpairs, descriptor lists, the index | fork, accept, pass a descriptor, signal, exit, wait | `MultiProcess`, implements `DescriptorHandover` |
| blocking clients and servers | `02-02` .. `04-24`, TCP, UDP, UNIX stream and datagram | counters of a session, descriptors of parent and children, list of known clients | connect, accept, fork, send, recv, close | `PingPong` |
| readiness servers and their clients | select `03-18` .. `04-24`, epoll `03-19` .. `04-24`, WSAEventSelect `03-21` | connection table, interest notes, registrations, the scan | wait, accept, serve, park, close | `EventServers` |
| IOCP server | `04-25` | connection lists, `pending_ops`, operation blocks | accept, read, write completions; failures; the free pass | `NwcsIocp` |
| UDP handler of `04-30` | `nwc_udp_handler.c` | one socket, one connection | listen, connect, accept, recv, send | in the loop: `NwcEpollLooper`; bursts and the network: `NwcQos` |
| set-up of `04-30` | `nwc.c`, `nwc_main.c`, `nwc_configuration.c`, `nwc_sock.c`, ... | the configuration | start order, parsing, address conversion | no: its outcomes are initial states |
| signal-driven UDP server | `04-24` `sigio_udp_server.c` | the list of received datagrams, shared with the SIGIO handler | handler, main loop, sigsuspend | `PingPong` |
| multicast time server and client | `04-26` | membership of the group | request and answer to the group | `PingPong` |
| Java network framework | `network/` | event queues, selection keys, socket states, the pool's index | post, poll, handle, stop | `JavaNetwork` |
| Java stream programs | `tcp/`, `tcpio/`, `multithreadserver/`, `nonblock/`, `asynchronous/` | partially read messages, pending writes, the pool's queue | connect, read, write, complete | `JavaStreams` |
| Java datagram programs | `udp/`, `udpio/` | none | send, receive | `PingPong` |
| demonstrations | the rest | none | straight-line code | no |

### 1.2 How they interact

In `04-30` one thread runs everything.  `nwc_epoll_run` dispatches the workers,
waits, and calls `handle_input` / `handle_output` of the handlers through the
entry pointer epoll gives back.  A handler's callback calls the connection
(`on_recv`, `on_connect`), the connection calls back into the loop (register
worker, remove handler) while the loop is in the middle of its list or its batch.
So nothing is preempted, and yet every structure the loop walks can change under
it: this re-entrancy is what `NwcEpollLooper` and `NwcWorkers` are about.  The
connection hands packages to the QoS protocol, which stamps and matches them;
two peers meet in the network only.

In the multi-process server the master and its workers share the socketpairs and
nothing else; the master's signal handler shares the master's variables.  In the
lessons a client and a server share two directions of a kernel buffer, and the
forking servers a set of descriptors that fork copies.  In the IOCP server one
thread shares the completion port, and the memory of posted operations, with the
kernel.  In the Java framework the application's threads post events to the queues of
the pool's threads, and change keys of the selectors those threads sleep in.

### 1.3 What is hard, and what being correct means

* **Re-entrant callbacks** (event loop, workers).  An event of a batch must not
  be dispatched through an entry that was freed or has changed hands; a walk must
  not be led off its list; what is removed must be freed, once.
* **Streams and datagrams** (TCP stream, QoS, blocking programs).  `recv` cuts a
  stream anywhere, `send` may take a part, UDP loses, duplicates and reorders:
  packages must be reassembled and counted once, a waiting client must hear of its
  server.
* **Processes and signals** (multi-process, forking servers).  A descriptor has
  one owner; a signal may arrive between any two statements; forks fail; workers
  die; the exit must complete and leave nobody behind.
* **Readiness and interest** (select, epoll, WSA).  Interest that is not
  withdrawn or not registered leaves a connection spinning or deaf; an event that
  is dropped must be reported again.
* **Life of what the kernel still uses** (IOCP).  Memory with an operation in
  flight must not be freed, and must be freed when there is none.
* **Threads and selectors** (Java framework).  A thread asleep in its selector must
  hear of what another thread posted, registered or stopped; one callback's exception
  ends a thread that serves many connections.
* **Clocks** (QoS).  Unsigned differences of clocks wrap.

The full list, at the lines where each hazard bites, is under `hazards` in
`PROJECT.json`, with the properties that would catch it or the reason why none does.

## 2. The models and the code

Conventions.  Names are the code's where TLA+ allows it.  One action is one
stretch of code nothing else can observe the middle of: a callback in the
single-threaded loops, a statement group between two system calls in the
programs that share something.  Numbers of bytes are counted in units.  Actions
and operators marked `(mutant: ...)` are not part of a model: each is a plausible
bug, defined beside the operator it would replace, and shows that the property
named in `PROJECT.json` notices it.

### 2.1 `NwcEpollLooper`, with `EventDelivery`

`pc` is where `nwc_epoll_run` stands: dispatching workers, waiting, in the batch,
returned, exited.  A handler (`state`) is one `malloc` of a `nwc_tcp_handler`, used
once; an entry is an address `malloc` may return again, so that a freed entry can
become another handler's: `heap`, `fd`, `mask`, `eh` are its memory.  `ev_list` are
the bits of the batch not yet looked at, `cur` the entry whose turn it is: the
three tests (hang-up, input, output, each behind `entry->fd != INVALID_HANDLE`) are
three separate steps.  `AddHandler` fails or takes any free address;
`CloseConnection` is `nwc_connection_close` with everything below it.  What the
kernel reports, and whether a call fails, is chosen freely within the registered
masks.  A UDP server is a root in state `UDP_SERVER`, whose `handle_input` accepts its one
connection with the first datagram and closes nothing; a UDP client is a root that is
connected from the start.

`EventDelivery` is the promise without the mechanism: handlers are fresh, open or
neither, and a poll raises events that are delivered to the open handler they were
raised for, in order, or dropped with it.  The loop implements it with the map
"an event is due to a handler while it stands in `ev_list` under the entry of that
handler" (`ImplementsDelivery`).  Deferred freeing, the list of removed entries and
the tests of `fd` are what makes the map work.

### 2.2 `NwcWorkers`

The two lists of `struct nwc_looper` with their `next` and `prev` pointers,
`list_add_tail` and `list_del` as functions on the pair of pointer maps, the walk
with its two variables `pos` and `n` (`list_for_each_safe`).  Send workers cancel
themselves *and their connection's stat worker* from inside the walk.  The walk
survives because the stat worker stands directly before the send worker: the saved
`n` is never one of the two.  That ordering is nowhere stated in the code;
registering them the other way round breaks `WalkStaysOnList`.

### 2.3 `NwcTcpStream`

A unit is a header or a part of a payload; a package is its units, numbered.
`wire` is what the kernel holds towards each side, `kernel_cap` its capacity.
The two sockets are not alike.  The client's does not block: `SendPackage` sends all, a part, or
meets EAGAIN, and forgets what was not sent, as `nwc_tcp_handler_send` and
`nwc_connection_on_send` do.  The server's comes from `accept` (`nwc_tcp_handler.c:188`), which
makes a blocking one, and nothing changes that: its `send` of an acknowledgement returns when the
kernel has taken all of it, and until then (`pc` is `"ack"`) the server does nothing else.  `Recv`
takes any part of what has arrived; the parse loop consumes packages whose announced length is there.
With a full `recv_buff`, `recv` is asked for 0 bytes and the connection is closed (`RecvNothing`).

When a torn package leaves payload where a header should be, the announced length is any number
(`Announced`), and the `uint32_t` sum `qos_hdr_len + pkg->length` may wrap (`SumWraps`).  Then the parser
leaves `recv_buff` (`ServerWild`): what it reads is undefined, and the model lets it stay there for ever, crash, or
come back with any rest of a buffer; `wild` remembers it.

`accepted`, `handled` and `packages` are histories: what was sent to a side, what that side has
processed, and the pieces it took for packages, as it cut them
out of `recv_buff`.  `StreamIntact` says that `handled`, `recv_buff` and `wire` together always are `accepted`,
torn packages included until a sum has wrapped, `TornOnlyByACut` that the pieces are the packages that were
sent, in order, while no send was cut short, that `recv` has room until then and that no sum wraps.

### 2.4 `NwcQos`

`Clock` is `nwc_qos_milisecs`, microseconds added to milliseconds included, modulo
2^32 (`Width`).  Subtractions are modulo `Width`, `AsInt` is the conversion to `int`.
`rtt`, a double smoothed by 7/8 and 1/8, is any number between its old value and
the sample.  `sent_queue` is the set of the packages in it: they are queued at its end and numbered as they
are made, so the first of those with a timestamp is the one with the smallest number (`First`).  The network keeps packages and acknowledgements for the delays its
environment allows; over UDP it loses packages, repeats acknowledgements, and
delivers out of order; a `sendto` that meets EAGAIN ends the burst and, unlike TCP's,
leaves `can_send` alone (`UdpBursts`).  The server takes at most `max_hold`.  `SlowNetworkNeverMeasured` is
claimed while the clock tells times apart (`ClockTells`): what is under way may not be as old as the 0.999
seconds after which the clock repeats a value (an old answer would then be taken for a young package's), and the machine
not up for the 49.7 days after which it shows 0 and `nwc_qos_stat` takes its own last run for "never".

### 2.5 `MultiProcess`

Process `N` is the master.  `get_worker` is two actions (`GetWorkerMod`,
`GetWorkerInc`) because a signal may come between its statements; `send_cmd` calls
it a second time (`mod2`, `inc2`).  A socketpair is a queue of commands; a descriptor
in a queue is owned by the queue.  An index past the array reads whatever the build
put there, which `SendFd` leaves open.  `FD_ISSET(-1)` is the descriptor `AliasFd`.
`waitpid` with pid 0 or -1 waits for any child, as it does for workers that were never
forked.  The master's signal handler writes to the master's own socketpair, whose reader it has
interrupted: with the queue full it stays in the handler (`pc` is `"stuck"`).

`DescriptorHandover` is the promise without socketpairs, descriptor numbers and the index: a connection
is accepted, sent to one process and served by it to its end, and a process that leaves its loop ends
what it serves and what was sent to it, and nothing else.  `Stage` and `Owner` are the refinement
mapping: a connection is accepted while the master holds its descriptor, sent while its descriptor is
in a queue, served while it is in a list.

### 2.6 `PingPong`

The lessons copy one program with small changes, so a program is a record of how
it differs (what one `recv` may take, which options it honours, what a failed fork
does, whether children keep the listening socket) and one set of actions interprets
it.  `on_error` says whether a failing call ends the server: the C datagram servers go on, the Java
ones have their `try` around the loop, so that one `IOException` ends them (`ServerThrows`).
`PingPrograms` lists each lesson's pairs; a scenario (`PingLines`) adds the command line.
Streams are byte counts of which `recv` takes any part; datagrams are queued, and
over UDP sent 0, 1 or 2 times.  `pings` and `pongs` are what is under way on a connection, `ppc` is where
the server process stands.  (Names that `EventServers` has too begin with `Ping` or differ here, because the
module of the proofs extends both.)  `holds` is which process has which connection open:
fork copies it, and the end of the stream is seen when nobody holds it.

The signal-driven server of `04-24` uses the same clients and datagrams: `sigio` is whether
`O_ASYNC` is set and a signal pending, and `sigio.early` remembers whose datagram came before
it was.  The handler empties the socket into `nwc_hdr`, which the loop walks with SIGIO blocked.
Every record is freed by `free_nwc_conn`, which closes `nwc->fd`, a field nothing has set: a number that
says nothing, or the server's own socket (`sigio.open`).
In the multicast pair of `04-26` a datagram goes to the server and to every `Members` of the
group but its sender, so that a client may take another's request, or the answer to it, for its
own; the two programs bind the same port and run on hosts of their own.  A client that has lost
its datagram waits without a timeout, in all of these.

Which files are the same program (read with `diff`; only the copy named first is
described above):

| program | copies |
|---|---|
| TCP client and forking server | `03-11`, `03-12`, `03-13` |
| UDP client and server | `03-12`, `03-13`, `03-18`, `03-19`, `04-23`, `04-24` |
| UNIX datagram client and server | `03-13`, `03-18`, `03-19`, `04-23`, `04-24` |
| forking UNIX stream server and its client | `03-13`, `03-18` |
| select server and polling client | `03-18`; `03-19`, `04-23` and `04-24` differ from it in an EINTR `continue` only |
| epoll UNIX stream server and its client | `03-19`, `04-23`, `04-24` |
| multi-process server | `04-23`, `04-24` |

### 2.7 `EventServers`

One loop (wait, accept, serve what is ready, wait again) and records that say how
select, epoll and WSAEventSelect servers differ: whom a wakeup serves, in which
order, what a failing accept or recv does, whether a send that would block is
parked.  `wants` is the program's note that a connection waits to write, `pollout`
what the kernel was told; in the select server they are the same thing, in the
epoll server they are not, because `ev.data.fd = newfd` leaves the upper half of
the local `ev.data` as the last `EPOLL_CTL_MOD`, or the stack, left it (`stale`,
`run.garbage`).  In the WSA server `FD_ACCEPT` is reset by looking at it (`deaf`).
`table` keeps closed connections in their place; a scan visits, and a limit counts, only those that are not
closed (`Watched`), which is what dropping them at the top of the loop, or compacting the WSA arrays, comes to.

### 2.8 `NwcsIocp`

A turn of `nwcs_run_loop` is one action, each completion of the kernel another; `port`
is the completion queue.  A completion is `live` unless its operation block was freed
already.  `nwcs_iocp_open` does not look at whether the first accept was posted, so there are initial states
without it.  `pending_ops` is whatever `malloc` left (`Births`) plus what is counted;
`list` is which of the lists, or freed.  `broken` means the program has touched freed
memory: nothing is claimed of what follows.

### 2.9 `JavaStreams`

As in `PingPong` a program is a record: how a client takes an answer (a line, a length and a
body, whatever the buffer holds, whatever one read returns) and who serves a connection (the
accepting thread, a thread of its own, a pool's, a selector loop, completion handlers).  All
messages of a direction have one length, so a reader's place in the stream is a position
modulo that length, and an `int` read anywhere but at position 0 is text taken for a length.
`split` and `body_split` are histories: connections on which a read ended inside a message,
and inside a body.  `Parse` is `recvData`'s loop over its buffer, which takes the length out
before it knows that the body is complete.  `spend` is what is left of an answer.  The NIO server registers
`OP_WRITE` for it (`op_write`) and withdraws it in the writable branch alone, before the write: when the answer to a
readable event has flushed the rest, `OP_WRITE` is still registered, and the next writable event sends a whole
answer that nobody has asked for.  A second write while one is pending throws in the
completion handler, and the connection is then never read again (`"abandoned"`).  `epc` is where the
server's end of a connection stands.

### 2.10 `JavaNetwork`

The application is not in the repository, so users are threads that call what the framework
offers: `getIOThread`, whose accesses to `cur_index` are actions of their own; then `start` of an Acceptor, which
posts an event and wakes the thread, or `connect`, which registers a key and does not, or has connected
at once and registers nothing.  Each
thread's `Worker` checks `stop_`, dispatches its events, selects and handles the keys one by one.
`interest` is what a key asks for, `seen` what the selector knew when it went to sleep; `wake` is the
wakeup `Selector` remembers.  A connection that its peer has reset (`reset`) is ready for all its key is interested in,
`OP_CONNECT` included, which nothing withdraws: `poll` takes it for connectable, and it is never read again.

Callbacks do what an adapter may: write, return no adapter from `onAccept`, close their handler or another's, also one
that is still among the selected keys (`misused`).  `SocketHandler.close` throws where `sk_` or `sc_` is null, for a connection
made at once and for an Acceptor, and takes the thread along (`CloseThrows`, `thrown`); in a thread of the application's own it
does not (`AppCloses`).  An Acceptor that is stopped may be started again (`AcceptorRestart`): its `sk_` is still the old
key, and if that is cancelled `process` throws through the Worker (`DispatchListener`).  `destroy` stops the
threads one after the other and joins each.

## 3. The runs

Twelve runs: ten pass, two exhibit a disagreement between the code and what the
repository says of it.  The type invariant of a module is a conjunct of the first safety
invariant its run checks (`EntriesOwned`, `ListsWellFormed`, `StreamIntact`, `Accounting`, `OneOwner`,
`PeerSeesTheClose`, `MutedByAFullBuffer`, `FreedIsUnused`, `RoundLeavesNothing`, `PoolHandsOut`).

| run | instance | what it shows |
|---|---|---|
| `loop` | 3 handlers, 3 reusable entry addresses; a listener, a UDP server, a connecting and a connected root | entries are owned exactly once, batches read live entries and reach the handler they were raised for, write interest means connecting, removed entries are freed, the loop implements `EventDelivery` |
| `workers` | 2 connections, 4 worker addresses | lists stay well formed while callbacks unlink, the walk stays on its list, no worker outlives its connection, cancelled workers are freed |
| `stream` | 4 packages of 3 units, acknowledgements of 2, receive buffer of 4, kernel buffers that are ample, tight towards the server, or hold one acknowledgement | the reassembly neither loses, repeats nor moves a unit until a torn length makes the sum wrap; header and payload belong together, and recv never asks for zero bytes, until a send is cut short; everything is acknowledged, blocking send or not, unless the client met a full buffer; both sides come back to their loop, unless the parser has run wild |
| `qos` | 4 packages, 6 ticks, five networks (TCP and UDP, fast and slow, inside a second and across its end), bursts that EAGAIN cuts | every package is waiting, matched or lost, exactly one of them; the measured round trip is plausible inside a second; a slow network is never measured |
| `qos_second` | the same | violation: the delay reported at the end of a second wraps |
| `multiprocess` | 2 workers, 3 connections, 3 signals, queues of 2, failing forks and socketpairs | every accepted descriptor has one owner, no worker is orphaned, the out-of-range worker is used while stopping only, workers do not die early, each connection goes to one process and is served there to its end (`ImplementsHandover`), the exit completes unless more signals come than the master's own queue holds |
| `multiprocess_roundrobin` | 4 workers, 2 connections, no failure | violation: the index advances twice per connection |
| `pingpong` | every lesson's pair, the signal-driven and the multicast server and the Java datagram programs, 1 and 2 clients, echo modes, counts, slots, a message larger than the buffer | the end of a served connection is seen; a waiting client hears from its server or was abandoned for a named reason (a Java server that has met an exception is one); counted sessions end unless both buffers clog |
| `servers` | 41 scenarios of the select, epoll and WSA servers, 1 and 2 clients, whole and split pings, clean and dirty stacks, full tables, one fault | nobody starves; a waiting client is answered unless muted by the stale half of `ev.data` or never accepted; muting needs a dirty stack, a large message, or as many failed recvs as the buffer holds pongs |
| `iocp` | 2 connections, one message each, one fault, `pending_ops` born -9, 0 or 9 | a freed connection has nothing in flight; an accept stays posted until one fails; deleted connections are freed unless a failed completion or the heap spoiled their count |
| `java_streams` | 8 pairs of programs, 1 client, and 2 where one waits for the other; messages of 2 + 2 bytes, 2 rounds, a pool of 1 | as long as no read ends inside a message a round leaves nothing behind and the sessions end; the NIO server's parser loses its place only after a read that ended inside a body |
| `java_network` | six scenarios of 1 and 2 users and threads, an acceptor, a connector or both, up to four actions of the peers, with and without `destroy` | overlapping calls alone spoil the pool's index; threads die by named misuse of the interface only; waiting peers are dealt with unless the thread sleeps through a `connect`, or cannot hear of them at all (`Unheard`); `destroy` returns; idle threads sleep, except with a connection made by `connect` |

### 3.1 Bounds, and why they are enough

* `loop`: the hazard needs an entry that is closed by another handler's callback of
  the same batch and an accept in between that could take its address: three handlers
  and as many addresses as handlers.  Handlers are used once, entries again and again.
* `workers`: a callback can disturb the walk through the node it removes, that node's
  sibling and the successor: two connections with two workers each.
* `stream`: four packages fill the tight buffers, leave a rest in the receive buffer,
  and have it completed; the receive buffer is smaller than two packages, so a rest is
  moved to the front; it is one unit larger than a package, so that the rest of a torn one can fill it
  while more is on its way.
* `qos`: a second has eight ticks and a run six, so runs fit in a second or straddle its
  end; the burst and the period make two batches of packages whose stamps may coincide.
* `multiprocess`: two workers make "the next one" and "past the end" different; three signals
  are one more than a queue of two holds, so that the master's own queue fills and it blocks in its
  handler.  The round-robin run needs four workers, because
  with two the doubled step is a step back to the same worker.
* `pingpong`: a message of 6 in a buffer of 4 is one that `send` must split and
  that lets surplus pongs fill the other direction; two datagrams are the smallest queue
  that can hold a duplicate, and let a client of the multicast group receive another's
  request before its answer.
* `servers`: a buffer of two pongs is the smallest that lets a connection be both half full
  and full; an array for one or for both clients is full or not.
* `iocp`: one message and one close give the three outcomes of a posted read (pending,
  done, end of stream); +9 and -9 are values the few operations of a run cannot cancel.
* `java_streams`: a length of two bytes can be cut in the middle, and so can a body of two; the
  second round is the one in which a reader that lost its place reads text for a length; a pool of
  one thread is full with one connection.
* `java_network`: two users are what it takes for two calls of `getIOThread` to overlap and for two
  handlers to share a thread; a peer that connects, sends and closes or resets takes three of the four actions.
  An Acceptor and a connector that share a thread have two actions of their peers, without `destroy`; `destroy` with
  two handlers, and the two threads, are checked without traffic, or with one action: they are about the pool
  and the stop.  An Acceptor is started again once.

### 3.2 Fairness

A process, a thread and the kernel's completion of a posted operation are weakly fair:
they are scheduled by something that does not starve them.  Nothing obliges a client to
connect, a call to fail, or a signal to come.  In the Java framework the users, each thread's
`Worker` and the caller of `destroy` are weakly fair, peers and what an adapter does in a callback are not.
The answer a Java NIO server has begun is also finished (a weak fairness condition on the write that
leaves nothing), for the kernel goes on making room.  Two assumptions are strong: in the event
loop and in the worker lists not every `epoll_wait` is interrupted (`SF`), for the wait has
a timeout of 50 ms and no signal is sent periodically; without it the reclaim that an
interrupted round skips could be skipped for ever.  `CHECK_DEADLOCK FALSE` is set
wherever the programs can come to an end or the bounded clients have nothing left to say;
`workers` has no such end and is checked for deadlock.

## 4. What the code does and does not do

Two disagreements with the repository's own words are runs of their own:

* **A clock that goes backwards** (`qos_second`; `nwc_qos_protocol.c:153`).
  Microseconds are added to milliseconds; at the end of a second the difference wraps.
* **Every other worker** (`multiprocess_roundrobin`;
  `04-24` `nwchecker_server_multiprocess.c:132`).  `send_cmd` takes a worker of its own and
  drops it: of four workers the first and third get connections.

Two more hazards of the same kind, which no text of the repository denies, are stated as the exact
exceptions of passing properties:

* **Torn packages** (`TornOnlyByACut`; `nwc_tcp_handler.c:147`).  A partial send is counted
  and forgotten, so what follows a header need not be the payload it announces, and a receive buffer can
  be full of a package that never completes; nothing else does either.
* **A length that wraps** (`StreamIntact`, `BackToTheLoop`; `nwc_connection.c:105`).  Behind a torn package
  payload is read as a length; near 2^32 its sum with the header's length wraps and the parser leaves
  `recv_buff`, in the only thread there is.  In every other case both sides come back to their loop, a server
  that waits in `send` for its client included: the client's own `send` never waits, so the two cannot wait
  for each other.

The passing properties name their exceptions, and each exception is behaviour of the code:
a full buffer met once silences the client for good (`EveryPackageAcked`); a network slower than
the loop's period is never measured (`SlowNetworkNeverMeasured`); split pings earn surplus pongs
until both sides block in `send` (`Clogged`); a failed fork leaves the descriptor open and the
client waiting in `03-11` .. `03-13`, where the UNIX server closes it; a server for one connection
never answers the second client; the accept of the WSA server is lost with a full table (`deaf`);
an accepted connection of the epoll server can be registered as if it were waiting to write and
is then never answered (`Muted`); the exit of the multi-process server waits for any child after a
failed fork, and never comes when the master has blocked on its own queue; a datagram that came before
`O_ASYNC` waits for the next one, and one for a signal-driven server that has closed its own socket for ever; a Java
datagram server ends with its first exception; a Java parser that took a length too early, or a completion handler whose
write was still pending, leaves its connection out of step; a `connect` is slept through because
nobody wakes the selector, and a connection it made keeps `OP_CONNECT`, which keeps the selector spinning and hides a
reset from `handle_read`; a connection made at once is never read, and an Acceptor whose key is cancelled never accepts; IOCP connections are kept for ever after a failed completion.

## 5. The proofs

Eight modules hold theorems checked by TLAPS for every value of the constants.  Between them they state
all 24 safety invariants the runs check and the refinement of `DescriptorHandover`
(`ImplementsHandover`).  That each step of the loop is one of `EventDelivery`, and that the loop frees between
batches only, are theorems too; no run checks those two as they stand.

| module | theorems |
|---|---|
| `NwcEpollLooperProofs` | `TypeCorrect`, `EntriesAreOwned`, `SafeDispatch`, `EventsReachTheReported`, `ConnectionPhases`, `DeferredFree`, `LoopDelivers` |
| `NwcWorkersProofs` | `ListsStayWellFormed`, `WalksStay`, `OnlyLiveConnectionsRun` |
| `NwcTcpStreamProofs` | `StreamStaysIntact`, `OnlyACutTears` |
| `NwcQosProofs` | `PackagesAreCounted`, `RoundTripsArePlausible`, `SlowIsNeverMeasured` |
| `MultiProcessProofs` | `MasterExitsLast`, `WildChoiceIsTheLast`, `DescriptorsHaveOneOwner`, `ServerHandsOver`, `WorkersStay` |
| `LessonServersProofs` | `MutedNeedsACause` (`EventServers`), `NobodyHidesTheEnd` (`PingPong`) |
| `NwcsIocpProofs` | `FreedIsIdle`, `AcceptGoesOn` |
| `JavaProofs` | `PoolGoesRound`, `OnlyMisuseKills` (`JavaNetwork`), `NothingIsLeft`, `ParserStaysInStep` (`JavaStreams`) |

`LessonServersProofs` and `JavaProofs` extend two components each, which share no variable and no name; the
theorems of one speak of its `Spec` alone.

The assumptions are the named `ASSUME`s of the modules, and nothing else:

* the loop: the root is a handler, `NULL` is neither a handler nor an entry (`LooperAssumption`); handlers and
  entries may be any sets;
* the workers: list heads, workers and `NULL` are different things (in the program they are addresses), and there is
  memory for two workers of every connection;
* the stream: packages and acknowledgements have units, the bandwidth is not zero, the kernel's buffers hold something, and the receive buffer
  holds a package and an acknowledgement (1316 of 4096 bytes in the code);
* the measurements: a second has more ticks than `nwc_qos_milisecs` adds for it (10^6 and 10^3) and fewer than a
  timestamp has values (2^32), and a least round trip is not longer than the longest;
* the multi-process server: there is a worker, a queue holds something, the number of signals is a natural
  number, and clients are finite in number (`OneOwner` counts them); the same for the IOCP server's messages and
  faults, and for the users and accepted handlers of the Java framework;
* the lessons' programs: a buffer holds something, the parent and "nobody" are not clients, and every scenario is
  one of the lessons' pairs with some command line (`Lines`, `PingLines`): any numbers, except that the size of
  a message in `EventServers` is at least 1;
* the Java streams: lengths, texts, rounds and the pool are not empty, the client's buffer holds all answers of its
  rounds (11 of fewer than 90 bytes, in 1024), and scenarios are pairs of the repository.

Each component has an inductive invariant, `IInv`, from which its properties are drawn (the multi-process server
has two more, `HInv` and `WInv`, proved on top of it).  What follows says what the invariants add to the
properties, and why these are not inductive by themselves.

**Event loop.**  `IInv` is the conjunction of the type invariant, the
properties the run `loop` checks (`EntryOwnership`, which with the types is `EntriesOwned`; `BatchReadsLiveEntries`,
`DeliveredToReported`, `WriteMeansConnecting`), and what they need to be inductive:

* `HandlesMatch`: an open handler's `h_handle` is a live entry that points back.  Without it a
  close might remove some other handler's entry.
* `BatchShape`: outside the batch `ev_list` is empty, so that freeing between batches disturbs
  nothing that is still to be read.
* `RemovedAreSilent`: a removed entry's mask is empty, which is why an address that becomes a
  new entry inherits no interest.
* `WorkersOfOpenConnections`: the handlers the worker dispatch can close are open ones.

`Invariance` is the induction (one lemma per callback: `CloseKeepsInv` for everything that ends in
`nwc_connection_close`, `HandleAcceptKeepsInv`, `HandleConnectedKeepsInv`, `ReclaimKeepsInv`, ...);
`DeferredFree` is the action property that memory is given back between two batches only.
`LoopDelivers` proves that initial states and steps of the loop are initial states and steps (or
stutters) of `EventDelivery` under the refinement mapping; `IInv` is what makes a callback's handler
the one its event was due to; a UDP server's datagram is delivered without a close (`DatagramMaps`).  That whatever has been raised is delivered, the fairness half of the
refinement, is checked by TLC (`ImplementsDelivery`).

**Workers.**  A list is known by its pointers only, and the provers cannot do induction along them.  The
invariant therefore asks for a rank of every linked node, a number that grows along `next`
(`Ranked`), and for `next` and `prev` to be each other's inverse on what is linked (`Linked`): a list whose nodes have such
ranks comes round only through its head.  A rank is chosen anew when a list changes; unlinking keeps the old
ones.  `OnList`, in the property, is the least set of nodes that is closed under `next`, and the one induction
needed, that every linked node is on its list, is the choice of the node of least rank that would not be.  The
walk needs one fact more: the node that `list_for_each_safe` has saved is never one that the callback
of the current node unlinks, which is what the order of registration buys (section 2.2).

**Byte stream.**  Every unit of `accepted` says at which offset of its package it stands.  `Whole` asks that it stands
there among all the units of that package, which is so until a send is cut; `AtHeader` that what a side has
processed ends at the end of a package, `Short` that outside the parse loop less than a package is left over,
`CutOut` that the pieces in `packages` are packages.  For their order, `Ascend` says that the headers of a stream
are in the order of their packages and `Ahead` that those still to come are of later packages than those processed; an
acknowledgement under way is of a package the server has behind it (`AcksBehind`), and nothing is of a package
that was not sent yet (`SentBefore`).  `recv` has room (`RoomLeft`) because less than a package is left over
and the buffer holds one.  All this is said of the sides no send was cut for, the order while there was no cut at all; a parser that finds payload where a header should be
belongs to a side a send was cut for, which is all that is needed of a sum that wraps.  The histories are written so that no step folds over a
sequence, for induction over data is out of the provers' reach.

**Measurements.**  `Counts` is `Accounting` with the counters of the current second in between.  `Times` says when
each package and acknowledgement under way was sent, by its `at`, and that its timestamp is `Clock` of that.
`Measured` and `Unmeasured` are the two properties with what makes them inductive.  For the first it is that an
acknowledgement's `recv_delay` is part of its age and the rest the network's: inside a second a subtraction of
two timestamps is that of the times (`SameSecond`), in spite of the division, the remainder and the two
moduli.  For the second it is that a package in the queue is *fresh*: sent less than a period ago, and at this very
tick once `nwc_qos_stat` has run.  The package of an acknowledgement that takes longer than a
period is therefore gone, and no younger one can have its timestamp (`ClockApart`).  The attempt to prove this showed
the property to be false as it was first stated, without `ClockTells`: no run of six ticks is long enough for the
clock to repeat itself between an answer and a package.

**Multi-process server.**  `IInv` adds to the types: `IndexBetween` (what `get_worker` reads between its
two statements is in range unless an exit command is queued) and `PassedAreGone` (the exit loop leaves
behind only workers that no longer run).  `MasterExitsLast` follows from the second: the loop variable
is `N` when the master is done.  `WildChoiceIsTheLast` follows from the first: only a signal puts the
index out of range, and the same signal has queued the command that ends the loop, which the master
reads before it accepts again.  A master that is stuck in its handler has not left its loop, so neither
property asks anything of it.

The second half of `MultiProcessProofs` is about descriptors.  Its invariant `HInv` says for each connection where its descriptor
is (`Placed`): in the master's hand, in one datagram of one queue (`QueuesOnce`), or on one list
(`ListsOnce`).  Every action is first shown to be one of a few movements of a descriptor between these
places, or none; that a movement keeps `HInv`, and that it is a step of `DescriptorHandover` under `Stage` and `Owner`, is
then proved once for each movement, at the level of sets, so that sequences enter at their ends only.  `OneOwner`,
which counts owners, follows because the places are disjoint.  `WInv`, for `WorkersStay`, says that no process has the descriptor which `FD_ISSET(-1)` happens to look at before
that many connections were made (`AliasIsLate`), that no exit command is queued for a worker before the master stops
(`ExitsAreLast`), and that every fork is behind it when its loop begins (`AllForked`).

**Readiness servers.**  `MutedByAFullBuffer` is about one bit that is left on the stack, so its proof is about
everything that could set it.  In a calm run (`Calm`: an epoll server, a clean stack, messages in one piece, fewer failed
recvs than a buffer holds pongs) a client has one message under way at most, its ping or the pong for it, and one
pong more for every recv that failed and was answered all the same (`on_recv_error` is `"send"`).  So no buffer
fills (`AllQuiet`), no connection is parked, nothing modifies a registration, and the upper half of `ev.data`
stays zero.  The property named two causes at first; the proof could not be completed without the third: each failed
recv of a connection leaves a pong that its client does not take, and enough of them fill the buffer.

**Ping/pong.**  `Served` says of each connection who may have it open: the child that serves it, and the parent until
its close (`Children`, `TheParent`); a connection whose fork failed may have leaked, and then nobody serves it
(`Unserved`).  What the parent's `cur` stands for follows from where the parent is (`AtWork`).  A child inherits everything the parent has open,
so the step that needs all of this is the fork: when it comes, the parent has nothing open but `cur` and
connections that leaked.  For that a connection is accepted once: its client is behind its `connect`
(`NewOnes`), and it is in the queue once (`Queue`).

**IOCP server.**  `pending_ops` of a connection that is in use is at least the number it was born with plus its
outstanding operations (`Covered`), posted ones and completions in the queue alike; a freed connection was born with no
less than 0 and so has none, or it was born below 0, which the property names.  How far a counter can rise above what it
was born with is bounded by the messages (`Limited`).  A connection has one read outstanding at a time, the listening
socket one accept (`OneRead`, `OneAccept`), and an accept's completion is for a connection nobody has used yet
(`AcceptsAreFresh`).

**Java framework.**  As long as no two calls of `getIOThread` overlap there is at most one user inside it, and what that user
has read is the residue of the number of calls (`Index`); `calls` is the number of users that have
called (`Called`).  A thread dies of something that stays true: a handler is given its thread once
(`Threadless`), the histories and `adapterless` only grow, a cancelled key of an Acceptor stays cancelled, and the inbox of a
handler without adapter is never read.  What a key's turn finds is what `Selected` says of it: a cancelled key among the
selected ones was closed behind the Worker's back.  What an event finds is what `Plugs` says of the queues: unless its
Acceptor has been started again an event is alone in its queue and its Acceptor has no key yet, so the cancelled key that
kills a thread in `process` is that of a second start.

**Java streams.**  While no read of a connection has ended inside a message there is one message on it at most, and
`OneMessage` says where: on its way, in the server's buffer, being answered, or on its way back, by the places of client and
server; and that `OP_WRITE` is registered only while a rest of an answer is to be sent.  For the parser less is asked: outside of
`body_split` its buffer holds exactly the bytes it has read since the last
boundary (`Parsed`), so a length is taken at position 0.  That a client whose reads were split does not get ahead of its
rounds (`Sent`, `Asking`) bounds what can be in that buffer at all.

**Model-checked only.**  Every liveness property, and with it the fairness half of the refinements: TLAPS 1.4.5 has
neither `ENABLED` nor fairness in reach.

## 6. Not modelled, and why

* Output, formatting, argument parsing: the values they yield are the scenarios.
* The heap of handlers and connections in `04-30`.  `nwc_connection_close` reads the looper of a handler it
  has just freed; when a send fails inside `nwc_connection_on_recv` the loop still moves the rest of
  `recv_buff` of a connection it has just freed; and a closed connection is freed while it is linked in
  `conn_hdr`, so that the next accept may write through a freed tail.  In the models a closed handler and its
  connection are gone, and such accesses hit nothing that is in use: the results are about the structures
  the modules have (entries, workers, streams), under that assumption.  What such an access hits is decided by
  the allocator, of which the code says nothing.
* The set-up of `04-30`: it runs once and before the loop, and its outcomes are the loop's initial states.
  `nwc_sock_connect` truncates the port to eight bits (a client of the default port 9820 connects to port 92);
  which port a connection is for is no part of any module's state.
* Memory growth: datagram servers remember every address, operations of the IOCP server may be leaked.  A
  finite instance bounds both.
* Zombies of the forking servers are never waited for; nothing in the models depends on them.
* SIGPIPE ends some clients and the `02-` servers; in the models it is one of the ways a call may end a
  process (`ClientError`, `WorkerError`).
* Demonstrations of single calls and the Java demonstrations have no state between two steps.
* The address conversions of `mcast.c`.
* What comes after a parser has left `recv_buff`, but that it stays, crashes or comes back with any rest: the
  acknowledgements it sends from there are left out.
* Signals and stopped processes at the edges of the multi-process server: a signal before the handlers are installed
  (`nwchecker_server_multiprocess.c:413`) has its default disposition and ends the master between two forks, with the
  workers it has; `waitpid` is also told of stopped children (`WUNTRACED`, line 426), which the model has none of.
  `sendmsg` and the `close` behind it are one action, whose halves may fail; no signal comes between them.
* In the readiness servers: a `recv` of the select server that is interrupted or finds nothing (it is a `recv` that has not
  happened yet) and an `epoll_ctl` that fails.
* In `NwcQos` time passes between two batches of the loop only.
* In the Java framework: exceptions an adapter throws of its own, an Acceptor started twice without a stop between, a
  closed TcpHandler that connects again, a handler that registers for an operation after it has closed itself in the same callback.  A
  close in another thread during a key's turn counts as one before it.
* What a Java `Message` contains but its length, character sets, and an `IOException` out of `Poller.poll`,
  after which the thread's loop starts over.

## 7. Plan

In order of what is at stake.  The first five steps are done; they were put first because the event loop is
the repository's most elaborate code and the multi-process server its most concurrent.

1. *(done)* `NwcEpollLooper` with `EventDelivery`, `NwcWorkers`; proofs of safety and refinement.
2. *(done)* `NwcTcpStream`, `NwcQos`: the data path above the loop.
3. *(done)* `MultiProcess` and its proofs.
4. *(done)* `PingPong`, `EventServers`: the lessons, as families of programs.
5. *(done)* `NwcsIocp`.
6. *(done)* The signal-driven UDP server, the Java datagram programs and the multicast pair, in `PingPong`.
7. *(done)* `JavaNetwork`: queues, wakeups, interest sets changed by another thread, `else if` over ready sets.
8. *(done)* `JavaStreams`: the blocking, NIO and asynchronous programs.
9. *(done)* The multi-process server with a queue that fills, and `DescriptorHandover`; the UDP handler in the loop and in the bursts.
10. *(done)* Proofs of every safety invariant, those of the byte stream, the lessons' servers and the Java streams last.
11. `conn_hdr` with an allocator (see section 6).

Abstract specifications still worth stating: a byte stream that `NwcTcpStream` implements while nothing is
torn; a request/answer exchange for the servers.
