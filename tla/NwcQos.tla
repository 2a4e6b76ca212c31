-------------------------------- MODULE NwcQos --------------------------------
(***************************************************************************)
(* The measurements of 04-30_nwchecker_refactor (nwc_qos_protocol.c): a    *)
(* client stamps packages and keeps them in sent_queue, a server sends the *)
(* stamp back with the delay it added, the client takes a sample of the    *)
(* round-trip time from it; a periodic worker declares lost what is older  *)
(* than the round-trip time.  Over UDP the network delays, loses,          *)
(* duplicates and reorders, over TCP it delays.                            *)
(*                                                                         *)
(* Time is counted in ticks; Clock is what nwc_qos_milisecs makes of it.   *)
(* rtt is a double smoothed by 7/8 and 1/8: here any number between its    *)
(* old value and the sample, which is all the properties rest on.          *)
(***************************************************************************)
EXTENDS Integers, FiniteSets

CONSTANTS
  Environments,  \* where the pair may run: see Environment
  SecTicks,      \* ticks in a second (10^6: nwc_qos_milisecs adds microseconds)
  SecMilis,      \* what it adds for a whole second (10^3)
  Width,         \* 2^32: timestamps are uint32_t
  StatInterval,  \* qos->stat_interval
  Period,        \* timeout of epoll_wait, SCHEDULE_TIMER
  Burst,         \* packages one run of the send worker creates
  MaxPackages,   \* bound: packages created
  Duration,      \* bound: ticks
  NULL

\* prototype is cfg->prototype, start the time since boot when the client starts (0
\* means "never" in last_stat_ts and "no timestamp" in ack_timestamp), min_delay
\* and max_delay bound the round trip without the time, max_hold at most, that the
\* server takes; over UDP anything later is lost.
Environment ==
  {e \in [prototype : {"NWC_PROTO_TCP", "NWC_PROTO_UDP"}, start : Nat \ {0},
          min_delay : Nat, max_delay : Nat, max_hold : Nat] : e.min_delay <= e.max_delay}

ASSUME QosAssumption ==
  /\ {SecTicks, SecMilis, Width, StatInterval, Period, Burst} \subseteq Nat \ {0}
  /\ {MaxPackages, Duration} \subseteq Nat
  /\ Width % 2 = 0 /\ SecMilis < SecTicks /\ SecTicks <= Width
  /\ Environments \subseteq Environment

VARIABLES
  env,           \* the environment, which never changes
  now,           \* ticks since the machine started
  pc,            \* the client: "stat" and "send" workers, then "wait"
  deadline,      \* when its epoll_wait times out
  sent_queue,    \* the packages in sent_queue, which is in the order of their ids
  rtt, last_stat_ts, loss_packages_per_secs, sent_packages_per_secs,
  net,           \* packages on their way to the server
  server,        \* the package the server is working on, with its recv_ts, since when
  acks,          \* acknowledgements on their way back
  created, acked, lost  \* history: packages made, matched by an ack, declared lost

qosVars == <<sent_queue, rtt, last_stat_ts, loss_packages_per_secs, sent_packages_per_secs>>
netVars == <<net, server, acks>>
countVars == <<created, acked, lost>>
vars == <<env, now, pc, deadline, sent_queue, rtt, last_stat_ts, loss_packages_per_secs,
          sent_packages_per_secs, net, server, acks, created, acked, lost>>

\* nwc_qos_milisecs: tv_sec * 1000 + tv_nsec / 1000, cut to 32 bits.
Clock(t) == ((t \div SecTicks) * SecMilis + (t % SecTicks)) % Width

\* uint32_t subtraction.
Minus(a, b) == (a - b) % Width

\* The same bits read as an int.
AsInt(x) == IF x >= Width \div 2 THEN x - Width ELSE x

Stamp == 0..(Width - 1)
End == env.start + Duration
Package == [id : 1..MaxPackages, timestamp : Stamp]
NetPackage == [id : 1..MaxPackages, timestamp : Stamp, at : 0..End]
Ack == [id : 1..MaxPackages, ack_timestamp : Stamp, recv_delay : Stamp, at : 0..End]

TypeOK ==
  /\ env \in Environments
  /\ now \in 0..End
  /\ pc \in {"stat", "send", "wait"}
  /\ deadline \in 0..(End + Period)
  /\ sent_queue \subseteq Package
  /\ rtt \in Int
  /\ last_stat_ts \in Stamp
  /\ loss_packages_per_secs \in 0..MaxPackages
  /\ sent_packages_per_secs \in 0..MaxPackages
  /\ net \subseteq NetPackage
  /\ server \in [pkg : NetPackage, recv_ts : Stamp, since : 0..End] \cup {NULL}
  /\ acks \subseteq Ack
  /\ created \in 0..MaxPackages /\ acked \in 0..MaxPackages /\ lost \in 0..MaxPackages

Init ==
  /\ env \in Environments
  /\ now = env.start
  /\ pc = "stat"
  /\ deadline = 0
  /\ sent_queue = {}
  /\ rtt = 0 /\ last_stat_ts = 0
  /\ loss_packages_per_secs = 0 /\ sent_packages_per_secs = 0
  /\ net = {} /\ server = NULL /\ acks = {}
  /\ created = 0 /\ acked = 0 /\ lost = 0

-----------------------------------------------------------------------------
(* The client. *)

\* (mutant: a package is given the time of one period before it is lost)
OverdueLater(ts) == Minus(Clock(now), ts) > rtt + Period + env.max_delay

\* A package in sent_queue is lost for nwc_qos_stat when it is older than rtt.
Overdue(ts) == Minus(Clock(now), ts) > rtt

\* nwc_qos_stat.  Its first run only notes the time.
FirstStat ==
  /\ pc = "stat" /\ last_stat_ts = 0
  /\ last_stat_ts' = Clock(now)
  /\ pc' = "send"
  /\ UNCHANGED <<env, now, deadline, sent_queue, rtt, loss_packages_per_secs,
                 sent_packages_per_secs, netVars, countVars>>

IntervalOver == AsInt(Minus(Clock(now), last_stat_ts)) >= StatInterval

Stat ==
  /\ pc = "stat" /\ last_stat_ts # 0
  /\ LET old == {p \in sent_queue : Overdue(p.timestamp)}
     IN /\ lost' = lost + Cardinality(old)
        /\ loss_packages_per_secs' =
             IF IntervalOver THEN 0 ELSE loss_packages_per_secs + Cardinality(old)
        /\ sent_queue' = sent_queue \ old
  /\ IF IntervalOver
     THEN sent_packages_per_secs' = 0 /\ last_stat_ts' = Clock(now)
     ELSE UNCHANGED <<sent_packages_per_secs, last_stat_ts>>
  /\ pc' = "send"
  /\ UNCHANGED <<env, now, deadline, rtt, netVars, created, acked>>

Lossy == env.prototype = "NWC_PROTO_UDP"

\* The ways k of the most packages of a burst are sent over UDP, each with the
\* packages that arrive: a sendto that returns EAGAIN or EWOULDBLOCK ends the burst,
\* its package is lost and the next burst tries again, for can_send is left alone.
UdpBursts(most) ==
  {b \in [k : 0..most, arriving : SUBSET (1..most)] :
     /\ b.arriving \subseteq 1..b.k
     /\ most > 0 => b.k > 0
     /\ b.k < most => b.k \notin b.arriving}

\* The send worker creates, stamps and sends a burst; over UDP any package of it
\* may be lost on the way.
Send ==
  /\ pc = "send"
  /\ LET most == IF created + Burst <= MaxPackages THEN Burst ELSE MaxPackages - created
         whole == [k |-> most, arriving |-> 1..most]
     IN \E b \in IF Lossy THEN UdpBursts(most) ELSE {whole} :
          /\ created' = created + b.k
          /\ sent_queue' = sent_queue \cup {[id |-> created + i, timestamp |-> Clock(now)] :
                                               i \in 1..b.k}
          /\ sent_packages_per_secs' = sent_packages_per_secs + b.k
          /\ net' = net \cup {[id |-> created + i, timestamp |-> Clock(now), at |-> now] :
                                i \in b.arriving}
  /\ pc' = "wait"
  /\ deadline' = now + Period
  /\ UNCHANGED <<env, now, rtt, last_stat_ts, loss_packages_per_secs, server, acks, acked, lost>>

Timeout ==
  /\ pc = "wait" /\ now = deadline
  /\ pc' = "stat"
  /\ UNCHANGED <<env, now, deadline, qosVars, netVars, countVars>>

Between(a, b) == IF a <= b THEN a..b ELSE b..a

\* nwc_qos_get_pkg_entry: the first package in the queue with a timestamp.
First(ts) ==
  {p \in sent_queue : /\ p.timestamp = ts
                      /\ \A q \in sent_queue : q.timestamp = ts => p.id <= q.id}

\* (mutant: the matched package stays in sent_queue)
MatchKeeps(a, p) ==
  LET sample == Minus(Clock(now), a.ack_timestamp) - a.recv_delay
  IN /\ rtt' \in Between(rtt, sample)
     /\ acked' = acked + 1
     /\ UNCHANGED sent_queue

\* (mutant: the delay of the server is added to the sample)
MatchAdds(a, p) ==
  LET sample == Minus(Clock(now), a.ack_timestamp) + a.recv_delay
  IN /\ rtt' \in Between(rtt, sample)
     /\ sent_queue' = sent_queue \ {p}
     /\ acked' = acked + 1

\* nwc_qos_process_package with an acknowledgement, when package p is found.
Match(a, p) ==
  LET sample == Minus(Clock(now), a.ack_timestamp) - a.recv_delay
  IN /\ rtt' \in Between(rtt, sample)
     /\ sent_queue' = sent_queue \ {p}
     /\ acked' = acked + 1

\* Over TCP the packages, and the acknowledgements, arrive in order.
MayArrive(x, travelling) == Lossy \/ \A y \in travelling : x.id <= y.id

\* An acknowledgement arrives; over UDP it may arrive again.
RecvAck ==
  /\ pc = "wait"
  /\ \E a \in acks :
       /\ now - a.at >= env.min_delay
       /\ MayArrive(a, acks)
       /\ \/ Lossy /\ acks' = acks
          \/ acks' = acks \ {a}
       /\ \/ a.ack_timestamp # 0 /\ \E p \in First(a.ack_timestamp) : Match(a, p)
          \/ /\ a.ack_timestamp = 0 \/ First(a.ack_timestamp) = {}
             /\ UNCHANGED <<rtt, sent_queue, acked>>
  /\ pc' = "stat"
  /\ UNCHANGED <<env, now, deadline, last_stat_ts, loss_packages_per_secs,
                 sent_packages_per_secs, net, server, created, lost>>

-----------------------------------------------------------------------------
(* The server, and the time. *)

ServerRecv ==
  /\ server = NULL
  /\ \E p \in net :
       /\ MayArrive(p, net)
       /\ server' = [pkg |-> p, recv_ts |-> Clock(now), since |-> now]
       /\ net' = net \ {p}
  /\ UNCHANGED <<env, now, pc, deadline, qosVars, acks, countVars>>

\* ack_pkg->recv_delay: nowms - recv_ts in nwc_connection_on_recv, 0 in
\* nwc_connection_udp_accept.
RecvDelay == IF Lossy THEN 0 ELSE Minus(Clock(now), server.recv_ts)

ServerAck ==
  /\ server # NULL
  /\ acks' = acks \cup {[id |-> server.pkg.id, ack_timestamp |-> server.pkg.timestamp,
                         recv_delay |-> RecvDelay, at |-> server.pkg.at]}
  /\ server' = NULL
  /\ UNCHANGED <<env, now, pc, deadline, qosVars, net, countVars>>

\* A tick passes while the client waits, for the server too when it must answer.
\* What is too old gets lost over UDP, and is waited for over TCP.
Tick ==
  /\ pc = "wait"
  /\ now < deadline /\ now < End
  /\ now' = now + 1
  /\ server # NULL => now + 1 - server.since <= env.max_hold
  /\ Lossy \/ \A x \in net \cup acks : now + 1 - x.at <= env.max_delay
  /\ net' = {p \in net : now + 1 - p.at <= env.max_delay}
  /\ acks' = {a \in acks : now + 1 - a.at <= env.max_delay}
  /\ UNCHANGED <<env, pc, deadline, qosVars, server, countVars>>

Next ==
  \/ FirstStat \/ Stat \/ Send \/ Timeout \/ RecvAck
  \/ ServerRecv \/ ServerAck
  \/ Tick

Spec == Init /\ [][Next]_vars

-----------------------------------------------------------------------------
(* Properties *)

\* Every package is accounted for exactly once: it waits in sent_queue, or an
\* acknowledgement was matched to it, or it was declared lost.  Duplicated, late
\* and reordered acknowledgements, and packages with equal timestamps, do not
\* disturb the count.  (nwc_qos_create_package, nwc_qos_stat,
\* nwc_qos_process_package; with the types of the variables.)
Accounting == TypeOK /\ created = Cardinality(sent_queue) + acked + lost

\* Over TCP, as long as no second ends, rtt stays within what the network can do,
\* although three subtractions of clocks read at different moments enter it.
RttPlausible ==
  ~Lossy /\ now \div SecTicks = env.start \div SecTicks => rtt \in 0..env.max_delay

\* The delay the server reports is the time it held the package ("The delay for
\* receiver process message", nwc_qos_protocol.h:12), not a wrapped subtraction.
RecvDelayIsADelay == \A a \in acks : a.recv_delay <= Duration

\* No answer is so late that it finds the clock back at the value it had when the
\* package was sent (at the end of a second it repeats most of the last one), and the
\* machine is up for less than the 49.7 days in which the clock comes round to 0,
\* which for last_stat_ts means "never".
ClockTells ==
  /\ env.max_delay + env.max_hold < SecTicks - SecMilis
  /\ (now \div SecTicks) * SecMilis + SecTicks <= Width

\* On a network slower than the loop's period every package is declared lost
\* before its acknowledgement can be matched, so that rtt is never measured and
\* stays 0: a client with a round trip above 50 ms reports nothing but loss.
SlowNetworkNeverMeasured ==
  env.min_delay > Period /\ ClockTells => rtt = 0 /\ acked = 0

=============================================================================
