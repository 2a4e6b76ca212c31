----------------------------- MODULE NwcQosProofs -----------------------------
(***************************************************************************)
(* NwcQos, for any clock, network, burst and period.  Division and         *)
(* remainder first: what the distance of two timestamps says; then the     *)
(* counts of packages, the times on the network, and what is measured.     *)
(***************************************************************************)
EXTENDS NwcQos, FiniteSetTheorems, TLAPS

LEMMA Euclid ==
  ASSUME NEW a \in Int, NEW m \in Nat \ {0}
  PROVE  (a \div m) \in Int /\ (a % m) \in 0 .. m - 1 /\ a = m * (a \div m) + (a % m)
  OBVIOUS

LEMMA Residue ==
  ASSUME NEW q \in Int, NEW r \in Int, NEW m \in Nat \ {0}, 0 <= r, r < m
  PROVE  (m * q + r) % m = r
  OBVIOUS

LEMMA Small ==
  ASSUME NEW a \in Int, NEW m \in Nat \ {0}, 0 <= a, a < m
  PROVE  a % m = a
<1>1. (m * 0 + a) % m = a /\ m * 0 + a = a
  BY Residue
<1>2. QED
  BY <1>1

LEMMA Difference ==
  ASSUME NEW a \in Int, NEW b \in Int, NEW m \in Nat \ {0}
  PROVE  ((b % m) - (a % m)) % m = (b - a) % m
<1> DEFINE q == a \div m
           r == a % m
           p == b \div m
           s == b % m
<1>1. q \in Int /\ r \in 0 .. m - 1 /\ a = m * q + r
  BY Euclid
<1>2. p \in Int /\ s \in 0 .. m - 1 /\ b = m * p + s
  BY Euclid
<1> SUFFICES (s - r) % m = (b - a) % m
  OBVIOUS
<1> HIDE DEF q, r, p, s
<1> DEFINE d == s - r
           u == d \div m
           v == d % m
<1>3. d \in Int
  BY <1>1, <1>2
<1> HIDE DEF d
<1>4. u \in Int /\ v \in 0 .. m - 1 /\ d = m * u + v
  BY <1>3, Euclid
<1> HIDE DEF u, v
<1>5. b - a = m * (u + p - q) + v
  BY <1>1, <1>2, <1>4 DEF d
<1>6. (m * (u + p - q) + v) % m = v
  BY <1>1, <1>2, <1>4, Residue
<1>7. QED
  BY <1>5, <1>6 DEF d, v

LEMMA Wrapped ==
  ASSUME NEW a \in Int, NEW m \in Nat \ {0}, -m < a, a < 0
  PROVE  a % m = a + m
<1> DEFINE e == a + m
<1>1. e \in Int /\ a = m * (-1) + e /\ 0 <= e /\ e < m
  OBVIOUS
<1> HIDE DEF e
<1>2. (m * (-1) + e) % m = e
  BY <1>1, Residue
<1>3. QED
  BY <1>1, <1>2 DEF e

LEMMA SameQuotient ==
  ASSUME NEW a \in Int, NEW b \in Int, NEW m \in Nat \ {0}, a \div m = b \div m
  PROVE  (b % m) - (a % m) = b - a
<1> DEFINE q == a \div m
           r == a % m
           s == b % m
<1>1. q \in Int /\ r \in 0 .. m - 1 /\ a = m * q + r
  BY Euclid
<1>2. s \in 0 .. m - 1 /\ b = m * q + s
  BY Euclid
<1> HIDE DEF q, r, s
<1>3. s - r = b - a
  BY <1>1, <1>2
<1>4. QED
  BY <1>3 DEF r, s

LEMMA TimesGrows ==
  ASSUME NEW a \in Nat, NEW b \in Nat, NEW m \in Nat, a <= b
  PROVE  a * m <= b * m /\ a * m \in Nat
  OBVIOUS

LEMMA DivGrows ==
  ASSUME NEW a \in Nat, NEW b \in Nat, NEW m \in Nat \ {0}, a <= b
  PROVE  (a \div m) \in Nat /\ (b \div m) \in Nat /\ (a \div m) <= (b \div m)
<1> DEFINE q == a \div m
           p == b \div m
           r == a % m
           s == b % m
<1>1. q \in Int /\ r \in 0 .. m - 1 /\ a = m * q + r /\ p \in Int /\ s \in 0 .. m - 1 /\ b = m * p + s
  BY Euclid
<1> HIDE DEF q, p, r, s
<1>2. q >= 0 /\ p >= 0
  <2>1. ASSUME NEW x \in Int, x < 0 PROVE m * x <= -m
    BY <2>1
  <2>2. QED
    BY <1>1, <2>1
<1>3. q <= p
  <2>1. SUFFICES ASSUME p + 1 <= q PROVE FALSE
    BY <1>1
  <2>2. m * (p + 1) <= m * q
    BY <1>1, <1>2, <2>1
  <2>3. QED
    BY <1>1, <2>2
<1>4. QED
  BY <1>1, <1>2, <1>3 DEF q, p

-----------------------------------------------------------------------------
(* The clock.                                                                *)

LEMMA Constants ==
  /\ SecTicks \in Nat \ {0} /\ SecMilis \in Nat \ {0} /\ Width \in Nat \ {0}
  /\ SecMilis < SecTicks /\ SecTicks <= Width
  /\ Period \in Nat \ {0} /\ Burst \in Nat \ {0} /\ MaxPackages \in Nat /\ Duration \in Nat
  /\ \A e \in Environments : /\ e.start \in Nat \ {0} /\ e.min_delay \in Nat /\ e.max_delay \in Nat
                             /\ e.max_hold \in Nat /\ e.min_delay <= e.max_delay
BY QosAssumption DEF Environment

\* Seconds and ticks of a time.
LEMMA Seconds ==
  \A t \in Nat : /\ (t \div SecTicks) \in Nat /\ (t % SecTicks) \in 0 .. SecTicks - 1
                 /\ t = SecTicks * (t \div SecTicks) + (t % SecTicks)
<1>1. SecTicks \in Nat \ {0}
  BY Constants
<1> TAKE t \in Nat
<1>2. (t \div SecTicks) \in Nat
  BY <1>1, DivGrows
<1>3. (t % SecTicks) \in 0 .. SecTicks - 1 /\ t = SecTicks * (t \div SecTicks) + (t % SecTicks)
  BY <1>1, Euclid
<1>4. QED
  BY <1>2, <1>3

LEMMA ClockType == ASSUME NEW t \in Nat PROVE Clock(t) \in Stamp
<1>1. (t \div SecTicks) \in Nat /\ (t % SecTicks) \in Nat
  BY Constants, DivGrows, Euclid
<1>2. (t \div SecTicks) * SecMilis \in Nat
  BY <1>1, Constants, TimesGrows
<1> DEFINE x == (t \div SecTicks) * SecMilis + (t % SecTicks)
<1>3. x \in Nat
  BY <1>1, <1>2
<1> HIDE DEF x
<1>4. (x % Width) \in 0 .. Width - 1
  BY <1>3, Constants, Euclid
<1>5. QED
  BY <1>4 DEF x, Clock, Stamp

LEMMA MinusType == ASSUME NEW a \in Int, NEW b \in Int PROVE Minus(a, b) \in Stamp
BY Constants, Euclid DEF Minus, Stamp

\* Two different timestamps are not at distance 0.
LEMMA MinusPositive ==
  ASSUME NEW a \in Stamp, NEW b \in Stamp, a # b
  PROVE  Minus(a, b) > 0
<1>1. CASE a > b
  BY <1>1, Small, Constants DEF Minus, Stamp
<1>2. CASE a < b
  BY <1>2, Wrapped, Constants DEF Minus, Stamp
<1>3. QED
  BY <1>1, <1>2 DEF Stamp

\* Inside a second the clock runs as it should.
LEMMA SameSecond ==
  ASSUME NEW a \in Nat, NEW b \in Nat, a <= b, a \div SecTicks = b \div SecTicks
  PROVE  Minus(Clock(b), Clock(a)) = b - a
<1> DEFINE c == (a \div SecTicks) * SecMilis
           x == c + (a % SecTicks)
           y == c + (b % SecTicks)
<1>1. c \in Nat
  BY Constants, DivGrows, TimesGrows
<1> HIDE DEF c
<1>2. SecTicks \in Nat \ {0} /\ Width \in Nat \ {0} /\ SecTicks <= Width
  BY Constants
<1>3. (a % SecTicks) \in 0 .. SecTicks - 1 /\ (b % SecTicks) \in 0 .. SecTicks - 1
  BY Seconds
<1>4. (b % SecTicks) - (a % SecTicks) = b - a
  <2>1. a \in Int /\ b \in Int
    OBVIOUS
  <2>2. QED
    BY <1>2, <2>1, SameQuotient, Zenon
<1>5. x \in Int /\ y \in Int /\ y - x = b - a /\ 0 <= b - a /\ b - a < Width
  BY <1>1, <1>2, <1>3, <1>4
<1>6. Clock(a) = x % Width /\ Clock(b) = y % Width
  BY DEF Clock, c
<1> HIDE DEF x, y
<1>7. ((y % Width) - (x % Width)) % Width = (y - x) % Width
  BY <1>2, <1>5, Difference
<1>8. (b - a) % Width = b - a
  BY <1>2, <1>5, Small
<1>9. QED
  BY <1>5, <1>6, <1>7, <1>8 DEF Minus

\* Before the clock has come round it is what nwc_qos_milisecs adds up.
LEMMA PlainClock ==
  ASSUME NEW t \in Nat, NEW n \in Nat, t <= n, (n \div SecTicks) * SecMilis + SecTicks <= Width
  PROVE  Clock(t) = (t \div SecTicks) * SecMilis + (t % SecTicks)
<1>1. (t \div SecTicks) \in Nat /\ (n \div SecTicks) \in Nat /\ (t \div SecTicks) <= (n \div SecTicks)
  BY Constants, DivGrows
<1>2. (t \div SecTicks) * SecMilis <= (n \div SecTicks) * SecMilis
      /\ (t \div SecTicks) * SecMilis \in Nat /\ (n \div SecTicks) * SecMilis \in Nat
  BY <1>1, Constants, TimesGrows
<1>3. (t % SecTicks) \in 0 .. SecTicks - 1
  BY Constants, Euclid
<1> DEFINE x == (t \div SecTicks) * SecMilis + (t % SecTicks)
<1>4. x \in Nat /\ x < Width
  BY <1>2, <1>3, Constants
<1> HIDE DEF x
<1>5. x % Width = x
  BY <1>4, Constants, Small
<1>6. QED
  BY <1>5 DEF x, Clock

\* It repeats no value within SecTicks - SecMilis ticks, and is not 0 again.
LEMMA ClockApart ==
  ASSUME NEW a \in Nat, NEW b \in Nat, a < b, b - a < SecTicks - SecMilis,
         (b \div SecTicks) * SecMilis + SecTicks <= Width
  PROVE  Clock(a) # Clock(b)
<1> DEFINE p == a \div SecTicks
           q == b \div SecTicks
           r == a % SecTicks
           s == b % SecTicks
<1>1. Clock(a) = p * SecMilis + r /\ Clock(b) = q * SecMilis + s
  BY PlainClock
<1>2. /\ p \in Nat /\ q \in Nat /\ r \in 0 .. SecTicks - 1 /\ s \in 0 .. SecTicks - 1
      /\ a = SecTicks * p + r /\ b = SecTicks * q + s /\ p <= q
  <2>1. SecTicks \in Nat \ {0}
    BY Constants
  <2>2. r \in 0 .. SecTicks - 1 /\ a = SecTicks * p + r
    BY Seconds, Zenon
  <2>3. s \in 0 .. SecTicks - 1 /\ b = SecTicks * q + s
    BY Seconds, Zenon
  <2>4. p \in Nat /\ q \in Nat /\ p <= q
    BY <2>1, DivGrows
  <2>5. QED
    BY <2>2, <2>3, <2>4
<1> HIDE DEF p, q, r, s
<1>3. q <= p + 1
  <2>1. SUFFICES ASSUME p + 2 <= q PROVE FALSE
    BY <1>2
  <2>2. SecTicks * (p + 2) <= SecTicks * q
    BY <1>2, <2>1, Constants
  <2>3. SecTicks * (p + 2) = SecTicks * p + SecTicks + SecTicks
    BY <1>2, Constants
  <2>4. QED
    BY <1>2, <2>2, <2>3, Constants
<1>4. CASE q = p
  BY <1>1, <1>2, <1>4, Constants
<1>5. CASE q = p + 1
  <2>1. SecTicks * q = SecTicks * p + SecTicks /\ q * SecMilis = p * SecMilis + SecMilis
    BY <1>2, <1>5, Constants
  <2>2. r - s > SecMilis
    BY <1>2, <2>1, Constants
  <2>3. QED
    BY <1>1, <1>2, <2>1, <2>2, Constants
<1>6. QED
  BY <1>2, <1>3, <1>4, <1>5

LEMMA ClockPositive ==
  ASSUME NEW t \in Nat \ {0}, (t \div SecTicks) * SecMilis + SecTicks <= Width
  PROVE  Clock(t) # 0
<1> DEFINE q == t \div SecTicks
           r == t % SecTicks
<1>1. Clock(t) = q * SecMilis + r
  BY PlainClock
<1>2. q \in Nat /\ r \in 0 .. SecTicks - 1 /\ t = SecTicks * q + r
  <2>1. t \in Nat
    OBVIOUS
  <2>2. QED
    BY <2>1, Seconds, Zenon
<1> HIDE DEF q, r
<1>3. CASE q = 0
  BY <1>1, <1>2, <1>3, Constants
<1>4. CASE q > 0
  <2>1. 1 * SecMilis <= q * SecMilis
    BY <1>2, <1>4, Constants, TimesGrows
  <2>2. QED
    BY <1>1, <1>2, <2>1, Constants
<1>5. QED
  BY <1>2, <1>3, <1>4

-----------------------------------------------------------------------------
(* Types of the variables and the counts of packages.                        *)

Shapes ==
  /\ env \in Environments /\ now \in env.start .. End
  /\ pc \in {"stat", "send", "wait"}
  /\ deadline \in 0 .. (End + Period) /\ (pc = "wait" => now <= deadline)
  /\ sent_queue \subseteq Package /\ IsFiniteSet(sent_queue)
  /\ \A p \in sent_queue : p.id <= created
  /\ rtt \in Int /\ last_stat_ts \in Stamp
  /\ net \subseteq NetPackage /\ acks \subseteq Ack
  /\ server \in [pkg : NetPackage, recv_ts : Stamp, since : 0 .. End] \cup {NULL}

Counts ==
  /\ created \in 0 .. MaxPackages /\ acked \in Nat /\ lost \in Nat
  /\ created = Cardinality(sent_queue) + acked + lost
  /\ loss_packages_per_secs \in 0 .. lost /\ sent_packages_per_secs \in 0 .. created

LEMMA EndType ==
  ASSUME env \in Environments
  PROVE  /\ env.start \in Nat \ {0} /\ env.min_delay \in Nat /\ env.max_delay \in Nat
         /\ env.max_hold \in Nat /\ env.min_delay <= env.max_delay
         /\ End \in Nat /\ End = env.start + Duration /\ Period \in Nat \ {0} /\ MaxPackages \in Nat
BY Constants DEF End

LEMMA InitShapes == Init => Shapes /\ Counts
<1> SUFFICES ASSUME Init PROVE Shapes /\ Counts
  OBVIOUS
<1>1. env \in Environments
  BY DEF Init
<1>2. IsFiniteSet({}) /\ Cardinality({}) = 0
  BY FS_EmptySet
<1>3. 0 \in Stamp
  BY Constants DEF Stamp
<1>4. sent_queue = {} /\ created = 0 /\ acked = 0 /\ lost = 0 /\ loss_packages_per_secs = 0
      /\ sent_packages_per_secs = 0
  BY DEF Init
<1>5. Counts
  BY <1>1, <1>2, <1>4, EndType DEF Counts
<1>6. Shapes
  <2>1. now = env.start /\ now \in env.start .. End /\ deadline = 0 /\ 0 \in 0 .. (End + Period)
    <3>1. env.start \in Nat /\ End = env.start + Duration /\ Period \in Nat /\ Duration \in Nat
      BY <1>1, EndType, Constants
    <3>2. now = env.start /\ deadline = 0
      BY DEF Init
    <3>3. QED
      BY <3>1, <3>2
  <2>2. pc = "stat" /\ rtt = 0 /\ last_stat_ts = 0 /\ net = {} /\ acks = {} /\ server = NULL
    BY DEF Init
  <2>3. QED
    BY <1>1, <1>2, <1>3, <1>4, <2>1, <2>2 DEF Shapes
<1>7. QED
  BY <1>5, <1>6

\* Steps that leave the queue and its counts alone.
LEMMA QuietShapes ==
  ASSUME Shapes, Counts, UNCHANGED <<env, sent_queue, created, acked, lost, loss_packages_per_secs,
                                     sent_packages_per_secs>>,
         now' \in env.start .. End, pc' \in {"stat", "send", "wait"},
         deadline' = deadline, pc' = "wait" => now' <= deadline,
         rtt' \in Int, last_stat_ts' \in Stamp, net' \subseteq NetPackage, acks' \subseteq Ack,
         server' \in [pkg : NetPackage, recv_ts : Stamp, since : 0 .. End] \cup {NULL}
  PROVE  Shapes' /\ Counts'
BY DEF Shapes, Counts, End, NetPackage, Ack

LEMMA StatShapes ==
  ASSUME Shapes, Counts, Stat
  PROVE  Shapes' /\ Counts'
<1> DEFINE old == {p \in sent_queue : Overdue(p.timestamp)}
<1>1. /\ sent_queue' = sent_queue \ old /\ lost' = lost + Cardinality(old)
      /\ \/ loss_packages_per_secs' = 0
         \/ loss_packages_per_secs' = loss_packages_per_secs + Cardinality(old)
      /\ sent_packages_per_secs' \in {0, sent_packages_per_secs}
      /\ last_stat_ts' \in {Clock(now), last_stat_ts}
      /\ pc' = "send" /\ UNCHANGED <<env, now, deadline, rtt, netVars, created, acked>>
  BY DEF Stat
<1>2. IsFiniteSet(sent_queue) /\ old \subseteq sent_queue
  BY DEF Shapes
<1>3. /\ Cardinality(old) \in Nat /\ Cardinality(sent_queue) \in Nat /\ IsFiniteSet(sent_queue \ old)
      /\ Cardinality(sent_queue \ old) = Cardinality(sent_queue) - Cardinality(old)
  <2>1. IsFiniteSet(old)
    BY <1>2, FS_Subset
  <2>2. sent_queue \cap old = old
    BY <1>2
  <2>3. QED
    BY <1>2, <2>1, <2>2, FS_Difference, FS_CardinalityType
<1> HIDE DEF old
<1>4. Clock(now) \in Stamp
  BY ClockType, EndType DEF Shapes
<1>5. Shapes'
  BY <1>1, <1>2, <1>3, <1>4 DEF Shapes, netVars, End, NetPackage, Ack
<1>6. Counts'
  BY <1>1, <1>3 DEF Counts
<1>7. QED
  BY <1>5, <1>6

\* What a burst adds to the queue.
NewPackages(k) == {[id |-> created + i, timestamp |-> Clock(now)] : i \in 1 .. k}

LEMMA BurstSize ==
  ASSUME created \in Nat, NEW k \in Nat
  PROVE  IsFiniteSet(NewPackages(k)) /\ Cardinality(NewPackages(k)) = k
<1> DEFINE f == [i \in 1 .. k |-> [id |-> created + i, timestamp |-> Clock(now)]]
<1>1. f \in Bijection(1 .. k, NewPackages(k))
  <2>1. f \in [1 .. k -> NewPackages(k)]
    BY DEF NewPackages
  <2>2. \A i, j \in 1 .. k : f[i] = f[j] => i = j
    <3> SUFFICES ASSUME NEW i \in 1 .. k, NEW j \in 1 .. k, f[i] = f[j] PROVE i = j
      OBVIOUS
    <3>1. f[i].id = created + i /\ f[j].id = created + j
      OBVIOUS
    <3>2. created + i = created + j
      BY <3>1
    <3>3. QED
      BY <3>2
  <2>3. \A b \in NewPackages(k) : \E i \in 1 .. k : f[i] = b
    BY DEF NewPackages
  <2> HIDE DEF f
  <2>4. QED
    BY <2>1, <2>2, <2>3 DEF Bijection, Injection, Surjection, IsInjective
<1>2. IsFiniteSet(1 .. k) /\ Cardinality(1 .. k) = k
  <2>1. 1 \in Int /\ k \in Int
    OBVIOUS
  <2>2. IsFiniteSet(1 .. k) /\ Cardinality(1 .. k) = IF 1 > k THEN 0 ELSE k - 1 + 1
    BY <2>1, FS_Interval, Zenon
  <2>3. QED
    BY <2>2
<1>3. QED
  BY <1>1, <1>2, FS_Bijection DEF ExistsBijection

LEMMA SendShapes ==
  ASSUME Shapes, Counts, Send
  PROVE  Shapes' /\ Counts'
<1> DEFINE most == IF created + Burst <= MaxPackages THEN Burst ELSE MaxPackages - created
<1>1. created \in Nat /\ most \in Nat /\ created + most <= MaxPackages
  BY Constants DEF Counts
<1>2. PICK b : /\ b.k \in 0 .. most /\ b.arriving \subseteq 1 .. b.k
               /\ created' = created + b.k
               /\ sent_queue' = sent_queue \cup NewPackages(b.k)
               /\ sent_packages_per_secs' = sent_packages_per_secs + b.k
               /\ net' = net \cup {[id |-> created + i, timestamp |-> Clock(now), at |-> now] :
                                     i \in b.arriving}
  <2>1. PICK b \in IF Lossy THEN UdpBursts(most) ELSE {[k |-> most, arriving |-> 1 .. most]} :
               /\ created' = created + b.k
               /\ sent_queue' = sent_queue \cup NewPackages(b.k)
               /\ sent_packages_per_secs' = sent_packages_per_secs + b.k
               /\ net' = net \cup {[id |-> created + i, timestamp |-> Clock(now), at |-> now] :
                                     i \in b.arriving}
    BY DEF Send, NewPackages
  <2>2. b.k \in 0 .. most /\ b.arriving \subseteq 1 .. b.k
    BY <1>1, <2>1 DEF UdpBursts
  <2>3. QED
    BY <2>1, <2>2
<1> HIDE DEF most
<1>3. pc' = "wait" /\ deadline' = now + Period
      /\ UNCHANGED <<env, now, rtt, last_stat_ts, loss_packages_per_secs, server, acks, acked, lost>>
  BY DEF Send
<1>4. env \in Environments /\ now \in env.start .. End
  BY DEF Shapes
<1>5. Clock(now) \in Stamp /\ now \in Nat /\ now \in 0 .. End
  BY <1>4, ClockType, EndType
<1>6. b.k \in Nat /\ created + b.k <= MaxPackages /\ MaxPackages \in Nat
  BY <1>1, <1>2, Constants
<1>7. /\ IsFiniteSet(NewPackages(b.k)) /\ Cardinality(NewPackages(b.k)) = b.k
      /\ sent_queue \cap NewPackages(b.k) = {} /\ NewPackages(b.k) \subseteq Package
  <2>1. \A p \in NewPackages(b.k) : p.id \in (created + 1) .. (created + b.k) /\ p \in Package
    BY <1>1, <1>5, <1>6 DEF NewPackages, Package
  <2>2. QED
    BY <1>1, <1>6, <2>1, BurstSize DEF Shapes
<1>8. IsFiniteSet(sent_queue') /\ Cardinality(sent_queue') = Cardinality(sent_queue) + b.k
      /\ Cardinality(sent_queue) \in Nat
  <2>1. IsFiniteSet(sent_queue)
    BY DEF Shapes
  <2>2. Cardinality(sent_queue \cup NewPackages(b.k))
          = Cardinality(sent_queue) + Cardinality(NewPackages(b.k)) - Cardinality(sent_queue \cap NewPackages(b.k))
    BY <1>7, <2>1, FS_Union
  <2>3. Cardinality({}) = 0 /\ Cardinality(sent_queue) \in Nat
    BY <2>1, FS_EmptySet, FS_CardinalityType
  <2>4. IsFiniteSet(sent_queue \cup NewPackages(b.k))
    BY <1>7, <2>1, FS_Union
  <2>5. Cardinality(sent_queue \cup NewPackages(b.k)) = Cardinality(sent_queue) + b.k - 0
    BY <1>7, <2>2, <2>3
  <2>6. Cardinality(sent_queue \cup NewPackages(b.k)) = Cardinality(sent_queue) + b.k
    BY <1>6, <2>3, <2>5
  <2>7. QED
    BY <1>2, <2>3, <2>4, <2>6
<1>9. net' \subseteq NetPackage
  <2>1. \A i \in b.arriving : created + i \in 1 .. MaxPackages
    BY <1>1, <1>2, <1>6
  <2>2. net \subseteq NetPackage
    BY DEF Shapes
  <2>3. QED
    BY <1>2, <1>5, <2>1, <2>2 DEF NetPackage
<1>10. \A p \in sent_queue' : p \in Package /\ p.id <= created'
  <2>1. \A p \in sent_queue : p \in Package /\ p.id <= created /\ p.id \in Int
    BY Constants DEF Shapes, Package
  <2>2. \A p \in NewPackages(b.k) : p \in Package /\ p.id <= created + b.k
    BY <1>1, <1>6, <1>7 DEF NewPackages
  <2>3. QED
    BY <1>1, <1>2, <1>6, <2>1, <2>2
<1>11. deadline' \in 0 .. (End + Period)
  BY <1>3, <1>4, EndType
<1>12. Shapes'
  <2>1. now' <= deadline'
    BY <1>3, <1>5, EndType, <1>4
  <2>2. QED
    BY <1>3, <1>8, <1>9, <1>10, <1>11, <2>1 DEF Shapes, End, NetPackage, Ack
<1>13. Counts'
  <2>1. created' \in 0 .. MaxPackages
    BY <1>1, <1>2, <1>6
  <2>2. created' = Cardinality(sent_queue') + acked' + lost'
    BY <1>2, <1>3, <1>6, <1>8 DEF Counts
  <2>3. sent_packages_per_secs' \in 0 .. created'
    BY <1>1, <1>2, <1>6 DEF Counts
  <2>4. QED
    BY <1>3, <2>1, <2>2, <2>3 DEF Counts
<1>14. QED
  BY <1>12, <1>13

LEMMA RecvShapes ==
  ASSUME Shapes, Counts, RecvAck
  PROVE  Shapes' /\ Counts'
<1>1. PICK a \in acks :
        /\ acks' = acks \/ acks' = acks \ {a}
        /\ \/ \E p \in sent_queue : Match(a, p)
           \/ UNCHANGED <<rtt, sent_queue, acked>>
  BY DEF RecvAck, First
<1>2. pc' = "stat" /\ UNCHANGED <<env, now, deadline, last_stat_ts, loss_packages_per_secs,
                                  sent_packages_per_secs, net, server, created, lost>>
  BY DEF RecvAck
<1>3. CASE UNCHANGED <<rtt, sent_queue, acked>>
  BY <1>1, <1>2, <1>3, QuietShapes DEF Shapes
<1>4. ASSUME NEW p \in sent_queue, Match(a, p)
      PROVE  Shapes' /\ Counts'
  <2>1. rtt' \in Int
    <3>1. a.ack_timestamp \in Int /\ a.recv_delay \in Int /\ rtt \in Int
      BY <1>1, Constants DEF Shapes, Ack, Stamp
    <3>2. Minus(Clock(now), a.ack_timestamp) \in Int
      <4>1. now \in Nat
        BY EndType DEF Shapes
      <4>2. Clock(now) \in Int
        BY <4>1, ClockType, Constants DEF Stamp
      <4>3. Minus(Clock(now), a.ack_timestamp) \in Stamp
        BY <3>1, <4>2, MinusType
      <4>4. QED
        BY <4>3, Constants DEF Stamp
    <3>3. QED
      BY <1>4, <3>1, <3>2 DEF Match, Between
  <2>2. sent_queue' = sent_queue \ {p} /\ acked' = acked + 1
    BY <1>4 DEF Match
  <2>3. /\ IsFiniteSet(sent_queue \ {p}) /\ Cardinality(sent_queue \ {p}) = Cardinality(sent_queue) - 1
        /\ Cardinality(sent_queue) \in Nat
    BY FS_RemoveElement, FS_CardinalityType DEF Shapes
  <2>4. Shapes'
    BY <1>1, <1>2, <2>1, <2>2, <2>3 DEF Shapes, End, NetPackage, Ack
  <2>5. Counts'
    BY <1>2, <2>2, <2>3 DEF Counts
  <2>6. QED
    BY <2>4, <2>5
<1>5. QED
  BY <1>1, <1>3, <1>4

LEMMA NextShapes ==
  ASSUME Shapes, Counts, [Next]_vars
  PROVE  Shapes' /\ Counts'
<1>1. env \in Environments /\ now \in Nat /\ now \in env.start .. End /\ Clock(now) \in Stamp
      /\ now \in 0 .. End
  BY ClockType, EndType DEF Shapes
<1>2. CASE UNCHANGED vars
  BY <1>2, QuietShapes DEF Shapes, vars
<1>3. CASE FirstStat
  BY <1>1, <1>3, QuietShapes DEF Shapes, FirstStat, netVars, countVars
<1>4. CASE Timeout
  BY <1>4, QuietShapes DEF Shapes, Timeout, netVars, countVars, qosVars
<1>5. CASE ServerRecv
  <2>1. PICK p \in net : /\ server' = [pkg |-> p, recv_ts |-> Clock(now), since |-> now]
                         /\ net' = net \ {p}
    BY <1>5 DEF ServerRecv
  <2>2. server' \in [pkg : NetPackage, recv_ts : Stamp, since : 0 .. End]
    BY <1>1, <2>1 DEF Shapes
  <2>3. QED
    BY <1>1, <1>5, <2>1, <2>2, QuietShapes DEF Shapes, ServerRecv, countVars, qosVars
<1>6. CASE ServerAck
  <2>1. server \in [pkg : NetPackage, recv_ts : Stamp, since : 0 .. End] /\ server.pkg \in NetPackage
    BY <1>6 DEF Shapes, ServerAck
  <2>2. RecvDelay \in Stamp
    <3>1. 0 \in Stamp /\ server.recv_ts \in Int /\ Clock(now) \in Int
      BY <1>1, <2>1, Constants DEF Stamp
    <3>2. QED
      BY <3>1, MinusType DEF RecvDelay
  <2>3. [id |-> server.pkg.id, ack_timestamp |-> server.pkg.timestamp,
         recv_delay |-> RecvDelay, at |-> server.pkg.at] \in Ack
    BY <2>1, <2>2 DEF NetPackage, Ack
  <2>4. acks' \subseteq Ack
    BY <1>6, <2>3 DEF ServerAck, Shapes
  <2>5. QED
    BY <1>1, <1>6, <2>4, QuietShapes DEF Shapes, ServerAck, countVars, qosVars
<1>7. CASE Tick
  <2>1. now' \in env.start .. End /\ now' <= deadline
    BY <1>1, <1>7, EndType DEF Tick, Shapes
  <2>2. QED
    BY <1>7, <2>1, QuietShapes DEF Shapes, Tick, countVars, qosVars
<1>8. QED
  BY <1>2, <1>3, <1>4, <1>5, <1>6, <1>7, StatShapes, SendShapes, RecvShapes DEF Next

-----------------------------------------------------------------------------
(* What is on the network, and since when.                                   *)

Times ==
  /\ \A p \in net : /\ p.timestamp = Clock(p.at) /\ p.at \in env.start .. now
                    /\ now - p.at <= env.max_delay
  /\ server # NULL =>
       /\ server.pkg.timestamp = Clock(server.pkg.at) /\ server.recv_ts = Clock(server.since)
       /\ server.pkg.at \in env.start .. server.since /\ server.since \in env.start .. now
       /\ server.since - server.pkg.at <= env.max_delay /\ now - server.since <= env.max_hold
  /\ \A a \in acks : /\ a.ack_timestamp = Clock(a.at) /\ a.at \in env.start .. now
                     /\ now - a.at <= env.max_delay + env.max_hold

LEMMA TimesHold ==
  ASSUME Shapes, Times, [Next]_vars
  PROVE  Times'
<1>1. env \in Environments /\ now \in Nat /\ env.start \in Nat /\ now \in env.start .. End
      /\ env.max_delay \in Nat /\ env.max_hold \in Nat
  BY EndType DEF Shapes
<1>2. (\A p \in net : p.at \in Int) /\ (\A a \in acks : a.at \in Int)
  BY EndType DEF Shapes, NetPackage, Ack
<1>3. CASE UNCHANGED <<env, now, net, server, acks>>
  BY <1>3 DEF Times
<1>4. CASE Send
  <2>1. /\ UNCHANGED <<env, now, server, acks>>
        /\ \A p \in net' : p \in net \/ (p.timestamp = Clock(now) /\ p.at = now)
    BY <1>4 DEF Send
  <2>2. \A p \in net' : /\ p.timestamp = Clock(p.at) /\ p.at \in env.start .. now
                        /\ now - p.at <= env.max_delay
    BY <1>1, <2>1 DEF Times
  <2>3. QED
    BY <2>1, <2>2 DEF Times
<1>5. CASE RecvAck
  BY <1>5 DEF RecvAck, Times
<1>6. CASE ServerRecv
  <2>1. PICK p \in net : /\ server' = [pkg |-> p, recv_ts |-> Clock(now), since |-> now]
                         /\ net' = net \ {p} /\ UNCHANGED <<env, now, acks>>
    BY <1>6 DEF ServerRecv
  <2>2. QED
    BY <1>1, <2>1 DEF Times
<1>7. CASE ServerAck
  <2>1. /\ server # NULL /\ server' = NULL /\ UNCHANGED <<env, now, net>>
        /\ \A a \in acks' : a \in acks \/ (a.ack_timestamp = server.pkg.timestamp /\ a.at = server.pkg.at)
    BY <1>7 DEF ServerAck
  <2>2. /\ server.pkg.at \in env.start .. now
        /\ now - server.pkg.at <= env.max_delay + env.max_hold
    BY <1>1, <2>1 DEF Times
  <2>3. QED
    BY <2>1, <2>2 DEF Times
<1>8. CASE Tick
  <2>1. /\ now' = now + 1 /\ UNCHANGED <<env, server>>
        /\ server # NULL => now + 1 - server.since <= env.max_hold
        /\ net' = {p \in net : now + 1 - p.at <= env.max_delay}
        /\ acks' = {a \in acks : now + 1 - a.at <= env.max_delay}
    BY <1>8 DEF Tick
  <2>2. \A p \in net' : /\ p.timestamp = Clock(p.at) /\ p.at \in env.start .. now'
                        /\ now' - p.at <= env.max_delay
    BY <1>1, <2>1 DEF Times
  <2>3. \A a \in acks' : /\ a.ack_timestamp = Clock(a.at) /\ a.at \in env.start .. now'
                         /\ now' - a.at <= env.max_delay + env.max_hold
    BY <1>1, <1>2, <2>1 DEF Times
  <2>4. server # NULL => server.since \in env.start .. now'
    BY <1>1, <2>1 DEF Times
  <2>5. server' # NULL =>
          /\ server'.pkg.timestamp = Clock(server'.pkg.at) /\ server'.recv_ts = Clock(server'.since)
          /\ server'.pkg.at \in env'.start .. server'.since /\ server'.since \in env'.start .. now'
          /\ server'.since - server'.pkg.at <= env'.max_delay /\ now' - server'.since <= env'.max_hold
    <3>1. server' = server /\ env' = env
      BY <2>1
    <3>2. server # NULL => now' - server.since <= env.max_hold
      BY <1>1, <2>1, <2>4
    <3>3. server # NULL =>
            /\ server.pkg.timestamp = Clock(server.pkg.at) /\ server.recv_ts = Clock(server.since)
            /\ server.pkg.at \in env.start .. server.since
            /\ server.since - server.pkg.at <= env.max_delay
      BY DEF Times
    <3>4. QED
      BY <2>4, <3>1, <3>2, <3>3, Zenon
  <2>6. env' = env
    BY <2>1
  <2>7. QED
    BY <2>2, <2>3, <2>5, <2>6 DEF Times
<1>9. QED
  BY <1>3, <1>4, <1>5, <1>6, <1>7, <1>8 DEF Next, FirstStat, Stat, Timeout, vars, netVars

-----------------------------------------------------------------------------
(* Over TCP, inside a second: the delay an acknowledgement reports is what   *)
(* lay between two moments of its trip, and the rest is the network's.       *)

OneSecond == now \div SecTicks = env.start \div SecTicks

Measured ==
  ~Lossy /\ OneSecond =>
    /\ rtt \in 0 .. env.max_delay
    /\ \A a \in acks : a.recv_delay \in 0 .. (now - a.at) /\ now - a.at - a.recv_delay <= env.max_delay

\* A moment between the start and now belongs to the second as well.
LEMMA Earlier ==
  ASSUME Shapes, OneSecond, NEW t \in env.start .. now
  PROVE  t \in Nat /\ t \div SecTicks = now \div SecTicks
<1>1. env.start \in Nat /\ now \in Nat /\ t \in Nat /\ env.start <= t /\ t <= now
      /\ SecTicks \in Nat \ {0}
  BY Constants DEF Shapes
<1>2. (env.start \div SecTicks) <= (t \div SecTicks) /\ (t \div SecTicks) \in Nat
  BY <1>1, DivGrows
<1>3. (t \div SecTicks) <= (now \div SecTicks) /\ (now \div SecTicks) \in Nat
  BY <1>1, DivGrows
<1> DEFINE q == t \div SecTicks
           n == now \div SecTicks
<1>4. q \in Nat /\ n \in Nat /\ n <= q /\ q <= n
  BY <1>2, <1>3 DEF OneSecond
<1> HIDE DEF q, n
<1>5. q = n
  BY <1>4
<1>6. QED
  BY <1>1, <1>5 DEF q, n

LEMMA MeasuredHolds ==
  ASSUME Shapes, Times, Measured, [Next]_vars
  PROVE  Measured'
<1> SUFFICES ASSUME (~Lossy)', OneSecond'
             PROVE  /\ rtt' \in 0 .. env'.max_delay
                    /\ \A a \in acks' : /\ a.recv_delay \in 0 .. (now' - a.at)
                                        /\ now' - a.at - a.recv_delay <= env'.max_delay
  BY DEF Measured
<1>1. env \in Environments /\ now \in Nat /\ env.start \in Nat /\ now \in env.start .. End
      /\ env.max_delay \in Nat
  BY EndType DEF Shapes
<1>2. \A a \in acks : a.at \in Int /\ a.recv_delay \in Int
  BY Constants, EndType DEF Shapes, Ack, Stamp
<1>3. env' = env /\ (now' = now \/ Tick)
  BY DEF Next, FirstStat, Stat, Send, Timeout, RecvAck, ServerRecv, ServerAck, Tick, vars
<1>4. ~Lossy
  BY <1>3 DEF Lossy
<1>5. OneSecond
  <2>1. CASE now' = now
    BY <1>3, <2>1 DEF OneSecond
  <2>2. CASE now' = now + 1
    <3> DEFINE s == env.start \div SecTicks
               n == now \div SecTicks
               m == (now + 1) \div SecTicks
    <3>1. s \in Nat /\ n \in Nat /\ s <= n
      BY <1>1, Constants, DivGrows
    <3>2. m \in Nat /\ n <= m
      BY <1>1, Constants, DivGrows
    <3>3. m = s
      BY <1>3, <2>2 DEF OneSecond
    <3> HIDE DEF s, n, m
    <3>4. n = s
      BY <3>1, <3>2, <3>3
    <3>5. QED
      BY <3>4 DEF s, n, OneSecond
  <2>3. QED
    BY <1>3, <2>1, <2>2 DEF Tick
<1>6. /\ rtt \in 0 .. env.max_delay
      /\ \A a \in acks : a.recv_delay \in 0 .. (now - a.at) /\ now - a.at - a.recv_delay <= env.max_delay
  BY <1>4, <1>5 DEF Measured
<1>7. CASE UNCHANGED <<now, rtt, acks>>
  BY <1>3, <1>6, <1>7
<1>8. CASE RecvAck
  <2>1. now' = now /\ acks' \subseteq acks
    BY <1>8 DEF RecvAck
  <2>2. PICK a \in acks : rtt' = rtt \/ \E p \in sent_queue : Match(a, p)
    BY <1>8 DEF RecvAck, First
  <2>3. a.at \in env.start .. now /\ a.ack_timestamp = Clock(a.at)
    BY DEF Times
  <2>4. Minus(Clock(now), a.ack_timestamp) = now - a.at
    BY <1>1, <1>5, <2>3, Earlier, SameSecond
  <2>5. now - a.at - a.recv_delay \in 0 .. env.max_delay
    BY <1>1, <1>2, <1>6
  <2>6. rtt' = rtt \/ rtt' \in Between(rtt, now - a.at - a.recv_delay)
    BY <2>2, <2>4 DEF Match
  <2>7. rtt' \in 0 .. env.max_delay
    BY <1>1, <1>6, <2>5, <2>6 DEF Between
  <2>8. QED
    BY <1>3, <1>6, <2>1, <2>7
<1>9. CASE ServerAck
  <2>1. server # NULL /\ now' = now /\ rtt' = rtt
        /\ \A a \in acks' : a \in acks \/ (a.recv_delay = RecvDelay /\ a.at = server.pkg.at)
    BY <1>9 DEF ServerAck, qosVars
  <2>2. /\ server.recv_ts = Clock(server.since) /\ server.since \in env.start .. now
        /\ server.pkg.at \in env.start .. server.since
        /\ server.since - server.pkg.at <= env.max_delay
    BY <2>1 DEF Times
  <2>3. RecvDelay = now - server.since
    BY <1>1, <1>4, <1>5, <2>2, Earlier, SameSecond DEF RecvDelay
  <2>4. /\ RecvDelay \in 0 .. (now - server.pkg.at)
        /\ now - server.pkg.at - RecvDelay <= env.max_delay
    BY <1>1, <2>2, <2>3
  <2>5. QED
    BY <1>3, <1>6, <2>1, <2>4
<1>10. CASE Tick
  <2>1. /\ now' = now + 1 /\ rtt' = rtt /\ acks' \subseteq acks
        /\ \A a \in acks : now + 1 - a.at <= env.max_delay
    BY <1>4, <1>10 DEF Tick, qosVars
  <2>2. QED
    BY <1>1, <1>2, <1>3, <1>6, <2>1
<1>11. QED
  BY <1>7, <1>8, <1>9, <1>10
     DEF Next, FirstStat, Stat, Send, Timeout, ServerRecv, vars, netVars, qosVars

-----------------------------------------------------------------------------
(* On a slow network: a package is lost before its acknowledgement can come. *)

Slow == env.min_delay > Period /\ ClockTells

\* The time of a timestamp in the queue.  The first run of nwc_qos_stat after it
\* takes the package away; until then no more than a period passes.
Fresh(ts) ==
  \E t \in env.start .. now :
    /\ ts = Clock(t)
    /\ pc = "wait" => deadline <= t + Period
    /\ pc = "stat" => now <= t + Period
    /\ pc = "send" => t = now

Unmeasured ==
  Slow =>
    /\ rtt = 0 /\ acked = 0
    /\ last_stat_ts = 0 => pc = "stat" /\ sent_queue = {}
    /\ \A p \in sent_queue : Fresh(p.timestamp)

LEMMA SlowBefore ==
  ASSUME Shapes, [Next]_vars, Slow'
  PROVE  Slow /\ env' = env
<1>1. env' = env /\ (now' = now \/ now' = now + 1)
  BY DEF Next, FirstStat, Stat, Send, Timeout, RecvAck, ServerRecv, ServerAck, Tick, vars
<1>2. CASE now' = now
  BY <1>1, <1>2 DEF Slow, ClockTells
<1>3. CASE now' = now + 1
  <2> DEFINE n == now \div SecTicks
             m == (now + 1) \div SecTicks
  <2>1. now \in Nat
    BY EndType DEF Shapes
  <2>2. n \in Nat /\ m \in Nat /\ n <= m
    BY <2>1, Constants, DivGrows
  <2>3. m * SecMilis + SecTicks <= Width
    BY <1>1, <1>3 DEF Slow, ClockTells
  <2> HIDE DEF n, m
  <2>4. n * SecMilis <= m * SecMilis /\ n * SecMilis \in Nat /\ m * SecMilis \in Nat
    BY <2>2, Constants, TimesGrows
  <2>5. n * SecMilis + SecTicks <= Width
    BY <2>3, <2>4, Constants
  <2>6. QED
    BY <1>1, <2>5 DEF n, Slow, ClockTells
<1>4. QED
  BY <1>1, <1>2, <1>3

\* Timestamps of different times are told apart while a package may be about.
LEMMA Apart ==
  ASSUME Shapes, Slow, NEW s \in env.start .. now, NEW t \in env.start .. now, s < t,
         t - s <= env.max_delay + env.max_hold
  PROVE  Clock(s) # Clock(t)
<1>1. /\ env.start \in Nat /\ now \in Nat /\ s \in Nat /\ t \in Nat /\ t <= now
      /\ env.max_delay \in Nat /\ env.max_hold \in Nat /\ SecTicks \in Nat /\ SecMilis \in Nat
  BY EndType, Constants DEF Shapes
<1>2. t - s < SecTicks - SecMilis
  BY <1>1 DEF Slow, ClockTells
<1>3. (t \div SecTicks) * SecMilis + SecTicks <= Width
  <2> DEFINE n == now \div SecTicks
             m == t \div SecTicks
  <2>1. n \in Nat /\ m \in Nat /\ m <= n
    BY <1>1, Constants, DivGrows
  <2>2. n * SecMilis + SecTicks <= Width
    BY DEF Slow, ClockTells
  <2> HIDE DEF n, m
  <2>3. m * SecMilis <= n * SecMilis /\ n * SecMilis \in Nat /\ m * SecMilis \in Nat
    BY <1>1, <2>1, TimesGrows
  <2>4. m * SecMilis + SecTicks <= Width
    BY <1>1, <2>2, <2>3, Constants
  <2>5. QED
    BY <2>4 DEF m
<1>4. QED
  BY <1>1, <1>2, <1>3, ClockApart

LEMMA StatUnmeasured ==
  ASSUME Shapes, Slow, rtt = 0, \A p \in sent_queue : Fresh(p.timestamp), pc = "stat"
  PROVE  \A p \in sent_queue : ~Overdue(p.timestamp) => p.timestamp = Clock(now)
<1> SUFFICES ASSUME NEW p \in sent_queue, p.timestamp # Clock(now)
             PROVE  Overdue(p.timestamp)
  OBVIOUS
<1>1. env \in Environments /\ now \in Nat /\ env.start \in Nat /\ now \in env.start .. now
  BY EndType DEF Shapes
<1>2. PICK t \in env.start .. now : p.timestamp = Clock(t) /\ now <= t + Period
  BY DEF Fresh
<1>3. Clock(now) \in Stamp /\ Clock(t) \in Stamp
  BY <1>1, <1>2, ClockType
<1>4. Minus(Clock(now), Clock(t)) > 0
  BY <1>2, <1>3, MinusPositive
<1>5. QED
  BY <1>2, <1>4 DEF Overdue

\* No acknowledgement finds its package, nor any other, in the queue.
LEMMA NothingMatches ==
  ASSUME Shapes, Times, Slow, Unmeasured, pc = "wait", NEW a \in acks,
         now - a.at >= env.min_delay, NEW p \in sent_queue
  PROVE  p.timestamp # a.ack_timestamp
<1>1. /\ env.start \in Nat /\ now \in Nat /\ env.min_delay \in Nat /\ env.max_delay \in Nat
      /\ env.max_hold \in Nat /\ Period \in Nat /\ now <= deadline /\ deadline \in Nat
  BY EndType DEF Shapes
<1>2. PICK t \in env.start .. now : p.timestamp = Clock(t) /\ deadline <= t + Period
  BY DEF Unmeasured, Fresh
<1>3. a.ack_timestamp = Clock(a.at) /\ a.at \in env.start .. now
      /\ now - a.at <= env.max_delay + env.max_hold
  BY DEF Times
<1>4. env.min_delay > Period
  BY DEF Slow
<1>5. a.at < t /\ t - a.at <= env.max_delay + env.max_hold
  BY <1>1, <1>2, <1>3, <1>4
<1>6. QED
  BY <1>2, <1>3, <1>5, Apart

LEMMA UnmeasuredHolds ==
  ASSUME Shapes, Times, Unmeasured, [Next]_vars
  PROVE  Unmeasured'
<1> SUFFICES ASSUME Slow' PROVE Unmeasured'
  BY DEF Unmeasured
<1>1. Slow /\ env' = env
  BY SlowBefore
<1>2. /\ rtt = 0 /\ acked = 0 /\ (last_stat_ts = 0 => pc = "stat" /\ sent_queue = {})
      /\ \A p \in sent_queue : Fresh(p.timestamp)
  BY <1>1 DEF Unmeasured
<1>3. /\ env \in Environments /\ now \in Nat \ {0} /\ env.start \in Nat /\ now \in env.start .. now
      /\ (pc = "wait" => now <= deadline) /\ Period \in Nat /\ deadline \in Nat
  BY EndType DEF Shapes
<1>4. Clock(now) # 0
  BY <1>1, <1>3, ClockPositive DEF Slow, ClockTells
<1>5. CASE UNCHANGED <<now, pc, deadline, sent_queue, rtt, last_stat_ts, acked>>
  BY <1>1, <1>2, <1>5 DEF Unmeasured, Fresh
<1>6. CASE FirstStat
  <2>1. last_stat_ts' = Clock(now) /\ sent_queue' = {} /\ rtt' = 0 /\ acked' = 0
    BY <1>2, <1>6 DEF FirstStat, countVars
  <2>2. QED
    BY <1>4, <2>1 DEF Unmeasured
<1>7. CASE Stat
  <2>1. /\ pc' = "send" /\ rtt' = 0 /\ acked' = 0 /\ now' = now /\ last_stat_ts' # 0
        /\ \A p \in sent_queue' : p \in sent_queue /\ ~Overdue(p.timestamp)
    BY <1>2, <1>4, <1>7 DEF Stat
  <2>2. \A p \in sent_queue' : p.timestamp = Clock(now)
    BY <1>1, <1>2, <1>7, <2>1, StatUnmeasured DEF Stat
  <2>3. \A p \in sent_queue' : Fresh(p.timestamp)'
    BY <1>1, <1>3, <2>1, <2>2 DEF Fresh
  <2>4. QED
    BY <2>1, <2>3 DEF Unmeasured
<1>8. CASE Send
  <2>1. /\ pc = "send" /\ pc' = "wait" /\ deadline' = now + Period /\ now' = now
        /\ UNCHANGED <<rtt, last_stat_ts, acked>>
        /\ \A p \in sent_queue' : p \in sent_queue \/ p.timestamp = Clock(now)
    BY <1>8 DEF Send
  <2>2. \A p \in sent_queue' : p.timestamp = Clock(now)
    BY <1>2, <2>1 DEF Fresh
  <2>3. \A p \in sent_queue' : Fresh(p.timestamp)'
    BY <1>1, <1>3, <2>1, <2>2 DEF Fresh
  <2>4. QED
    BY <1>2, <2>1, <2>3 DEF Unmeasured
<1>9. CASE Timeout
  <2>1. /\ pc = "wait" /\ now = deadline /\ pc' = "stat"
        /\ UNCHANGED <<now, deadline, sent_queue, rtt, last_stat_ts, acked>>
    BY <1>9 DEF Timeout, qosVars, countVars
  <2>2. \A p \in sent_queue : Fresh(p.timestamp)'
    BY <1>1, <1>2, <2>1 DEF Fresh
  <2>3. QED
    BY <1>2, <2>1, <2>2 DEF Unmeasured
<1>10. CASE RecvAck
  <2>1. pc = "wait" /\ pc' = "stat" /\ UNCHANGED <<now, deadline, last_stat_ts>>
    BY <1>10 DEF RecvAck
  <2>2. UNCHANGED <<rtt, sent_queue, acked>>
    <3>1. PICK a \in acks : /\ now - a.at >= env.min_delay
                            /\ \/ First(a.ack_timestamp) # {}
                               \/ UNCHANGED <<rtt, sent_queue, acked>>
      BY <1>10 DEF RecvAck
    <3>2. First(a.ack_timestamp) = {}
      BY <1>1, <2>1, <3>1, NothingMatches DEF First
    <3>3. QED
      BY <3>1, <3>2
  <2>3. \A p \in sent_queue : Fresh(p.timestamp)'
    <3> SUFFICES ASSUME NEW p \in sent_queue PROVE Fresh(p.timestamp)'
      OBVIOUS
    <3>1. PICK t \in env.start .. now : p.timestamp = Clock(t) /\ deadline <= t + Period
      BY <1>2, <2>1 DEF Fresh
    <3>2. now <= t + Period
      BY <1>3, <2>1, <3>1
    <3>3. QED
      BY <1>1, <2>1, <3>1, <3>2 DEF Fresh
  <2>4. QED
    BY <1>2, <2>1, <2>2, <2>3 DEF Unmeasured
<1>11. CASE Tick
  <2>1. /\ pc = "wait" /\ now' = now + 1 /\ UNCHANGED <<pc, deadline, sent_queue, rtt, last_stat_ts, acked>>
    BY <1>11 DEF Tick, qosVars, countVars
  <2>2. \A t \in env.start .. now : t \in env.start .. now'
    BY <1>3, <2>1
  <2>3. \A p \in sent_queue : Fresh(p.timestamp)'
    BY <1>1, <1>2, <2>1, <2>2 DEF Fresh
  <2>4. QED
    BY <1>2, <2>1, <2>3 DEF Unmeasured
<1>12. QED
  BY <1>5, <1>6, <1>7, <1>8, <1>9, <1>10, <1>11
     DEF Next, ServerRecv, ServerAck, vars, qosVars, countVars

-----------------------------------------------------------------------------
IInv == Shapes /\ Counts /\ Times /\ Measured /\ Unmeasured

\* The invariant of the measurements from which the three others follow: types
\* and counts, the times of what is on the network, and what they make of rtt
\* (nwc_qos_protocol.c, with nwc_connection_on_send and nwc_connection_on_recv).
THEOREM Invariance == Spec => []IInv
<1>1. Init => IInv
  <2> SUFFICES ASSUME Init PROVE IInv
    OBVIOUS
  <2>1. Shapes /\ Counts
    BY InitShapes
  <2>2. Times
    BY DEF Init, Times
  <2>3. Measured
    <3>1. env.max_delay \in Nat
      BY <2>1, EndType DEF Shapes
    <3>2. QED
      BY <3>1 DEF Init, Measured
  <2>4. Unmeasured
    BY DEF Init, Unmeasured
  <2>5. QED
    BY <2>1, <2>2, <2>3, <2>4 DEF IInv
<1>2. IInv /\ [Next]_vars => IInv'
  BY NextShapes, TimesHold, MeasuredHolds, UnmeasuredHolds DEF IInv
<1>3. QED
  BY <1>1, <1>2, PTL DEF Spec

\* Every package a client has made is in sent_queue, or was matched to an
\* acknowledgement, or declared lost, and counted once (nwc_qos_create_package,
\* nwc_qos_stat, nwc_qos_process_package), on any network; with the types.
THEOREM PackagesAreCounted == Spec => []Accounting
<1>1. IInv => Accounting
  <2> SUFFICES ASSUME IInv PROVE Accounting
    OBVIOUS
  <2> USE DEF IInv
  <2>1. env \in Environments /\ env.start \in Nat /\ now \in env.start .. End
        /\ End \in Nat /\ MaxPackages \in Nat
    BY EndType DEF Shapes
  <2>2. now \in 0 .. End
    BY <2>1
  <2>3. Cardinality(sent_queue) \in Nat
    BY FS_CardinalityType DEF Shapes
  <2>4. /\ created \in 0 .. MaxPackages /\ acked \in 0 .. MaxPackages /\ lost \in 0 .. MaxPackages
        /\ loss_packages_per_secs \in 0 .. MaxPackages
        /\ sent_packages_per_secs \in 0 .. MaxPackages
    BY <2>1, <2>3 DEF Counts
  <2>5. TypeOK
    BY <2>2, <2>4 DEF Shapes, TypeOK
  <2>6. QED
    BY <2>5 DEF Counts, Accounting
<1>2. QED
  BY <1>1, Invariance, PTL

\* Over TCP and inside a second of nwc_qos_milisecs the measured round trip is
\* one the network can have, however long the server holds a package.
THEOREM RoundTripsArePlausible == Spec => []RttPlausible
<1>1. IInv => RttPlausible
  BY DEF IInv, Measured, OneSecond, RttPlausible
<1>2. QED
  BY <1>1, Invariance, PTL

\* Whatever the network loses, repeats and reorders: if no answer takes less than
\* a period of the loop then nwc_qos_stat has declared every package lost before
\* its acknowledgement comes, and rtt is never measured.
THEOREM SlowIsNeverMeasured == Spec => []SlowNetworkNeverMeasured
<1>1. IInv => SlowNetworkNeverMeasured
  BY DEF IInv, Unmeasured, Slow, SlowNetworkNeverMeasured
<1>2. QED
  BY <1>1, Invariance, PTL
=============================================================================
