------------------------- MODULE NwcTcpStreamProofs -------------------------
(* The byte stream under the packages, for every number and length of        *)
(* packages, every size of the buffers and every way recv and send cut:      *)
(* StreamIntact, and TornOnlyByACut.                                         *)
(*                                                                           *)
(* The second is about units by their place in the stream.  While no send    *)
(* was cut every unit stands at its place inside its whole package, so a     *)
(* reader that stands behind a package stands before the next header         *)
(* (AtHeader), and the parse loop leaves less than a package (Short).  The   *)
(* order of packages is an order of their headers (InOrder), and what a      *)
(* server has acknowledged comes before all it has not (AcksBehind).         *)
EXTENDS NwcTcpStream, SequenceTheorems, TLAPS

Types ==
  /\ kernel_cap \in KernelCaps
  /\ pc \in [Sides -> {"idle", "send", "parse", "ack", "wild"}]
  /\ pc["client"] \in {"idle", "send", "parse"}
  /\ pc["server"] \in {"idle", "parse", "ack", "wild"}
  /\ pc["server"] = "wild" => wild
  /\ can_send \in BOOLEAN
  /\ sent \in 0..MaxPackages
  /\ sentbytes \in 0..(Bandwidth + PkgLen)
  /\ wire \in [Sides -> Seq(Unit)] /\ buff \in [Sides -> Seq(Unit)]
  /\ handled \in [Sides -> Seq(Unit)] /\ accepted \in [Sides -> Seq(Unit)]
  /\ packages \in [Sides -> Seq(Seq(Unit))]
  /\ \A s \in Sides : Len(wire[s]) <= kernel_cap[s] \/ Waiting(s)
  /\ \A s \in Sides : Len(buff[s]) <= RecvBuff
  /\ cut \subseteq {"server"} /\ closed \subseteq Sides /\ wild \in BOOLEAN

Intact(s) == handled[s] \o buff[s] \o wire[s] = accepted[s]

\* Nothing is claimed of what a wild parser leaves in recv_buff.
Wild(s) == s = "server" /\ wild

Stream == Types /\ \A s \in Sides : Intact(s) \/ Wild(s)

\* Unit k of a stream stands inside a whole package of length len.
InPackage(stream, k, len) ==
  LET u == stream[k]
  IN /\ u.at < len /\ u.at < k /\ k - u.at + len - 1 <= Len(stream)
     /\ \A j \in 0..len - 1 : stream[k - u.at + j] = [of |-> u.of, at |-> j]

Whole(stream, len) == \A k \in 1..Len(stream) : InPackage(stream, k, len)

\* A reader that has taken d units looks at a header next, if at anything.
HeaderAt(stream, d) == d < Len(stream) => stream[d + 1].at = 0

AtHeader(s) == HeaderAt(accepted[s], Len(handled[s]))

Short(s) == pc[s] \in {"idle", "send"} => Len(buff[s]) < Length(s)

CutOut(s) ==
  \A i \in 1..Len(packages[s]) : packages[s][i] = Package(packages[s][i][1].of, Length(s))

Framed(s) ==
  Whole(accepted[s], Length(s)) /\ AtHeader(s) /\ Short(s) /\ CutOut(s) /\ ~Wild(s)

AllFramed == \A s \in Sides \ cut : Framed(s)

\* The headers of a stream are in the order of the packages.
Ascend(stream) ==
  \A k, l \in 1..Len(stream) :
    k < l /\ stream[k].at = 0 /\ stream[l].at = 0 => stream[k].of < stream[l].of

\* All headers behind the first d units are of later packages than p.
Ahead(p, stream, d) == \A l \in d + 1..Len(stream) : stream[l].at = 0 => p < stream[l].of

\* Number of the i-th package a side has handled.
Nr(s, i) == packages[s][i][1].of

InOrder(s) ==
  /\ Ascend(accepted[s])
  /\ \A i \in 1..Len(packages[s]) : Ahead(Nr(s, i), accepted[s], Len(handled[s]))
  /\ \A i, j \in 1..Len(packages[s]) : i < j => Nr(s, i) < Nr(s, j)

\* Nothing is of a package the client has not made yet.
SentBefore ==
  \A s \in Sides : /\ \A k \in 1..Len(accepted[s]) : accepted[s][k].of <= sent
                   /\ \A i \in 1..Len(packages[s]) : Nr(s, i) <= sent

\* A package that is acknowledged comes before those the server has still to see.
ToCome(p) == Ahead(p, accepted["server"], Len(handled["server"]))

AcksBehind ==
  /\ \A k \in 1..Len(accepted["client"]) : ToCome(accepted["client"][k].of)
  /\ \A i \in 1..Len(packages["client"]) : ToCome(Nr("client", i))

InAllOrder == SentBefore /\ AcksBehind /\ \A s \in Sides : InOrder(s)

Ordered == cut = {} => InAllOrder

\* A side that closes and a parser that is wild have met a torn package.
EndsByACut == closed # {} \/ wild => cut # {}

IInv == Stream /\ AllFramed /\ Ordered /\ EndsByACut

-----------------------------------------------------------------------------
(* Sequences                                                                 *)

\* The front cut off a sequence, and put behind another with the rest.
LEMMA FrontAndRest ==
  ASSUME NEW T, NEW b \in Seq(T), NEW k \in 0..Len(b)
  PROVE  /\ SubSeq(b, 1, k) \in Seq(T) /\ SubSeq(b, k + 1, Len(b)) \in Seq(T)
         /\ Len(SubSeq(b, 1, k)) = k /\ Len(SubSeq(b, k + 1, Len(b))) = Len(b) - k
         /\ \A j \in 1..k : SubSeq(b, 1, k)[j] = b[j]
<1> DEFINE front == SubSeq(b, 1, k)
           rest == SubSeq(b, k + 1, Len(b))
<1>1. Len(b) \in Nat /\ k \in Int /\ \A i \in 1..Len(b) : b[i] \in T
  BY LenProperties, ElementOfSeq
<1>2. front \in Seq(T) /\ Len(front) = k /\ \A j \in 1..k : front[j] = b[j]
  <2>1. \A i \in 1..k : b[i] \in T
    BY <1>1
  <2>2. /\ front \in Seq(T) /\ Len(front) = (IF 1 <= k THEN k - 1 + 1 ELSE 0)
        /\ \A i \in 1..k - 1 + 1 : front[i] = b[1 + i - 1]
    BY <1>1, <2>1, SubSeqProperties
  <2>3. QED
    BY <1>1, <2>2
<1>3. rest \in Seq(T) /\ Len(rest) = Len(b) - k
  <2>1. \A i \in k + 1..Len(b) : b[i] \in T
    BY <1>1
  <2>2. /\ rest \in Seq(T)
        /\ Len(rest) = (IF k + 1 <= Len(b) THEN Len(b) - (k + 1) + 1 ELSE 0)
    BY <1>1, <2>1, SubSeqProperties
  <2>3. QED
    BY <1>1, <2>2
<1>4. QED
  BY <1>2, <1>3

LEMMA Rejoin ==
  ASSUME NEW T, NEW h \in Seq(T), NEW b \in Seq(T), NEW k \in 0..Len(b)
  PROVE  (h \o SubSeq(b, 1, k)) \o SubSeq(b, k + 1, Len(b)) = h \o b
<1> DEFINE front == SubSeq(b, 1, k)
           rest == SubSeq(b, k + 1, Len(b))
<1>1. Len(b) \in Nat
  BY LenProperties
<1>2. front \in Seq(T) /\ rest \in Seq(T)
  BY FrontAndRest
<1>3. front \o rest = b
  <2>1. 1 \in 1..Len(b) + 1 /\ k \in 1 - 1..Len(b) /\ Len(b) \in k..Len(b)
    BY <1>1
  <2>2. front \o rest = SubSeq(b, 1, Len(b))
    BY <2>1, ConcatAdjacentSubSeq
  <2>3. QED
    BY <2>2, SubSeqFull
<1>4. (h \o front) \o rest = h \o (front \o rest)
  <2> HIDE DEF front, rest
  <2>1. QED
    BY <1>2, ConcatAssociative
<1>5. QED
  BY <1>3, <1>4

LEMMA UnitsAssociate == \A x, y, z \in Seq(Unit) : (x \o y) \o z = x \o (y \o z)
BY ConcatAssociative

\* A package of len units, len being the length of one or of an acknowledgement.
LEMMA PackageUnits ==
  ASSUME NEW p \in 1..MaxPackages, NEW len \in {PkgLen, AckLen}
  PROVE  /\ Package(p, len) \in Seq(Unit) /\ Len(Package(p, len)) = len
         /\ len \in Nat \ {0} /\ len <= RecvBuff
         /\ \A i \in 1..len : Package(p, len)[i] = [of |-> p, at |-> i - 1]
<1>1. PkgLen \in Nat \ {0} /\ AckLen \in Nat \ {0} /\ len \in Nat \ {0} /\ len <= RecvBuff
  BY StreamAssumption
<1>2. \A i \in 1..len : [of |-> p, at |-> i - 1] \in Unit
  BY <1>1 DEF Unit
<1>3. Package(p, len) \in [1..len -> Unit]
  BY <1>2 DEF Package
<1>4. QED
  BY <1>1, <1>3, SeqDef DEF Package

LEMMA UnitPlace ==
  ASSUME NEW stream \in Seq(Unit), NEW k \in 1..Len(stream)
  PROVE  /\ stream[k] \in Unit
         /\ stream[k].at \in Nat /\ stream[k].of \in 1..MaxPackages
<1>1. stream[k] \in Unit
  BY ElementOfSeq
<1>2. QED
  BY <1>1, StreamAssumption DEF Unit

\* A stream behind which package p has come.
GrownBy(stream, len, p, grown) ==
  /\ grown \in Seq(Unit) /\ Len(stream) \in Nat /\ len \in Nat \ {0}
  /\ Len(grown) = Len(stream) + len
  /\ \A k \in 1..Len(stream) : grown[k] = stream[k]
  /\ \A k \in Len(stream) + 1..Len(stream) + len :
       grown[k] = [of |-> p, at |-> k - Len(stream) - 1]

LEMMA Grown ==
  ASSUME NEW stream \in Seq(Unit), NEW len \in {PkgLen, AckLen}, NEW p \in 1..MaxPackages
  PROVE  GrownBy(stream, len, p, stream \o Package(p, len))
<1> DEFINE units == Package(p, len)
<1>1. /\ units \in Seq(Unit) /\ Len(units) = len /\ len \in Nat \ {0}
      /\ \A i \in 1..len : units[i] = [of |-> p, at |-> i - 1]
  BY PackageUnits
<1>2. Len(stream) \in Nat
  BY LenProperties
<1> HIDE DEF units
<1>3. /\ stream \o units \in Seq(Unit) /\ Len(stream \o units) = Len(stream) + Len(units)
      /\ \A i \in 1..Len(stream) + Len(units) : (stream \o units)[i] =
                     IF i <= Len(stream) THEN stream[i] ELSE units[i - Len(stream)]
  BY <1>1, ConcatProperties
<1>4. GrownBy(stream, len, p, stream \o units)
  BY <1>1, <1>2, <1>3 DEF GrownBy
<1>5. QED
  BY <1>4 DEF units

\* A stream of whole packages, seen from a header: the package, and what is behind.
LEMMA NextPackage ==
  ASSUME NEW stream \in Seq(Unit), NEW len \in {PkgLen, AckLen}, Whole(stream, len),
         NEW d \in 0..Len(stream) - 1, stream[d + 1].at = 0
  PROVE  /\ d + len <= Len(stream)
         /\ \A j \in 1..len : stream[d + j] = [of |-> stream[d + 1].of, at |-> j - 1]
         /\ HeaderAt(stream, d + len)
<1>1. Len(stream) \in Nat /\ len \in Nat \ {0} /\ d \in Nat /\ d + 1 \in 1..Len(stream)
  BY StreamAssumption, LenProperties
<1>2. InPackage(stream, d + 1, len)
  BY <1>1 DEF Whole
<1>3. d + len <= Len(stream)
  BY <1>1, <1>2 DEF InPackage
<1>4. \A j \in 0..len - 1 : stream[d + 1 + j] = [of |-> stream[d + 1].of, at |-> j]
  BY <1>1, <1>2 DEF InPackage
<1>5. ASSUME NEW j \in 1..len
      PROVE  stream[d + j] = [of |-> stream[d + 1].of, at |-> j - 1]
  <2>1. j - 1 \in 0..len - 1 /\ d + 1 + (j - 1) = d + j
    BY <1>1
  <2>2. QED
    BY <1>4, <2>1
<1>6. ASSUME d + len < Len(stream)
      PROVE  stream[d + len + 1].at = 0
  <2> DEFINE k == d + len + 1
             u == stream[k]
  <2>0. k \in 1..Len(stream)
    BY <1>1, <1>6
  <2>1. k \in Nat /\ u.at \in Nat
    BY <1>1, <2>0, UnitPlace
  <2>2. InPackage(stream, k, len)
    BY <2>0 DEF Whole
  <2> HIDE DEF u, k
  <2>3. SUFFICES ASSUME u.at # 0 PROVE FALSE
    BY DEF u, k
  <2>4. u.at - 1 \in 0..len - 1 /\ u.at < len
    BY <1>1, <2>1, <2>2, <2>3 DEF InPackage, u
  <2>5. stream[k - u.at + (u.at - 1)] = [of |-> u.of, at |-> u.at - 1]
    BY <2>2, <2>4 DEF InPackage, u
  <2>6. k - u.at + (u.at - 1) = d + len
    BY <1>1, <2>1 DEF k
  <2>7. stream[d + len].at = len - 1
    <3>1. len \in 1..len
      BY <1>1
    <3>2. stream[d + len] = [of |-> stream[d + 1].of, at |-> len - 1]
      BY <1>5, <3>1
    <3>3. QED
      BY <3>2
  <2>8. QED
    BY <1>1, <2>1, <2>4, <2>5, <2>6, <2>7
<1>7. QED
  BY <1>1, <1>3, <1>5, <1>6 DEF HeaderAt

\* A whole package behind whole packages.
LEMMA WholeGrows ==
  ASSUME NEW stream \in Seq(Unit), NEW len \in {PkgLen, AckLen}, NEW p \in 1..MaxPackages,
         Whole(stream, len)
  PROVE  Whole(stream \o Package(p, len), len)
<1> DEFINE grown == stream \o Package(p, len)
<1>0. GrownBy(stream, len, p, grown)
  BY Grown
<1> HIDE DEF grown
<1>1. /\ Len(stream) \in Nat /\ len \in Nat \ {0} /\ Len(grown) = Len(stream) + len
      /\ \A k \in 1..Len(stream) : grown[k] = stream[k]
      /\ \A k \in Len(stream) + 1..Len(stream) + len :
           grown[k] = [of |-> p, at |-> k - Len(stream) - 1]
  BY <1>0 DEF GrownBy
<1>2. ASSUME NEW k \in 1..Len(stream) PROVE InPackage(grown, k, len)
  <2> DEFINE a == stream[k].at
  <2>1. InPackage(stream, k, len) /\ grown[k] = stream[k]
    BY <1>1 DEF Whole
  <2>2. a \in Nat
    BY UnitPlace
  <2>3. a < len /\ a < k /\ k - a + len - 1 <= Len(stream)
    BY <2>1 DEF InPackage
  <2>4. ASSUME NEW j \in 0..len - 1 PROVE grown[k - a + j] = [of |-> stream[k].of, at |-> j]
    <3>1. stream[k - a + j] = [of |-> stream[k].of, at |-> j]
      BY <2>1 DEF InPackage
    <3> HIDE DEF a
    <3>2. k - a + j \in 1..Len(stream)
      BY <1>1, <2>2, <2>3
    <3>3. QED
      BY <1>1, <3>1, <3>2
  <2>5. k - a + len - 1 <= Len(grown)
    <3> HIDE DEF a
    <3>1. QED
      BY <1>1, <2>2, <2>3
  <2>6. QED
    BY <2>1, <2>3, <2>4, <2>5 DEF InPackage
<1>3. ASSUME NEW k \in Len(stream) + 1..Len(stream) + len PROVE InPackage(grown, k, len)
  <2> DEFINE a == k - Len(stream) - 1
  <2>1. grown[k] = [of |-> p, at |-> a] /\ a \in 0..len - 1 /\ k - a = Len(stream) + 1
    BY <1>1
  <2>2. ASSUME NEW j \in 0..len - 1 PROVE grown[Len(stream) + 1 + j] = [of |-> p, at |-> j]
    <3>1. /\ Len(stream) + 1 + j \in Len(stream) + 1..Len(stream) + len
          /\ Len(stream) + 1 + j - Len(stream) - 1 = j
      BY <1>1
    <3>2. QED
      BY <1>1, <3>1
  <2> HIDE DEF a
  <2>3. grown[k].at = a /\ grown[k].of = p
    BY <2>1
  <2>4. a < len /\ a < k /\ k - a + len - 1 <= Len(grown)
    BY <1>1, <2>1
  <2>5. QED
    BY <2>1, <2>2, <2>3, <2>4 DEF InPackage
<1>4. QED
  BY <1>1, <1>2, <1>3 DEF Whole, grown

\* The reader of a stream that grows by a package still looks at a header next.
LEMMA HeaderStays ==
  ASSUME NEW stream \in Seq(Unit), NEW len \in {PkgLen, AckLen}, NEW p \in 1..MaxPackages,
         NEW d \in 0..Len(stream), HeaderAt(stream, d)
  PROVE  HeaderAt(stream \o Package(p, len), d)
<1> DEFINE grown == stream \o Package(p, len)
<1>0. GrownBy(stream, len, p, grown)
  BY Grown
<1> HIDE DEF grown
<1>1. /\ Len(stream) \in Nat /\ len \in Nat \ {0} /\ Len(grown) = Len(stream) + len
      /\ \A k \in 1..Len(stream) : grown[k] = stream[k]
      /\ \A k \in Len(stream) + 1..Len(stream) + len :
           grown[k] = [of |-> p, at |-> k - Len(stream) - 1]
  BY <1>0 DEF GrownBy
<1>2. CASE d < Len(stream)
  BY <1>1, <1>2 DEF HeaderAt, grown
<1>3. CASE d = Len(stream)
  <2>1. grown[d + 1] = [of |-> p, at |-> 0]
    BY <1>1, <1>3
  <2>2. QED
    BY <2>1 DEF HeaderAt, grown
<1>4. QED
  BY <1>1, <1>2, <1>3

\* The order of headers, when the package that comes is later than all before.
LEMMA AscendGrows ==
  ASSUME NEW stream \in Seq(Unit), NEW len \in {PkgLen, AckLen}, NEW p \in 1..MaxPackages,
         Ascend(stream), \A k \in 1..Len(stream) : stream[k].of < p
  PROVE  Ascend(stream \o Package(p, len))
<1> DEFINE grown == stream \o Package(p, len)
<1>0. GrownBy(stream, len, p, grown)
  BY Grown
<1> HIDE DEF grown
<1>1. /\ Len(stream) \in Nat /\ len \in Nat \ {0} /\ Len(grown) = Len(stream) + len
      /\ \A k \in 1..Len(stream) : grown[k] = stream[k]
      /\ \A k \in Len(stream) + 1..Len(stream) + len :
           grown[k] = [of |-> p, at |-> k - Len(stream) - 1]
  BY <1>0 DEF GrownBy
<1>2. SUFFICES ASSUME NEW k \in 1..Len(grown), NEW l \in 1..Len(grown), k < l,
                      grown[k].at = 0, grown[l].at = 0
               PROVE  grown[k].of < grown[l].of
  BY DEF Ascend, grown
<1>3. CASE l <= Len(stream)
  BY <1>1, <1>2, <1>3 DEF Ascend
<1>4. CASE l > Len(stream)
  <2>0. l \in Len(stream) + 1..Len(stream) + len /\ k \in Nat
    BY <1>1, <1>4
  <2>1. grown[l] = [of |-> p, at |-> l - Len(stream) - 1]
    BY <1>1, <2>0
  <2>2. k \in 1..Len(stream) /\ grown[l].of = p
    BY <1>1, <1>2, <2>0, <2>1
  <2>3. QED
    BY <1>1, <2>2
<1>5. QED
  BY <1>1, <1>3, <1>4

LEMMA AheadGrows ==
  ASSUME NEW stream \in Seq(Unit), NEW len \in {PkgLen, AckLen}, NEW p \in 1..MaxPackages,
         NEW q \in Int, NEW d \in Nat, Ahead(q, stream, d), q < p
  PROVE  Ahead(q, stream \o Package(p, len), d)
<1> DEFINE grown == stream \o Package(p, len)
<1>0. GrownBy(stream, len, p, grown)
  BY Grown
<1> HIDE DEF grown
<1>1. /\ Len(stream) \in Nat /\ len \in Nat \ {0} /\ Len(grown) = Len(stream) + len
      /\ \A k \in 1..Len(stream) : grown[k] = stream[k]
      /\ \A k \in Len(stream) + 1..Len(stream) + len :
           grown[k] = [of |-> p, at |-> k - Len(stream) - 1]
  BY <1>0 DEF GrownBy
<1>2. SUFFICES ASSUME NEW l \in d + 1..Len(grown), grown[l].at = 0
               PROVE  q < grown[l].of
  BY DEF Ahead, grown
<1>3. CASE l <= Len(stream)
  BY <1>1, <1>2, <1>3 DEF Ahead
<1>4. CASE l > Len(stream)
  <2>1. l \in Len(stream) + 1..Len(stream) + len
    BY <1>1, <1>4
  <2>2. grown[l] = [of |-> p, at |-> l - Len(stream) - 1]
    BY <1>1, <2>1
  <2>3. QED
    BY <2>2
<1>5. QED
  BY <1>1, <1>3, <1>4

-----------------------------------------------------------------------------
(* The stream                                                                *)

LEMMA Lengths ==
  /\ \A s \in Sides : Length(s) \in {PkgLen, AckLen}
  /\ Length("server") = PkgLen /\ Length("client") = AckLen
  /\ "server" \in Sides /\ "client" \in Sides
  /\ PkgLen \in Nat \ {0} /\ AckLen \in Nat \ {0}
  /\ RecvBuff \in Nat /\ PkgLen <= RecvBuff /\ AckLen <= RecvBuff
BY StreamAssumption DEF Length, Sides

\* Where the units of recv_buff are in the stream.
LEMMA Buffered ==
  ASSUME Types, NEW s \in Sides, Intact(s)
  PROVE  /\ Len(handled[s]) \in Nat /\ Len(buff[s]) \in Nat /\ Len(accepted[s]) \in Nat
         /\ Len(handled[s]) + Len(buff[s]) <= Len(accepted[s])
         /\ \A j \in 1..Len(buff[s]) : buff[s][j] = accepted[s][Len(handled[s]) + j]
<1> DEFINE h == handled[s]
           b == buff[s]
           w == wire[s]
<1>1. h \in Seq(Unit) /\ b \in Seq(Unit) /\ w \in Seq(Unit)
  BY DEF Types
<1>2. (h \o b) \o w = accepted[s]
  BY DEF Intact
<1> HIDE DEF h, b, w
<1>3. Len(h) \in Nat /\ Len(b) \in Nat /\ Len(w) \in Nat
  BY <1>1, LenProperties
<1>4. /\ h \o b \in Seq(Unit) /\ Len(h \o b) = Len(h) + Len(b)
      /\ \A i \in 1..Len(h) + Len(b) :
           (h \o b)[i] = IF i <= Len(h) THEN h[i] ELSE b[i - Len(h)]
  BY <1>1, ConcatProperties
<1>5. /\ Len((h \o b) \o w) = Len(h \o b) + Len(w)
      /\ \A i \in 1..Len(h \o b) + Len(w) :
           ((h \o b) \o w)[i] = IF i <= Len(h \o b) THEN (h \o b)[i] ELSE w[i - Len(h \o b)]
  BY <1>1, <1>4, ConcatProperties
<1>6. Len(accepted[s]) = Len(h) + Len(b) + Len(w)
  BY <1>2, <1>4, <1>5
<1>7. ASSUME NEW j \in 1..Len(b) PROVE b[j] = accepted[s][Len(h) + j]
  <2>1. /\ Len(h) + j \in 1..Len(h) + Len(b) /\ ~(Len(h) + j <= Len(h))
        /\ Len(h) + j - Len(h) = j
    BY <1>3
  <2>2. (h \o b)[Len(h) + j] = b[j]
    BY <1>4, <2>1
  <2>3. Len(h) + j \in 1..Len(h \o b) + Len(w) /\ Len(h) + j <= Len(h \o b)
    BY <1>3, <1>4, <2>1
  <2>4. QED
    BY <1>2, <1>5, <2>2, <2>3
<1>8. Len(accepted[s]) \in Nat /\ Len(h) + Len(b) <= Len(accepted[s])
  BY <1>3, <1>6
<1>9. QED
  BY <1>3, <1>7, <1>8 DEF h, b

\* What a send of package p does, whichever way it ends.
SendEffect(to, p, len) ==
  /\ wire' \in [Sides -> Seq(Unit)] /\ accepted' \in [Sides -> Seq(Unit)]
  /\ can_send' \in BOOLEAN /\ cut' \subseteq {"server"} /\ cut \subseteq cut'
  /\ \A s \in Sides \ {to} : wire'[s] = wire[s] /\ accepted'[s] = accepted[s]
  /\ \E units \in Seq(Unit) :
       wire'[to] = wire[to] \o units /\ accepted'[to] = accepted[to] \o units
  /\ to \notin cut' => accepted'[to] \in {accepted[to], accepted[to] \o Package(p, len)}

LEMMA AcceptStep ==
  ASSUME Types, NEW to \in Sides, NEW units \in Seq(Unit), Accept(to, units)
  PROVE  /\ wire' \in [Sides -> Seq(Unit)] /\ accepted' \in [Sides -> Seq(Unit)]
         /\ \A s \in Sides \ {to} : wire'[s] = wire[s] /\ accepted'[s] = accepted[s]
         /\ wire'[to] = wire[to] \o units /\ accepted'[to] = accepted[to] \o units
         /\ Len(wire'[to]) = Len(wire[to]) + Len(units)
<1>1. wire' = [wire EXCEPT ![to] = wire[to] \o units]
  BY DEF Accept
<1>2. accepted' = [accepted EXCEPT ![to] = accepted[to] \o units]
  BY DEF Accept
<1>3. wire \in [Sides -> Seq(Unit)] /\ accepted \in [Sides -> Seq(Unit)]
  BY DEF Types
<1>4. wire[to] \in Seq(Unit) /\ accepted[to] \in Seq(Unit)
  BY <1>3
<1>5. wire[to] \o units \in Seq(Unit) /\ Len(wire[to] \o units) = Len(wire[to]) + Len(units)
  BY <1>4, ConcatProperties
<1>6. accepted[to] \o units \in Seq(Unit)
  BY <1>4, ConcatProperties
<1>7. QED
  BY <1>1, <1>2, <1>3, <1>5, <1>6

\* The client's send, which does not block.
LEMMA SendStep ==
  ASSUME Types, NEW p \in 1..MaxPackages,
         \/ SendWhole(Package(p, PkgLen)) \/ SendPart(Package(p, PkgLen)) \/ SendEAGAIN
  PROVE  SendEffect("server", p, PkgLen) /\ Len(wire'["server"]) <= kernel_cap["server"]
<1> DEFINE package == Package(p, PkgLen)
<1>1. package \in Seq(Unit) /\ Len(package) = PkgLen /\ PkgLen \in Nat \ {0}
  BY PackageUnits
<1> HIDE DEF package
<1>2. /\ wire \in [Sides -> Seq(Unit)] /\ accepted \in [Sides -> Seq(Unit)]
      /\ can_send \in BOOLEAN /\ cut \subseteq {"server"} /\ "server" \in Sides
      /\ Len(wire["server"]) <= kernel_cap["server"]
      /\ Len(wire["server"]) \in Nat /\ kernel_cap["server"] \in Nat
  <2>1. kernel_cap \in [Sides -> Nat \ {0}] /\ "server" \in Sides /\ ~Waiting("server")
    BY StreamAssumption DEF Types, Sides, Waiting
  <2>2. Len(wire["server"]) \in Nat
    BY <2>1, LenProperties DEF Types
  <2>3. QED
    BY <2>1, <2>2 DEF Types
<1>3. CASE SendWhole(package)
  <2>1. Len(package) <= Room("server") /\ Accept("server", package) /\ UNCHANGED <<can_send, cut>>
    BY <1>3 DEF SendWhole
  <2>2. Len(wire'["server"]) <= kernel_cap["server"]
    BY <1>1, <1>2, <2>1, AcceptStep DEF Room
  <2>3. QED
    BY <1>1, <1>2, <2>1, <2>2, AcceptStep DEF SendEffect, package
<1>4. CASE SendPart(package)
  <2> DEFINE part == SubSeq(package, 1, Room("server"))
  <2>1. /\ Room("server") > 0 /\ Room("server") < Len(package) /\ Accept("server", part)
        /\ cut' = cut \cup {"server"} /\ can_send' = can_send
    BY <1>4 DEF SendPart
  <2>2. Room("server") \in 0..Len(package)
    BY <1>1, <1>2, <2>1 DEF Room
  <2>3. part \in Seq(Unit) /\ Len(part) = Room("server")
    BY <1>1, <2>2, FrontAndRest
  <2> HIDE DEF part
  <2>4. Len(wire'["server"]) <= kernel_cap["server"]
    BY <1>2, <2>1, <2>3, AcceptStep DEF Room
  <2>5. QED
    BY <1>2, <2>1, <2>3, <2>4, AcceptStep DEF SendEffect
<1>5. CASE SendEAGAIN
  <2>1. can_send' = FALSE /\ cut' = cut /\ wire' = wire /\ accepted' = accepted
    BY <1>5 DEF SendEAGAIN
  <2>2. <<>> \in Seq(Unit) /\ wire["server"] \in Seq(Unit) /\ accepted["server"] \in Seq(Unit)
    BY <1>2, EmptySeq
  <2>3. wire["server"] \o <<>> = wire["server"] /\ accepted["server"] \o <<>> = accepted["server"]
    BY <2>2, ConcatEmptySeq
  <2>4. \E units \in Seq(Unit) : /\ wire'["server"] = wire["server"] \o units
                                /\ accepted'["server"] = accepted["server"] \o units
    BY <2>1, <2>2, <2>3
  <2>5. QED
    BY <1>2, <2>1, <2>4 DEF SendEffect
<1>6. QED
  BY <1>3, <1>4, <1>5 DEF package

LEMMA SendIntact ==
  ASSUME Types, NEW to \in Sides, Intact(to), NEW p, NEW len, SendEffect(to, p, len),
         handled'[to] = handled[to], buff'[to] = buff[to]
  PROVE  Intact(to)'
<1> DEFINE w == wire[to]
           got == handled[to] \o buff[to]
<1>1. PICK units \in Seq(Unit) :
        wire'[to] = w \o units /\ accepted'[to] = accepted[to] \o units
  BY DEF SendEffect
<1>2. handled[to] \in Seq(Unit) /\ buff[to] \in Seq(Unit) /\ w \in Seq(Unit)
  BY DEF Types
<1>3. got \in Seq(Unit)
  BY <1>2, ConcatProperties
<1>4. got \o w = accepted[to]
  BY DEF Intact
<1> HIDE DEF w
<1>5. (got \o w) \o units = got \o (w \o units)
  <2> HIDE DEF got
  <2>1. QED
    BY <1>2, <1>3, UnitsAssociate
<1>6. handled'[to] \o buff'[to] = got
  OBVIOUS
<1>7. QED
  BY <1>1, <1>4, <1>5, <1>6 DEF Intact

\* What the parse loop does with len units it takes for a package.
ConsumeEffect(side, len) ==
  /\ handled' \in [Sides -> Seq(Unit)] /\ buff' \in [Sides -> Seq(Unit)]
  /\ packages' \in [Sides -> Seq(Seq(Unit))]
  /\ \A s \in Sides : Len(buff'[s]) <= RecvBuff
  /\ \A s \in Sides \ {side} :
       handled'[s] = handled[s] /\ buff'[s] = buff[s] /\ packages'[s] = packages[s]
  /\ handled'[side] \o buff'[side] = handled[side] \o buff[side]
  /\ Len(handled'[side]) = Len(handled[side]) + len
  /\ \E units \in Seq(Unit) :
       /\ packages'[side] = Append(packages[side], units)
       /\ Len(units) = len /\ \A j \in 1..len : units[j] = buff[side][j]

LEMMA ConsumeStep ==
  ASSUME Types, NEW side \in Sides, NEW len \in 1..RecvBuff, len <= Len(buff[side]),
         Consume(side, len)
  PROVE  ConsumeEffect(side, len)
<1> DEFINE h == handled[side]
           b == buff[side]
           front == SubSeq(b, 1, len)
           rest == SubSeq(b, len + 1, Len(b))
<1>1. /\ handled' = [handled EXCEPT ![side] = h \o front]
      /\ packages' = [packages EXCEPT ![side] = Append(packages[side], front)]
      /\ buff' = [buff EXCEPT ![side] = rest]
  BY DEF Consume
<1>2. /\ h \in Seq(Unit) /\ b \in Seq(Unit) /\ packages[side] \in Seq(Seq(Unit))
      /\ handled \in [Sides -> Seq(Unit)] /\ buff \in [Sides -> Seq(Unit)]
      /\ packages \in [Sides -> Seq(Seq(Unit))]
      /\ \A s \in Sides : Len(buff[s]) <= RecvBuff
  BY DEF Types
<1>3. Len(b) \in Nat /\ len \in 0..Len(b) /\ RecvBuff \in Nat
  <2>1. Len(b) \in Nat
    BY <1>2, LenProperties
  <2>2. QED
    BY <2>1, StreamAssumption
<1>4. /\ front \in Seq(Unit) /\ rest \in Seq(Unit)
      /\ Len(front) = len /\ Len(rest) = Len(b) - len
      /\ \A j \in 1..len : front[j] = b[j]
      /\ (h \o front) \o rest = h \o b
  <2> HIDE DEF h, b
  <2>1. /\ front \in Seq(Unit) /\ Len(front) = len
        /\ \A j \in 1..len : front[j] = b[j]
    BY <1>2, <1>3, FrontAndRest
  <2>2. rest \in Seq(Unit) /\ Len(rest) = Len(b) - len
    BY <1>2, <1>3, FrontAndRest
  <2>3. (h \o front) \o rest = h \o b
    BY <1>2, <1>3, Rejoin
  <2>4. QED
    BY <2>1, <2>2, <2>3
<1> HIDE DEF h, front, rest
<1>5. h \o front \in Seq(Unit) /\ Len(h \o front) = Len(h) + len
  BY <1>2, <1>4, ConcatProperties
<1>6. Append(packages[side], front) \in Seq(Seq(Unit))
  BY <1>2, <1>4, AppendProperties
<1>7. Len(rest) <= RecvBuff
  BY <1>2, <1>3, <1>4
<1>8. /\ handled'[side] = h \o front /\ buff'[side] = rest
      /\ packages'[side] = Append(packages[side], front)
  BY <1>1, <1>2
<1>9. /\ handled' \in [Sides -> Seq(Unit)] /\ buff' \in [Sides -> Seq(Unit)]
      /\ packages' \in [Sides -> Seq(Seq(Unit))]
  BY <1>1, <1>2, <1>4, <1>5, <1>6
<1>10. /\ \A s \in Sides : Len(buff'[s]) <= RecvBuff
       /\ \A s \in Sides \ {side} :
            handled'[s] = handled[s] /\ buff'[s] = buff[s] /\ packages'[s] = packages[s]
  BY <1>1, <1>2, <1>7
<1>11. QED
  BY <1>4, <1>5, <1>8, <1>9, <1>10 DEF ConsumeEffect, h

LEMMA ConsumeIntact ==
  ASSUME NEW side \in Sides, Intact(side), NEW len, ConsumeEffect(side, len),
         wire'[side] = wire[side], accepted'[side] = accepted[side]
  PROVE  Intact(side)'
<1>1. handled'[side] \o buff'[side] = handled[side] \o buff[side]
  BY DEF ConsumeEffect
<1>2. handled[side] \o buff[side] \o wire[side] = accepted[side]
  BY DEF Intact
<1>3. QED
  BY <1>1, <1>2 DEF Intact

\* recv moves the first k units of the wire into recv_buff.
RecvEffect(side) ==
  /\ wire' \in [Sides -> Seq(Unit)] /\ buff' \in [Sides -> Seq(Unit)]
  /\ \A s \in Sides : Len(wire'[s]) <= Len(wire[s]) /\ Len(buff'[s]) <= RecvBuff
  /\ \A s \in Sides \ {side} : wire'[s] = wire[s] /\ buff'[s] = buff[s]
  /\ Intact(side) => handled[side] \o buff'[side] \o wire'[side] = accepted[side]

LEMMA RecvStep ==
  ASSUME Types, NEW side \in Sides, NEW k \in 1..Len(wire[side]),
         Len(buff[side]) + k <= RecvBuff,
         buff' = [buff EXCEPT ![side] = @ \o SubSeq(wire[side], 1, k)],
         wire' = [wire EXCEPT ![side] = SubSeq(@, k + 1, Len(@))]
  PROVE  RecvEffect(side)
<1> DEFINE h == handled[side]
           b == buff[side]
           w == wire[side]
           front == SubSeq(w, 1, k)
           rest == SubSeq(w, k + 1, Len(w))
<1>1. /\ h \in Seq(Unit) /\ b \in Seq(Unit) /\ w \in Seq(Unit)
      /\ wire \in [Sides -> Seq(Unit)] /\ buff \in [Sides -> Seq(Unit)]
      /\ \A s \in Sides : Len(buff[s]) <= RecvBuff /\ Len(wire[s]) \in Nat
      /\ RecvBuff \in Nat
  BY StreamAssumption, LenProperties DEF Types
<1>2. Intact(side) => (h \o b) \o w = accepted[side]
  BY DEF Intact
<1>3. buff' = [buff EXCEPT ![side] = b \o front] /\ wire' = [wire EXCEPT ![side] = rest]
  OBVIOUS
<1>4. k \in 0..Len(w) /\ Len(b) \in Nat /\ Len(w) \in Nat /\ Len(b) + k <= RecvBuff
  BY <1>1, LenProperties
<1> HIDE DEF h, b, w
<1>5. /\ front \in Seq(Unit) /\ rest \in Seq(Unit)
      /\ Len(front) = k /\ Len(rest) = Len(w) - k
  BY <1>1, <1>4, FrontAndRest
<1>6. h \o b \in Seq(Unit)
  BY <1>1, ConcatProperties
<1>7. ((h \o b) \o front) \o rest = (h \o b) \o w
  <2> DEFINE got == h \o b
  <2>1. got \in Seq(Unit)
    BY <1>6
  <2> HIDE DEF got
  <2>2. (got \o front) \o rest = got \o w
    BY <1>1, <1>4, <2>1, Rejoin
  <2>3. QED
    BY <2>2 DEF got
<1> HIDE DEF front, rest
<1>8. (h \o b) \o front = h \o (b \o front)
  BY <1>1, <1>5, UnitsAssociate
<1>9. b \o front \in Seq(Unit) /\ Len(b \o front) = Len(b) + k
  BY <1>1, <1>5, ConcatProperties
<1>10. Len(b \o front) <= RecvBuff /\ Len(rest) <= Len(wire[side])
  BY <1>1, <1>4, <1>5, <1>9 DEF w
<1>11. buff'[side] = b \o front /\ wire'[side] = rest
  BY <1>1, <1>3
<1>12. Intact(side) => h \o buff'[side] \o wire'[side] = accepted[side]
  BY <1>2, <1>7, <1>8, <1>11
<1>13. wire' \in [Sides -> Seq(Unit)] /\ buff' \in [Sides -> Seq(Unit)]
  BY <1>1, <1>3, <1>5, <1>9
<1>14. /\ \A s \in Sides : Len(wire'[s]) <= Len(wire[s]) /\ Len(buff'[s]) <= RecvBuff
       /\ \A s \in Sides \ {side} : wire'[s] = wire[s] /\ buff'[s] = buff[s]
  BY <1>1, <1>3, <1>10
<1>15. QED
  BY <1>12, <1>13, <1>14 DEF RecvEffect, h

\* The unit a side looks at next.
LEMMA HeadUnit ==
  ASSUME Types, NEW s \in Sides, buff[s] # <<>>
  PROVE  /\ Head(buff[s]) = buff[s][1] /\ Len(buff[s]) \in Nat \ {0}
         /\ Head(buff[s]).of \in 1..MaxPackages /\ Head(buff[s]).at \in Nat
<1> DEFINE b == buff[s]
<1>1. b \in Seq(Unit) /\ b # <<>>
  BY DEF Types
<1> HIDE DEF b
<1>2. Head(b) = b[1] /\ Len(b) \in Nat \ {0}
  BY <1>1, LenProperties, EmptySeq
<1>3. b[1].of \in 1..MaxPackages /\ b[1].at \in Nat
  <2>1. 1 \in 1..Len(b)
    BY <1>2
  <2>2. QED
    BY <1>1, <2>1, UnitPlace
<1>4. QED
  BY <1>2, <1>3 DEF b

LEMMA StreamInit == Init => Stream
<1> SUFFICES ASSUME Init PROVE Stream
  OBVIOUS
<1>1. <<>> \in Seq(Unit) /\ Len(<<>>) = 0 /\ <<>> \in Seq(Seq(Unit)) /\ <<>> \o <<>> = <<>>
  BY EmptySeq, ConcatEmptySeq
<1>2. /\ wire = [s \in Sides |-> <<>>] /\ buff = [s \in Sides |-> <<>>]
      /\ handled = [s \in Sides |-> <<>>] /\ accepted = [s \in Sides |-> <<>>]
      /\ packages = [s \in Sides |-> <<>>]
  BY DEF Init
<1>3. \A s \in Sides : Intact(s)
  BY <1>1, <1>2 DEF Intact
<1>4. kernel_cap \in [Sides -> Nat \ {0}] /\ RecvBuff \in Nat
  BY StreamAssumption DEF Init
<1>5. \A s \in Sides : Len(wire[s]) <= kernel_cap[s] /\ Len(buff[s]) <= RecvBuff
  BY <1>1, <1>2, <1>4
<1>6. 0 \in 0..MaxPackages /\ 0 \in 0..(Bandwidth + PkgLen)
  BY StreamAssumption
<1>7. Types
  <2>1. pc = [s \in Sides |-> "idle"] /\ "server" \in Sides /\ "client" \in Sides
    BY DEF Init, Sides
  <2>2. QED
    BY <1>1, <1>2, <1>5, <1>6, <2>1 DEF Init, Types
<1>8. QED
  BY <1>3, <1>7 DEF Stream

\* A send that is counted, in every step that makes one.
LEMMA StreamSends ==
  ASSUME Stream, NEW p, NEW len, SendEffect("server", p, len),
         Len(wire'["server"]) <= kernel_cap["server"],
         UNCHANGED <<kernel_cap, handled, packages, buff, closed, wild>>,
         pc' = pc \/ pc' = [pc EXCEPT !["client"] = "idle"], sent' \in 0..MaxPackages,
         sentbytes' \in 0..(Bandwidth + PkgLen)
  PROVE  Stream'
<1>0. "server" \in Sides /\ Sides = {"client", "server"} /\ Types
  BY DEF Sides, Stream
<1>1. Types'
  <2>1. /\ pc' \in [Sides -> {"idle", "send", "parse", "ack", "wild"}]
        /\ pc'["client"] \in {"idle", "send", "parse"} /\ pc'["server"] = pc["server"]
    BY <1>0 DEF Types
  <2>2. Len(wire'["client"]) <= kernel_cap'["client"] \/ Waiting("client")'
    BY <1>0, <2>1 DEF Types, SendEffect, Waiting
  <2>3. QED
    BY <1>0, <2>1, <2>2 DEF Types, SendEffect
<1>2. Intact("server")' \/ Wild("server")'
  <2>1. CASE Intact("server")
    BY <1>0, <2>1, SendIntact
  <2>2. CASE Wild("server")
    BY <2>2 DEF Wild
  <2>3. QED
    BY <1>0, <2>1, <2>2 DEF Stream
<1>3. \A s \in Sides \ {"server"} : Intact(s)' \/ Wild(s)'
  BY DEF Stream, Intact, Wild, SendEffect
<1>4. QED
  BY <1>1, <1>2, <1>3 DEF Stream

LEMMA StreamConsumes ==
  ASSUME Stream, NEW side \in Sides, NEW len, ConsumeEffect(side, len),
         UNCHANGED <<kernel_cap, wire, accepted, can_send, cut, closed, wild>>,
         UNCHANGED <<pc, sent, sentbytes>>
  PROVE  Stream'
<1>1. Types'
  BY DEF Stream, Types, Waiting, ConsumeEffect
<1>2. Intact(side)' \/ Wild(side)'
  BY ConsumeIntact DEF Stream, Wild
<1>3. \A s \in Sides \ {side} : Intact(s)' \/ Wild(s)'
  BY DEF Stream, Intact, Wild, ConsumeEffect
<1>4. QED
  BY <1>1, <1>2, <1>3 DEF Stream

\* The acknowledgement goes to the client, and the server waits for the kernel.
LEMMA StreamAnswers ==
  ASSUME Stream, NEW len, NEW p, ConsumeEffect("server", len), SendEffect("client", p, AckLen),
         UNCHANGED <<kernel_cap, sent, sentbytes, closed, wild>>,
         pc' = [pc EXCEPT !["server"] = "ack"]
  PROVE  Stream'
<1>0. /\ "server" \in Sides /\ "client" \in Sides /\ Sides = {"client", "server"}
      /\ "server" # "client" /\ Types /\ Intact("client")
  BY DEF Sides, Stream, Wild
<1>1. Types'
  <2>1. /\ pc' \in [Sides -> {"idle", "send", "parse", "ack", "wild"}]
        /\ pc'["client"] = pc["client"] /\ pc'["server"] = "ack"
    BY <1>0 DEF Types
  <2>2. \A s \in Sides : Len(wire'[s]) <= kernel_cap'[s] \/ Waiting(s)'
    BY <1>0, <2>1 DEF Types, SendEffect, Waiting
  <2>3. QED
    BY <1>0, <2>1, <2>2 DEF Types, ConsumeEffect, SendEffect
<1>2. Intact("server")' \/ Wild("server")'
  <2>1. CASE Intact("server")
    BY <1>0, <2>1, ConsumeIntact DEF SendEffect
  <2>2. CASE Wild("server")
    BY <2>2 DEF Wild
  <2>3. QED
    BY <1>0, <2>1, <2>2 DEF Stream
<1>3. Intact("client")'
  BY <1>0, SendIntact DEF ConsumeEffect
<1>4. QED
  BY <1>0, <1>1, <1>2, <1>3 DEF Stream

LEMMA StreamReceives ==
  ASSUME Stream, NEW side \in Sides, Recv(side)
  PROVE  Stream'
<1>1. /\ pc[side] = "idle" /\ pc' = [pc EXCEPT ![side] = "parse"]
      /\ UNCHANGED <<kernel_cap, can_send, sent, sentbytes, accepted, cut, handled, packages>>
      /\ UNCHANGED <<closed, wild>>
  BY DEF Recv, historyVars, endVars
<1>2. PICK k \in 1..kernel_cap[side] :
        /\ k <= Len(wire[side]) /\ Len(buff[side]) + k <= RecvBuff
        /\ buff' = [buff EXCEPT ![side] = @ \o SubSeq(wire[side], 1, k)]
        /\ wire' = [wire EXCEPT ![side] = SubSeq(@, k + 1, Len(@))]
  BY DEF Recv
<1>3. /\ Types /\ "server" \in Sides /\ Sides = {"client", "server"}
      /\ \A s \in Sides : Len(wire[s]) \in Nat /\ kernel_cap[s] \in Nat
  BY StreamAssumption, LenProperties DEF Stream, Types, Sides
<1>4. k \in 1..Len(wire[side])
  BY <1>2, <1>3
<1>5. RecvEffect(side)
  BY <1>2, <1>3, <1>4, RecvStep
<1>6. Types'
  <2>1. /\ pc' \in [Sides -> {"idle", "send", "parse", "ack", "wild"}]
        /\ pc'["client"] \in {"idle", "send", "parse"}
        /\ pc'["server"] \in {"idle", "parse", "ack", "wild"}
        /\ pc'["server"] = "wild" => wild
        /\ \A s \in Sides : Waiting(s) => Waiting(s)'
    BY <1>1, <1>3 DEF Types, Waiting
  <2>2. \A s \in Sides : Len(wire'[s]) \in Nat
    BY <1>5, LenProperties DEF RecvEffect
  <2>3. ASSUME NEW s \in Sides PROVE Len(wire'[s]) <= kernel_cap[s] \/ Waiting(s)'
    <3>1. Len(wire[s]) <= kernel_cap[s] \/ Waiting(s)
      BY <1>3 DEF Types
    <3>2. Len(wire'[s]) <= Len(wire[s])
      BY <1>5 DEF RecvEffect
    <3>3. QED
      BY <1>3, <2>1, <2>2, <3>1, <3>2
  <2>4. QED
    BY <1>1, <1>3, <1>5, <2>1, <2>3 DEF Types, RecvEffect
<1>7. Intact(side)' \/ Wild(side)'
  BY <1>1, <1>5 DEF Stream, Intact, Wild, RecvEffect
<1>8. \A s \in Sides \ {side} : Intact(s)' \/ Wild(s)'
  BY <1>1, <1>5 DEF Stream, Intact, Wild, RecvEffect
<1>9. QED
  BY <1>6, <1>7, <1>8 DEF Stream

\* What a wild parser leaves in recv_buff are units all the same.
LEMMA StreamWildLeaves ==
  ASSUME Stream, WildLeaves
  PROVE  Stream'
<1> DEFINE b == buff["server"]
           left == [i \in 1..Len(b) |-> [of |-> b[1].of, at |-> 1]]
<1>1. /\ pc["server"] = "wild" /\ pc' = [pc EXCEPT !["server"] = "idle"]
      /\ buff' = [buff EXCEPT !["server"] = left]
      /\ UNCHANGED <<kernel_cap, sent, sentbytes, can_send, wire, accepted, cut>>
      /\ UNCHANGED <<handled, packages, closed, wild>>
  BY DEF WildLeaves, sendVars, historyVars, endVars
<1>2. /\ Types /\ "server" \in Sides /\ wild /\ Sides = {"client", "server"}
      /\ "server" # "client" /\ ~Waiting("client")
  BY <1>1 DEF Stream, Types, Sides, Waiting
<1>3. left \in Seq(Unit) /\ Len(left) = Len(b)
  <2>1. b \in Seq(Unit) /\ Len(b) \in Nat
    BY <1>2, LenProperties DEF Types
  <2>2. ASSUME NEW i \in 1..Len(b) PROVE [of |-> b[1].of, at |-> 1] \in Unit
    <3>1. 1 \in 1..Len(b)
      BY <2>1
    <3>2. b[1].of \in 1..MaxPackages
      BY <2>1, <3>1, UnitPlace
    <3>3. 1 \in 0..(PkgLen + AckLen)
      BY StreamAssumption
    <3>4. QED
      BY <3>2, <3>3 DEF Unit
  <2> HIDE DEF b
  <2>3. left \in [1..Len(b) -> Unit]
    BY <2>2
  <2>4. left \in Seq(Unit)
    BY <2>1, <2>3, SeqDef
  <2>5. Len(left) = Len(b)
    BY <2>1, <2>3, <2>4, LenProperties
  <2>6. QED
    BY <2>4, <2>5
<1> HIDE DEF left
<1>4. Types'
  <2>1. buff' \in [Sides -> Seq(Unit)] /\ \A s \in Sides : Len(buff'[s]) <= RecvBuff
    BY <1>1, <1>2, <1>3 DEF Types
  <2>2. /\ pc' \in [Sides -> {"idle", "send", "parse", "ack", "wild"}]
        /\ pc'["client"] = pc["client"] /\ pc'["server"] = "idle"
    BY <1>1, <1>2 DEF Types
  <2>3. \A s \in Sides : Len(wire'[s]) <= kernel_cap'[s] \/ Waiting(s)'
    BY <1>1, <1>2 DEF Types, Waiting
  <2>4. QED
    BY <1>1, <1>2, <2>1, <2>2, <2>3 DEF Types
<1>5. Intact("client")' \/ Wild("client")'
  BY <1>1, <1>2 DEF Stream, Intact, Wild, Types
<1>6. Wild("server")'
  BY <1>1, <1>2 DEF Wild
<1>7. QED
  BY <1>2, <1>4, <1>5, <1>6 DEF Stream

\* What SendPackage does to the stream.
LEMMA SendPackageStep ==
  ASSUME Stream, SendPackage
  PROVE  /\ sent' = sent + 1 /\ sent' \in 1..MaxPackages
         /\ SendEffect("server", sent', PkgLen) /\ Len(wire'["server"]) <= kernel_cap["server"]
         /\ UNCHANGED <<kernel_cap, handled, packages, buff, closed, wild>>
         /\ pc["client"] = "send"
         /\ pc' = pc \/ pc' = [pc EXCEPT !["client"] = "idle"]
         /\ sentbytes' \in 0..(Bandwidth + PkgLen)
<1> DEFINE package == Package(sent + 1, PkgLen)
<1>1. /\ pc["client"] = "send" /\ sentbytes < Bandwidth /\ sent < MaxPackages /\ sent' = sent + 1
      /\ UNCHANGED <<kernel_cap, buff, handled, packages, closed, wild>>
      /\ \/ SendWhole(package) /\ sentbytes' = sentbytes + PkgLen /\ UNCHANGED pc
         \/ SendPart(package) /\ sentbytes' = sentbytes + Room("server") /\ UNCHANGED pc
         \/ /\ SendEAGAIN
            /\ pc' = [pc EXCEPT !["client"] = "idle"] /\ UNCHANGED sentbytes
  BY DEF SendPackage, historyVars, endVars
<1>2. /\ Types /\ sent \in Nat /\ sentbytes \in 0..(Bandwidth + PkgLen)
      /\ MaxPackages \in Nat /\ Bandwidth \in Nat /\ PkgLen \in Nat \ {0}
  BY StreamAssumption DEF Stream, Types
<1>3. sent + 1 \in 1..MaxPackages
  BY <1>1, <1>2
<1>4. SendEffect("server", sent + 1, PkgLen) /\ Len(wire'["server"]) <= kernel_cap["server"]
  <2>1. SendWhole(package) \/ SendPart(package) \/ SendEAGAIN
    BY <1>1
  <2>2. QED
    BY <1>2, <1>3, <2>1, SendStep
<1>5. sentbytes' \in 0..(Bandwidth + PkgLen)
  <2>1. CASE SendWhole(package) /\ sentbytes' = sentbytes + PkgLen
    BY <1>1, <1>2, <2>1
  <2>2. CASE SendPart(package) /\ sentbytes' = sentbytes + Room("server")
    <3>1. Room("server") > 0 /\ Room("server") < Len(package)
      BY <2>2 DEF SendPart
    <3>2. Len(package) = PkgLen
      BY <1>3, PackageUnits
    <3>3. Room("server") \in Int
      <4>1. kernel_cap["server"] \in Nat /\ wire["server"] \in Seq(Unit)
        BY StreamAssumption DEF Stream, Types, Sides
      <4>2. Len(wire["server"]) \in Nat
        BY <4>1, LenProperties
      <4>3. QED
        BY <4>1, <4>2 DEF Room
    <3>4. QED
      BY <1>1, <1>2, <2>2, <3>1, <3>2, <3>3
  <2>3. CASE sentbytes' = sentbytes
    BY <1>2, <2>3
  <2>4. QED
    BY <1>1, <2>1, <2>2, <2>3
<1>6. pc' = pc \/ pc' = [pc EXCEPT !["client"] = "idle"]
  BY <1>1
<1>7. QED
  BY <1>1, <1>3, <1>4, <1>5, <1>6

\* What ServerPackage does to the two streams.
LEMMA ServerPackageStep ==
  ASSUME Stream, ServerPackage
  PROVE  /\ UNCHANGED <<kernel_cap, sent, sentbytes, closed, wild>> /\ pc["server"] = "parse"
         /\ pc' = [pc EXCEPT !["server"] = "ack"] /\ cut' = cut
         /\ Head(buff["server"]).of \in 1..MaxPackages
         /\ SendEffect("client", Head(buff["server"]).of, AckLen)
         /\ \E len \in 1..RecvBuff : Complete("server", len) /\ ConsumeEffect("server", len)
<1>1. PICK len \in 1..RecvBuff : Complete("server", len) /\ Consume("server", len)
  BY DEF ServerPackage
<1>2. Types /\ "server" \in Sides /\ "client" \in Sides
  BY DEF Stream, Sides
<1>3. buff["server"] # <<>> /\ len <= Len(buff["server"])
  BY <1>1 DEF Complete
<1>4. ConsumeEffect("server", len)
  BY <1>1, <1>2, <1>3, ConsumeStep
<1>5. Head(buff["server"]).of \in 1..MaxPackages
  BY <1>2, <1>3, HeadUnit
<1>6. SendEffect("client", Head(buff["server"]).of, AckLen)
  <2> DEFINE ack == Package(Head(buff["server"]).of, AckLen)
  <2>1. Accept("client", ack) /\ UNCHANGED <<can_send, cut>>
    BY DEF ServerPackage
  <2>2. ack \in Seq(Unit)
    BY <1>5, PackageUnits
  <2> HIDE DEF ack
  <2>3. /\ wire' \in [Sides -> Seq(Unit)] /\ accepted' \in [Sides -> Seq(Unit)]
        /\ \A s \in Sides \ {"client"} : wire'[s] = wire[s] /\ accepted'[s] = accepted[s]
        /\ wire'["client"] = wire["client"] \o ack
        /\ accepted'["client"] = accepted["client"] \o ack
    BY <1>2, <2>1, <2>2, AcceptStep
  <2>4. can_send' \in BOOLEAN /\ cut' \subseteq {"server"}
    BY <1>2, <2>1 DEF Types
  <2>5. QED
    BY <2>1, <2>2, <2>3, <2>4 DEF SendEffect, ack
<1>7. QED
  BY <1>1, <1>4, <1>5, <1>6 DEF ServerPackage, endVars

LEMMA ClientPackageStep ==
  ASSUME Stream, ClientPackage
  PROVE  /\ UNCHANGED <<kernel_cap, pc, sent, sentbytes, closed, wild>> /\ pc["client"] = "parse"
         /\ UNCHANGED <<wire, accepted, can_send, cut>>
         /\ \E len \in 1..RecvBuff : Complete("client", len) /\ ConsumeEffect("client", len)
<1>1. PICK len \in 1..RecvBuff : Complete("client", len) /\ Consume("client", len)
  BY DEF ClientPackage
<1>2. Types /\ "client" \in Sides /\ len <= Len(buff["client"])
  BY <1>1 DEF Stream, Sides, Complete
<1>3. ConsumeEffect("client", len)
  BY <1>1, <1>2, ConsumeStep
<1>4. QED
  BY <1>1, <1>3 DEF ClientPackage, sendVars, endVars

\* The steps that move no unit, and what they do.
Quiet ==
  \/ SendWorker \/ SendDone \/ PeerGone \/ AckSent \/ ServerWild \/ WildCrash
  \/ \E side \in Sides : RecvNothing(side) \/ ParseDone(side)

LEMMA QuietStep ==
  Quiet \/ UNCHANGED vars =>
    UNCHANGED <<kernel_cap, can_send, sent, wire, accepted, cut, buff, handled, packages>>
BY DEF Quiet, SendWorker, SendDone, PeerGone, AckSent, ServerWild, WildCrash, RecvNothing,
       ParseDone, vars, sendVars, historyVars

LEMMA StreamQuiet ==
  ASSUME Stream, Quiet
  PROVE  Stream'
<1>0. /\ Types /\ Sides = {"client", "server"} /\ "client" \in Sides /\ "server" \in Sides
      /\ "client" # "server" /\ 0 \in 0..(Bandwidth + PkgLen)
      /\ pc \in [Sides -> {"idle", "send", "parse", "ack", "wild"}]
  BY StreamAssumption DEF Stream, Types, Sides
<1> DEFINE Calm == UNCHANGED <<kernel_cap, can_send, sent, wire, accepted, cut, buff, handled, packages>>
           Fine == /\ pc' \in [Sides -> {"idle", "send", "parse", "ack", "wild"}]
                   /\ pc'["client"] \in {"idle", "send", "parse"}
                   /\ pc'["server"] \in {"idle", "parse", "ack", "wild"}
                   /\ pc'["server"] = "wild" => wild'
                   /\ sentbytes' \in 0..(Bandwidth + PkgLen)
                   /\ closed' \subseteq Sides /\ wild' \in BOOLEAN /\ (wild => wild')
                   /\ pc["server"] = "ack" => \/ pc'["server"] = "ack"
                                             \/ Len(wire["client"]) <= kernel_cap["client"]
<1>1. Calm
  BY QuietStep
<1>2. ASSUME SendWorker PROVE Fine
  BY <1>0, <1>2 DEF SendWorker, endVars, Types
<1>3. ASSUME SendDone PROVE Fine
  BY <1>0, <1>3 DEF SendDone, endVars, Types
<1>4. ASSUME PeerGone PROVE Fine
  BY <1>0, <1>4 DEF PeerGone, Types
<1>5. ASSUME AckSent PROVE Fine
  <2>1. Len(wire["client"]) <= kernel_cap["client"]
    <3>1. kernel_cap["client"] \in Nat /\ Len(wire["client"]) \in Nat
      BY <1>0, StreamAssumption, LenProperties DEF Types
    <3>2. kernel_cap["client"] - Len(wire["client"]) >= 0
      BY <1>5 DEF AckSent, Room
    <3>3. QED
      BY <3>1, <3>2
  <2>2. QED
    BY <1>0, <1>5, <2>1 DEF AckSent, endVars, Types
<1>6. ASSUME ServerWild PROVE Fine
  BY <1>0, <1>6 DEF ServerWild, Types
<1>7. ASSUME WildCrash PROVE Fine
  BY <1>0, <1>7 DEF WildCrash, Types
<1>8. ASSUME NEW side \in Sides, RecvNothing(side) PROVE Fine
  BY <1>0, <1>8 DEF RecvNothing, Types
<1>9. ASSUME NEW side \in Sides, ParseDone(side) PROVE Fine
  BY <1>0, <1>9 DEF ParseDone, endVars, Types
<1>10. Fine
  BY <1>2, <1>3, <1>4, <1>5, <1>6, <1>7, <1>8, <1>9 DEF Quiet
<1>11. Types'
  <2>1. \A s \in Sides : Len(wire[s]) <= kernel_cap[s] \/ Waiting(s)'
    BY <1>0, <1>10 DEF Types, Waiting
  <2>2. QED
    BY <1>0, <1>1, <1>10, <2>1 DEF Types
<1>12. QED
  BY <1>1, <1>10, <1>11 DEF Stream, Intact, Wild

\* The stream stays intact in every step.
LEMMA StreamNext == Stream /\ [Next]_vars => Stream'
<1> SUFFICES ASSUME Stream, [Next]_vars PROVE Stream'
  OBVIOUS
<1>1. CASE Quiet
  BY <1>1, StreamQuiet
<1>2. CASE SendPackage
  <2>1. sent' \in 0..MaxPackages
    BY <1>2, SendPackageStep, StreamAssumption
  <2>2. QED
    BY <1>2, <2>1, SendPackageStep, StreamSends
<1>3. ASSUME NEW side \in Sides, Recv(side) PROVE Stream'
  BY <1>3, StreamReceives
<1>4. CASE ServerPackage
  <2>1. PICK len \in 1..RecvBuff : ConsumeEffect("server", len)
    BY <1>4, ServerPackageStep
  <2>2. QED
    BY <1>4, <2>1, ServerPackageStep, StreamAnswers
<1>5. CASE ClientPackage
  <2>1. PICK len \in 1..RecvBuff : ConsumeEffect("client", len)
    BY <1>5, ClientPackageStep
  <2>2. "client" \in Sides
    BY DEF Sides
  <2>3. QED
    BY <1>5, <2>1, <2>2, ClientPackageStep, StreamConsumes
<1>6. CASE WildLeaves
  BY <1>6, StreamWildLeaves
<1>7. CASE UNCHANGED vars
  BY <1>7 DEF vars, sendVars, historyVars, endVars, Stream, Types, Waiting, Intact, Wild
<1>8. QED
  BY <1>1, <1>2, <1>3, <1>4, <1>5, <1>6, <1>7 DEF Next, Quiet

-----------------------------------------------------------------------------
(* The frame                                                                 *)

LEMMA FramedSends ==
  ASSUME Stream, NEW to \in Sides, NEW p \in 1..MaxPackages, Framed(to),
         SendEffect(to, p, Length(to)), to \notin cut', pc'[to] = pc[to],
         handled'[to] = handled[to], buff'[to] = buff[to], packages'[to] = packages[to],
         wild' = wild
  PROVE  Framed(to)'
<1> DEFINE stream == accepted[to]
           d == Len(handled[to])
<1>1. Length(to) \in {PkgLen, AckLen}
  BY Lengths
<1>2. stream \in Seq(Unit) /\ d \in 0..Len(stream)
  <2>1. Types /\ Intact(to)
    BY DEF Stream, Framed
  <2>2. Len(buff[to]) \in Nat /\ d \in Nat /\ d + Len(buff[to]) <= Len(stream) /\ Len(stream) \in Nat
    BY <2>1, Buffered
  <2>3. QED
    BY <2>1, <2>2 DEF Types
<1>3. Whole(stream, Length(to)) /\ HeaderAt(stream, d)
  BY DEF Framed, AtHeader
<1>4. accepted'[to] \in {stream, stream \o Package(p, Length(to))}
  BY DEF SendEffect
<1>5. Whole(accepted'[to], Length(to))
  BY <1>1, <1>2, <1>3, <1>4, WholeGrows
<1>6. HeaderAt(accepted'[to], d)
  BY <1>1, <1>2, <1>3, <1>4, HeaderStays
<1>7. AtHeader(to)'
  BY <1>6 DEF AtHeader
<1>8. Short(to)' /\ CutOut(to)' /\ ~Wild(to)'
  BY DEF Framed, Short, CutOut, Wild
<1>9. QED
  BY <1>5, <1>7, <1>8 DEF Framed

LEMMA FramedSame ==
  ASSUME NEW s \in Sides, Framed(s), UNCHANGED <<accepted[s], handled[s], packages[s]>>,
         Short(s)', ~Wild(s)'
  PROVE  Framed(s)'
BY DEF Framed, AtHeader, CutOut

\* A side of a framed stream takes the next package out of recv_buff, whole.
Consumed(s, q) ==
  LET stream == accepted[s]
      d == Len(handled[s])
      n == Len(packages[s])
  IN /\ d \in Nat /\ d + 1 \in 1..Len(stream) /\ stream[d + 1] = [of |-> q, at |-> 0]
     /\ q \in 1..MaxPackages
     /\ Len(handled'[s]) = d + Length(s) /\ HeaderAt(stream, d + Length(s))
     /\ n \in Nat /\ Len(packages'[s]) = n + 1
     /\ \A i \in 1..n : packages'[s][i] = packages[s][i]
     /\ packages'[s][n + 1] = Package(q, Length(s))

LEMMA ConsumeFramed ==
  ASSUME Stream, NEW s \in Sides, Framed(s), NEW len \in 1..RecvBuff, Complete(s, len),
         ConsumeEffect(s, len)
  PROVE  Consumed(s, Head(buff[s]).of)
<1> DEFINE stream == accepted[s]
           d == Len(handled[s])
           b == buff[s]
           q == Head(b).of
           n == Len(packages[s])
<1>1. Types /\ Intact(s) /\ Length(s) \in {PkgLen, AckLen} /\ Length(s) \in Nat \ {0}
  BY Lengths DEF Stream, Framed
<1>2. b # <<>> /\ len \in Announced(s) /\ len <= Len(b)
  BY DEF Complete
<1>3. Head(b) = b[1] /\ Len(b) \in Nat \ {0} /\ q \in 1..MaxPackages
  BY <1>1, <1>2, HeadUnit
<1>4. /\ d \in Nat /\ Len(stream) \in Nat /\ d + Len(b) <= Len(stream)
      /\ \A j \in 1..Len(b) : b[j] = stream[d + j]
  BY <1>1, Buffered
<1>5. d \in 0..Len(stream) - 1 /\ d + 1 \in 1..Len(stream) /\ b[1] = stream[d + 1]
  <2>1. 1 \in 1..Len(b)
    BY <1>3
  <2>2. b[1] = stream[d + 1]
    BY <1>4, <2>1
  <2> HIDE DEF d, b, stream
  <2>3. d \in 0..Len(stream) - 1 /\ d + 1 \in 1..Len(stream)
    BY <1>3, <1>4
  <2>4. QED
    BY <2>2, <2>3
<1>6. stream[d + 1].at = 0
  BY <1>4, <1>5 DEF Framed, AtHeader, HeaderAt
<1>7. len = Length(s)
  BY <1>2, <1>3, <1>5, <1>6 DEF Announced
<1>8. stream \in Seq(Unit) /\ Whole(stream, len)
  BY <1>1, <1>7 DEF Framed, Types
<1>9. /\ \A j \in 1..len : stream[d + j] = [of |-> stream[d + 1].of, at |-> j - 1]
      /\ HeaderAt(stream, d + len)
  BY <1>1, <1>5, <1>6, <1>7, <1>8, NextPackage
<1>10. q = stream[d + 1].of
  BY <1>3, <1>5
<1>11. PICK units \in Seq(Unit) :
         /\ packages'[s] = Append(packages[s], units)
         /\ Len(units) = len /\ \A j \in 1..len : units[j] = b[j]
  BY DEF ConsumeEffect
<1>12. \A j \in 1..len : units[j] = [of |-> q, at |-> j - 1]
  <2>1. ASSUME NEW j \in 1..len PROVE units[j] = [of |-> q, at |-> j - 1]
    <3>1. j \in 1..Len(b)
      BY <1>2, <1>3
    <3>2. QED
      BY <1>4, <1>9, <1>10, <1>11, <3>1
  <2>2. QED
    BY <2>1
<1>13. units = Package(q, len)
  <2>1. units = [i \in 1..Len(units) |-> units[i]]
    BY <1>11, SeqDef, LenProperties
  <2>2. QED
    BY <1>11, <1>12, <2>1 DEF Package
<1>14. stream[d + 1] = [of |-> q, at |-> 0]
  <2>1. 1 \in 1..len
    BY <1>1, <1>7
  <2>2. stream[d + 1] = [of |-> stream[d + 1].of, at |-> 1 - 1]
    BY <1>9, <2>1
  <2>3. QED
    BY <1>10, <2>2
<1>15. /\ n \in Nat /\ Len(packages'[s]) = n + 1
       /\ \A i \in 1..n : packages'[s][i] = packages[s][i]
       /\ packages'[s][n + 1] = units
  <2> DEFINE p == packages[s]
  <2>1. p \in Seq(Seq(Unit)) /\ n = Len(p)
    BY <1>1 DEF Types
  <2> HIDE DEF p, n
  <2>2. /\ Len(p) \in Nat /\ Len(Append(p, units)) = Len(p) + 1
        /\ \A i \in 1..Len(p) : Append(p, units)[i] = p[i]
        /\ Append(p, units)[Len(p) + 1] = units
    BY <2>1, <1>11, AppendProperties, LenProperties
  <2>3. QED
    BY <1>11, <2>1, <2>2 DEF p
<1>16. Len(handled'[s]) = d + Length(s)
  BY <1>7 DEF ConsumeEffect
<1>17. QED
  BY <1>3, <1>4, <1>5, <1>7, <1>9, <1>13, <1>14, <1>15, <1>16 DEF Consumed

LEMMA FramedConsumes ==
  ASSUME Stream, NEW s \in Sides, Framed(s), NEW q, Consumed(s, q),
         accepted'[s] = accepted[s], pc'[s] \in {"parse", "ack"}, wild' = wild
  PROVE  Framed(s)'
<1>1. AtHeader(s)' /\ Short(s)' /\ ~Wild(s)'
  BY DEF Consumed, AtHeader, Short, Framed, Wild
<1>2. CutOut(s)'
  <2> DEFINE n == Len(packages[s])
  <2>1. /\ n \in Nat /\ Len(packages'[s]) = n + 1
        /\ \A i \in 1..n : packages'[s][i] = packages[s][i]
        /\ packages'[s][n + 1] = Package(q, Length(s)) /\ q \in 1..MaxPackages
    BY DEF Consumed
  <2>2. Package(q, Length(s))[1].of = q
    <3>1. 1 \in 1..Length(s)
      BY Lengths
    <3>2. QED
      BY <3>1 DEF Package
  <2>3. \A i \in 1..n : packages[s][i] = Package(packages[s][i][1].of, Length(s))
    BY DEF Framed, CutOut
  <2> HIDE DEF n
  <2>4. ASSUME NEW i \in 1..n + 1
        PROVE  packages'[s][i] = Package(packages'[s][i][1].of, Length(s))
    <3>1. CASE i \in 1..n
      BY <2>1, <2>3, <3>1
    <3>2. CASE i = n + 1
      BY <2>1, <2>2, <3>2
    <3>3. QED
      BY <2>1, <3>1, <3>2
  <2>5. QED
    BY <2>1, <2>4 DEF CutOut
<1>3. Whole(accepted'[s], Length(s))
  BY DEF Framed
<1>4. QED
  BY <1>1, <1>2, <1>3 DEF Framed

\* Numbers of packages are numbers.
LEMMA NrType ==
  ASSUME Types, NEW s \in Sides, CutOut(s), NEW i \in 1..Len(packages[s])
  PROVE  Nr(s, i) \in 1..MaxPackages
<1> DEFINE cutout == packages[s][i]
<1>1. cutout \in Seq(Unit)
  <2>1. packages[s] \in Seq(Seq(Unit))
    BY DEF Types
  <2>2. QED
    BY <2>1, ElementOfSeq
<1>2. DOMAIN cutout = 1..Length(s)
  BY DEF CutOut, Package
<1>3. DOMAIN cutout = 1..Len(cutout)
  BY <1>1, LenProperties
<1>4. 1 \in 1..Length(s)
  BY Lengths
<1>5. 1 \in 1..Len(cutout)
  BY <1>2, <1>3, <1>4
<1>6. cutout[1].of \in 1..MaxPackages
  BY <1>1, <1>5, UnitPlace
<1>7. QED
  BY <1>6 DEF Nr

\* Where there was less in recv_buff than a package, recv has room.
LEMMA RoomForMore ==
  ASSUME NEW s \in Sides, Framed(s), pc[s] = "idle"
  PROVE  Len(buff[s]) # RecvBuff
<1>1. Len(buff[s]) < Length(s) /\ Length(s) <= RecvBuff /\ RecvBuff \in Nat /\ Length(s) \in Nat
  BY Lengths DEF Framed, Short
<1>2. QED
  BY <1>1

\* What a side of a framed stream looks at is a header.
LEMMA LooksAtHeader ==
  ASSUME Stream, NEW s \in Sides, Framed(s), buff[s] # <<>>
  PROVE  Head(buff[s]).at = 0
<1> DEFINE stream == accepted[s]
           d == Len(handled[s])
           b == buff[s]
<1>0. Types /\ Intact(s)
  BY DEF Stream, Framed
<1>1. Head(b) = b[1] /\ Len(b) \in Nat \ {0}
  BY <1>0, HeadUnit
<1>2. /\ d \in Nat /\ Len(stream) \in Nat /\ d + Len(b) <= Len(stream)
      /\ \A j \in 1..Len(b) : b[j] = stream[d + j]
  BY <1>0, Buffered
<1>3. b[1] = stream[d + 1]
  <2>1. 1 \in 1..Len(b)
    BY <1>1
  <2>2. QED
    BY <1>2, <2>1
<1>4. d < Len(stream)
  <2> HIDE DEF d, b, stream
  <2>1. QED
    BY <1>1, <1>2
<1>5. QED
  BY <1>1, <1>3, <1>4 DEF Framed, AtHeader, HeaderAt

LEMMA ParsedShort ==
  ASSUME Stream, NEW s \in Sides, Framed(s), Incomplete(s)
  PROVE  Len(buff[s]) < Length(s)
<1>1. CASE buff[s] = <<>>
  <2>1. Len(buff[s]) = 0 /\ Length(s) \in Nat \ {0}
    BY <1>1, EmptySeq, Lengths
  <2>2. QED
    BY <2>1
<1>2. CASE buff[s] # <<>>
  <2>1. Head(buff[s]).at = 0
    BY <1>2, LooksAtHeader
  <2>2. Announced(s) = {Length(s)}
    BY <2>1 DEF Announced
  <2>3. QED
    BY <1>2, <2>2 DEF Incomplete
<1>3. QED
  BY <1>1, <1>2

LEMMA FramedQuiet ==
  ASSUME Stream, NEW s \in Sides, Framed(s), Quiet
  PROVE  Framed(s)'
<1>0. /\ Types /\ Sides = {"client", "server"} /\ "client" # "server"
      /\ pc \in [Sides -> {"idle", "send", "parse", "ack", "wild"}]
      /\ pc["client"] \in {"idle", "send", "parse"} /\ (s = "server" => pc[s] # "wild")
  BY DEF Stream, Types, Sides, Framed, Wild
<1>1. UNCHANGED <<accepted[s], handled[s], packages[s], buff[s]>>
  BY QuietStep
<1> DEFINE Kept == (pc'[s] \in {"idle", "send"} => pc[s] \in {"idle", "send"}) /\ wild' = wild
<1>2. ASSUME SendWorker PROVE Kept
  BY <1>0, <1>2 DEF SendWorker, endVars
<1>3. ASSUME SendDone PROVE Kept
  BY <1>0, <1>3 DEF SendDone, endVars
<1>4. ASSUME PeerGone PROVE Kept
  BY <1>0, <1>4 DEF PeerGone
<1>5. ASSUME AckSent PROVE Kept
  BY <1>0, <1>5 DEF AckSent, endVars
<1>6. ASSUME WildCrash PROVE Kept
  BY <1>0, <1>6 DEF WildCrash
<1>7. ASSUME NEW side \in Sides, RecvNothing(side) PROVE Kept
  BY <1>7 DEF RecvNothing
<1>8. ASSUME NEW side \in Sides, side # s, ParseDone(side) PROVE Kept
  BY <1>0, <1>8 DEF ParseDone, endVars
<1>9. ASSUME Kept PROVE Framed(s)'
  <2>1. Short(s)' /\ ~Wild(s)'
    BY <1>1, <1>9 DEF Framed, Short, Wild
  <2>2. QED
    BY <1>1, <2>1, FramedSame
<1>10. CASE ParseDone(s)
  <2>1. Len(buff[s]) < Length(s)
    BY <1>10, ParsedShort DEF ParseDone
  <2>2. Short(s)' /\ ~Wild(s)'
    BY <1>1, <1>10, <2>1 DEF ParseDone, endVars, Framed, Short, Wild
  <2>3. QED
    BY <1>1, <2>2, FramedSame
<1>11. CASE ServerWild
  <2>1. pc' = [pc EXCEPT !["server"] = "wild"] /\ SumWraps("server")
    BY <1>11 DEF ServerWild
  <2>2. s # "server"
    BY <2>1, LooksAtHeader DEF SumWraps
  <2>3. Short(s)' /\ ~Wild(s)'
    BY <1>0, <1>1, <2>1, <2>2 DEF Framed, Short, Wild
  <2>4. QED
    BY <1>1, <2>3, FramedSame
<1>12. QED
  BY <1>2, <1>3, <1>4, <1>5, <1>6, <1>7, <1>8, <1>9, <1>10, <1>11 DEF Quiet

\* The frame of each side in every step, until a send to it is cut short.
LEMMA FramedNext ==
  ASSUME Stream, AllFramed, [Next]_vars
  PROVE  AllFramed'
<1> SUFFICES ASSUME NEW s \in Sides, s \notin cut' PROVE Framed(s)'
  BY DEF AllFramed
<1>0. /\ "server" \in Sides /\ "client" \in Sides /\ "server" # "client"
      /\ Sides = {"client", "server"} /\ Types
      /\ pc \in [Sides -> {"idle", "send", "parse", "ack", "wild"}]
      /\ Length("server") = PkgLen /\ Length("client") = AckLen
  BY Lengths DEF Sides, Stream, Types
<1> DEFINE Same == UNCHANGED <<accepted[s], handled[s], packages[s]>>
<1>1. CASE Quiet
  <2>1. cut' = cut
    BY <1>1, QuietStep
  <2>2. Framed(s)
    BY <2>1 DEF AllFramed
  <2>3. QED
    BY <1>1, <2>2, FramedQuiet
<1>2. CASE SendPackage
  <2>1. /\ sent' \in 1..MaxPackages /\ SendEffect("server", sent', PkgLen)
        /\ UNCHANGED <<kernel_cap, handled, packages, buff, closed, wild>>
        /\ pc["client"] = "send" /\ (pc' = pc \/ pc' = [pc EXCEPT !["client"] = "idle"])
    BY <1>2, SendPackageStep
  <2>2. Framed(s)
    BY <2>1 DEF AllFramed, SendEffect
  <2>3. CASE s = "server"
    <3>1. pc'[s] = pc[s]
      BY <1>0, <2>1, <2>3
    <3>2. QED
      BY <1>0, <2>1, <2>2, <2>3, <3>1, FramedSends
  <2>4. CASE s = "client"
    <3>1. Same /\ pc[s] = "send"
      BY <1>0, <2>1, <2>4 DEF SendEffect
    <3>2. Short(s)' /\ ~Wild(s)'
      BY <1>0, <2>1, <2>2, <2>4, <3>1 DEF Framed, Short, Wild
    <3>3. QED
      BY <2>2, <3>1, <3>2, FramedSame
  <2>5. QED
    BY <1>0, <2>3, <2>4
<1>3. ASSUME NEW side \in Sides, Recv(side) PROVE Framed(s)'
  <2>1. Same /\ cut' = cut /\ pc' = [pc EXCEPT ![side] = "parse"] /\ wild' = wild
    BY <1>3 DEF Recv, historyVars, endVars
  <2>2. Framed(s)
    BY <2>1 DEF AllFramed
  <2>3. CASE s = side
    <3>1. Short(s)' /\ ~Wild(s)'
      BY <1>0, <2>1, <2>2, <2>3 DEF Short, Framed, Wild
    <3>2. QED
      BY <2>1, <2>2, <3>1, FramedSame
  <2>4. CASE s # side
    <3>1. pc'[s] = pc[s] /\ buff'[s] = buff[s]
      BY <1>0, <1>3, <2>1, <2>4 DEF Recv, Types
    <3>2. Short(s)' /\ ~Wild(s)'
      BY <2>1, <2>2, <3>1 DEF Framed, Short, Wild
    <3>3. QED
      BY <2>1, <2>2, <3>2, FramedSame
  <2>5. QED
    BY <2>3, <2>4
<1>4. CASE ServerPackage
  <2>1. PICK len \in 1..RecvBuff : Complete("server", len) /\ ConsumeEffect("server", len)
    BY <1>4, ServerPackageStep
  <2>2. /\ pc' = [pc EXCEPT !["server"] = "ack"] /\ wild' = wild
        /\ Head(buff["server"]).of \in 1..MaxPackages
        /\ SendEffect("client", Head(buff["server"]).of, AckLen)
    BY <1>4, ServerPackageStep
  <2>3. Framed(s)
    BY <2>2 DEF AllFramed, SendEffect
  <2>4. CASE s = "server"
    <3>1. Consumed("server", Head(buff["server"]).of)
      BY <1>0, <2>1, <2>3, <2>4, ConsumeFramed
    <3>2. accepted'["server"] = accepted["server"] /\ pc'["server"] = "ack"
      BY <1>0, <2>2 DEF SendEffect
    <3>3. QED
      BY <1>0, <2>2, <2>3, <2>4, <3>1, <3>2, FramedConsumes
  <2>5. CASE s = "client"
    <3>1. handled'[s] = handled[s] /\ buff'[s] = buff[s] /\ packages'[s] = packages[s]
      BY <1>0, <2>1, <2>5 DEF ConsumeEffect
    <3>2. pc'[s] = pc[s]
      BY <1>0, <2>2, <2>5
    <3>3. QED
      BY <1>0, <2>2, <2>3, <2>5, <3>1, <3>2, FramedSends
  <2>6. QED
    BY <1>0, <2>4, <2>5
<1>5. CASE ClientPackage
  <2>1. PICK len \in 1..RecvBuff : Complete("client", len) /\ ConsumeEffect("client", len)
    BY <1>5, ClientPackageStep
  <2>2. /\ pc' = pc /\ pc["client"] = "parse" /\ cut' = cut /\ accepted' = accepted
        /\ wild' = wild
    BY <1>5, ClientPackageStep
  <2>3. Framed(s)
    BY <2>2 DEF AllFramed
  <2>4. CASE s = "client"
    <3>1. Consumed("client", Head(buff["client"]).of)
      BY <1>0, <2>1, <2>3, <2>4, ConsumeFramed
    <3>2. QED
      BY <1>0, <2>2, <2>3, <2>4, <3>1, FramedConsumes
  <2>5. CASE s = "server"
    <3>1. Same /\ buff'[s] = buff[s]
      BY <1>0, <2>1, <2>2, <2>5 DEF ConsumeEffect
    <3>2. Short(s)' /\ ~Wild(s)'
      BY <2>2, <2>3, <3>1 DEF Framed, Short, Wild
    <3>3. QED
      BY <2>3, <3>1, <3>2, FramedSame
  <2>6. QED
    BY <1>0, <2>4, <2>5
<1>6. CASE WildLeaves
  <2>1. /\ pc["server"] = "wild" /\ pc' = [pc EXCEPT !["server"] = "idle"]
        /\ cut' = cut /\ wild' = wild /\ Same
        /\ \A r \in Sides \ {"server"} : buff'[r] = buff[r]
    BY <1>0, <1>6 DEF WildLeaves, sendVars, historyVars, endVars, Types
  <2>2. Framed(s)
    BY <2>1 DEF AllFramed
  <2>3. s # "server"
    BY <1>0, <2>1, <2>2 DEF Framed, Wild, Types
  <2>4. Short(s)' /\ ~Wild(s)'
    BY <1>0, <2>1, <2>2, <2>3 DEF Framed, Short, Wild
  <2>5. QED
    BY <2>1, <2>2, <2>4, FramedSame
<1>7. CASE UNCHANGED vars
  <2>1. Same /\ cut' = cut /\ buff' = buff /\ pc' = pc /\ wild' = wild
    BY <1>7 DEF vars, sendVars, historyVars, endVars
  <2>2. Framed(s) /\ Short(s)' /\ ~Wild(s)'
    BY <2>1 DEF AllFramed, Framed, Short, Wild
  <2>3. QED
    BY <2>1, <2>2, FramedSame
<1>8. QED
  BY <1>1, <1>2, <1>3, <1>4, <1>5, <1>6, <1>7 DEF Next, Quiet

-----------------------------------------------------------------------------
(* The order                                                                 *)

\* A package that is consumed comes behind all that were ahead, and stays ahead.
LEMMA ConsumedAhead ==
  ASSUME Stream, NEW s \in Sides, NEW q, Consumed(s, q), Ascend(accepted[s])
  PROVE  /\ \A p \in Int : Ahead(p, accepted[s], Len(handled[s])) =>
                            p < q /\ Ahead(p, accepted[s], Len(handled'[s]))
         /\ Ahead(q, accepted[s], Len(handled'[s]))
<1> DEFINE stream == accepted[s]
           d == Len(handled[s])
           e == Len(handled'[s])
<1>1. /\ d \in Nat /\ d + 1 \in 1..Len(stream) /\ stream[d + 1] = [of |-> q, at |-> 0]
      /\ q \in 1..MaxPackages /\ e = d + Length(s) /\ Length(s) \in Nat \ {0}
      /\ Len(stream) \in Nat
  <2>1. Len(stream) \in Nat
    BY LenProperties DEF Stream, Types
  <2>2. QED
    BY <2>1, Lengths DEF Consumed
<1>2. stream[d + 1].at = 0 /\ stream[d + 1].of = q
  BY <1>1
<1> HIDE DEF d, e, stream
<1>3. \A l \in e + 1..Len(stream) : l \in d + 1..Len(stream) /\ l \in 1..Len(stream) /\ d + 1 < l
  BY <1>1
<1>4. ASSUME NEW p \in Int, Ahead(p, stream, d)
      PROVE  p < q /\ Ahead(p, stream, e)
  <2>1. d + 1 \in d + 1..Len(stream)
    BY <1>1
  <2>2. p < q
    BY <1>2, <1>4, <2>1 DEF Ahead
  <2>3. Ahead(p, stream, e)
    BY <1>3, <1>4 DEF Ahead
  <2>4. QED
    BY <2>2, <2>3
<1>5. Ahead(q, stream, e)
  <2>1. Ascend(stream)
    BY DEF stream
  <2>2. QED
    BY <1>1, <1>2, <1>3, <2>1 DEF Ahead, Ascend
<1>6. QED
  BY <1>4, <1>5 DEF stream, d, e

\* The number of side s's i-th package after the step.
NewNr(s, i) == packages'[s][i][1].of

\* A side that consumes a package keeps its order.
LEMMA ConsumedInOrder ==
  ASSUME Stream, NEW s \in Sides, Framed(s), NEW q, Consumed(s, q), InOrder(s),
         accepted'[s] = accepted[s]
  PROVE  /\ InOrder(s)'
         /\ \A i \in 1..Len(packages'[s]) :
              NewNr(s, i) = q \/ (i \in 1..Len(packages[s]) /\ NewNr(s, i) = Nr(s, i))
<1> DEFINE n == Len(packages[s])
<1>1. /\ n \in Nat /\ Len(packages'[s]) = n + 1 /\ \A i \in 1..n : NewNr(s, i) = Nr(s, i)
      /\ NewNr(s, n + 1) = q
  <2>1. Package(q, Length(s))[1].of = q
    <3>1. 1 \in 1..Length(s)
      BY Lengths
    <3>2. QED
      BY <3>1 DEF Package
  <2>2. /\ n \in Nat /\ Len(packages'[s]) = n + 1 /\ packages'[s][n + 1] = Package(q, Length(s))
        /\ \A i \in 1..n : packages'[s][i] = packages[s][i]
    BY DEF Consumed
  <2>3. \A i \in 1..n : NewNr(s, i) = Nr(s, i)
    BY <2>2 DEF NewNr, Nr
  <2>4. NewNr(s, n + 1) = q
    BY <2>1, <2>2 DEF NewNr
  <2>5. QED
    BY <2>2, <2>3, <2>4
<1>2. Types /\ CutOut(s)
  BY DEF Stream, Framed
<1>3. \A i \in 1..n : Nr(s, i) \in Int
  BY <1>2, NrType
<1>4. /\ Ascend(accepted[s])
      /\ \A i \in 1..n : Ahead(Nr(s, i), accepted[s], Len(handled[s]))
      /\ \A i, j \in 1..n : i < j => Nr(s, i) < Nr(s, j)
  BY DEF InOrder
<1>5. /\ \A p \in Int : Ahead(p, accepted[s], Len(handled[s])) =>
                         p < q /\ Ahead(p, accepted[s], Len(handled'[s]))
      /\ Ahead(q, accepted[s], Len(handled'[s]))
  BY <1>4, ConsumedAhead
<1>6. \A i \in 1..n : Nr(s, i) < q /\ Ahead(Nr(s, i), accepted[s], Len(handled'[s]))
  BY <1>3, <1>4, <1>5
<1> HIDE DEF n
<1>7. \A i \in 1..n + 1 : i \in 1..n \/ i = n + 1
  BY <1>1
<1>8. \A i \in 1..n + 1 : Ahead(NewNr(s, i), accepted[s], Len(handled'[s]))
  BY <1>1, <1>5, <1>6, <1>7
<1>9. ASSUME NEW i \in 1..n + 1, NEW j \in 1..n + 1, i < j
      PROVE  NewNr(s, i) < NewNr(s, j)
  <2>1. i \in 1..n
    BY <1>1, <1>9
  <2>2. QED
    BY <1>1, <1>4, <1>6, <1>7, <1>9, <2>1
<1>10. InOrder(s)'
  BY <1>1, <1>4, <1>8, <1>9 DEF InOrder, NewNr, Nr
<1>11. QED
  BY <1>1, <1>7, <1>10 DEF n

\* A side that is sent a package later than all it was sent and took keeps its order.
LEMMA SentInOrder ==
  ASSUME Stream, NEW s \in Sides, Framed(s), InOrder(s), NEW p \in 1..MaxPackages,
         \A k \in 1..Len(accepted[s]) : accepted[s][k].of < p,
         \A i \in 1..Len(packages[s]) : Nr(s, i) < p,
         accepted'[s] \in {accepted[s], accepted[s] \o Package(p, Length(s))},
         UNCHANGED <<handled[s], packages[s]>>
  PROVE  InOrder(s)'
<1>1. accepted[s] \in Seq(Unit) /\ Length(s) \in {PkgLen, AckLen} /\ Len(handled[s]) \in Nat
  BY Lengths, LenProperties DEF Stream, Types
<1>2. Types /\ CutOut(s)
  BY DEF Stream, Framed
<1>3. \A i \in 1..Len(packages[s]) : Nr(s, i) \in Int /\ NewNr(s, i) = Nr(s, i)
  BY <1>2, NrType DEF Nr, NewNr
<1>4. Ascend(accepted'[s])
  BY <1>1, AscendGrows DEF InOrder
<1>5. \A i \in 1..Len(packages[s]) : Ahead(Nr(s, i), accepted'[s], Len(handled[s]))
  <2>1. ASSUME NEW i \in 1..Len(packages[s])
        PROVE  Ahead(Nr(s, i), accepted'[s], Len(handled[s]))
    <3>1. Ahead(Nr(s, i), accepted[s], Len(handled[s])) /\ Nr(s, i) < p /\ Nr(s, i) \in Int
      BY <1>3 DEF InOrder
    <3>2. QED
      BY <1>1, <3>1, AheadGrows
  <2>2. QED
    BY <2>1
<1>6. \A i, j \in 1..Len(packages[s]) : i < j => Nr(s, i) < Nr(s, j)
  BY DEF InOrder
<1>7. Len(packages'[s]) = Len(packages[s]) /\ Len(handled'[s]) = Len(handled[s])
  OBVIOUS
<1>8. QED
  BY <1>3, <1>4, <1>5, <1>6, <1>7 DEF InOrder, NewNr, Nr

\* The units of a stream are of packages sent, and stay so when p comes behind.
UpTo(stream, p) == \A k \in 1..Len(stream) : stream[k].of <= p

LEMMA UpToGrows ==
  ASSUME NEW stream \in Seq(Unit), NEW len \in {PkgLen, AckLen}, NEW p \in 1..MaxPackages,
         UpTo(stream, p), NEW grown \in {stream, stream \o Package(p, len)}
  PROVE  UpTo(grown, p)
<1>1. CASE grown = stream
  BY <1>1
<1>2. CASE grown = stream \o Package(p, len)
  <2>1. GrownBy(stream, len, p, grown)
    BY <1>2, Grown
  <2>2. /\ Len(stream) \in Nat /\ len \in Nat \ {0} /\ Len(grown) = Len(stream) + len
        /\ \A k \in 1..Len(stream) : grown[k] = stream[k]
        /\ \A k \in Len(stream) + 1..Len(stream) + len :
             grown[k] = [of |-> p, at |-> k - Len(stream) - 1]
    BY <2>1 DEF GrownBy
  <2>3. ASSUME NEW k \in 1..Len(grown) PROVE grown[k].of <= p
    <3>1. CASE k \in 1..Len(stream)
      BY <2>2, <3>1 DEF UpTo
    <3>2. CASE k \in Len(stream) + 1..Len(stream) + len
      <4>1. grown[k] = [of |-> p, at |-> k - Len(stream) - 1]
        BY <2>2, <3>2
      <4>2. grown[k].of = p
        BY <4>1
      <4>3. QED
        BY <4>2
    <3>3. QED
      BY <2>2, <3>1, <3>2
  <2>4. QED
    BY <2>3 DEF UpTo
<1>3. QED
  BY <1>1, <1>2

\* The client sends the next package.
LEMMA OrderSends ==
  ASSUME Stream, AllFramed, InAllOrder, cut = {}, SendPackage, cut' = {}
  PROVE  InAllOrder'
<1> DEFINE p == sent + 1
<1>0. Types /\ "server" \in Sides /\ "client" \in Sides /\ Sides = {"client", "server"}
  BY DEF Stream, Sides
<1>1. /\ sent' = p /\ p \in 1..MaxPackages /\ sent \in Nat
      /\ UNCHANGED <<handled, packages, buff>>
      /\ accepted'["client"] = accepted["client"]
      /\ accepted'["server"] \in {accepted["server"], accepted["server"] \o Package(p, PkgLen)}
  <2>1. /\ sent' = p /\ p \in 1..MaxPackages /\ UNCHANGED <<handled, packages, buff>>
        /\ SendEffect("server", p, PkgLen)
    BY SendPackageStep
  <2>2. sent \in Nat /\ "client" \in Sides \ {"server"}
    BY StreamAssumption DEF Stream, Types, Sides
  <2>3. "server" \notin cut'
    OBVIOUS
  <2>4. QED
    BY <2>1, <2>2, <2>3 DEF SendEffect
<1>2. accepted["server"] \in Seq(Unit) /\ accepted["client"] \in Seq(Unit)
  BY <1>0 DEF Types
<1>3. \A s \in Sides : Framed(s) /\ CutOut(s) /\ InOrder(s)
  BY DEF AllFramed, Framed, InAllOrder
<1>4. /\ \A s \in Sides : \A k \in 1..Len(accepted[s]) :
           accepted[s][k].of \in 1..MaxPackages /\ accepted[s][k].of <= sent
      /\ \A s \in Sides : \A i \in 1..Len(packages[s]) :
           Nr(s, i) \in 1..MaxPackages /\ Nr(s, i) <= sent
  <2>1. \A s \in Sides : \A k \in 1..Len(accepted[s]) : accepted[s][k].of \in 1..MaxPackages
    BY <1>0, UnitPlace DEF Types
  <2>2. \A s \in Sides : \A i \in 1..Len(packages[s]) : Nr(s, i) \in 1..MaxPackages
    BY <1>0, <1>3, NrType
  <2>3. QED
    BY <2>1, <2>2 DEF InAllOrder, SentBefore
<1>5. /\ \A s \in Sides : \A k \in 1..Len(accepted[s]) :
           accepted[s][k].of \in Int /\ accepted[s][k].of < p
      /\ \A s \in Sides : \A i \in 1..Len(packages[s]) : Nr(s, i) \in Int /\ Nr(s, i) < p
  BY <1>1, <1>4
<1> HIDE DEF p
<1>6. SentBefore'
  <2>1. UpTo(accepted["server"], p) /\ UpTo(accepted["client"], p)
    BY <1>0, <1>1, <1>5 DEF UpTo
  <2>2. UpTo(accepted'["server"], p)
    BY <1>1, <1>2, <2>1, UpToGrows
  <2>3. \A s \in Sides : UpTo(accepted'[s], p)
    BY <1>0, <1>1, <2>1, <2>2
  <2>4. \A s \in Sides : \A i \in 1..Len(packages[s]) : Nr(s, i) <= p
    BY <1>1, <1>5
  <2>5. QED
    BY <1>1, <2>3, <2>4 DEF SentBefore, UpTo, Nr
<1>7. InOrder("server")'
  <2>1. Length("server") = PkgLen
    BY Lengths
  <2>2. QED
    BY <1>0, <1>1, <1>3, <1>5, <2>1, SentInOrder
<1>8. InOrder("client")'
  BY <1>0, <1>1, <1>3 DEF InOrder, Nr
<1>9. \A q \in Int : ToCome(q) /\ q < p => Ahead(q, accepted'["server"], Len(handled["server"]))
  <2>1. ASSUME NEW q \in Int, ToCome(q), q < p
        PROVE  Ahead(q, accepted'["server"], Len(handled["server"]))
    <3>1. Ahead(q, accepted["server"], Len(handled["server"])) /\ Len(handled["server"]) \in Nat
      BY <1>0, <2>1, LenProperties DEF ToCome, Types
    <3>2. QED
      BY <1>1, <1>2, <2>1, <3>1, AheadGrows
  <2>2. QED
    BY <2>1
<1>10. AcksBehind'
  <2>1. \A k \in 1..Len(accepted["client"]) :
          Ahead(accepted["client"][k].of, accepted'["server"], Len(handled["server"]))
    BY <1>0, <1>5, <1>9 DEF InAllOrder, AcksBehind
  <2>2. \A i \in 1..Len(packages["client"]) :
          Ahead(Nr("client", i), accepted'["server"], Len(handled["server"]))
    BY <1>0, <1>5, <1>9 DEF InAllOrder, AcksBehind
  <2>3. QED
    BY <1>1, <2>1, <2>2 DEF AcksBehind, ToCome, Nr
<1>11. QED
  BY <1>0, <1>6, <1>7, <1>8, <1>10 DEF InAllOrder

\* The server takes a package out of its stream and acknowledges it.
LEMMA OrderAnswers ==
  ASSUME Stream, AllFramed, InAllOrder, cut = {}, ServerPackage, cut' = {}
  PROVE  InAllOrder'
<1> DEFINE q == Head(buff["server"]).of
           d == Len(handled["server"])
           e == Len(handled'["server"])
           stream == accepted["server"]
<1>0. Types /\ "server" \in Sides /\ "client" \in Sides /\ Sides = {"client", "server"}
  BY DEF Stream, Sides
<1>1. /\ sent' = sent /\ sent \in Nat /\ q \in 1..MaxPackages
      /\ accepted'["server"] = accepted["server"]
      /\ accepted'["client"] \in {accepted["client"], accepted["client"] \o Package(q, AckLen)}
  <2>1. UNCHANGED <<kernel_cap, sent, sentbytes, closed, wild>> /\ SendEffect("client", q, AckLen)
    BY ServerPackageStep
  <2>2. sent \in Nat /\ "server" \in Sides \ {"client"} /\ "client" \notin cut'
    BY <1>0, StreamAssumption DEF Types
  <2>3. q \in 1..MaxPackages
    BY ServerPackageStep
  <2>4. QED
    BY <2>1, <2>2, <2>3 DEF SendEffect
<1>2. \A s \in Sides : Framed(s) /\ CutOut(s) /\ InOrder(s)
  BY DEF AllFramed, Framed, InAllOrder
<1>3. Consumed("server", q) /\ UNCHANGED <<handled["client"], packages["client"]>>
  <2>1. PICK len \in 1..RecvBuff : Complete("server", len) /\ ConsumeEffect("server", len)
    BY ServerPackageStep
  <2>2. Consumed("server", q)
    BY <1>0, <1>2, <2>1, ConsumeFramed
  <2>3. "client" \in Sides \ {"server"}
    BY <1>0
  <2>4. QED
    BY <2>1, <2>2, <2>3 DEF ConsumeEffect
<1>4. /\ \A p \in Int : Ahead(p, stream, d) => p < q /\ Ahead(p, stream, e)
      /\ Ahead(q, stream, e)
  <2>1. Ascend(stream)
    BY <1>0, <1>2 DEF InOrder
  <2>2. QED
    BY <1>0, <1>3, <2>1, ConsumedAhead
<1>5. /\ InOrder("server")'
      /\ \A i \in 1..Len(packages'["server"]) :
           NewNr("server", i) = q
             \/ (i \in 1..Len(packages["server"]) /\ NewNr("server", i) = Nr("server", i))
  BY <1>0, <1>1, <1>2, <1>3, ConsumedInOrder
<1>6. q <= sent
  <2>1. d + 1 \in 1..Len(stream) /\ stream[d + 1] = [of |-> q, at |-> 0]
    BY <1>3 DEF Consumed
  <2>2. stream[d + 1].of = q
    BY <2>1
  <2>3. stream[d + 1].of <= sent
    BY <1>0, <2>1 DEF InAllOrder, SentBefore
  <2>4. QED
    BY <2>2, <2>3
<1>7. \A k \in 1..Len(accepted["client"]) :
        /\ accepted["client"][k].of \in Int /\ accepted["client"][k].of < q
        /\ Ahead(accepted["client"][k].of, stream, e)
  <2>1. \A k \in 1..Len(accepted["client"]) : accepted["client"][k].of \in Int
    BY <1>0, UnitPlace DEF Types
  <2>2. \A k \in 1..Len(accepted["client"]) : Ahead(accepted["client"][k].of, stream, d)
    BY DEF InAllOrder, AcksBehind, ToCome
  <2>3. QED
    BY <1>4, <2>1, <2>2
<1>8. \A i \in 1..Len(packages["client"]) :
        /\ Nr("client", i) \in Int /\ Nr("client", i) < q /\ Ahead(Nr("client", i), stream, e)
  <2>1. \A i \in 1..Len(packages["client"]) : Nr("client", i) \in Int
    BY <1>0, <1>2, NrType
  <2>2. \A i \in 1..Len(packages["client"]) : Ahead(Nr("client", i), stream, d)
    BY DEF InAllOrder, AcksBehind, ToCome
  <2>3. QED
    BY <1>4, <2>1, <2>2
<1> HIDE DEF q, d, e, stream
<1>9. InOrder("client")'
  <2>1. Length("client") = AckLen
    BY Lengths
  <2>2. QED
    BY <1>0, <1>1, <1>2, <1>3, <1>7, <1>8, <2>1, SentInOrder
<1>10. SentBefore'
  <2>1. UpTo(accepted["server"], sent)
    BY <1>0 DEF InAllOrder, SentBefore, UpTo
  <2>2. UpTo(accepted'["client"], q)
    <3>1. accepted["client"] \in Seq(Unit)
      BY <1>0 DEF Types
    <3>2. UpTo(accepted["client"], q)
      BY <1>1, <1>7 DEF UpTo
    <3>3. QED
      BY <1>1, <3>1, <3>2, UpToGrows
  <2>3. UpTo(accepted'["client"], sent)
    <3>1. accepted'["client"] \in Seq(Unit)
      <4>1. Types'
        BY StreamNext DEF Next, Stream
      <4>2. QED
        BY <1>0, <4>1 DEF Types
    <3>2. \A k \in 1..Len(accepted'["client"]) : accepted'["client"][k].of \in Int
      BY <3>1, UnitPlace
    <3>3. QED
      BY <1>1, <1>6, <2>2, <3>2 DEF UpTo
  <2>4. \A i \in 1..Len(packages["server"]) : Nr("server", i) <= sent
    BY <1>0 DEF InAllOrder, SentBefore
  <2>5. \A i \in 1..Len(packages'["server"]) : NewNr("server", i) <= sent
    BY <1>5, <1>6, <2>4
  <2>6. \A i \in 1..Len(packages'["client"]) : NewNr("client", i) <= sent
    BY <1>0, <1>3 DEF InAllOrder, SentBefore, NewNr, Nr
  <2>7. QED
    BY <1>0, <1>1, <2>1, <2>3, <2>5, <2>6 DEF SentBefore, UpTo, NewNr, Nr
<1>11. AcksBehind'
  <2>1. ASSUME NEW k \in 1..Len(accepted'["client"])
        PROVE  Ahead(accepted'["client"][k].of, stream, e)
    <3>1. CASE accepted'["client"] = accepted["client"]
      BY <1>7, <3>1
    <3>2. CASE accepted'["client"] = accepted["client"] \o Package(q, AckLen)
      <4>1. GrownBy(accepted["client"], AckLen, q, accepted'["client"])
        BY <1>0, <1>1, <3>2, Grown DEF Types
      <4>2. /\ Len(accepted["client"]) \in Nat /\ AckLen \in Nat \ {0}
            /\ Len(accepted'["client"]) = Len(accepted["client"]) + AckLen
            /\ \A j \in 1..Len(accepted["client"]) : accepted'["client"][j] = accepted["client"][j]
            /\ \A j \in Len(accepted["client"]) + 1..Len(accepted["client"]) + AckLen :
                 accepted'["client"][j] = [of |-> q, at |-> j - Len(accepted["client"]) - 1]
        BY <4>1 DEF GrownBy
      <4>3. CASE k \in 1..Len(accepted["client"])
        BY <1>7, <4>2, <4>3
      <4>4. CASE k \in Len(accepted["client"]) + 1..Len(accepted["client"]) + AckLen
        <5>1. accepted'["client"][k] = [of |-> q, at |-> k - Len(accepted["client"]) - 1]
          BY <4>2, <4>4
        <5>2. accepted'["client"][k].of = q
          BY <5>1
        <5>3. QED
          BY <1>4, <5>2
      <4>5. QED
        BY <4>2, <4>3, <4>4
    <3>3. QED
      BY <1>1, <3>1, <3>2
  <2>2. \A i \in 1..Len(packages'["client"]) : Ahead(NewNr("client", i), stream, e)
    BY <1>3, <1>8 DEF NewNr, Nr
  <2>3. QED
    BY <1>1, <2>1, <2>2 DEF AcksBehind, ToCome, NewNr, Nr, stream, e
<1>12. QED
  BY <1>0, <1>5, <1>9, <1>10, <1>11 DEF InAllOrder

\* The client takes an acknowledgement out of its stream.
LEMMA OrderAcked ==
  ASSUME Stream, AllFramed, InAllOrder, cut = {}, ClientPackage
  PROVE  InAllOrder'
<1> DEFINE q == Head(buff["client"]).of
           d == Len(handled["client"])
<1>0. Types /\ "server" \in Sides /\ "client" \in Sides /\ Sides = {"client", "server"}
  BY DEF Stream, Sides
<1>1. sent' = sent /\ accepted' = accepted
  BY ClientPackageStep
<1>2. \A s \in Sides : Framed(s) /\ CutOut(s) /\ InOrder(s)
  BY DEF AllFramed, Framed, InAllOrder
<1>3. Consumed("client", q) /\ UNCHANGED <<handled["server"], packages["server"]>>
  <2>1. PICK len \in 1..RecvBuff : Complete("client", len) /\ ConsumeEffect("client", len)
    BY ClientPackageStep
  <2>2. Consumed("client", q)
    BY <1>0, <1>2, <2>1, ConsumeFramed
  <2>3. "server" \in Sides \ {"client"}
    BY <1>0
  <2>4. QED
    BY <2>1, <2>2, <2>3 DEF ConsumeEffect
<1>4. /\ InOrder("client")'
      /\ \A i \in 1..Len(packages'["client"]) :
           NewNr("client", i) = q
             \/ (i \in 1..Len(packages["client"]) /\ NewNr("client", i) = Nr("client", i))
  BY <1>0, <1>1, <1>2, <1>3, ConsumedInOrder
<1>5. q <= sent /\ ToCome(q)
  <2>1. d + 1 \in 1..Len(accepted["client"]) /\ accepted["client"][d + 1] = [of |-> q, at |-> 0]
    BY <1>3 DEF Consumed
  <2>2. accepted["client"][d + 1].of = q
    BY <2>1
  <2>3. accepted["client"][d + 1].of <= sent /\ ToCome(accepted["client"][d + 1].of)
    BY <1>0, <2>1 DEF InAllOrder, SentBefore, AcksBehind
  <2>4. QED
    BY <2>2, <2>3
<1> HIDE DEF q, d
<1>6. InOrder("server")'
  BY <1>0, <1>1, <1>2, <1>3 DEF InOrder, Nr
<1>7. SentBefore'
  <2>1. \A i \in 1..Len(packages'["client"]) : NewNr("client", i) <= sent
    BY <1>0, <1>4, <1>5 DEF InAllOrder, SentBefore
  <2>2. \A i \in 1..Len(packages'["server"]) : NewNr("server", i) <= sent
    BY <1>0, <1>3 DEF InAllOrder, SentBefore, NewNr, Nr
  <2>3. QED
    BY <1>0, <1>1, <2>1, <2>2 DEF InAllOrder, SentBefore, NewNr, Nr
<1>8. AcksBehind'
  <2>1. \A i \in 1..Len(packages'["client"]) : ToCome(NewNr("client", i))
    BY <1>4, <1>5 DEF InAllOrder, AcksBehind
  <2>2. \A k \in 1..Len(accepted["client"]) : ToCome(accepted["client"][k].of)
    BY DEF InAllOrder, AcksBehind
  <2>3. QED
    BY <1>1, <1>3, <2>1, <2>2 DEF AcksBehind, ToCome, NewNr, Nr
<1>9. QED
  BY <1>0, <1>4, <1>6, <1>7, <1>8 DEF InAllOrder

\* A send that was cut short stays so.
LEMMA CutGrows == Stream /\ [Next]_vars => cut \subseteq cut'
<1> SUFFICES ASSUME Stream, [Next]_vars PROVE cut \subseteq cut'
  OBVIOUS
<1>1. CASE SendPackage
  BY <1>1, SendPackageStep DEF SendEffect
<1>2. CASE ServerPackage
  BY <1>2, ServerPackageStep DEF SendEffect
<1>3. CASE ClientPackage
  BY <1>3, ClientPackageStep
<1>4. CASE Quiet \/ UNCHANGED vars
  BY <1>4, QuietStep
<1>5. ASSUME WildLeaves \/ \E side \in Sides : Recv(side)
      PROVE  cut' = cut
  BY <1>5 DEF Recv, WildLeaves, sendVars
<1>6. QED
  BY <1>1, <1>2, <1>3, <1>4, <1>5 DEF Next, Quiet

LEMMA OrderedNext ==
  ASSUME Stream, AllFramed, Ordered, [Next]_vars
  PROVE  Ordered'
<1> SUFFICES ASSUME cut' = {} PROVE InAllOrder'
  BY DEF Ordered
<1>1. cut = {} /\ InAllOrder
  BY CutGrows DEF Ordered
<1>2. CASE SendPackage
  BY <1>1, <1>2, OrderSends
<1>3. CASE ServerPackage
  BY <1>1, <1>3, OrderAnswers
<1>4. CASE ClientPackage
  BY <1>1, <1>4, OrderAcked
<1>5. ASSUME Quiet \/ UNCHANGED vars \/ WildLeaves \/ \E side \in Sides : Recv(side)
      PROVE  InAllOrder'
  <2>1. UNCHANGED <<sent, accepted, handled, packages>>
    BY <1>5, QuietStep DEF Recv, WildLeaves, sendVars, historyVars
  <2>2. QED
    BY <1>1, <2>1 DEF InAllOrder, SentBefore, AcksBehind, ToCome, InOrder, Nr
<1>6. QED
  BY <1>2, <1>3, <1>4, <1>5 DEF Next, Quiet

\* recv is called with no room in recv_buff, and a sum wraps, behind a torn package
\* only, and a connection ends because of one of them.
LEMMA EndsByACutNext ==
  ASSUME Stream, AllFramed, EndsByACut, [Next]_vars
  PROVE  EndsByACut'
<1> SUFFICES ASSUME closed' # {} \/ wild' PROVE cut' # {}
  BY DEF EndsByACut
<1>1. cut \subseteq cut'
  BY CutGrows
<1>2. CASE closed # {} \/ wild
  BY <1>1, <1>2 DEF EndsByACut
<1>3. CASE closed = {} /\ ~wild
  <2>1. ASSUME SendPackage \/ ServerPackage \/ ClientPackage PROVE FALSE
    BY <1>3, <2>1, SendPackageStep, ServerPackageStep, ClientPackageStep
  <2>2. ASSUME \/ SendWorker \/ SendDone \/ PeerGone \/ AckSent \/ UNCHANGED vars
               \/ WildCrash \/ WildLeaves \/ \E side \in Sides : ParseDone(side) \/ Recv(side)
        PROVE  FALSE
    <3>1. pc["server"] # "wild"
      BY <1>3 DEF Stream, Types
    <3>2. QED
      BY <1>3, <2>2, <3>1 DEF SendWorker, SendDone, PeerGone, AckSent, WildCrash, WildLeaves, ParseDone,
             Recv, vars, endVars
  <2>3. CASE ServerWild
    <3>1. "server" \in Sides /\ SumWraps("server")
      BY <2>3 DEF ServerWild, Sides
    <3>2. "server" \in cut
      BY <3>1, LooksAtHeader DEF AllFramed, SumWraps
    <3>3. QED
      BY <1>1, <3>2
  <2>4. ASSUME NEW side \in Sides, RecvNothing(side) PROVE side \in cut
    <3>1. pc[side] = "idle" /\ Len(buff[side]) = RecvBuff
      BY <2>4 DEF RecvNothing
    <3>2. QED
      BY <3>1, RoomForMore DEF AllFramed
  <2>5. QED
    BY <1>1, <2>1, <2>2, <2>3, <2>4 DEF Next
<1>4. QED
  BY <1>2, <1>3

LEMMA IInvInit == Init => IInv
<1> SUFFICES ASSUME Init PROVE IInv
  OBVIOUS
<1>1. Stream
  BY StreamInit
<1>2. \A s \in Sides : /\ accepted[s] = <<>> /\ handled[s] = <<>> /\ buff[s] = <<>>
                       /\ packages[s] = <<>> /\ ~Wild(s)
  BY DEF Init, Wild
<1>3. Len(<<>>) = 0
  BY EmptySeq
<1>4. AllFramed
  BY <1>2, <1>3, Lengths
     DEF AllFramed, Framed, Whole, AtHeader, HeaderAt, Short, CutOut
<1>5. Ordered
  <2>1. "server" \in Sides /\ "client" \in Sides
    BY DEF Sides
  <2>2. QED
    BY <1>2, <1>3, <2>1
       DEF Ordered, InAllOrder, SentBefore, AcksBehind, InOrder, Ascend
<1>6. EndsByACut
  BY DEF Init, EndsByACut
<1>7. QED
  BY <1>1, <1>4, <1>5, <1>6 DEF IInv

LEMMA IInvNext == IInv /\ [Next]_vars => IInv'
<1> SUFFICES ASSUME IInv, [Next]_vars PROVE IInv'
  OBVIOUS
<1>1. Stream /\ AllFramed /\ Ordered /\ EndsByACut
  BY DEF IInv
<1>2. Stream'
  BY <1>1, StreamNext
<1>3. AllFramed'
  BY <1>1, FramedNext
<1>4. Ordered'
  BY <1>1, OrderedNext
<1>5. EndsByACut'
  BY <1>1, EndsByACutNext
<1>6. QED
  BY <1>2, <1>3, <1>4, <1>5 DEF IInv

-----------------------------------------------------------------------------
(* Theorems                                                                  *)

\* The place of every unit, the order of packages and the room in recv_buff.
THEOREM Invariance == Spec => []IInv
<1>1. Init => IInv
  BY IInvInit
<1>2. IInv /\ [Next]_vars => IInv'
  BY IInvNext
<1>3. QED
  BY <1>1, <1>2, PTL DEF Spec

\* However recv cuts the stream and whatever send cut off: no unit is lost,
\* repeated or moved by nwc_connection_on_recv, until a length in torn payload has
\* made the server's sum wrap.
THEOREM StreamStaysIntact == Spec => []StreamIntact
<1>1. IInv => StreamIntact
  <2> SUFFICES ASSUME IInv PROVE StreamIntact
    OBVIOUS
  <2>1. Types /\ \A s \in Sides : Intact(s) \/ Wild(s)
    BY DEF IInv, Stream
  <2>2. \A s \in Sides : /\ \A i \in 1..Len(wire[s]) : wire[s][i] \in Unit
                         /\ \A i \in 1..Len(buff[s]) : buff[s][i] \in Unit
    BY <2>1, ElementOfSeq DEF Types
  <2>3. TypeOK
    BY <2>1, <2>2 DEF Types, TypeOK
  <2>4. QED
    BY <2>1, <2>3 DEF StreamIntact, Intact, Wild
<1>2. QED
  BY <1>1, Invariance, PTL

\* Until a send has been cut short every package is taken for what it is, the
\* acknowledgements come in the order of the packages, recv always has room and no
\* sum of lengths wraps.
THEOREM OnlyACutTears == Spec => []TornOnlyByACut
<1>1. IInv => TornOnlyByACut
  <2> SUFFICES ASSUME IInv PROVE TornOnlyByACut
    OBVIOUS
  <2>1. closed # {} \/ wild => cut # {}
    BY DEF IInv, EndsByACut
  <2>2. ASSUME NEW s \in Sides \ cut
        PROVE  /\ \A i \in 1..Len(packages[s]) :
                    packages[s][i] = Package(packages[s][i][1].of, Length(s))
               /\ \A i, j \in 1..Len(packages[s]) :
                    i < j /\ cut = {} => packages[s][i][1].of < packages[s][j][1].of
    <3>1. CutOut(s)
      BY DEF IInv, AllFramed, Framed
    <3>2. cut = {} => InOrder(s)
      BY DEF IInv, Ordered, InAllOrder
    <3>3. QED
      BY <3>1, <3>2 DEF CutOut, InOrder, Nr
  <2>3. QED
    BY <2>1, <2>2 DEF TornOnlyByACut
<1>2. QED
  BY <1>1, Invariance, PTL

=============================================================================
