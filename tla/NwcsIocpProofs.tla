---------------------------- MODULE NwcsIocpProofs ----------------------------
(* Two results about the IOCP server for any number of clients, messages and *)
(* failures: a freed connection has nothing in flight, and an accept is      *)
(* under way until one fails.                                                *)
(*                                                                           *)
(* pending_ops is compared with what it stands for, the operations of the    *)
(* connection that are posted or whose completion is queued: it is never     *)
(* below their number (plus what malloc left in it).  It exceeds the number   *)
(* once a completion has failed, so equality is no invariant.  That the       *)
(* number stays bounded rests on reads: one at a time, each of them taking   *)
(* a message, or the last one.                                               *)
EXTENDS NwcsIocp, FiniteSetTheorems, SequenceTheorems, TLAPS

Conns == Clients \cup {Acceptor}

\* The completions in s that an operation of n will still be counted off by.
Places(s, n, op) == {i \in DOMAIN s : s[i].nwc = n /\ s[i].op = op /\ s[i].live}
Queued(s, n, op) == Cardinality(Places(s, n, op))

Bit(b) == IF b THEN 1 ELSE 0

IsOf(m, n, op) == m.nwc = n /\ m.op = op /\ m.live

Outstanding(c) ==
  Bit(c \in reading) + writing[c] + Queued(port, c, "read") + Queued(port, c, "write")

Types ==
  /\ peer \in [Clients -> {"absent", "open", "closed", "reset"}]
  /\ sent \in [Clients -> 0 .. Messages] /\ up \in [Clients -> 0 .. Messages]
  /\ accepting \in BOOLEAN /\ broken \in BOOLEAN
  /\ reading \subseteq Clients /\ writing \in [Clients -> Nat]
  /\ port \in Seq(Completion)
  /\ list \in [Conns -> {"accept", "none", "accepted", "client", "delete", "freed"}]
  /\ pending_ops \in [Conns -> Int]
  /\ born \in [Clients -> Births \cup {0}]
  /\ failed \subseteq Conns
  /\ faults \in 0 .. MaxFaults
  /\ \A c \in Clients : up[c] <= sent[c]

\* A connection has one read under way at most, the listening socket one accept.
OneRead(c) == Bit(c \in reading) + Queued(port, c, "read") <= 1
OneAccept == Bit(accepting) + Queued(port, Acceptor, "accept") <= 1

\* What an accept completes with is a connection that nothing was done with yet.
Fresh(m) ==
  /\ m.op = "accept" <=> m.nwc = Acceptor
  /\ m.op = "accept" => list[m.socket] = "accepted" /\ m.live
AcceptsAreFresh == \A m \in Range(port) : Fresh(m)

\* An nwc_connection is not in use before its peer has connected.
Connected(c) == list[c] # "none" => peer[c] # "absent"

\* pending_ops, p, covers the o operations outstanding, for a connection on list l
\* that malloc left b in.
Covers(l, p, o, b) ==
  /\ l \in {"accept", "none", "accepted"} => o = 0
  /\ l \in {"client", "delete"} => o <= p - b
  /\ l = "freed" /\ b >= 0 => o = 0

Covered(c) == Covers(list[c], pending_ops[c], Outstanding(c), born[c])

\* Each operation counted is one of a message, or of the end of the stream: got
\* are the messages received, last is set when one more read may be posted.
Limits(l, p, b, got, last) == l \in {"client", "delete"} => p - b + Bit(last) <= got + 1

MayReadOn(c) == peer[c] = "open" /\ Queued(port, c, "read") > 0

Limited(c) == Limits(list[c], pending_ops[c], born[c], sent[c] - up[c], MayReadOn(c))

ClientInv(c) == OneRead(c) /\ Connected(c) /\ Covered(c) /\ Limited(c)

IInv == Types /\ OneAccept /\ AcceptsAreFresh /\ \A c \in Clients : ClientInv(c)

-----------------------------------------------------------------------------
(* Counting completions *)

LEMMA PlacesFinite ==
  ASSUME NEW s \in Seq(Completion), NEW n, NEW op
  PROVE  /\ IsFiniteSet(Places(s, n, op)) /\ Queued(s, n, op) \in Nat
         /\ Queued(s, n, op) = 0 <=> Places(s, n, op) = {}
<1>1. DOMAIN s = 1 .. Len(s) /\ Len(s) \in Nat
  OBVIOUS
<1>2. IsFiniteSet(1 .. Len(s)) /\ Places(s, n, op) \in SUBSET (1 .. Len(s))
  BY <1>1, FS_Interval DEF Places
<1>3. IsFiniteSet(Places(s, n, op))
  BY <1>2, FS_Subset
<1>4. QED
  BY <1>3, FS_CardinalityType, FS_EmptySet DEF Queued

LEMMA QueuedAppend ==
  ASSUME NEW s \in Seq(Completion), NEW m \in Completion, NEW n, NEW op
  PROVE  Queued(Append(s, m), n, op) = Queued(s, n, op) + Bit(IsOf(m, n, op))
<1> DEFINE t == Append(s, m)
<1>1. /\ t \in Seq(Completion) /\ Len(s) \in Nat
      /\ DOMAIN s = 1 .. Len(s) /\ DOMAIN t = 1 .. Len(s) + 1
      /\ t[Len(s) + 1] = m /\ \A k \in 1 .. Len(s) : t[k] = s[k]
  OBVIOUS
<1> HIDE DEF t
<1>2. CASE IsOf(m, n, op)
  <2>1. Places(t, n, op) = Places(s, n, op) \cup {Len(s) + 1}
    BY <1>1, <1>2 DEF Places, IsOf
  <2>2. Len(s) + 1 \notin Places(s, n, op)
    BY <1>1 DEF Places
  <2>3. Cardinality(Places(t, n, op)) = Cardinality(Places(s, n, op)) + 1
    BY <2>1, <2>2, PlacesFinite, FS_AddElement
  <2>4. QED
    BY <1>2, <2>3 DEF Queued, Bit, t
<1>3. CASE ~IsOf(m, n, op)
  <2>1. Places(t, n, op) = Places(s, n, op)
    BY <1>1, <1>3 DEF Places, IsOf
  <2>2. QED
    BY <1>3, <2>1, PlacesFinite DEF Queued, Bit, t
<1>4. QED
  BY <1>2, <1>3

LEMMA QueuedTail ==
  ASSUME NEW s \in Seq(Completion), s # <<>>, NEW n, NEW op
  PROVE  Queued(s, n, op) = Queued(Tail(s), n, op) + Bit(IsOf(Head(s), n, op))
<1> DEFINE t == Tail(s)
           P == Places(s, n, op) \ {1}
           f == [k \in Places(t, n, op) |-> k + 1]
<1>1. /\ t \in Seq(Completion) /\ Len(s) \in Nat \ {0} /\ Head(s) = s[1]
      /\ DOMAIN s = 1 .. Len(s) /\ DOMAIN t = 1 .. Len(s) - 1
      /\ \A k \in 1 .. Len(s) - 1 : t[k] = s[k + 1]
  BY HeadTailProperties
<1> HIDE DEF t
<1>2. f \in Bijection(Places(t, n, op), P)
  <2>1. \A k \in Places(t, n, op) : k \in Nat /\ k + 1 \in P
    BY <1>1 DEF Places
  <2>2. \A j \in P : j - 1 \in Places(t, n, op) /\ f[j - 1] = j
    <3> SUFFICES ASSUME NEW j \in P PROVE j - 1 \in Places(t, n, op) /\ f[j - 1] = j
      OBVIOUS
    <3>1. j \in 1 .. Len(s) /\ j # 1
      BY <1>1 DEF Places
    <3>2. j - 1 \in 1 .. Len(s) - 1 /\ (j - 1) + 1 = j
      BY <1>1, <3>1
    <3>3. t[j - 1] = s[j]
      BY <1>1, <3>2
    <3>4. QED
      BY <1>1, <3>2, <3>3 DEF Places
  <2>3. f \in [Places(t, n, op) -> P]
    BY <2>1
  <2>4. \A j, k \in Places(t, n, op) : f[j] = f[k] => j = k
    BY <2>1
  <2>5. \A j \in P : \E k \in Places(t, n, op) : f[k] = j
    BY <2>2
  <2>6. QED
    BY <2>3, <2>4, <2>5 DEF Bijection, Injection, Surjection, IsInjective
<1>3. IsFiniteSet(P) /\ Cardinality(P) = Queued(t, n, op)
  BY <1>1, <1>2, PlacesFinite, FS_Bijection DEF ExistsBijection, Queued
<1>4. Cardinality(P) = IF 1 \in Places(s, n, op) THEN Queued(s, n, op) - 1 ELSE Queued(s, n, op)
  BY PlacesFinite, FS_RemoveElement DEF Queued
<1>5. 1 \in Places(s, n, op) <=> IsOf(Head(s), n, op)
  BY <1>1 DEF Places, IsOf
<1>6. Queued(s, n, op) \in Nat
  BY PlacesFinite
<1>7. QED
  BY <1>3, <1>4, <1>5, <1>6 DEF Bit, t

-----------------------------------------------------------------------------
(* What the parts of a turn do *)

\* The numbers that the invariants compare.
LEMMA Numbers ==
  ASSUME Types, NEW c \in Clients
  PROVE  /\ \A n, op : Queued(port, n, op) \in Nat
         /\ Outstanding(c) \in Nat /\ writing[c] \in Nat
         /\ pending_ops[c] \in Int /\ born[c] \in Int
         /\ sent[c] \in Int /\ up[c] \in Int
<1>1. \A n, op : Queued(port, n, op) \in Nat
  BY PlacesFinite DEF Types
<1>2. born[c] \in Int /\ pending_ops[c] \in Int /\ writing[c] \in Nat
  <2>1. Births \cup {0} \subseteq Int
    BY NwcsIocpAssumption
  <2>2. born[c] \in Births \cup {0} /\ pending_ops[c] \in Int /\ writing[c] \in Nat
    BY DEF Types, Conns
  <2>3. QED
    BY <2>1, <2>2
<1>3. sent[c] \in Int /\ up[c] \in Int
  BY NwcsIocpAssumption DEF Types
<1>4. QED
  BY <1>1, <1>2, <1>3 DEF Outstanding, Bit

\* The head of the port is taken.
LEMMA PortAfterTail ==
  ASSUME Types, port # <<>>
  PROVE  /\ Tail(port) \in Seq(Completion) /\ Head(port) \in Completion
         /\ Head(port) \in Range(port) /\ Range(Tail(port)) \subseteq Range(port)
         /\ \A n, op : /\ Queued(Tail(port), n, op) \in Nat
                       /\ Queued(port, n, op)
                            = Queued(Tail(port), n, op) + Bit(IsOf(Head(port), n, op))
<1>1. port \in Seq(Completion)
  BY DEF Types
<1>2. /\ Tail(port) \in Seq(Completion) /\ Len(port) \in Nat \ {0} /\ Head(port) = port[1]
      /\ DOMAIN port = 1 .. Len(port) /\ DOMAIN Tail(port) = 1 .. Len(port) - 1
      /\ \A k \in 1 .. Len(port) - 1 : Tail(port)[k] = port[k + 1]
  BY <1>1, HeadTailProperties
<1>3. \A k \in 1 .. Len(port) - 1 : k + 1 \in 1 .. Len(port)
  BY <1>2
<1>4. Range(Tail(port)) \subseteq Range(port)
  BY <1>2, <1>3 DEF Range
<1>5. Head(port) \in Completion /\ Head(port) \in Range(port)
  BY <1>1, <1>2 DEF Range
<1>6. QED
  BY <1>1, <1>2, <1>4, <1>5, QueuedTail, PlacesFinite

\* A completion is queued.
LEMMA PortAfterAppend ==
  ASSUME NEW s \in Seq(Completion), NEW m \in Completion
  PROVE  /\ Append(s, m) \in Seq(Completion)
         /\ \A x \in Range(Append(s, m)) : x = m \/ x \in Range(s)
         /\ \A n, op : Queued(Append(s, m), n, op) = Queued(s, n, op) + Bit(IsOf(m, n, op))
<1>1. /\ Append(s, m) \in Seq(Completion)
      /\ DOMAIN s = 1 .. Len(s) /\ DOMAIN Append(s, m) = 1 .. Len(s) + 1 /\ Len(s) \in Nat
      /\ Append(s, m)[Len(s) + 1] = m
      /\ \A k \in 1 .. Len(s) : Append(s, m)[k] = s[k]
  OBVIOUS
<1>2. \A x \in Range(Append(s, m)) : x = m \/ x \in Range(s)
  BY <1>1 DEF Range
<1>3. QED
  BY <1>1, <1>2, QueuedAppend

Results == {"pending", "done", "eof", "failed"}

\* A read is asked for, at the end of a turn that took the head of the port.
LEMMA AfterReadRequest ==
  ASSUME Types, port # <<>>, NEW c \in Clients, NEW result \in Results,
         nwcs_read_request(c, result)
  PROVE  /\ port' \in Seq(Completion)
         /\ \A m \in Range(port') : m \in Range(Tail(port)) \/ (m.op = "read" /\ m.nwc = c)
         /\ \A n, op : Queued(port', n, op) = Queued(Tail(port), n, op)
                                    + Bit(n = c /\ op = "read" /\ result = "done")
         /\ reading' = IF result = "pending" THEN reading \cup {c} ELSE reading
         /\ up' = IF result = "done" THEN [up EXCEPT ![c] = 0] ELSE up
<1> DEFINE t == Tail(port)
           done == Done(c, "read", c, TRUE)
           eof == [Done(c, "read", c, TRUE) EXCEPT !.live = FALSE]
<1>0. /\ reading' = IF result = "pending" THEN reading \cup {c} ELSE reading
      /\ up' = IF result = "done" THEN [up EXCEPT ![c] = 0] ELSE up
  BY DEF nwcs_read_request
<1>1. t \in Seq(Completion) /\ \A n, op : Queued(t, n, op) \in Nat
  BY PortAfterTail
<1>2. /\ done \in Completion /\ eof \in Completion
      /\ done.op = "read" /\ done.nwc = c /\ done.live
      /\ eof.op = "read" /\ eof.nwc = c /\ ~eof.live
  BY DEF Done, Completion
<1>3. CASE result = "done"
  <2>1. port' = Append(t, done)
    <3>1. port' = t \o <<done>>
      BY <1>3 DEF nwcs_read_request
    <3> HIDE DEF done, t
    <3>2. QED
      BY <1>1, <1>2, <3>1, AppendIsConcat
  <2>2. \A n, op : Bit(IsOf(done, n, op)) = Bit(n = c /\ op = "read" /\ result = "done")
    BY <1>2, <1>3 DEF IsOf, Bit
  <2> HIDE DEF done, t
  <2>3. /\ port' \in Seq(Completion)
        /\ \A m \in Range(port') : m = done \/ m \in Range(t)
        /\ \A n, op : Queued(port', n, op) = Queued(t, n, op) + Bit(IsOf(done, n, op))
    BY <1>1, <1>2, <2>1, PortAfterAppend
  <2>4. QED
    BY <1>0, <1>2, <2>2, <2>3 DEF t
<1>4. CASE result = "eof"
  <2>1. port' = Append(t, eof)
    <3>1. port' = t \o <<eof>>
      BY <1>4 DEF nwcs_read_request
    <3> HIDE DEF eof, t
    <3>2. QED
      BY <1>1, <1>2, <3>1, AppendIsConcat
  <2>2. \A n, op : Bit(IsOf(eof, n, op)) = Bit(n = c /\ op = "read" /\ result = "done")
    BY <1>2, <1>4 DEF IsOf, Bit
  <2> HIDE DEF eof, t
  <2>3. /\ port' \in Seq(Completion)
        /\ \A m \in Range(port') : m = eof \/ m \in Range(t)
        /\ \A n, op : Queued(port', n, op) = Queued(t, n, op) + Bit(IsOf(eof, n, op))
    BY <1>1, <1>2, <2>1, PortAfterAppend
  <2>4. QED
    BY <1>0, <1>2, <2>2, <2>3 DEF t
<1>5. CASE result \in {"pending", "failed"}
  <2>1. port' = t
    BY <1>1, <1>5 DEF nwcs_read_request
  <2>2. result # "done"
    BY <1>5
  <2> HIDE DEF t
  <2>3. \A n, op : Queued(t, n, op) = Queued(t, n, op) + Bit(n = c /\ op = "read" /\ result = "done")
    BY <1>1, <2>2 DEF Bit
  <2>4. QED
    BY <1>0, <1>1, <2>1, <2>3 DEF t
<1>6. QED
  BY <1>3, <1>4, <1>5 DEF Results

\* The pass over the delete list keeps what the invariants say of each client.
LEMMA PassKeeps ==
  ASSUME NEW l, NEW p \in Int, NEW b \in Int, NEW o \in Nat, NEW got \in Int, NEW last,
         Covers(l, p, o, b), Limits(l, p, b, got, last)
  PROVE  LET m == IF l = "delete" /\ p <= 0 THEN "freed" ELSE l
         IN Covers(m, p, o, b) /\ Limits(m, p, b, got, last)
<1>1. CASE l = "delete" /\ p <= 0
  BY <1>1 DEF Covers, Limits
<1>2. CASE ~(l = "delete" /\ p <= 0)
  BY <1>2
<1>3. QED
  BY <1>1, <1>2

LEMMA InitInv == Init => IInv
<1> SUFFICES ASSUME Init PROVE IInv
  OBVIOUS
<1> USE NwcsIocpAssumption
<1>1. \A n, op : Places(port, n, op) = {}
  BY DEF Init, Places
<1>2. \A n, op : Queued(port, n, op) = 0
  BY <1>1, FS_EmptySet DEF Queued
<1>3. Types
  <2>1. <<>> \in Seq(Completion)
    OBVIOUS
  <2>2. list \in [Conns -> {"accept", "none", "accepted", "client", "delete", "freed"}]
    BY DEF Init, Conns
  <2>3. pending_ops \in [Conns -> Int] /\ born \in [Clients -> Births \cup {0}]
    BY DEF Init, Conns
  <2>4. /\ peer \in [Clients -> {"absent", "open", "closed", "reset"}]
        /\ sent \in [Clients -> 0 .. Messages] /\ up \in [Clients -> 0 .. Messages]
        /\ writing \in [Clients -> Nat] /\ \A c \in Clients : up[c] <= sent[c]
    BY DEF Init
  <2>5. /\ reading \subseteq Clients /\ port \in Seq(Completion) /\ failed \subseteq Conns
        /\ faults \in 0 .. MaxFaults
    BY <2>1 DEF Init, Conns
  <2>6. accepting \in BOOLEAN /\ broken \in BOOLEAN
    BY DEF Init
  <2>7. QED
    BY <2>2, <2>3, <2>4, <2>5, <2>6 DEF Types
<1>4. OneAccept /\ AcceptsAreFresh
  BY <1>2 DEF Init, OneAccept, Bit, AcceptsAreFresh, Range
<1>5. ASSUME NEW c \in Clients PROVE ClientInv(c)
  <2>1. Outstanding(c) = 0 /\ OneRead(c)
    BY <1>2 DEF Init, Outstanding, OneRead, Bit
  <2>2. list[c] = "none"
    BY DEF Init
  <2>3. QED
    BY <2>1, <2>2 DEF ClientInv, Connected, Covered, Limited, Covers, Limits
<1>6. QED
  BY <1>3, <1>4, <1>5 DEF IInv

-----------------------------------------------------------------------------
(* Peers and kernel *)

LEMMA PeerInv ==
  ASSUME IInv, NEW c \in Clients,
         PeerConnects(c) \/ PeerSends(c) \/ PeerCloses(c) \/ PeerResets(c)
  PROVE  IInv'
<1> USE NwcsIocpAssumption
<1>1. UNCHANGED <<kernelVars, connVars, failed, broken, faults>>
  BY DEF PeerConnects, PeerSends, PeerCloses, PeerResets
<1>2. Types'
  <2>1. /\ peer' \in [Clients -> {"absent", "open", "closed", "reset"}]
        /\ sent' \in [Clients -> 0 .. Messages] /\ up' \in [Clients -> 0 .. Messages]
        /\ \A d \in Clients : up'[d] <= sent'[d]
    <3>1. CASE PeerSends(c)
      BY <3>1 DEF IInv, Types, PeerSends
    <3>2. CASE PeerResets(c)
      BY <3>2 DEF IInv, Types, PeerResets
    <3>3. CASE PeerConnects(c) \/ PeerCloses(c)
      BY <3>3 DEF IInv, Types, PeerConnects, PeerCloses
    <3>4. QED
      BY <3>1, <3>2, <3>3
  <2>2. QED
    BY <1>1, <2>1 DEF IInv, Types, kernelVars, connVars
<1>3. OneAccept' /\ AcceptsAreFresh'
  BY <1>1 DEF IInv, OneAccept, AcceptsAreFresh, Fresh, kernelVars, connVars
<1>4. ASSUME NEW d \in Clients PROVE ClientInv(d)'
  <2>1. ClientInv(d) /\ d \in DOMAIN peer /\ d \in DOMAIN sent /\ d \in DOMAIN up
    BY DEF IInv, Types
  <2>2. OneRead(d)' /\ Covered(d)'
    BY <1>1, <2>1 DEF ClientInv, OneRead, Covered, Outstanding, kernelVars, connVars
  <2>3. Connected(d)'
    BY <1>1, <2>1 DEF ClientInv, Connected, connVars, PeerConnects, PeerSends, PeerCloses, PeerResets
  <2>4. list[d] \in {"client", "delete"} =>
          /\ sent'[d] - up'[d] >= sent[d] - up[d]
          /\ MayReadOn(d)' => MayReadOn(d)
    <3>1. sent[d] \in Int /\ up[d] \in Int
      BY Numbers DEF IInv
    <3>2. up[d] \in Nat /\ sent[d] \in Nat
      BY DEF IInv, Types
    <3>3. sent'[d] - up'[d] >= sent[d] - up[d]
      BY <2>1, <3>2 DEF PeerConnects, PeerSends, PeerCloses, PeerResets
    <3>4. peer'[d] = "open" /\ peer[d] # "open" => peer[d] = "absent"
      BY <2>1 DEF PeerConnects, PeerSends, PeerCloses, PeerResets
    <3>5. QED
      BY <1>1, <2>1, <3>3, <3>4 DEF MayReadOn, ClientInv, Connected, kernelVars
  <2>5. Limited(d)'
    <3>1. /\ list'[d] = list[d] /\ pending_ops'[d] = pending_ops[d] /\ born'[d] = born[d]
          /\ pending_ops[d] \in Int /\ born[d] \in Int /\ sent[d] \in Int /\ up[d] \in Int
      BY <1>1, Numbers DEF IInv, connVars
    <3>2. sent'[d] \in Int /\ up'[d] \in Int
      BY <1>2, NwcsIocpAssumption DEF Types
    <3>3. QED
      BY <2>1, <2>4, <3>1, <3>2 DEF ClientInv, Limited, Limits, Bit
  <2>6. QED
    BY <2>2, <2>3, <2>5 DEF ClientInv
<1>5. QED
  BY <1>2, <1>3, <1>4 DEF IInv

LEMMA AcceptCompletesInv ==
  ASSUME IInv, NEW c \in Clients, AcceptCompletes(c)
  PROVE  IInv'
<1> USE DEF IInv
<1>1. PICK ok \in BOOLEAN : port' = Append(port, Done(Acceptor, "accept", c, ok))
  BY DEF AcceptCompletes
<1> DEFINE m == Done(Acceptor, "accept", c, ok)
<1>2. /\ m \in Completion /\ m.nwc = Acceptor /\ m.op = "accept" /\ m.socket = c /\ m.live
  BY DEF Done, Completion
<1> HIDE DEF m
<1>3. /\ port' = Append(port, m) /\ port' \in Seq(Completion)
      /\ \A x \in Range(port') : x = m \/ x \in Range(port)
      /\ \A n, op : Queued(port', n, op) = Queued(port, n, op) + Bit(IsOf(m, n, op))
  BY <1>1, <1>2, PortAfterAppend DEF Types, m
<1>4. \A n, op : Bit(IsOf(m, n, op)) = IF n = Acceptor /\ op = "accept" THEN 1 ELSE 0
  BY <1>2 DEF IsOf, Bit
<1>5. /\ list' = [list EXCEPT ![c] = "accepted"] /\ list[c] = "none" /\ peer[c] # "absent"
      /\ accepting /\ accepting' = FALSE
      /\ UNCHANGED <<peerVars, reading, writing, pending_ops, born, failed, broken, faults>>
  BY DEF AcceptCompletes
<1>6. list' \in [Conns -> {"accept", "none", "accepted", "client", "delete", "freed"}]
  BY <1>5 DEF Types
<1>7. Types'
  BY <1>3, <1>5, <1>6 DEF Types, peerVars
<1>8. OneAccept'
  <2>1. Queued(port, Acceptor, "accept") \in Nat
    BY PlacesFinite DEF Types
  <2>2. QED
    BY <1>3, <1>4, <1>5, <2>1 DEF OneAccept, Bit
<1>9. AcceptsAreFresh'
  <2>1. \A x \in Range(port) : x.op = "accept" => list'[x.socket] = "accepted"
    BY <1>5, <1>6 DEF AcceptsAreFresh, Fresh, Types, Conns
  <2>2. list'[c] = "accepted"
    BY <1>5 DEF Types, Conns
  <2>3. QED
    BY <1>2, <1>3, <2>1, <2>2 DEF AcceptsAreFresh, Fresh
<1>10. ASSUME NEW d \in Clients PROVE ClientInv(d)'
  <2>1. \A op : Queued(port', d, op) = Queued(port, d, op)
    <3>1. d # Acceptor /\ \A op : Queued(port, d, op) \in Nat
      BY NwcsIocpAssumption, PlacesFinite DEF Types
    <3>2. QED
      BY <1>3, <1>4, <3>1
  <2>2. Outstanding(d)' = Outstanding(d) /\ OneRead(d)' /\ MayReadOn(d)' = MayReadOn(d)
    BY <1>5, <2>1 DEF ClientInv, OneRead, Outstanding, MayReadOn, peerVars
  <2>3. list'[d] = list[d] \/ (list[d] = "none" /\ list'[d] = "accepted" /\ peer[d] # "absent")
    BY <1>5 DEF Types, Conns
  <2>4. Connected(d)' /\ Covered(d)'
    BY <1>5, <2>2, <2>3 DEF ClientInv, Connected, Covered, Covers, peerVars
  <2>5. Limited(d)'
    BY <1>5, <2>2, <2>3 DEF ClientInv, Limited, Limits, peerVars
  <2>6. QED
    BY <2>2, <2>4, <2>5 DEF ClientInv
<1>11. QED
  BY <1>7, <1>8, <1>9, <1>10

\* A read or a write completes, and its completion is queued instead of it.
LEMMA CompletesInv ==
  ASSUME IInv, NEW c \in Clients, ReadCompletes(c) \/ WriteCompletes(c)
  PROVE  IInv'
<1> USE DEF IInv
<1>1. PICK op \in {"read", "write"}, ok \in BOOLEAN :
        /\ port' = Append(port, Done(c, op, c, ok))
        /\ op = "read" <=> ReadCompletes(c)
        /\ op = "write" => WriteCompletes(c)
  <2>1. CASE ReadCompletes(c)
    BY <2>1 DEF ReadCompletes
  <2>2. CASE ~ReadCompletes(c)
    <3>1. WriteCompletes(c)
      BY <2>2
    <3>2. PICK ok \in BOOLEAN : port' = Append(port, Done(c, "write", c, ok))
      BY <3>1 DEF WriteCompletes
    <3>3. QED
      BY <2>2, <3>1, <3>2
  <2>3. QED
    BY <2>1, <2>2
<1> DEFINE m == Done(c, op, c, ok)
<1>2. m \in Completion /\ m.nwc = c /\ m.op = op /\ m.live
  BY DEF Done, Completion
<1> HIDE DEF m
<1>3. /\ port' = Append(port, m) /\ port' \in Seq(Completion)
      /\ \A x \in Range(port') : x = m \/ x \in Range(port)
      /\ \A n, o : Queued(port', n, o) = Queued(port, n, o) + Bit(IsOf(m, n, o))
  BY <1>1, <1>2, PortAfterAppend DEF Types, m
<1>4. \A n, o : Bit(IsOf(m, n, o)) = IF n = c /\ o = op THEN 1 ELSE 0
  BY <1>2 DEF IsOf, Bit
<1>5. /\ op = "read" => /\ c \in reading /\ reading' = reading \ {c} /\ writing' = writing
                        /\ up' = [up EXCEPT ![c] = 0]
                        /\ up[c] > 0 \/ peer[c] \in {"closed", "reset"} \/ list[c] = "freed"
      /\ op = "write" => /\ writing[c] > 0 /\ writing' = [writing EXCEPT ![c] = writing[c] - 1]
                         /\ reading' = reading /\ up' = up
      /\ UNCHANGED <<peer, sent, accepting, connVars, failed, broken, faults>>
  <2>1. CASE op = "read"
    BY <1>1, <2>1 DEF ReadCompletes
  <2>2. CASE op = "write"
    BY <1>1, <2>2 DEF WriteCompletes, peerVars
  <2>3. QED
    BY <2>1, <2>2
<1>6. Types'
  <2>1. /\ reading' \subseteq Clients /\ writing' \in [Clients -> Nat]
        /\ up' \in [Clients -> 0 .. Messages] /\ \A d \in Clients : up'[d] <= sent[d]
    <3>1. /\ reading \subseteq Clients /\ writing \in [Clients -> Nat]
          /\ up \in [Clients -> 0 .. Messages] /\ sent \in [Clients -> 0 .. Messages]
          /\ 0 \in 0 .. Messages /\ \A d \in Clients : up[d] <= sent[d]
      BY NwcsIocpAssumption DEF Types
    <3>2. CASE op = "read"
      BY <1>5, <3>1, <3>2
    <3>3. CASE op = "write"
      <4>1. writing' \in [Clients -> Nat]
        BY <1>5, <3>1, <3>3
      <4>2. QED
        BY <1>5, <3>1, <3>3, <4>1
    <3>4. QED
      BY <3>2, <3>3
  <2>2. QED
    BY <1>3, <1>5, <2>1 DEF Types, connVars
<1>7. OneAccept'
  <2>1. Queued(port, Acceptor, "accept") \in Nat /\ c # Acceptor
    BY PlacesFinite, NwcsIocpAssumption DEF Types
  <2>2. QED
    BY <1>3, <1>4, <1>5, <2>1 DEF OneAccept
<1>8. AcceptsAreFresh'
  <2>1. c # Acceptor /\ op # "accept" /\ list' = list
    BY <1>5, NwcsIocpAssumption DEF connVars
  <2>2. QED
    BY <1>2, <1>3, <2>1 DEF AcceptsAreFresh, Fresh
<1>9. ASSUME NEW d \in Clients PROVE ClientInv(d)'
  <2> DEFINE qr == Queued(port, d, "read")
             qw == Queued(port, d, "write")
  <2>0. qr \in Nat /\ qw \in Nat /\ writing[d] \in Nat /\ sent[d] \in Int /\ up[d] \in Nat
        /\ pending_ops[d] \in Int /\ born[d] \in Int
    BY Numbers DEF Types
  <2>1. /\ Queued(port', d, "read") = qr + (IF d = c /\ op = "read" THEN 1 ELSE 0)
        /\ Queued(port', d, "write") = qw + (IF d = c /\ op = "write" THEN 1 ELSE 0)
    BY <1>3, <1>4
  <2> HIDE DEF qr, qw
  <2>2. /\ Bit(d \in reading') = Bit(d \in reading) - (IF d = c /\ op = "read" THEN 1 ELSE 0)
        /\ writing'[d] = writing[d] - (IF d = c /\ op = "write" THEN 1 ELSE 0)
    BY <1>5, <2>0 DEF Bit, Types
  <2>3. Bit(d \in reading) \in {0, 1}
    BY DEF Bit
  <2>4. Outstanding(d)' = Outstanding(d) /\ OneRead(d)'
    BY <2>0, <2>1, <2>2, <2>3 DEF ClientInv, Outstanding, OneRead, qr, qw
  <2>5. Connected(d)' /\ Covered(d)'
    BY <1>5, <2>4 DEF ClientInv, Connected, Covered, connVars
  <2>6. Limited(d)'
    <3>1. CASE d = c /\ op = "read" /\ list[c] # "freed"
      <4>1. CASE peer[c] \in {"closed", "reset"}
        <5>1. ~MayReadOn(d)' /\ up'[d] = 0
          BY <1>5, <3>1, <4>1 DEF MayReadOn, Types
        <5>2. QED
          BY <1>5, <2>0, <3>1, <4>1, <5>1 DEF ClientInv, Limited, Limits, Bit, connVars
      <4>2. CASE up[c] > 0
        <5>1. up'[d] = 0
          BY <1>5, <3>1 DEF Types
        <5>2. QED
          BY <1>5, <2>0, <3>1, <4>2, <5>1 DEF ClientInv, Limited, Limits, Bit, connVars
      <4>3. QED
        BY <1>5, <3>1, <4>1, <4>2
    <3>2. CASE d # c \/ op = "write"
      <4>1. up'[d] = up[d] /\ MayReadOn(d)' = MayReadOn(d)
        BY <1>5, <2>0, <2>1, <3>2 DEF MayReadOn, Types, qr
      <4>2. QED
        BY <1>5, <4>1 DEF ClientInv, Limited, connVars
    <3>3. CASE d = c /\ list[c] = "freed"
      BY <1>5, <3>3 DEF Limited, Limits, connVars
    <3>4. QED
      BY <3>1, <3>2, <3>3
  <2>7. QED
    BY <2>4, <2>5, <2>6 DEF ClientInv
<1>10. QED
  BY <1>6, <1>7, <1>8, <1>9

-----------------------------------------------------------------------------
(* The turns of the program *)

Lists == {"accept", "none", "accepted", "client", "delete", "freed"}

\* The completion at the head of the port, when it can be handled.
LEMMA Taken ==
  ASSUME IInv, NEW op \in {"accept", "read", "write"}, NEW ok, Takes(op, ok)
  PROVE  /\ port # <<>> /\ IsOf(Head(port), Head(port).nwc, op)
         /\ op = "accept" => /\ Head(port).nwc = Acceptor /\ Head(port).socket \in Clients
                             /\ list[Head(port).socket] = "accepted" /\ ~accepting
                             /\ \A m \in Range(Tail(port)) : m.op # "accept"
         /\ op # "accept" => /\ Head(port).nwc \in Clients
                             /\ list[Head(port).nwc] \in {"client", "delete"}
<1> USE DEF IInv
<1> DEFINE m == Head(port)
<1>1. port # <<>> /\ m.op = op /\ m.live /\ list[m.nwc] # "freed"
  BY DEF Takes
<1>2. m \in Completion /\ m \in Range(port) /\ Range(Tail(port)) \subseteq Range(port)
  BY <1>1, PortAfterTail
<1>3. \A n, o : /\ Queued(Tail(port), n, o) \in Nat
                /\ Queued(port, n, o) = Queued(Tail(port), n, o) + Bit(IsOf(m, n, o))
  BY <1>1, PortAfterTail
<1>4. Fresh(m) /\ m.nwc \in Conns /\ m.socket \in Clients
  BY <1>2 DEF AcceptsAreFresh, Completion, Conns
<1> HIDE DEF m
<1>5. IsOf(m, m.nwc, op)
  BY <1>1 DEF IsOf
<1>6. ASSUME op = "accept"
      PROVE  /\ m.nwc = Acceptor /\ list[m.socket] = "accepted" /\ ~accepting
             /\ \A x \in Range(Tail(port)) : x.op # "accept"
  <2>1. m.nwc = Acceptor /\ list[m.socket] = "accepted"
    BY <1>1, <1>4, <1>6 DEF Fresh
  <2>2. Bit(IsOf(m, Acceptor, "accept")) = 1
    BY <1>5, <1>6, <2>1 DEF Bit
  <2>3. /\ Queued(port, Acceptor, "accept") = Queued(Tail(port), Acceptor, "accept") + 1
        /\ Queued(Tail(port), Acceptor, "accept") \in Nat
    BY <1>3, <2>2
  <2>4. Queued(Tail(port), Acceptor, "accept") = 0 /\ ~accepting
    BY <2>3 DEF OneAccept, Bit
  <2>5. Places(Tail(port), Acceptor, "accept") = {}
    BY <1>1, <2>4, PlacesFinite, PortAfterTail
  <2>6. ASSUME NEW x \in Range(Tail(port)), x.op = "accept" PROVE FALSE
    <3>1. x.nwc = Acceptor /\ x.live
      BY <1>2, <2>6 DEF AcceptsAreFresh, Fresh
    <3>2. PICK k \in DOMAIN Tail(port) : Tail(port)[k] = x
      BY <2>6 DEF Range
    <3>3. k \in Places(Tail(port), Acceptor, "accept")
      BY <2>6, <3>1, <3>2 DEF Places
    <3>4. QED
      BY <2>5, <3>3
  <2>7. QED
    BY <2>1, <2>4, <2>6
<1>7. ASSUME op # "accept" PROVE m.nwc \in Clients /\ list[m.nwc] \in {"client", "delete"}
  <2>1. m.nwc \in Clients
    BY <1>1, <1>4, <1>7 DEF Fresh, Conns
  <2>2. Bit(IsOf(m, m.nwc, op)) = 1
    BY <1>5 DEF Bit
  <2>3. Queued(port, m.nwc, op) > 0
    BY <1>3, <2>2
  <2>4. Outstanding(m.nwc) # 0
    <3>1. /\ Queued(port, m.nwc, "read") \in Nat /\ Queued(port, m.nwc, "write") \in Nat
          /\ writing[m.nwc] \in Nat /\ Bit(m.nwc \in reading) \in {0, 1}
      BY <2>1, Numbers DEF Bit
    <3>2. Queued(port, m.nwc, "read") > 0 \/ Queued(port, m.nwc, "write") > 0
      <4>1. op = "read" \/ op = "write"
        BY <1>7
      <4>2. QED
        BY <2>3, <4>1
    <3>3. QED
      BY <3>1, <3>2 DEF Outstanding
  <2>5. ClientInv(m.nwc) /\ list[m.nwc] \in Lists
    BY <2>1 DEF Types, Conns, Lists
  <2>6. QED
    BY <1>1, <2>1, <2>4, <2>5 DEF ClientInv, Covered, Covers, Lists
<1>8. QED
  BY <1>1, <1>4, <1>5, <1>6, <1>7 DEF m

\* The pass over the delete list, on the lists l and counters p that the message
\* of the turn has left.
LEMMA AfterPass ==
  ASSUME NEW l \in [Conns -> Lists], NEW p \in [Conns -> Int], FreePass(l, p)
  PROVE  /\ list' \in [Conns -> Lists] /\ pending_ops' = p /\ broken' \in BOOLEAN
         /\ \A n \in Conns : list'[n] = IF l[n] = "delete" /\ p[n] <= 0 THEN "freed" ELSE l[n]
<1>1. list' = [n \in Conns |-> IF l[n] = "delete" /\ p[n] <= 0 THEN "freed" ELSE l[n]]
  BY DEF FreePass, Dying
<1>2. pending_ops' = p /\ broken' \in BOOLEAN
  BY DEF FreePass
<1>3. QED
  BY <1>1, <1>2 DEF Lists

\* What the turn owes each client: the invariant, before the pass.
LEMMA PassClient ==
  ASSUME NEW l \in [Conns -> Lists], NEW p \in [Conns -> Int], FreePass(l, p), Types',
         NEW d \in Clients, OneRead(d)', l[d] # "none" => peer'[d] # "absent",
         Covers(l[d], p[d], Outstanding(d)', born'[d]),
         Limits(l[d], p[d], born'[d], sent'[d] - up'[d], MayReadOn(d)')
  PROVE  ClientInv(d)'
<1>1. list'[d] = IF l[d] = "delete" /\ p[d] <= 0 THEN "freed" ELSE l[d]
  BY AfterPass DEF Conns
<1>2. pending_ops'[d] = p[d] /\ p[d] \in Int /\ born'[d] \in Int /\ Outstanding(d)' \in Nat
      /\ sent'[d] - up'[d] \in Int
  <2>1. Births \cup {0} \subseteq Int
    BY NwcsIocpAssumption
  <2>2. born'[d] \in Births \cup {0} /\ writing'[d] \in Nat /\ port' \in Seq(Completion)
        /\ sent'[d] \in 0 .. Messages /\ up'[d] \in 0 .. Messages
    BY DEF Types
  <2>3. Queued(port', d, "read") \in Nat /\ Queued(port', d, "write") \in Nat
    BY <2>2, PlacesFinite
  <2>4. Outstanding(d)' \in Nat
    BY <2>2, <2>3 DEF Outstanding, Bit
  <2>5. pending_ops' = p /\ d \in Conns
    BY AfterPass DEF Conns
  <2>6. sent'[d] - up'[d] \in Int
    BY <2>2, NwcsIocpAssumption
  <2>7. QED
    BY <2>1, <2>2, <2>4, <2>5, <2>6
<1>3. Covers(list'[d], pending_ops'[d], Outstanding(d)', born'[d])
      /\ Limits(list'[d], pending_ops'[d], born'[d], sent'[d] - up'[d], MayReadOn(d)')
  BY <1>1, <1>2, PassKeeps
<1>4. Connected(d)'
  BY <1>1 DEF Connected
<1>5. QED
  BY <1>3, <1>4 DEF ClientInv, Covered, Limited

\* The rest of the port is as fresh as the port, if the accepted stay accepted.
LEMMA TailStaysFresh ==
  ASSUME IInv, port # <<>>,
         \A m \in Range(port') : m \in Range(Tail(port))
                                   \/ (m.op = "read" /\ m.nwc \in Clients),
         \A m \in Range(Tail(port)) :
           m.op = "accept" => list'[m.socket] = list[m.socket]
  PROVE  AcceptsAreFresh'
<1>1. \A m \in Range(Tail(port)) : Fresh(m)
  BY PortAfterTail DEF IInv, AcceptsAreFresh
<1>2. Acceptor \notin Clients
  BY NwcsIocpAssumption
<1>3. QED
  BY <1>1, <1>2 DEF AcceptsAreFresh, Fresh

LEMMA TakesDanglingInv ==
  ASSUME IInv, TakesDangling
  PROVE  IInv'
<1> USE DEF IInv
<1>1. /\ port # <<>> /\ port' = Tail(port) /\ broken' = TRUE
      /\ UNCHANGED <<peerVars, accepting, reading, writing, connVars, failed, faults>>
  BY DEF TakesDangling
<1>2. /\ port' \in Seq(Completion) /\ Range(port') \subseteq Range(port)
      /\ \A n, op : /\ Queued(port', n, op) \in Nat /\ Queued(port, n, op) \in Nat
                    /\ Queued(port', n, op) <= Queued(port, n, op)
  <2>1. \A n, op : /\ Queued(Tail(port), n, op) \in Nat
                   /\ Queued(port, n, op)
                        = Queued(Tail(port), n, op) + Bit(IsOf(Head(port), n, op))
    BY <1>1, PortAfterTail
  <2>2. \A n, op : Bit(IsOf(Head(port), n, op)) \in {0, 1}
    BY DEF Bit
  <2>3. QED
    BY <1>1, <2>1, <2>2, PortAfterTail
<1>3. Types'
  BY <1>1, <1>2 DEF Types, peerVars, connVars
<1>4. OneAccept'
  BY <1>1, <1>2 DEF OneAccept, Bit
<1>5. AcceptsAreFresh'
  BY <1>1, <1>2 DEF AcceptsAreFresh, Fresh, connVars
<1>6. ASSUME NEW d \in Clients PROVE ClientInv(d)'
  <2>1. OneRead(d)'
    BY <1>1, <1>2 DEF ClientInv, OneRead, Bit
  <2>2. Outstanding(d)' <= Outstanding(d) /\ Outstanding(d)' \in Nat /\ Outstanding(d) \in Nat
    <3>1. writing[d] \in Nat /\ writing'[d] = writing[d] /\ reading' = reading
      BY <1>1, Numbers
    <3>2. Bit(d \in reading) \in Nat
      BY DEF Bit
    <3>3. QED
      BY <1>2, <3>1, <3>2 DEF Outstanding
  <2>3. Connected(d)'
    BY <1>1 DEF ClientInv, Connected, peerVars, connVars
  <2>4. pending_ops[d] \in Int /\ born[d] \in Int /\ sent[d] \in Int /\ up[d] \in Int
    BY Numbers
  <2>5. Covered(d)'
    BY <1>1, <2>2, <2>4 DEF ClientInv, Covered, Covers, connVars
  <2>6. MayReadOn(d)' => MayReadOn(d)
    BY <1>1, <1>2 DEF MayReadOn, peerVars
  <2>7. Limited(d)'
    BY <1>1, <2>4, <2>6 DEF ClientInv, Limited, Limits, Bit, peerVars, connVars
  <2>8. QED
    BY <2>1, <2>3, <2>5, <2>7 DEF ClientInv
<1>7. QED
  BY <1>3, <1>4, <1>5, <1>6

LEMMA TakesFailureInv ==
  ASSUME IInv, TakesFailure
  PROVE  IInv'
<1> USE DEF IInv
<1> DEFINE n == Head(port).nwc
<1>1. PICK op \in {"accept", "read", "write"} : Takes(op, FALSE)
  BY DEF TakesFailure
<1>2. /\ port # <<>> /\ port' = Tail(port) /\ list' = [list EXCEPT ![n] = "delete"]
      /\ failed' = failed \cup {n}
      /\ UNCHANGED <<peerVars, accepting, reading, writing, pending_ops, born, broken, faults>>
  BY <1>1 DEF TakesFailure, Takes
<1>3. /\ op = "accept" => n = Acceptor
      /\ op # "accept" => n \in Clients /\ list[n] \in {"client", "delete"}
      /\ n \in Conns
  BY <1>1, Taken DEF Conns
<1> HIDE DEF n
<1>4. /\ port' \in Seq(Completion) /\ Range(port') \subseteq Range(port)
      /\ \A x, o : /\ Queued(port', x, o) \in Nat /\ Queued(port, x, o) \in Nat
                   /\ Queued(port', x, o) <= Queued(port, x, o)
  <2>1. \A x, o : /\ Queued(Tail(port), x, o) \in Nat
                  /\ Queued(port, x, o)
                       = Queued(Tail(port), x, o) + Bit(IsOf(Head(port), x, o))
    BY <1>2, PortAfterTail
  <2>2. \A x, o : Bit(IsOf(Head(port), x, o)) \in {0, 1}
    BY DEF Bit
  <2>3. QED
    BY <1>2, <2>1, <2>2, PortAfterTail
<1>5. list' \in [Conns -> Lists]
  BY <1>2 DEF Types, Lists
<1>6. Types'
  BY <1>2, <1>3, <1>4, <1>5 DEF Types, Lists, peerVars
<1>7. OneAccept'
  BY <1>2, <1>4 DEF OneAccept, Bit
<1>8. AcceptsAreFresh'
  <2>1. n \in Clients => list[n] # "accepted"
    BY <1>3, NwcsIocpAssumption
  <2>2. ASSUME NEW m \in Range(port), m.op = "accept" PROVE list'[m.socket] = list[m.socket]
    <3>1. list[m.socket] = "accepted" /\ m.socket \in Clients
      <4>1. m \in Completion
        BY <2>2 DEF Types, Range
      <4>2. QED
        BY <2>2, <4>1 DEF AcceptsAreFresh, Fresh, Completion
    <3>2. m.socket # n
      BY <1>3, <2>1, <3>1
    <3>3. QED
      BY <1>2, <3>1, <3>2 DEF Types, Conns
  <2>3. QED
    BY <1>2, <1>4, <2>2, TailStaysFresh
<1>9. ASSUME NEW d \in Clients PROVE ClientInv(d)'
  <2>1. OneRead(d)'
    BY <1>2, <1>4 DEF ClientInv, OneRead, Bit
  <2>2. Outstanding(d)' <= Outstanding(d) /\ Outstanding(d)' \in Nat /\ Outstanding(d) \in Nat
    <3>1. writing[d] \in Nat /\ writing'[d] = writing[d] /\ reading' = reading
      BY <1>2, Numbers
    <3>2. Bit(d \in reading) \in Nat
      BY DEF Bit
    <3>3. QED
      BY <1>4, <3>1, <3>2 DEF Outstanding
  <2>3. \/ list'[d] = list[d]
        \/ list'[d] = "delete" /\ list[d] \in {"client", "delete"}
    BY <1>2, <1>3, NwcsIocpAssumption DEF Types, Conns
  <2>4. Connected(d)'
    BY <1>2, <2>3 DEF ClientInv, Connected, peerVars
  <2>5. pending_ops[d] \in Int /\ born[d] \in Int /\ sent[d] \in Int /\ up[d] \in Int
    BY Numbers
  <2>6. Covered(d)'
    BY <1>2, <2>2, <2>3, <2>5 DEF ClientInv, Covered, Covers
  <2>7. MayReadOn(d)' => MayReadOn(d)
    BY <1>2, <1>4 DEF MayReadOn, peerVars
  <2>8. Limited(d)'
    <3>1. Bit(MayReadOn(d)') <= Bit(MayReadOn(d))
          /\ Bit(MayReadOn(d)') \in Int /\ Bit(MayReadOn(d)) \in Int
      BY <2>7 DEF Bit
    <3>2. /\ pending_ops'[d] = pending_ops[d] /\ born'[d] = born[d]
          /\ sent'[d] = sent[d] /\ up'[d] = up[d]
      BY <1>2 DEF peerVars
    <3>3. list'[d] \in {"client", "delete"} => list[d] \in {"client", "delete"}
      BY <2>3
    <3>4. list[d] \in {"client", "delete"} =>
            pending_ops[d] - born[d] + Bit(MayReadOn(d)) <= sent[d] - up[d] + 1
      BY DEF ClientInv, Limited, Limits
    <3>5. list'[d] \in {"client", "delete"} =>
            pending_ops'[d] - born'[d] + Bit(MayReadOn(d)') <= sent'[d] - up'[d] + 1
      BY <2>5, <3>1, <3>2, <3>3, <3>4
    <3>6. QED
      BY <3>5 DEF Limited, Limits
  <2>9. QED
    BY <2>1, <2>4, <2>6, <2>8 DEF ClientInv
<1>10. QED
  BY <1>6, <1>7, <1>8, <1>9

\* Where the port loses its head, d's numbers.
LEMMA HeadCounted ==
  ASSUME IInv, NEW op \in {"read", "write"}, NEW ok, Takes(op, ok), NEW d \in Clients
  PROVE  /\ Queued(port, d, op) = Queued(Tail(port), d, op) + Bit(d = Head(port).nwc)
         /\ \A o : o # op => Queued(port, d, o) = Queued(Tail(port), d, o)
         /\ \A n, o : Queued(Tail(port), n, o) \in Nat
<1>1. port # <<>> /\ IsOf(Head(port), Head(port).nwc, op)
  BY Taken
<1>2. \A n, o : /\ Queued(Tail(port), n, o) \in Nat
                /\ Queued(port, n, o)
                     = Queued(Tail(port), n, o) + Bit(IsOf(Head(port), n, o))
  BY <1>1, PortAfterTail DEF IInv
<1>3. Bit(IsOf(Head(port), d, op)) = Bit(d = Head(port).nwc)
  BY <1>1 DEF IsOf, Bit
<1>4. \A o : o # op => Bit(IsOf(Head(port), d, o)) = 0
  BY <1>1 DEF IsOf, Bit
<1>5. QED
  BY <1>2, <1>3, <1>4

LEMMA AcceptCounted ==
  ASSUME IInv, NEW op \in {"read", "write"}, NEW ok, Takes(op, ok)
  PROVE  Queued(Tail(port), Acceptor, "accept") = Queued(port, Acceptor, "accept")
<1>1. port # <<>> /\ IsOf(Head(port), Head(port).nwc, op)
  BY Taken
<1>2. /\ Queued(Tail(port), Acceptor, "accept") \in Nat
      /\ Queued(port, Acceptor, "accept")
           = Queued(Tail(port), Acceptor, "accept") + Bit(IsOf(Head(port), Acceptor, "accept"))
  BY <1>1, PortAfterTail DEF IInv
<1>3. Bit(IsOf(Head(port), Acceptor, "accept")) = 0
  BY <1>1 DEF IsOf, Bit
<1>4. QED
  BY <1>2, <1>3

\* The accept entries of the port stay fresh in a turn that deletes n and frees
\* what is on the delete list.
LEMMA AcceptedStayAccepted ==
  ASSUME IInv, port # <<>>, NEW n \in Clients, list[n] \in {"client", "delete"},
         NEW l \in [Conns -> Lists], \A x \in Conns \ {n} : l[x] = list[x],
         \A x \in Conns : list'[x] = l[x] \/ l[x] = "delete",
         \A m \in Range(port') : m \in Range(Tail(port)) \/ (m.op = "read" /\ m.nwc = n)
  PROVE  AcceptsAreFresh'
<1>1. ASSUME NEW m \in Range(port), m.op = "accept" PROVE list'[m.socket] = list[m.socket]
  <2>1. m \in Completion
    BY <1>1 DEF IInv, Types, Range
  <2>2. list[m.socket] = "accepted" /\ m.socket \in Conns
    BY <1>1, <2>1 DEF IInv, AcceptsAreFresh, Fresh, Completion, Conns
  <2>3. m.socket # n
    BY <2>2
  <2>4. QED
    BY <2>2, <2>3
<1>2. Range(Tail(port)) \subseteq Range(port)
  BY PortAfterTail DEF IInv
<1>3. QED
  BY <1>1, <1>2, TailStaysFresh

\* An operation is counted off, and with it its connection may be given up.
LEMMA CountedOffInv ==
  ASSUME IInv, NEW op \in {"read", "write"}, Takes(op, TRUE), NEW c, c = Head(port).nwc,
         NEW p \in [Conns -> Int], p[c] = pending_ops[c] - 1,
         \A x \in Conns \ {c} : p[x] = pending_ops[x],
         NEW l \in [Conns -> Lists], l[c] \in {list[c], "delete"},
         \A x \in Conns \ {c} : l[x] = list[x],
         FreePass(l, p), port' = Tail(port), faults' \in 0 .. MaxFaults,
         UNCHANGED <<peerVars, accepting, reading, writing, born, failed>>
  PROVE  IInv'
<1> USE DEF IInv
<1>0. /\ reading' = reading /\ writing' = writing /\ born' = born /\ peer' = peer
      /\ sent' = sent /\ up' = up
  BY DEF peerVars
<1>1. port # <<>> /\ c \in Clients /\ list[c] \in {"client", "delete"} /\ c \in Conns
  BY Taken DEF Conns
<1>2. /\ list' \in [Conns -> Lists] /\ pending_ops' = p /\ broken' \in BOOLEAN
      /\ \A x \in Conns : list'[x] = IF l[x] = "delete" /\ p[x] <= 0 THEN "freed" ELSE l[x]
  BY AfterPass
<1>3. Types'
  <2>1. port' \in Seq(Completion)
    BY <1>1, PortAfterTail
  <2>2. QED
    BY <1>2, <2>1 DEF Types, Lists, peerVars
<1>4. OneAccept'
  <2>1. Queued(port', Acceptor, "accept") = Queued(port, Acceptor, "accept")
    BY AcceptCounted
  <2>2. QED
    BY <2>1 DEF OneAccept
<1>5. AcceptsAreFresh'
  <2>1. \A x \in Conns : list'[x] = l[x] \/ l[x] = "delete"
    BY <1>2
  <2>2. QED
    BY <1>1, <2>1, AcceptedStayAccepted
<1>6. ASSUME NEW d \in Clients PROVE ClientInv(d)'
  <2>1. /\ Queued(port, d, op) = Queued(port', d, op) + Bit(d = c)
        /\ \A o : o # op => Queued(port, d, o) = Queued(port', d, o)
        /\ \A o : Queued(port', d, o) \in Nat
    <3>1. /\ Queued(port, d, op) = Queued(Tail(port), d, op) + Bit(d = Head(port).nwc)
          /\ \A o : o # op => Queued(port, d, o) = Queued(Tail(port), d, o)
          /\ \A n, o : Queued(Tail(port), n, o) \in Nat
      BY HeadCounted
    <3>2. Bit(d = Head(port).nwc) = Bit(d = c) /\ port' = Tail(port)
      BY DEF Bit
    <3>3. QED
      BY <3>1, <3>2
  <2>2. Bit(d \in reading) \in {0, 1} /\ Bit(d = c) \in {0, 1}
    BY DEF Bit
  <2>3. /\ pending_ops[d] \in Int /\ born[d] \in Int /\ sent[d] \in Int /\ up[d] \in Int
        /\ writing[d] \in Nat /\ Outstanding(d) \in Nat
    BY Numbers
  <2>4. Outstanding(d) = Outstanding(d)' + Bit(d = c)
    <3> DEFINE r == Queued(port, d, "read")
               w == Queued(port, d, "write")
               r2 == Queued(port', d, "read")
               e == Bit(d \in reading) + writing[d]
               w2 == Queued(port', d, "write")
    <3>1. r \in Nat /\ w \in Nat /\ r2 \in Nat /\ w2 \in Nat
      BY <2>1, Numbers
    <3>2. r + w = r2 + w2 + Bit(d = c)
      <4>1. CASE op = "read"
        <5>1. r = r2 + Bit(d = c) /\ w = w2
          BY <2>1, <4>1
        <5> HIDE DEF r, w, r2, w2
        <5>2. QED
          BY <2>2, <3>1, <5>1
      <4>2. CASE op = "write"
        <5>1. r = r2 /\ w = w2 + Bit(d = c)
          BY <2>1, <4>2
        <5> HIDE DEF r, w, r2, w2
        <5>2. QED
          BY <2>2, <3>1, <5>1
      <4>3. QED
        BY <4>1, <4>2
    <3>3. Outstanding(d) = e + r + w /\ Outstanding(d)' = e + r2 + w2
      BY <1>0 DEF Outstanding
    <3>4. e \in Int /\ Bit(d = c) \in Int
      BY <2>2, <2>3
    <3> HIDE DEF r, w, r2, w2, e
    <3>5. e + r + w = e + r2 + w2 + Bit(d = c)
      BY <3>1, <3>2, <3>4
    <3>6. QED
      BY <3>3, <3>5
  <2>5. ClientInv(d) /\ Outstanding(d)' \in Nat
    BY <2>2, <2>3, <2>4, <1>0, <2>1 DEF Outstanding
  <2>6. Queued(port', d, "read") <= Queued(port, d, "read") /\ Queued(port, d, "read") \in Nat
    BY <2>1, <2>2
  <2>7. OneRead(d)' /\ (MayReadOn(d)' => MayReadOn(d))
    BY <1>0, <2>1, <2>2, <2>5, <2>6 DEF ClientInv, OneRead, MayReadOn
  <2>8. p[d] = pending_ops[d] - Bit(d = c) /\ p[d] \in Int
    BY <1>1, <2>3 DEF Conns, Bit
  <2>9. d # c => Bit(d = c) = 0 /\ l[d] = list[d]
    BY DEF Bit, Conns
  <2>10. d = c => l[d] \in {"client", "delete"}
    BY <1>1
  <2>11. Covers(l[d], p[d], Outstanding(d)', born'[d])
    <3>1. Covers(list[d], pending_ops[d], Outstanding(d), born[d])
      BY <2>5 DEF ClientInv, Covered
    <3>2. born'[d] = born[d]
      BY <1>0
    <3>3. CASE d # c
      <4>1. /\ l[d] = list[d] /\ p[d] = pending_ops[d]
            /\ Outstanding(d)' = Outstanding(d)
        BY <2>3, <2>4, <2>5, <2>8, <2>9, <3>3
      <4>2. QED
        BY <3>1, <3>2, <4>1
    <3>4. CASE d = c
      <4>1. Bit(d = c) = 1
        BY <3>4 DEF Bit
      <4>2. p[d] = pending_ops[d] - 1 /\ Outstanding(d) = Outstanding(d)' + 1
        BY <2>4, <2>8, <4>1
      <4>3. list[d] \in {"client", "delete"}
        BY <1>1, <3>4
      <4>4. Outstanding(d) <= pending_ops[d] - born[d]
        BY <3>1, <4>3 DEF Covers
      <4>5. Outstanding(d)' <= p[d] - born[d]
        BY <2>3, <2>5, <4>2, <4>4
      <4>6. QED
        BY <2>10, <3>2, <3>4, <4>5 DEF Covers
    <3>5. QED
      BY <3>3, <3>4
  <2>12. Limits(l[d], p[d], born'[d], sent'[d] - up'[d], MayReadOn(d)')
    <3>1. Limits(list[d], pending_ops[d], born[d], sent[d] - up[d], MayReadOn(d))
      BY <2>5 DEF ClientInv, Limited
    <3>2. Bit(MayReadOn(d)') <= Bit(MayReadOn(d)) /\ Bit(MayReadOn(d)) \in {0, 1}
          /\ Bit(MayReadOn(d)') \in {0, 1}
      BY <2>7 DEF Bit
    <3>3. sent'[d] - up'[d] = sent[d] - up[d] /\ born'[d] = born[d]
      BY <1>0
    <3>4. CASE d # c
      <4>1. l[d] = list[d] /\ p[d] = pending_ops[d]
        BY <2>3, <2>8, <2>9, <3>4
      <4>2. QED
        BY <2>3, <3>1, <3>2, <3>3, <4>1 DEF Limits
    <3>5. CASE d = c
      <4>1. list[d] \in {"client", "delete"} /\ p[d] <= pending_ops[d]
        BY <1>1, <2>2, <2>3, <2>8, <3>5
      <4>2. QED
        BY <2>3, <2>8, <3>1, <3>2, <3>3, <4>1 DEF Limits
    <3>6. QED
      BY <3>4, <3>5
  <2>13. l[d] # "none" => peer'[d] # "absent"
    <3>1. list[d] # "none" => peer[d] # "absent"
      BY <2>5 DEF ClientInv, Connected
    <3>2. QED
      BY <1>0, <1>1, <2>9, <3>1
  <2>14. QED
    BY <1>3, <2>7, <2>11, <2>12, <2>13, PassClient
<1>7. QED
  BY <1>3, <1>4, <1>5, <1>6

\* A message, the pong, and the next read.
LEMMA PongAndReadInv ==
  ASSUME IInv, Takes("read", TRUE), NEW c, c = Head(port).nwc,
         NEW result \in ReadResults(c), nwcs_read_request(c, result),
         NEW p, p = [pending_ops EXCEPT ![c] = pending_ops[c] + Counts(result)],
         NEW l, l = IF result \in {"eof", "failed"} THEN [list EXCEPT ![c] = "delete"] ELSE list,
         FreePass(l, p), faults' \in 0 .. MaxFaults,
         writing' = [writing EXCEPT ![c] = writing[c] + 1],
         UNCHANGED <<peer, sent, accepting, born, failed>>
  PROVE  IInv'
<1> USE DEF IInv
<1>1. port # <<>> /\ c \in Clients /\ list[c] \in {"client", "delete"} /\ c \in Conns
  BY Taken DEF Conns
<1>2. /\ result \in Results
      /\ result = "done" => up[c] > 0
      /\ result = "pending" => peer[c] = "open"
  <2>1. ClientInv(c) /\ peer[c] # "absent" /\ peer[c] \in {"absent", "open", "closed", "reset"}
    BY <1>1 DEF ClientInv, Connected, Types
  <2>2. QED
    BY <2>1 DEF ReadResults, Results
<1>3. /\ port' \in Seq(Completion)
      /\ \A m \in Range(port') : m \in Range(Tail(port)) \/ (m.op = "read" /\ m.nwc = c)
      /\ \A n, op : Queued(port', n, op) = Queued(Tail(port), n, op)
                                    + Bit(n = c /\ op = "read" /\ result = "done")
      /\ reading' = IF result = "pending" THEN reading \cup {c} ELSE reading
      /\ up' = IF result = "done" THEN [up EXCEPT ![c] = 0] ELSE up
  BY <1>1, <1>2, AfterReadRequest
<1>4. Counts(result) \in {0, 1} /\ Counts(result) = Bit(result = "pending") + Bit(result = "done")
  BY <1>2 DEF Counts, Results, Bit
<1>5. p \in [Conns -> Int] /\ l \in [Conns -> Lists] /\ \A x \in Conns \ {c} : l[x] = list[x]
  <2>1. list \in [Conns -> Lists] /\ pending_ops \in [Conns -> Int]
    BY DEF Types, Lists
  <2>2. p \in [Conns -> Int]
    BY <1>1, <1>4, <2>1
  <2>3. [list EXCEPT ![c] = "delete"] \in [Conns -> Lists]
    BY <2>1 DEF Lists
  <2>4. QED
    BY <2>1, <2>2, <2>3
<1>6. /\ list' \in [Conns -> Lists] /\ pending_ops' = p /\ broken' \in BOOLEAN
      /\ \A x \in Conns : list'[x] = IF l[x] = "delete" /\ p[x] <= 0 THEN "freed" ELSE l[x]
  BY <1>5, AfterPass
<1>7. Types'
  <2>1. reading' \subseteq Clients /\ writing' \in [Clients -> Nat]
    BY <1>1, <1>3 DEF Types
  <2>2. up' \in [Clients -> 0 .. Messages] /\ \A d \in Clients : up'[d] <= sent[d]
    <3>1. /\ up \in [Clients -> 0 .. Messages] /\ \A d \in Clients : up[d] <= sent[d]
          /\ \A d \in Clients : 0 <= sent[d] /\ 0 \in 0 .. Messages
      BY NwcsIocpAssumption DEF Types
    <3>2. QED
      BY <1>1, <1>3, <3>1
  <2>3. QED
    BY <1>3, <1>5, <1>6, <2>1, <2>2 DEF Types, Lists
<1>8. OneAccept'
  <2>1. Bit(Acceptor = c /\ "accept" = "read" /\ result = "done") = 0
    BY DEF Bit
  <2>2. Queued(Tail(port), Acceptor, "accept") = Queued(port, Acceptor, "accept")
    BY AcceptCounted
  <2>3. Queued(port, Acceptor, "accept") \in Nat
    BY PlacesFinite DEF Types
  <2>4. Queued(port', Acceptor, "accept") = Queued(port, Acceptor, "accept")
    BY <1>3, <2>1, <2>2, <2>3
  <2>5. QED
    BY <2>4 DEF OneAccept
<1>9. AcceptsAreFresh'
  <2>1. \A x \in Conns : list'[x] = l[x] \/ l[x] = "delete"
    BY <1>6
  <2>2. QED
    BY <1>1, <1>3, <1>5, <2>1, AcceptedStayAccepted
<1>10. ASSUME NEW d \in Clients PROVE ClientInv(d)'
  <2>1. /\ Queued(port, d, "read") = Queued(Tail(port), d, "read") + Bit(d = c)
        /\ Queued(port, d, "write") = Queued(Tail(port), d, "write")
        /\ Queued(Tail(port), d, "read") \in Nat /\ Queued(Tail(port), d, "write") \in Nat
    BY HeadCounted
  <2>2. /\ Queued(port', d, "read")
             = Queued(Tail(port), d, "read") + Bit(d = c /\ result = "done")
        /\ Queued(port', d, "write") = Queued(Tail(port), d, "write")
    <3>1. /\ Bit(d = c /\ "read" = "read" /\ result = "done") = Bit(d = c /\ result = "done")
          /\ Bit(d = c /\ "write" = "read" /\ result = "done") = 0
      BY DEF Bit
    <3>2. QED
      BY <1>3, <2>1, <3>1
  <2>3. /\ pending_ops[d] \in Int /\ born[d] \in Int /\ sent[d] \in Int /\ up[d] \in Nat
        /\ writing[d] \in Nat
    BY Numbers DEF Types
  <2>4. ClientInv(d) /\ Bit(d \in reading) \in {0, 1}
    BY DEF Bit
  <2>5. CASE d # c
    <3>1. /\ Bit(d = c) = 0 /\ Bit(d = c /\ result = "done") = 0
          /\ (d \in reading' <=> d \in reading) /\ writing'[d] = writing[d] /\ up'[d] = up[d]
          /\ p[d] = pending_ops[d] /\ l[d] = list[d]
      <4>1. d \in DOMAIN pending_ops /\ d \in DOMAIN writing /\ d \in DOMAIN up /\ d \in Conns
        BY DEF Types, Conns
      <4>2. QED
        BY <1>3, <1>5, <2>5, <4>1 DEF Bit
    <3>2. /\ Queued(port', d, "read") = Queued(port, d, "read")
          /\ Queued(port', d, "write") = Queued(port, d, "write")
      BY <2>1, <2>2, <3>1
    <3>3. /\ Outstanding(d)' = Outstanding(d) /\ OneRead(d)' /\ MayReadOn(d)' = MayReadOn(d)
      BY <2>4, <3>1, <3>2 DEF ClientInv, Outstanding, OneRead, MayReadOn, Bit
    <3>4. /\ Covers(l[d], p[d], Outstanding(d)', born'[d])
          /\ Limits(l[d], p[d], born'[d], sent'[d] - up'[d], MayReadOn(d)')
          /\ l[d] # "none" => peer'[d] # "absent"
      BY <2>4, <3>1, <3>3 DEF ClientInv, Covered, Limited, Connected
    <3>5. QED
      BY <1>5, <1>7, <3>3, <3>4, PassClient
  <2>6. CASE d = c
    <3>1. Bit(d = c) = 1 /\ Bit(d = c /\ result = "done") = Bit(result = "done")
      BY <2>6 DEF Bit
    <3>2. d \notin reading /\ Queued(Tail(port), d, "read") = 0
      BY <2>1, <2>4, <3>1 DEF ClientInv, OneRead, Bit
    <3>3. Bit(d \in reading) = 0 /\ Bit(d \in reading') = Bit(result = "pending")
      BY <1>3, <2>6, <3>2 DEF Bit
    <3>4. writing'[d] = writing[d] + 1 /\ p[d] = pending_ops[d] + Counts(result)
      BY <1>1, <2>6 DEF Types
    <3>5. Outstanding(d)' = Outstanding(d) + Counts(result)
      BY <1>4, <2>1, <2>2, <2>3, <3>1, <3>2, <3>3, <3>4 DEF Outstanding, Bit
    <3>6. OneRead(d)'
      BY <2>2, <3>1, <3>2, <3>3 DEF OneRead, Bit
    <3>7. l[d] \in {"client", "delete"}
      BY <1>1, <2>6 DEF Types
    <3>8. Outstanding(d) \in Nat /\ Covers(list[d], pending_ops[d], Outstanding(d), born[d])
      BY <2>4, Numbers DEF ClientInv, Covered
    <3>9. Covers(l[d], p[d], Outstanding(d)', born'[d])
      BY <1>1, <1>4, <2>3, <2>6, <3>4, <3>5, <3>7, <3>8 DEF Covers
    <3>10. Limits(l[d], p[d], born'[d], sent'[d] - up'[d], MayReadOn(d)')
      <4>1. pending_ops[d] - born[d] + Bit(peer[d] = "open") <= sent[d] - up[d] + 1
        <5>1. MayReadOn(d) <=> peer[d] = "open"
          BY <2>1, <3>1, <3>2 DEF MayReadOn
        <5>2. Limits(list[d], pending_ops[d], born[d], sent[d] - up[d], MayReadOn(d))
          BY <2>4 DEF ClientInv, Limited
        <5>3. QED
          BY <1>1, <2>6, <5>1, <5>2 DEF Limits, Bit
      <4>2. MayReadOn(d)' <=> peer[d] = "open" /\ result = "done"
        BY <2>2, <3>1, <3>2 DEF MayReadOn, Bit
      <4>3. up'[d] = IF result = "done" THEN 0 ELSE up[d]
        BY <1>1, <1>3, <2>6 DEF Types
      <4>4. CASE result = "done"
        BY <1>2, <1>4, <2>3, <2>6, <3>4, <4>1, <4>2, <4>3, <4>4 DEF Limits, Bit
      <4>5. CASE result = "pending"
        BY <1>2, <1>4, <2>3, <2>6, <3>4, <4>1, <4>2, <4>3, <4>5 DEF Limits, Bit
      <4>6. CASE result \notin {"done", "pending"}
        BY <1>2, <1>4, <2>3, <2>6, <3>4, <4>1, <4>2, <4>3, <4>6 DEF Limits, Bit
      <4>7. QED
        BY <4>4, <4>5, <4>6
    <3>11. QED
      <4>1. peer'[d] # "absent"
        BY <1>1, <2>4, <2>6 DEF ClientInv, Connected
      <4>2. QED
        BY <1>5, <1>7, <3>6, <3>9, <3>10, <4>1, PassClient
  <2>7. QED
    BY <2>5, <2>6
<1>11. QED
  BY <1>7, <1>8, <1>9, <1>10

\* What a turn spends of the failures leaves their number in its bound.
LEMMA SpendsWithin ==
  ASSUME Types, NEW n \in Nat, Spends(n)
  PROVE  faults' \in 0 .. MaxFaults
BY NwcsIocpAssumption DEF Types, Spends

LEMMA HandleWriteInv ==
  ASSUME IInv, HandleWrite
  PROVE  IInv'
<1> DEFINE c == Head(port).nwc
           p == [pending_ops EXCEPT ![c] = pending_ops[c] - 1]
<1>1. /\ Takes("write", TRUE) /\ port' = Tail(port) /\ FreePass(list, p)
      /\ UNCHANGED <<peerVars, accepting, reading, writing, born, failed>> /\ faults' = faults
  BY DEF HandleWrite
<1>2. faults' \in 0 .. MaxFaults /\ pending_ops \in [Conns -> Int] /\ list \in [Conns -> Lists]
  BY <1>1 DEF IInv, Types, Lists
<1>3. c \in Conns
  BY <1>1, Taken DEF Conns
<1> HIDE DEF c
<1>4. /\ p \in [Conns -> Int] /\ p[c] = pending_ops[c] - 1
      /\ \A x \in Conns \ {c} : p[x] = pending_ops[x]
  BY <1>2, <1>3
<1> HIDE DEF p
<1>5. c = Head(port).nwc
  BY DEF c
<1>6. QED
  BY <1>1, <1>2, <1>4, <1>5, CountedOffInv

LEMMA HandleReadInv ==
  ASSUME IInv, HandleRead
  PROVE  IInv'
<1> DEFINE c == Head(port).nwc
           p == [pending_ops EXCEPT ![c] = @ - 1]
           deleted == [list EXCEPT ![c] = "delete"]
<1>1. Takes("read", TRUE) /\ UNCHANGED <<peer, sent, accepting, born, failed>>
  BY DEF HandleRead
<1>2. c \in Clients /\ c \in Conns
  BY <1>1, Taken DEF Conns
<1>3. ASSUME NEW result \in ReadResults(c),
             nwcs_read_request(c, result),
             writing' = [writing EXCEPT ![c] = @ + 1],
             Spends(Cost(c, result)),
             FreePass(IF result \in {"eof", "failed"} THEN deleted ELSE list,
                      [p EXCEPT ![c] = @ + 1 + Counts(result)])
      PROVE  IInv'
  <2>1. [p EXCEPT ![c] = @ + 1 + Counts(result)]
          = [pending_ops EXCEPT ![c] = pending_ops[c] + Counts(result)]
    <3>1. pending_ops \in [Conns -> Int] /\ Counts(result) \in Int
      BY DEF IInv, Types, Counts
    <3> HIDE DEF c
    <3>2. /\ p \in [Conns -> Int] /\ p[c] = pending_ops[c] - 1
          /\ \A n \in Conns \ {c} : p[n] = pending_ops[n]
      BY <1>2, <3>1
    <3> HIDE DEF p
    <3>3. p[c] + 1 + Counts(result) = pending_ops[c] + Counts(result)
      BY <1>2, <3>1, <3>2
    <3>4. [p EXCEPT ![c] = p[c] + 1 + Counts(result)]
            = [pending_ops EXCEPT ![c] = p[c] + 1 + Counts(result)]
      BY <3>1, <3>2
    <3>5. QED
      BY <3>3, <3>4
  <2>2. faults' \in 0 .. MaxFaults
    BY <1>3, SpendsWithin DEF Cost, IInv
  <2> HIDE DEF p
  <2>3. QED
    BY <1>1, <1>3, <2>1, <2>2, PongAndReadInv
<1>4. ASSUME Spends(Cost(c, "failed")), port' = Tail(port), FreePass(deleted, p),
             UNCHANGED <<reading, writing, up>>
      PROVE  IInv'
  <2>1. faults' \in 0 .. MaxFaults
    BY <1>4, SpendsWithin DEF Cost, IInv
  <2>2. UNCHANGED <<peerVars, accepting, reading, writing, born, failed>>
    BY <1>1, <1>4 DEF peerVars
  <2>3. pending_ops \in [Conns -> Int] /\ list \in [Conns -> Lists]
    BY DEF IInv, Types, Lists
  <2> HIDE DEF c
  <2>4. /\ p \in [Conns -> Int] /\ p[c] = pending_ops[c] - 1
        /\ \A x \in Conns \ {c} : p[x] = pending_ops[x]
    BY <1>2, <2>3
  <2>5. /\ deleted \in [Conns -> Lists] /\ deleted[c] \in {list[c], "delete"}
        /\ \A x \in Conns \ {c} : deleted[x] = list[x]
    BY <1>2, <2>3 DEF Lists
  <2> HIDE DEF p, deleted
  <2>6. c = Head(port).nwc
    BY DEF c
  <2>7. QED
    BY <1>1, <1>4, <2>1, <2>2, <2>4, <2>5, <2>6, CountedOffInv
<1>5. QED
  BY <1>3, <1>4 DEF HandleRead

\* A new connection, which its first read is asked for if it is ready.
LEMMA NewConnectionInv ==
  ASSUME IInv, Takes("accept", TRUE), NEW c, c = Head(port).socket,
         NEW b \in Births, NEW ready \in BOOLEAN, NEW result \in ReadResults(c),
         IF ready THEN nwcs_read_request(c, result)
                  ELSE port' = Tail(port) /\ UNCHANGED <<reading, up>>,
         NEW p \in [Conns -> Int], p[c] = b + (IF ready THEN Counts(result) ELSE 0),
         \A x \in Clients \ {c} : p[x] = pending_ops[x],
         NEW l \in [Conns -> Lists],
         l[c] = IF ready /\ result \in {"pending", "done"} THEN "client" ELSE "freed",
         \A x \in Conns \ {c} : l[x] = list[x],
         FreePass(l, p), born' = [born EXCEPT ![c] = b],
         accepting' \in BOOLEAN, failed' \subseteq Conns, faults' \in 0 .. MaxFaults,
         UNCHANGED <<peer, sent, writing>>
  PROVE  IInv'
<1> USE DEF IInv
<1> DEFINE done == ready /\ result = "done"
           pend == ready /\ result = "pending"
<1>1. /\ port # <<>> /\ c \in Clients /\ c \in Conns /\ Acceptor \notin Clients
      /\ list[c] = "accepted" /\ Head(port).nwc = Acceptor
      /\ IsOf(Head(port), Acceptor, "accept")
      /\ \A m \in Range(Tail(port)) : m.op # "accept"
  BY Taken, NwcsIocpAssumption DEF Conns
<1>2. /\ result \in Results /\ peer[c] # "absent"
      /\ result = "done" => up[c] > 0
      /\ result = "pending" => peer[c] = "open"
  <2>1. ClientInv(c) /\ peer[c] # "absent" /\ peer[c] \in {"absent", "open", "closed", "reset"}
    BY <1>1 DEF ClientInv, Connected, Types
  <2>2. QED
    BY <2>1 DEF ReadResults, Results
<1>3. /\ port' \in Seq(Completion)
      /\ \A m \in Range(port') : m \in Range(Tail(port)) \/ (m.op = "read" /\ m.nwc = c)
      /\ \A n, op : Queued(port', n, op)
                       = Queued(Tail(port), n, op) + Bit(n = c /\ op = "read" /\ done)
      /\ reading' = IF pend THEN reading \cup {c} ELSE reading
      /\ up' = IF done THEN [up EXCEPT ![c] = 0] ELSE up
  <2>1. CASE ready
    <3>1. \A n, op : Bit(n = c /\ op = "read" /\ done) = Bit(n = c /\ op = "read" /\ result = "done")
      BY <2>1 DEF Bit
    <3>2. QED
      BY <1>1, <1>2, <2>1, <3>1, AfterReadRequest
  <2>2. CASE ~ready
    <3>1. \A n, op : Bit(n = c /\ op = "read" /\ done) = 0
      BY <2>2 DEF Bit
    <3>2. Tail(port) \in Seq(Completion) /\ \A n, op : Queued(Tail(port), n, op) \in Nat
      BY <1>1, PortAfterTail
    <3>3. \A n, op : Queued(Tail(port), n, op)
                       = Queued(Tail(port), n, op) + Bit(n = c /\ op = "read" /\ done)
      <4> SUFFICES ASSUME NEW n, NEW op
                   PROVE  Queued(Tail(port), n, op)
                            = Queued(Tail(port), n, op) + Bit(n = c /\ op = "read" /\ done)
        OBVIOUS
      <4>1. Bit(n = c /\ op = "read" /\ done) = 0 /\ Queued(Tail(port), n, op) \in Nat
        BY <3>1, <3>2
      <4> HIDE DEF done
      <4>2. QED
        BY <4>1
    <3>4. QED
      BY <2>2, <3>2, <3>3
  <2>3. QED
    BY <2>1, <2>2
<1>4. /\ list' \in [Conns -> Lists] /\ pending_ops' = p /\ broken' \in BOOLEAN
      /\ \A x \in Conns : list'[x] = IF l[x] = "delete" /\ p[x] <= 0 THEN "freed" ELSE l[x]
  BY AfterPass
<1>5. Types'
  <2>1. reading' \subseteq Clients /\ born' \in [Clients -> Births \cup {0}]
    BY <1>1, <1>3 DEF Types
  <2>2. up' \in [Clients -> 0 .. Messages] /\ \A d \in Clients : up'[d] <= sent[d]
    <3>1. /\ up \in [Clients -> 0 .. Messages] /\ \A d \in Clients : up[d] <= sent[d]
          /\ \A d \in Clients : 0 <= sent[d] /\ 0 \in 0 .. Messages
      BY NwcsIocpAssumption DEF Types
    <3>2. QED
      BY <1>1, <1>3, <3>1
  <2>3. QED
    BY <1>3, <1>4, <2>1, <2>2 DEF Types, Lists
<1>6. OneAccept'
  <2>1. /\ Queued(Tail(port), Acceptor, "accept") \in Nat
        /\ Queued(port, Acceptor, "accept") = Queued(Tail(port), Acceptor, "accept") + 1
    <3>1. Bit(IsOf(Head(port), Acceptor, "accept")) = 1
      BY <1>1 DEF Bit
    <3>2. QED
      BY <1>1, <3>1, PortAfterTail
  <2>2. Queued(Tail(port), Acceptor, "accept") = 0
    BY <2>1 DEF OneAccept, Bit
  <2>3. Bit(Acceptor = c /\ "accept" = "read" /\ done) = 0
    BY DEF Bit
  <2>4. Queued(port', Acceptor, "accept") = 0
    BY <1>3, <2>2, <2>3
  <2>5. QED
    BY <2>4 DEF OneAccept, Bit
<1>7. AcceptsAreFresh'
  <2>1. ASSUME NEW m \in Range(port') PROVE m.op # "accept" /\ m.nwc # Acceptor
    <3>1. CASE m.op = "read" /\ m.nwc = c
      BY <1>1, <3>1
    <3>2. CASE m \in Range(Tail(port))
      <4>1. m \in Range(port)
        BY <1>1, <3>2, PortAfterTail
      <4>2. QED
        BY <1>1, <3>2, <4>1 DEF AcceptsAreFresh, Fresh
    <3>3. QED
      BY <1>3, <3>1, <3>2
  <2>2. QED
    BY <2>1 DEF AcceptsAreFresh, Fresh
<1>8. ASSUME NEW d \in Clients PROVE ClientInv(d)'
  <2>1. /\ \A op : Queued(port, d, op) = Queued(Tail(port), d, op)
        /\ \A op : Queued(Tail(port), d, op) \in Nat
    <3>1. \A op : Bit(IsOf(Head(port), d, op)) = 0
      BY <1>1 DEF IsOf, Bit
    <3>2. QED
      BY <1>1, <3>1, PortAfterTail
  <2>2. /\ Queued(port', d, "read") = Queued(port, d, "read") + Bit(d = c /\ done)
        /\ Queued(port', d, "write") = Queued(port, d, "write")
    <3>1. /\ Bit(d = c /\ "read" = "read" /\ done) = Bit(d = c /\ done)
          /\ Bit(d = c /\ "write" = "read" /\ done) = 0
      BY DEF Bit
    <3>2. QED
      BY <1>3, <2>1, <3>1
  <2>3. /\ pending_ops[d] \in Int /\ born[d] \in Int /\ sent[d] \in Int /\ up[d] \in Nat
        /\ writing[d] \in Nat /\ Queued(port, d, "read") \in Nat
        /\ Queued(port, d, "write") \in Nat
    BY Numbers DEF Types
  <2>4. ClientInv(d) /\ Bit(d \in reading) \in {0, 1}
    BY DEF Bit
  <2>5. CASE d # c
    <3>1. /\ Bit(d = c /\ done) = 0 /\ (d \in reading' <=> d \in reading) /\ up'[d] = up[d]
          /\ born'[d] = born[d] /\ p[d] = pending_ops[d] /\ l[d] = list[d]
      <4>1. d \in DOMAIN born /\ d \in DOMAIN up /\ d \in Conns
        BY DEF Types, Conns
      <4>2. QED
        BY <1>3, <2>5, <4>1 DEF Bit
    <3>2. /\ Queued(port', d, "read") = Queued(port, d, "read")
          /\ Queued(port', d, "write") = Queued(port, d, "write")
      BY <2>2, <2>3, <3>1
    <3>3. Outstanding(d)' = Outstanding(d) /\ OneRead(d)' /\ MayReadOn(d)' = MayReadOn(d)
      BY <2>4, <3>1, <3>2 DEF ClientInv, Outstanding, OneRead, MayReadOn, Bit
    <3>4. /\ Covers(l[d], p[d], Outstanding(d)', born'[d])
          /\ Limits(l[d], p[d], born'[d], sent'[d] - up'[d], MayReadOn(d)')
          /\ l[d] # "none" => peer'[d] # "absent"
      BY <2>4, <3>1, <3>3 DEF ClientInv, Covered, Limited, Connected
    <3>5. QED
      BY <1>5, <3>3, <3>4, PassClient
  <2>6. CASE d = c
    <3>1. Outstanding(d) = 0
      BY <1>1, <2>4, <2>6 DEF ClientInv, Covered, Covers
    <3>2. /\ Bit(d \in reading) = 0 /\ writing[d] = 0
          /\ Queued(port, d, "read") = 0 /\ Queued(port, d, "write") = 0
      BY <2>3, <2>4, <3>1 DEF Outstanding
    <3>3. Bit(d \in reading') = Bit(pend) /\ Bit(d = c /\ done) = Bit(done)
      BY <1>3, <2>6, <3>2 DEF Bit
    <3>4. Outstanding(d)' = Bit(pend) + Bit(done) /\ OneRead(d)'
      BY <2>2, <3>2, <3>3 DEF Outstanding, OneRead, Bit
    <3>5. born'[d] = b /\ b \in Int /\ p[d] - b = Bit(pend) + Bit(done)
      <4>1. born'[d] = b /\ b \in Int
        BY <2>6, NwcsIocpAssumption DEF Types
      <4>2. (IF ready THEN Counts(result) ELSE 0) = Bit(pend) + Bit(done)
        BY DEF Counts, Bit
      <4>3. Bit(pend) + Bit(done) \in Int
        BY DEF Bit
      <4>4. p[d] = b + (Bit(pend) + Bit(done))
        BY <2>6, <4>2
      <4> HIDE DEF pend, done
      <4>5. QED
        BY <4>1, <4>3, <4>4
    <3>6. p[d] \in Int /\ (l[d] = "client" \/ (l[d] = "freed" /\ Bit(pend) + Bit(done) = 0))
      BY <2>6, <1>1 DEF Bit
    <3>7. Covers(l[d], p[d], Outstanding(d)', born'[d])
      BY <3>4, <3>5, <3>6 DEF Covers
    <3>8. MayReadOn(d)' <=> peer[d] = "open" /\ done
      BY <2>2, <3>2, <3>3 DEF MayReadOn, Bit
    <3>9. up'[d] = (IF done THEN 0 ELSE up[d]) /\ up[d] <= sent[d]
      BY <1>1, <1>3, <2>6 DEF Types
    <3>10. Limits(l[d], p[d], born'[d], sent'[d] - up'[d], MayReadOn(d)')
      <4>1. CASE done
        <5>1. up[d] > 0 /\ Bit(pend) = 0 /\ Bit(done) = 1 /\ Bit(MayReadOn(d)') \in {0, 1}
          BY <1>2, <2>6, <4>1 DEF Bit
        <5>2. p[d] - b = 1 /\ up'[d] = 0
          BY <3>5, <3>9, <4>1, <5>1
        <5>3. QED
          BY <2>3, <3>5, <3>9, <5>1, <5>2 DEF Limits
      <4>2. CASE ~done
        <5>1. Bit(done) = 0 /\ Bit(pend) \in {0, 1} /\ Bit(MayReadOn(d)') = 0
          BY <3>8, <4>2 DEF Bit
        <5>2. p[d] - b <= 1 /\ up'[d] = up[d]
          BY <3>5, <3>9, <4>2, <5>1
        <5>3. sent'[d] = sent[d] /\ Bit(MayReadOn(d)') = 0 /\ born'[d] = b
          BY <3>5, <5>1
        <5>4. p[d] - b + 0 <= sent[d] - up[d] + 1
          BY <2>3, <3>5, <3>6, <3>9, <5>2
        <5>5. QED
          BY <5>2, <5>3, <5>4 DEF Limits
      <4>3. QED
        BY <4>1, <4>2
    <3>11. QED
      BY <1>2, <1>5, <2>6, <3>4, <3>7, <3>10, PassClient
  <2>7. QED
    BY <2>5, <2>6
<1>9. QED
  BY <1>5, <1>6, <1>7, <1>8

LEMMA HandleAcceptInv ==
  ASSUME IInv, HandleAccept
  PROVE  IInv'
<1> DEFINE c == Head(port).socket
<1>1. Takes("accept", TRUE) /\ UNCHANGED <<peer, sent, writing>>
  BY DEF HandleAccept
<1>2. c \in Clients /\ c \in Conns /\ Acceptor \in Conns /\ Acceptor \notin Clients
  BY <1>1, Taken, NwcsIocpAssumption DEF Conns
<1>3. PICK b \in Births, posted \in BOOLEAN, ready \in BOOLEAN, result \in ReadResults(c) :
        /\ born' = [born EXCEPT ![c] = b]
        /\ accepting' = PostsAccept(posted, ready)
        /\ Spends((IF posted THEN 0 ELSE 1) + (IF ready THEN Cost(c, result) ELSE 1))
        /\ failed' = IF posted THEN failed ELSE failed \cup {Acceptor}
        /\ IF ready THEN nwcs_read_request(c, result)
                    ELSE port' = Tail(port) /\ UNCHANGED <<reading, up>>
        /\ FreePass([list EXCEPT ![c] = IF ready /\ result \in {"pending", "done"}
                                        THEN "client" ELSE "freed"],
                    [pending_ops EXCEPT ![c] = b + (IF ready THEN Counts(result) ELSE 0),
                                        ![Acceptor] = @ - 1])
  BY DEF HandleAccept
<1> DEFINE l == [list EXCEPT ![c] = IF ready /\ result \in {"pending", "done"}
                                    THEN "client" ELSE "freed"]
           counted == IF ready THEN Counts(result) ELSE 0
           p == [pending_ops EXCEPT ![c] = b + counted, ![Acceptor] = @ - 1]
<1>4. FreePass(l, p)
  BY <1>3
<1>5. /\ list \in [Conns -> Lists] /\ pending_ops \in [Conns -> Int] /\ failed \subseteq Conns
      /\ b \in Int /\ counted \in Int
  BY NwcsIocpAssumption DEF IInv, Types, Lists, Counts
<1> HIDE DEF c, counted
<1>6. /\ p \in [Conns -> Int] /\ p[c] = b + counted
      /\ \A x \in Clients \ {c} : p[x] = pending_ops[x]
  BY <1>2, <1>5 DEF Conns
<1>7. /\ l \in [Conns -> Lists] /\ \A x \in Conns \ {c} : l[x] = list[x]
      /\ l[c] = IF ready /\ result \in {"pending", "done"} THEN "client" ELSE "freed"
  BY <1>2, <1>5 DEF Lists
<1>8. faults' \in 0 .. MaxFaults
  <2> DEFINE n == (IF posted THEN 0 ELSE 1) + (IF ready THEN Cost(c, result) ELSE 1)
  <2>1. n \in Nat /\ Spends(n)
    BY <1>3 DEF Cost
  <2> HIDE DEF n
  <2>2. QED
    BY <2>1, SpendsWithin DEF IInv
<1>9. accepting' \in BOOLEAN /\ failed' \subseteq Conns
  BY <1>2, <1>3, <1>5 DEF PostsAccept
<1> HIDE DEF p, l
<1>10. p[c] = b + (IF ready THEN Counts(result) ELSE 0) /\ c = Head(port).socket
  BY <1>6 DEF counted, c
<1>11. QED
  BY <1>1, <1>3, <1>4, <1>6, <1>7, <1>8, <1>9, <1>10, NewConnectionInv

-----------------------------------------------------------------------------
(* The theorems *)

LEMMA StutterInv ==
  ASSUME IInv, UNCHANGED vars
  PROVE  IInv'
<1>1. /\ UNCHANGED <<peer, sent, up, accepting, reading, writing, port>>
      /\ UNCHANGED <<list, pending_ops, born, failed, broken, faults>>
  BY DEF vars, peerVars, kernelVars, connVars
<1>2. Types' /\ OneAccept' /\ AcceptsAreFresh'
  BY <1>1 DEF IInv, Types, OneAccept, AcceptsAreFresh, Fresh
<1>3. ASSUME NEW c \in Clients PROVE ClientInv(c)'
  <2>1. ClientInv(c)
    BY DEF IInv
  <2>2. QED
    BY <1>1, <2>1 DEF ClientInv, OneRead, Connected, Covered, Outstanding, Limited, MayReadOn
<1>4. QED
  BY <1>2, <1>3 DEF IInv

LEMMA NextInv ==
  ASSUME IInv, [Next]_vars
  PROVE  IInv'
<1>1. ASSUME NEW c \in Clients, PeerConnects(c) \/ PeerSends(c) \/ PeerCloses(c) \/ PeerResets(c)
      PROVE  IInv'
  BY <1>1, PeerInv
<1>2. ASSUME Kernel PROVE IInv'
  BY <1>2, AcceptCompletesInv, CompletesInv DEF Kernel
<1>3. ASSUME nwcs_run_loop PROVE IInv'
  BY <1>3, TakesDanglingInv, TakesFailureInv, HandleAcceptInv, HandleReadInv, HandleWriteInv
     DEF nwcs_run_loop
<1>4. QED
  BY <1>1, <1>2, <1>3, StutterInv DEF Next

(* pending_ops covers what is posted or queued of its connection at every moment of
   nwcs_run_loop, and a connection never has two reads under way, nor the listening
   socket two accepts. *)
THEOREM Invariance == Spec => []IInv
<1>1. Init => IInv
  BY InitInv
<1>2. IInv /\ [Next]_vars => IInv'
  BY NextInv
<1>3. QED
  BY <1>1, <1>2, PTL DEF Spec

\* The counter of a connection in use, from the invariant.
LEMMA CounterBounded ==
  ASSUME IInv, NEW c \in Clients, list[c] \in {"client", "delete"}
  PROVE  pending_ops[c] - born[c] \in 0 .. 2 * (Messages + 1)
<1>1. /\ Outstanding(c) \in Nat /\ pending_ops[c] \in Int /\ born[c] \in Int
      /\ sent[c] \in 0 .. Messages /\ up[c] \in 0 .. Messages /\ Messages \in Nat
  BY Numbers, NwcsIocpAssumption DEF IInv, Types
<1>2. /\ Outstanding(c) <= pending_ops[c] - born[c]
      /\ pending_ops[c] - born[c] + Bit(MayReadOn(c)) <= sent[c] - up[c] + 1
  BY DEF IInv, ClientInv, Covered, Covers, Limited, Limits
<1>3. Bit(MayReadOn(c)) \in {0, 1}
  BY DEF Bit
<1>4. QED
  BY <1>1, <1>2, <1>3

(* nwcs_run_loop frees a connection of the delete list only when none of its
   operations is posted, and none has a completion in the port that is still to be
   handled, provided malloc left nothing negative in pending_ops; and the counter of a
   connection in use exceeds what malloc left by the operations of its messages at
   most. *)
THEOREM FreedIsIdle == Spec => []FreedIsUnused
<1>1. ASSUME IInv PROVE TypeOK
  <2>1. \A c \in Clients : list[c] \in {"client", "delete"} =>
                            pending_ops[c] - born[c] \in 0 .. 2 * (Messages + 1)
    BY <1>1, CounterBounded
  <2>2. QED
    BY <1>1, <2>1 DEF IInv, Types, TypeOK, Conns
<1>2. ASSUME IInv, NEW c \in Clients, list[c] = "freed", born[c] >= 0
      PROVE  /\ c \notin reading /\ writing[c] = 0
             /\ InPort(c, "read") = {} /\ InPort(c, "write") = {}
  <2>1. Outstanding(c) = 0
    BY <1>2 DEF IInv, ClientInv, Covered, Covers
  <2>2. /\ writing[c] \in Nat /\ Bit(c \in reading) \in {0, 1}
        /\ Queued(port, c, "read") \in Nat /\ Queued(port, c, "write") \in Nat
    BY <1>2, Numbers DEF IInv, Bit
  <2>3. /\ writing[c] = 0 /\ Bit(c \in reading) = 0
        /\ Queued(port, c, "read") = 0 /\ Queued(port, c, "write") = 0
    BY <2>1, <2>2 DEF Outstanding
  <2>4. Places(port, c, "read") = {} /\ Places(port, c, "write") = {}
    BY <1>2, <2>3, PlacesFinite DEF IInv, Types
  <2>5. QED
    BY <2>3, <2>4 DEF Bit, Places, InPort
<1>3. IInv => FreedIsUnused
  BY <1>1, <1>2 DEF FreedIsUnused
<1>4. QED
  BY <1>3, Invariance, PTL

AcceptUnderWay == accepting \/ Queued(port, Acceptor, "accept") > 0 \/ Acceptor \in failed

LEMMA AcceptUnderWayStep ==
  ASSUME IInv, ~broken => AcceptUnderWay, [Next]_vars, ~broken'
  PROVE  AcceptUnderWay'
<1> USE DEF IInv
<1>0. Queued(port, Acceptor, "accept") \in Nat
  BY PlacesFinite DEF Types
<1>1. ASSUME NEW c \in Clients, PeerConnects(c) \/ PeerSends(c) \/ PeerCloses(c) \/ PeerResets(c)
      PROVE  AcceptUnderWay'
  BY <1>1 DEF PeerConnects, PeerSends, PeerCloses, PeerResets, AcceptUnderWay, kernelVars
<1>2. ASSUME NEW c \in Clients, AcceptCompletes(c) PROVE AcceptUnderWay'
  <2>1. PICK ok \in BOOLEAN : port' = Append(port, Done(Acceptor, "accept", c, ok))
    BY <1>2 DEF AcceptCompletes
  <2> DEFINE m == Done(Acceptor, "accept", c, ok)
  <2>2. m \in Completion /\ Bit(IsOf(m, Acceptor, "accept")) = 1
    BY DEF Done, Completion, IsOf, Bit
  <2> HIDE DEF m
  <2>3. Queued(port', Acceptor, "accept") = Queued(port, Acceptor, "accept") + 1
    BY <2>1, <2>2, PortAfterAppend DEF Types, m
  <2>4. QED
    BY <1>0, <2>3 DEF AcceptUnderWay
<1>3. ASSUME NEW c \in Clients, ReadCompletes(c) \/ WriteCompletes(c) PROVE AcceptUnderWay'
  <2>1. PICK op \in {"read", "write"}, ok \in BOOLEAN : port' = Append(port, Done(c, op, c, ok))
    BY <1>3 DEF ReadCompletes, WriteCompletes
  <2> DEFINE m == Done(c, op, c, ok)
  <2>2. m \in Completion /\ Bit(IsOf(m, Acceptor, "accept")) = 0
    BY DEF Done, Completion, IsOf, Bit
  <2>3. accepting' = accepting /\ failed' = failed /\ broken' = broken
    BY <1>3 DEF ReadCompletes, WriteCompletes
  <2> HIDE DEF m
  <2>4. Queued(port', Acceptor, "accept") = Queued(port, Acceptor, "accept")
    BY <1>0, <2>1, <2>2, PortAfterAppend DEF Types, m
  <2>5. QED
    BY <2>3, <2>4 DEF AcceptUnderWay
<1>4. CASE TakesDangling
  BY <1>4 DEF TakesDangling
<1>5. CASE TakesFailure
  <2>1. PICK op \in {"accept", "read", "write"} : Takes(op, FALSE)
    BY <1>5 DEF TakesFailure
  <2>2. /\ failed' = failed \cup {Head(port).nwc} /\ port' = Tail(port) /\ accepting' = accepting
        /\ ~broken
    BY <1>5, <2>1 DEF TakesFailure, Takes
  <2>3. CASE op = "accept"
    BY <2>1, <2>2, <2>3, Taken DEF AcceptUnderWay
  <2>4. CASE op \in {"read", "write"}
    BY <2>1, <2>2, <2>4, AcceptCounted DEF AcceptUnderWay
  <2>5. QED
    BY <2>3, <2>4
<1>6. CASE HandleAccept
  <2>1. PICK posted \in BOOLEAN : /\ accepting' = posted
                                  /\ failed' = IF posted THEN failed ELSE failed \cup {Acceptor}
    BY <1>6 DEF HandleAccept, PostsAccept
  <2>2. QED
    BY <2>1 DEF AcceptUnderWay
<1>7. CASE HandleRead \/ HandleWrite
  <2>1. PICK op \in {"read", "write"} :
          /\ Takes(op, TRUE) /\ accepting' = accepting /\ failed' = failed
          /\ port' = Tail(port) \/ \E r \in ReadResults(Head(port).nwc) :
                                       nwcs_read_request(Head(port).nwc, r) /\ op = "read"
    BY <1>7 DEF HandleRead, HandleWrite
  <2>2. Queued(Tail(port), Acceptor, "accept") = Queued(port, Acceptor, "accept") /\ ~broken
    BY <2>1, AcceptCounted DEF Takes
  <2>3. ASSUME NEW c \in Clients, c = Head(port).nwc,
               NEW r \in ReadResults(c), nwcs_read_request(c, r)
        PROVE  Queued(port', Acceptor, "accept") = Queued(Tail(port), Acceptor, "accept")
    <3>1. r \in Results /\ port # <<>>
      BY <2>1 DEF ReadResults, Results, Takes
    <3>2. Queued(port', Acceptor, "accept") = Queued(Tail(port), Acceptor, "accept")
             + Bit(Acceptor = c /\ "accept" = "read" /\ r = "done")
      BY <2>3, <3>1, AfterReadRequest
    <3>3. Bit(Acceptor = c /\ "accept" = "read" /\ r = "done") = 0
      BY DEF Bit
    <3>4. QED
      BY <1>0, <2>2, <3>2, <3>3
  <2>4. op = "read" => Head(port).nwc \in Clients
    BY <2>1, Taken
  <2>5. Queued(port', Acceptor, "accept") = Queued(port, Acceptor, "accept")
    <3>1. CASE port' = Tail(port)
      BY <2>2, <3>1
    <3>2. CASE port' # Tail(port)
      <4>1. PICK r \in ReadResults(Head(port).nwc) : nwcs_read_request(Head(port).nwc, r) /\ op = "read"
        BY <2>1, <3>2
      <4>2. QED
        BY <2>2, <2>3, <2>4, <4>1
    <3>3. QED
      BY <3>1, <3>2
  <2>6. QED
    BY <2>1, <2>2, <2>5 DEF AcceptUnderWay
<1>8. CASE UNCHANGED vars
  BY <1>8 DEF vars, kernelVars, AcceptUnderWay
<1>9. QED
  BY <1>1, <1>2, <1>3, <1>4, <1>5, <1>6, <1>7, <1>8 DEF Next, Kernel, nwcs_run_loop

(* As long as no accept has failed there is one posted, or completed and in the port:
   handling an accept posts the next one before anything that can go wrong with the
   new connection (nwcs_accept_request in the OP_ACCEPT case). *)
THEOREM AcceptGoesOn == Spec => []AcceptStaysPosted
<1> DEFINE Way == ~broken => AcceptUnderWay
<1>1. Init => Way
  BY DEF Init, AcceptUnderWay
<1>2. IInv /\ Way /\ [Next]_vars => Way'
  BY AcceptUnderWayStep
<1>3. IInv /\ Way => AcceptStaysPosted
  <2> SUFFICES ASSUME IInv, Way, ~broken, ~accepting, Acceptor \notin failed
               PROVE  InPort(Acceptor, "accept") # {}
    BY DEF AcceptStaysPosted
  <2>1. Queued(port, Acceptor, "accept") # 0
    BY DEF AcceptUnderWay
  <2>2. Places(port, Acceptor, "accept") # {}
    BY <2>1, PlacesFinite DEF IInv, Types
  <2>3. QED
    BY <2>2 DEF Places, InPort
<1> HIDE DEF Way
<1>4. QED
  BY <1>1, <1>2, <1>3, Invariance, PTL DEF Spec
=============================================================================
