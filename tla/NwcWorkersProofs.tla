--------------------------- MODULE NwcWorkersProofs ---------------------------
(* The worker lists of struct nwc_looper, for any number of workers and of   *)
(* connections: both stay circular doubly linked lists, the walks of         *)
(* list_for_each_safe stay on the list they started on, and only workers of  *)
(* connections that are up are run.                                          *)
(*                                                                           *)
(* Nothing is said of sequences of nodes.  A worker gets a rank when it is   *)
(* linked, above the ranks of all that are linked; lists are appended to and *)
(* cut from, so that ranks grow along the next pointers.  That a worker is   *)
(* reached from its head, that a node is not its own neighbour, and that the *)
(* node after a send worker is not its stat worker, all follow from ranks.   *)
EXTENDS NwcWorkers, NaturalsInduction, WellFoundedInduction, TLAPS

\* The list a worker belongs on, and the head of the list of a node.
Side == [w \in Workers |->
           IF worker_do[w] = NULL THEN "removed_worker_hdr" ELSE "worker_hdr"]
HeadOf(side, x) == IF x \in Heads THEN x ELSE side[x]

\* The pointers l link the workers of A, each on its side, in the order of rank.
Linked(l, A, side, rank) ==
  /\ l.nxt \in [Nodes -> Nodes \cup {NULL}] /\ l.prv \in [Nodes -> Nodes \cup {NULL}]
  /\ \A x \in A \cup Heads :
       /\ l.nxt[x] \in A \cup Heads /\ l.prv[x] \in A \cup Heads
       /\ l.prv[l.nxt[x]] = x /\ l.nxt[l.prv[x]] = x
       /\ HeadOf(side, l.nxt[x]) = HeadOf(side, x)
  /\ \A x \in A : l.nxt[x] \in A => rank[x] < rank[l.nxt[x]]

\* The handles of a connection that is up, and the workers not cancelled, match.
Owned ==
  /\ \A c \in Conns : conn[c] = "up" =>
       /\ {stat_wk_handle[c], send_wk_handle[c]} \subseteq allocated
       /\ worker_do[stat_wk_handle[c]] = "stat" /\ worker_do[send_wk_handle[c]] = "send"
       /\ userdata[stat_wk_handle[c]] = c /\ userdata[send_wk_handle[c]] = c
  /\ \A w \in allocated : worker_do[w] # NULL =>
       /\ userdata[w] \in Conns /\ conn[userdata[w]] = "up"
       /\ w \in {stat_wk_handle[userdata[w]], send_wk_handle[userdata[w]]}

Ranked(rank, top) ==
  /\ Linked(Lists, allocated, Side, rank)
  /\ \A w \in allocated : rank[w] < top
  /\ \A c \in Conns : conn[c] = "up" => rank[stat_wk_handle[c]] < rank[send_wk_handle[c]]

\* The variables of a walk under way on the list of head h.
WalkOn(h) ==
  /\ pos \in allocated \cup Heads /\ HeadOf(Side, pos) = h
  /\ n = nxt[pos]

Walk == /\ pc = "dispatch" => WalkOn("worker_hdr")
        /\ pc = "delete" => WalkOn("removed_worker_hdr")

IInv == /\ TypeOK /\ Owned /\ Walk
        /\ \E rank \in [Workers -> Nat], top \in Nat : Ranked(rank, top)

-----------------------------------------------------------------------------
(* list.h *)

\* list_add_tail links a worker that was not linked, if it has the greatest rank.
LEMMA AddTailLinks ==
  ASSUME NEW l, NEW A \in SUBSET Workers, NEW side \in [Workers -> Heads],
         NEW rank \in [Workers -> Nat], Linked(l, A, side, rank),
         NEW w \in Workers \ A, \A x \in A : rank[x] < rank[w]
  PROVE  Linked(list_add_tail(l, w, side[w]), A \cup {w}, side, rank)
<1> USE WorkersAssumption
<1> DEFINE h == side[w]
           last == l.prv[h]
           m == list_add_tail(l, w, h)
           L == A \cup Heads
<1>1. /\ h \in Heads /\ last \in L /\ l.nxt[last] = h /\ w \notin L
      /\ HeadOf(side, last) = h /\ HeadOf(side, w) = h /\ HeadOf(side, h) = h
  BY DEF Linked, HeadOf
<1>2. m.nxt = [l.nxt EXCEPT ![w] = h, ![last] = w] /\ m.prv = [l.prv EXCEPT ![h] = w, ![w] = last]
  BY DEF list_add_tail
<1> HIDE DEF m, h, last
<1>3. L \cup {w} \subseteq Nodes /\ h \in Nodes /\ last \in Nodes
  BY <1>1 DEF Nodes
<1>4. m.nxt \in [Nodes -> Nodes \cup {NULL}] /\ m.prv \in [Nodes -> Nodes \cup {NULL}]
  BY <1>2, <1>3 DEF Linked
<1>5. /\ m.nxt[w] = h /\ m.nxt[last] = w /\ \A x \in L \ {last} : m.nxt[x] = l.nxt[x]
      /\ m.prv[h] = w /\ m.prv[w] = last /\ \A x \in L \ {h} : m.prv[x] = l.prv[x]
  BY <1>1, <1>2, <1>3 DEF Linked
<1>6. ASSUME NEW x \in L \cup {w}
      PROVE  /\ m.nxt[x] \in L \cup {w} /\ m.prv[x] \in L \cup {w}
             /\ m.prv[m.nxt[x]] = x /\ m.nxt[m.prv[x]] = x
             /\ HeadOf(side, m.nxt[x]) = HeadOf(side, x)
  <2>1. m.nxt[x] \in L \cup {w} /\ m.prv[m.nxt[x]] = x /\ HeadOf(side, m.nxt[x]) = HeadOf(side, x)
    <3>1. CASE x = w
      BY <1>1, <1>5, <3>1
    <3>2. CASE x = last
      BY <1>1, <1>5, <3>2
    <3>3. CASE x \in L \ {last}
      <4>1. l.nxt[x] \in L /\ l.prv[l.nxt[x]] = x /\ HeadOf(side, l.nxt[x]) = HeadOf(side, x)
        BY <3>3 DEF Linked
      <4>2. l.nxt[x] # h
        BY <3>3, <4>1 DEF last
      <4>3. QED
        BY <1>5, <3>3, <4>1, <4>2
    <3>4. QED
      BY <3>1, <3>2, <3>3
  <2>2. m.prv[x] \in L \cup {w} /\ m.nxt[m.prv[x]] = x
    <3>1. CASE x = w
      BY <1>1, <1>5, <3>1
    <3>2. CASE x = h
      BY <1>1, <1>5, <3>2
    <3>3. CASE x \in L \ {h}
      <4>1. l.prv[x] \in L /\ l.nxt[l.prv[x]] = x
        BY <3>3 DEF Linked
      <4>2. l.prv[x] # last
        BY <1>1, <3>3, <4>1
      <4>3. QED
        BY <1>5, <3>3, <4>1, <4>2
    <3>4. QED
      BY <3>1, <3>2, <3>3
  <2>3. QED
    BY <2>1, <2>2
<1>7. ASSUME NEW x \in A \cup {w}, m.nxt[x] \in A \cup {w} PROVE rank[x] < rank[m.nxt[x]]
  <2>1. x # w
    BY <1>1, <1>5, <1>7
  <2>2. CASE x = last
    BY <1>5, <2>1, <2>2
  <2>3. CASE x # last
    BY <1>1, <1>5, <1>7, <2>1, <2>3 DEF Linked
  <2>4. QED
    BY <2>2, <2>3
<1>8. Linked(m, A \cup {w}, side, rank)
  <2>1. L \cup {w} = (A \cup {w}) \cup Heads
    OBVIOUS
  <2>2. QED
    BY <1>4, <1>6, <1>7, <2>1 DEF Linked
<1>9. QED
  BY <1>8 DEF m, h

\* list_del unlinks a worker, and the others stay linked.
LEMMA DelUnlinks ==
  ASSUME NEW l, NEW A \in SUBSET Workers, NEW side \in [Workers -> Heads],
         NEW rank \in [Workers -> Nat], Linked(l, A, side, rank), NEW w \in A
  PROVE  Linked(list_del(l, w), A \ {w}, side, rank)
<1> USE WorkersAssumption
<1> DEFINE p == l.prv[w]
           q == l.nxt[w]
           m == list_del(l, w)
           L == A \cup Heads
<1>1. /\ p \in L /\ q \in L /\ l.nxt[p] = w /\ l.prv[q] = w /\ w \notin Heads
      /\ HeadOf(side, p) = HeadOf(side, w) /\ HeadOf(side, q) = HeadOf(side, w)
  BY DEF Linked
<1>2. q # w /\ p # w
  <2>1. l.nxt[w] # w
    <3>1. l.nxt[w] \in A => rank[w] < rank[l.nxt[w]]
      BY DEF Linked
    <3>2. rank[w] \in Nat
      OBVIOUS
    <3>3. QED
      BY <3>1, <3>2
  <2>2. QED
    BY <1>1, <2>1
<1>3. m.nxt = [l.nxt EXCEPT ![p] = q, ![w] = NULL] /\ m.prv = [l.prv EXCEPT ![q] = p, ![w] = NULL]
  BY DEF list_del
<1> HIDE DEF m, p, q
<1>4. L \subseteq Nodes /\ p \in Nodes /\ q \in Nodes /\ w \in Nodes
  BY <1>1 DEF Nodes
<1>5. m.nxt \in [Nodes -> Nodes \cup {NULL}] /\ m.prv \in [Nodes -> Nodes \cup {NULL}]
  BY <1>3, <1>4 DEF Linked
<1>6. /\ m.nxt[p] = q /\ \A x \in L \ {p, w} : m.nxt[x] = l.nxt[x]
      /\ m.prv[q] = p /\ \A x \in L \ {q, w} : m.prv[x] = l.prv[x]
  BY <1>1, <1>2, <1>3, <1>4 DEF Linked
<1>7. ASSUME NEW x \in L \ {w}
      PROVE  /\ m.nxt[x] \in L \ {w} /\ m.prv[x] \in L \ {w}
             /\ m.prv[m.nxt[x]] = x /\ m.nxt[m.prv[x]] = x
             /\ HeadOf(side, m.nxt[x]) = HeadOf(side, x)
  <2>1. m.nxt[x] \in L \ {w} /\ m.prv[m.nxt[x]] = x /\ HeadOf(side, m.nxt[x]) = HeadOf(side, x)
    <3>1. CASE x = p
      BY <1>1, <1>2, <1>6, <3>1
    <3>2. CASE x # p
      <4>1. l.nxt[x] \in L /\ l.prv[l.nxt[x]] = x /\ HeadOf(side, l.nxt[x]) = HeadOf(side, x)
        BY DEF Linked
      <4>2. l.nxt[x] # w /\ l.nxt[x] # q
        BY <1>1, <3>2, <4>1 DEF p
      <4>3. QED
        BY <1>6, <3>2, <4>1, <4>2
    <3>3. QED
      BY <3>1, <3>2
  <2>2. m.prv[x] \in L \ {w} /\ m.nxt[m.prv[x]] = x
    <3>1. CASE x = q
      BY <1>1, <1>2, <1>6, <3>1
    <3>2. CASE x # q
      <4>1. l.prv[x] \in L /\ l.nxt[l.prv[x]] = x
        BY DEF Linked
      <4>2. l.prv[x] # w /\ l.prv[x] # p
        BY <1>1, <3>2, <4>1 DEF q
      <4>3. QED
        BY <1>6, <3>2, <4>1, <4>2
    <3>3. QED
      BY <3>1, <3>2
  <2>3. QED
    BY <2>1, <2>2
<1>8. ASSUME NEW x \in A \ {w}, m.nxt[x] \in A \ {w} PROVE rank[x] < rank[m.nxt[x]]
  <2>1. CASE x = p
    <3>1. rank[p] < rank[w] /\ rank[w] < rank[q]
      BY <1>1, <1>6, <1>8, <2>1 DEF Linked, q
    <3>2. p \in Workers /\ q \in Workers /\ w \in Workers
      BY <1>6, <1>8, <2>1
    <3>3. rank[p] < rank[q]
      BY <3>1, <3>2
    <3>4. QED
      BY <1>6, <2>1, <3>3
  <2>2. CASE x # p
    BY <1>6, <1>8, <2>2 DEF Linked
  <2>3. QED
    BY <2>1, <2>2
<1>9. Linked(m, A \ {w}, side, rank)
  <2>1. L \ {w} = (A \ {w}) \cup Heads
    BY <1>1
  <2>2. QED
    BY <1>5, <1>7, <1>8, <2>1 DEF Linked
<1>10. QED
  BY <1>9 DEF m

\* What is not linked matters neither to the side nor to the rank.
LEMMA LinkedAgrees ==
  ASSUME NEW l, NEW A \in SUBSET Workers, NEW side, NEW rank, Linked(l, A, side, rank),
         NEW s, NEW r, \A x \in A : s[x] = side[x] /\ r[x] = rank[x]
  PROVE  Linked(l, A, s, r)
<1>1. \A x \in A \cup Heads : HeadOf(s, x) = HeadOf(side, x)
  BY WorkersAssumption DEF HeadOf
<1>2. \A x \in A \cup Heads : l.nxt[x] \in A \cup Heads
  BY DEF Linked
<1>3. \A x \in A \cup Heads : HeadOf(s, l.nxt[x]) = HeadOf(s, x)
  BY <1>1, <1>2 DEF Linked
<1>4. \A x \in A : l.nxt[x] \in A => r[x] < r[l.nxt[x]]
  BY DEF Linked
<1>5. QED
  BY <1>3, <1>4 DEF Linked

\* A worker that is cancelled moves to the tail of the other list.
LEMMA MoveLinks ==
  ASSUME NEW l, NEW A \in SUBSET Workers, NEW side \in [Workers -> Heads],
         NEW rank \in [Workers -> Nat], Linked(l, A, side, rank), NEW w \in A,
         NEW top \in Nat, \A x \in A : rank[x] < top
  PROVE  Linked(move_to_removed(l, w), A, [side EXCEPT ![w] = "removed_worker_hdr"],
                [rank EXCEPT ![w] = top])
<1> DEFINE s == [side EXCEPT ![w] = "removed_worker_hdr"]
           r == [rank EXCEPT ![w] = top]
           k == list_del(l, w)
<1>1. s \in [Workers -> Heads] /\ r \in [Workers -> Nat] /\ s[w] = "removed_worker_hdr" /\ r[w] = top
  BY DEF Heads
<1>2. \A x \in A \ {w} : s[x] = side[x] /\ r[x] = rank[x]
  OBVIOUS
<1> HIDE DEF s, r, k
<1>3. Linked(k, A \ {w}, side, rank)
  BY DelUnlinks DEF k
<1>4. Linked(k, A \ {w}, s, r)
  BY <1>2, <1>3, LinkedAgrees
<1>5. \A x \in A \ {w} : r[x] < r[w]
  BY <1>1, <1>2
<1>6. Linked(list_add_tail(k, w, s[w]), (A \ {w}) \cup {w}, s, r)
  BY <1>1, <1>4, <1>5, AddTailLinks
<1>7. (A \ {w}) \cup {w} = A
  OBVIOUS
<1>8. QED
  BY <1>1, <1>6, <1>7 DEF move_to_removed, k, s, r

\* The pointers of the looper are set to l.
LEMMA SetLinks ==
  ASSUME NEW l, SetLists(l), NEW A, NEW side, NEW rank, Linked(l, A, side, rank)
  PROVE  Linked(Lists', A, side, rank)
<1>1. Lists'.nxt = l.nxt /\ Lists'.prv = l.prv
  BY DEF Lists, SetLists
<1>2. QED
  BY <1>1 DEF Linked

-----------------------------------------------------------------------------
(* Reachability *)

LEMMA LeastNatural ==
  ASSUME NEW S \in SUBSET Nat, S # {}
  PROVE  \E m \in S : \A y \in S : m <= y
<1>1. PICK m \in S : \A y \in S : ~ (<<y, m>> \in OpToRel(<, Nat))
  BY WFMin, NatLessThanWellFounded
<1> DEFINE R == {ss \in Nat \X Nat : ss[1] < ss[2]}
<1>2. OpToRel(<, Nat) = R
  BY DEF OpToRel
<1>3. ASSUME NEW y \in S PROVE m <= y
  <2>1. y \in Nat /\ m \in Nat /\ <<y, m>> \notin R
    BY <1>1, <1>2
  <2>2. y < m => <<y, m>> \in R
    BY <2>1
  <2>3. QED
    BY <2>1, <2>2
<1>4. QED
  BY <1>3

\* What is reached from a head is the workers of its side, and itself.
LEMMA Reached ==
  ASSUME NEW rank \in [Workers -> Nat], allocated \subseteq Workers,
         Linked(Lists, allocated, Side, rank), NEW h \in Heads
  PROVE  OnList(h) = {x \in allocated \cup Heads : HeadOf(Side, x) = h}
<1> USE WorkersAssumption
<1> DEFINE L == {x \in allocated \cup Heads : HeadOf(Side, x) = h}
<1>1. /\ Lists.nxt = nxt /\ Lists.prv = prv
  BY DEF Lists
<1>2. \A x \in allocated \cup Heads :
        /\ nxt[x] \in allocated \cup Heads /\ prv[x] \in allocated \cup Heads
        /\ prv[nxt[x]] = x /\ nxt[prv[x]] = x
        /\ HeadOf(Side, nxt[x]) = HeadOf(Side, x)
  BY <1>1 DEF Linked
<1>3. L \in SUBSET Nodes /\ h \in L /\ \A y \in L : nxt[y] \in L \cup {NULL}
  BY <1>2 DEF Nodes, HeadOf
<1>4. OnList(h) \subseteq L
  BY <1>3 DEF OnList
<1>5. ASSUME NEW S \in SUBSET Nodes, h \in S, \A y \in S : nxt[y] \in S \cup {NULL},
             NEW x \in L, x \notin S
      PROVE  FALSE
  <2> DEFINE B == {rank[y] : y \in L \ S}
  <2>1. \A y \in L \ S : y \in allocated
    BY <1>5 DEF HeadOf
  <2>2. B \in SUBSET Nat /\ B # {}
    BY <1>5, <2>1
  <2>3. PICK m \in B : \A b \in B : m <= b
    <3> HIDE DEF B
    <3>1. QED
      BY <2>2, LeastNatural
  <2>4. PICK y \in L \ S : m = rank[y]
    BY <2>3
  <2>5. y \in allocated /\ prv[y] \in L /\ nxt[prv[y]] = y /\ y # NULL
    BY <1>2, <2>1, <2>4 DEF Nodes
  <2>6. prv[y] \notin S
    BY <1>5, <2>4, <2>5
  <2>7. rank[prv[y]] < rank[y] /\ prv[y] \in allocated
    BY <1>1, <2>1, <2>5, <2>6 DEF Linked
  <2>8. rank[prv[y]] \in B /\ rank[prv[y]] \in Nat /\ rank[y] \in Nat
    BY <2>5, <2>6, <2>7
  <2> HIDE DEF B
  <2>9. m <= rank[prv[y]]
    BY <2>3, <2>8
  <2>10. QED
    BY <2>4, <2>7, <2>8, <2>9
<1>6. L \subseteq OnList(h)
  BY <1>3, <1>5 DEF OnList
<1>7. QED
  BY <1>4, <1>6

-----------------------------------------------------------------------------
(* The steps *)

LEMMA InitInv == Init => IInv
<1> SUFFICES ASSUME Init PROVE IInv
  OBVIOUS
<1> USE WorkersAssumption
<1>1. TypeOK
  BY DEF Init, TypeOK, Nodes, Heads
<1>2. Owned /\ Walk
  BY DEF Init, Owned, Walk
<1> DEFINE rank == [w \in Workers |-> 0]
<1>3. Linked(Lists, {}, Side, rank)
  <2>1. \A x \in Heads : nxt[x] = x /\ prv[x] = x
    BY DEF Init, Nodes
  <2>2. \A x \in Heads : Lists.nxt[x] = x /\ Lists.prv[x] = x
    BY <2>1 DEF Lists
  <2>3. Lists.nxt \in [Nodes -> Nodes \cup {NULL}] /\ Lists.prv \in [Nodes -> Nodes \cup {NULL}]
    BY <1>1 DEF TypeOK, Lists
  <2>4. QED
    BY <2>2, <2>3 DEF Linked
<1>4. Ranked(rank, 0)
  <2> HIDE DEF rank
  <2>1. QED
    BY <1>3 DEF Init, Ranked
<1>5. rank \in [Workers -> Nat] /\ 0 \in Nat
  OBVIOUS
<1>6. QED
  BY <1>1, <1>2, <1>4, <1>5 DEF IInv

\* Ranks stay in their set, and the pointers are the ones that link.
LEMMA SideType ==
  ASSUME TypeOK
  PROVE  /\ Side \in [Workers -> Heads]
         /\ \A w \in Workers : Side[w] = IF worker_do[w] = NULL THEN "removed_worker_hdr"
                                                              ELSE "worker_hdr"
         /\ Lists.nxt = nxt /\ Lists.prv = prv /\ allocated \subseteq Workers
BY DEF Side, Heads, Lists, TypeOK

LEMMA ConnectionSendInv ==
  ASSUME IInv, NEW c \in Conns, ConnectionSend(c)
  PROVE  IInv'
<1> USE WorkersAssumption DEF IInv
<1>1. PICK w1 \in Workers \ allocated, w2 \in Workers \ allocated :
        /\ w1 # w2
        /\ SetLists(list_add_tail(list_add_tail(Lists, w1, "worker_hdr"), w2, "worker_hdr"))
        /\ allocated' = allocated \cup {w1, w2}
        /\ worker_do' = [worker_do EXCEPT ![w1] = "stat", ![w2] = "send"]
        /\ userdata' = [userdata EXCEPT ![w1] = c, ![w2] = c]
        /\ stat_wk_handle' = [stat_wk_handle EXCEPT ![c] = w1]
        /\ send_wk_handle' = [send_wk_handle EXCEPT ![c] = w2]
  BY DEF ConnectionSend
<1>2. /\ pc = "events" /\ conn[c] = "down" /\ conn' = [conn EXCEPT ![c] = "up"]
      /\ pc' = pc /\ pos' = pos /\ n' = n
  BY DEF ConnectionSend
<1>3. PICK rank \in [Workers -> Nat], top \in Nat : Ranked(rank, top)
  OBVIOUS
<1> DEFINE r == [rank EXCEPT ![w1] = top, ![w2] = top + 1]
           side == [w \in Workers |-> IF worker_do'[w] = NULL THEN "removed_worker_hdr" ELSE "worker_hdr"]
           l == list_add_tail(Lists, w1, "worker_hdr")
           m == list_add_tail(l, w2, "worker_hdr")
<1>4. /\ worker_do' \in [Workers -> {"stat", "send", NULL}]
      /\ worker_do'[w1] = "stat" /\ worker_do'[w2] = "send"
      /\ \A w \in Workers \ {w1, w2} : worker_do'[w] = worker_do[w]
      /\ userdata' \in [Workers -> Conns \cup {NULL}]
      /\ userdata'[w1] = c /\ userdata'[w2] = c
      /\ \A w \in Workers \ {w1, w2} : userdata'[w] = userdata[w]
  BY <1>1 DEF TypeOK
<1>5. /\ conn' \in [Conns -> {"down", "up", "freed"}]
      /\ stat_wk_handle' \in [Conns -> Workers \cup {NULL}]
      /\ send_wk_handle' \in [Conns -> Workers \cup {NULL}]
      /\ conn'[c] = "up" /\ stat_wk_handle'[c] = w1 /\ send_wk_handle'[c] = w2
      /\ \A d \in Conns \ {c} : /\ conn'[d] = conn[d]
                                 /\ stat_wk_handle'[d] = stat_wk_handle[d]
                                 /\ send_wk_handle'[d] = send_wk_handle[d]
  BY <1>1, <1>2 DEF TypeOK
<1>6. /\ r \in [Workers -> Nat] /\ r[w1] = top /\ r[w2] = top + 1
      /\ \A w \in allocated : r[w] = rank[w] /\ rank[w] < top /\ rank[w] \in Nat
  <2>1. \A w \in allocated : w # w1 /\ w # w2 /\ w \in Workers
    BY SideType
  <2>2. QED
    BY <1>1, <1>3, <2>1 DEF Ranked
<1>7. /\ side \in [Workers -> Heads] /\ side[w1] = "worker_hdr" /\ side[w2] = "worker_hdr"
      /\ \A w \in allocated : side[w] = Side[w]
  BY <1>1, <1>4, SideType DEF Heads
<1> HIDE DEF r, side
<1>8. Linked(m, (allocated \cup {w1}) \cup {w2}, side, r)
  <2>1. Linked(Lists, allocated, side, r)
    BY <1>3, <1>6, <1>7, SideType, LinkedAgrees DEF Ranked
  <2>2. Linked(list_add_tail(Lists, w1, side[w1]), allocated \cup {w1}, side, r)
    <3>1. \A x \in allocated : r[x] < r[w1]
      BY <1>6
    <3>2. QED
      BY <1>6, <1>7, <2>1, <3>1, SideType, AddTailLinks
  <2>3. Linked(l, allocated \cup {w1}, side, r)
    BY <1>7, <2>2
  <2> HIDE DEF l
  <2>4. Linked(list_add_tail(l, w2, side[w2]), (allocated \cup {w1}) \cup {w2}, side, r)
    <3>1. \A x \in allocated \cup {w1} : r[x] < r[w2]
      BY <1>6
    <3>2. w2 \in Workers \ (allocated \cup {w1}) /\ allocated \cup {w1} \in SUBSET Workers
      BY <1>1, SideType
    <3>3. QED
      BY <1>6, <1>7, <2>3, <3>1, <3>2, AddTailLinks
  <2>5. QED
    BY <1>7, <2>4
<1>9. Linked(Lists', allocated', Side', r)
  <2>1. allocated' = (allocated \cup {w1}) \cup {w2}
    BY <1>1
  <2>2. Side' = side
    BY DEF Side, side
  <2> HIDE DEF m
  <2>3. SetLists(m)
    BY <1>1 DEF m
  <2>4. QED
    BY <1>8, <2>1, <2>2, <2>3, SetLinks
<1>10. TypeOK'
  <2>1. nxt' \in [Nodes -> Nodes \cup {NULL}] /\ prv' \in [Nodes -> Nodes \cup {NULL}]
    BY <1>9 DEF Linked, Lists
  <2>2. QED
    BY <1>1, <1>2, <1>4, <1>5, <2>1 DEF TypeOK
<1>11. Owned'
  <2>1. ASSUME NEW d \in Conns, conn'[d] = "up"
        PROVE  /\ {stat_wk_handle'[d], send_wk_handle'[d]} \subseteq allocated'
               /\ worker_do'[stat_wk_handle'[d]] = "stat" /\ worker_do'[send_wk_handle'[d]] = "send"
               /\ userdata'[stat_wk_handle'[d]] = d /\ userdata'[send_wk_handle'[d]] = d
    <3>1. CASE d = c
      BY <1>1, <1>4, <1>5, <3>1
    <3>2. CASE d # c
      BY <1>1, <1>4, <1>5, <2>1, <3>2, SideType DEF Owned
    <3>3. QED
      BY <3>1, <3>2
  <2>2. ASSUME NEW w \in allocated', worker_do'[w] # NULL
        PROVE  /\ userdata'[w] \in Conns /\ conn'[userdata'[w]] = "up"
               /\ w \in {stat_wk_handle'[userdata'[w]], send_wk_handle'[userdata'[w]]}
    <3>1. CASE w \in {w1, w2}
      BY <1>4, <1>5, <3>1
    <3>2. CASE w \in allocated /\ w \notin {w1, w2}
      <4>1. /\ userdata'[w] = userdata[w] /\ userdata[w] \in Conns /\ conn[userdata[w]] = "up"
            /\ w \in {stat_wk_handle[userdata[w]], send_wk_handle[userdata[w]]}
        BY <1>4, <2>2, <3>2, SideType DEF Owned
      <4>2. userdata[w] # c
        BY <1>2, <4>1
      <4>3. QED
        BY <1>5, <4>1, <4>2
    <3>3. QED
      BY <1>1, <2>2, <3>1, <3>2
  <2>3. QED
    BY <2>1, <2>2 DEF Owned
<1>12. Ranked(r, top + 2)'
  <2>1. \A w \in allocated' : r[w] < top + 2
    BY <1>1, <1>6
  <2>2. ASSUME NEW d \in Conns, conn'[d] = "up"
        PROVE  r[stat_wk_handle'[d]] < r[send_wk_handle'[d]]
    <3>1. CASE d = c
      BY <1>5, <1>6, <3>1
    <3>2. CASE d # c
      <4>1. conn[d] = "up" /\ {stat_wk_handle[d], send_wk_handle[d]} \subseteq allocated
        BY <1>5, <2>2, <3>2 DEF Owned
      <4>2. rank[stat_wk_handle[d]] < rank[send_wk_handle[d]]
        BY <1>3, <4>1 DEF Ranked
      <4>3. QED
        BY <1>5, <1>6, <3>2, <4>1, <4>2
    <3>3. QED
      BY <3>1, <3>2
  <2>3. QED
    BY <1>9, <2>1, <2>2 DEF Ranked
<1>13. Walk'
  BY <1>2 DEF Walk
<1>14. QED
  <2>1. top + 2 \in Nat
    OBVIOUS
  <2>2. QED
    BY <1>6, <1>10, <1>11, <1>12, <1>13, <2>1

\* Closing a connection moves its two workers, and nobody else's.
LEMMA CancelWorkersStep ==
  ASSUME IInv, NEW c \in Conns, conn[c] = "up", CancelWorkers(c),
         pc' \in {"dispatch", "events", "delete"}
  PROVE  /\ pos' \in Nodes /\ n' \in Nodes => TypeOK'
         /\ Owned' /\ \E rank \in [Workers -> Nat], top \in Nat : Ranked(rank, top)'
         /\ \A x \in allocated \ {stat_wk_handle[c], send_wk_handle[c]} : Side'[x] = Side[x]
<1> USE WorkersAssumption DEF IInv
<1> DEFINE w1 == stat_wk_handle[c]
           w2 == send_wk_handle[c]
<1>1. /\ SetLists(move_to_removed(move_to_removed(Lists, w1), w2))
      /\ worker_do' = [worker_do EXCEPT ![w1] = NULL, ![w2] = NULL]
      /\ userdata' = [userdata EXCEPT ![w1] = NULL, ![w2] = NULL]
      /\ conn' = [conn EXCEPT ![c] = "freed"]
      /\ UNCHANGED <<allocated, stat_wk_handle, send_wk_handle>>
  BY DEF CancelWorkers
<1>2. /\ w1 \in allocated /\ w2 \in allocated /\ w1 # w2 /\ userdata[w1] = c /\ userdata[w2] = c
      /\ allocated \subseteq Workers
  BY SideType DEF Owned
<1> HIDE DEF w1, w2
<1>3. PICK rank \in [Workers -> Nat], top \in Nat : Ranked(rank, top)
  OBVIOUS
<1>4. /\ worker_do' \in [Workers -> {"stat", "send", NULL}]
      /\ worker_do'[w1] = NULL /\ worker_do'[w2] = NULL
      /\ \A w \in Workers \ {w1, w2} : worker_do'[w] = worker_do[w]
      /\ userdata' \in [Workers -> Conns \cup {NULL}]
      /\ \A w \in Workers \ {w1, w2} : userdata'[w] = userdata[w]
  BY <1>1, <1>2 DEF TypeOK
<1>5. /\ conn' \in [Conns -> {"down", "up", "freed"}] /\ conn'[c] = "freed"
      /\ \A d \in Conns \ {c} : conn'[d] = conn[d]
  BY <1>1 DEF TypeOK
<1> DEFINE r1 == [rank EXCEPT ![w1] = top]
           s1 == [Side EXCEPT ![w1] = "removed_worker_hdr"]
           r2 == [r1 EXCEPT ![w2] = top + 1]
           s2 == [s1 EXCEPT ![w2] = "removed_worker_hdr"]
           l == move_to_removed(Lists, w1)
           m == move_to_removed(l, w2)
<1>6. /\ r1 \in [Workers -> Nat] /\ r1[w1] = top /\ \A w \in Workers \ {w1} : r1[w] = rank[w]
      /\ s1 \in [Workers -> Heads] /\ s1[w1] = "removed_worker_hdr"
      /\ \A w \in Workers \ {w1} : s1[w] = Side[w]
  BY <1>2, SideType DEF Heads
<1>7. /\ r2 \in [Workers -> Nat] /\ r2[w2] = top + 1 /\ \A w \in Workers \ {w2} : r2[w] = r1[w]
      /\ s2 \in [Workers -> Heads] /\ s2[w2] = "removed_worker_hdr"
      /\ \A w \in Workers \ {w2} : s2[w] = s1[w]
  <2> HIDE DEF r1, s1
  <2>1. QED
    BY <1>2, <1>6 DEF Heads
<1>8. \A x \in allocated : rank[x] < top /\ rank[x] \in Nat
  BY <1>2, <1>3 DEF Ranked
<1>9. Linked(m, allocated, s2, r2)
  <2>1. Linked(l, allocated, s1, r1)
    BY <1>2, <1>3, <1>8, SideType, MoveLinks DEF Ranked
  <2> HIDE DEF l, r1, s1
  <2>2. \A x \in allocated : r1[x] < top + 1
    BY <1>2, <1>6, <1>8
  <2>3. top + 1 \in Nat
    OBVIOUS
  <2>4. QED
    BY <1>2, <1>6, <2>1, <2>2, <2>3, MoveLinks
<1> HIDE DEF r1, s1, r2, s2, m
<1>10. Side' = s2
  <2>1. Side' = [w \in Workers |-> IF worker_do'[w] = NULL THEN "removed_worker_hdr" ELSE "worker_hdr"]
    BY DEF Side
  <2>2. \A w \in Workers : s2[w] = IF worker_do'[w] = NULL THEN "removed_worker_hdr" ELSE "worker_hdr"
    BY <1>2, <1>4, <1>6, <1>7, SideType
  <2>3. QED
    BY <1>7, <2>1, <2>2
<1>11. Linked(Lists', allocated', Side', r2)
  <2>1. SetLists(m)
    BY <1>1 DEF m
  <2>2. QED
    BY <1>1, <1>9, <1>10, <2>1, SetLinks
<1>12. pos' \in Nodes /\ n' \in Nodes => TypeOK'
  <2>1. nxt' \in [Nodes -> Nodes \cup {NULL}] /\ prv' \in [Nodes -> Nodes \cup {NULL}]
    BY <1>11 DEF Linked, Lists
  <2>2. QED
    BY <1>1, <1>4, <1>5, <2>1 DEF TypeOK
<1>13. Owned'
  <2>1. ASSUME NEW d \in Conns, conn'[d] = "up"
        PROVE  /\ {stat_wk_handle'[d], send_wk_handle'[d]} \subseteq allocated'
               /\ worker_do'[stat_wk_handle'[d]] = "stat" /\ worker_do'[send_wk_handle'[d]] = "send"
               /\ userdata'[stat_wk_handle'[d]] = d /\ userdata'[send_wk_handle'[d]] = d
    <3>1. d # c /\ conn[d] = "up"
      BY <1>5, <2>1
    <3>2. /\ {stat_wk_handle[d], send_wk_handle[d]} \subseteq allocated
          /\ worker_do[stat_wk_handle[d]] = "stat" /\ worker_do[send_wk_handle[d]] = "send"
          /\ userdata[stat_wk_handle[d]] = d /\ userdata[send_wk_handle[d]] = d
      BY <3>1 DEF Owned
    <3>3. {stat_wk_handle[d], send_wk_handle[d]} \cap {w1, w2} = {}
      BY <1>2, <3>1, <3>2
    <3>4. QED
      BY <1>1, <1>2, <1>4, <3>2, <3>3
  <2>2. ASSUME NEW w \in allocated', worker_do'[w] # NULL
        PROVE  /\ userdata'[w] \in Conns /\ conn'[userdata'[w]] = "up"
               /\ w \in {stat_wk_handle'[userdata'[w]], send_wk_handle'[userdata'[w]]}
    <3>1. w \in allocated /\ w \notin {w1, w2}
      BY <1>1, <1>4, <2>2
    <3>2. /\ userdata'[w] = userdata[w] /\ userdata[w] \in Conns /\ conn[userdata[w]] = "up"
          /\ w \in {stat_wk_handle[userdata[w]], send_wk_handle[userdata[w]]}
      BY <1>2, <1>4, <2>2, <3>1 DEF Owned
    <3>3. userdata[w] # c
      BY <3>1, <3>2 DEF w1, w2
    <3>4. QED
      BY <1>1, <1>5, <3>2, <3>3
  <2>3. QED
    BY <2>1, <2>2 DEF Owned
<1>14. PICK r \in [Workers -> Nat] : r = r2
  BY <1>7
<1>15. Ranked(r, top + 2)'
  <2>1. \A w \in allocated' : r2[w] < top + 2
    BY <1>1, <1>2, <1>6, <1>7, <1>8
  <2>2. ASSUME NEW d \in Conns, conn'[d] = "up"
        PROVE  r2[stat_wk_handle'[d]] < r2[send_wk_handle'[d]]
    <3>1. d # c /\ conn[d] = "up"
      BY <1>5, <2>2
    <3>2. /\ {stat_wk_handle[d], send_wk_handle[d]} \subseteq allocated
          /\ userdata[stat_wk_handle[d]] = d /\ userdata[send_wk_handle[d]] = d
      BY <3>1 DEF Owned
    <3>3. rank[stat_wk_handle[d]] < rank[send_wk_handle[d]]
      BY <1>3, <3>1 DEF Ranked
    <3>4. QED
      BY <1>1, <1>2, <1>6, <1>7, <3>1, <3>2, <3>3
  <2>3. QED
    BY <1>11, <1>14, <2>1, <2>2 DEF Ranked
<1>16. \A x \in allocated \ {w1, w2} : Side'[x] = Side[x]
  BY <1>2, <1>6, <1>7, <1>10
<1>17. QED
  <2>1. top + 2 \in Nat
    OBVIOUS
  <2>2. QED
    BY <1>12, <1>13, <1>15, <1>16, <2>1 DEF w1, w2

LEMMA CloseInBatchInv ==
  ASSUME IInv, NEW c \in Conns, CloseInBatch(c)
  PROVE  IInv'
<1>1. /\ conn[c] = "up" /\ CancelWorkers(c) /\ pc = "events" /\ pc' = pc /\ pos' = pos /\ n' = n
  BY DEF CloseInBatch
<1>2. pos' \in Nodes /\ n' \in Nodes
  BY <1>1 DEF IInv, TypeOK
<1>3. Walk'
  BY <1>1 DEF Walk
<1>4. QED
  BY <1>1, <1>2, <1>3, CancelWorkersStep DEF IInv

\* The node after a linked one is linked, on the same list.
LEMMA NextOnList ==
  ASSUME IInv, NEW x \in allocated \cup Heads
  PROVE  /\ nxt[x] \in allocated \cup Heads /\ HeadOf(Side, nxt[x]) = HeadOf(Side, x)
         /\ nxt[x] \in Nodes
<1>1. PICK rank \in [Workers -> Nat], top \in Nat : Ranked(rank, top)
  BY DEF IInv
<1>2. nxt[x] \in allocated \cup Heads /\ HeadOf(Side, nxt[x]) = HeadOf(Side, x)
  BY <1>1, SideType DEF IInv, Ranked, Linked
<1>3. QED
  BY <1>2, SideType DEF IInv, Nodes

\* A step that leaves the lists and their workers alone.
LEMMA MovesOn ==
  ASSUME IInv, UNCHANGED <<listVars, workerVars, connVars>>,
         pc' \in {"dispatch", "events", "delete"}, pos' \in Nodes, n' \in Nodes,
         pc' = "dispatch" => /\ pos' \in allocated \cup Heads
                             /\ HeadOf(Side, pos') = "worker_hdr" /\ n' = nxt[pos'],
         pc' = "delete" => /\ pos' \in allocated \cup Heads
                           /\ HeadOf(Side, pos') = "removed_worker_hdr" /\ n' = nxt[pos']
  PROVE  IInv'
<1>1. /\ nxt' = nxt /\ prv' = prv /\ allocated' = allocated /\ worker_do' = worker_do
      /\ userdata' = userdata /\ conn' = conn /\ stat_wk_handle' = stat_wk_handle
      /\ send_wk_handle' = send_wk_handle
  BY DEF listVars, workerVars, connVars
<1>2. TypeOK' /\ Owned'
  BY <1>1 DEF IInv, TypeOK, Owned
<1>3. Side' = Side /\ Lists' = Lists
  BY <1>1 DEF Side, Lists
<1>4. PICK rank \in [Workers -> Nat], top \in Nat : Ranked(rank, top)
  BY DEF IInv
<1>5. Ranked(rank, top)'
  BY <1>1, <1>3, <1>4 DEF Ranked
<1>6. Walk'
  BY <1>1, <1>3 DEF Walk, WalkOn
<1>7. QED
  BY <1>2, <1>5, <1>6 DEF IInv

\* The end of a batch, or of a walk.
LEMMA WalksInv ==
  ASSUME IInv, BatchDone \/ DispatchDone \/ DeleteDone
  PROVE  IInv'
<1> DEFINE Starts(h) == /\ pos' = nxt[h] /\ n' = nxt[pos']
<1>1. \A h \in Heads : h \in allocated \cup Heads /\ HeadOf(Side, h) = h
  BY DEF HeadOf
<1>2. ASSUME NEW h \in Heads, Starts(h)
      PROVE  /\ pos' \in allocated \cup Heads /\ HeadOf(Side, pos') = h /\ n' = nxt[pos']
             /\ pos' \in Nodes /\ n' \in Nodes
  <2>1. nxt[h] \in allocated \cup Heads /\ HeadOf(Side, nxt[h]) = h /\ nxt[h] \in Nodes
    BY <1>1, NextOnList
  <2>2. nxt[nxt[h]] \in Nodes
    BY <2>1, NextOnList
  <2>3. QED
    BY <1>2, <2>1, <2>2
<1>3. UNCHANGED <<listVars, workerVars, connVars>>
  BY DEF BatchDone, DispatchDone, DeleteDone
<1>4. CASE BatchDone
  <2>1. \/ pc' = "delete" /\ Starts("removed_worker_hdr")
        \/ pc' = "dispatch" /\ Starts("worker_hdr")
    BY <1>4 DEF BatchDone
  <2> HIDE DEF Starts
  <2>2. QED
    BY <1>2, <1>3, <2>1, MovesOn DEF Heads
<1>5. CASE DispatchDone
  <2>1. pc' = "events" /\ pos' = pos /\ n' = n
    BY <1>5 DEF DispatchDone
  <2>2. pos' \in Nodes /\ n' \in Nodes
    BY <2>1 DEF IInv, TypeOK
  <2>3. QED
    BY <1>3, <2>1, <2>2, MovesOn
<1>6. CASE DeleteDone
  <2>1. pc' = "dispatch" /\ Starts("worker_hdr")
    BY <1>6 DEF DeleteDone
  <2> HIDE DEF Starts
  <2>2. QED
    BY <1>2, <1>3, <2>1, MovesOn DEF Heads
<1>7. QED
  BY <1>4, <1>5, <1>6

\* The node that list_for_each_safe saved is not the worker it stands on.
LEMMA SavedIsAhead ==
  ASSUME IInv, NEW rank \in [Workers -> Nat], NEW top \in Nat, Ranked(rank, top),
         NEW x \in allocated, nxt[x] \in allocated
  PROVE  rank[x] < rank[nxt[x]] /\ rank[x] \in Nat /\ rank[nxt[x]] \in Nat
BY SideType DEF IInv, Ranked, Linked

LEMMA DispatchWorkerInv ==
  ASSUME IInv, DispatchWorker
  PROVE  IInv'
<1> USE WorkersAssumption
<1>1. /\ pc = "dispatch" /\ pos \in Workers /\ worker_do[pos] # NULL /\ pc' = pc
      /\ pos' = n /\ n' = nxt'[n]
  BY DEF DispatchWorker, Advance
<1>2. pos \in allocated /\ n = nxt[pos] /\ HeadOf(Side, pos) = "worker_hdr"
  BY <1>1 DEF IInv, Walk, WalkOn
<1>3. n \in allocated \cup Heads /\ HeadOf(Side, n) = "worker_hdr" /\ n \in Nodes
  BY <1>2, NextOnList
<1>4. CASE UNCHANGED <<listVars, workerVars, connVars>>
  <2>1. n' = nxt[pos'] /\ n' \in Nodes
    BY <1>1, <1>3, <1>4, NextOnList DEF listVars
  <2>2. QED
    BY <1>1, <1>3, <1>4, <2>1, MovesOn
<1>5. CASE worker_do[pos] = "send" /\ CancelWorkers(userdata[pos])
  <2> DEFINE c == userdata[pos]
             w1 == stat_wk_handle[c]
             w2 == send_wk_handle[c]
  <2>1. c \in Conns /\ conn[c] = "up" /\ pos \in {w1, w2}
    BY <1>1, <1>2 DEF IInv, Owned
  <2> HIDE DEF c
  <2>2. w1 \in allocated /\ w2 \in allocated /\ worker_do[w1] = "stat"
    BY <2>1 DEF IInv, Owned
  <2>3. pos = w2
    BY <1>5, <2>1, <2>2
  <2>4. n \notin {w1, w2}
    <3>1. PICK rank \in [Workers -> Nat], top \in Nat : Ranked(rank, top)
      BY DEF IInv
    <3>2. rank[w1] < rank[w2] /\ rank[w1] \in Nat /\ rank[w2] \in Nat
      BY <2>1, <2>2, <3>1, SideType DEF Ranked, IInv
    <3>3. n \in allocated => rank[w2] < rank[n] /\ rank[n] \in Nat
      BY <1>2, <2>3, <3>1, SavedIsAhead
    <3> HIDE DEF w1, w2
    <3>4. QED
      BY <2>2, <3>2, <3>3
  <2>5. CancelWorkers(c)
    BY <1>5 DEF c
  <2>6. allocated' = allocated
    BY <2>5 DEF CancelWorkers
  <2>7. /\ pos' \in Nodes /\ n' \in Nodes => TypeOK'
        /\ Owned' /\ \E rank \in [Workers -> Nat], top \in Nat : Ranked(rank, top)'
        /\ \A x \in allocated \ {w1, w2} : Side'[x] = Side[x]
    BY <1>1, <2>1, <2>5, CancelWorkersStep DEF IInv, TypeOK
  <2>8. nxt'[n] \in Nodes
    <3>1. PICK rank \in [Workers -> Nat], top \in Nat : Ranked(rank, top)'
      BY <2>7
    <3>2. nxt'[n] \in allocated' \cup Heads
      BY <1>3, <2>6, <3>1 DEF Ranked, Linked, Lists
    <3>3. QED
      BY <2>6, <3>2, SideType DEF IInv, Nodes
  <2> HIDE DEF w1, w2
  <2>9. HeadOf(Side', n) = "worker_hdr"
    BY <1>3, <2>4, <2>7 DEF HeadOf
  <2>10. Walk'
    BY <1>1, <1>3, <2>6, <2>9 DEF Walk, WalkOn
  <2>11. QED
    BY <1>1, <1>3, <2>7, <2>8, <2>10 DEF IInv
<1>6. QED
  BY <1>4, <1>5 DEF DispatchWorker

LEMMA DeleteRemovedWorkerInv ==
  ASSUME IInv, DeleteRemovedWorker
  PROVE  IInv'
<1> USE WorkersAssumption
<1>1. /\ pc = "delete" /\ pos \in Workers /\ SetLists(list_del(Lists, pos))
      /\ allocated' = allocated \ {pos} /\ pos' = n /\ n' = nxt'[n]
      /\ UNCHANGED <<pc, worker_do, userdata, connVars>>
  BY DEF DeleteRemovedWorker, Advance
<1>2. /\ pos \in allocated /\ n = nxt[pos] /\ HeadOf(Side, pos) = "removed_worker_hdr"
      /\ worker_do[pos] = NULL
  <2>1. pos \in allocated /\ n = nxt[pos] /\ HeadOf(Side, pos) = "removed_worker_hdr"
    BY <1>1 DEF IInv, Walk, WalkOn
  <2>2. QED
    BY <1>1, <2>1, SideType DEF IInv, HeadOf
<1>3. n \in allocated \cup Heads /\ HeadOf(Side, n) = "removed_worker_hdr" /\ n \in Nodes
  BY <1>2, NextOnList
<1>4. PICK rank \in [Workers -> Nat], top \in Nat : Ranked(rank, top)
  BY DEF IInv
<1>5. n # pos
  <2>1. n \in allocated => rank[pos] < rank[n] /\ rank[n] \in Nat
    BY <1>2, <1>4, SavedIsAhead
  <2>2. QED
    BY <1>2, <2>1
<1>6. Side' = Side /\ \A x \in Workers : worker_do'[x] = worker_do[x]
  BY <1>1 DEF Side
<1>7. Linked(Lists', allocated', Side', rank)
  <2>1. Linked(list_del(Lists, pos), allocated \ {pos}, Side, rank)
    BY <1>2, <1>4, SideType, DelUnlinks DEF IInv, Ranked
  <2>2. QED
    BY <1>1, <1>6, <2>1, SetLinks
<1>8. nxt'[n] \in allocated' \cup Heads
  BY <1>1, <1>3, <1>5, <1>7 DEF Linked, Lists
<1>9. TypeOK'
  <2>1. nxt' \in [Nodes -> Nodes \cup {NULL}] /\ prv' \in [Nodes -> Nodes \cup {NULL}]
    BY <1>7 DEF Linked, Lists
  <2>2. n' \in Nodes
    BY <1>1, <1>8, SideType DEF IInv, Nodes
  <2>3. QED
    BY <1>1, <1>3, <2>1, <2>2 DEF IInv, TypeOK, connVars
<1>10. Owned'
  BY <1>1, <1>2 DEF IInv, Owned, connVars
<1>11. Ranked(rank, top)'
  BY <1>1, <1>4, <1>7 DEF Ranked, connVars
<1>12. Walk'
  BY <1>1, <1>3, <1>5, <1>6 DEF Walk, WalkOn
<1>13. QED
  BY <1>9, <1>10, <1>11, <1>12 DEF IInv

LEMMA StutterInv ==
  ASSUME IInv, UNCHANGED vars
  PROVE  IInv'
<1>1. /\ UNCHANGED <<listVars, workerVars, connVars>> /\ pc' = pc /\ pos' = pos /\ n' = n
  BY DEF vars, listVars, workerVars, connVars
<1>2. QED
  BY <1>1, MovesOn DEF IInv, TypeOK, Walk, WalkOn

-----------------------------------------------------------------------------
(* The theorems *)

(* Ranks can be given to the workers at every moment of nwc_looper_loop: the pointers
   of list.h, the handles of the connections and the variables of list_for_each_safe
   stay as they have to be. *)
THEOREM Invariance == Spec => []IInv
<1>1. IInv /\ [Next]_vars => IInv'
  BY ConnectionSendInv, CloseInBatchInv, WalksInv, DispatchWorkerInv, DeleteRemovedWorkerInv,
     StutterInv DEF Next
<1>2. QED
  BY <1>1, InitInv, PTL DEF Spec

(* list_add_tail, list_del and nwc_looper_cancel_worker keep both lists circular and
   apart, and hold exactly the workers that are allocated: none leaks and none is freed
   while it is linked. *)
THEOREM ListsStayWellFormed == Spec => []ListsWellFormed
<1>1. ASSUME IInv PROVE ListsWellFormed
  <2>1. PICK rank \in [Workers -> Nat], top \in Nat : Ranked(rank, top)
    BY <1>1 DEF IInv
  <2>2. \A h \in Heads : OnList(h) = {x \in allocated \cup Heads : HeadOf(Side, x) = h}
    BY <1>1, <2>1, SideType, Reached DEF IInv, Ranked
  <2>3. OnList("worker_hdr") \cap OnList("removed_worker_hdr") = {}
    BY <2>2 DEF Heads
  <2>4. allocated = (OnList("worker_hdr") \cup OnList("removed_worker_hdr")) \ Heads
    <3>1. \A x \in allocated \cup Heads : HeadOf(Side, x) \in Heads
      BY <1>1, SideType DEF IInv, HeadOf
    <3>2. allocated \cap Heads = {}
      BY <1>1, SideType, WorkersAssumption DEF IInv
    <3>3. OnList("worker_hdr") \cup OnList("removed_worker_hdr") = allocated \cup Heads
      BY <2>2, <3>1 DEF Heads
    <3>4. QED
      BY <3>2, <3>3
  <2>5. \A x \in allocated \cup Heads : nxt[x] # NULL /\ prv[nxt[x]] = x
    <3>1. \A x \in allocated \cup Heads : nxt[x] \in allocated \cup Heads /\ prv[nxt[x]] = x
      BY <1>1, <2>1, SideType DEF IInv, Ranked, Linked
    <3>2. NULL \notin allocated \cup Heads
      BY <1>1, SideType, WorkersAssumption DEF IInv, Nodes
    <3>3. QED
      BY <3>1, <3>2
  <2>6. QED
    BY <1>1, <2>3, <2>4, <2>5 DEF ListsWellFormed, IInv
<1>2. QED
  BY <1>1, Invariance, PTL

(* nwc_looper_dispatch_worker and nwc_looper_delete_removed_worker stay on the list they
   walk, also where the callback of a send worker cancels the worker itself and its
   connection's stat worker: that one was added before it (nwc_connection_send), so that
   it is not the node list_for_each_safe has saved. *)
THEOREM WalksStay == Spec => []WalkStaysOnList
<1>1. ASSUME IInv PROVE WalkStaysOnList
  <2>1. PICK rank \in [Workers -> Nat], top \in Nat : Ranked(rank, top)
    BY <1>1 DEF IInv
  <2>2. \A h \in Heads : OnList(h) = {x \in allocated \cup Heads : HeadOf(Side, x) = h}
    BY <1>1, <2>1, SideType, Reached DEF IInv, Ranked
  <2>3. ASSUME NEW h \in Heads, WalkOn(h) PROVE {pos, n} \subseteq OnList(h)
    BY <1>1, <2>2, <2>3, NextOnList DEF WalkOn
  <2>4. QED
    BY <1>1, <2>3 DEF IInv, Walk, WalkStaysOnList, Heads
<1>2. QED
  BY <1>1, Invariance, PTL

(* What nwc_looper_dispatch_worker runs is the worker of a connection that is up: closing
   a connection cancels both its workers (nwc_connection_close) before it is freed. *)
THEOREM OnlyLiveConnectionsRun == Spec => []WorkerOfLiveConnection
<1>1. ASSUME IInv, NEW w \in OnList("worker_hdr") \ Heads
      PROVE  worker_do[w] # NULL /\ userdata[w] \in Conns /\ conn[userdata[w]] = "up"
  <2>1. PICK rank \in [Workers -> Nat], top \in Nat : Ranked(rank, top)
    BY <1>1 DEF IInv
  <2>2. w \in allocated /\ HeadOf(Side, w) = "worker_hdr"
    BY <1>1, <2>1, SideType, Reached DEF IInv, Ranked, Heads
  <2>3. worker_do[w] # NULL
    BY <1>1, <2>2, SideType DEF IInv, HeadOf
  <2>4. QED
    BY <1>1, <2>2, <2>3 DEF IInv, Owned
<1>2. IInv => WorkerOfLiveConnection
  BY <1>1 DEF WorkerOfLiveConnection
<1>3. QED
  BY <1>2, Invariance, PTL
=============================================================================
