----------------------------- MODULE NwcTcpStream -----------------------------
(***************************************************************************)
(* The data path of a TCP connection of 04-30_nwchecker_refactor: the      *)
(* client's send worker writes packages (nwc_connection_on_send), the      *)
(* server reassembles them out of what recv returns and acknowledges each  *)
(* (nwc_connection_on_recv), the client reassembles the acknowledgements.  *)
(*                                                                         *)
(* Bytes are counted in units: unit 0 of a package is its struct           *)
(* nwc_qos_hdr, the others its payload.  The kernel keeps, per direction,  *)
(* the units sent and not yet received, kernel_cap at most, a size the     *)
(* programs do not know.  The client's socket does not block: its send     *)
(* copies what fits, and fails with EAGAIN when nothing fits.  The server  *)
(* has its socket from accept, which makes a blocking one: its send        *)
(* returns when the kernel has taken the whole acknowledgement.            *)
(***************************************************************************)
EXTENDS Naturals, Sequences

CONSTANTS
  MaxPackages,  \* bound: packages the client creates
  Bandwidth,    \* qos.send_bandwidth, in units: what one run of the worker sends
  PkgLen,       \* units of a client package
  AckLen,       \* units of an acknowledgement
  RecvBuff,     \* RECV_BUFFER_LEN, in units
  KernelCaps    \* the sizes of the kernel's buffers, towards "server" and "client"

Sides == {"client", "server"}

ASSUME StreamAssumption ==
  /\ MaxPackages \in Nat /\ Bandwidth \in Nat \ {0}
  /\ PkgLen \in Nat \ {0} /\ AckLen \in Nat \ {0}
  /\ KernelCaps \subseteq [Sides -> Nat \ {0}]
  \* as with 1316-byte packages and a buffer of 4096 bytes
  /\ RecvBuff \in Nat /\ RecvBuff >= PkgLen /\ RecvBuff >= AckLen

VARIABLES
  kernel_cap, \* the size of the kernel's buffers, which never changes
  pc,         \* what a program is doing: "idle", "parse", the client "send", the
              \* server "ack", in send, or "wild", parsing outside of recv_buff
  can_send,   \* handler->can_send of the client; the server's is never cleared
  sent,       \* packages the client created
  sentbytes,  \* cur_sentbytes of the run of the send worker
  wire,       \* the units on their way to each side, those send still holds last
  buff,       \* recv_buff, its first rbytes units
  closed,     \* the sides that have closed their connection, or are dead
  handled,    \* history: the units each side processed, in order
  packages,   \* history: the packages they were taken for, as cut out of buff
  accepted,   \* history: the units that were sent to each side
  cut,        \* history: the sides towards which a send was cut short
  wild        \* history: the server's parser has left recv_buff

sendVars == <<can_send, wire, accepted, cut>>
historyVars == <<handled, packages>>
endVars == <<closed, wild>>
vars == <<kernel_cap, pc, sent, sentbytes, buff, sendVars, historyVars, endVars>>

Unit == [of : 1..MaxPackages, at : 0..(PkgLen + AckLen)]

\* The units of a package, or of the acknowledgement of package p.
Package(p, len) == [i \in 1..len |-> [of |-> p, at |-> i - 1]]

\* The length a side reads in the header of what it receives.
Length(side) == IF side = "server" THEN PkgLen ELSE AckLen

Waiting(side) == side = "client" /\ pc["server"] = "ack"

TypeOK ==
  /\ kernel_cap \in KernelCaps
  /\ pc["client"] \in {"idle", "send", "parse"}
  /\ pc["server"] \in {"idle", "parse", "ack", "wild"}
  /\ can_send \in BOOLEAN
  /\ sent \in 0..MaxPackages
  /\ sentbytes \in 0..(Bandwidth + PkgLen)
  /\ \A s \in Sides :
       /\ Len(wire[s]) <= kernel_cap[s] \/ Waiting(s)
       /\ Len(buff[s]) <= RecvBuff
       /\ \A i \in 1..Len(wire[s]) : wire[s][i] \in Unit
       /\ \A i \in 1..Len(buff[s]) : buff[s][i] \in Unit
  /\ closed \subseteq Sides
  /\ cut \subseteq {"server"}
  /\ wild \in BOOLEAN

Init ==
  /\ kernel_cap \in KernelCaps
  /\ pc = [s \in Sides |-> "idle"]
  /\ can_send = TRUE
  /\ sent = 0
  /\ sentbytes = 0
  /\ wire = [s \in Sides |-> <<>>]
  /\ buff = [s \in Sides |-> <<>>]
  /\ closed = {}
  /\ handled = [s \in Sides |-> <<>>]
  /\ packages = [s \in Sides |-> <<>>]
  /\ accepted = [s \in Sides |-> <<>>]
  /\ cut = {}
  /\ wild = FALSE

Room(to) == kernel_cap[to] - Len(wire[to])

Accept(to, units) ==
  /\ wire' = [wire EXCEPT ![to] = @ \o units]
  /\ accepted' = [accepted EXCEPT ![to] = @ \o units]

\* nwc_tcp_handler_send of the client, the three things it can do with a package:
\* the kernel takes it, or its first units, or nothing.
SendWhole(package) ==
  /\ Len(package) <= Room("server")
  /\ Accept("server", package)
  /\ UNCHANGED <<can_send, cut>>

SendPart(package) ==
  /\ Room("server") > 0 /\ Room("server") < Len(package)
  /\ Accept("server", SubSeq(package, 1, Room("server")))
  /\ cut' = cut \cup {"server"}
  /\ UNCHANGED can_send

SendEAGAIN ==
  /\ Room("server") = 0
  /\ can_send' = FALSE
  /\ UNCHANGED <<wire, accepted, cut>>

-----------------------------------------------------------------------------
(* The client's send worker: nwc_connection_on_send.                       *)

\* The worker runs every round of the loop, if the connection can send.
SendWorker ==
  /\ pc["client"] = "idle" /\ "client" \notin closed
  /\ can_send
  /\ sent < MaxPackages
  /\ pc' = [pc EXCEPT !["client"] = "send"]
  /\ sentbytes' = 0
  /\ UNCHANGED <<kernel_cap, sent, buff, sendVars, historyVars, endVars>>

\* One round of its loop: a new package is created, and what send returned is
\* counted, whether or not it is the whole package.  EAGAIN ends the run.
SendPackage ==
  LET package == Package(sent + 1, PkgLen)
  IN /\ pc["client"] = "send"
     /\ sentbytes < Bandwidth
     /\ sent < MaxPackages
     /\ sent' = sent + 1
     /\ \/ SendWhole(package) /\ sentbytes' = sentbytes + PkgLen /\ UNCHANGED pc
        \/ SendPart(package) /\ sentbytes' = sentbytes + Room("server") /\ UNCHANGED pc
        \/ /\ SendEAGAIN
           /\ pc' = [pc EXCEPT !["client"] = "idle"]
           /\ UNCHANGED sentbytes
     /\ UNCHANGED <<kernel_cap, buff, historyVars, endVars>>

SendDone ==
  /\ pc["client"] = "send"
  /\ sentbytes >= Bandwidth \/ sent = MaxPackages
  /\ pc' = [pc EXCEPT !["client"] = "idle"]
  /\ UNCHANGED <<kernel_cap, sent, sentbytes, buff, sendVars, historyVars, endVars>>

\* The other side is gone: recv returns 0 or fails, or send does, and the
\* connection is closed.
PeerGone ==
  /\ "server" \in closed /\ "client" \notin closed
  /\ pc["client"] # "parse"
  /\ closed' = closed \cup {"client"}
  /\ pc' = [pc EXCEPT !["client"] = "idle"]
  /\ UNCHANGED <<kernel_cap, sent, sentbytes, buff, sendVars, historyVars, wild>>

-----------------------------------------------------------------------------
(* nwc_connection_on_recv, on both sides.                                  *)

\* recv appends what has arrived, in any amount that fits, to recv_buff.
Recv(side) ==
  /\ pc[side] = "idle" /\ side \notin closed
  /\ \E k \in 1..kernel_cap[side] :
       /\ k <= Len(wire[side]) /\ Len(buff[side]) + k <= RecvBuff
       /\ buff' = [buff EXCEPT ![side] = @ \o SubSeq(wire[side], 1, k)]
       /\ wire' = [wire EXCEPT ![side] = SubSeq(@, k + 1, Len(@))]
       /\ pc' = [pc EXCEPT ![side] = "parse"]
  /\ UNCHANGED <<kernel_cap, can_send, sent, sentbytes, accepted, cut, historyVars, endVars>>

\* With no room behind rbytes recv is asked for 0 bytes and returns 0, which is
\* taken for the end of the stream.
RecvNothing(side) ==
  /\ pc[side] = "idle" /\ side \notin closed
  /\ wire[side] # <<>>
  /\ Len(buff[side]) = RecvBuff
  /\ closed' = closed \cup {side}
  /\ UNCHANGED <<kernel_cap, pc, sent, sentbytes, buff, sendVars, historyVars, wild>>

\* The units of what stands at the start of recv_buff: what a header says, and
\* anything when a torn package leaves payload in front.
Announced(side) ==
  IF Head(buff[side]).at = 0 THEN {Length(side)} ELSE 1..(RecvBuff + 1)

\* Payload taken for a header may hold a length near 2^32, and then the uint32_t
\* sum qos_hdr_len + pkg->length is less than a header: nothing is missing.
SumWraps(side) == buff[side] # <<>> /\ Head(buff[side]).at # 0

\* len units, a header and the payload it announces, have been received.
Complete(side, len) ==
  /\ buff[side] # <<>>
  /\ len \in Announced(side)
  /\ len <= Len(buff[side])

Incomplete(side) ==
  buff[side] # <<>> => \E len \in Announced(side) : len > Len(buff[side])

\* (mutant: the last unit of the package is left in the buffer)
ConsumeShort(side, len) ==
  LET units == SubSeq(buff[side], 1, len - 1)
  IN /\ handled' = [handled EXCEPT ![side] = @ \o units]
     /\ packages' = [packages EXCEPT ![side] = Append(@, units)]
     /\ buff' = [buff EXCEPT ![side] = SubSeq(@, len, Len(@))]

Consume(side, len) ==
  LET units == SubSeq(buff[side], 1, len)
  IN /\ handled' = [handled EXCEPT ![side] = @ \o units]
     /\ packages' = [packages EXCEPT ![side] = Append(@, units)]
     /\ buff' = [buff EXCEPT ![side] = SubSeq(@, len + 1, Len(@))]

\* The server acknowledges the package, and is in send until the kernel has taken
\* the last unit.
ServerPackage ==
  LET ack == Package(Head(buff["server"]).of, AckLen)
  IN /\ pc["server"] = "parse"
     /\ \E len \in 1..RecvBuff : Complete("server", len) /\ Consume("server", len)
     /\ Accept("client", ack)
     /\ pc' = [pc EXCEPT !["server"] = "ack"]
     /\ UNCHANGED <<kernel_cap, can_send, cut, sent, sentbytes, endVars>>

AckSent ==
  /\ pc["server"] = "ack"
  /\ Room("client") >= 0
  /\ pc' = [pc EXCEPT !["server"] = "parse"]
  /\ UNCHANGED <<kernel_cap, sent, sentbytes, buff, sendVars, historyVars, endVars>>

ClientPackage ==
  /\ pc["client"] = "parse"
  /\ \E len \in 1..RecvBuff : Complete("client", len) /\ Consume("client", len)
  /\ UNCHANGED <<kernel_cap, pc, sent, sentbytes, sendVars, endVars>>

\* pkg_ptr + qos_hdr_len + pkg->length is a sum of pointers and does not wrap with
\* the uint32_t one: pkg_ptr leaves recv_buff (with pointers of 32 bits it stands
\* still), and rbytes hardly shrinks.  The acknowledgements that are sent from then
\* on are left out.
ServerWild ==
  /\ pc["server"] = "parse"
  /\ SumWraps("server")
  /\ pc' = [pc EXCEPT !["server"] = "wild"]
  /\ wild' = TRUE
  /\ UNCHANGED <<kernel_cap, sent, sentbytes, buff, sendVars, historyVars, closed>>

\* What such a parser does is undefined: it goes on for ever, reads what is not
\* mapped, which ends the process, or finds a length that ends the loop, and
\* whatever is there is moved to recv_buff.
WildCrash ==
  /\ pc["server"] = "wild"
  /\ pc' = [pc EXCEPT !["server"] = "idle"]
  /\ closed' = closed \cup {"server"}
  /\ UNCHANGED <<kernel_cap, sent, sentbytes, buff, sendVars, historyVars, wild>>

WildLeaves ==
  /\ pc["server"] = "wild"
  /\ pc' = [pc EXCEPT !["server"] = "idle"]
  /\ buff' = [buff EXCEPT !["server"] = [i \in 1..Len(@) |-> [of |-> @[1].of, at |-> 1]]]
  /\ UNCHANGED <<kernel_cap, sent, sentbytes, sendVars, historyVars, endVars>>

\* (mutant: the rest of the buffer is forgotten: rbytes = 0)
ParseDoneDrops(side) ==
  /\ pc[side] = "parse" /\ Incomplete(side)
  /\ pc' = [pc EXCEPT ![side] = "idle"]
  /\ buff' = [buff EXCEPT ![side] = <<>>]
  /\ UNCHANGED <<kernel_cap, sent, sentbytes, sendVars, historyVars, endVars>>

\* (mutant: the loop over the buffer goes on until it is empty)
ParseDoneEmpty(side) ==
  /\ pc[side] = "parse" /\ buff[side] = <<>>
  /\ pc' = [pc EXCEPT ![side] = "idle"]
  /\ UNCHANGED <<kernel_cap, sent, sentbytes, buff, sendVars, historyVars, endVars>>

\* (mutant: the loop over the buffer may stop before its last whole package)
ParseDoneEarly(side) ==
  /\ pc[side] = "parse"
  /\ pc' = [pc EXCEPT ![side] = "idle"]
  /\ UNCHANGED <<kernel_cap, sent, sentbytes, buff, sendVars, historyVars, endVars>>

\* What is left of the buffer is kept at its start for the next recv.
ParseDone(side) ==
  /\ pc[side] = "parse" /\ Incomplete(side)
  /\ pc' = [pc EXCEPT ![side] = "idle"]
  /\ UNCHANGED <<kernel_cap, sent, sentbytes, buff, sendVars, historyVars, endVars>>

Next ==
  \/ SendWorker \/ SendPackage \/ SendDone \/ PeerGone
  \/ \E side \in Sides : Recv(side) \/ RecvNothing(side) \/ ParseDone(side)
  \/ ServerPackage \/ AckSent \/ ClientPackage
  \/ ServerWild \/ WildCrash \/ WildLeaves

Spec == Init /\ [][Next]_vars

\* Both programs run, and both have to be told of what has arrived, and of the end
\* of the other: epoll is level triggered.  Nothing is claimed of a wild parser.
FairSpec ==
  /\ Spec
  /\ WF_vars(SendWorker \/ SendPackage \/ SendDone)
  /\ WF_vars(PeerGone)
  /\ \A side \in Sides : WF_vars(Recv(side) \/ RecvNothing(side)) /\ WF_vars(ParseDone(side))
  /\ WF_vars(ServerPackage) /\ WF_vars(AckSent) /\ WF_vars(ClientPackage)

-----------------------------------------------------------------------------
(* Properties *)

\* However recv cuts the stream, and whatever send cut off before, what a side
\* has processed, holds in recv_buff and has still to receive is exactly what was
\* sent to it: no unit is lost, repeated or moved by the reassembly and its
\* memmove, as long as the server has taken no torn payload for a header whose
\* length makes the sum wrap.  (With the types.)
StreamIntact ==
  /\ TypeOK
  /\ \A s \in Sides :
       handled[s] \o buff[s] \o wire[s] = accepted[s] \/ (s = "server" /\ wild)

\* Header and payload of what a side processes belong together ("length: The
\* length of the payload", nwc_qos_protocol.h:13), and acknowledgements come in
\* the order of the packages, until a send of the client has been cut short: it is
\* reported as success and a new package follows.  Acknowledgements are never torn.
\* As long as none has been, recv is never called with a length of 0, whose
\* result 0 the connection takes for the end of the stream, and no parser runs wild.
TornOnlyByACut ==
  /\ \A s \in Sides \ cut :
       /\ \A i \in 1..Len(packages[s]) :
            packages[s][i] = Package(packages[s][i][1].of, Length(s))
       /\ \A i, j \in 1..Len(packages[s]) :
            i < j /\ cut = {} => packages[s][i][1].of < packages[s][j][1].of
  /\ closed # {} \/ wild => cut # {}

\* Every package is acknowledged and the acknowledgement processed, although the
\* server waits in send until the client has received, unless the kernel's buffer
\* was full for a send of the client.
EveryPackageAcked ==
  \A p \in 1..MaxPackages :
    sent >= p ~> Len(packages["client"]) >= p \/ cut # {} \/ ~can_send

\* Both sides come back to their event loop, which serves all the connections,
\* out of the send loop, the parse loop and the send that blocks.  A torn payload
\* taken for a header may end that: the length makes the sum wrap.
BackToTheLoop ==
  \A s \in Sides : pc[s] # "idle" ~> pc[s] = "idle" \/ (s = "server" /\ wild)

=============================================================================
