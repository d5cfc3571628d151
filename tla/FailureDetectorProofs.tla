----------------------- MODULE FailureDetectorProofs -----------------------
(***************************************************************************)
(* Type correctness of FailureDetector, and, when the sleeps of a prober   *)
(* outlast its own exchanges and none of their datagrams is lost, that no  *)
(* running node is ever dropped or told that it is not a peer, whatever    *)
(* the number of nodes and of those that stop.  The same invariant covers  *)
(* one lost datagram, if then no node stops: the answer comes by way of a  *)
(* third node.                                                             *)
(* Whatever is lost or late, removals and announcements agree, and every   *)
(* peer is probed again within two rounds.                                 *)
(***************************************************************************)
EXTENDS MCFailureDetector, MCRoundRobin, UdpListenerProofs

(* The lists that the nodes start with have the right types. *)
LEMMA InitTyped == Init => TypeOK
<1> SUFFICES ASSUME Init PROVE TypeOK
  OBVIOUS
<1>1. \A n \in Node : {Self(q) : q \in Node \ {n}} \in SUBSET Peer
  BY PortAssumption DEF Self, Peer
<1>2. \A n \in Node : SetToSeqs({Self(q) : q \in Node \ {n}}) \subseteq Seq(Peer)
  <2> TAKE n \in Node
  <2> DEFINE S == {Self(q) : q \in Node \ {n}}
  <2>1. S \in SUBSET Peer
    BY <1>1
  <2> HIDE DEF S
  <2>2. SetToSeqs(S) \subseteq Seq(S) /\ Seq(S) \subseteq Seq(Peer)
    BY <2>1, PeersInOrder
  <2> QED BY <2>2 DEF S
<1>3. peers \in [Node -> Seq(Peer)]
  <2>1. UNION {SetToSeqs({Self(q) : q \in Node \ {n}}) : n \in Node} \subseteq Seq(Peer)
    BY <1>2
  <2>2. peers \in [Node -> UNION {SetToSeqs({Self(q) : q \in Node \ {n}}) : n \in Node}]
    BY DEF Init
  <2> QED BY <2>1, <2>2
<1>4. \A n \in Node : DOMAIN inbox[n] = {}
  BY DEF Init, EmptyBag, SetToBag
<1>5. DOMAIN inbox = Node /\ udp \in [Node -> UdpState]
  BY UdpStates DEF Init
<1>6. UdpTypeOK
  BY <1>3, <1>4, <1>5 DEF Init, UdpTypeOK
<1>7. /\ bcast \in [Node -> Seq(Broadcast)] /\ toProbe \in [Node -> Seq(Peer)]
      /\ reqs \in [Node -> Seq(Request)]
  BY DEF Init
<1>8. 0 \in 0..MaxLoss
  BY BoundAssumption
<1> QED BY <1>6, <1>7, <1>8 DEF Init, TypeOK

-----------------------------------------------------------------------------
(* fulfil_request_probes keeps some of the requests and sends ACK_PROBE    *)
(* with the name of the node that answered to those who asked for it.      *)
LEMMA FulfilProps ==
  ASSUME TypeOK, NEW n \in Node, FulfilRequestProbes(n)
  PROVE  /\ reqs' = [reqs EXCEPT ![n] = reqs'[n]]
         /\ reqs'[n] \in Seq(Request)
         /\ \A j \in 1..Len(reqs'[n]) : \E i \in 1..Len(reqs[n]) : reqs'[n][j] = reqs[n][i]
         /\ DOMAIN inbox' = Node
         /\ \A d \in Node :
              \/ inbox'[d] = inbox[d]
              \/ /\ DOMAIN inbox'[d] =
                      DOMAIN inbox[d] \cup {[type |-> "ACK_PROBE", from |-> udp[n].acked]}
                 /\ \E i \in 1..Len(reqs[n]) : /\ reqs[n][i].requestor = d
                                               /\ reqs[n][i].target = udp[n].acked
         /\ \A i \in 1..Len(reqs[n]) : reqs[n][i].fresh =>
              IF reqs[n][i].target = udp[n].acked
              THEN LET d == reqs[n][i].requestor
                   IN  d \in Node /\ up[d] /\ ~starved[n] =>
                         [type |-> "ACK_PROBE", from |-> udp[n].acked] \in DOMAIN inbox'[d]
              ELSE \E j \in 1..Len(reqs'[n]) : reqs'[n][j] = reqs[n][i]
<1> DEFINE p == udp[n].acked
           kept == {i \in 1..Len(reqs[n]) : reqs[n][i].fresh /\ reqs[n][i].target # p}
           answered == {i \in 1..Len(reqs[n]) : reqs[n][i].fresh /\ reqs[n][i].target = p}
           count(d) == Cardinality({i \in answered : reqs[n][i].requestor = d})
           dests == {reqs[n][i].requestor : i \in answered}
           ack == [type |-> "ACK_PROBE", from |-> p]
<1>1. reqs \in [Node -> Seq(Request)] /\ DOMAIN inbox = Node
  BY DEF TypeOK, UdpTypeOK
<1>2. reqs' = [reqs EXCEPT ![n] = Entries(reqs[n], kept)]
  BY DEF FulfilRequestProbes, Filter
<1>3. kept \in SUBSET (1..Len(reqs[n]))
  OBVIOUS
<1>4. inbox' = IF starved[n] THEN inbox
               ELSE [d \in Node |-> IF d \in dests /\ up[d]
                                    THEN inbox[d] (+) [x \in {ack} |-> count(d)]
                                    ELSE inbox[d]]
  BY DEF FulfilRequestProbes, SendEach
<1>5. \A d \in dests : \E i \in 1..Len(reqs[n]) :
        reqs[n][i].requestor = d /\ reqs[n][i].target = p
  OBVIOUS
<1> HIDE DEF kept, count, dests, ack
<1>6. /\ Entries(reqs[n], kept) \in Seq(Request)
      /\ \A j \in 1..Len(Entries(reqs[n], kept)) :
           \E i \in kept : Entries(reqs[n], kept)[j] = reqs[n][i]
  BY <1>1, <1>3, EntriesProps
<1>7. /\ reqs'[n] = Entries(reqs[n], kept)
      /\ reqs' = [reqs EXCEPT ![n] = reqs'[n]]
  BY <1>1, <1>2
<1>8. DOMAIN inbox' = Node
  BY <1>1, <1>4
<1>9. ASSUME NEW d \in Node
      PROVE  \/ inbox'[d] = inbox[d]
             \/ DOMAIN inbox'[d] = DOMAIN inbox[d] \cup {ack} /\ d \in dests
  <2>1. DOMAIN (inbox[d] (+) [x \in {ack} |-> count(d)]) = DOMAIN inbox[d] \cup {ack}
    BY BagSumDomain
  <2>2. CASE ~starved[n] /\ d \in dests /\ up[d]
    BY <1>4, <2>1, <2>2
  <2>3. CASE ~(~starved[n] /\ d \in dests /\ up[d])
    BY <1>4, <2>3
  <2> QED BY <2>2, <2>3
<1>10. \A j \in 1..Len(reqs'[n]) : \E i \in 1..Len(reqs[n]) : reqs'[n][j] = reqs[n][i]
  BY <1>3, <1>6, <1>7
<1>11. reqs'[n] \in Seq(Request)
  BY <1>6, <1>7
<1>12. ASSUME NEW i \in 1..Len(reqs[n]), reqs[n][i].fresh, reqs[n][i].target = p,
              reqs[n][i].requestor \in Node, up[reqs[n][i].requestor], ~starved[n]
       PROVE  ack \in DOMAIN inbox'[reqs[n][i].requestor]
  <2> DEFINE d == reqs[n][i].requestor
  <2>1. d \in dests
    BY <1>12 DEF dests
  <2>2. inbox'[d] = inbox[d] (+) [x \in {ack} |-> count(d)]
    BY <1>4, <1>12, <2>1
  <2> HIDE DEF d, dests, count, kept, ack
  <2>3. DOMAIN inbox'[d] = DOMAIN inbox[d] \cup DOMAIN [x \in {ack} |-> count(d)]
    BY <2>2, BagSumDomain
  <2> QED BY <2>3 DEF d
<1>13. ASSUME NEW i \in 1..Len(reqs[n]), reqs[n][i].fresh, reqs[n][i].target # p
       PROVE  \E j \in 1..Len(reqs'[n]) : reqs'[n][j] = reqs[n][i]
  <2>1. i \in kept
    BY <1>13 DEF kept
  <2>2. \E j \in 1..Len(Entries(reqs[n], kept)) : Entries(reqs[n], kept)[j] = reqs[n][i]
    BY <1>1, <1>3, <2>1, EntriesKept
  <2> QED BY <1>7, <2>2
<1> QED BY <1>5, <1>7, <1>8, <1>9, <1>10, <1>11, <1>12, <1>13 DEF ack

(* Every step keeps the types. *)
LEMMA NextTyped == TypeOK /\ [Next]_vars => TypeOK'
<1> SUFFICES ASSUME TypeOK, [Next]_vars PROVE TypeOK'
  OBVIOUS
<1> USE DEF TypeOK, UdpTypeOK
<1>1. CASE UNCHANGED vars
  BY <1>1 DEF vars, udpVars, fdVars
<1>2. ASSUME NEW n \in Node, ProbeNext(n) PROVE TypeOK'
  <2>1. PICK order \in IF toProbe[n] = <<>> THEN Shuffles(peers[n]) ELSE {toProbe[n]} :
       IF order = <<>>
       THEN /\ target' = [target EXCEPT ![n] = NoPeer]
            /\ probed' = [probed EXCEPT ![n] = FALSE]
            /\ UNCHANGED <<toProbe, inbox>>
       ELSE LET p == order[Len(order)]
            IN  /\ target' = [target EXCEPT ![n] = p]
                /\ toProbe' = [toProbe EXCEPT ![n] = SubSeq(order, 1, Len(order) - 1)]
                /\ probed' = [probed EXCEPT ![n] = SendFails(n, p.udp)]
                /\ inbox' = Send(inbox, n, p.udp, [type |-> "PROBE", from |-> n])
    BY <1>2 DEF ProbeNext
  <2>2. /\ UNCHANGED <<up, starved, peers, udp, bcast, reqs, lost>>
        /\ prober' = [prober EXCEPT ![n] = "request"]
    BY <1>2 DEF ProbeNext
  <2>3. order \in Seq(Peer)
    BY <2>1, ShufflesProps
  <2>4. CASE order = <<>>
    BY <2>1, <2>2, <2>4
  <2>5. CASE order # <<>>
    <3> DEFINE p == order[Len(order)]
               m == [type |-> "PROBE", from |-> n]
    <3>1. p \in Peer /\ SubSeq(order, 1, Len(order) - 1) \in Seq(Peer)
      BY <2>3, <2>5, FrontProps, ElementOfSeq
    <3>2. m \in Message
      BY Messages, PortAssumption
    <3>3. /\ target' = [target EXCEPT ![n] = p]
          /\ toProbe' = [toProbe EXCEPT ![n] = SubSeq(order, 1, Len(order) - 1)]
          /\ probed' = [probed EXCEPT ![n] = SendFails(n, p.udp)]
          /\ inbox' = Send(inbox, n, p.udp, m)
      BY <2>1, <2>5
    <3>4. SendFails(n, p.udp) \in BOOLEAN
      BY DEF SendFails
    <3> HIDE DEF p, m
    <3>5. DOMAIN inbox' = Node /\ \A d \in Node : DOMAIN inbox'[d] \subseteq Message
      BY <3>2, <3>3, SendProps
    <3>6. probed' \in [Node -> BOOLEAN]
      BY <3>3, <3>4
    <3>7. target' \in [Node -> Peer \cup {NoPeer}] /\ toProbe' \in [Node -> Seq(Peer)]
      BY <3>1, <3>3
    <3> QED BY <2>2, <3>5, <3>6, <3>7
  <2> QED BY <2>4, <2>5
<1>3. ASSUME NEW n \in Node, RequestProbes(n) PROVE TypeOK'
  <2>1. /\ prober' = [prober EXCEPT ![n] = "check"]
        /\ UNCHANGED <<up, starved, peers, udp, bcast, toProbe, target, probed, reqs, lost>>
    BY <1>3 DEF RequestProbes
  <2>2. CASE UNCHANGED inbox
    BY <2>1, <2>2
  <2>3. CASE target[n] # NoPeer /\ ~probed[n]
    <3> DEFINE m == [type |-> "REQUEST_PROBE", from |-> n, target |-> target[n].udp]
    <3>1. PICK chosen \in RandomPeers(peers[n], FAN_OUT, target[n].udp) :
            inbox' = SendToPeers(inbox, n, chosen, m)
      BY <1>3, <2>3 DEF RequestProbes
    <3>2. target[n].udp \in Port /\ n \in Port
      BY <2>3, PortAssumption DEF Peer
    <3>3. m \in Message
      BY <3>2, Messages
    <3> HIDE DEF m
    <3>4. DOMAIN inbox' = Node /\ \A d \in Node : DOMAIN inbox'[d] \subseteq Message
      BY <3>1, <3>3, SendToPeersProps
    <3> QED BY <2>1, <3>4
  <2> QED BY <1>3, <2>2, <2>3 DEF RequestProbes
<1>4. ASSUME NEW n \in Node, CheckProbed(n) PROVE TypeOK'
  <2> DEFINE idx == IdxOf(peers[n], target[n])
  <2>1. /\ prober' = [prober EXCEPT ![n] = "probe"]
        /\ UNCHANGED <<up, starved, inbox, udp, toProbe, target, probed, reqs, lost>>
    BY <1>4 DEF CheckProbed
  <2>2. CASE UNCHANGED <<peers, bcast>>
    BY <2>1, <2>2
  <2>3. CASE target[n] # NoPeer /\ ~probed[n] /\ idx # -1
    <3>1. /\ peers' = [peers EXCEPT ![n] = RemovePeer(peers[n], idx)]
          /\ bcast' = [bcast EXCEPT ![n] =
               AddBroadcastToList(bcast[n], target[n], Removed, Len(peers[n]) - 1)]
      BY <1>4, <2>3 DEF CheckProbed
    <3>2. target[n] \in Peer
      BY <2>3
    <3>3. idx \in 0..Len(peers[n]) - 1
      <4>1. Len(peers[n]) \in Nat
        OBVIOUS
      <4>2. idx \in -1..Len(peers[n]) - 1
        BY <4>1, IdxOfProps
      <4> HIDE DEF idx
      <4> QED BY <2>3, <4>1, <4>2
    <3> HIDE DEF idx
    <3>4. RemovePeer(peers[n], idx) \in Seq(Peer)
      BY <3>3, RemovePeerProps
    <3>5. AddBroadcastToList(bcast[n], target[n], Removed, Len(peers[n]) - 1) \in Seq(Broadcast)
      BY <3>2, AddBroadcastProps
    <3> QED BY <2>1, <3>1, <3>4, <3>5
  <2> QED BY <1>4, <2>2, <2>3 DEF CheckProbed
<1>5. ASSUME NEW n \in Node, ReceiveDatagram(n) PROVE TypeOK'
  <2>1. UdpTypeOK'
    BY <1>5, ReceiveProps DEF ReceiveDatagram
  <2> QED BY <1>5, <2>1 DEF ReceiveDatagram, fdVars
<1>6. ASSUME NEW n \in Node, HandleProbe(n) PROVE TypeOK'
  <2> DEFINE m == [type |-> "ACK_PROBE", from |-> n]
  <2>1. m \in Message
    BY Messages, PortAssumption
  <2>2. inbox' = Send(inbox, n, udp[n].msg.from, m)
    BY <1>6 DEF HandleProbe
  <2> HIDE DEF m
  <2>3. DOMAIN inbox' = Node /\ \A d \in Node : DOMAIN inbox'[d] \subseteq Message
    BY <2>1, <2>2, SendProps
  <2>4. udp' \in [Node -> UdpState]
    BY <1>6, UdpStates DEF HandleProbe
  <2> QED BY <1>6, <2>3, <2>4 DEF HandleProbe, fdVars
<1>7. ASSUME NEW n \in Node, HandleAck(n) PROVE TypeOK'
  <2>1. udp[n].msg.from \in Port
    BY <1>7, UdpFields, MessageFields DEF HandleAck, Handling
  <2>2. udp' \in [Node -> UdpState]
    BY <1>7, <2>1, UdpStates DEF HandleAck
  <2>3. (probed[n] \/ target[n].udp = udp[n].msg.from) \in BOOLEAN
    OBVIOUS
  <2>4. probed' \in [Node -> BOOLEAN]
    BY <1>7, <2>3 DEF HandleAck
  <2> QED BY <1>7, <2>2, <2>4 DEF HandleAck
<1>8. ASSUME NEW n \in Node, FulfilRequestProbes(n) PROVE TypeOK'
  <2>1. udp[n].acked \in Port
    BY <1>8, UdpFields DEF FulfilRequestProbes
  <2>2. [type |-> "ACK_PROBE", from |-> udp[n].acked] \in Message
    BY <2>1, Messages
  <2>3. /\ reqs' = [reqs EXCEPT ![n] = reqs'[n]] /\ reqs'[n] \in Seq(Request)
        /\ DOMAIN inbox' = Node
    BY <1>8, FulfilProps
  <2>4. \A d \in Node : DOMAIN inbox'[d] \subseteq
          DOMAIN inbox[d] \cup {[type |-> "ACK_PROBE", from |-> udp[n].acked]}
    <3> TAKE d \in Node
    <3>1. \/ inbox'[d] = inbox[d]
          \/ DOMAIN inbox'[d] =
               DOMAIN inbox[d] \cup {[type |-> "ACK_PROBE", from |-> udp[n].acked]}
      BY <1>8, FulfilProps
    <3>2. CASE inbox'[d] = inbox[d]
      BY <3>2
    <3> QED BY <3>1, <3>2
  <2>5. \A d \in Node : DOMAIN inbox'[d] \subseteq Message
    BY <2>2, <2>4
  <2>6. udp' \in [Node -> UdpState]
    BY <1>8, UdpStates DEF FulfilRequestProbes
  <2>7. UNCHANGED <<up, starved, peers, bcast, toProbe, target, probed, prober, lost>>
    BY <1>8 DEF FulfilRequestProbes
  <2> QED BY <2>3, <2>5, <2>6, <2>7
<1>9. ASSUME NEW n \in Node, Stop(n) PROVE TypeOK'
  <2>1. DOMAIN inbox' = Node /\ \A d \in Node : DOMAIN inbox'[d] \subseteq Message
    BY <1>9 DEF Stop, EmptyBag, SetToBag
  <2>2. udp' \in [Node -> UdpState]
    BY <1>9, UdpStates DEF Stop
  <2> QED BY <1>9, <2>1, <2>2 DEF Stop
<1>10. ASSUME NEW n \in Node, HandleRequestProbe(n) PROVE TypeOK'
  <2> DEFINE m == udp[n].msg
             r == [target |-> m.target, requestor |-> m.from, fresh |-> TRUE]
             probe == [type |-> "PROBE", from |-> n]
  <2>1. CASE Stop(n)
    BY <1>9, <2>1
  <2>2. CASE ~(Len(reqs[n]) >= CAPACITY)
    <3>1. /\ reqs' = [reqs EXCEPT ![n] = Append(@, r)]
          /\ inbox' = Send(inbox, n, m.target, probe)
          /\ probed' = [probed EXCEPT ![n] = @ \/ SendFails(n, m.target)]
          /\ udp' = [udp EXCEPT ![n] = Recv]
          /\ UNCHANGED <<up, starved, peers, bcast, toProbe, target, prober, lost>>
      BY <1>10, <2>2 DEF HandleRequestProbe
    <3>2. m.from \in Port /\ m.target \in Port
      BY <1>10, UdpFields, MessageFields DEF HandleRequestProbe, Handling
    <3>3. r \in Request
      BY <3>2 DEF Request
    <3>4. probe \in Message
      BY Messages, PortAssumption
    <3> HIDE DEF m, r, probe
    <3>5. DOMAIN inbox' = Node /\ \A d \in Node : DOMAIN inbox'[d] \subseteq Message
      BY <3>1, <3>4, SendProps
    <3>6. reqs' \in [Node -> Seq(Request)]
      BY <3>1, <3>3, AppendProperties
    <3>7. (probed[n] \/ SendFails(n, m.target)) \in BOOLEAN
      OBVIOUS
    <3>8. probed' \in [Node -> BOOLEAN]
      BY <3>1, <3>7
    <3>9. udp' \in [Node -> UdpState]
      BY <3>1, UdpStates
    <3> QED BY <3>1, <3>5, <3>6, <3>8, <3>9
  <2> QED BY <1>10, <2>1, <2>2 DEF HandleRequestProbe
<1>11. ASSUME NEW n \in Node, BeginReset(n) PROVE TypeOK'
  <2>1. udp' \in [Node -> UdpState]
    BY <1>11, UdpStates DEF BeginReset
  <2> QED BY <1>11, <2>1 DEF BeginReset
<1>12. ASSUME NEW n \in Node, Expire(n) PROVE TypeOK'
  <2>1. PICK i \in 1..Len(reqs[n]) : reqs' = [reqs EXCEPT ![n][i].fresh = FALSE]
    BY <1>12 DEF Expire
  <2>2. reqs[n] \in Seq(Request) /\ reqs[n][i] \in Request
    BY <2>1, ElementOfSeq
  <2>3. [reqs[n][i] EXCEPT !.fresh = FALSE] \in Request
    BY <2>2 DEF Request
  <2>4. [reqs[n] EXCEPT ![i] = [reqs[n][i] EXCEPT !.fresh = FALSE]] \in Seq(Request)
    BY <2>2, <2>3, ExceptSeq
  <2>5. reqs' \in [Node -> Seq(Request)]
    BY <2>1, <2>4
  <2> QED BY <1>12, <2>5 DEF Expire, udpVars
<1>13. ASSUME NEW n \in Node, Exhaust(n) PROVE TypeOK'
  BY <1>13 DEF Exhaust, fdVars
<1>14. ASSUME NEW n \in Node, Lose(n) PROVE TypeOK'
  <2>1. DOMAIN inbox' = Node /\ \A d \in Node : DOMAIN inbox'[d] \subseteq DOMAIN inbox[d]
    BY <1>14, WithoutDomain DEF Lose
  <2>2. lost' \in 0..MaxLoss
    BY <1>14, BoundAssumption DEF Lose
  <2> QED BY <1>14, <2>1, <2>2 DEF Lose
<1> QED
  BY <1>1, <1>2, <1>3, <1>4, <1>5, <1>6, <1>7, <1>8, <1>9, <1>10, <1>11, <1>12, <1>13, <1>14
     DEF Next, Prober, Listener, Environment, Crash

(* The state of every node has the types that the code declares. *)
THEOREM TypeCorrect == Spec => []TypeOK
BY InitTyped, NextTyped, PTL DEF Spec

-----------------------------------------------------------------------------
(* The invariant from which Accuracy follows while the surroundings are    *)
(* Calm: every node has descriptors, and either no datagram was lost yet   *)
(* or no node has stopped.  Its core is ProbeOK, on a node that waits for  *)
(* the answer of a running peer.  In its first quarter the PROBE or the    *)
(* ACK_PROBE is at one of the two, unread or being handled, or a datagram  *)
(* was lost.  Later a datagram was lost, and the answer has arrived or is  *)
(* Relayed: a third node has the request unread, or has it in its table    *)
(* and its own PROBE or the ACK_PROBE for it is at one of the two.  So     *)
(* when the exchange is over, which is when check_probed runs, a peer      *)
(* without an answer has stopped.  That the receiver of a PROBE answers it *)
(* needs Accuracy, as its sender runs, and MessageOK: everything under way *)
(* comes from a node, which sends nothing to itself or about itself, as    *)
(* ListsOK says of the data of each node.                                  *)
MessageOK(d, m) ==
  /\ m.type # "NOT_A_PEER"
  /\ m.from \in Node /\ m.from # d
  /\ m.type = "REQUEST_PROBE" => m.target \in Node /\ m.target # d /\ m.target # m.from

Traffic(d) ==
  up[d] => /\ \A m \in DOMAIN inbox[d] : MessageOK(d, m)
           /\ udp[d].at = "handle" => MessageOK(d, udp[d].msg)
           /\ udp[d].at = "fulfil" => udp[d].acked \in Node

Other(n) == {Self(q) : q \in Node \ {n}}

ListsOK(n) ==
  /\ \A i \in 1..Len(peers[n]) : peers[n][i] \in Other(n)
  /\ \A i \in 1..Len(toProbe[n]) : toProbe[n][i] \in Other(n)
  /\ target[n] \in Other(n) \cup {NoPeer}
  /\ \A i \in 1..Len(reqs[n]) : /\ reqs[n][i].requestor \in Node
                                /\ reqs[n][i].requestor # reqs[n][i].target

Waits(n, q) ==
  up[n] /\ up[q] /\ target[n] = Self(q) /\ ~probed[n] /\ prober[n] # "probe"

ProbeOK == \A n, q \in Node : Waits(n, q) =>
  \/ prober[n] = "request" /\ (Awaited(n, q) \/ lost > 0)
  \/ prober[n] = "check" /\ lost > 0 /\ Relayed(n, q)

IInv == /\ TypeOK /\ Calm /\ Accuracy /\ NoRejoin
        /\ \A n \in Node : Traffic(n) /\ ListsOK(n)
        /\ ProbeOK

CalmInv == TypeOK /\ (Calm => IInv)

(* One datagram may be lost if there is a third node to ask and a probe    *)
(* request goes to at least one.                                           *)
Spare == \/ MaxLoss = 0
         \/ MaxLoss = 1 /\ FAN_OUT >= 1 /\ Cardinality(Node) >= 3

-----------------------------------------------------------------------------
(* No list of a running node loses a peer. *)
Keep == \A r \in Node : up'[r] => up[r] /\ peers'[r] = peers[r]

(* A step after which the same nodes run, or fewer, with the same lists,   *)
(* keeps Accuracy.                                                         *)
LEMMA KeepProps ==
  ASSUME Keep
  PROVE  Accuracy => Accuracy'
BY DEF Keep, Accuracy

(* The ways in which the state of a UDP thread changes. *)
UdpMove(d) ==
  \/ udp'[d] = udp[d]
  \/ udp'[d] = Recv
  \/ \E m \in DOMAIN inbox[d] : udp'[d] = [at |-> "handle", msg |-> m]
  \/ udp[d].at = "handle" /\ udp'[d] = [at |-> "fulfil", acked |-> udp[d].msg.from]

(* Messages stay sound from the inbox to the end of their handler.         *)
LEMMA TrafficStep ==
  ASSUME Keep, NEW d \in Node, Traffic(d), UdpMove(d),
         up'[d] => \A m \in DOMAIN inbox'[d] : m \in DOMAIN inbox[d] \/ MessageOK(d, m)
  PROVE  Traffic(d)'
<1> SUFFICES ASSUME up'[d] PROVE Traffic(d)'
  BY DEF Traffic
<1>1. up[d]
  BY DEF Keep
<1>2. \A m \in DOMAIN inbox[d] : MessageOK(d, m)
  BY <1>1 DEF Traffic
<1>3. \A m \in DOMAIN inbox'[d] : MessageOK(d, m)'
  BY <1>1, <1>2 DEF MessageOK
<1>4. /\ udp'[d].at = "handle" => MessageOK(d, udp'[d].msg)
      /\ udp'[d].at = "fulfil" => udp'[d].acked \in Node
  <2>1. CASE udp'[d] = udp[d]
    BY <1>1, <2>1 DEF Traffic
  <2>2. CASE udp'[d] = Recv
    BY <2>2 DEF Recv
  <2>3. ASSUME NEW m \in DOMAIN inbox[d], udp'[d] = [at |-> "handle", msg |-> m]
        PROVE  udp'[d].at = "handle" /\ MessageOK(d, udp'[d].msg)
    BY <1>2, <2>3
  <2>4. CASE udp[d].at = "handle" /\ udp'[d] = [at |-> "fulfil", acked |-> udp[d].msg.from]
    <3>1. MessageOK(d, udp[d].msg)
      BY <1>1, <2>4 DEF Traffic
    <3> QED BY <2>4, <3>1 DEF MessageOK
  <2> QED BY <2>1, <2>2, <2>3, <2>4 DEF UdpMove
<1>5. udp'[d].at = "handle" => MessageOK(d, udp[d].msg)'
  BY <1>4 DEF MessageOK
<1> QED BY <1>3, <1>4, <1>5 DEF Traffic

(* What is left to show of a step that loses no peer. *)
LEMMA KeepStep ==
  ASSUME IInv, TypeOK', Calm', Keep,
         \A d \in Node : UdpMove(d),
         \A d \in Node : up'[d] =>
           \A m \in DOMAIN inbox'[d] : m \in DOMAIN inbox[d] \/ MessageOK(d, m),
         \A d \in Node : ListsOK(d)',
         ProbeOK'
  PROVE  IInv'
<1>1. Accuracy'
  BY KeepProps DEF IInv
<1>2. \A d \in Node : udp[d].at # "reset"
  BY DEF IInv, NoRejoin
<1>3. NoRejoin'
  <2> SUFFICES ASSUME NEW d \in Node PROVE udp'[d].at # "reset"
    BY DEF NoRejoin
  <2>1. UdpMove(d)
    OBVIOUS
  <2>2. CASE udp'[d] = udp[d]
    BY <1>2, <2>2
  <2>3. CASE udp'[d] = Recv
    BY <2>3 DEF Recv
  <2>4. ASSUME NEW m, udp'[d] = [at |-> "handle", msg |-> m] PROVE udp'[d].at # "reset"
    BY <2>4
  <2>5. CASE udp'[d] = [at |-> "fulfil", acked |-> udp[d].msg.from]
    BY <2>5
  <2> QED BY <2>1, <2>2, <2>3, <2>4, <2>5 DEF UdpMove
<1>4. \A d \in Node : Traffic(d)'
  BY TrafficStep DEF IInv
<1> QED BY <1>1, <1>3, <1>4 DEF IInv

(* In a step that makes no node wait, of ProbeOK there is only left that   *)
(* what is awaited stays on its way, or arrives.                           *)
LEMMA ProbeStep ==
  ASSUME ProbeOK, UNCHANGED <<prober, lost>>,
         \A n, q \in Node : Waits(n, q)' => Waits(n, q),
         \A n, q \in Node : Waits(n, q)' /\ Awaited(n, q) => Awaited(n, q)',
         \A n, q \in Node : Waits(n, q)' /\ Relayed(n, q) /\ lost > 0 => Relayed(n, q)'
  PROVE  ProbeOK'
BY DEF ProbeOK

(* What is under way stays so if no datagram is dropped.                   *)
LEMMA StaysStep ==
  ASSUME UNCHANGED reqs,
         \A d \in Node : \A m : At(d, m) => At(d, m)',
         \A d \in Node : udp[d].at = "fulfil" => udp'[d] = udp[d],
         NEW n \in Node, NEW q \in Node
  PROVE  /\ Awaited(n, q) => Awaited(n, q)'
         /\ Relayed(n, q) => Relayed(n, q)'
<1>1. \A h \in Node : Awaited(h, q) => Awaited(h, q)'
  BY DEF Awaited
<1>2. \A h \in Node : Helps(h, n, q) => Helps(h, n, q)'
  <2> SUFFICES ASSUME NEW h \in Node, Helps(h, n, q) PROVE Helps(h, n, q)'
    OBVIOUS
  <2>1. Asked(h, n, q)'
    BY DEF Helps, Asked
  <2>2. CASE Awaited(h, q)
    BY <1>1, <2>1, <2>2 DEF Helps
  <2>3. CASE udp[h] = [at |-> "fulfil", acked |-> q]
    BY <2>1, <2>3 DEF Helps
  <2> QED BY <2>2, <2>3 DEF Helps
<1> QED BY <1>1, <1>2 DEF Relayed

(* Sending disturbs nothing that is under way.                             *)
LEMMA SendStep ==
  ASSUME UNCHANGED <<udp, reqs>>,
         \A d \in Node : DOMAIN inbox[d] \subseteq DOMAIN inbox'[d],
         NEW n \in Node, NEW q \in Node
  PROVE  /\ Awaited(n, q) => Awaited(n, q)'
         /\ Relayed(n, q) => Relayed(n, q)'
<1>1. \A d \in Node : \A m : At(d, m) => At(d, m)'
  BY DEF At
<1> QED BY <1>1, StaysStep

(* When all are idle nothing is under way. *)
LEMMA IdleProps ==
  ASSUME IInv, Quiescent
  PROVE  /\ \A d \in Node : up[d] => DOMAIN inbox[d] = {} /\ udp[d] = Recv
         /\ \A d \in Node : \A m : up[d] => ~At(d, m)
         /\ \A n, q \in Node : up[n] /\ up[q] => ~Awaited(n, q)
         /\ \A n, q \in Node : up[n] /\ up[q] /\ lost > 0 => ~Relayed(n, q)
<1>1. \A d \in Node : up[d] => inbox[d] = EmptyBag /\ udp[d] = Recv
  BY DEF Quiescent, IInv, NoRejoin
<1>2. \A d \in Node : up[d] => DOMAIN inbox[d] = {} /\ udp[d] = Recv
  BY <1>1 DEF EmptyBag, SetToBag
<1>3. \A d \in Node : \A m : up[d] => ~At(d, m)
  BY <1>2 DEF At, Recv
<1>4. \A n, q \in Node : up[n] /\ up[q] => ~Awaited(n, q)
  BY <1>3 DEF Awaited
<1>5. ASSUME NEW n \in Node, NEW q \in Node, up[n], up[q], lost > 0, Relayed(n, q)
      PROVE  FALSE
  <2>1. \A h \in Node : up[h]
    BY <1>5 DEF IInv, Calm
  <2>2. \A h \in Node : udp[h] # [at |-> "fulfil", acked |-> q]
    BY <1>2, <2>1 DEF Recv
  <2> QED BY <1>3, <1>4, <1>5, <2>1, <2>2 DEF Relayed, Helps
<1> QED BY <1>2, <1>3, <1>4, <1>5

(* Every node lists all the others, nothing is under way, nobody waits. *)
LEMMA InitInv == Init => IInv
<1> SUFFICES ASSUME Init PROVE IInv
  OBVIOUS
<1>1. TypeOK
  BY InitTyped
<1>2. ASSUME NEW n \in Node, NEW q \in Node, n # q PROVE IsPeer(peers[n], q)
  <2>1. Self(q) \in ToSet(peers[n])
    BY <1>2 DEF Init
  <2>2. PICK i \in DOMAIN peers[n] : peers[n][i] = Self(q)
    BY <2>1 DEF ToSet
  <2>3. DOMAIN peers[n] = 1..Len(peers[n])
    BY <1>1, LenProperties DEF TypeOK, UdpTypeOK
  <2> QED BY <2>2, <2>3 DEF IsPeer, Self
<1>3. Accuracy /\ Calm /\ NoRejoin
  BY <1>2 DEF Accuracy, Init, Calm, Rich, NoRejoin, Recv
<1>4. \A n \in Node : Traffic(n)
  BY DEF Init, Traffic, EmptyBag, SetToBag, Recv
<1>5. ASSUME NEW n \in Node PROVE ListsOK(n)
  <2>1. DOMAIN peers[n] = 1..Len(peers[n])
    BY <1>1, LenProperties DEF TypeOK, UdpTypeOK
  <2>2. \A i \in 1..Len(peers[n]) : peers[n][i] \in ToSet(peers[n])
    BY <2>1 DEF ToSet
  <2>3. \A i \in 1..Len(peers[n]) : peers[n][i] \in Other(n)
    BY <2>2 DEF Init, Other
  <2> QED BY <2>3 DEF Init, ListsOK
<1>6. ProbeOK
  BY DEF ProbeOK, Waits, Init
<1> QED BY <1>1, <1>3, <1>4, <1>5, <1>6 DEF IInv

-----------------------------------------------------------------------------
(* The steps of the prober. *)

(* Self and NoPeer tell ports apart. *)
LEMMA SelfProps ==
  /\ \A p, q : Self(p) = Self(q) => p = q
  /\ \A p : Self(p).udp = p
  /\ \A q \in Node : Self(q) # NoPeer
BY PortAssumption DEF Self, NoPeer

(* When a prober acts, the exchange with the running peer for whose answer *)
(* it waits has come to its end.                                           *)
LEMMA ExchangeEnded ==
  ASSUME Timely, IInv, NEW n \in Node, MayAct(n), NEW q \in Node, Waits(n, q)
  PROVE  /\ prober[n] = "request" => ~Awaited(n, q)
         /\ prober[n] = "check" /\ lost > 0 => ~Relayed(n, q)
<1>1. up[n] /\ up[q] /\ target[n].udp = q
  BY SelfProps DEF Waits
<1>2. CASE InStep
  BY <1>1, <1>2, IdleProps DEF MayAct
<1>3. CASE ~InStep
  <2>1. ExchangeOver(n)
    BY <1>3 DEF MayAct
  <2>2. NobodySleeps
    BY DEF IInv, NoRejoin, NobodySleeps
  <2> QED BY <1>1, <2>1, <2>2 DEF ExchangeOver
<1> QED BY <1>2, <1>3

(* probe_next: the PROBE is under way to a listed peer, or was not needed. *)
LEMMA ProbeNextInv ==
  ASSUME IInv, TypeOK', Calm', NEW n \in Node, ProbeNext(n)
  PROVE  IInv'
<1>1. PICK order \in IF toProbe[n] = <<>> THEN Shuffles(peers[n]) ELSE {toProbe[n]} :
     IF order = <<>>
     THEN /\ target' = [target EXCEPT ![n] = NoPeer]
          /\ probed' = [probed EXCEPT ![n] = FALSE]
          /\ UNCHANGED <<toProbe, inbox>>
     ELSE LET p == order[Len(order)]
          IN  /\ target' = [target EXCEPT ![n] = p]
              /\ toProbe' = [toProbe EXCEPT ![n] = SubSeq(order, 1, Len(order) - 1)]
              /\ probed' = [probed EXCEPT ![n] = SendFails(n, p.udp)]
              /\ inbox' = Send(inbox, n, p.udp, [type |-> "PROBE", from |-> n])
  BY DEF ProbeNext
<1>2. /\ UNCHANGED <<up, starved, peers, udp, bcast, reqs, lost>>
      /\ prober' = [prober EXCEPT ![n] = "request"]
      /\ up[n]
  BY DEF ProbeNext, MayAct
<1>3. /\ peers \in [Node -> Seq(Peer)] /\ toProbe \in [Node -> Seq(Peer)]
      /\ DOMAIN inbox = Node /\ DOMAIN target = Node /\ DOMAIN probed = Node
      /\ DOMAIN prober = Node
  BY DEF IInv, TypeOK, UdpTypeOK
<1>4. Keep
  BY <1>2 DEF Keep
<1>5. \A d \in Node : UdpMove(d)
  BY <1>2 DEF UdpMove
<1>6. \A i \in 1..Len(order) : order[i] \in Other(n)
  <2>1. CASE toProbe[n] = <<>>
    <3>1. \A i \in 1..Len(order) : \E k \in 1..Len(peers[n]) : order[i] = peers[n][k]
      BY <1>1, <1>3, <2>1, ShufflesProps
    <3> QED BY <3>1 DEF IInv, ListsOK
  <2>2. CASE toProbe[n] # <<>>
    BY <1>1, <2>2 DEF IInv, ListsOK
  <2> QED BY <2>1, <2>2
<1>7. order \in Seq(Peer)
  BY <1>1, <1>3, ShufflesProps
<1>8. CASE order = <<>>
  <2>1. /\ target' = [target EXCEPT ![n] = NoPeer]
        /\ UNCHANGED <<toProbe, inbox>> /\ probed' = [probed EXCEPT ![n] = FALSE]
    BY <1>1, <1>8
  <2>2. ASSUME NEW d \in Node PROVE ListsOK(d)'
    BY <1>2, <1>3, <2>1 DEF IInv, ListsOK, Other
  <2>3. ASSUME NEW m \in Node, NEW q \in Node, Waits(m, q)'
        PROVE  Waits(m, q) /\ prober'[m] = prober[m]
    BY <1>2, <1>3, <2>1, <2>3, SelfProps DEF Waits
  <2>4. \A m, q \in Node : /\ Awaited(m, q) => Awaited(m, q)'
                           /\ Relayed(m, q) => Relayed(m, q)'
    BY <1>2, <2>1, SendStep
  <2>5. ProbeOK'
    BY <1>2, <2>3, <2>4 DEF IInv, ProbeOK
  <2>6. \A d \in Node : up'[d] =>
          \A m \in DOMAIN inbox'[d] : m \in DOMAIN inbox[d] \/ MessageOK(d, m)
    BY <2>1
  <2> QED BY <1>2, <1>4, <1>5, <2>2, <2>5, <2>6, KeepStep
<1>9. CASE order # <<>>
  <2> DEFINE p == order[Len(order)]
             front == SubSeq(order, 1, Len(order) - 1)
  <2>1. PICK q0 \in Node \ {n} : p = Self(q0)
    <3>1. p \in Other(n)
      BY <1>6, <1>7, <1>9, FrontProps
    <3> QED BY <3>1 DEF Other
  <2>2. \A i \in 1..Len(front) : front[i] \in Other(n)
    BY <1>6, <1>7, <1>9, FrontProps
  <2>3. /\ target' = [target EXCEPT ![n] = p]
        /\ toProbe' = [toProbe EXCEPT ![n] = front]
        /\ probed' = [probed EXCEPT ![n] = SendFails(n, p.udp)]
        /\ inbox' = Send(inbox, n, p.udp, ProbeFrom(n))
    BY <1>1, <1>9 DEF ProbeFrom
  <2> HIDE DEF p, front
  <2>4. p.udp = q0
    BY <2>1, SelfProps
  <2>5. ~starved[n]
    BY DEF IInv, Calm, Rich
  <2>6. \A d \in Node : DOMAIN inbox'[d] =
          DOMAIN inbox[d] \cup IF d = q0 /\ up[d] THEN {ProbeFrom(n)} ELSE {}
    BY <1>3, <2>3, <2>4, <2>5, SendProps
  <2>7. MessageOK(q0, ProbeFrom(n))
    BY <1>2, <2>1 DEF MessageOK, ProbeFrom
  <2>8. \A d \in Node : up'[d] =>
          \A m \in DOMAIN inbox'[d] : m \in DOMAIN inbox[d] \/ MessageOK(d, m)
    BY <2>6, <2>7
  <2>9. ASSUME NEW d \in Node PROVE ListsOK(d)'
    <3>1. \A i \in 1..Len(toProbe'[d]) : toProbe'[d][i] \in Other(d)
      BY <1>3, <2>2, <2>3 DEF IInv, ListsOK
    <3>2. target'[d] \in Other(d) \cup {NoPeer}
      BY <1>3, <2>1, <2>3 DEF IInv, ListsOK, Other
    <3> QED BY <1>2, <3>1, <3>2 DEF IInv, ListsOK, Other
  <2>10. ASSUME NEW m \in Node, NEW q \in Node, Waits(m, q)'
         PROVE  \/ prober'[m] = "request" /\ (Awaited(m, q)' \/ lost' > 0)
                \/ prober'[m] = "check" /\ lost' > 0 /\ Relayed(m, q)'
    <3>1. CASE m = n
      <4>1. target'[n] = Self(q0) /\ target'[n] = Self(q) /\ up[q]
        BY <1>2, <1>3, <2>1, <2>3, <2>10, <3>1 DEF Waits
      <4>2. q = q0
        BY <4>1, SelfProps
      <4> QED BY <1>2, <1>3, <2>6, <3>1, <4>1, <4>2 DEF Awaited, At
    <3>2. CASE m # n
      <4>1. Waits(m, q) /\ prober'[m] = prober[m]
        BY <1>2, <1>3, <2>3, <2>10, <3>2 DEF Waits
      <4>2. /\ Awaited(m, q) => Awaited(m, q)'
            /\ Relayed(m, q) => Relayed(m, q)'
        BY <1>2, <2>6, SendStep
      <4> QED BY <1>2, <4>1, <4>2 DEF IInv, ProbeOK
    <3> QED BY <3>1, <3>2
  <2>11. ProbeOK'
    BY <2>10 DEF ProbeOK
  <2> QED BY <1>2, <1>4, <1>5, <2>8, <2>9, <2>11, KeepStep
<1> QED BY <1>8, <1>9

(* A node that waits for its answer when the exchange is over lost it to   *)
(* the one datagram that may be lost, and has a third node to ask.         *)
LEMMA SomeoneAsked ==
  ASSUME Timely, Spare, IInv, NEW n \in Node, RequestProbes(n),
         NEW q \in Node, Waits(n, q)
  PROVE  lost > 0 /\ \E h \in Node : RequestFrom(n, q) \in DOMAIN inbox'[h]
<1>1. /\ up[n] /\ up[q] /\ target[n] = Self(q) /\ ~probed[n]
      /\ prober[n] = "request" /\ MayAct(n)
  BY DEF Waits, RequestProbes
<1>2. lost > 0
  BY <1>1, ExchangeEnded DEF IInv, ProbeOK
<1>3. FAN_OUT >= 1 /\ FAN_OUT \in Nat /\ Cardinality(Node) >= 3
  BY <1>2, SizeAssumption DEF Spare, IInv, TypeOK
<1>4. target[n] # NoPeer /\ target[n].udp = q
  BY <1>1, SelfProps
<1>5. PICK third \in Node : third # n /\ third # q
  <2>1. IsFiniteSet(Node) /\ Cardinality(Node) \in Nat
    BY PortAssumption, FS_Subset, FS_CardinalityType
  <2>2. /\ IsFiniteSet(Node \ {n})
        /\ Cardinality(Node \ {n}) = Cardinality(Node) - 1
    BY <2>1, FS_RemoveElement
  <2>3. Cardinality((Node \ {n}) \ {q}) \in
          {Cardinality(Node \ {n}) - 1, Cardinality(Node \ {n})}
    BY <2>2, FS_RemoveElement
  <2>4. Cardinality((Node \ {n}) \ {q}) # 0
    BY <1>3, <2>1, <2>2, <2>3
  <2>5. (Node \ {n}) \ {q} # {}
    BY <2>4, FS_EmptySet
  <2> QED BY <2>5
<1>6. /\ \A h \in Node : up[h] /\ DOMAIN inbox = Node /\ ~starved[n]
      /\ peers[n] \in Seq(Peer)
  BY <1>2 DEF IInv, Calm, Rich, TypeOK, UdpTypeOK
<1>7. PICK i \in 1..Len(peers[n]) : peers[n][i].udp = third
  BY <1>5, <1>6 DEF IInv, Accuracy, IsPeer
<1>8. PICK chosen \in RandomPeers(peers[n], FAN_OUT, q) :
        inbox' = SendToPeers(inbox, n, chosen, RequestFrom(n, q))
  BY <1>1, <1>4 DEF RequestProbes, RequestFrom
<1>9. PICK c \in chosen : c \in 1..Len(peers[n])
  <2>1. chosen # {}
    BY <1>3, <1>5, <1>6, <1>7, <1>8, RandomPeersSome
  <2> QED BY <1>8, <2>1, RandomPeersProps
<1>10. PICK h \in Node : peers[n][c] = Self(h)
  BY <1>9 DEF IInv, ListsOK, Other
<1>11. RequestFrom(n, q) \in DOMAIN inbox'[h]
  <2>1. peers[n][c].udp = h
    BY <1>10, SelfProps
  <2> QED BY <1>6, <1>8, <1>9, <2>1, SendToPeersProps
<1> QED BY <1>2, <1>11

(* request_probes_if_no_ack: the receivers are listed and not the target,  *)
(* and there is one.                                                       *)
LEMMA RequestProbesInv ==
  ASSUME Timely, Spare, IInv, TypeOK', Calm', NEW n \in Node, RequestProbes(n)
  PROVE  IInv'
<1>1. /\ UNCHANGED <<up, starved, peers, udp, bcast, toProbe, target, probed, reqs, lost>>
      /\ prober' = [prober EXCEPT ![n] = "check"]
      /\ prober[n] = "request" /\ up[n]
  BY DEF RequestProbes, MayAct
<1>2. DOMAIN inbox = Node /\ DOMAIN prober = Node
  BY DEF IInv, TypeOK, UdpTypeOK
<1>3. /\ \A d \in Node : DOMAIN inbox[d] \subseteq DOMAIN inbox'[d]
      /\ \A d \in Node : up'[d] =>
           \A m \in DOMAIN inbox'[d] : m \in DOMAIN inbox[d] \/ MessageOK(d, m)
  <2>1. CASE UNCHANGED inbox
    BY <2>1
  <2>2. CASE target[n] # NoPeer
    <3> DEFINE m == [type |-> "REQUEST_PROBE", from |-> n, target |-> target[n].udp]
    <3>1. CASE probed[n]
      BY <2>1, <3>1 DEF RequestProbes
    <3>2. CASE ~probed[n]
      <4>1. PICK chosen \in RandomPeers(peers[n], FAN_OUT, target[n].udp) :
              inbox' = SendToPeers(inbox, n, chosen, m)
        BY <2>2, <3>2 DEF RequestProbes
      <4>2. PICK t \in Node \ {n} : target[n] = Self(t)
        BY <2>2 DEF IInv, ListsOK, Other
      <4>3. ASSUME NEW d \in Node, NEW i \in chosen, peers[n][i].udp = d
            PROVE  MessageOK(d, m)
        <5>1. i \in 1..Len(peers[n]) /\ d # target[n].udp
          BY <4>1, <4>3, RandomPeersProps
        <5>2. peers[n][i] \in Other(n)
          BY <5>1 DEF IInv, ListsOK
        <5>3. d # n
          BY <4>3, <5>2, SelfProps DEF Other
        <5>4. target[n].udp = t
          BY <4>2, SelfProps
        <5> QED BY <4>2, <5>1, <5>3, <5>4 DEF MessageOK
      <4> HIDE DEF m
      <4>4. \A d \in Node :
              DOMAIN inbox'[d] = DOMAIN inbox[d] \cup
                IF ~starved[n] /\ up[d] /\ \E i \in chosen : peers[n][i].udp = d
                THEN {m} ELSE {}
        BY <1>2, <4>1, SendToPeersProps
      <4> QED BY <4>3, <4>4
    <3> QED BY <3>1, <3>2
  <2> QED BY <2>1, <2>2 DEF RequestProbes
<1>4. Keep /\ \A d \in Node : UdpMove(d)
  BY <1>1 DEF Keep, UdpMove
<1>5. \A d \in Node : ListsOK(d)'
  BY <1>1 DEF IInv, ListsOK, Other
<1>6. ASSUME NEW m \in Node, NEW q \in Node, Waits(m, q)'
      PROVE  \/ prober'[m] = "request" /\ (Awaited(m, q)' \/ lost' > 0)
             \/ prober'[m] = "check" /\ lost' > 0 /\ Relayed(m, q)'
  <2>1. Waits(m, q)
    BY <1>1, <1>2, <1>6 DEF Waits
  <2>2. CASE m = n
    BY <1>1, <1>2, <2>1, <2>2, SomeoneAsked DEF Relayed, At
  <2>3. CASE m # n
    <3>1. prober'[m] = prober[m]
      BY <1>1, <1>2, <2>3
    <3>2. /\ Awaited(m, q) => Awaited(m, q)'
          /\ Relayed(m, q) => Relayed(m, q)'
      BY <1>1, <1>3, SendStep
    <3> QED BY <1>1, <2>1, <3>1, <3>2 DEF IInv, ProbeOK
  <2> QED BY <2>2, <2>3
<1>7. ProbeOK'
  BY <1>6 DEF ProbeOK
<1> QED BY <1>1, <1>3, <1>4, <1>5, <1>7, KeepStep

(* check_probed: the exchange is over, so a peer without an answer has     *)
(* stopped, and the running peers stay in the list.                        *)
LEMMA CheckProbedInv ==
  ASSUME Timely, IInv, TypeOK', Calm', NEW n \in Node, CheckProbed(n)
  PROVE  IInv'
<1>1. /\ UNCHANGED <<up, starved, inbox, udp, toProbe, target, probed, reqs, lost>>
      /\ prober' = [prober EXCEPT ![n] = "probe"]
      /\ prober[n] = "check" /\ up[n] /\ MayAct(n)
  BY DEF CheckProbed, MayAct
<1>2. /\ peers \in [Node -> Seq(Peer)] /\ DOMAIN prober = Node
      /\ peers[n] \in Seq(Peer) /\ Len(peers[n]) \in Nat
  BY DEF IInv, TypeOK, UdpTypeOK
<1>4. \A d \in Node : Traffic(d)'
  <2> SUFFICES ASSUME NEW d \in Node PROVE Traffic(d)'
    OBVIOUS
  <2>1. Traffic(d)
    BY DEF IInv
  <2> QED BY <1>1, <2>1 DEF Traffic, MessageOK
<1>5. ASSUME NEW q \in Node, Waits(n, q) PROVE FALSE
  BY <1>1, <1>5, ExchangeEnded DEF IInv, ProbeOK
<1>6. ASSUME NEW m \in Node, NEW q \in Node, Waits(m, q)'
      PROVE  Waits(m, q) /\ prober'[m] = prober[m]
  BY <1>1, <1>2, <1>6 DEF Waits
<1>7. ProbeOK'
  <2>1. \A m, q \in Node : /\ Awaited(m, q) => Awaited(m, q)'
                           /\ Relayed(m, q) => Relayed(m, q)'
    BY <1>1, SendStep
  <2> QED BY <1>1, <1>6, <2>1 DEF IInv, ProbeOK
<1>8. NoRejoin'
  BY <1>1 DEF IInv, NoRejoin
<1>9. CASE peers' = peers
  <2>1. Accuracy'
    BY <1>1, <1>9 DEF IInv, Accuracy
  <2>2. \A d \in Node : ListsOK(d)'
    BY <1>1, <1>9 DEF IInv, ListsOK, Other
  <2> QED BY <1>4, <1>7, <1>8, <2>1, <2>2 DEF IInv
<1>10. CASE target[n] # NoPeer /\ ~probed[n] /\ IdxOf(peers[n], target[n]) # -1
  <2> DEFINE idx == IdxOf(peers[n], target[n])
             left == RemovePeer(peers[n], idx)
  <2>1. peers' = [peers EXCEPT ![n] = left]
    BY <1>10 DEF CheckProbed
  <2>2. PICK t \in Node \ {n} : target[n] = Self(t)
    BY <1>10 DEF IInv, ListsOK, Other
  <2>3. ~up[t]
    BY <1>1, <1>5, <1>10, <2>2 DEF Waits
  <2>4. idx \in -1..Len(peers[n]) - 1 /\ idx # -1 /\ peers[n][idx + 1] = target[n]
    BY <1>2, <1>10, IdxOfProps
  <2> HIDE DEF idx
  <2>5. idx \in 0..Len(peers[n]) - 1
    BY <1>2, <2>4
  <2>6. ASSUME NEW q \in Node, up[q], IsPeer(peers[n], q) PROVE IsPeer(left, q)
    <3>1. PICK k \in 1..Len(peers[n]) : peers[n][k].udp = q
      BY <2>6 DEF IsPeer
    <3>2. k # idx + 1
      BY <2>2, <2>3, <2>4, <2>6, <3>1, SelfProps
    <3>3. \E j \in 1..Len(left) : left[j] = peers[n][k]
      BY <1>2, <2>5, <3>2, RemovePeerKeeps
    <3> QED BY <3>1, <3>3 DEF IsPeer
  <2>7. \A j \in 1..Len(left) : left[j] \in Other(n)
    <3>1. /\ Len(left) = Len(peers[n]) - 1
          /\ \A j \in 1..Len(peers[n]) - 1 : \E i \in 1..Len(peers[n]) : left[j] = peers[n][i]
      BY <1>2, <2>5, RemovePeerProps
    <3> HIDE DEF left
    <3> QED BY <3>1 DEF IInv, ListsOK
  <2> HIDE DEF left
  <2>8. Accuracy'
    <3> SUFFICES ASSUME NEW m \in Node, NEW q \in Node, up[m], up[q], m # q
                 PROVE  IsPeer(peers'[m], q)
      BY <1>1 DEF Accuracy
    <3>1. IsPeer(peers[m], q)
      BY DEF IInv, Accuracy
    <3> QED BY <1>2, <2>1, <2>6, <3>1
  <2>9. ASSUME NEW d \in Node PROVE ListsOK(d)'
    <3>1. \A i \in 1..Len(peers'[d]) : peers'[d][i] \in Other(d)
      BY <1>2, <2>1, <2>7 DEF IInv, ListsOK
    <3> QED BY <1>1, <3>1 DEF IInv, ListsOK, Other
  <2> QED BY <1>4, <1>7, <1>8, <2>8, <2>9 DEF IInv
<1> QED BY <1>9, <1>10 DEF CheckProbed

-----------------------------------------------------------------------------
(* The steps of the UDP thread. *)

(* A sender that runs is a peer, so its datagram is handled next.  Of one  *)
(* that has stopped the datagram may be refused, which nobody is told, and *)
(* for which nobody waits.                                                 *)
LEMMA ReceiveInv ==
  ASSUME IInv, TypeOK', Calm', NEW n \in Node, ReceiveDatagram(n)
  PROVE  IInv'
<1>1. PICK m \in DOMAIN inbox[n] :
        LET rest == [inbox EXCEPT ![n] = Without(@, m)]
        IN  \/ /\ IsPeer(peers[n], m.from)
               /\ udp' = [udp EXCEPT ![n] = [at |-> "handle", msg |-> m]]
               /\ inbox' = rest
            \/ /\ ~IsPeer(peers[n], m.from)
               /\ inbox' = Send(rest, n, m.from, [type |-> "NOT_A_PEER", from |-> n])
               /\ UNCHANGED udp
  BY DEF ReceiveDatagram, Receive
<1>2. /\ up[n] /\ udp[n] = Recv
      /\ UNCHANGED <<up, starved, peers, bcast, toProbe, target, probed, reqs, prober, lost>>
  BY DEF ReceiveDatagram, Receive, fdVars
<1>3. DOMAIN inbox = Node /\ DOMAIN udp = Node
  BY DEF IInv, TypeOK, UdpTypeOK
<1>4. MessageOK(n, m)
  BY <1>2 DEF IInv, Traffic
<1>5. up[m.from] => IsPeer(peers[n], m.from)
  BY <1>2, <1>4 DEF MessageOK, IInv, Accuracy
<1>6. /\ \A d \in Node : DOMAIN inbox'[d] \subseteq DOMAIN inbox[d]
      /\ \A d \in Node : d # n => DOMAIN inbox'[d] = DOMAIN inbox[d] /\ udp'[d] = udp[d]
      /\ DOMAIN inbox[n] \ {m} \subseteq DOMAIN inbox'[n]
      /\ \/ udp'[n] = [at |-> "handle", msg |-> m]
         \/ udp'[n] = udp[n] /\ ~up[m.from]
  <2> DEFINE rest == [inbox EXCEPT ![n] = Without(@, m)]
  <2>1. /\ DOMAIN rest = Node
        /\ \A d \in Node : d # n => rest[d] = inbox[d]
        /\ DOMAIN rest[n] \subseteq DOMAIN inbox[n]
        /\ DOMAIN inbox[n] \ {m} \subseteq DOMAIN rest[n]
    BY <1>3, WithoutDomain
  <2>2. CASE udp' = [udp EXCEPT ![n] = [at |-> "handle", msg |-> m]] /\ inbox' = rest
    BY <1>3, <2>1, <2>2
  <2>3. CASE /\ ~IsPeer(peers[n], m.from) /\ UNCHANGED udp
             /\ inbox' = Send(rest, n, m.from, [type |-> "NOT_A_PEER", from |-> n])
    <3>1. ~up[m.from]
      BY <1>5, <2>3
    <3> DEFINE told == [type |-> "NOT_A_PEER", from |-> n]
    <3> HIDE DEF rest, told
    <3>2. \A d \in Node : DOMAIN Send(rest, n, m.from, told)[d] = DOMAIN rest[d]
      BY <2>1, <3>1, SendProps
    <3>3. \A d \in Node : DOMAIN inbox'[d] = DOMAIN rest[d]
      BY <2>3, <3>2 DEF told
    <3> QED BY <2>1, <2>3, <3>1, <3>3
  <2> QED BY <1>1, <2>2, <2>3
<1>7. Keep /\ \A d \in Node : UdpMove(d)
  BY <1>2, <1>6 DEF Keep, UdpMove
<1>8. \A d \in Node : ListsOK(d)'
  BY <1>2 DEF IInv, ListsOK, Other
<1>9. \A l, q \in Node : Waits(l, q)' => Waits(l, q)
  BY <1>2 DEF Waits
<1>10. \A d \in Node : \A x : At(d, x) /\ (d # n \/ x # m \/ up[m.from]) => At(d, x)'
  <2> SUFFICES ASSUME NEW d \in Node, NEW x, At(d, x), d # n \/ x # m \/ up[m.from]
               PROVE  At(d, x)'
    OBVIOUS
  <2>1. CASE d = n
    <3>1. udp[d] # [at |-> "handle", msg |-> x]
      BY <1>2, <2>1 DEF Recv
    <3> QED BY <1>6, <2>1, <3>1 DEF At
  <2>2. CASE d # n
    BY <1>6, <2>2 DEF At
  <2> QED BY <2>1, <2>2
<1>11. ASSUME NEW l \in Node, NEW q \in Node, up[l], up[q], Awaited(l, q)
       PROVE  Awaited(l, q)'
  <2>1. CASE At(q, ProbeFrom(l))
    <3>1. ProbeFrom(l).from = l
      BY DEF ProbeFrom
    <3>2. At(q, ProbeFrom(l))'
      BY <1>10, <1>11, <2>1, <3>1
    <3> QED BY <3>2 DEF Awaited
  <2>2. CASE At(l, AckFrom(q))
    <3>1. AckFrom(q).from = q
      BY DEF AckFrom
    <3>2. At(l, AckFrom(q))'
      BY <1>10, <1>11, <2>2, <3>1
    <3> QED BY <3>2 DEF Awaited
  <2> QED BY <1>11, <2>1, <2>2 DEF Awaited
<1>12. ASSUME NEW l \in Node, NEW q \in Node, lost > 0, Relayed(l, q)
       PROVE  Relayed(l, q)'
  <2>1. up[m.from]
    BY <1>4, <1>12 DEF IInv, Calm, MessageOK
  <2>2. \A d \in Node : \A x : At(d, x) => At(d, x)'
    BY <1>10, <2>1
  <2>3. \A d \in Node : udp[d].at = "fulfil" => udp'[d] = udp[d]
    BY <1>2, <1>6 DEF Recv
  <2> QED BY <1>2, <1>12, <2>2, <2>3, StaysStep
<1>13. ProbeOK'
  <2>1. \A l, q \in Node : Waits(l, q)' => up[l] /\ up[q]
    BY <1>2 DEF Waits
  <2> QED BY <1>2, <1>9, <1>11, <1>12, <2>1, ProbeStep DEF IInv
<1>14. \A d \in Node : up'[d] =>
         \A x \in DOMAIN inbox'[d] : x \in DOMAIN inbox[d] \/ MessageOK(d, x)
  BY <1>6
<1> QED BY <1>2, <1>7, <1>8, <1>13, <1>14, KeepStep

(* The prober that sent the PROBE is listed and running, or has stopped:   *)
(* the ACK_PROBE is on its way before the handler ends.                    *)
LEMMA HandleProbeInv ==
  ASSUME IInv, TypeOK', Calm', NEW n \in Node, HandleProbe(n)
  PROVE  IInv'
<1> DEFINE to == udp[n].msg.from
<1>1. /\ up[n] /\ udp[n].at = "handle" /\ udp[n].msg.type = "PROBE"
      /\ udp' = [udp EXCEPT ![n] = Recv]
      /\ inbox' = Send(inbox, n, to, AckFrom(n))
      /\ UNCHANGED <<up, starved, peers, bcast, toProbe, target, probed, reqs, prober, lost>>
  BY DEF HandleProbe, Handling, fdVars, AckFrom
<1>2. DOMAIN inbox = Node /\ DOMAIN udp = Node
  BY DEF IInv, TypeOK, UdpTypeOK
<1>3. MessageOK(n, udp[n].msg)
  BY <1>1 DEF IInv, Traffic
<1> HIDE DEF to
<1>4. to \in Node /\ to # n
  BY <1>3 DEF MessageOK, to
<1>5. \A d \in Node : DOMAIN inbox'[d] =
        DOMAIN inbox[d] \cup IF d = to /\ up[d] THEN {AckFrom(n)} ELSE {}
  BY <1>1, <1>2, SendProps DEF IInv, Calm, Rich
<1>6. MessageOK(to, AckFrom(n))
  BY <1>4 DEF MessageOK, AckFrom
<1>7. Keep /\ \A d \in Node : UdpMove(d)
  BY <1>1, <1>2 DEF Keep, UdpMove
<1>8. \A d \in Node : ListsOK(d)'
  BY <1>1 DEF IInv, ListsOK, Other
<1>9. \A l, q \in Node : Waits(l, q)' => Waits(l, q)
  BY <1>1 DEF Waits
<1>10. \A d \in Node : \A x : At(d, x) /\ (d # n \/ x.type # "PROBE") => At(d, x)'
  <2> SUFFICES ASSUME NEW d \in Node, NEW x, At(d, x), d # n \/ x.type # "PROBE"
               PROVE  At(d, x)'
    OBVIOUS
  <2>1. d # n => udp'[d] = udp[d]
    BY <1>1, <1>2
  <2>2. udp[d] = [at |-> "handle", msg |-> x] => d # n
    BY <1>1
  <2> QED BY <1>5, <2>1, <2>2 DEF At
<1>11. ASSUME NEW l \in Node, NEW q \in Node, up[l], Awaited(l, q)
       PROVE  Awaited(l, q)'
  <2>1. CASE At(l, AckFrom(q))
    BY <1>10, <2>1 DEF Awaited, AckFrom
  <2>2. CASE At(q, ProbeFrom(l)) /\ q # n
    BY <1>10, <2>2 DEF Awaited
  <2>3. CASE ProbeFrom(l) \in DOMAIN inbox[q]
    BY <1>5, <2>3 DEF Awaited, At
  <2>4. CASE q = n /\ udp[n] = [at |-> "handle", msg |-> ProbeFrom(l)]
    <3>1. l = to
      BY <2>4 DEF to, ProbeFrom
    <3>2. AckFrom(q) \in DOMAIN inbox'[l]
      BY <1>5, <1>11, <2>4, <3>1
    <3> QED BY <3>2 DEF Awaited, At
  <2> QED BY <1>11, <2>1, <2>2, <2>3, <2>4 DEF Awaited, At
<1>13. ASSUME NEW l \in Node, NEW q \in Node, lost > 0, Relayed(l, q)
       PROVE  Relayed(l, q)'
  <2>1. \A h \in Node : up[h]
    BY <1>13 DEF IInv, Calm
  <2>2. CASE At(l, AckFrom(q))
    BY <1>10, <2>2 DEF Relayed, AckFrom
  <2>3. ASSUME NEW h \in Node, At(h, RequestFrom(l, q)) PROVE Relayed(l, q)'
    BY <1>10, <2>3 DEF Relayed, RequestFrom
  <2>4. ASSUME NEW h \in Node, Helps(h, l, q) PROVE Relayed(l, q)'
    <3>1. Asked(h, l, q)'
      BY <1>1, <2>4 DEF Helps, Asked
    <3>2. Awaited(h, q) => Awaited(h, q)'
      BY <1>11, <2>1
    <3>3. udp[h] = [at |-> "fulfil", acked |-> q] => udp'[h] = udp[h]
      BY <1>1, <1>2
    <3>4. Helps(h, l, q)'
      BY <2>4, <3>1, <3>2, <3>3 DEF Helps
    <3> QED BY <3>4 DEF Relayed
  <2> QED BY <1>13, <2>2, <2>3, <2>4 DEF Relayed
<1>14. ProbeOK'
  <2>1. \A l, q \in Node : Waits(l, q)' => up[l]
    BY <1>1 DEF Waits
  <2> QED BY <1>1, <1>9, <1>11, <1>13, <2>1, ProbeStep DEF IInv
<1>12. \A d \in Node : up'[d] =>
         \A m \in DOMAIN inbox'[d] : m \in DOMAIN inbox[d] \/ MessageOK(d, m)
  BY <1>5, <1>6
<1> QED BY <1>1, <1>7, <1>8, <1>12, <1>14, KeepStep

(* The answer that the node waited for makes it wait no more. *)
LEMMA HandleAckInv ==
  ASSUME IInv, TypeOK', Calm', NEW n \in Node, HandleAck(n)
  PROVE  IInv'
<1> DEFINE p == udp[n].msg.from
<1>1. /\ up[n] /\ udp[n].at = "handle" /\ udp[n].msg.type = "ACK_PROBE"
      /\ udp' = [udp EXCEPT ![n] = [at |-> "fulfil", acked |-> p]]
      /\ probed' = [probed EXCEPT ![n] = @ \/ target[n].udp = p]
      /\ UNCHANGED <<up, starved, peers, inbox, bcast, toProbe, target, reqs, prober, lost>>
  BY DEF HandleAck, Handling
<1>2. DOMAIN udp = Node /\ DOMAIN probed = Node
  BY DEF IInv, TypeOK, UdpTypeOK
<1>3. Keep /\ \A d \in Node : UdpMove(d)
  BY <1>1, <1>2 DEF Keep, UdpMove
<1>4. \A d \in Node : ListsOK(d)'
  BY <1>1 DEF IInv, ListsOK, Other
<1>5. \A l, q \in Node : Waits(l, q)' => Waits(l, q)
  BY <1>1, <1>2 DEF Waits
<1>6. \A d \in Node : \A x : At(d, x) /\ (d # n \/ x # udp[n].msg) => At(d, x)'
  <2> SUFFICES ASSUME NEW d \in Node, NEW x, At(d, x), d # n \/ x # udp[n].msg
               PROVE  At(d, x)'
    OBVIOUS
  <2>1. d # n => udp'[d] = udp[d]
    BY <1>1, <1>2
  <2> QED BY <1>1, <2>1 DEF At
<1>7. ASSUME NEW l \in Node, NEW q \in Node, Waits(l, q)'
      PROVE  ~(l = n /\ AckFrom(q) = udp[n].msg)
  <2> SUFFICES ASSUME l = n, AckFrom(q) = udp[n].msg PROVE FALSE
    OBVIOUS
  <2>1. p = q
    BY DEF AckFrom
  <2>2. target[n].udp = q
    BY <1>1, <1>7, SelfProps DEF Waits
  <2>3. probed'[n]
    BY <1>1, <1>2, <2>1, <2>2
  <2> QED BY <1>7, <2>3 DEF Waits
<1>8. \A l, q \in Node : At(q, ProbeFrom(l)) => At(q, ProbeFrom(l))'
  <2>1. \A l \in Node : ProbeFrom(l) # udp[n].msg
    BY <1>1 DEF ProbeFrom
  <2> QED BY <1>6, <2>1
<1>9. ASSUME NEW l \in Node, NEW q \in Node, Waits(l, q)', Awaited(l, q)
      PROVE  Awaited(l, q)'
  BY <1>6, <1>7, <1>8, <1>9 DEF Awaited
<1>10. ASSUME NEW l \in Node, NEW q \in Node, Waits(l, q)', Relayed(l, q)
       PROVE  Relayed(l, q)'
  <2>1. CASE At(l, AckFrom(q))
    BY <1>6, <1>7, <1>10, <2>1 DEF Relayed
  <2>2. ASSUME NEW h \in Node, At(h, RequestFrom(l, q)) PROVE Relayed(l, q)'
    <3>1. RequestFrom(l, q) # udp[n].msg
      BY <1>1 DEF RequestFrom
    <3> QED BY <1>6, <2>2, <3>1 DEF Relayed
  <2>3. ASSUME NEW h \in Node, Helps(h, l, q) PROVE Relayed(l, q)'
    <3>1. Asked(h, l, q)'
      BY <1>1, <2>3 DEF Helps, Asked
    <3>2. CASE At(q, ProbeFrom(h))
      BY <1>8, <2>3, <3>1, <3>2 DEF Relayed, Helps, Awaited
    <3>3. CASE At(h, AckFrom(q)) /\ ~(h = n /\ AckFrom(q) = udp[n].msg)
      BY <1>6, <3>1, <3>3 DEF Relayed, Helps, Awaited
    <3>4. CASE h = n /\ AckFrom(q) = udp[n].msg
      <4>1. p = q
        BY <3>4 DEF AckFrom
      <4>2. udp'[h] = [at |-> "fulfil", acked |-> q]
        BY <1>1, <1>2, <3>4, <4>1
      <4> QED BY <3>1, <4>2 DEF Relayed, Helps
    <3>5. CASE udp[h] = [at |-> "fulfil", acked |-> q]
      <4>1. udp'[h] = udp[h]
        BY <1>1, <1>2, <3>5
      <4> QED BY <3>1, <3>5, <4>1 DEF Relayed, Helps
    <3> QED BY <2>3, <3>2, <3>3, <3>4, <3>5 DEF Helps, Awaited
  <2> QED BY <1>10, <2>1, <2>2, <2>3 DEF Relayed
<1>11. ProbeOK'
  BY <1>1, <1>5, <1>9, <1>10, ProbeStep DEF IInv
<1> QED BY <1>1, <1>3, <1>4, <1>11, KeepStep

(* An answer is passed on to a node that asked about another one. *)
LEMMA FulfilInv ==
  ASSUME IInv, TypeOK', Calm', NEW n \in Node, FulfilRequestProbes(n)
  PROVE  IInv'
<1> DEFINE p == udp[n].acked
<1>1. /\ up[n] /\ udp[n].at = "fulfil"
      /\ udp' = [udp EXCEPT ![n] = Recv]
      /\ UNCHANGED <<up, starved, peers, bcast, toProbe, target, probed, prober, lost>>
  BY DEF FulfilRequestProbes
<1>2. DOMAIN inbox = Node /\ DOMAIN udp = Node /\ DOMAIN reqs = Node /\ TypeOK
  BY DEF IInv, TypeOK, UdpTypeOK
<1>3. p \in Node
  BY <1>1 DEF IInv, Traffic
<1>4. /\ reqs' = [reqs EXCEPT ![n] = reqs'[n]]
      /\ \A j \in 1..Len(reqs'[n]) : \E i \in 1..Len(reqs[n]) : reqs'[n][j] = reqs[n][i]
  BY <1>2, FulfilProps
<1> HIDE DEF p
<1>5. ASSUME NEW d \in Node
      PROVE  /\ DOMAIN inbox[d] \subseteq DOMAIN inbox'[d]
             /\ \A m \in DOMAIN inbox'[d] : m \in DOMAIN inbox[d] \/ MessageOK(d, m)
  <2>1. \/ inbox'[d] = inbox[d]
        \/ /\ DOMAIN inbox'[d] = DOMAIN inbox[d] \cup {AckFrom(p)}
           /\ \E i \in 1..Len(reqs[n]) : reqs[n][i].requestor = d /\ reqs[n][i].target = p
    BY <1>2, FulfilProps DEF AckFrom, p
  <2>2. CASE inbox'[d] = inbox[d]
    BY <2>2
  <2>3. CASE /\ DOMAIN inbox'[d] = DOMAIN inbox[d] \cup {AckFrom(p)}
             /\ \E i \in 1..Len(reqs[n]) : reqs[n][i].requestor = d /\ reqs[n][i].target = p
    <3>1. d # p
      BY <2>3 DEF IInv, ListsOK
    <3>2. MessageOK(d, AckFrom(p))
      BY <1>3, <3>1 DEF MessageOK, AckFrom
    <3> QED BY <2>3, <3>2
  <2> QED BY <2>1, <2>2, <2>3
<1>6. Keep /\ \A d \in Node : UdpMove(d)
  BY <1>1, <1>2 DEF Keep, UdpMove
<1>7. ASSUME NEW d \in Node PROVE ListsOK(d)'
  <2>1. \A i \in 1..Len(reqs'[d]) : /\ reqs'[d][i].requestor \in Node
                                    /\ reqs'[d][i].requestor # reqs'[d][i].target
    <3>1. CASE d = n
      BY <1>4, <3>1 DEF IInv, ListsOK
    <3>2. CASE d # n
      BY <1>2, <1>4, <3>2 DEF IInv, ListsOK
    <3> QED BY <3>1, <3>2
  <2> QED BY <1>1, <2>1 DEF IInv, ListsOK, Other
<1>8. \A l, q \in Node : Waits(l, q)' => Waits(l, q)
  BY <1>1 DEF Waits
<1>9. \A d \in Node : \A x : At(d, x) => At(d, x)'
  <2> SUFFICES ASSUME NEW d \in Node, NEW x, At(d, x) PROVE At(d, x)'
    OBVIOUS
  <2>1. udp[d] = [at |-> "handle", msg |-> x] => udp'[d] = udp[d]
    BY <1>1, <1>2
  <2> QED BY <1>5, <2>1 DEF At
<1>10. \A l, q \in Node : Awaited(l, q) => Awaited(l, q)'
  BY <1>9 DEF Awaited
<1>11. ASSUME NEW l \in Node, NEW q \in Node, up[l], Relayed(l, q)
       PROVE  Relayed(l, q)'
  <2>1. CASE At(l, AckFrom(q)) \/ \E h \in Node : At(h, RequestFrom(l, q))
    BY <1>9, <2>1 DEF Relayed
  <2>2. ASSUME NEW h \in Node, h # n, Helps(h, l, q) PROVE Relayed(l, q)'
    <3>1. reqs'[h] = reqs[h] /\ udp'[h] = udp[h]
      BY <1>1, <1>2, <1>4, <2>2
    <3> QED BY <1>10, <2>2, <3>1 DEF Relayed, Helps, Asked
  <2>3. ASSUME Helps(n, l, q) PROVE Relayed(l, q)'
    <3>1. PICK i \in 1..Len(reqs[n]) :
            reqs[n][i] = [target |-> q, requestor |-> l, fresh |-> TRUE]
      BY <2>3 DEF Helps, Asked
    <3>2. reqs[n][i].fresh /\ reqs[n][i].target = q /\ reqs[n][i].requestor = l
      BY <3>1
    <3>3. ~starved[n]
      BY DEF IInv, Calm, Rich
    <3>4. CASE p = q
      <4>1. AckFrom(q) \in DOMAIN inbox'[l]
        BY <1>2, <1>11, <3>2, <3>3, <3>4, FulfilProps DEF AckFrom, p
      <4> QED BY <4>1 DEF Relayed, At
    <3>5. CASE p # q
      <4>1. \E j \in 1..Len(reqs'[n]) : reqs'[n][j] = reqs[n][i]
        <5>1. reqs[n][i].target # udp[n].acked /\ reqs[n][i].fresh
          BY <3>2, <3>5 DEF p
        <5>2. \A k \in 1..Len(reqs[n]) :
                reqs[n][k].fresh /\ reqs[n][k].target # udp[n].acked =>
                  \E j \in 1..Len(reqs'[n]) : reqs'[n][j] = reqs[n][k]
          BY <1>2, FulfilProps
        <5> QED BY <5>1, <5>2
      <4>2. Asked(n, l, q)'
        BY <3>1, <4>1 DEF Asked
      <4>3. Awaited(n, q)
        BY <2>3, <3>5 DEF Helps, p
      <4> QED BY <1>10, <4>2, <4>3 DEF Relayed, Helps
    <3> QED BY <3>4, <3>5
  <2> QED BY <1>11, <2>1, <2>2, <2>3 DEF Relayed
<1>12. ProbeOK'
  <2>1. \A l, q \in Node : Waits(l, q)' => up[l]
    BY <1>1 DEF Waits
  <2> QED BY <1>1, <1>8, <1>10, <1>11, <2>1, ProbeStep DEF IInv
<1> QED BY <1>1, <1>5, <1>6, <1>7, <1>12, KeepStep

(* When a node stops, nobody waits for it or with it any more, and no      *)
(* datagram was lost.                                                      *)
LEMMA StopInv ==
  ASSUME IInv, TypeOK', Calm', NEW n \in Node, Stop(n)
  PROVE  IInv'
<1>1. /\ UNCHANGED starved /\ \A d \in Node : up'[d] => up[d] /\ d # n
      /\ \A d \in Node : d # n => /\ peers'[d] = peers[d] /\ inbox'[d] = inbox[d]
                                  /\ udp'[d] = udp[d] /\ toProbe'[d] = toProbe[d]
                                  /\ target'[d] = target[d] /\ probed'[d] = probed[d]
                                  /\ reqs'[d] = reqs[d] /\ prober'[d] = prober[d]
  BY DEF IInv, TypeOK, UdpTypeOK, Stop
<1>2. /\ peers'[n] = <<>> /\ udp'[n] = Recv /\ toProbe'[n] = <<>> /\ target'[n] = NoPeer
      /\ reqs'[n] = <<>> /\ inbox'[n] = EmptyBag
  BY DEF IInv, TypeOK, UdpTypeOK, Stop
<1>3. Keep
  <2>1. DOMAIN up = Node /\ DOMAIN up' = Node
    BY DEF IInv, TypeOK, UdpTypeOK
  <2> QED BY <1>1 DEF Keep
<1>4. \A d \in Node : UdpMove(d)
  BY <1>1, <1>2 DEF UdpMove
<1>5. ASSUME NEW d \in Node PROVE ListsOK(d)'
  <2>1. CASE d = n
    BY <1>2, <2>1 DEF ListsOK
  <2>2. CASE d # n
    BY <1>1, <2>2 DEF IInv, ListsOK, Other
  <2> QED BY <2>1, <2>2
<1>6. \A l, q \in Node : Waits(l, q)' => Waits(l, q)
  BY <1>1 DEF Waits
<1>7. \A l, q \in Node : Waits(l, q)' /\ Awaited(l, q) => Awaited(l, q)'
  BY <1>1 DEF Waits, Awaited, At
<1>8. ProbeOK'
  <2>1. lost = 0 /\ lost' = 0
    <3>1. ~up'[n] /\ lost' = lost
      BY <1>3 DEF Stop, IInv, TypeOK, UdpTypeOK
    <3> QED BY <3>1 DEF Calm
  <2>2. \A l, q \in Node : Waits(l, q)' => prober'[l] = prober[l]
    BY <1>1 DEF Waits
  <2> QED BY <1>6, <1>7, <2>1, <2>2 DEF IInv, ProbeOK
<1>9. \A d \in Node : up'[d] =>
        \A m \in DOMAIN inbox'[d] : m \in DOMAIN inbox[d] \/ MessageOK(d, m)
  BY <1>1
<1> QED BY <1>1, <1>3, <1>4, <1>5, <1>8, <1>9, KeepStep

(* A request names neither its sender nor its receiver, so that the PROBE  *)
(* and the answer go to others.                                            *)
LEMMA HandleRequestProbeInv ==
  ASSUME IInv, TypeOK', Calm', NEW n \in Node, HandleRequestProbe(n)
  PROVE  IInv'
<1> DEFINE m == udp[n].msg
           r == [target |-> m.target, requestor |-> m.from, fresh |-> TRUE]
<1>1. CASE Stop(n)
  BY <1>1, StopInv
<1>2. CASE ~(Len(reqs[n]) >= CAPACITY)
  <2>1. /\ up[n] /\ udp[n].at = "handle" /\ m.type = "REQUEST_PROBE"
        /\ reqs' = [reqs EXCEPT ![n] = Append(@, r)]
        /\ inbox' = Send(inbox, n, m.target, ProbeFrom(n))
        /\ probed' = [probed EXCEPT ![n] = @ \/ SendFails(n, m.target)]
        /\ udp' = [udp EXCEPT ![n] = Recv]
        /\ UNCHANGED <<up, starved, peers, bcast, toProbe, target, prober, lost>>
    BY <1>2 DEF HandleRequestProbe, Handling, ProbeFrom
  <2>2. /\ DOMAIN inbox = Node /\ DOMAIN udp = Node /\ DOMAIN reqs = Node
        /\ DOMAIN probed = Node /\ reqs[n] \in Seq(Request) /\ Len(reqs[n]) \in Nat
    BY DEF IInv, TypeOK, UdpTypeOK
  <2>3. MessageOK(n, m)
    BY <2>1 DEF IInv, Traffic
  <2>4. m.target \in Node /\ m.target # n /\ m.from \in Node /\ m.from # m.target
    BY <2>1, <2>3 DEF MessageOK
  <2>5. udp[n] # Recv /\ \A x \in Node : /\ udp[n] # [at |-> "handle", msg |-> ProbeFrom(x)]
                                         /\ udp[n] # [at |-> "handle", msg |-> AckFrom(x)]
    BY <2>1 DEF Recv, ProbeFrom, AckFrom
  <2>6. r \in Request /\ r.requestor \in Node /\ r.requestor # r.target
    BY <2>4, PortAssumption DEF Request
  <2> HIDE DEF m, r
  <2>7. \A d \in Node : DOMAIN inbox'[d] =
          DOMAIN inbox[d] \cup IF d = m.target /\ up[d] THEN {ProbeFrom(n)} ELSE {}
    BY <2>1, <2>2, SendProps DEF IInv, Calm, Rich
  <2>8. MessageOK(m.target, ProbeFrom(n))
    BY <2>4 DEF MessageOK, ProbeFrom
  <2>9. \A d \in Node : up'[d] =>
          \A x \in DOMAIN inbox'[d] : x \in DOMAIN inbox[d] \/ MessageOK(d, x)
    BY <2>7, <2>8
  <2>10. Keep /\ \A d \in Node : UdpMove(d)
    BY <2>1, <2>2 DEF Keep, UdpMove
  <2>11. ASSUME NEW d \in Node PROVE ListsOK(d)'
    <3>1. \A i \in 1..Len(reqs'[d]) : /\ reqs'[d][i].requestor \in Node
                                      /\ reqs'[d][i].requestor # reqs'[d][i].target
      <4>1. CASE d = n
        <5> DEFINE new == Append(reqs[n], r)
        <5>1. /\ reqs'[n] = new /\ Len(new) = Len(reqs[n]) + 1
              /\ new[Len(reqs[n]) + 1] = r
              /\ \A i \in 1..Len(reqs[n]) : new[i] = reqs[n][i]
          BY <2>1, <2>2, <2>6, AppendProperties
        <5> HIDE DEF new
        <5>2. \A i \in 1..Len(new) : i \in 1..Len(reqs[n]) \/ i = Len(reqs[n]) + 1
          BY <2>2, <5>1
        <5> QED BY <2>6, <4>1, <5>1, <5>2 DEF IInv, ListsOK
      <4>2. CASE d # n
        BY <2>1, <2>2, <4>2 DEF IInv, ListsOK
      <4> QED BY <4>1, <4>2
    <3> QED BY <2>1, <3>1 DEF IInv, ListsOK, Other
  <2>12. \A l, q \in Node : Waits(l, q)' => Waits(l, q)
    BY <2>1, <2>2 DEF Waits
  <2>13. \A d \in Node : \A x : At(d, x) /\ (d # n \/ x # m) => At(d, x)'
    <3> SUFFICES ASSUME NEW d \in Node, NEW x, At(d, x), d # n \/ x # m
                 PROVE  At(d, x)'
      OBVIOUS
    <3>1. d # n => udp'[d] = udp[d]
      BY <2>1, <2>2
    <3> QED BY <2>7, <3>1 DEF At, m
  <2>14. \A l, q \in Node : Awaited(l, q) => Awaited(l, q)'
    <3>1. \A x \in Node : m # ProbeFrom(x) /\ m # AckFrom(x)
      BY <2>1 DEF ProbeFrom, AckFrom
    <3> QED BY <2>13, <3>1 DEF Awaited
  <2>15. /\ \A h, l, q \in Node : Asked(h, l, q) => Asked(h, l, q)'
         /\ \A l, q \in Node : m.from = l /\ m.target = q => Asked(n, l, q)'
    <3> DEFINE new == Append(reqs[n], r)
    <3>1. /\ reqs'[n] = new /\ Len(new) = Len(reqs[n]) + 1
          /\ new[Len(reqs[n]) + 1] = r
          /\ \A i \in 1..Len(reqs[n]) : new[i] = reqs[n][i]
      BY <2>1, <2>2, <2>6, AppendProperties
    <3> HIDE DEF new
    <3>2. 1..Len(reqs[n]) \subseteq 1..Len(new) /\ Len(reqs[n]) + 1 \in 1..Len(new)
      BY <2>2, <3>1
    <3>3. \A h \in Node : h # n => reqs'[h] = reqs[h]
      BY <2>1, <2>2
    <3>4. \A h, l, q \in Node : Asked(h, l, q) => Asked(h, l, q)'
      <4> SUFFICES ASSUME NEW h \in Node, NEW l \in Node, NEW q \in Node, Asked(h, l, q)
                   PROVE  Asked(h, l, q)'
        OBVIOUS
      <4>1. CASE h # n
        BY <3>3, <4>1 DEF Asked
      <4>2. CASE h = n
        BY <3>1, <3>2, <4>2 DEF Asked
      <4> QED BY <4>1, <4>2
    <3>5. ASSUME NEW l \in Node, NEW q \in Node, m.from = l, m.target = q
          PROVE  Asked(n, l, q)'
      <4>1. r = [target |-> q, requestor |-> l, fresh |-> TRUE]
        BY <3>5 DEF r
      <4> QED BY <3>1, <3>2, <4>1 DEF Asked
    <3> QED BY <3>4, <3>5
  <2>16. ASSUME NEW l \in Node, NEW q \in Node, up[q], Relayed(l, q)
         PROVE  Relayed(l, q)'
    <3>1. CASE At(l, AckFrom(q))
      <4>1. m # AckFrom(q)
        BY <2>1 DEF AckFrom
      <4> QED BY <2>13, <3>1, <4>1 DEF Relayed
    <3>2. ASSUME NEW h \in Node, At(h, RequestFrom(l, q)), h # n \/ RequestFrom(l, q) # m
          PROVE  Relayed(l, q)'
      BY <2>13, <3>2 DEF Relayed
    <3>3. CASE RequestFrom(l, q) = m
      <4>1. m.from = l /\ m.target = q
        BY <3>3 DEF RequestFrom
      <4>2. ProbeFrom(n) \in DOMAIN inbox'[q]
        BY <2>7, <2>16, <4>1
      <4>3. Awaited(n, q)'
        BY <4>2 DEF Awaited, At
      <4>4. Asked(n, l, q)'
        BY <2>15, <4>1
      <4> QED BY <4>3, <4>4 DEF Relayed, Helps
    <3>4. ASSUME NEW h \in Node, Helps(h, l, q) PROVE Relayed(l, q)'
      <4>1. udp[h] = [at |-> "fulfil", acked |-> q] => udp'[h] = udp[h]
        BY <2>1, <2>2
      <4>2. Asked(h, l, q)' /\ (Awaited(h, q) => Awaited(h, q)')
        BY <2>14, <2>15, <3>4 DEF Helps
      <4>3. Helps(h, l, q)'
        BY <3>4, <4>1, <4>2 DEF Helps
      <4> QED BY <4>3 DEF Relayed
    <3> QED BY <2>16, <3>1, <3>2, <3>3, <3>4 DEF Relayed
  <2>17. ProbeOK'
    <3>1. \A l, q \in Node : Waits(l, q)' => up[q]
      BY <2>1 DEF Waits
    <3> QED BY <2>1, <2>12, <2>14, <2>16, <3>1, ProbeStep DEF IInv
  <2> QED BY <2>1, <2>9, <2>10, <2>11, <2>17, KeepStep
<1> QED BY <1>1, <1>2 DEF HandleRequestProbe

(* Time passes, which no request outlasts that is being answered.          *)
LEMMA ExpireInv ==
  ASSUME Timely, IInv, TypeOK', Calm', NEW n \in Node, Expire(n)
  PROVE  IInv'
<1>1. PICK i \in 1..Len(reqs[n]) :
        /\ reqs' = [reqs EXCEPT ![n][i].fresh = FALSE]
        /\ ~InStep => ~Helps(n, reqs[n][i].requestor, reqs[n][i].target)
  BY DEF Expire, IInv, NoRejoin, NobodySleeps
<1>2. UNCHANGED <<up, starved, peers, inbox, udp, bcast, toProbe, target, probed, prober, lost>>
  BY DEF Expire, udpVars
<1>3. DOMAIN reqs = Node /\ reqs[n] \in Seq(Request) /\ reqs[n][i] \in Request
  <2>1. DOMAIN reqs = Node /\ reqs[n] \in Seq(Request)
    BY DEF IInv, TypeOK
  <2> QED BY <1>1, <2>1, ElementOfSeq
<1>4. ASSUME NEW d \in Node PROVE ListsOK(d)'
  <2>1. \A k \in 1..Len(reqs'[d]) : /\ reqs'[d][k].requestor \in Node
                                    /\ reqs'[d][k].requestor # reqs'[d][k].target
    <3>1. CASE d = n
      <4> DEFINE e == [reqs[n][i] EXCEPT !.fresh = FALSE]
      <4>1. /\ reqs'[n] = [reqs[n] EXCEPT ![i] = e]
            /\ e \in Request /\ e.requestor = reqs[n][i].requestor
            /\ e.target = reqs[n][i].target
        BY <1>1, <1>3 DEF Request
      <4> HIDE DEF e
      <4>2. /\ Len(reqs'[n]) = Len(reqs[n])
            /\ \A k \in 1..Len(reqs[n]) : reqs'[n][k] = IF k = i THEN e ELSE reqs[n][k]
        <5> DEFINE s == reqs[n]
        <5>1. s \in Seq(Request) /\ i \in 1..Len(s) /\ e \in Request
          BY <1>1, <1>3, <4>1
        <5> HIDE DEF s
        <5>2. /\ Len([s EXCEPT ![i] = e]) = Len(s)
              /\ \A k \in 1..Len(s) : [s EXCEPT ![i] = e][k] = IF k = i THEN e ELSE s[k]
          BY <5>1, ExceptSeq
        <5> QED BY <4>1, <5>2 DEF s
      <4> QED BY <3>1, <4>1, <4>2 DEF IInv, ListsOK
    <3>2. CASE d # n
      BY <1>1, <1>3, <3>2 DEF IInv, ListsOK
    <3> QED BY <3>1, <3>2
  <2> QED BY <1>2, <2>1 DEF IInv, ListsOK, Other
<1>5. Keep /\ \A d \in Node : UdpMove(d)
  BY <1>2 DEF Keep, UdpMove
<1>6. ProbeOK'
  <2>1. \A l, q \in Node : Waits(l, q)' => Waits(l, q) /\ up[l] /\ up[q]
    BY <1>2 DEF Waits
  <2>2. \A l, q \in Node : Awaited(l, q) => Awaited(l, q)'
    BY <1>2 DEF Awaited, At
  <2>3. ASSUME NEW l \in Node, NEW q \in Node, Waits(l, q)', lost > 0, Relayed(l, q)
        PROVE  Relayed(l, q)'
    <3>1. ~InStep
      BY <2>1, <2>3, IdleProps DEF Expire
    <3>2. \A d \in Node : \A m : At(d, m) => At(d, m)'
      BY <1>2 DEF At
    <3>3. ASSUME NEW h \in Node, Helps(h, l, q) PROVE Helps(h, l, q)'
      <4>1. PICK k \in 1..Len(reqs[h]) :
              reqs[h][k] = [target |-> q, requestor |-> l, fresh |-> TRUE]
        BY <3>3 DEF Helps, Asked
      <4>2. h # n \/ k # i
        BY <1>1, <3>1, <3>3, <4>1
      <4>3. Len(reqs'[h]) = Len(reqs[h]) /\ reqs'[h][k] = reqs[h][k]
        <5>1. CASE h = n
          <6> DEFINE s == reqs[n]
                     e == [reqs[n][i] EXCEPT !.fresh = FALSE]
          <6>1. reqs'[n] = [s EXCEPT ![i] = e] /\ s \in Seq(Request) /\ e \in Request
            BY <1>1, <1>3 DEF Request
          <6> HIDE DEF s, e
          <6>2. /\ Len([s EXCEPT ![i] = e]) = Len(s)
                /\ k # i /\ k \in 1..Len(s) => [s EXCEPT ![i] = e][k] = s[k]
            BY <6>1, ExceptSeq
          <6> QED BY <4>1, <4>2, <5>1, <6>1, <6>2 DEF s
        <5>2. CASE h # n
          BY <1>1, <1>3, <5>2
        <5> QED BY <5>1, <5>2
      <4>4. Asked(h, l, q)'
        BY <4>1, <4>3 DEF Asked
      <4> QED BY <1>2, <3>2, <3>3, <4>4 DEF Helps, Awaited
    <3> QED BY <2>3, <3>2, <3>3 DEF Relayed
  <2> QED BY <1>2, <2>1, <2>2, <2>3, ProbeStep DEF IInv
<1>7. \A d \in Node : up'[d] =>
        \A m \in DOMAIN inbox'[d] : m \in DOMAIN inbox[d] \/ MessageOK(d, m)
  BY <1>2
<1> QED BY <1>2, <1>4, <1>5, <1>6, <1>7, KeepStep

-----------------------------------------------------------------------------
(* The datagram that may be lost is lost while no node asks others yet.    *)
LEMMA LoseInv ==
  ASSUME Spare, IInv, TypeOK', Calm', NEW n \in Node, Lose(n)
  PROVE  IInv'
<1>1. /\ lost < MaxLoss /\ lost' = lost + 1
      /\ UNCHANGED <<up, starved, peers, udp, bcast, toProbe, target, probed, reqs, prober>>
  BY DEF Lose
<1>2. lost = 0 /\ lost' > 0
  BY <1>1 DEF Spare, IInv, TypeOK
<1>3. \A d \in Node : DOMAIN inbox'[d] \subseteq DOMAIN inbox[d]
  BY WithoutDomain DEF Lose, IInv, TypeOK, UdpTypeOK
<1>4. Keep /\ \A d \in Node : UdpMove(d)
  BY <1>1 DEF Keep, UdpMove
<1>5. \A d \in Node : ListsOK(d)'
  BY <1>1 DEF IInv, ListsOK, Other
<1>6. ProbeOK'
  <2>1. \A l, q \in Node : Waits(l, q)' => Waits(l, q) /\ prober'[l] = prober[l]
    BY <1>1 DEF Waits
  <2> QED BY <1>2, <2>1 DEF IInv, ProbeOK
<1>7. \A d \in Node : up'[d] =>
        \A m \in DOMAIN inbox'[d] : m \in DOMAIN inbox[d] \/ MessageOK(d, m)
  BY <1>3
<1> QED BY <1>4, <1>5, <1>6, <1>7, KeepStep

(* What is no longer calm does not become calm again.                      *)
LEMMA CalmStep ==
  ASSUME TypeOK, [Next]_vars, Calm'
  PROVE  Calm
<1> USE DEF TypeOK, UdpTypeOK
<1> SUFFICES ASSUME ~UNCHANGED <<up, starved, lost>> PROVE Calm
  BY DEF Calm, Rich
<1>1. PICK n \in Node : Prober(n) \/ Listener(n) \/ Environment(n)
  BY DEF Next, vars, udpVars, fdVars
<1>2. CASE Stop(n)
  <2>1. starved' = starved /\ lost' = lost /\ \A d \in Node : up'[d] => up[d]
    BY <1>2 DEF Stop
  <2> QED BY <2>1 DEF Calm, Rich
<1>3. CASE Exhaust(n)
  <2>1. starved'[n]
    BY <1>3 DEF Exhaust
  <2> QED BY <2>1 DEF Calm, Rich
<1>4. CASE Lose(n)
  <2>1. UNCHANGED <<up, starved>> /\ lost' = lost + 1 /\ lost \in Nat
    BY <1>4, BoundAssumption DEF Lose
  <2>2. lost' # 0
    BY <2>1
  <2> QED BY <2>1, <2>2 DEF Calm, Rich
<1>5. CASE UNCHANGED <<up, starved, lost>>
  BY <1>5
<1>6. Stop(n) \/ Exhaust(n) \/ Lose(n) \/ UNCHANGED <<up, starved, lost>>
  <2>1. CASE Prober(n)
    BY <2>1 DEF Prober, ProbeNext, RequestProbes, CheckProbed
  <2>2. CASE Listener(n)
    BY <2>2 DEF Listener, ReceiveDatagram, Receive, HandleProbe, HandleAck,
                FulfilRequestProbes, HandleRequestProbe, BeginReset, fdVars
  <2>3. CASE Environment(n)
    BY <2>3 DEF Environment, Expire, Crash, udpVars
  <2> QED BY <1>1, <2>1, <2>2, <2>3
<1> QED BY <1>2, <1>3, <1>4, <1>5, <1>6

(* Every step keeps the invariant. *)
LEMMA NextInv ==
  ASSUME Timely, Spare
  PROVE  CalmInv /\ [Next]_vars => CalmInv'
<1> SUFFICES ASSUME CalmInv, [Next]_vars, Calm' PROVE IInv'
  BY NextTyped DEF CalmInv
<1>1. IInv /\ TypeOK'
  BY NextTyped, CalmStep DEF CalmInv
<1>2. CASE UNCHANGED vars
  <2>1. UNCHANGED <<up, starved, peers, inbox, udp, toProbe, target, probed, reqs,
                    prober, lost>>
    BY <1>2 DEF vars, udpVars, fdVars
  <2>2. Keep /\ \A d \in Node : UdpMove(d)
    BY <2>1 DEF Keep, UdpMove
  <2>3. \A d \in Node : ListsOK(d)'
    BY <1>1, <2>1 DEF IInv, ListsOK, Other
  <2>4. ProbeOK'
    <3>1. \A l, q \in Node : Waits(l, q)' => Waits(l, q)
      BY <2>1 DEF Waits
    <3> QED BY <1>1, <2>1, <3>1, ProbeStep, SendStep DEF IInv
  <2>5. \A d \in Node : up'[d] =>
          \A m \in DOMAIN inbox'[d] : m \in DOMAIN inbox[d] \/ MessageOK(d, m)
    BY <2>1
  <2> QED BY <1>1, <2>1, <2>2, <2>3, <2>4, <2>5, KeepStep
<1>3. ASSUME NEW n \in Node, Prober(n) PROVE IInv'
  BY <1>1, <1>3, ProbeNextInv, RequestProbesInv, CheckProbedInv DEF Prober
<1>4. ASSUME NEW n \in Node, Listener(n) PROVE IInv'
  <2>1. ~BeginReset(n)
    <3> SUFFICES ASSUME BeginReset(n) PROVE FALSE
      OBVIOUS
    <3>1. up[n] /\ udp[n].at = "handle" /\ udp[n].msg.type = "NOT_A_PEER"
      BY DEF BeginReset, Handling
    <3> QED BY <1>1, <3>1 DEF IInv, Traffic, MessageOK
  <2> QED BY <1>1, <1>4, <2>1, ReceiveInv, HandleProbeInv, HandleAckInv, FulfilInv,
             HandleRequestProbeInv DEF Listener
<1>5. ASSUME NEW n \in Node, Environment(n) PROVE IInv'
  <2>1. CASE Lose(n)
    BY <1>1, <2>1, LoseInv
  <2>2. ~Exhaust(n)
    BY DEF Exhaust, Calm, Rich, CalmInv, TypeOK, UdpTypeOK
  <2>3. CASE Crash(n)
    BY <1>1, <2>3, StopInv DEF Crash
  <2>4. CASE Expire(n)
    BY <1>1, <2>4, ExpireInv
  <2> QED BY <1>5, <2>1, <2>2, <2>3, <2>4 DEF Environment
<1> QED BY <1>2, <1>3, <1>4, <1>5 DEF Next

(* Without losses, and with descriptors for all, it stays calm.            *)
LEMMA StaysCalm ==
  ASSUME MaxLoss = 0, MaxStarved = 0
  PROVE  /\ Init => Rich
         /\ CalmInv /\ Rich /\ [Next]_vars => Rich'
         /\ CalmInv /\ Rich => Accuracy /\ NoRejoin
<1>1. Init => Rich
  BY DEF Init, Rich
<1>2. ASSUME CalmInv, Rich, [Next]_vars PROVE Rich'
  <2>1. CASE starved' = starved
    BY <1>2, <2>1 DEF Rich
  <2>2. ASSUME NEW n \in Node, Exhaust(n) PROVE FALSE
    <3>1. {q \in Node : starved[q]} = {}
      BY <1>2 DEF Rich
    <3>2. Cardinality({q \in Node : starved[q]}) = 0
      <4>1. Cardinality({}) = 0
        BY FS_EmptySet, Zenon
      <4> QED BY <3>1, <4>1
    <3> QED BY <2>2, <3>2 DEF Exhaust
  <2>3. starved' = starved \/ \E n \in Node : Exhaust(n)
    BY <1>2 DEF Next, vars, udpVars, fdVars, Prober, ProbeNext, RequestProbes, CheckProbed,
                Listener, ReceiveDatagram, Receive, HandleProbe, HandleAck,
                FulfilRequestProbes, HandleRequestProbe, BeginReset, Environment, Expire,
                Lose, Crash, Stop
  <2> QED BY <2>1, <2>2, <2>3
<1>3. CalmInv /\ Rich => Accuracy /\ NoRejoin
  <2>1. TypeOK => lost = 0
    BY DEF TypeOK
  <2> QED BY <2>1 DEF CalmInv, Calm, IInv
<1> QED BY <1>1, <1>2, <1>3

(* If the sleeps of each prober outlast its own exchanges, no datagram is  *)
(* lost and no node runs out of descriptors, check_probed never drops a    *)
(* peer that is running, however the exchanges of the nodes overlap,       *)
(* however many nodes there are and however many of them stop, at whatever *)
(* moment.                                                                 *)
THEOREM Accurate ==
  ASSUME Timely, MaxLoss = 0, MaxStarved = 0
  PROVE  Spec => []Accuracy
<1>1. Init => CalmInv
  BY InitInv DEF CalmInv, IInv
<1>2. CalmInv /\ [Next]_vars => CalmInv'
  BY NextInv DEF Spare
<1> QED BY <1>1, <1>2, StaysCalm, PTL DEF Spec

(* Under the same conditions no running node is ever told that it is not a *)
(* peer, so that none forgets its state for no reason.                     *)
THEOREM NeverRejoins ==
  ASSUME Timely, MaxLoss = 0, MaxStarved = 0
  PROVE  Spec => []NoRejoin
<1>1. Init => CalmInv
  BY InitInv DEF CalmInv, IInv
<1>2. CalmInv /\ [Next]_vars => CalmInv'
  BY NextInv DEF Spare
<1> QED BY <1>1, <1>2, StaysCalm, PTL DEF Spec

(* A datagram lost in the network, of whatever kind and at whatever        *)
(* moment, makes no node drop a running peer: with a third node to ask and *)
(* requests sent to at least one, the indirect probe brings the answer.    *)
(* Nor do nodes that stop, as long as no datagram is lost.                 *)
THEOREM FaultsSurvived ==
  ASSUME Timely, MaxLoss = 1, FAN_OUT >= 1, Cardinality(Node) >= 3
  PROVE  Spec => []AccurateDespiteFaults
<1>1. Init => CalmInv
  BY InitInv DEF CalmInv, IInv
<1>2. CalmInv /\ [Next]_vars => CalmInv'
  BY NextInv DEF Spare
<1>3. CalmInv => AccurateDespiteFaults
  BY DEF CalmInv, IInv, AccurateDespiteFaults
<1> QED BY <1>1, <1>2, <1>3, PTL DEF Spec

-----------------------------------------------------------------------------
(* RemovalsAnnounced, without any assumption on time, loss or descriptors. *)
(* It needs that a list names no peer twice, and other nodes only: else    *)
(* removing one entry, by its position, would not remove the peer.         *)
Distinct(n) ==
  /\ IsInjective(peers[n])
  /\ \A i \in 1..Len(peers[n]) : peers[n][i] \in Other(n)

News(n, q) == {i \in 1..Len(bcast[n]) : bcast[n][i].peer = Self(q)}

AInv == TypeOK /\ RemovalsAnnounced /\ \A n \in Node : Distinct(n)

(* Whoever goes on has not changed its lists, and no list has grown.       *)
QuietStep ==
  /\ \A r \in Node : up'[r] /\ udp'[r].at # "reset" =>
       up[r] /\ udp[r].at # "reset" /\ peers'[r] = peers[r] /\ bcast'[r] = bcast[r]
  /\ \A r \in Node : peers'[r] = peers[r] \/ peers'[r] = <<>>

(* A step that changes no list, or clears that of a node that resets or    *)
(* ends, keeps AInv.                                                       *)
LEMMA QuietStepAnnounces == AInv /\ TypeOK' /\ QuietStep => AInv'
<1> SUFFICES ASSUME AInv, TypeOK', QuietStep PROVE AInv'
  OBVIOUS
<1>1. RemovalsAnnounced'
  <2>1. ASSUME NEW r \in Node, up'[r], udp'[r].at # "reset", NEW q \in Node \ {r}
        PROVE  Cardinality(News(r, q)') = IF IsPeer(peers'[r], q) THEN 0 ELSE 1
    <3>1. up[r] /\ udp[r].at # "reset" /\ peers'[r] = peers[r] /\ bcast'[r] = bcast[r]
      BY <2>1 DEF QuietStep
    <3>2. News(r, q)' = News(r, q)
      BY <3>1 DEF News
    <3>3. Cardinality(News(r, q)) = IF IsPeer(peers[r], q) THEN 0 ELSE 1
      BY <3>1 DEF AInv, RemovalsAnnounced, News
    <3> QED BY <3>1, <3>2, <3>3
  <2> QED BY <2>1 DEF RemovalsAnnounced, News
<1>2. ASSUME NEW n \in Node PROVE Distinct(n)'
  <2>1. CASE peers'[n] = peers[n]
    BY <2>1 DEF AInv, Distinct, Other
  <2>2. CASE peers'[n] = <<>>
    BY <2>2 DEF Distinct, IsInjective
  <2> QED BY <2>1, <2>2 DEF QuietStep
<1> QED BY <1>1, <1>2 DEF AInv

(* The ports of a list of peers. *)
Ports(list) == {list[i].udp : i \in 1..Len(list)}

(* Removing what IdxOf found takes one port from the list, no other.       *)
LEMMA OnePortLess ==
  ASSUME AInv, NEW n \in Node, IdxOf(peers[n], target[n]) # -1
  PROVE  \E gone \in Node \ {n} :
           /\ target[n] = Self(gone) /\ gone \in Ports(peers[n])
           /\ Ports(RemovePeer(peers[n], IdxOf(peers[n], target[n]))) = Ports(peers[n]) \ {gone}
<1> DEFINE list == peers[n]
           idx == IdxOf(list, target[n])
           new == RemovePeer(list, idx)
<1>1. /\ list \in Seq(Peer) /\ Len(list) \in Nat /\ IsInjective(list)
      /\ \A i \in 1..Len(list) : list[i] \in Other(n)
  BY DEF AInv, TypeOK, UdpTypeOK, Distinct
<1> HIDE DEF list
<1>2. idx \in 0..Len(list) - 1 /\ list[idx + 1] = target[n]
  BY <1>1, IdxOfProps DEF list
<1> HIDE DEF idx
<1>3. idx + 1 \in 1..Len(list)
  BY <1>1, <1>2
<1>4. PICK gone \in Node \ {n} : target[n] = Self(gone)
  BY <1>1, <1>2, <1>3 DEF Other
<1>5. /\ Len(new) \in Nat
      /\ \A j \in 1..Len(new) : \E i \in 1..Len(list) : i # idx + 1 /\ new[j] = list[i]
      /\ \A i \in 1..Len(list) : i # idx + 1 => \E j \in 1..Len(new) : new[j] = list[i]
  BY <1>1, <1>2, RemovePeerProps, RemovePeerDistinct, RemovePeerKeeps
<1> HIDE DEF new
<1>6. \A i \in 1..Len(list) : list[i].udp = gone => i = idx + 1
  <2>1. \A i \in 1..Len(list) : list[i].udp = gone => list[i] = Self(gone)
    BY <1>1 DEF Other, Self
  <2> QED BY <1>1, <1>2, <1>3, <1>4, <2>1 DEF IsInjective
<1>7. list[idx + 1].udp = gone
  BY <1>2, <1>4 DEF Self
<1>8. gone \in Ports(list)
  BY <1>3, <1>7 DEF Ports
<1>9. ASSUME NEW q \in Ports(new) PROVE q \in Ports(list) \ {gone}
  <2>1. PICK j \in 1..Len(new) : new[j].udp = q
    BY <1>9 DEF Ports
  <2>2. PICK i \in 1..Len(list) : i # idx + 1 /\ new[j] = list[i]
    BY <1>5
  <2> QED BY <1>6, <2>1, <2>2 DEF Ports
<1>10. ASSUME NEW q \in Ports(list) \ {gone} PROVE q \in Ports(new)
  <2>1. PICK i \in 1..Len(list) : list[i].udp = q
    BY <1>10 DEF Ports
  <2>2. i # idx + 1
    BY <1>7, <1>10, <2>1
  <2> QED BY <1>5, <2>1, <2>2 DEF Ports
<1> QED BY <1>4, <1>8, <1>9, <1>10 DEF new, idx, list

(* What check_probed drops and what it announces is one peer.              *)
LEMMA CheckProbedAnnounces ==
  ASSUME AInv, TypeOK', NEW n \in Node, CheckProbed(n)
  PROVE  AInv'
<1> DEFINE list == peers[n]
           idx == IdxOf(list, target[n])
           new == RemovePeer(list, idx)
           k == Len(list) - 1
<1>1. CASE ~(target[n] # NoPeer /\ ~probed[n] /\ idx # -1)
  <2>1. UNCHANGED <<up, udp, peers, bcast>>
    BY <1>1 DEF CheckProbed
  <2> QED BY <2>1, QuietStepAnnounces DEF QuietStep
<1>2. CASE target[n] # NoPeer /\ ~probed[n] /\ idx # -1
  <2>1. /\ peers' = [peers EXCEPT ![n] = new]
        /\ bcast' = [bcast EXCEPT ![n] = AddBroadcastToList(@, target[n], Removed, k)]
        /\ UNCHANGED <<up, udp>>
    BY <1>2 DEF CheckProbed
  <2>2. /\ peers \in [Node -> Seq(Peer)] /\ bcast \in [Node -> Seq(Broadcast)]
        /\ list \in Seq(Peer) /\ bcast[n] \in Seq(Broadcast)
        /\ Len(list) \in Nat /\ IsInjective(list)
        /\ \A i \in 1..Len(list) : list[i] \in Other(n)
    BY DEF AInv, TypeOK, UdpTypeOK, Distinct
  <2> HIDE DEF list
  <2>3. idx \in 0..Len(list) - 1 /\ list[idx + 1] = target[n]
    BY <1>2, <2>2, IdxOfProps
  <2> HIDE DEF idx
  <2>4. PICK gone \in Node \ {n} :
          /\ target[n] = Self(gone) /\ gone \in Ports(list)
          /\ Ports(new) = Ports(list) \ {gone}
    BY <1>2, OnePortLess DEF list, idx
  <2>5. /\ IsInjective(new) /\ new \in Seq(Peer) /\ Len(new) \in Nat
        /\ \A j \in 1..Len(new) : \E i \in 1..Len(list) : i # idx + 1 /\ new[j] = list[i]
        /\ \A i \in 1..Len(list) : i # idx + 1 => \E j \in 1..Len(new) : new[j] = list[i]
    BY <2>2, <2>3, RemovePeerProps, RemovePeerDistinct, RemovePeerKeeps
  <2> HIDE DEF new
  <2>6. ASSUME NEW r \in Node PROVE Distinct(r)'
    <3>1. CASE r = n
      <4>1. peers'[r] = new
        BY <2>1, <2>2, <3>1
      <4> QED BY <2>2, <2>5, <3>1, <4>1 DEF Distinct, Other
    <3>2. CASE r # n
      BY <2>1, <2>2, <3>2 DEF AInv, Distinct, Other
    <3> QED BY <3>1, <3>2
  <2>7. \A q : IsPeer(new, q) <=> IsPeer(list, q) /\ q # gone
    <3>1. \A q : (IsPeer(list, q) <=> q \in Ports(list)) /\ (IsPeer(new, q) <=> q \in Ports(new))
      BY DEF IsPeer, Ports
    <3> QED BY <2>4, <3>1
  <2>8. IsPeer(list, gone)
    BY <2>4 DEF IsPeer, Ports
  <2> DEFINE old == bcast[n]
             ann == AddBroadcastToList(old, target[n], Removed, k)
  <2>9. /\ ann \in Seq(Broadcast) /\ Len(old) \in Nat /\ Len(ann) = Len(old) + 1
        /\ \A j \in 1..Len(old) : ann[j] = old[j]
        /\ ann[Len(ann)].peer = Self(gone)
    <3>1. target[n] \in Peer /\ Removed \in {Removed, Joined}
      BY <2>4, PortAssumption DEF Self, Peer
    <3> QED BY <2>2, <2>4, <3>1, AddBroadcastProps
  <2>10. bcast'[n] = ann /\ peers'[n] = new
    BY <2>1, <2>2
  <2> HIDE DEF old, ann
  <2>11. ASSUME NEW q \in Node \ {n}, up[n], udp[n].at # "reset"
         PROVE  Cardinality(News(n, q)') = IF IsPeer(new, q) THEN 0 ELSE 1
    <3>1. Cardinality(News(n, q)) = IF IsPeer(list, q) THEN 0 ELSE 1
      BY <2>11 DEF AInv, RemovalsAnnounced, News, list
    <3>2. News(n, q)' = {i \in 1..Len(ann) : ann[i].peer = Self(q)}
      BY <2>10 DEF News
    <3>3. News(n, q) = {i \in 1..Len(old) : old[i].peer = Self(q)}
      BY DEF News, old
    <3>4. CASE q = gone
      <4>1. Cardinality(News(n, q)) = 0
        BY <2>8, <3>1, <3>4
      <4>2. News(n, q) \subseteq 1..Len(old)
        BY <3>3
      <4>3. IsFiniteSet(News(n, q))
        <5>1. 1 \in Int /\ Len(old) \in Int
          BY <2>9
        <5>2. IsFiniteSet(1..Len(old))
          BY <5>1, FS_Interval
        <5> QED BY <4>2, <5>2, FS_Subset
      <4>4. News(n, q) = {}
        BY <4>1, <4>3, FS_EmptySet
      <4>5. News(n, q)' = {Len(ann)}
        BY <2>9, <3>2, <3>3, <3>4, <4>4
      <4>6. Cardinality({Len(ann)}) = 1
        BY FS_Singleton
      <4>7. ~IsPeer(new, q)
        BY <2>7, <3>4
      <4> QED BY <4>5, <4>6, <4>7
    <3>5. CASE q # gone
      <4>1. Self(q) # Self(gone)
        BY <3>5 DEF Self
      <4>2. News(n, q)' = News(n, q)
        BY <2>9, <3>2, <3>3, <4>1
      <4> QED BY <2>7, <3>1, <3>5, <4>2
    <3> QED BY <3>4, <3>5
  <2>12. ASSUME NEW r \in Node, up'[r], udp'[r].at # "reset", NEW q \in Node \ {r}
         PROVE  Cardinality(News(r, q)') = IF IsPeer(peers'[r], q) THEN 0 ELSE 1
    <3>1. up[r] /\ udp[r].at # "reset"
      BY <2>1, <2>12
    <3>2. CASE r = n
      BY <2>10, <2>11, <3>1, <3>2
    <3>3. CASE r # n
      <4>1. peers'[r] = peers[r] /\ News(r, q)' = News(r, q)
        BY <2>1, <2>2, <3>3 DEF News
      <4>2. Cardinality(News(r, q)) = IF IsPeer(peers[r], q) THEN 0 ELSE 1
        BY <3>1 DEF AInv, RemovalsAnnounced, News
      <4> QED BY <4>1, <4>2
    <3> QED BY <3>2, <3>3
  <2>13. RemovalsAnnounced'
    BY <2>12 DEF RemovalsAnnounced, News
  <2> QED BY <2>6, <2>13 DEF AInv
<1> QED BY <1>1, <1>2

(* Nobody is announced at first, and everybody is listed.                  *)
LEMMA InitAnnounces == Init => AInv
<1> SUFFICES ASSUME Init PROVE AInv
  OBVIOUS
<1>1. TypeOK
  BY InitTyped
<1>2. ASSUME NEW n \in Node
      PROVE  /\ IsInjective(peers[n])
             /\ {peers[n][i] : i \in 1..Len(peers[n])} = Other(n)
  <2>1. peers[n] \in Seq(Peer)
    BY <1>1 DEF TypeOK, UdpTypeOK
  <2>2. ToSet(peers[n]) = Other(n)
    BY DEF Init, Other
  <2>3. peers[n] \in UNION {SetToSeqs({Self(q) : q \in Node \ {r}}) : r \in Node}
    BY DEF Init
  <2>4. IsInjective(peers[n])
    <3>1. PICK r \in Node : peers[n] \in SetToSeqs({Self(q) : q \in Node \ {r}})
      BY <2>3
    <3> DEFINE S == {Self(q) : q \in Node \ {r}}
    <3>2. peers[n] \in SetToSeqs(S)
      BY <3>1
    <3> HIDE DEF S
    <3> QED BY <3>2 DEF SetToSeqs, IsInjective
  <2> QED BY <2>1, <2>2, <2>4 DEF ToSet
<1>3. ASSUME NEW n \in Node PROVE Distinct(n)
  BY <1>2 DEF Distinct
<1>4. ASSUME NEW n \in Node, NEW q \in Node \ {n}
      PROVE  Cardinality(News(n, q)) = 0 /\ IsPeer(peers[n], q)
  <2>1. News(n, q) = {}
    BY DEF Init, News
  <2>2. Self(q) \in Other(n) /\ Self(q).udp = q
    BY DEF Other, Self
  <2> QED BY <1>2, <2>1, <2>2, FS_EmptySet DEF IsPeer
<1>5. RemovalsAnnounced
  BY <1>4 DEF RemovalsAnnounced, News
<1> QED BY <1>1, <1>3, <1>5 DEF AInv

(* AInv is inductive. *)
LEMMA NextAnnounces == AInv /\ [Next]_vars => AInv'
<1> SUFFICES ASSUME AInv, [Next]_vars PROVE AInv'
  OBVIOUS
<1>1. TypeOK /\ TypeOK'
  BY NextTyped DEF AInv
<1>2. udp \in [Node -> UdpState] /\ up \in [Node -> BOOLEAN]
      /\ peers \in [Node -> Seq(Peer)] /\ bcast \in [Node -> Seq(Broadcast)]
  BY <1>1 DEF TypeOK, UdpTypeOK
<1>3. CASE UNCHANGED vars
  BY <1>1, <1>3, QuietStepAnnounces DEF QuietStep, vars, udpVars, fdVars
<1>4. ASSUME NEW n \in Node, Prober(n) PROVE AInv'
  <2>1. CASE ProbeNext(n) \/ RequestProbes(n)
    <3>1. UNCHANGED <<up, udp, peers, bcast>>
      BY <2>1 DEF ProbeNext, RequestProbes
    <3> QED BY <1>1, <3>1, QuietStepAnnounces DEF QuietStep
  <2> QED BY <1>1, <1>4, <2>1, CheckProbedAnnounces DEF Prober
<1>5. ASSUME NEW n \in Node, Stop(n) PROVE AInv'
  BY <1>1, <1>2, <1>5, QuietStepAnnounces DEF Stop, QuietStep
<1>6. ASSUME NEW n \in Node, Listener(n) PROVE AInv'
  <2>1. CASE BeginReset(n)
    <3>1. /\ udp' = [udp EXCEPT ![n] = [at |-> "reset"]]
          /\ bcast' = [bcast EXCEPT ![n] = <<>>] /\ UNCHANGED <<up, peers>>
      BY <2>1 DEF BeginReset
    <3>2. udp'[n].at = "reset" /\ \A r \in Node \ {n} :
            udp'[r] = udp[r] /\ bcast'[r] = bcast[r]
      BY <1>2, <3>1
    <3> QED BY <1>1, <3>1, <3>2, QuietStepAnnounces DEF QuietStep
  <2>2. CASE HandleRequestProbe(n) /\ Stop(n)
    BY <1>5, <2>2
  <2>3. CASE \/ ReceiveDatagram(n) \/ HandleProbe(n) \/ HandleAck(n)
             \/ FulfilRequestProbes(n)
             \/ HandleRequestProbe(n) /\ ~Stop(n)
    <3>1. UNCHANGED <<up, peers, bcast>>
      BY <2>3 DEF ReceiveDatagram, Receive, HandleProbe, HandleAck,
                  FulfilRequestProbes, HandleRequestProbe, fdVars
    <3>2. udp[n].at # "reset" /\ \A r \in Node \ {n} : udp'[r] = udp[r]
      <4>1. CASE ReceiveDatagram(n)
        BY <1>2, <4>1 DEF ReceiveDatagram, Receive, Recv
      <4>2. CASE HandleProbe(n) \/ HandleAck(n)
        BY <1>2, <4>2 DEF HandleProbe, HandleAck, Handling
      <4>3. CASE HandleRequestProbe(n) /\ ~Stop(n)
        BY <1>2, <4>3 DEF HandleRequestProbe, Handling
      <4>4. CASE FulfilRequestProbes(n)
        BY <1>2, <4>4 DEF FulfilRequestProbes
      <4> QED BY <2>3, <4>1, <4>2, <4>3, <4>4
    <3> QED BY <1>1, <3>1, <3>2, QuietStepAnnounces DEF QuietStep
  <2> QED BY <1>6, <2>1, <2>2, <2>3 DEF Listener
<1>7. ASSUME NEW n \in Node, Environment(n) PROVE AInv'
  <2>1. CASE Expire(n) \/ Exhaust(n) \/ Lose(n)
    <3>1. UNCHANGED <<up, udp, peers, bcast>>
      BY <2>1 DEF Expire, Exhaust, Lose, udpVars, fdVars
    <3> QED BY <1>1, <3>1, QuietStepAnnounces DEF QuietStep
  <2> QED BY <1>5, <1>7, <2>1 DEF Environment, Crash
<1> QED BY <1>3, <1>4, <1>6, <1>7 DEF Next

(* The peers that a node has dropped are those it has announced, each      *)
(* once, whatever is lost or late, whoever stops, is told NOT_A_PEER or    *)
(* has no descriptor left.                                                 *)
THEOREM RemovalsCorrect == Spec => []RemovalsAnnounced
<1>1. AInv => RemovalsAnnounced
  BY DEF AInv
<1> QED BY <1>1, InitAnnounces, NextAnnounces, PTL DEF Spec

-----------------------------------------------------------------------------
(* The lists of a running node are those of a perfect failure detector.    *)

(* At first they have all other nodes.                                     *)
LEMMA DetectorInit == Init => Detector!Init
<1> SUFFICES ASSUME Init PROVE Detector!Init
  OBVIOUS
<1>1. ASSUME NEW n \in Node PROVE Ports(peers[n]) = Node \ {n}
  <2>1. \A i \in 1..Len(peers[n]) : peers[n][i] \in Other(n)
    BY InitAnnounces DEF AInv, Distinct
  <2>2. \A q \in Node \ {n} : IsPeer(peers[n], q)
    BY InitInv DEF IInv, Accuracy, Init
  <2> QED BY <2>1, <2>2 DEF Ports, IsPeer, Other, Self
<1> QED BY <1>1 DEF Detector!Init, Init, Ports

(* A step lets one node stop, or one node drop one that has stopped, or    *)
(* leaves all lists as they are.                                           *)
LEMMA DetectorStep ==
  ASSUME AInv, Accuracy', [Next]_vars
  PROVE  [Detector!Next]_<<up, [n \in Node |-> Ports(peers[n])]>>
<1> DEFINE trusted == [n \in Node |-> Ports(peers[n])]
<1>1. up \in [Node -> BOOLEAN] /\ peers \in [Node -> Seq(Peer)]
  BY DEF AInv, TypeOK, UdpTypeOK
<1>2. CASE UNCHANGED <<up, peers>>
  BY <1>2
<1>3. ASSUME NEW n \in Node, up[n], Stop(n) PROVE Detector!Stop(n)
  <2>1. /\ up' = [up EXCEPT ![n] = FALSE] /\ peers' = [peers EXCEPT ![n] = <<>>]
    BY <1>3 DEF Stop
  <2>2. Ports(<<>>) = {}
    BY DEF Ports
  <2>3. trusted' = [trusted EXCEPT ![n] = {}]
    BY <1>1, <2>1, <2>2
  <2> QED BY <1>3, <2>1, <2>3 DEF Detector!Stop, Ports
<1>4. ASSUME NEW n \in Node, CheckProbed(n), peers' # peers
      PROVE  \E q \in Node : Detector!Suspect(n, q)
  <2>1. /\ up[n] /\ up' = up /\ IdxOf(peers[n], target[n]) # -1
        /\ peers' = [peers EXCEPT ![n] = RemovePeer(peers[n], IdxOf(peers[n], target[n]))]
    BY <1>4 DEF CheckProbed, MayAct
  <2>2. PICK q \in Node \ {n} :
          /\ q \in Ports(peers[n])
          /\ Ports(RemovePeer(peers[n], IdxOf(peers[n], target[n]))) = Ports(peers[n]) \ {q}
    BY <2>1, OnePortLess
  <2>3. Ports(peers'[n]) = Ports(peers[n]) \ {q}
    BY <1>1, <2>1, <2>2
  <2>4. ~up[q]
    <3> SUFFICES ASSUME up[q] PROVE FALSE
      OBVIOUS
    <3>1. IsPeer(peers'[n], q)
      BY <2>1 DEF Accuracy
    <3> QED BY <2>3, <3>1 DEF IsPeer, Ports
  <2>5. trusted' = [trusted EXCEPT ![n] = @ \ {q}]
    BY <1>1, <2>1, <2>3
  <2> QED BY <2>1, <2>2, <2>4, <2>5 DEF Detector!Suspect, Ports
<1>5. \/ UNCHANGED <<up, peers>>
      \/ \E n \in Node : (up[n] /\ Stop(n)) \/ CheckProbed(n)
  BY DEF Next, vars, udpVars, fdVars, Prober, ProbeNext, RequestProbes, Listener,
         ReceiveDatagram, Receive, HandleProbe, HandleAck, FulfilRequestProbes,
         HandleRequestProbe, Handling, BeginReset, Environment, Expire, Exhaust, Lose, Crash
<1>6. ASSUME NEW n \in Node, CheckProbed(n) PROVE up' = up
  BY <1>6 DEF CheckProbed
<1> QED BY <1>2, <1>3, <1>4, <1>5, <1>6 DEF Detector!Next

(* If the sleeps of each prober outlast its own exchanges, no datagram is  *)
(* lost and no node runs out of descriptors, probing by turns, by way of   *)
(* others and with removal by position is a perfect failure detector: one  *)
(* peer at a time is dropped, for good, and only after it has stopped.     *)
THEOREM PerfectDetection ==
  ASSUME Timely, MaxLoss = 0, MaxStarved = 0
  PROVE  Spec => ImplementsDetector
<1>1. Init => CalmInv /\ AInv
  BY InitInv, InitAnnounces DEF CalmInv, IInv
<1>2. CalmInv /\ [Next]_vars => CalmInv'
  BY NextInv DEF Spare
<1>3. CalmInv /\ Rich => Accuracy
  BY StaysCalm
<1>4. AInv /\ Accuracy' /\ [Next]_vars =>
        [Detector!Next]_<<up, [n \in Node |-> {peers[n][i].udp : i \in 1..Len(peers[n])}]>>
  BY DetectorStep DEF Ports
<1> QED BY <1>1, <1>2, <1>3, <1>4, StaysCalm, DetectorInit, NextAnnounces, PTL
       DEF Spec, ImplementsDetector, Detector!Spec

-----------------------------------------------------------------------------
(***************************************************************************)
(* How long a peer can go without being probed, for any number of nodes,   *)
(* losses and crashes.                                                     *)
(*                                                                         *)
(* Of a round of K peers, l are left.  A peer that is among them has       *)
(* waited for the K - l probes of this round, and since it was probed in   *)
(* the one before for at most K - 1 others; a peer that is not among them  *)
(* was probed in this round, and has waited for K - 1 - l others.  That a  *)
(* round has no more than K probes is Distinct, and that it has every peer *)
(* follows from the shuffle being a permutation.                           *)
(***************************************************************************)

Others == Cardinality(Node) - 1

Bound(n, q) == (IF IsPeer(toProbe[n], q) THEN 2 * Others - 1 ELSE Others - 1)
                 - Len(toProbe[n])

WInv == \A n \in Node : \A q \in Node \ {n} :
  /\ waited[n][q] \in Nat
  /\ Len(toProbe[n]) <= Others - 1
  /\ waited[n][q] <= Bound(n, q)

WaitInv == AInv /\ waited \in [Node -> [Node -> Int]] /\ WInv

(* A shuffled list has every entry of the list. *)
LEMMA ShuffleComplete ==
  ASSUME NEW S, NEW list \in Seq(S), NEW order \in Shuffles(list)
  PROVE  /\ order \in Seq(S) /\ Len(order) = Len(list)
         /\ \A k \in 1..Len(list) : \E i \in 1..Len(order) : order[i] = list[k]
<1>1. Len(list) \in Nat
  BY LenProperties
<1>2. PICK f \in [1..Len(list) -> 1..Len(list)] :
        IsInjective(f) /\ order = [i \in 1..Len(list) |-> list[f[i]]]
  BY DEF Shuffles
<1>3. order \in Seq(S) /\ Len(order) = Len(list)
  <2>1. order \in Seq(S)
    BY ShufflesProps
  <2>2. DOMAIN order = 1..Len(list)
    BY <1>2
  <2> QED BY <1>1, <2>1, <2>2, LenProperties
<1>4. f \in Surjection(1..Len(list), 1..Len(list))
  <2>1. f \in Injection(1..Len(list), 1..Len(list))
    BY <1>2 DEF Injection, IsInjective
  <2>2. IsFiniteSet(1..Len(list))
    BY <1>1, FS_Interval
  <2> QED BY <2>1, <2>2, FS_Injection
<1>5. ASSUME NEW k \in 1..Len(list) PROVE \E i \in 1..Len(order) : order[i] = list[k]
  <2>1. PICK i \in 1..Len(list) : f[i] = k
    BY <1>4 DEF Surjection
  <2> QED BY <1>2, <1>3, <2>1
<1> QED BY <1>3, <1>5

(* No node lists more than all the others. *)
LEMMA ListLength ==
  ASSUME AInv, NEW n \in Node
  PROVE  /\ Others \in Nat /\ Len(peers[n]) <= Others
         /\ \A i \in 1..Len(peers[n]) : \E q \in Node \ {n} : peers[n][i] = Self(q)
<1>1. IsFiniteSet(Node) /\ Cardinality(Node) \in Nat
  BY PortAssumption, FS_Subset, FS_CardinalityType
<1>2. IsFiniteSet(Node \ {n}) /\ Cardinality(Node \ {n}) = Others
  BY <1>1, FS_RemoveElement DEF Others
<1>3. peers[n] \in Seq(Peer) /\ Len(peers[n]) \in Nat /\ IsInjective(peers[n])
  BY LenProperties DEF AInv, TypeOK, UdpTypeOK, Distinct
<1>4. \A i \in 1..Len(peers[n]) : \E q \in Node \ {n} : peers[n][i] = Self(q)
  BY DEF AInv, Distinct, Other
<1> DEFINE f == [i \in 1..Len(peers[n]) |-> peers[n][i].udp]
<1>5. \A i \in 1..Len(peers[n]) : f[i] \in Node \ {n} /\ peers[n][i] = Self(f[i])
  <2> TAKE i \in 1..Len(peers[n])
  <2>1. PICK q \in Node \ {n} : peers[n][i] = Self(q)
    BY <1>4
  <2>2. peers[n][i].udp = q
    BY <2>1 DEF Self
  <2> QED BY <2>1, <2>2
<1>6. f \in Injection(1..Len(peers[n]), Node \ {n})
  <2>1. f \in [1..Len(peers[n]) -> Node \ {n}]
    BY <1>5
  <2>2. DOMAIN peers[n] = 1..Len(peers[n])
    BY <1>3
  <2>3. \A i, j \in 1..Len(peers[n]) : f[i] = f[j] => i = j
    BY <1>3, <1>5, <2>2 DEF IsInjective
  <2> HIDE DEF f
  <2> QED BY <2>1, <2>3 DEF Injection, IsInjective
<1>7. Cardinality(1..Len(peers[n])) <= Others
  BY <1>2, <1>6, FS_Injection
<1>8. Cardinality(1..Len(peers[n])) = Len(peers[n])
  BY <1>3, FS_Interval
<1>9. Others \in Nat
  BY <1>2, FS_CardinalityType
<1> QED BY <1>4, <1>7, <1>8, <1>9

(* What a step other than a probe of node n does to its round: nothing, or *)
(* the node stops or forgets its state.                                    *)
LEMMA RoundSteps ==
  ASSUME TypeOK, [Next]_vars, NEW n \in Node, ~ProbeNext(n)
  PROVE  \/ /\ toProbe'[n] = toProbe[n]
            /\ ~(prober[n] = "probe" /\ prober'[n] = "request")
         \/ toProbe'[n] = <<>> /\ (~up'[n] \/ udp'[n].at = "reset")
<1> DEFINE Kept == /\ toProbe'[n] = toProbe[n]
                   /\ ~(prober[n] = "probe" /\ prober'[n] = "request")
           Ends == toProbe'[n] = <<>> /\ (~up'[n] \/ udp'[n].at = "reset")
<1>1. /\ up \in [Node -> BOOLEAN] /\ udp \in [Node -> UdpState]
      /\ toProbe \in [Node -> Seq(Peer)]
      /\ prober \in [Node -> {"probe", "request", "check"}]
  BY DEF TypeOK, UdpTypeOK
<1>2. ASSUME UNCHANGED <<toProbe, prober>> PROVE Kept
  BY <1>2
<1>3. ASSUME NEW r \in Node, Stop(r) PROVE Kept \/ Ends
  <2>1. CASE r = n
    BY <1>1, <1>3, <2>1 DEF Stop
  <2>2. CASE r # n
    BY <1>1, <1>3, <2>2 DEF Stop
  <2> QED BY <2>1, <2>2
<1>4. ASSUME NEW r \in Node, BeginReset(r) PROVE Kept \/ Ends
  <2>1. CASE r = n
    BY <1>1, <1>4, <2>1 DEF BeginReset
  <2>2. CASE r # n
    BY <1>1, <1>4, <2>2 DEF BeginReset
  <2> QED BY <2>1, <2>2
<1>5. ASSUME NEW r \in Node, r # n, ProbeNext(r) PROVE Kept
  BY <1>1, <1>5 DEF ProbeNext
<1>6. ASSUME NEW r \in Node, RequestProbes(r) \/ CheckProbed(r) PROVE Kept
  BY <1>1, <1>6 DEF RequestProbes, CheckProbed
<1>7. ASSUME NEW r \in Node,
             \/ ReceiveDatagram(r) \/ HandleProbe(r) \/ HandleAck(r)
             \/ FulfilRequestProbes(r) \/ (HandleRequestProbe(r) /\ ~Stop(r))
             \/ Expire(r) \/ Exhaust(r) \/ Lose(r)
      PROVE  UNCHANGED <<toProbe, prober>>
  BY <1>7 DEF ReceiveDatagram, HandleProbe, HandleAck, FulfilRequestProbes,
              HandleRequestProbe, Expire, Exhaust, Lose, fdVars
<1>8. ASSUME UNCHANGED vars PROVE UNCHANGED <<toProbe, prober>>
  BY <1>8 DEF vars, fdVars
<1> HIDE DEF Kept, Ends
<1>9. Kept \/ Ends
  BY <1>2, <1>3, <1>4, <1>5, <1>6, <1>7, <1>8
     DEF Next, Prober, Listener, Environment, Crash, Kept
<1> QED BY <1>9 DEF Kept, Ends

(* All entries but the last: which peers are among them.                   *)
LEMMA FrontPeers ==
  ASSUME NEW s \in Seq(Peer), s # <<>>, NEW q
  PROVE  LET front == SubSeq(s, 1, Len(s) - 1)
         IN  /\ Len(s) \in Nat /\ Len(front) = Len(s) - 1
             /\ IsPeer(front, q) => IsPeer(s, q)
             /\ IsPeer(s, q) /\ s[Len(s)].udp # q => IsPeer(front, q)
<1>1. Len(s) \in Nat /\ Len(s) # 0 /\ \A i \in 1..Len(s) : s[i] \in Peer
  BY LenProperties, ElementOfSeq, EmptySeq
<1> DEFINE k == Len(s) - 1
           front == SubSeq(s, 1, k)
<1>2. k \in Nat
  BY <1>1
<1> HIDE DEF k
<1>3. \A i \in 1..k : s[i] \in Peer
  BY <1>1, <1>2 DEF k
<1>4. /\ Len(front) = IF 1 <= k THEN k - 1 + 1 ELSE 0
      /\ \A i \in 1..k - 1 + 1 : front[i] = s[1 + i - 1]
  BY <1>2, <1>3, SubSeqProperties
<1>5. Len(front) = k /\ \A i \in 1..k : front[i] = s[i]
  BY <1>2, <1>4
<1>6. \A i \in 1..Len(s) : i \in 1..k \/ i = Len(s)
  BY <1>1 DEF k
<1>7. \A i \in 1..k : i \in 1..Len(s)
  BY <1>1 DEF k
<1> HIDE DEF front
<1>8. IsPeer(front, q) => IsPeer(s, q)
  BY <1>5, <1>7 DEF IsPeer
<1>9. IsPeer(s, q) /\ s[Len(s)].udp # q => IsPeer(front, q)
  BY <1>5, <1>6 DEF IsPeer
<1> QED BY <1>1, <1>5, <1>8, <1>9 DEF front, k

(* A probe shortens the round, and a round starts with all peers.          *)
LEMMA ProbeSteps ==
  ASSUME AInv, NEW n \in Node, ProbeNext(n)
  PROVE  \/ peers'[n] = <<>> /\ toProbe'[n] = <<>>
         \/ \E order \in Seq(Peer) :
              /\ order # <<>>
              /\ target'[n] = order[Len(order)]
              /\ toProbe'[n] = SubSeq(order, 1, Len(order) - 1)
              /\ \/ toProbe[n] # <<>> /\ order = toProbe[n]
                 \/ /\ toProbe[n] = <<>> /\ Len(order) = Len(peers[n])
                    /\ \A q : IsPeer(peers'[n], q) => IsPeer(order, q)
<1>1. /\ peers \in [Node -> Seq(Peer)] /\ toProbe \in [Node -> Seq(Peer)]
      /\ DOMAIN target = Node
  BY DEF AInv, TypeOK, UdpTypeOK
<1>2. PICK order \in IF toProbe[n] = <<>> THEN Shuffles(peers[n]) ELSE {toProbe[n]} :
        IF order = <<>> THEN UNCHANGED toProbe
        ELSE /\ target' = [target EXCEPT ![n] = order[Len(order)]]
             /\ toProbe' = [toProbe EXCEPT ![n] = SubSeq(order, 1, Len(order) - 1)]
  BY DEF ProbeNext
<1>3. peers' = peers
  BY DEF ProbeNext
<1>4. CASE toProbe[n] # <<>>
  BY <1>1, <1>2, <1>4
<1>5. CASE toProbe[n] = <<>>
  <2>1. /\ order \in Seq(Peer) /\ Len(order) = Len(peers[n])
        /\ \A k \in 1..Len(peers[n]) : \E i \in 1..Len(order) : order[i] = peers[n][k]
    BY <1>1, <1>2, <1>5, ShuffleComplete
  <2>2. \A q : IsPeer(peers'[n], q) => IsPeer(order, q)
    BY <1>3, <2>1 DEF IsPeer
  <2>3. CASE order = <<>>
    <3>1. Len(peers[n]) = 0
      BY <2>1, <2>3
    <3> QED BY <1>1, <1>2, <1>3, <1>5, <2>3, <3>1, EmptySeq
  <2>4. CASE order # <<>>
    BY <1>1, <1>2, <1>5, <2>1, <2>2, <2>4
  <2> QED BY <2>3, <2>4
<1> QED BY <1>4, <1>5

(* A probe of n keeps the bounds: with one peer less to probe, the others  *)
(* have waited for one more.                                               *)
LEMMA ProbeKeepsBounds ==
  ASSUME WaitInv, NEW n \in Node, ProbeNext(n), NEW q \in Node \ {n},
         waited'[n][q] = Waiting(n, q)
  PROVE  /\ waited'[n][q] \in Nat
         /\ Len(toProbe'[n]) <= Others - 1
         /\ waited'[n][q] <= Bound(n, q)'
<1> DEFINE w == waited[n][q]
           rest == toProbe'[n]
<1>1. /\ AInv /\ w \in Nat /\ Len(toProbe[n]) \in Nat
      /\ Len(toProbe[n]) <= Others - 1 /\ w <= Bound(n, q)
      /\ peers[n] \in Seq(Peer) /\ toProbe \in [Node -> Seq(Peer)]
  BY LenProperties DEF WaitInv, WInv, AInv, TypeOK, UdpTypeOK
<1>2. /\ Others \in Nat /\ Len(peers[n]) <= Others /\ Len(peers[n]) \in Nat
  BY <1>1, ListLength, LenProperties
<1>3. waited'[n][q] = IF \/ ~up'[n] \/ udp'[n].at = "reset" \/ ~IsPeer(peers'[n], q)
                         \/ target'[n].udp = q
                      THEN 0 ELSE w + 1
  <2>1. prober[n] = "probe" /\ prober'[n] = "request"
    BY DEF ProbeNext, WaitInv, AInv, TypeOK
  <2> QED BY <2>1 DEF Waiting
<1>4. Bound(n, q)' = (IF IsPeer(rest, q) THEN 2 * Others - 1 ELSE Others - 1) - Len(rest)
  BY DEF Bound, Others
<1>5. CASE peers'[n] = <<>> /\ rest = <<>>
  <2>1. ~IsPeer(peers'[n], q) /\ waited'[n][q] = 0
    BY <1>3, <1>5 DEF IsPeer
  <2>2. ~IsPeer(rest, q) /\ Len(rest) = 0
    BY <1>5 DEF IsPeer
  <2>3. Bound(n, q)' = Others - 1
    BY <1>2, <1>4, <2>2
  <2> QED BY <1>1, <1>2, <2>1, <2>2, <2>3
<1>6. ASSUME NEW order \in Seq(Peer), order # <<>>,
             target'[n] = order[Len(order)],
             rest = SubSeq(order, 1, Len(order) - 1),
             \/ toProbe[n] # <<>> /\ order = toProbe[n]
             \/ /\ toProbe[n] = <<>> /\ Len(order) = Len(peers[n])
                /\ \A p : IsPeer(peers'[n], p) => IsPeer(order, p)
      PROVE  /\ waited'[n][q] \in Nat
             /\ Len(rest) <= Others - 1
             /\ waited'[n][q] <= Bound(n, q)'
  <2>1. /\ Len(order) \in Nat /\ Len(rest) = Len(order) - 1
        /\ IsPeer(rest, q) => IsPeer(order, q)
        /\ IsPeer(order, q) /\ target'[n].udp # q => IsPeer(rest, q)
    BY <1>6, FrontPeers
  <2>2. Len(order) <= Others /\ Len(rest) <= Others - 1
    BY <1>1, <1>2, <1>6, <2>1
  <2>3. CASE waited'[n][q] = 0
    <3> HIDE DEF rest
    <3> QED BY <1>2, <1>4, <2>1, <2>2, <2>3
  <2>4. CASE waited'[n][q] # 0
    <3>1. waited'[n][q] = w + 1 /\ IsPeer(peers'[n], q) /\ target'[n].udp # q
      BY <1>3, <2>4
    <3>2. CASE order = toProbe[n]
      <4>1. IsPeer(rest, q) <=> IsPeer(toProbe[n], q)
        BY <2>1, <3>1, <3>2
      <4>2. Bound(n, q)' = Bound(n, q) + 1
        <5>1. Bound(n, q) = (IF IsPeer(toProbe[n], q) THEN 2 * Others - 1 ELSE Others - 1)
                               - Len(toProbe[n])
          BY DEF Bound
        <5>2. Len(rest) = Len(toProbe[n]) - 1
          BY <2>1, <3>2
        <5> HIDE DEF rest
        <5> QED BY <1>1, <1>2, <1>4, <4>1, <5>1, <5>2
      <4>3. Bound(n, q) \in Int
        BY <1>1, <1>2 DEF Bound
      <4> HIDE DEF w, rest
      <4> QED BY <1>1, <2>2, <3>1, <4>2, <4>3
    <3>3. CASE order # toProbe[n]
      <4>1. toProbe[n] = <<>> /\ IsPeer(rest, q)
        BY <1>6, <2>1, <3>1, <3>3
      <4>2. Bound(n, q) = Others - 1
        BY <1>2, <4>1 DEF Bound, IsPeer
      <4> HIDE DEF w, rest
      <4> QED BY <1>1, <1>2, <1>4, <2>1, <2>2, <3>1, <4>1, <4>2
    <3> QED BY <3>2, <3>3
  <2> QED BY <2>3, <2>4
<1> QED BY <1>1, <1>5, <1>6, ProbeSteps

(* The bounds are kept by every step. *)
LEMMA NextWaits == WaitInv /\ [MCNext]_mcVars => WaitInv'
<1> SUFFICES ASSUME WaitInv, [MCNext]_mcVars PROVE WaitInv'
  OBVIOUS
<1>1. [Next]_vars
  BY DEF MCNext, mcVars
<1>2. AInv /\ AInv' /\ TypeOK
  BY <1>1, NextAnnounces DEF WaitInv, AInv
<1>3. CASE UNCHANGED mcVars
  <2>1. UNCHANGED <<waited, toProbe>>
    BY <1>3 DEF mcVars, vars, fdVars
  <2> QED BY <1>2, <2>1 DEF WaitInv, WInv, Bound, Others
<1>4. CASE MCNext
  <2>1. /\ waited' = [n \in Node |-> [q \in Node |-> Waiting(n, q)]]
        /\ waited \in [Node -> [Node -> Int]]
    BY <1>4 DEF MCNext, WaitInv
  <2>2. ASSUME NEW n \in Node, NEW q \in Node
        PROVE  waited'[n][q] = Waiting(n, q) /\ waited'[n][q] \in Int
    <3>1. waited[n][q] \in Int
      BY <2>1
    <3> QED BY <2>1, <3>1 DEF Waiting
  <2>3. waited' \in [Node -> [Node -> Int]]
    BY <2>1, <2>2
  <2>4. ASSUME NEW n \in Node, NEW q \in Node \ {n}
        PROVE  /\ waited'[n][q] \in Nat
               /\ Len(toProbe'[n]) <= Others - 1
               /\ waited'[n][q] <= Bound(n, q)'
    <3>1. CASE ProbeNext(n)
      BY <2>2, <3>1, ProbeKeepsBounds
    <3>2. CASE ~ProbeNext(n)
      <4>1. /\ waited[n][q] \in Nat /\ Len(toProbe[n]) <= Others - 1
            /\ waited[n][q] <= Bound(n, q) /\ Len(toProbe[n]) \in Nat
            /\ Others \in Nat
        BY <1>2, ListLength, LenProperties DEF WaitInv, WInv, TypeOK
      <4>2. CASE /\ toProbe'[n] = toProbe[n]
                 /\ ~(prober[n] = "probe" /\ prober'[n] = "request")
        <5>1. waited'[n][q] \in {0, waited[n][q]}
          BY <2>2, <4>2 DEF Waiting
        <5>2. Bound(n, q)' = Bound(n, q)
          BY <4>2 DEF Bound, Others
        <5>3. Bound(n, q) \in Int
          BY <4>1 DEF Bound
        <5> QED BY <4>1, <4>2, <5>1, <5>2, <5>3
      <4>3. CASE toProbe'[n] = <<>> /\ (~up'[n] \/ udp'[n].at = "reset")
        <5>1. waited'[n][q] = 0
          BY <2>2, <4>3 DEF Waiting
        <5>2. Len(toProbe'[n]) = 0 /\ ~IsPeer(toProbe'[n], q)
          BY <4>3 DEF IsPeer
        <5>3. Bound(n, q)' = Others - 1
          BY <4>1, <5>2 DEF Bound, Others
        <5> QED BY <4>1, <5>1, <5>2, <5>3
      <4> QED BY <1>1, <1>2, <3>2, <4>2, <4>3, RoundSteps
    <3> QED BY <3>1, <3>2
  <2>5. WInv'
    BY <2>4 DEF WInv, Others
  <2> QED BY <1>2, <2>3, <2>5 DEF WaitInv
<1> QED BY <1>3, <1>4

(* Nobody has waited at the start. *)
LEMMA InitWaits == MCInit => WaitInv
<1> SUFFICES ASSUME MCInit PROVE WaitInv
  OBVIOUS
<1>1. AInv /\ waited = [n \in Node |-> [q \in Node |-> 0]]
  BY InitAnnounces DEF MCInit
<1>2. ASSUME NEW n \in Node, NEW q \in Node \ {n}
      PROVE  Others - 1 \in Nat /\ Bound(n, q) = Others - 1 /\ Len(toProbe[n]) = 0
  <2>1. toProbe[n] = <<>>
    BY DEF MCInit, Init
  <2>2. IsFiniteSet(Node \ {n}) /\ Cardinality(Node \ {n}) = Others
    BY PortAssumption, FS_Subset, FS_RemoveElement DEF Others
  <2>3. Cardinality(Node \ {n}) # 0 /\ Cardinality(Node \ {n}) \in Nat
    BY <2>2, FS_EmptySet, FS_CardinalityType
  <2> QED BY <2>1, <2>2, <2>3 DEF Bound, IsPeer
<1>3. WInv
  BY <1>1, <1>2 DEF WInv
<1> QED BY <1>1, <1>3 DEF WaitInv

(* A peer is probed at the latest after 2K - 2 probes of others, K being   *)
(* the number of peers that a node has at the start, whatever is lost,     *)
(* late or dropped meanwhile.                                              *)
THEOREM EveryPeerProbedInTime == MCFairSpec => []ProbedInTime
<1>1. WaitInv => ProbedInTime
  <2> SUFFICES ASSUME WaitInv, NEW n \in Node, NEW q \in Node \ {n}
               PROVE  waited[n][q] <= 2 * (Cardinality(Node) - 1) - 2
    BY DEF ProbedInTime
  <2>1. /\ waited[n][q] \in Nat /\ waited[n][q] <= Bound(n, q)
        /\ Others \in Nat /\ Len(toProbe[n]) \in Nat /\ Len(toProbe[n]) <= Others - 1
    BY ListLength, LenProperties DEF WaitInv, WInv, AInv, TypeOK
  <2>2. IsPeer(toProbe[n], q) => Len(toProbe[n]) >= 1
    BY <2>1 DEF IsPeer
  <2>3. Bound(n, q) <= 2 * Others - 2 /\ Bound(n, q) \in Int
    <3>1. CASE IsPeer(toProbe[n], q)
      BY <2>1, <2>2, <3>1 DEF Bound
    <3>2. CASE ~IsPeer(toProbe[n], q)
      <4>1. Bound(n, q) = Others - 1 - Len(toProbe[n])
        BY <3>2 DEF Bound
      <4>2. \A o, l \in Nat : l <= o - 1 => o - 1 - l <= 2 * o - 2 /\ o - 1 - l \in Int
        OBVIOUS
      <4> QED BY <2>1, <4>1, <4>2
    <3> QED BY <3>1, <3>2
  <2> QED BY <2>1, <2>3 DEF Others
<1> QED BY <1>1, InitWaits, NextWaits, PTL DEF MCFairSpec

=============================================================================
