------------------------ MODULE DisseminationProofs ------------------------
(***************************************************************************)
(* Type correctness of Dissemination, and that news is founded, for any    *)
(* number of nodes, members, joins, deaths and losses.                     *)
(*                                                                         *)
(* NewsIsFounded alone is not inductive: the TCP thread announces a joiner *)
(* that it remembers from an earlier step, so the invariant also says that *)
(* this joiner has asked to join.                                          *)
(*                                                                         *)
(* NoDuplicates holds as long as no port asks to join twice: what has to   *)
(* be added is that nobody has heard of a joiner before its gateway has    *)
(* appended it, so that append_member, which does not look for it, adds    *)
(* what is not there.  Both follow from one lemma about where news comes   *)
(* from (NewsStep), once with the ports that were admitted and once with   *)
(* the ports that were admitted and appended.                              *)
(*                                                                         *)
(* The same invariant shows that the lists are those of GroupMembership.   *)
(*                                                                         *)
(* At the end the type correctness of JoinProtocol, whose steps are those  *)
(* of Dissemination with a condition, or change little besides.            *)
(***************************************************************************)
EXTENDS JoinProtocol, UdpListenerProofs

(* What NewsIsFounded says of one piece of news, of a sequence of news, of *)
(* a peer list, of a datagram and of the UDP thread, for the ports A that  *)
(* were admitted and the ports D that were declared dead.                  *)
FoundedIn(u, A, D) == \/ u.status = Joined /\ \E q \in A : u.peer = Self(q)
                      \/ u.status = Removed /\ \E q \in D : u.peer = Self(q)
NewsIn(s, A, D) == \A i \in 1..Len(s) : FoundedIn(s[i], A, D)
ListIn(s, A) == \A i \in 1..Len(s) : \E q \in A : s[i] = Self(q)
MessageIn(m, A, D) == m.type = "GOSSIP_UPDATE" => NewsIn(m.updates, A, D)
UdpIn(t, A, D) == /\ t.at = "handle" => MessageIn(t.msg, A, D)
                  /\ t.at = "update" => NewsIn(t.todo, A, D)
AllIn(list, news, box, t, A, D) ==
  /\ ListIn(list, A)
  /\ NewsIn(news, A, D)
  /\ \A m \in DOMAIN box : MessageIn(m, A, D)
  /\ UdpIn(t, A, D)
NodeIn(n, A, D) == AllIn(peers[n], bcast[n], inbox[n], udp[n], A, D)

(* The joiner that the TCP thread is busy with has asked this node.        *)
JoinerKnown(n) ==
  tcp[n].at # "accept" =>
    \E q \in Joiners \ {n} : tcp[n].joiner = Self(q) /\ <<n, q>> \in joined

IInv == TypeOK /\ \A n \in Node : JoinerKnown(n) /\ NodeIn(n, Admitted, Dead)

(* A list of node n that has each peer once, and not n itself.             *)
Distinct(list, n) == IsInjective(list) /\ \A i \in 1..Len(list) : list[i] # Self(n)

(* The inductive invariant contains the property. *)
LEMMA InductiveImpliesFounded == IInv => NewsIsFounded
BY DEF IInv, NodeIn, AllIn, NewsIsFounded, ListIn, NewsIn, FoundedIn, Founded, MessageIn,
       UdpIn

-----------------------------------------------------------------------------
(* Orders(n) holds peer lists of members. *)
LEMMA OrdersProps ==
  ASSUME NEW n \in Node, NEW s \in Orders(n)
  PROVE  s \in Seq(Peer) /\ ListIn(s, Members)
<1>1. Members \subseteq Port
  BY MemberAssumption
<1>2. /\ Others(n) \in SUBSET Peer
      /\ \A p \in Others(n) : \E q \in Members : p = Self(q)
  BY <1>1 DEF Others, Self, Peer
<1> DEFINE a == {p \in Others(n) : p.udp \notin Mortals}
           b == {p \in Others(n) : p.udp \in Mortals}
<1>3. s \in Seq(Others(n))
  <2>1. CASE AnyOrder
    BY <1>2, <2>1, PeersInOrder DEF Orders
  <2>2. CASE ~AnyOrder
    <3>1. a \in SUBSET Others(n) /\ b \in SUBSET Others(n)
      OBVIOUS
    <3>2. s = SetToSeq(a) \o SetToSeq(b)
      BY <2>2 DEF Orders
    <3> HIDE DEF a, b
    <3>3. SetToSeq(a) \in Seq(Others(n)) /\ SetToSeq(b) \in Seq(Others(n))
      BY <1>2, <3>1, PeersInOrder
    <3> QED BY <3>2, <3>3, ConcatProperties
  <2> QED BY <2>1, <2>2, OrderAssumption
<1>4. \A i \in 1..Len(s) : s[i] \in Others(n)
  BY <1>3, ElementOfSeq
<1>5. s \in Seq(Peer)
  BY <1>2, <1>3
<1> QED BY <1>2, <1>4, <1>5 DEF ListIn

(* They have each of the others once. *)
LEMMA OrdersDistinct ==
  ASSUME NEW n \in Node, NEW s \in Orders(n)
  PROVE  Distinct(s, n)
<1>1. Others(n) \in SUBSET Peer /\ Self(n) \notin Others(n)
  <2>1. \A q \in Members \ {n} : Self(q) \in Peer /\ Self(q) # Self(n)
    BY MemberAssumption DEF Self, Peer
  <2> QED BY <2>1 DEF Others
<1> DEFINE a == {p \in Others(n) : p.udp \notin Mortals}
           b == {p \in Others(n) : p.udp \in Mortals}
<1>2. s \in Seq(Others(n)) /\ IsInjective(s)
  <2>1. CASE AnyOrder
    <3>1. s \in SetToSeqs(Others(n))
      BY <2>1 DEF Orders
    <3> QED BY <1>1, <3>1, PeersInOrder, PeersInOrderDistinct
  <2>2. CASE ~AnyOrder
    <3>1. /\ a \in SUBSET Peer /\ b \in SUBSET Peer /\ a \cap b = {}
          /\ a \in SUBSET Others(n) /\ b \in SUBSET Others(n)
      BY <1>1
    <3>2. s = SetToSeq(a) \o SetToSeq(b)
      BY <2>2 DEF Orders
    <3> HIDE DEF a, b
    <3>3. /\ SetToSeq(a) \in Seq(a) /\ SetToSeq(b) \in Seq(b)
          /\ IsInjective(SetToSeq(a)) /\ IsInjective(SetToSeq(b))
      BY <3>1, PeersInOrder, PeersInOrderDistinct
    <3>4. SetToSeq(a) \in Seq(Others(n)) /\ SetToSeq(b) \in Seq(Others(n))
      BY <3>1, <3>3
    <3>5. \A i \in 1..Len(SetToSeq(a)), j \in 1..Len(SetToSeq(b)) :
            SetToSeq(a)[i] # SetToSeq(b)[j]
      <4>1. /\ \A i \in 1..Len(SetToSeq(a)) : SetToSeq(a)[i] \in a
            /\ \A j \in 1..Len(SetToSeq(b)) : SetToSeq(b)[j] \in b
        BY <3>3, ElementOfSeq
      <4> QED BY <3>1, <4>1
    <3> QED BY <3>2, <3>3, <3>4, <3>5, ConcatDistinct, ConcatProperties
  <2> QED BY <2>1, <2>2, OrderAssumption
<1>3. \A i \in 1..Len(s) : s[i] \in Others(n)
  BY <1>2, ElementOfSeq
<1> QED BY <1>1, <1>2, <1>3 DEF Distinct

(* The lists that the nodes start with have the right types. *)
LEMMA InitTyped == Init => TypeOK
<1> SUFFICES ASSUME Init PROVE TypeOK
  OBVIOUS
<1>1. \A n \in Node : peers[n] \in Seq(Peer)
  BY OrdersProps DEF Init
<1>2. peers \in [Node -> Seq(Peer)]
  BY <1>1 DEF Init
<1>3. \A n \in Node : DOMAIN inbox[n] = {}
  BY DEF Init, EmptyBag, SetToBag
<1>4. DOMAIN inbox = Node /\ udp \in [Node -> UdpState]
  BY UdpStates DEF Init
<1>5. UdpTypeOK
  BY <1>2, <1>3, <1>4 DEF Init, UdpTypeOK
<1>6. bcast \in [Node -> Seq(Broadcast)]
  BY DEF Init
<1>7. 0 \in 0..MaxLoss
  BY BoundAssumption
<1> QED BY <1>5, <1>6, <1>7 DEF Init, TypeOK, Accept

-----------------------------------------------------------------------------
(* gossip_changes sends the news of the broadcast list, and what it keeps  *)
(* of the list is news that was in it.                                     *)
LEMMA GossipData ==
  ASSUME NEW b \in Seq(Broadcast)
  PROVE  LET news == [i \in 1..Len(b) |-> [peer |-> b[i].peer, status |-> b[i].status]]
             kept == TidyBroadcastList([i \in 1..Len(b) |-> Aged(b[i])])
         IN  /\ news \in Seq(Update) /\ Len(news) = Len(b)
             /\ kept \in Seq(Broadcast)
             /\ \A j \in 1..Len(kept) : \E i \in 1..Len(b) :
                  kept[j].peer = b[i].peer /\ kept[j].status = b[i].status
<1> DEFINE news == [i \in 1..Len(b) |-> [peer |-> b[i].peer, status |-> b[i].status]]
           aged == [i \in 1..Len(b) |-> Aged(b[i])]
           kept == TidyBroadcastList(aged)
<1>1. Len(b) \in Nat /\ \A i \in 1..Len(b) : b[i] \in Broadcast
  BY LenProperties, ElementOfSeq
<1>2. \A i \in 1..Len(b) : [peer |-> b[i].peer, status |-> b[i].status] \in Update
  BY <1>1 DEF Broadcast, Update
<1>3. news \in Seq(Update) /\ Len(news) = Len(b)
  BY <1>1, <1>2
<1>4. \A i \in 1..Len(b) : /\ Aged(b[i]) \in Broadcast
                           /\ Aged(b[i]).peer = b[i].peer
                           /\ Aged(b[i]).status = b[i].status
  BY <1>1 DEF Broadcast, Aged
<1>5. /\ aged \in Seq(Broadcast) /\ Len(aged) = Len(b)
      /\ \A i \in 1..Len(b) : aged[i].peer = b[i].peer /\ aged[i].status = b[i].status
  BY <1>1, <1>4
<1> HIDE DEF aged
<1>6. /\ kept \in Seq(Broadcast)
      /\ \A j \in 1..Len(kept) : \E i \in 1..Len(aged) : kept[j] = aged[i]
  BY <1>5, TidyProps
<1>7. \A j \in 1..Len(kept) : \E i \in 1..Len(b) :
        kept[j].peer = b[i].peer /\ kept[j].status = b[i].status
  BY <1>5, <1>6
<1> QED BY <1>3, <1>6, <1>7 DEF aged

(* The receivers get the news, and no inbox gets anything else. *)
LEMMA GossipProps ==
  ASSUME TypeOK, NEW n \in Node, GossipChanges(n)
  PROVE  \E us \in Seq(Update) :
           /\ Len(us) = Len(bcast[n])
           /\ \A i \in 1..Len(us) :
                us[i].peer = bcast[n][i].peer /\ us[i].status = bcast[n][i].status
           /\ DOMAIN inbox' = Node
           /\ \A d \in Node : DOMAIN inbox'[d] \subseteq
                DOMAIN inbox[d]
                  \cup {[type |-> "GOSSIP_UPDATE", from |-> n, updates |-> us]}
<1> DEFINE us == [i \in 1..Len(bcast[n]) |->
                    [peer |-> bcast[n][i].peer, status |-> bcast[n][i].status]]
           m == [type |-> "GOSSIP_UPDATE", from |-> n, updates |-> us]
<1>1. bcast[n] \in Seq(Broadcast)
  BY DEF TypeOK
<1>2. us \in Seq(Update) /\ Len(us) = Len(bcast[n])
  BY <1>1, GossipData
<1>3. \A i \in 1..Len(us) : us[i].peer = bcast[n][i].peer /\ us[i].status = bcast[n][i].status
  BY <1>2
<1>4. PICK chosen \in RandomPeers(peers[n], FAN_OUT, NoPort) :
        inbox' = SendToPeers(inbox, n, chosen, m)
  BY DEF GossipChanges
<1> HIDE DEF m, us
<1>5. DOMAIN inbox = Node
  BY DEF TypeOK, UdpTypeOK
<1>6. /\ DOMAIN inbox' = Node
      /\ \A d \in Node : DOMAIN inbox'[d] \subseteq DOMAIN inbox[d] \cup {m}
  BY <1>4, <1>5, SendToPeersProps
<1> QED BY <1>2, <1>3, <1>6 DEF m

(* What update_member does to the two lists of node n. *)
LEMMA UpdateMemberProps ==
  ASSUME TypeOK, NEW n \in Node, NEW u \in Update, UpdateMember(n, u)
  PROVE  /\ peers' = [peers EXCEPT ![n] = peers'[n]]
         /\ peers'[n] \in Seq(Peer)
         /\ \A j \in 1..Len(peers'[n]) :
              \/ \E i \in 1..Len(peers[n]) : peers'[n][j] = peers[n][i]
              \/ u.status = Joined /\ peers'[n][j] = u.peer
         /\ bcast' = [bcast EXCEPT ![n] = bcast'[n]]
         /\ bcast'[n] \in Seq(Broadcast)
         /\ \A j \in 1..Len(bcast'[n]) :
              \/ \E i \in 1..Len(bcast[n]) : bcast'[n][j] = bcast[n][i]
              \/ bcast'[n][j].peer = u.peer /\ bcast'[n][j].status = u.status
<1> DEFINE idx     == IdxOf(peers[n], u.peer)
           removes == u.status = Removed /\ idx > 0
           adds    == u.status # Removed /\ idx = -1 /\ u.peer # Self(n)
           list    == IF removes THEN RemovePeer(peers[n], idx)
                      ELSE IF adds THEN AddPeer(peers[n], u.peer) ELSE peers[n]
           new     == AddBroadcastToList(bcast[n], u.peer, u.status, Len(peers'[n]))
           news    == IF removes \/ adds THEN new ELSE bcast[n]
<1>1. /\ u.peer \in Peer /\ u.status \in {Removed, Joined}
      /\ peers \in [Node -> Seq(Peer)] /\ bcast \in [Node -> Seq(Broadcast)]
      /\ Len(peers[n]) \in Nat /\ Len(bcast[n]) \in Nat
  BY DEF TypeOK, UdpTypeOK, Update
<1>2. /\ peers' = [peers EXCEPT ![n] = list] /\ peers'[n] = list
      /\ bcast' = [bcast EXCEPT ![n] = FixBroadcastList(news, peers'[n])]
      /\ bcast'[n] = FixBroadcastList(news, peers'[n])
  BY <1>1 DEF UpdateMember
<1>3. idx \in -1..Len(peers[n]) - 1
  BY <1>1, IdxOfProps
<1> HIDE DEF idx, new
<1>4. /\ list \in Seq(Peer)
      /\ \A j \in 1..Len(list) : \/ \E i \in 1..Len(peers[n]) : list[j] = peers[n][i]
                                 \/ u.status = Joined /\ list[j] = u.peer
  <2>1. CASE removes
    <3>1. idx \in 0..Len(peers[n]) - 1 /\ list = RemovePeer(peers[n], idx)
      BY <1>1, <1>3, <2>1
    <3> HIDE DEF list, removes, adds, news
    <3>2. /\ RemovePeer(peers[n], idx) \in Seq(Peer)
          /\ Len(RemovePeer(peers[n], idx)) = Len(peers[n]) - 1
          /\ \A j \in 1..Len(peers[n]) - 1 :
               \E i \in 1..Len(peers[n]) : RemovePeer(peers[n], idx)[j] = peers[n][i]
      <4>1. peers[n] \in Seq(Peer)
        BY <1>1
      <4> QED BY <3>1, <4>1, RemovePeerProps
    <3> QED BY <3>1, <3>2
  <2>2. CASE ~removes /\ adds
    <3>1. list = Append(peers[n], u.peer)
      BY <2>2 DEF AddPeer
    <3>2. u.status = Joined
      BY <1>1, <2>2
    <3> HIDE DEF list
    <3>3. \A j \in 1..Len(list) : j \in 1..Len(peers[n]) \/ j = Len(list)
      BY <1>1, <3>1, AppendProperties
    <3> QED BY <1>1, <3>1, <3>2, <3>3, AppendProperties
  <2>3. CASE ~removes /\ ~adds
    <3>1. list = peers[n]
      BY <2>3
    <3> QED BY <1>1, <3>1
  <2> QED BY <2>1, <2>2, <2>3
<1>5. /\ news \in Seq(Broadcast)
      /\ \A j \in 1..Len(news) :
           \/ \E i \in 1..Len(bcast[n]) : news[j] = bcast[n][i]
           \/ news[j].peer = u.peer /\ news[j].status = u.status
  <2>1. /\ new \in Seq(Broadcast) /\ Len(new) = Len(bcast[n]) + 1
        /\ \A j \in 1..Len(bcast[n]) : new[j] = bcast[n][j]
        /\ new[Len(new)].peer = u.peer /\ new[Len(new)].status = u.status
    BY <1>1, AddBroadcastProps DEF new
  <2>2. \A j \in 1..Len(new) : j \in 1..Len(bcast[n]) \/ j = Len(new)
    BY <1>1, <2>1
  <2>3. \A j \in 1..Len(new) :
           \/ \E i \in 1..Len(bcast[n]) : new[j] = bcast[n][i]
           \/ new[j].peer = u.peer /\ new[j].status = u.status
    BY <2>1, <2>2
  <2>4. news = new \/ news = bcast[n]
    OBVIOUS
  <2> HIDE DEF news
  <2> QED BY <1>1, <2>1, <2>3, <2>4
<1> HIDE DEF list, news
<1>6. /\ bcast'[n] \in Seq(Broadcast)
      /\ \A j \in 1..Len(bcast'[n]) : \E i \in 1..Len(news) : bcast'[n][j] = news[i]
  <2>1. bcast'[n] = FixBroadcastList(news, list)
    BY <1>2
  <2>2. /\ FixBroadcastList(news, list) \in Seq(Broadcast)
        /\ \A j \in 1..Len(FixBroadcastList(news, list)) :
             \E i \in 1..Len(news) : FixBroadcastList(news, list)[j] = news[i]
    BY <1>5, FixProps
  <2> QED BY <2>1, <2>2, Zenon
<1>7. \A j \in 1..Len(bcast'[n]) :
        \/ \E i \in 1..Len(bcast[n]) : bcast'[n][j] = bcast[n][i]
        \/ bcast'[n][j].peer = u.peer /\ bcast'[n][j].status = u.status
  <2> TAKE j \in 1..Len(bcast'[n])
  <2>1. PICK i \in 1..Len(news) : bcast'[n][j] = news[i]
    BY <1>6
  <2> QED BY <1>5, <2>1
<1>8. /\ peers' = [peers EXCEPT ![n] = peers'[n]]
      /\ bcast' = [bcast EXCEPT ![n] = bcast'[n]]
  BY <1>2
<1> QED BY <1>2, <1>4, <1>6, <1>7, <1>8

-----------------------------------------------------------------------------
(* Every step keeps the types. *)
LEMMA NextTyped == TypeOK /\ [Next]_vars => TypeOK'
<1> SUFFICES ASSUME TypeOK, [Next]_vars PROVE TypeOK'
  OBVIOUS
<1> USE DEF TypeOK, UdpTypeOK
<1>1. CASE UNCHANGED vars
  BY <1>1 DEF vars, udpVars, dsVars
<1>2. ASSUME NEW n \in Node, GossipChanges(n) PROVE TypeOK'
  <2>1. bcast[n] \in Seq(Broadcast) /\ n \in Port
    BY PortAssumption
  <2>2. bcast' \in [Node -> Seq(Broadcast)]
    BY <1>2, <2>1, GossipData DEF GossipChanges
  <2>3. PICK us \in Seq(Update) :
          /\ DOMAIN inbox' = Node
          /\ \A d \in Node : DOMAIN inbox'[d] \subseteq
               DOMAIN inbox[d] \cup {[type |-> "GOSSIP_UPDATE", from |-> n, updates |-> us]}
    BY <1>2, GossipProps
  <2>4. [type |-> "GOSSIP_UPDATE", from |-> n, updates |-> us] \in Message
    BY <2>1, <2>3, Messages
  <2>5. \A d \in Node : DOMAIN inbox'[d] \subseteq Message
    BY <2>3, <2>4
  <2>6. UNCHANGED <<up, starved, peers, udp, tcp, joined, declared, lost>>
    BY <1>2 DEF GossipChanges
  <2> QED BY <2>2, <2>3, <2>5, <2>6
<1>3. ASSUME NEW n \in Node, ReceiveDatagram(n) PROVE TypeOK'
  <2>1. UdpTypeOK'
    BY <1>3, ReceiveProps DEF ReceiveDatagram
  <2> QED BY <1>3, <2>1 DEF ReceiveDatagram, dsVars
<1>4. ASSUME NEW n \in Node, BeginUpdates(n) PROVE TypeOK'
  <2>1. udp[n].msg.updates \in Seq(Update)
    BY <1>4, UdpFields, MessageFields DEF BeginUpdates, Handling
  <2>2. udp' \in [Node -> UdpState]
    BY <1>4, <2>1, UdpStates DEF BeginUpdates
  <2> QED BY <1>4, <2>2 DEF BeginUpdates, dsVars
<1>5. ASSUME NEW n \in Node, ProcessUpdate(n) PROVE TypeOK'
  <2>1. udp[n] \in UdpState /\ udp[n].at = "update" /\ udp[n].todo # <<>>
    BY <1>5 DEF ProcessUpdate
  <2>2. udp[n].todo \in Seq(Update)
    BY <2>1, UdpFields
  <2>3. Head(udp[n].todo) \in Update /\ Tail(udp[n].todo) \in Seq(Update)
    BY <2>1, <2>2, HeadTailProperties
  <2>4. udp[n] \in [at : {"update"}, todo : Seq(Update)]
    BY <2>1 DEF UdpState
  <2>5. udp' \in [Node -> UdpState]
    <3>1. [udp[n] EXCEPT !.todo = Tail(udp[n].todo)] \in UdpState
      BY <2>3, <2>4 DEF UdpState
    <3> QED BY <1>5, <3>1 DEF ProcessUpdate
  <2>6. UpdateMember(n, Head(udp[n].todo))
    BY <1>5 DEF ProcessUpdate
  <2>7. /\ peers' = [peers EXCEPT ![n] = peers'[n]] /\ peers'[n] \in Seq(Peer)
        /\ bcast' = [bcast EXCEPT ![n] = bcast'[n]] /\ bcast'[n] \in Seq(Broadcast)
    BY <2>3, <2>6, UpdateMemberProps
  <2>8. peers' \in [Node -> Seq(Peer)] /\ bcast' \in [Node -> Seq(Broadcast)]
    BY <2>7
  <2>9. UNCHANGED <<up, starved, inbox, tcp, joined, declared, lost>>
    BY <1>5 DEF ProcessUpdate
  <2> QED BY <2>5, <2>8, <2>9
<1>6. ASSUME NEW n \in Node, EndUpdates(n) PROVE TypeOK'
  <2>1. udp' \in [Node -> UdpState]
    BY <1>6, UdpStates DEF EndUpdates
  <2> QED BY <1>6, <2>1 DEF EndUpdates, dsVars
<1>7. ASSUME NEW n \in Node, RemvPeer(n) PROVE TypeOK'
  <2>1. PICK j \in Joiners \ {n} :
          /\ peers' = [peers EXCEPT ![n] =
               IF IdxOf(peers[n], Self(j)) > 0
               THEN RemovePeer(peers[n], IdxOf(peers[n], Self(j))) ELSE peers[n]]
          /\ tcp' = [tcp EXCEPT ![n] = [at |-> "append", joiner |-> Self(j)]]
          /\ joined' = joined \cup {<<n, j>>}
    BY <1>7 DEF RemvPeer
  <2>2. j \in Port /\ Self(j) \in Peer
    BY MemberAssumption DEF Self, Peer
  <2>3. peers' \in [Node -> Seq(Peer)]
    <3> DEFINE idx == IdxOf(peers[n], Self(j))
    <3>1. Len(peers[n]) \in Nat /\ peers[n] \in Seq(Peer)
      OBVIOUS
    <3>2. idx \in -1..Len(peers[n]) - 1
      BY <3>1, IdxOfProps
    <3>3. peers' = [peers EXCEPT ![n] = IF idx > 0 THEN RemovePeer(peers[n], idx) ELSE peers[n]]
      BY <2>1
    <3> HIDE DEF idx
    <3>4. CASE idx > 0
      <4>1. idx \in 0..Len(peers[n]) - 1
        BY <3>1, <3>2, <3>4
      <4> QED BY <3>1, <3>3, <3>4, <4>1, RemovePeerProps
    <3>5. CASE ~(idx > 0)
      BY <3>3, <3>5
    <3> QED BY <3>4, <3>5
  <2>4. tcp' \in [Node -> {Accept} \cup [at : {"append", "announce"}, joiner : Peer]]
    BY <2>1, <2>2
  <2> QED BY <1>7, <2>1, <2>2, <2>3, <2>4 DEF RemvPeer
<1>8. ASSUME NEW n \in Node, AppendMember(n) PROVE TypeOK'
  <2>1. tcp[n] \in [at : {"append", "announce"}, joiner : Peer]
    BY <1>8 DEF AppendMember, Accept
  <2>2. CASE Len(peers[n]) + 1 > CAPACITY
    BY <1>8, <2>2 DEF AppendMember
  <2>3. CASE ~(Len(peers[n]) + 1 > CAPACITY)
    <3>1. /\ peers' = [peers EXCEPT ![n] = Append(peers[n], tcp[n].joiner)]
          /\ tcp' = [tcp EXCEPT ![n].at = "announce"]
          /\ UNCHANGED <<up, starved, inbox, udp, bcast, joined, declared, lost>>
      BY <1>8, <2>3 DEF AppendMember, AddPeer
    <3>2. peers' \in [Node -> Seq(Peer)]
      BY <2>1, <3>1, AppendProperties
    <3>3. tcp' \in [Node -> {Accept} \cup [at : {"append", "announce"}, joiner : Peer]]
      BY <2>1, <3>1
    <3> QED BY <3>1, <3>2, <3>3
  <2> QED BY <2>2, <2>3
<1>9. ASSUME NEW n \in Node, AppendBroadcast(n) PROVE TypeOK'
  <2>1. tcp[n].joiner \in Peer
    BY <1>9 DEF AppendBroadcast, Accept
  <2>2. AddBroadcastToList(bcast[n], tcp[n].joiner, Joined, Len(peers[n])) \in Seq(Broadcast)
    BY <2>1, AddBroadcastProps
  <2> QED BY <1>9, <2>2 DEF AppendBroadcast, udpVars
<1>10. ASSUME NEW n \in Node, DeclareDead(n) PROVE TypeOK'
  <2>1. PICK q \in Mortals :
          /\ IdxOf(peers[n], Self(q)) # -1
          /\ peers' = [peers EXCEPT ![n] = RemovePeer(@, IdxOf(peers[n], Self(q)))]
          /\ bcast' = [bcast EXCEPT ![n] =
               AddBroadcastToList(@, Self(q), Removed, Len(peers[n]) - 1)]
          /\ declared' = declared \cup {<<n, q>>}
    BY <1>10 DEF DeclareDead
  <2>2. q \in Port /\ Self(q) \in Peer
    BY MemberAssumption DEF Self, Peer
  <2>3. IdxOf(peers[n], Self(q)) \in 0..Len(peers[n]) - 1
    <3>1. Len(peers[n]) \in Nat
      OBVIOUS
    <3>2. IdxOf(peers[n], Self(q)) \in -1..Len(peers[n]) - 1
      BY <3>1, IdxOfProps
    <3> QED BY <2>1, <3>1, <3>2
  <2>4. RemovePeer(peers[n], IdxOf(peers[n], Self(q))) \in Seq(Peer)
    BY <2>3, RemovePeerProps
  <2>5. AddBroadcastToList(bcast[n], Self(q), Removed, Len(peers[n]) - 1) \in Seq(Broadcast)
    BY <2>2, AddBroadcastProps
  <2>6. peers' \in [Node -> Seq(Peer)] /\ bcast' \in [Node -> Seq(Broadcast)]
    BY <2>1, <2>4, <2>5
  <2> QED BY <1>10, <2>1, <2>2, <2>6 DEF DeclareDead
<1>11. ASSUME NEW n \in Node, Lose(n) PROVE TypeOK'
  <2>1. DOMAIN inbox' = Node /\ \A d \in Node : DOMAIN inbox'[d] \subseteq DOMAIN inbox[d]
    BY <1>11, WithoutDomain DEF Lose
  <2>2. lost' \in 0..MaxLoss
    BY <1>11, BoundAssumption DEF Lose
  <2> QED BY <1>11, <2>1, <2>2 DEF Lose
<1> QED
  BY <1>1, <1>2, <1>3, <1>4, <1>5, <1>6, <1>7, <1>8, <1>9, <1>10, <1>11
     DEF Next, Listener, Admitting

(* The state of every node has the types that the code declares. *)
THEOREM TypeCorrect == Spec => []TypeOK
BY InitTyped, NextTyped, PTL DEF Spec

-----------------------------------------------------------------------------
(* News that is founded remains so when more ports were admitted or        *)
(* declared dead.                                                          *)
LEMMA FoundedMonotone ==
  ASSUME NEW A, NEW B, A \subseteq B, NEW D, NEW E, D \subseteq E
  PROVE  /\ \A s : ListIn(s, A) => ListIn(s, B)
         /\ \A s : NewsIn(s, A, D) => NewsIn(s, B, E)
         /\ \A m : MessageIn(m, A, D) => MessageIn(m, B, E)
         /\ \A t : UdpIn(t, A, D) => UdpIn(t, B, E)
<1>1. \A u : FoundedIn(u, A, D) => FoundedIn(u, B, E)
  BY DEF FoundedIn
<1>2. \A s : NewsIn(s, A, D) => NewsIn(s, B, E)
  BY <1>1 DEF NewsIn
<1>3. \A m : MessageIn(m, A, D) => MessageIn(m, B, E)
  BY <1>2 DEF MessageIn
<1> QED BY <1>2, <1>3 DEF ListIn, UdpIn

(* So what is said of a node remains true as the history grows. *)
LEMMA NodeMonotone ==
  ASSUME NEW n, NEW A, NEW B, A \subseteq B, NEW D, NEW E, D \subseteq E,
         NodeIn(n, A, D)
  PROVE  NodeIn(n, B, E)
BY FoundedMonotone DEF NodeIn, AllIn

(* Requests to join and declarations of death are never forgotten. *)
LEMMA HistoryGrows ==
  ASSUME [Next]_vars
  PROVE  joined \subseteq joined' /\ declared \subseteq declared'
<1>1. CASE UNCHANGED vars
  BY <1>1 DEF vars, dsVars
<1>2. ASSUME NEW n \in Node, GossipChanges(n) \/ Listener(n) \/ Admitting(n) \/ Lose(n)
      PROVE  joined' = joined /\ declared' = declared
  BY <1>2 DEF GossipChanges, Listener, ReceiveDatagram, BeginUpdates, ProcessUpdate,
              EndUpdates, Admitting, AppendMember, AppendBroadcast, Lose, dsVars
<1>3. ASSUME NEW n \in Node, RemvPeer(n)
      PROVE  joined \subseteq joined' /\ declared' = declared
  BY <1>3 DEF RemvPeer
<1>4. ASSUME NEW n \in Node, DeclareDead(n)
      PROVE  joined' = joined /\ declared \subseteq declared'
  BY <1>4 DEF DeclareDead
<1> QED BY <1>1, <1>2, <1>3, <1>4 DEF Next

(* So the ports admitted and declared dead become more with every step. *)
LEMMA AdmittedGrows ==
  ASSUME [Next]_vars
  PROVE  Admitted \subseteq Admitted' /\ Dead \subseteq Dead'
BY HistoryGrows DEF Admitted, Dead

(* The joiners that the TCP threads append or announce in this step are in *)
(* A, and the peers declared dead so far in D.                             *)
SourcesIn(A, D) ==
  /\ \A n \in Node : \/ tcp' # tcp /\ AppendMember(n)
                    \/ AppendBroadcast(n)
                    => \E q \in A : tcp[n].joiner = Self(q)
  /\ \A n \in Node, q \in Port : <<n, q>> \in declared' => q \in D

(* Where the entries of the lists and the news come from.  What is listed  *)
(* and what is news stays within A and D, if the joiners that the TCP      *)
(* threads append or announce are in A, and the peers declared dead in D.  *)
LEMMA NewsStep ==
  ASSUME TypeOK, TypeOK', [Next]_vars, NEW A, NEW D,
         \A n \in Node : NodeIn(n, A, D),
         SourcesIn(A, D), NEW d \in Node
  PROVE  AllIn(peers'[d], bcast'[d], inbox'[d], udp'[d], A, D)
<1>1. TypeOK /\ TypeOK'
  OBVIOUS
<1>2. \A n \in Node : NodeIn(n, A, D)
  OBVIOUS
<1>3. /\ ListIn(peers[d], A) /\ NewsIn(bcast[d], A, D)
      /\ \A m \in DOMAIN inbox[d] : MessageIn(m, A, D)
      /\ UdpIn(udp[d], A, D)
  BY <1>2 DEF NodeIn, AllIn
<1> DEFINE Goal == /\ ListIn(peers'[d], A) /\ NewsIn(bcast'[d], A, D)
                   /\ \A m \in DOMAIN inbox'[d] : MessageIn(m, A, D)
                   /\ UdpIn(udp'[d], A, D)
<1>4. SUFFICES Goal
  BY DEF AllIn
<1>5. /\ peers \in [Node -> Seq(Peer)] /\ bcast \in [Node -> Seq(Broadcast)]
      /\ udp \in [Node -> UdpState] /\ DOMAIN inbox = Node /\ DOMAIN tcp = Node
      /\ DOMAIN peers = Node /\ DOMAIN bcast = Node /\ DOMAIN udp = Node
  BY <1>1 DEF TypeOK, UdpTypeOK
<1>6. CASE UNCHANGED vars
  BY <1>3, <1>6 DEF vars, udpVars, dsVars
<1>7. ASSUME NEW n \in Node, GossipChanges(n) PROVE Goal
  <2>1. UNCHANGED <<peers, udp>>
    BY <1>7 DEF GossipChanges
  <2>2. NewsIn(bcast[n], A, D)
    BY <1>2 DEF NodeIn, AllIn
  <2>3. NewsIn(bcast'[d], A, D)
    <3> DEFINE kept == TidyBroadcastList([i \in 1..Len(bcast[n]) |-> Aged(bcast[n][i])])
    <3>1. bcast' = [bcast EXCEPT ![n] = kept]
      BY <1>7 DEF GossipChanges
    <3>2. \A j \in 1..Len(kept) : \E i \in 1..Len(bcast[n]) :
            kept[j].peer = bcast[n][i].peer /\ kept[j].status = bcast[n][i].status
      BY <1>5, GossipData
    <3> HIDE DEF kept
    <3>3. NewsIn(kept, A, D)
      <4> SUFFICES ASSUME NEW j \in 1..Len(kept) PROVE FoundedIn(kept[j], A, D)
        BY DEF NewsIn
      <4>1. PICK i \in 1..Len(bcast[n]) :
              kept[j].peer = bcast[n][i].peer /\ kept[j].status = bcast[n][i].status
        BY <3>2
      <4>2. FoundedIn(bcast[n][i], A, D)
        BY <2>2 DEF NewsIn
      <4> QED BY <4>1, <4>2 DEF FoundedIn
    <3> QED BY <1>3, <1>5, <3>1, <3>3
  <2>4. PICK us \in Seq(Update) :
          /\ Len(us) = Len(bcast[n])
          /\ \A i \in 1..Len(us) :
               us[i].peer = bcast[n][i].peer /\ us[i].status = bcast[n][i].status
          /\ \A e \in Node : DOMAIN inbox'[e] \subseteq
               DOMAIN inbox[e] \cup {[type |-> "GOSSIP_UPDATE", from |-> n, updates |-> us]}
    BY <1>1, <1>7, GossipProps
  <2>5. NewsIn(us, A, D)
    BY <2>2, <2>4 DEF NewsIn, FoundedIn
  <2>6. MessageIn([type |-> "GOSSIP_UPDATE", from |-> n, updates |-> us], A, D)
    BY <2>5 DEF MessageIn
  <2>7. \A m \in DOMAIN inbox'[d] : MessageIn(m, A, D)
    BY <1>3, <2>4, <2>6
  <2> QED BY <1>3, <2>1, <2>3, <2>7
<1>8. ASSUME NEW n \in Node, ReceiveDatagram(n) PROVE Goal
  <2>1. Receive(n) /\ UNCHANGED <<peers, bcast, tcp>>
    BY <1>8 DEF ReceiveDatagram, dsVars, Receive
  <2> DEFINE note == [type |-> "NOT_A_PEER", from |-> n]
  <2>2. /\ DOMAIN inbox'[d] \subseteq DOMAIN inbox[d] \cup {note}
        /\ \/ udp' = udp
           \/ \E m \in DOMAIN inbox[n] :
                udp' = [udp EXCEPT ![n] = [at |-> "handle", msg |-> m]]
    BY <1>1, <2>1, ReceiveProps DEF TypeOK
  <2>3. MessageIn(note, A, D)
    BY DEF MessageIn
  <2>4. \A m \in DOMAIN inbox'[d] : MessageIn(m, A, D)
    BY <1>3, <2>2, <2>3
  <2>5. \A m \in DOMAIN inbox[n] : UdpIn([at |-> "handle", msg |-> m], A, D)
    BY <1>2 DEF NodeIn, AllIn, UdpIn
  <2>6. UdpIn(udp'[d], A, D)
    BY <1>3, <1>5, <2>2, <2>5
  <2> QED BY <1>3, <2>1, <2>4, <2>6
<1>9. ASSUME NEW n \in Node, BeginUpdates(n) PROVE Goal
  <2>1. NewsIn(udp[n].msg.updates, A, D)
    BY <1>2, <1>9 DEF NodeIn, AllIn, UdpIn, MessageIn, BeginUpdates, Handling
  <2>2. UdpIn([at |-> "update", todo |-> udp[n].msg.updates], A, D)
    BY <2>1 DEF UdpIn
  <2>3. /\ udp' = [udp EXCEPT ![n] = [at |-> "update", todo |-> udp[n].msg.updates]]
        /\ UNCHANGED <<peers, inbox, bcast, tcp>>
    BY <1>9 DEF BeginUpdates, dsVars
  <2> QED BY <1>3, <1>5, <2>2, <2>3
<1>10. ASSUME NEW n \in Node, ProcessUpdate(n) PROVE Goal
  <2> DEFINE u == Head(udp[n].todo)
  <2>1. udp[n].at = "update" /\ udp[n].todo # <<>>
    BY <1>10 DEF ProcessUpdate
  <2>2. udp[n].todo \in Seq(Update) /\ NewsIn(udp[n].todo, A, D)
    BY <1>2, <1>5, <2>1, UdpFields DEF NodeIn, AllIn, UdpIn
  <2>3. u \in Update /\ FoundedIn(u, A, D) /\ NewsIn(Tail(udp[n].todo), A, D)
    BY <2>1, <2>2, HeadTailProperties DEF NewsIn
  <2>4. /\ UpdateMember(n, u)
        /\ udp' = [udp EXCEPT ![n].todo = Tail(@)]
        /\ UNCHANGED <<inbox, tcp>>
    BY <1>10 DEF ProcessUpdate
  <2> HIDE DEF u
  <2>5. /\ peers' = [peers EXCEPT ![n] = peers'[n]]
        /\ \A j \in 1..Len(peers'[n]) :
             \/ \E i \in 1..Len(peers[n]) : peers'[n][j] = peers[n][i]
             \/ u.status = Joined /\ peers'[n][j] = u.peer
    BY <1>1, <2>3, <2>4, UpdateMemberProps
  <2>6. /\ bcast' = [bcast EXCEPT ![n] = bcast'[n]]
        /\ \A j \in 1..Len(bcast'[n]) :
             \/ \E i \in 1..Len(bcast[n]) : bcast'[n][j] = bcast[n][i]
             \/ bcast'[n][j].peer = u.peer /\ bcast'[n][j].status = u.status
    BY <1>1, <2>3, <2>4, UpdateMemberProps
  <2>7. ListIn(peers[n], A) /\ NewsIn(bcast[n], A, D)
    BY <1>2 DEF NodeIn, AllIn
  <2>8. u.status = Joined => \E q \in A : u.peer = Self(q)
    BY <2>3 DEF FoundedIn, Joined, Removed
  <2>9. ListIn(peers'[n], A)
    BY <2>5, <2>7, <2>8 DEF ListIn
  <2>10. NewsIn(bcast'[n], A, D)
    BY <2>3, <2>6, <2>7 DEF NewsIn, FoundedIn
  <2>11. UdpIn(udp'[d], A, D)
    <3>1. CASE d = n
      <4>1. udp[n] \in [at : {"update"}, todo : Seq(Update)]
        BY <1>5, <2>1 DEF UdpState
      <4>2. udp'[n].at = "update" /\ udp'[n].todo = Tail(udp[n].todo)
        BY <1>5, <2>4, <4>1
      <4> QED BY <2>3, <3>1, <4>2 DEF UdpIn
    <3>2. CASE d # n
      BY <1>3, <1>5, <2>4, <3>2
    <3> QED BY <3>1, <3>2
  <2>12. ListIn(peers'[d], A) /\ NewsIn(bcast'[d], A, D)
    BY <1>3, <1>5, <2>5, <2>6, <2>9, <2>10
  <2> QED BY <1>3, <2>4, <2>11, <2>12
<1>11. ASSUME NEW n \in Node, EndUpdates(n) PROVE Goal
  <2>1. UdpIn(Recv, A, D)
    BY DEF UdpIn, Recv
  <2>2. udp' = [udp EXCEPT ![n] = Recv] /\ UNCHANGED <<peers, inbox, bcast, tcp>>
    BY <1>11 DEF EndUpdates, dsVars
  <2> QED BY <1>3, <1>5, <2>1, <2>2
<1>12. ASSUME NEW n \in Node, RemvPeer(n) PROVE Goal
  <2>1. PICK j \in Joiners \ {n} :
          /\ peers' = [peers EXCEPT ![n] =
               IF IdxOf(peers[n], Self(j)) > 0
               THEN RemovePeer(peers[n], IdxOf(peers[n], Self(j))) ELSE peers[n]]
    BY <1>12 DEF RemvPeer
  <2>5. ListIn(peers[n], A)
    BY <1>2 DEF NodeIn, AllIn
  <2>6. ListIn(peers'[d], A)
    <3> DEFINE idx == IdxOf(peers[n], Self(j))
    <3>1. Len(peers[n]) \in Nat /\ peers[n] \in Seq(Peer)
      BY <1>5
    <3>2. idx \in -1..Len(peers[n]) - 1
      BY <3>1, IdxOfProps
    <3>3. peers' = [peers EXCEPT ![n] = IF idx > 0 THEN RemovePeer(peers[n], idx) ELSE peers[n]]
      BY <2>1
    <3> HIDE DEF idx
    <3>4. CASE idx > 0 /\ d = n
      <4>1. idx \in 0..Len(peers[n]) - 1
        BY <3>1, <3>2, <3>4
      <4>2. /\ Len(RemovePeer(peers[n], idx)) = Len(peers[n]) - 1
            /\ \A k \in 1..Len(peers[n]) - 1 :
                 \E i \in 1..Len(peers[n]) : RemovePeer(peers[n], idx)[k] = peers[n][i]
        BY <3>1, <4>1, RemovePeerProps
      <4>3. ListIn(RemovePeer(peers[n], idx), A)
        BY <2>5, <4>2 DEF ListIn
      <4> QED BY <1>5, <3>3, <3>4, <4>3
    <3>5. CASE ~(idx > 0 /\ d = n)
      BY <1>3, <1>5, <3>3, <3>5
    <3> QED BY <3>4, <3>5
  <2>7. UNCHANGED <<inbox, udp, bcast>>
    BY <1>12 DEF RemvPeer
  <2> QED BY <1>3, <2>6, <2>7
<1>13. ASSUME NEW n \in Node, AppendMember(n) PROVE Goal
  <2>1. UNCHANGED <<inbox, udp, bcast>> /\ tcp[n].at = "append"
    BY <1>13 DEF AppendMember
  <2>2. ListIn(peers[n], A)
    BY <1>2 DEF NodeIn, AllIn
  <2>4. CASE UNCHANGED <<peers, tcp>>
    BY <1>3, <2>1, <2>4
  <2>5. CASE /\ peers' = [peers EXCEPT ![n] = Append(peers[n], tcp[n].joiner)]
             /\ tcp' = [tcp EXCEPT ![n].at = "announce"]
    <3>1. tcp[n] \in [at : {"append", "announce"}, joiner : Peer]
      BY <1>1, <2>1 DEF TypeOK, Accept
    <3>2. \E q \in A : tcp[n].joiner = Self(q)
      <4>1. tcp'[n].at = "announce"
        BY <1>5, <2>5, <3>1
      <4>2. tcp' # tcp
        BY <2>1, <4>1
      <4> QED BY <1>13, <4>2 DEF SourcesIn
    <3>3. ListIn(Append(peers[n], tcp[n].joiner), A)
      <4> DEFINE list == Append(peers[n], tcp[n].joiner)
      <4>1. /\ peers[n] \in Seq(Peer) /\ Len(peers[n]) \in Nat /\ tcp[n].joiner \in Peer
        BY <1>5, <3>1
      <4>2. /\ Len(list) = Len(peers[n]) + 1 /\ list[Len(peers[n]) + 1] = tcp[n].joiner
            /\ \A k \in 1..Len(peers[n]) : list[k] = peers[n][k]
        BY <4>1, AppendProperties
      <4> HIDE DEF list
      <4>3. \A k \in 1..Len(list) : k \in 1..Len(peers[n]) \/ k = Len(peers[n]) + 1
        BY <4>1, <4>2
      <4>4. ListIn(list, A)
        BY <2>2, <3>2, <4>2, <4>3 DEF ListIn
      <4> QED BY <4>4 DEF list
    <3>4. ListIn(peers'[d], A)
      BY <1>3, <1>5, <2>5, <3>3
    <3> QED BY <1>3, <2>1, <3>4
  <2> QED BY <1>13, <2>4, <2>5 DEF AppendMember, AddPeer
<1>14. ASSUME NEW n \in Node, AppendBroadcast(n) PROVE Goal
  <2>1. tcp[n].at = "announce" /\ UNCHANGED <<peers, inbox, udp>>
    BY <1>14 DEF AppendBroadcast, udpVars
  <2>2. NewsIn(bcast[n], A, D)
    BY <1>2 DEF NodeIn, AllIn
  <2>3. \E q \in A : tcp[n].joiner = Self(q)
    BY <1>14 DEF SourcesIn
  <2>4. tcp[n].joiner \in Peer
    BY <1>1, <2>1 DEF TypeOK, Accept
  <2> DEFINE new == AddBroadcastToList(bcast[n], tcp[n].joiner, Joined, Len(peers[n]))
  <2>5. NewsIn(new, A, D)
    <3>1. /\ Len(new) = Len(bcast[n]) + 1 /\ Len(bcast[n]) \in Nat
          /\ \A j \in 1..Len(bcast[n]) : new[j] = bcast[n][j]
          /\ new[Len(new)].peer = tcp[n].joiner /\ new[Len(new)].status = Joined
      BY <1>5, <2>4, AddBroadcastProps
    <3> HIDE DEF new
    <3>2. \A j \in 1..Len(new) : j \in 1..Len(bcast[n]) \/ j = Len(new)
      BY <3>1
    <3> QED BY <2>2, <2>3, <3>1, <3>2 DEF NewsIn, FoundedIn
  <2>6. bcast' = [bcast EXCEPT ![n] = new]
    BY <1>14 DEF AppendBroadcast
  <2> HIDE DEF new
  <2> QED BY <1>3, <1>5, <2>1, <2>5, <2>6
<1>15. ASSUME NEW n \in Node, DeclareDead(n) PROVE Goal
  <2>1. PICK q \in Mortals :
          /\ IdxOf(peers[n], Self(q)) # -1
          /\ peers' = [peers EXCEPT ![n] = RemovePeer(@, IdxOf(peers[n], Self(q)))]
          /\ bcast' = [bcast EXCEPT ![n] =
               AddBroadcastToList(@, Self(q), Removed, Len(peers[n]) - 1)]
          /\ declared' = declared \cup {<<n, q>>}
    BY <1>15 DEF DeclareDead
  <2>2. q \in Port /\ Self(q) \in Peer
    BY <2>1, MemberAssumption DEF Self, Peer
  <2>2a. q \in D
    BY <2>1, <2>2 DEF SourcesIn
  <2>3. ListIn(peers[n], A) /\ NewsIn(bcast[n], A, D)
    BY <1>2 DEF NodeIn, AllIn
  <2> DEFINE new == AddBroadcastToList(bcast[n], Self(q), Removed, Len(peers[n]) - 1)
             idx == IdxOf(peers[n], Self(q))
  <2>4. NewsIn(new, A, D)
    <3>1. /\ Len(new) = Len(bcast[n]) + 1 /\ Len(bcast[n]) \in Nat
          /\ \A j \in 1..Len(bcast[n]) : new[j] = bcast[n][j]
          /\ new[Len(new)].peer = Self(q) /\ new[Len(new)].status = Removed
      BY <1>5, <2>2, AddBroadcastProps
    <3> HIDE DEF new
    <3>2. \A j \in 1..Len(new) : j \in 1..Len(bcast[n]) \/ j = Len(new)
      BY <3>1
    <3> QED BY <2>2a, <2>3, <3>1, <3>2 DEF NewsIn, FoundedIn
  <2>5. ListIn(RemovePeer(peers[n], idx), A)
    <3>1. peers[n] \in Seq(Peer) /\ Len(peers[n]) \in Nat
      BY <1>5
    <3>2. idx \in -1..Len(peers[n]) - 1 /\ idx # -1
      BY <2>1, <3>1, IdxOfProps
    <3> HIDE DEF idx
    <3>3. idx \in 0..Len(peers[n]) - 1
      BY <3>1, <3>2
    <3>4. /\ Len(RemovePeer(peers[n], idx)) = Len(peers[n]) - 1
          /\ \A k \in 1..Len(peers[n]) - 1 :
               \E i \in 1..Len(peers[n]) : RemovePeer(peers[n], idx)[k] = peers[n][i]
      BY <3>1, <3>3, RemovePeerProps
    <3> QED BY <2>3, <3>4 DEF ListIn
  <2>6. /\ peers' = [peers EXCEPT ![n] = RemovePeer(peers[n], idx)]
        /\ bcast' = [bcast EXCEPT ![n] = new]
        /\ UNCHANGED <<inbox, udp, tcp>>
    BY <1>15, <2>1 DEF DeclareDead
  <2> HIDE DEF new, idx
  <2> QED BY <1>3, <1>5, <2>4, <2>5, <2>6
<1>16. ASSUME NEW n \in Node, Lose(n) PROVE Goal
  <2>1. DOMAIN inbox'[d] \subseteq DOMAIN inbox[d]
    BY <1>5, <1>16, WithoutDomain DEF Lose
  <2>2. UNCHANGED <<peers, udp, bcast, tcp>>
    BY <1>16 DEF Lose
  <2> QED BY <1>3, <2>1, <2>2
<1> QED
  BY <1>6, <1>7, <1>8, <1>9, <1>10, <1>11, <1>12, <1>13, <1>14, <1>15, <1>16
     DEF Next, Listener, Admitting

(* The TCP thread remembers a joiner only from its request.                *)
LEMMA JoinerRemembered ==
  ASSUME TypeOK, [Next]_vars, NEW d \in Node, JoinerKnown(d)
  PROVE  JoinerKnown(d)'
<1>1. DOMAIN tcp = Node /\ tcp[d] \in {Accept} \cup [at : {"append", "announce"}, joiner : Peer]
  BY DEF TypeOK
<1>2. CASE UNCHANGED <<tcp, joined>>
  BY <1>2 DEF JoinerKnown
<1>3. ASSUME NEW n \in Node, RemvPeer(n) PROVE JoinerKnown(d)'
  <2>1. PICK j \in Joiners \ {n} :
          /\ tcp' = [tcp EXCEPT ![n] = [at |-> "append", joiner |-> Self(j)]]
          /\ joined' = joined \cup {<<n, j>>}
    BY <1>3 DEF RemvPeer
  <2>2. CASE d = n
    BY <1>1, <2>1, <2>2 DEF JoinerKnown
  <2>3. CASE d # n
    BY <1>1, <2>1, <2>3 DEF JoinerKnown
  <2> QED BY <2>2, <2>3
<1>4. ASSUME NEW n \in Node, AppendMember(n) PROVE JoinerKnown(d)'
  <2>1. CASE tcp' = [tcp EXCEPT ![n].at = "announce"]
    <3>1. tcp'[d].joiner = tcp[d].joiner /\ joined' = joined
          /\ (tcp'[d].at # "accept" => tcp[d].at # "accept")
      BY <1>1, <1>4, <2>1 DEF AppendMember, Accept
    <3> QED BY <3>1 DEF JoinerKnown
  <2> QED BY <1>2, <1>4, <2>1 DEF AppendMember
<1>5. ASSUME NEW n \in Node, AppendBroadcast(n) PROVE JoinerKnown(d)'
  BY <1>1, <1>5 DEF AppendBroadcast, JoinerKnown, Accept
<1>6. ASSUME NEW n \in Node,
             GossipChanges(n) \/ Listener(n) \/ DeclareDead(n) \/ Lose(n)
      PROVE  UNCHANGED <<tcp, joined>>
  BY <1>6 DEF GossipChanges, Listener, ReceiveDatagram, BeginUpdates, ProcessUpdate,
              EndUpdates, DeclareDead, Lose, dsVars
<1> QED BY <1>2, <1>3, <1>4, <1>5, <1>6 DEF Next, Admitting, vars, dsVars

(* No news is founded without a cause, and the steps that make news know   *)
(* its cause.                                                              *)
LEMMA NextFounded == IInv /\ [Next]_vars => IInv'
<1> SUFFICES ASSUME IInv, [Next]_vars PROVE IInv'
  OBVIOUS
<1>1. TypeOK /\ TypeOK' /\ \A n \in Node : JoinerKnown(n)'
  BY NextTyped, JoinerRemembered DEF IInv
<1>2. PICK A, D : A = Admitted' /\ D = Dead'
  OBVIOUS
<1>3. \A n \in Node : NodeIn(n, A, D)
  BY <1>2, AdmittedGrows, NodeMonotone DEF IInv
<1>4. \A n \in Node : tcp[n].at # "accept" => \E q \in A : tcp[n].joiner = Self(q)
  <2>1. \A n \in Node, q \in Joiners : <<n, q>> \in joined => q \in A
    BY <1>2, HistoryGrows DEF Admitted
  <2> QED BY <2>1 DEF IInv, JoinerKnown
<1>5. \A n \in Node, q \in Port : <<n, q>> \in declared' => q \in D
  BY <1>2 DEF Dead
<1>6. \A n \in Node : AppendMember(n) \/ AppendBroadcast(n) => tcp[n].at # "accept"
  BY DEF AppendMember, AppendBroadcast
<1>7. SourcesIn(A, D)
  BY <1>4, <1>5, <1>6 DEF SourcesIn
<1>8. \A d \in Node : AllIn(peers'[d], bcast'[d], inbox'[d], udp'[d], A, D)
  BY <1>1, <1>3, <1>7, NewsStep
<1> QED BY <1>1, <1>2, <1>8 DEF IInv, NodeIn

(* At the start there is no news, and the lists hold the members. *)
LEMMA InitFounded == Init => IInv
<1> SUFFICES ASSUME Init, NEW n \in Node PROVE JoinerKnown(n) /\ NodeIn(n, Admitted, Dead)
  BY InitTyped DEF IInv
<1>1. ListIn(peers[n], Admitted)
  <2>1. ListIn(peers[n], Members)
    BY OrdersProps DEF Init
  <2> QED BY <2>1 DEF ListIn, Admitted
<1>2. NewsIn(bcast[n], Admitted, Dead)
  BY DEF Init, NewsIn
<1>3. DOMAIN inbox[n] = {}
  BY DEF Init, EmptyBag, SetToBag
<1>4. UdpIn(udp[n], Admitted, Dead) /\ JoinerKnown(n)
  BY DEF Init, UdpIn, Recv, JoinerKnown, Accept
<1> QED BY <1>1, <1>2, <1>3, <1>4 DEF NodeIn, AllIn, AllIn

(* Whoever is listed anywhere, or is news to be a member, was a member at  *)
(* the start or asked to join, and whoever is news to be dead was declared *)
(* dead by some prober: in the peer lists, in the broadcast lists, in the  *)
(* datagrams under way and in the updates being processed.                 *)
THEOREM NewsFounded == Spec => []NewsIsFounded
BY InitFounded, NextFounded, InductiveImpliesFounded, PTL DEF Spec

-----------------------------------------------------------------------------
(* No port asks to join twice, or although it is a member already.         *)
JoinedOnce ==
  /\ Joiners \cap Members = {}
  /\ \A a, b \in joined : a[2] = b[2] => a = b

(* The ports that other nodes can have heard of: a joiner that waits to be *)
(* appended is not yet among them.                                         *)
Waits(n, q) == tcp[n] = [at |-> "append", joiner |-> Self(q)]
Known == Members \cup {j[2] : j \in {k \in joined : ~Waits(k[1], k[2])}}

KInv == \A n \in Node : NodeIn(n, Known, Dead) /\ Distinct(peers[n], n)

JInv == IInv /\ (JoinedOnce => KInv)

(* No step makes a port unknown. *)
LEMMA KnownGrows ==
  ASSUME IInv, [Next]_vars
  PROVE  Known \subseteq Known'
<1>1. /\ joined \subseteq Node \X Port
      /\ tcp \in [Node -> {Accept} \cup [at : {"append", "announce"}, joiner : Peer]]
  BY DEF IInv, TypeOK
<1>2. SUFFICES ASSUME NEW n \in Node, NEW q \in Port, <<n, q>> \in joined, ~Waits(n, q)
      PROVE  <<n, q>> \in joined' /\ ~Waits(n, q)'
  BY <1>1 DEF Known
<1>3. <<n, q>> \in joined'
  BY <1>2, HistoryGrows
<1>4. CASE tcp' = tcp
  BY <1>2, <1>3, <1>4 DEF Waits
<1>5. ASSUME NEW g \in Node, RemvPeer(g) PROVE ~Waits(n, q)'
  <2>1. PICK j \in Joiners \ {g} :
          <<g, j>> \notin joined /\ tcp' = [tcp EXCEPT ![g] = [at |-> "append", joiner |-> Self(j)]]
    BY <1>5 DEF RemvPeer
  <2> QED BY <1>1, <1>2, <2>1 DEF Waits, Self
<1>6. ASSUME NEW g \in Node, AppendMember(g) \/ AppendBroadcast(g), tcp' # tcp
      PROVE  ~Waits(n, q)'
  <2>1. tcp'[g].at # "append" /\ \A r \in Node \ {g} : tcp'[r] = tcp[r]
    BY <1>1, <1>6 DEF AppendMember, AppendBroadcast, Accept
  <2> QED BY <1>2, <2>1 DEF Waits
<1>7. ASSUME NEW g \in Node,
             GossipChanges(g) \/ Listener(g) \/ DeclareDead(g) \/ Lose(g)
      PROVE  tcp' = tcp
  BY <1>7 DEF GossipChanges, Listener, ReceiveDatagram, BeginUpdates, ProcessUpdate,
              EndUpdates, DeclareDead, Lose, dsVars
<1> QED BY <1>3, <1>4, <1>5, <1>6, <1>7 DEF Next, Admitting, vars, dsVars

(* Nobody has heard of a joiner that waits to be appended. *)
LEMMA WaitingUnknown ==
  ASSUME IInv, JoinedOnce, NEW n \in Node, tcp[n].at = "append"
  PROVE  \E q \in Joiners \ {n} :
           tcp[n].joiner = Self(q) /\ <<n, q>> \in joined /\ q \notin Known
<1>1. PICK q \in Joiners \ {n} : tcp[n].joiner = Self(q) /\ <<n, q>> \in joined
  BY DEF IInv, JoinerKnown
<1>2. tcp[n] = [at |-> "append", joiner |-> Self(q)]
  <2>1. tcp[n] \in [at : {"append", "announce"}, joiner : Peer]
    BY DEF IInv, TypeOK, Accept
  <2> QED BY <1>1, <2>1
<1>3. ASSUME NEW j \in joined, j[2] = q PROVE Waits(j[1], j[2])
  <2>1. j = <<n, q>>
    BY <1>1, <1>3 DEF JoinedOnce
  <2> QED BY <1>2, <2>1 DEF Waits
<1>4. q \notin Members
  BY DEF JoinedOnce
<1> QED BY <1>1, <1>3, <1>4 DEF Known

(* What a step does to a list that has each peer once: it stays, or loses  *)
(* an entry, or gets one that it does not have.                            *)
LEMMA DistinctStep ==
  ASSUME NEW n, NEW list \in Seq(Peer), Distinct(list, n), NEW new,
         \/ new = list
         \/ \E idx \in 0..Len(list) - 1 : new = RemovePeer(list, idx)
         \/ \E p \in Peer : /\ p # Self(n) /\ \A i \in 1..Len(list) : list[i] # p
                            /\ new = AddPeer(list, p)
  PROVE  Distinct(new, n)
<1>1. CASE new = list
  BY <1>1
<1>2. ASSUME NEW idx \in 0..Len(list) - 1, new = RemovePeer(list, idx)
      PROVE  Distinct(new, n)
  <2>1. /\ IsInjective(new)
        /\ \A j \in 1..Len(new) : \E k \in 1..Len(list) : new[j] = list[k]
    BY <1>2, RemovePeerDistinct DEF Distinct
  <2> QED BY <2>1 DEF Distinct
<1>3. ASSUME NEW p \in Peer, p # Self(n), \A i \in 1..Len(list) : list[i] # p,
             new = AddPeer(list, p)
      PROVE  Distinct(new, n)
  <2>1. IsInjective(new)
    BY <1>3, AddPeerDistinct DEF Distinct
  <2>2. /\ Len(list) \in Nat /\ Len(new) = Len(list) + 1 /\ new[Len(new)] = p
        /\ \A i \in 1..Len(list) : new[i] = list[i]
    BY <1>3, AppendProperties, LenProperties DEF AddPeer
  <2>3. \A i \in 1..Len(new) : i \in 1..Len(list) \/ i = Len(new)
    BY <2>2
  <2>4. \A i \in 1..Len(new) : new[i] # Self(n)
    BY <1>3, <2>2, <2>3 DEF Distinct
  <2> QED BY <2>1, <2>4 DEF Distinct
<1> QED BY <1>1, <1>2, <1>3

(* Each step changes a list in one of these ways. *)
LEMMA ListSteps ==
  ASSUME IInv, JoinedOnce, KInv, [Next]_vars, NEW d \in Node
  PROVE  \/ peers'[d] = peers[d]
         \/ \E idx \in 0..Len(peers[d]) - 1 : peers'[d] = RemovePeer(peers[d], idx)
         \/ \E p \in Peer : /\ p # Self(d) /\ \A i \in 1..Len(peers[d]) : peers[d][i] # p
                            /\ peers'[d] = AddPeer(peers[d], p)
<1> DEFINE Kept == peers'[d] = peers[d]
           Removes == \E idx \in 0..Len(peers[d]) - 1 : peers'[d] = RemovePeer(peers[d], idx)
           Adds == \E p \in Peer : /\ p # Self(d) /\ \A i \in 1..Len(peers[d]) : peers[d][i] # p
                                   /\ peers'[d] = AddPeer(peers[d], p)
<1>1. /\ peers \in [Node -> Seq(Peer)] /\ Len(peers[d]) \in Nat
      /\ udp \in [Node -> UdpState]
  BY LenProperties DEF IInv, TypeOK, UdpTypeOK
<1>2. \A p : /\ IdxOf(peers[d], p) \in -1..Len(peers[d]) - 1
             /\ IdxOf(peers[d], p) = -1 => \A i \in 1..Len(peers[d]) : peers[d][i] # p
             /\ IdxOf(peers[d], p) # -1 => IdxOf(peers[d], p) \in 0..Len(peers[d]) - 1
  BY <1>1, IdxOfProps
<1>3. ASSUME NEW n \in Node, n # d,
             ProcessUpdate(n) \/ RemvPeer(n) \/ Admitting(n) \/ DeclareDead(n)
      PROVE  Kept
  BY <1>1, <1>3 DEF ProcessUpdate, UpdateMember, RemvPeer, Admitting, AppendMember,
                    AppendBroadcast, DeclareDead, udpVars
<1>4. CASE ProcessUpdate(d)
  <2> DEFINE u == Head(udp[d].todo)
  <2>1. u \in Update /\ UpdateMember(d, u)
    BY <1>1, <1>4, UdpFields, HeadTailProperties DEF ProcessUpdate
  <2> HIDE DEF u
  <2>2. \/ peers'[d] = peers[d]
        \/ peers'[d] = RemovePeer(peers[d], IdxOf(peers[d], u.peer)) /\ IdxOf(peers[d], u.peer) > 0
        \/ /\ peers'[d] = AddPeer(peers[d], u.peer)
           /\ IdxOf(peers[d], u.peer) = -1 /\ u.peer # Self(d)
    BY <1>1, <2>1 DEF UpdateMember
  <2>3. u.peer \in Peer
    BY <2>1 DEF Update
  <2>4. IdxOf(peers[d], u.peer) > 0 => IdxOf(peers[d], u.peer) # -1
    BY <1>2
  <2> QED BY <1>2, <2>2, <2>3, <2>4
<1>5. CASE RemvPeer(d)
  <2>1. PICK j \in Joiners \ {d} :
          peers' = [peers EXCEPT ![d] = IF IdxOf(peers[d], Self(j)) > 0
                                        THEN RemovePeer(@, IdxOf(peers[d], Self(j))) ELSE @]
    BY <1>5 DEF RemvPeer
  <2>2. IdxOf(peers[d], Self(j)) > 0 => IdxOf(peers[d], Self(j)) # -1
    BY <1>2
  <2> QED BY <1>1, <1>2, <2>1, <2>2
<1>6. CASE AppendMember(d)
  <2>1. CASE peers' = peers
    BY <2>1
  <2>2. CASE peers' = [peers EXCEPT ![d] = AddPeer(@, tcp[d].joiner)]
    <3>1. PICK q \in Joiners \ {d} : tcp[d].joiner = Self(q) /\ q \notin Known
      BY <1>6, WaitingUnknown DEF AppendMember
    <3>2. \A i \in 1..Len(peers[d]) : \E r \in Known : peers[d][i] = Self(r)
      BY DEF KInv, NodeIn, AllIn, ListIn
    <3>3. \A i \in 1..Len(peers[d]) : peers[d][i] # Self(q)
      <4>1. \A r \in Known : Self(r) # Self(q)
        BY <3>1 DEF Self
      <4> QED BY <3>2, <4>1
    <3>4. Self(q) \in Peer /\ Self(q) # Self(d)
      BY <3>1, MemberAssumption DEF Self, Peer
    <3> QED BY <1>1, <2>2, <3>1, <3>3, <3>4
  <2> QED BY <1>6, <2>1, <2>2 DEF AppendMember
<1>7. CASE DeclareDead(d)
  <2>1. PICK q \in Mortals :
          /\ IdxOf(peers[d], Self(q)) # -1
          /\ peers' = [peers EXCEPT ![d] = RemovePeer(@, IdxOf(peers[d], Self(q)))]
    BY <1>7 DEF DeclareDead
  <2> QED BY <1>1, <1>2, <2>1
<1>8. ASSUME NEW n \in Node,
             \/ GossipChanges(n) \/ ReceiveDatagram(n) \/ BeginUpdates(n) \/ EndUpdates(n)
             \/ AppendBroadcast(n) \/ Lose(n)
      PROVE  Kept
  BY <1>8 DEF GossipChanges, ReceiveDatagram, Receive, BeginUpdates, EndUpdates,
              AppendBroadcast, Lose, udpVars
<1>9. ASSUME UNCHANGED vars PROVE Kept
  BY <1>9 DEF vars, udpVars
<1>10. CASE ProcessUpdate(d) \/ RemvPeer(d) \/ AppendMember(d) \/ DeclareDead(d)
  BY <1>4, <1>5, <1>6, <1>7, <1>10
<1> HIDE DEF Kept, Removes, Adds
<1>11. ASSUME NEW n \in Node,
              ProcessUpdate(n) \/ RemvPeer(n) \/ AppendMember(n) \/ DeclareDead(n)
       PROVE  Kept \/ Removes \/ Adds
  <2>1. CASE n = d
    BY <1>10, <1>11, <2>1 DEF Kept, Removes, Adds
  <2>2. CASE n # d
    BY <1>3, <1>11, <2>2 DEF Admitting
  <2> QED BY <2>1, <2>2
<1>12. Kept \/ Removes \/ Adds
  BY <1>8, <1>9, <1>11 DEF Next, Listener, Admitting
<1> QED BY <1>12 DEF Kept, Removes, Adds

(* As long as no port joins twice, nobody hears of a joiner before it is   *)
(* appended, and the lists have each peer once.                            *)
LEMMA NextKnown ==
  ASSUME IInv, JoinedOnce, KInv, [Next]_vars
  PROVE  KInv'
<1>1. TypeOK /\ TypeOK'
  BY NextTyped DEF IInv
<1>2. PICK A, D : A = Known' /\ D = Dead'
  OBVIOUS
<1>3. \A n \in Node : NodeIn(n, A, D)
  BY <1>2, KnownGrows, AdmittedGrows, NodeMonotone DEF KInv
<1>4. SourcesIn(A, D)
  <2>1. ASSUME NEW n \in Node, tcp'[n].at # "append",
               NEW q, <<n, q>> \in joined
        PROVE  q \in A
    <3>1. <<n, q>> \in joined' /\ ~Waits(n, q)'
      BY <2>1, HistoryGrows DEF Waits
    <3> QED BY <1>2, <3>1 DEF Known
  <2>2. ASSUME NEW n \in Node, tcp' # tcp, AppendMember(n) \/ AppendBroadcast(n)
        PROVE  \E q \in A : tcp[n].joiner = Self(q)
    <3>1. PICK q \in Joiners : tcp[n].joiner = Self(q) /\ <<n, q>> \in joined
      BY <2>2 DEF AppendMember, AppendBroadcast, IInv, JoinerKnown
    <3>2. tcp'[n].at # "append"
      BY <1>1, <2>2 DEF TypeOK, AppendMember, AppendBroadcast, Accept
    <3> QED BY <2>1, <3>1, <3>2
  <2>3. ASSUME NEW n \in Node, AppendBroadcast(n) PROVE tcp' # tcp
    BY <1>1, <2>3 DEF TypeOK, AppendBroadcast, Accept
  <2>4. \A n \in Node, q \in Port : <<n, q>> \in declared' => q \in D
    BY <1>2 DEF Dead
  <2> QED BY <2>2, <2>3, <2>4 DEF SourcesIn
<1>5. \A d \in Node : AllIn(peers'[d], bcast'[d], inbox'[d], udp'[d], A, D)
  BY <1>1, <1>3, <1>4, NewsStep
<1>6. ASSUME NEW d \in Node PROVE Distinct(peers'[d], d)
  <2>1. peers[d] \in Seq(Peer) /\ Distinct(peers[d], d)
    BY <1>1 DEF KInv, TypeOK, UdpTypeOK
  <2> QED BY <2>1, ListSteps, DistinctStep
<1> QED BY <1>2, <1>5, <1>6 DEF KInv, NodeIn

(* At the start the members are known, and listed once each. *)
LEMMA InitKnown == Init => KInv
<1> SUFFICES ASSUME Init, NEW n \in Node PROVE NodeIn(n, Known, Dead) /\ Distinct(peers[n], n)
  BY DEF KInv
<1>1. NodeIn(n, Members, Dead)
  <2>1. DOMAIN inbox[n] = {}
    BY DEF Init, EmptyBag, SetToBag
  <2> QED BY <2>1, OrdersProps DEF Init, NodeIn, AllIn, NewsIn, UdpIn, Recv
<1>2. NodeIn(n, Known, Dead)
  BY <1>1, NodeMonotone DEF Known
<1>3. Distinct(peers[n], n)
  BY OrdersDistinct DEF Init
<1> QED BY <1>2, <1>3

(* JInv is inductive, and has NoDuplicates in it. *)
LEMMA NextJoined == JInv /\ [Next]_vars => JInv'
<1> SUFFICES ASSUME JInv, [Next]_vars PROVE JInv'
  OBVIOUS
<1>1. IInv /\ IInv'
  BY NextFounded DEF JInv
<1>2. ASSUME JoinedOnce' PROVE KInv'
  <2>1. JoinedOnce
    BY <1>2, HistoryGrows DEF JoinedOnce
  <2> QED BY <1>1, <2>1, NextKnown DEF JInv
<1> QED BY <1>1, <1>2 DEF JInv

(* The invariant gives what is claimed. *)
LEMMA KnownImpliesDistinct == KInv => NoDuplicates
<1> SUFFICES ASSUME KInv, NEW n \in Node, NEW i \in 1..Len(peers[n]), peers[n][i].udp = n
             PROVE  FALSE
  BY DEF KInv, Distinct, NoDuplicates, IsPeer
<1>1. PICK q \in Known : peers[n][i] = Self(q)
  BY DEF KInv, NodeIn, AllIn, ListIn
<1> QED BY <1>1 DEF KInv, Distinct, Self

(* No list names a peer twice, or the node whose list it is, unless a port *)
(* asked to join twice or was listed before it asked: remv_peer does not   *)
(* find an entry at position 0, and between remv_peer and append_member    *)
(* the gossip of another gateway may add the joiner.                       *)
THEOREM ListsDistinct == Spec => [](JoinedOnce => NoDuplicates)
<1>1. Init => JInv
  BY InitFounded, InitKnown DEF JInv
<1>2. JInv => (JoinedOnce => NoDuplicates)
  BY KnownImpliesDistinct DEF JInv
<1> QED BY <1>1, <1>2, NextJoined, PTL DEF Spec
-----------------------------------------------------------------------------
(* Dissemination implements GroupMembership: the ports of the lists, the   *)
(* requests to join and the ports declared dead change as it says.  What   *)
(* it takes is IInv: a node forgets a port when it processes the news of a *)
(* removal, which has to go back to a declaration, and learns of one from  *)
(* the news of a join or from its own TCP thread.                          *)
Ports(list) == {list[i].udp : i \in 1..Len(list)}
Listed == [n \in Node |-> Ports(peers[n])]

(* S in some order has every element of S. *)
LEMMA PeersInOrderComplete ==
  ASSUME NEW S \in SUBSET Peer, NEW p \in S
  PROVE  /\ \E i \in 1..Len(SetToSeq(S)) : SetToSeq(S)[i] = p
         /\ \A s \in SetToSeqs(S) : \E i \in 1..Len(s) : s[i] = p
<1> DEFINE I == 1..Cardinality(S)
<1>1. IsFiniteSet(S)
  BY FinitePeers, FS_Subset
<1>2. /\ Cardinality(S) \in Nat /\ \E f \in [I -> S] : IsInjective(f)
  BY <1>1, FS_CardinalityType DEF ExistsBijection, Bijection, Injection, IsInjective
<1>3. IsFiniteSet(I) /\ Cardinality(I) = Cardinality(S)
  <2>1. IsFiniteSet(I) /\ Cardinality(I) = IF 1 > Cardinality(S) THEN 0
                                              ELSE Cardinality(S) - 1 + 1
    BY <1>2, FS_Interval
  <2> QED BY <1>2, <2>1
<1>4. ASSUME NEW s \in [I -> S], \A j, k \in I : s[j] = s[k] => j = k
      PROVE  \E i \in 1..Len(s) : s[i] = p
  <2>1. s \in Injection(I, S)
    BY <1>4 DEF Injection, IsInjective
  <2>2. s \in Surjection(I, S)
    BY <1>1, <1>3, <2>1, FS_Injection
  <2>3. PICK i \in I : s[i] = p
    BY <2>2 DEF Surjection
  <2>4. Len(s) = Cardinality(S)
    BY <1>2, LenProperties
  <2> QED BY <2>3, <2>4
<1>5. SetToSeq(S) \in [I -> S] /\ IsInjective(SetToSeq(S))
  BY <1>2 DEF SetToSeq
<1>6. \A j, k \in I : SetToSeq(S)[j] = SetToSeq(S)[k] => j = k
  BY <1>5 DEF IsInjective
<1>7. \A s \in SetToSeqs(S) : s \in [I -> S] /\ \A j, k \in I : s[j] = s[k] => j = k
  BY DEF SetToSeqs
<1> QED BY <1>4, <1>5, <1>6, <1>7

(* What is in one of two lists is in the one after the other. *)
LEMMA ConcatHas ==
  ASSUME NEW a \in Seq(Peer), NEW b \in Seq(Peer)
  PROVE  /\ \A i \in 1..Len(a) : \E k \in 1..Len(a \o b) : (a \o b)[k] = a[i]
         /\ \A i \in 1..Len(b) : \E k \in 1..Len(a \o b) : (a \o b)[k] = b[i]
<1> DEFINE c == a \o b
<1>1. /\ Len(a) \in Nat /\ Len(b) \in Nat /\ Len(c) = Len(a) + Len(b)
      /\ \A k \in 1..Len(c) : c[k] = IF k <= Len(a) THEN a[k] ELSE b[k - Len(a)]
  BY ConcatProperties, LenProperties
<1> HIDE DEF c
<1>2. \A i \in 1..Len(a) : i \in 1..Len(c) /\ c[i] = a[i]
  BY <1>1
<1>3. ASSUME NEW i \in 1..Len(b)
      PROVE  i + Len(a) \in 1..Len(c) /\ c[i + Len(a)] = b[i]
  <2>1. PICK k \in Int : k = i + Len(a)
    BY <1>1
  <2>2. k \in 1..Len(c) /\ ~(k <= Len(a)) /\ k - Len(a) = i
    BY <1>1, <2>1
  <2> QED BY <1>1, <2>1, <2>2
<1>4. /\ \A i \in 1..Len(a) : \E k \in 1..Len(c) : c[k] = a[i]
      /\ \A i \in 1..Len(b) : \E k \in 1..Len(c) : c[k] = b[i]
  BY <1>2, <1>3
<1> QED BY <1>4 DEF c

(* Every member but the owner is in the list that a node starts with. *)
LEMMA OrdersComplete ==
  ASSUME NEW n \in Node, NEW s \in Orders(n), NEW q \in Members \ {n}
  PROVE  \E i \in 1..Len(s) : s[i] = Self(q)
<1>1. Others(n) \in SUBSET Peer /\ Self(q) \in Others(n)
  BY MemberAssumption DEF Others, Self, Peer
<1>2. CASE AnyOrder
  <2>1. s \in SetToSeqs(Others(n))
    BY <1>2 DEF Orders
  <2> QED BY <1>1, <2>1, PeersInOrderComplete
<1>3. CASE ~AnyOrder
  <2> DEFINE a == {p \in Others(n) : p.udp \notin Mortals}
             b == {p \in Others(n) : p.udp \in Mortals}
  <2>1. a \in SUBSET Peer /\ b \in SUBSET Peer /\ (Self(q) \in a \/ Self(q) \in b)
    BY <1>1
  <2>2. s = SetToSeq(a) \o SetToSeq(b)
    BY <1>3 DEF Orders
  <2> HIDE DEF a, b
  <2>3. SetToSeq(a) \in Seq(Peer) /\ SetToSeq(b) \in Seq(Peer)
    <3>1. SetToSeq(a) \in Seq(a) /\ SetToSeq(b) \in Seq(b)
      BY <2>1, PeersInOrder
    <3> QED BY <2>1, <3>1
  <2>4. \/ \E i \in 1..Len(SetToSeq(a)) : SetToSeq(a)[i] = Self(q)
        \/ \E i \in 1..Len(SetToSeq(b)) : SetToSeq(b)[i] = Self(q)
    BY <2>1, PeersInOrderComplete
  <2>5. /\ \A i \in 1..Len(SetToSeq(a)) : \E k \in 1..Len(s) : s[k] = SetToSeq(a)[i]
        /\ \A i \in 1..Len(SetToSeq(b)) : \E k \in 1..Len(s) : s[k] = SetToSeq(b)[i]
    <3>1. PICK A \in Seq(Peer), B \in Seq(Peer) : A = SetToSeq(a) /\ B = SetToSeq(b)
      BY <2>3
    <3>2. /\ \A i \in 1..Len(A) : \E k \in 1..Len(A \o B) : (A \o B)[k] = A[i]
          /\ \A i \in 1..Len(B) : \E k \in 1..Len(A \o B) : (A \o B)[k] = B[i]
      BY ConcatHas
    <3> QED BY <2>2, <3>1, <3>2
  <2> QED BY <2>4, <2>5
<1> QED BY <1>2, <1>3, OrderAssumption

LEMMA GroupInit == Init => Group!Init
<1> SUFFICES ASSUME Init PROVE Group!Init
  OBVIOUS
<1>1. ASSUME NEW n \in Node PROVE Ports(peers[n]) = Members \ {n}
  <2>1. peers[n] \in Orders(n)
    BY DEF Init
  <2>2. \A i \in 1..Len(peers[n]) : peers[n][i].udp \in Members \ {n}
    <3>1. \A i \in 1..Len(peers[n]) : /\ \E r \in Members : peers[n][i] = Self(r)
                                      /\ peers[n][i] # Self(n)
      BY <2>1, OrdersProps, OrdersDistinct DEF ListIn, Distinct
    <3>2. \A r : Self(r).udp = r
      BY DEF Self
    <3> QED BY <3>1, <3>2
  <2>3. \A q \in Members \ {n} : \E i \in 1..Len(peers[n]) : peers[n][i] = Self(q)
    BY <2>1, OrdersComplete
  <2>4. \A q \in Members \ {n} : q \in Ports(peers[n])
    <3> TAKE q \in Members \ {n}
    <3>1. PICK i \in 1..Len(peers[n]) : peers[n][i] = Self(q)
      BY <2>3
    <3>2. peers[n][i].udp = q
      BY <3>1 DEF Self
    <3> QED BY <3>2 DEF Ports
  <2> QED BY <2>2, <2>4 DEF Ports
<1>2. Dead = {}
  BY DEF Init, Dead
<1> QED BY <1>1, <1>2 DEF Group!Init, Init, Ports

(* Removing an entry of p leaves all other ports, and p if it is listed    *)
(* twice.                                                                  *)
LEMMA PortsDropped ==
  ASSUME NEW list \in Seq(Peer), NEW p, IdxOf(list, Self(p)) # -1
  PROVE  /\ p \in Ports(list)
         /\ \/ Ports(RemovePeer(list, IdxOf(list, Self(p)))) = Ports(list)
            \/ Ports(RemovePeer(list, IdxOf(list, Self(p)))) = Ports(list) \ {p}
<1> DEFINE idx == IdxOf(list, Self(p))
           new == RemovePeer(list, idx)
<1>1. Len(list) \in Nat
  BY LenProperties
<1>2. idx \in 0..Len(list) - 1 /\ list[idx + 1] = Self(p)
  BY <1>1, IdxOfProps
<1> HIDE DEF idx
<1>3. idx + 1 \in 1..Len(list) /\ list[idx + 1].udp = p
  BY <1>1, <1>2 DEF Self
<1>4. /\ \A j \in 1..Len(new) : \E i \in 1..Len(list) : new[j] = list[i]
      /\ \A i \in 1..Len(list) : i # idx + 1 => \E j \in 1..Len(new) : new[j] = list[i]
  <2>1. PICK k \in 0..Len(list) - 1 : k = idx
    BY <1>2
  <2>2. /\ RemovePeer(list, k) \in Seq(Peer) /\ Len(RemovePeer(list, k)) = Len(list) - 1
        /\ \A j \in 1..Len(list) - 1 : \E i \in 1..Len(list) : RemovePeer(list, k)[j] = list[i]
    BY RemovePeerProps
  <2>3. \A i \in 1..Len(list) : i # k + 1 =>
          \E j \in 1..Len(RemovePeer(list, k)) : RemovePeer(list, k)[j] = list[i]
    BY RemovePeerKeeps
  <2> QED BY <2>1, <2>2, <2>3
<1> HIDE DEF new
<1>5. Ports(new) \subseteq Ports(list)
  BY <1>4 DEF Ports
<1>6. Ports(list) \ {p} \subseteq Ports(new)
  <2> SUFFICES ASSUME NEW i \in 1..Len(list), list[i].udp # p PROVE list[i].udp \in Ports(new)
    BY DEF Ports
  <2>1. i # idx + 1
    BY <1>3
  <2> QED BY <1>4, <2>1 DEF Ports
<1>7. p \in Ports(list)
  BY <1>3 DEF Ports
<1> QED BY <1>5, <1>6, <1>7 DEF new, idx

(* Appending a peer adds its port. *)
LEMMA PortsAdded ==
  ASSUME NEW list \in Seq(Peer), NEW p \in Peer
  PROVE  Ports(AddPeer(list, p)) = Ports(list) \cup {p.udp}
<1> DEFINE new == AddPeer(list, p)
<1>1. /\ Len(list) \in Nat /\ Len(new) = Len(list) + 1 /\ new[Len(list) + 1] = p
      /\ \A i \in 1..Len(list) : new[i] = list[i]
  BY AppendProperties, LenProperties DEF AddPeer
<1> HIDE DEF new
<1>2. 1..Len(new) = 1..Len(list) \cup {Len(list) + 1}
  BY <1>1
<1>3. Ports(new) = Ports(list) \cup {p.udp}
  BY <1>1, <1>2 DEF Ports
<1> QED BY <1>3 DEF new

(* Removing an entry of q from the list of n, in the terms of              *)
(* GroupMembership.                                                        *)
LEMMA DropsPort ==
  ASSUME TypeOK, NEW n \in Node, NEW q, IdxOf(peers[n], Self(q)) # -1,
         peers' = [peers EXCEPT ![n] = RemovePeer(@, IdxOf(peers[n], Self(q)))]
  PROVE  Group!Drop(n, q) /\ q \in Listed[n]
<1>1. peers \in [Node -> Seq(Peer)]
  BY DEF TypeOK, UdpTypeOK
<1>2. /\ q \in Ports(peers[n])
      /\ Ports(peers'[n]) = Ports(peers[n]) \/ Ports(peers'[n]) = Ports(peers[n]) \ {q}
  BY <1>1, PortsDropped
<1>3. \A d \in Node \ {n} : peers'[d] = peers[d]
  BY <1>1
<1>4. Listed' = Listed \/ Listed' = [Listed EXCEPT ![n] = @ \ {q}]
  <2>1. \A d \in Node : Ports(peers[d])' = Ports(peers'[d])
    BY DEF Ports
  <2>2. CASE Ports(peers'[n]) = Ports(peers[n])
    BY <1>3, <2>1, <2>2 DEF Listed
  <2>3. CASE Ports(peers'[n]) = Ports(peers[n]) \ {q}
    <3> DEFINE new == [d \in Node |-> IF d = n THEN Ports(peers[n]) \ {q} ELSE Ports(peers[d])]
    <3>1. Listed' = new
      BY <1>3, <2>1, <2>3 DEF Listed
    <3>2. [Listed EXCEPT ![n] = @ \ {q}] = new
      BY DEF Listed
    <3> QED BY <3>1, <3>2
  <2> QED BY <1>2, <2>2, <2>3
<1> QED BY <1>2, <1>4 DEF Group!Drop, Listed, Ports

(* Appending q to the list of n, in the terms of GroupMembership. *)
LEMMA AddsPort ==
  ASSUME TypeOK, NEW n \in Node, NEW q \in Admitted \ {n}, Self(q) \in Peer,
         peers' = [peers EXCEPT ![n] = AddPeer(@, Self(q))],
         joined' = joined, declared' = declared
  PROVE  Group!Learn(n, q)
<1>1. peers \in [Node -> Seq(Peer)]
  BY DEF TypeOK, UdpTypeOK
<1>2. Ports(peers'[n]) = Ports(peers[n]) \cup {q}
  BY <1>1, PortsAdded DEF Self
<1>3. \A d \in Node \ {n} : peers'[d] = peers[d]
  BY <1>1
<1>4. Listed' = [Listed EXCEPT ![n] = @ \cup {q}]
  <2>1. \A d \in Node : Ports(peers[d])' = Ports(peers'[d])
    BY DEF Ports
  <2>2. PICK P : P = Ports(peers[n]) \cup {q}
    OBVIOUS
  <2>3. \A d \in Node : Ports(peers'[d]) = IF d = n THEN P ELSE Ports(peers[d])
    BY <1>2, <1>3, <2>2
  <2>4. [Listed EXCEPT ![n] = P] = [d \in Node |-> IF d = n THEN P ELSE Ports(peers[d])]
    BY DEF Listed
  <2>5. Listed' = [Listed EXCEPT ![n] = P]
    BY <2>1, <2>3, <2>4 DEF Listed
  <2> QED BY <2>2, <2>5 DEF Listed
<1>5. Dead' = Dead
  BY DEF Dead
<1> QED BY <1>4, <1>5 DEF Group!Learn, Admitted, Listed, Ports

(* Every step is one of GroupMembership, or leaves the ports, the requests *)
(* and the declarations as they are.                                       *)
LEMMA GroupStep ==
  ASSUME IInv, [Next]_vars
  PROVE  [Group!Next]_<<Listed, joined, Dead>>
<1>1. /\ TypeOK /\ peers \in [Node -> Seq(Peer)] /\ udp \in [Node -> UdpState]
      /\ joined \subseteq Node \X Port /\ declared \subseteq Node \X Port
  BY DEF IInv, TypeOK, UdpTypeOK
<1>2. Admitted \subseteq Port /\ Dead \subseteq Port
  BY <1>1, MemberAssumption DEF Admitted, Dead
<1>3. CASE UNCHANGED <<peers, joined, declared>>
  BY <1>3 DEF Listed, Dead
<1>4. ASSUME NEW n \in Node, ProcessUpdate(n), peers' # peers
      PROVE  \E q \in Port : Group!Learn(n, q) \/ Group!Forget(n, q)
  <2> DEFINE u == Head(udp[n].todo)
  <2>1. /\ udp[n].todo \in Seq(Update) /\ udp[n].todo # << >>
        /\ UpdateMember(n, u) /\ joined' = joined /\ declared' = declared
    BY <1>1, <1>4, UdpFields DEF ProcessUpdate
  <2>2. u \in Update /\ FoundedIn(u, Admitted, Dead)
    <3>1. NewsIn(udp[n].todo, Admitted, Dead)
      BY <1>4 DEF IInv, NodeIn, AllIn, UdpIn, ProcessUpdate
    <3>2. Len(udp[n].todo) \in Nat /\ Len(udp[n].todo) # 0 /\ u = udp[n].todo[1]
      BY <2>1, HeadTailProperties, LenProperties, EmptySeq
    <3>3. 1 \in 1..Len(udp[n].todo)
      BY <3>2
    <3> QED BY <2>1, <3>1, <3>2, <3>3, ElementOfSeq DEF NewsIn
  <2> HIDE DEF u
  <2>3. CASE u.status = Removed /\ IdxOf(peers[n], u.peer) > 0
    <3>1. PICK q \in Dead : u.peer = Self(q)
      BY <2>2, <2>3 DEF FoundedIn, Removed, Joined
    <3>2. /\ peers' = [peers EXCEPT ![n] = RemovePeer(@, IdxOf(peers[n], Self(q)))]
          /\ IdxOf(peers[n], Self(q)) # -1
      BY <1>1, <2>1, <2>3, <3>1 DEF UpdateMember
    <3>3. Group!Drop(n, q) /\ Dead' = Dead
      BY <1>1, <2>1, <3>2, DropsPort DEF Dead
    <3>4. Group!Forget(n, q)
      BY <2>1, <3>3 DEF Group!Forget
    <3> QED BY <1>2, <3>4
  <2>4. CASE u.status # Removed /\ IdxOf(peers[n], u.peer) = -1 /\ u.peer # Self(n)
    <3>1. PICK q \in Admitted : u.peer = Self(q)
      BY <2>2, <2>4 DEF FoundedIn, Removed, Joined
    <3>2. peers' = [peers EXCEPT ![n] = AddPeer(@, Self(q))]
      BY <2>1, <2>4, <3>1 DEF UpdateMember
    <3>3. q # n /\ Self(q) \in Peer
      BY <2>2, <2>4, <3>1 DEF Update
    <3>4. Group!Learn(n, q)
      BY <1>1, <2>1, <3>2, <3>3, AddsPort
    <3> QED BY <1>2, <3>4
  <2> QED BY <1>1, <1>4, <2>1, <2>3, <2>4 DEF UpdateMember
<1>5. ASSUME NEW n \in Node, RemvPeer(n) PROVE \E j \in Port : Group!Ask(n, j)
  <2>1. PICK j \in Joiners \ {n} :
          /\ <<n, j>> \notin joined /\ joined' = joined \cup {<<n, j>>}
          /\ peers' = [peers EXCEPT ![n] = IF IdxOf(peers[n], Self(j)) > 0
                                           THEN RemovePeer(@, IdxOf(peers[n], Self(j))) ELSE @]
    BY <1>5 DEF RemvPeer
  <2>2. Group!Drop(n, j)
    <3>1. CASE IdxOf(peers[n], Self(j)) > 0
      <4>1. IdxOf(peers[n], Self(j)) # -1
        BY <3>1
      <4>2. peers' = [peers EXCEPT ![n] = RemovePeer(@, IdxOf(peers[n], Self(j)))]
        BY <2>1, <3>1
      <4> QED BY <1>1, <4>1, <4>2, DropsPort
    <3>2. CASE ~(IdxOf(peers[n], Self(j)) > 0)
      <4>1. peers' = peers
        BY <1>1, <2>1, <3>2
      <4> QED BY <4>1 DEF Group!Drop
    <3> QED BY <3>1, <3>2
  <2>3. Dead' = Dead
    BY <1>5 DEF RemvPeer, Dead
  <2>4. Group!Ask(n, j)
    BY <2>1, <2>2, <2>3 DEF Group!Ask
  <2> QED BY <2>4, MemberAssumption
<1>6. ASSUME NEW n \in Node, AppendMember(n), peers' # peers
      PROVE  \E j \in Port : Group!Learn(n, j)
  <2>1. /\ peers' = [peers EXCEPT ![n] = AddPeer(@, tcp[n].joiner)]
        /\ tcp[n].at # "accept" /\ joined' = joined /\ declared' = declared
    BY <1>6 DEF AppendMember
  <2>2. PICK j \in Joiners \ {n} : tcp[n].joiner = Self(j) /\ <<n, j>> \in joined
    BY <2>1 DEF IInv, JoinerKnown
  <2>3. j \in Admitted /\ j # n
    BY <2>2 DEF Admitted
  <2>4. Self(j) \in Peer
    BY <2>2, MemberAssumption DEF Self, Peer
  <2>5. Group!Learn(n, j)
    BY <1>1, <2>1, <2>2, <2>3, <2>4, AddsPort
  <2> QED BY <2>5, MemberAssumption
<1>7. ASSUME NEW n \in Node, DeclareDead(n) PROVE \E q \in Port : Group!Declare(n, q)
  <2>1. PICK q \in Mortals :
          /\ IdxOf(peers[n], Self(q)) # -1 /\ declared' = declared \cup {<<n, q>>}
          /\ peers' = [peers EXCEPT ![n] = RemovePeer(@, IdxOf(peers[n], Self(q)))]
    BY <1>7 DEF DeclareDead
  <2>2. joined' = joined
    BY <1>7 DEF DeclareDead
  <2>3. Dead' = Dead \cup {q}
    <3>1. <<n, q>>[2] = q
      OBVIOUS
    <3>2. Dead \subseteq Dead' /\ q \in Dead'
      BY <2>1, <3>1 DEF Dead
    <3>3. Dead' \subseteq Dead \cup {q}
      BY <2>1, <3>1 DEF Dead
    <3> QED BY <3>2, <3>3
  <2>4. Group!Drop(n, q) /\ q \in Ports(peers[n])
    BY <1>1, <2>1, DropsPort DEF Listed
  <2>5. Group!Declare(n, q)
    BY <2>2, <2>3, <2>4 DEF Group!Declare, Ports
  <2> QED BY <2>5, MemberAssumption
<1>8. ASSUME NEW n \in Node,
             \/ GossipChanges(n) \/ ReceiveDatagram(n) \/ BeginUpdates(n) \/ EndUpdates(n)
             \/ AppendBroadcast(n) \/ Lose(n)
      PROVE  UNCHANGED <<peers, joined, declared>>
  BY <1>8 DEF GossipChanges, ReceiveDatagram, Receive, BeginUpdates, EndUpdates,
              AppendBroadcast, Lose, udpVars, dsVars
<1>9. ASSUME NEW n \in Node, ProcessUpdate(n) \/ AppendMember(n)
      PROVE  joined' = joined /\ declared' = declared
  BY <1>9 DEF ProcessUpdate, AppendMember
<1>10. CASE UNCHANGED vars
  BY <1>3, <1>10 DEF vars, udpVars, dsVars
<1>11. CASE Next
  <2>1. PICK n \in Node : \/ GossipChanges(n) \/ Listener(n) \/ RemvPeer(n)
                          \/ Admitting(n) \/ DeclareDead(n) \/ Lose(n)
    BY <1>11 DEF Next
  <2>2. \/ UNCHANGED <<peers, joined, declared>>
        \/ \E q \in Port : \/ Group!Ask(n, q) \/ Group!Declare(n, q)
                           \/ Group!Learn(n, q) \/ Group!Forget(n, q)
    BY <1>4, <1>5, <1>6, <1>7, <1>8, <1>9, <2>1 DEF Listener, Admitting
  <2> QED BY <1>3, <2>2 DEF Group!Next
<1> QED BY <1>10, <1>11

(* Whatever the order in which old and new news arrive, whatever is lost   *)
(* and whoever joins anew: a node lists only who was a member or asked to  *)
(* join, and drops a port only if some node declared it dead, or at the    *)
(* port's own request.                                                     *)
THEOREM MembershipKept == Spec => ImplementsMembership
<1>1. IInv /\ [Next]_vars =>
        [Group!Next]_<<[n \in Node |-> {peers[n][i].udp : i \in 1..Len(peers[n])}], joined, Dead>>
  BY GroupStep DEF Listed, Ports
<1> QED BY <1>1, GroupInit, InitFounded, NextFounded, PTL
       DEF Spec, ImplementsMembership, Group!Spec

-----------------------------------------------------------------------------
(* Type correctness of JoinProtocol.  Its steps are steps of Dissemination *)
(* but for those of the joiner, of the gateway and of the probing.         *)

JoiningType == {Out, Idle, Sleep} \cup {Waiting(g) : g \in Port}
                 \cup [at : {"replied"}, list : Seq(Peer)]

(* What is in the list of joining nodes. *)
LEMMA JoiningTypes ==
  /\ {Out, Idle, Sleep} \subseteq JoiningType
  /\ \A g \in Port : Waiting(g) \in JoiningType
  /\ \A list \in Seq(Peer) : Replied(list) \in JoiningType
  /\ \A j \in JoiningType : j.at = "replied" => j.list \in Seq(Peer)
<1>1. /\ {Out, Idle, Sleep} \subseteq JoiningType
      /\ \A g \in Port : Waiting(g) \in JoiningType
      /\ \A list \in Seq(Peer) : Replied(list) \in JoiningType
  BY DEF JoiningType, Replied
<1>2. ASSUME NEW j \in JoiningType, j.at = "replied" PROVE j.list \in Seq(Peer)
  BY <1>2 DEF JoiningType, Out, Idle, Sleep, Waiting
<1> QED BY <1>1, <1>2

(* A port is a peer. *)
LEMMA SelfTyped == \A n \in Node : n \in Port /\ Self(n) \in Peer
BY PortAssumption DEF Self, Peer

(* Taking a peer out of a list, if it is there. *)
LEMMA RemovedTyped ==
  ASSUME peers \in [Node -> Seq(Peer)], NEW n \in Node, NEW p,
         peers' = [peers EXCEPT ![n] = IF IdxOf(peers[n], p) > 0
                     THEN RemovePeer(peers[n], IdxOf(peers[n], p)) ELSE peers[n]]
  PROVE  peers' \in [Node -> Seq(Peer)]
<1> DEFINE idx == IdxOf(peers[n], p)
<1>1. Len(peers[n]) \in Nat /\ peers[n] \in Seq(Peer)
  OBVIOUS
<1>2. idx \in -1..Len(peers[n]) - 1
  BY <1>1, IdxOfProps
<1> HIDE DEF idx
<1>3. CASE idx > 0
  <2>1. idx \in 0..Len(peers[n]) - 1
    BY <1>1, <1>2, <1>3
  <2> QED BY <1>1, <1>3, <2>1, RemovePeerProps DEF idx
<1>4. CASE ~(idx > 0)
  BY <1>4 DEF idx
<1> QED BY <1>3, <1>4

(* Taking a listed peer out of a list. *)
LEMMA FoundTyped ==
  ASSUME peers \in [Node -> Seq(Peer)], NEW n \in Node, NEW p, IdxOf(peers[n], p) # -1,
         peers' = [peers EXCEPT ![n] = RemovePeer(peers[n], IdxOf(peers[n], p))]
  PROVE  peers' \in [Node -> Seq(Peer)]
<1> DEFINE idx == IdxOf(peers[n], p)
<1>1. Len(peers[n]) \in Nat /\ peers[n] \in Seq(Peer)
  OBVIOUS
<1>2. idx \in -1..Len(peers[n]) - 1
  BY <1>1, IdxOfProps
<1>3. idx # -1
  OBVIOUS
<1> HIDE DEF idx
<1>4. idx \in 0..Len(peers[n]) - 1
  BY <1>1, <1>2, <1>3
<1> QED BY <1>1, <1>4, RemovePeerProps DEF idx

(* Newcomers start with no list, members with one of each other.           *)
LEMMA JoinInitTyped == JoinInit => JoinTypeOK
<1> SUFFICES ASSUME JoinInit PROVE JoinTypeOK
  OBVIOUS
<1>1. \A n \in Node : peers[n] \in Seq(Peer)
  <2> SUFFICES ASSUME NEW n \in Node PROVE peers[n] \in Seq(Peer)
    OBVIOUS
  <2>1. CASE n \in Members
    <3>1. peers[n] \in Orders(n)
      BY <2>1 DEF JoinInit
    <3> QED BY <3>1, OrdersProps
  <2>2. CASE n \notin Members
    <3>1. peers[n] = <<>>
      BY <2>2 DEF JoinInit
    <3> QED BY <3>1
  <2> QED BY <2>1, <2>2
<1>2. peers \in [Node -> Seq(Peer)]
  BY <1>1 DEF JoinInit
<1>3. \A n \in Node : DOMAIN inbox[n] = {}
  BY DEF JoinInit, EmptyBag, SetToBag
<1>4. DOMAIN inbox = Node /\ udp \in [Node -> UdpState]
  BY UdpStates DEF JoinInit
<1>5. UdpTypeOK
  BY <1>2, <1>3, <1>4 DEF JoinInit, UdpTypeOK
<1>6. bcast \in [Node -> Seq(Broadcast)]
  BY DEF JoinInit
<1>7. 0 \in 0..MaxLoss /\ 0 \in 0..MaxTrouble
  BY BoundAssumption, TroubleAssumption
<1>8. TypeOK
  BY <1>5, <1>6, <1>7 DEF JoinInit, TypeOK, Accept
<1>9. joining \in [Node -> JoiningType]
  BY JoiningTypes DEF JoinInit
<1> QED BY <1>7, <1>8, <1>9 DEF JoinInit, JoinTypeOK, JoiningType

(* connect changes the state of the joiner only. *)
LEMMA ConnectTyped ==
  ASSUME JoinTypeOK, NEW n, NEW g, Connect(n, g)
  PROVE  up' \in [Node -> BOOLEAN] /\ joining' \in [Node -> JoiningType]
<1>1. up \in [Node -> BOOLEAN] /\ joining \in [Node -> JoiningType]
  BY DEF JoinTypeOK, TypeOK, UdpTypeOK, JoiningType
<1>2. CASE g \in Node /\ up[g]
  <2>1. Waiting(g) \in JoiningType
    BY <1>2, JoiningTypes, SelfTyped
  <2> HIDE DEF JoiningType
  <2> QED BY <1>1, <1>2, <2>1 DEF Connect
<1>3. CASE ~(g \in Node /\ up[g])
  BY <1>1, <1>3, JoiningTypes DEF Connect
<1> QED BY <1>2, <1>3

(* A step of Dissemination keeps the types. *)
LEMMA OldStepTyped ==
  ASSUME JoinTypeOK, [Next]_vars, UNCHANGED joinVars
  PROVE  JoinTypeOK'
<1>1. TypeOK'
  BY NextTyped DEF JoinTypeOK
<1> QED BY <1>1 DEF JoinTypeOK, joinVars

(* Every step keeps the types. *)
LEMMA JoinNextTyped == JoinTypeOK /\ [JoinNext]_allVars => JoinTypeOK'
<1> SUFFICES ASSUME JoinTypeOK, [JoinNext]_allVars PROVE JoinTypeOK'
  OBVIOUS
<1>1. /\ TypeOK /\ joining \in [Node -> JoiningType]
      /\ grace \in [Node -> BOOLEAN] /\ trouble \in 0..MaxTrouble
  BY DEF JoinTypeOK, JoiningType
<1>2. ASSUME TypeOK', joining' \in [Node -> JoiningType], grace' \in [Node -> BOOLEAN],
             trouble' \in 0..MaxTrouble
      PROVE  JoinTypeOK'
  BY <1>2 DEF JoinTypeOK, JoiningType
<1>3. trouble < MaxTrouble /\ trouble' = trouble + 1 => trouble' \in 0..MaxTrouble
  BY <1>1, TroubleAssumption
<1> USE DEF TypeOK, UdpTypeOK
<1>4. CASE UNCHANGED allVars
  BY <1>1, <1>2, <1>4 DEF allVars, vars, udpVars, dsVars, joinVars
<1>5. ASSUME NEW n \in Node, Start(n) PROVE JoinTypeOK'
  <2>1. up' \in [Node -> BOOLEAN] /\ joining' \in [Node -> JoiningType]
    BY <1>5, ConnectTyped DEF Start
  <2> QED BY <1>1, <1>2, <1>3, <1>5, <2>1 DEF Start, dsVars
<1>6. ASSUME NEW n \in Node, Reconnect(n) PROVE JoinTypeOK'
  <2>1. up' \in [Node -> BOOLEAN] /\ joining' \in [Node -> JoiningType]
    BY <1>6, ConnectTyped DEF Reconnect
  <2> QED BY <1>1, <1>2, <1>6, <2>1 DEF Reconnect, dsVars
<1>7. ASSUME NEW n \in Node, HungUp(n) PROVE JoinTypeOK'
  <2>1. /\ \/ joining' = [joining EXCEPT ![n] = Replied(<<>>)] /\ UNCHANGED up
           \/ /\ joining' = [joining EXCEPT ![n] = Idle]
              /\ up' = [up EXCEPT ![n] = FALSE]
        /\ UNCHANGED <<starved, peers, inbox, udp, dsVars, grace, trouble>>
    BY <1>7 DEF HungUp
  <2>2. Replied(<<>>) \in JoiningType /\ Idle \in JoiningType
    <3>1. <<>> \in Seq(Peer)
      OBVIOUS
    <3> QED BY <3>1, JoiningTypes
  <2>3. joining' \in [Node -> JoiningType]
    <3>1. PICK j \in JoiningType : joining' = [joining EXCEPT ![n] = j]
      BY <2>1, <2>2
    <3> QED BY <1>1, <3>1
  <2>4. up' \in [Node -> BOOLEAN]
    BY <1>1, <2>1
  <2> QED BY <1>1, <1>2, <2>1, <2>3, <2>4 DEF dsVars
<1>8. ASSUME NEW n \in Node, Adopt(n) PROVE JoinTypeOK'
  <2>1. joining[n].list \in Seq(Peer) /\ Idle \in JoiningType /\ Recv \in UdpState
    BY <1>1, <1>8, JoiningTypes, UdpStates DEF Adopt
  <2>2. /\ peers' \in [Node -> Seq(Peer)] /\ grace' \in [Node -> BOOLEAN]
        /\ joining' \in [Node -> JoiningType] /\ up' \in [Node -> BOOLEAN]
        /\ udp' \in [Node -> UdpState]
    BY <1>1, <1>8, <2>1 DEF Adopt
  <2> QED BY <1>1, <1>2, <1>8, <2>2 DEF Adopt, dsVars
<1>9. ASSUME NEW n \in Node, AcceptRequest(n) PROVE JoinTypeOK'
  <2>1. PICK j \in Node :
          /\ peers' = [peers EXCEPT ![n] =
               IF IdxOf(peers[n], Self(j)) > 0
               THEN RemovePeer(peers[n], IdxOf(peers[n], Self(j))) ELSE peers[n]]
          /\ tcp' = [tcp EXCEPT ![n] = [at |-> "append", joiner |-> Self(j)]]
    BY <1>9 DEF AcceptRequest
  <2>2. peers' \in [Node -> Seq(Peer)]
    BY <1>1, <2>1, RemovedTyped
  <2>3. tcp' \in [Node -> {Accept} \cup [at : {"append", "announce"}, joiner : Peer]]
    BY <1>1, <2>1, SelfTyped
  <2> QED BY <1>1, <1>2, <1>9, <2>2, <2>3 DEF AcceptRequest, joinVars
<1>10. ASSUME NEW n \in Node, SendReply(n) PROVE JoinTypeOK'
  <2>1. Replied(JoinReply(n)) \in JoiningType
    <3>1. Append(peers[n], Self(n)) \in Seq(Peer)
      BY <1>1, SelfTyped, AppendProperties
    <3> QED BY <3>1, JoiningTypes DEF JoinReply
  <2>2. joining' \in [Node -> JoiningType]
    BY <1>1, <1>10, <2>1 DEF SendReply
  <2> QED BY <1>1, <1>2, <1>10, <2>2 DEF SendReply, vars, udpVars, dsVars
<1>11. ASSUME NEW n \in Node, Admit(n) PROVE JoinTypeOK'
  BY <1>11, OldStepTyped DEF Admit, Next, Admitting
<1>12. ASSUME NEW n \in Node, ListenerOf(n), ~BeginReset(n) PROVE JoinTypeOK'
  BY <1>12, OldStepTyped DEF ListenerOf, Updating, Next, Listener
<1>13. ASSUME NEW n \in Node, BeginReset(n) PROVE JoinTypeOK'
  <2>1. udp' \in [Node -> UdpState]
    BY <1>1, <1>13, UdpStates DEF BeginReset
  <2>2. joining' \in [Node -> JoiningType]
    BY <1>1, <1>13, JoiningTypes DEF BeginReset
  <2>3. bcast' \in [Node -> Seq(Broadcast)]
    BY <1>1, <1>13 DEF BeginReset
  <2> QED BY <1>1, <1>2, <1>13, <2>1, <2>2, <2>3 DEF BeginReset
<1>14. ASSUME NEW n \in Node, Stop(n) PROVE JoinTypeOK'
  <2>1. DOMAIN inbox' = Node /\ \A d \in Node : DOMAIN inbox'[d] \subseteq Message
    BY <1>1, <1>14 DEF Stop, EmptyBag, SetToBag
  <2>2. up' \in [Node -> BOOLEAN]
    BY <1>1, <1>14 DEF Stop
  <2> QED BY <1>1, <1>2, <1>3, <1>14, <2>1, <2>2 DEF Stop, dsVars
<1>15. ASSUME NEW n \in Node, EndGrace(n) PROVE JoinTypeOK'
  BY <1>1, <1>2, <1>15 DEF EndGrace, vars, udpVars, dsVars
<1>16. ASSUME NEW n \in Node, Gossip(n) PROVE JoinTypeOK'
  BY <1>16, OldStepTyped DEF Gossip, Next
<1>17. ASSUME NEW n \in Node, FindDead(n) PROVE JoinTypeOK'
  <2>1. PICK q \in Port \ ({n} \cup Unnoticed) :
          /\ IdxOf(peers[n], Self(q)) # -1
          /\ \/ trouble' = trouble
             \/ trouble < MaxTrouble /\ trouble' = trouble + 1
          /\ peers' = [peers EXCEPT ![n] = RemovePeer(peers[n], IdxOf(peers[n], Self(q)))]
          /\ bcast' = [bcast EXCEPT ![n] =
               AddBroadcastToList(bcast[n], Self(q), Removed, Len(peers[n]) - 1)]
    BY <1>17 DEF FindDead
  <2>2. peers' \in [Node -> Seq(Peer)]
    BY <1>1, <2>1, FoundTyped
  <2>3. AddBroadcastToList(bcast[n], Self(q), Removed, Len(peers[n]) - 1) \in Seq(Broadcast)
    BY <1>1, <2>1, AddBroadcastProps DEF Self, Peer
  <2>4. bcast' \in [Node -> Seq(Broadcast)]
    BY <1>1, <2>1, <2>3
  <2>5. trouble' \in 0..MaxTrouble
    BY <1>1, <1>3, <2>1
  <2> QED BY <1>1, <1>2, <1>17, <2>2, <2>4, <2>5 DEF FindDead
<1>18. ASSUME NEW n \in Node, NEW q \in Node, Probe(n, q) PROVE JoinTypeOK'
  <2> DEFINE m == [type |-> "NOT_A_PEER", from |-> q]
  <2>1. m \in Message
    BY Messages, SelfTyped
  <2>2. inbox' = Send(inbox, q, n, m)
    BY <1>18 DEF Probe
  <2> HIDE DEF m
  <2>3. DOMAIN inbox' = Node /\ \A d \in Node : DOMAIN inbox'[d] \subseteq Message
    BY <1>1, <2>1, <2>2, SendProps
  <2> QED BY <1>1, <1>2, <1>18, <2>3 DEF Probe, dsVars, joinVars
<1> QED
  BY <1>4, <1>5, <1>6, <1>7, <1>8, <1>9, <1>10, <1>11, <1>12, <1>13, <1>14, <1>15, <1>16,
     <1>17, <1>18 DEF JoinNext, Joining, Gateway

(* Whoever joins, stops, is dropped by mistake and joins again, no list    *)
(* gets a hole, and what a joiner adopts is a list of peers.               *)
THEOREM JoinTypeCorrect == JoinSpec => []JoinTypeOK
BY JoinInitTyped, JoinNextTyped, PTL DEF JoinSpec

=============================================================================
