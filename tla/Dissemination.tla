--------------------------- MODULE Dissemination ---------------------------
(***************************************************************************)
(* How news of joins and removals spreads: the gossiper thread             *)
(* (src/node_manager.c, gossiper), process_updates in the UDP thread, and  *)
(* the two sources of news, the TCP thread that admits a node and the      *)
(* prober that declares one dead.                                          *)
(*                                                                         *)
(* Members are in the lists at the start, whether their process is         *)
(* modelled or not.  A node that is not a member has its join reply        *)
(* already and lists the members; what the reply holds and how it is read  *)
(* is no part of this module, nor is the prober that finds a node dead:    *)
(* DeclareDead is the branch of check_probed in which it does.             *)
(***************************************************************************)
EXTENDS UdpListener

CONSTANTS
  Members,    \* the ports listed at the start
  Joiners,    \* the ports that ask to join
  Mortals,    \* the ports that are declared dead
  AnyOrder,   \* the lists start in every order, not only with mortals last
  MaxJoin,    \* bound: requests to join, one by a joiner to a gateway
  MaxDead,    \* bound: declarations of death, one by a node of a peer
  MaxLoss,    \* bound: datagrams lost
  MaxQueued   \* bound: datagrams that wait at a node when a gossiper acts

ASSUME MemberAssumption ==
  Members \subseteq Port /\ Joiners \subseteq Port /\ Mortals \subseteq Port
ASSUME OrderAssumption == AnyOrder \in BOOLEAN
ASSUME BoundAssumption == {MaxJoin, MaxDead, MaxLoss, MaxQueued} \subseteq Nat

VARIABLES
  bcast,     \* bcast[n]: broadcast_list
  tcp,       \* tcp[n]: where the TCP thread of n is, and with which joiner
  joined,    \* who asked to join so far: pairs of gateway and joiner
  declared,  \* who was declared dead so far: pairs of node and peer
  lost       \* datagrams lost so far

dsVars == <<bcast, tcp, joined, declared, lost>>
vars == <<udpVars, dsVars>>

Accept == [at |-> "accept", joiner |-> NoPeer]

TypeOK ==
  /\ UdpTypeOK
  /\ bcast \in [Node -> Seq(Broadcast)]
  /\ tcp \in [Node -> {Accept} \cup [at : {"append", "announce"}, joiner : Peer]]
  /\ joined \subseteq Node \X Port
  /\ declared \subseteq Node \X Port
  /\ lost \in 0..MaxLoss

Others(n) == {Self(q) : q \in Members \ {n}}

Orders(n) ==
  IF AnyOrder THEN SetToSeqs(Others(n))
  ELSE {SetToSeq({p \in Others(n) : p.udp \notin Mortals})
          \o SetToSeq({p \in Others(n) : p.udp \in Mortals})}

Init ==
  /\ up = [n \in Node |-> TRUE]
  /\ starved = [n \in Node |-> FALSE]
  /\ peers \in [Node -> UNION {Orders(n) : n \in Node}]
  /\ \A n \in Node : peers[n] \in Orders(n)
  /\ inbox = [n \in Node |-> EmptyBag]
  /\ udp = [n \in Node |-> Recv]
  /\ bcast = [n \in Node |-> <<>>]
  /\ tcp = [n \in Node |-> Accept]
  /\ joined = {}
  /\ declared = {}
  /\ lost = 0

Running(n) == up[n] /\ ~Locked(n)

-----------------------------------------------------------------------------
(* Mutant: the rounds are never counted down. *)
AgedNot(b) == b

Aged(b) == [b EXCEPT !.rounds = @ - 1]

(* gossip_changes: send all the news once to FAN_OUT peers; news whose     *)
(* rounds are used up was sent for the last time.                          *)
GossipChanges(n) ==
  /\ Running(n)
  /\ bcast[n] # <<>>
  /\ \A d \in Node : BagCardinality(inbox[d]) < MaxQueued
  /\ LET news == [i \in 1..Len(bcast[n]) |->
                    [peer |-> bcast[n][i].peer, status |-> bcast[n][i].status]]
         aged == [i \in 1..Len(bcast[n]) |-> Aged(bcast[n][i])]
     IN  /\ bcast' = [bcast EXCEPT ![n] = TidyBroadcastList(aged)]
         /\ \E chosen \in RandomPeers(peers[n], FAN_OUT, NoPort) :
              inbox' = SendToPeers(inbox, n, chosen,
                         [type |-> "GOSSIP_UPDATE", from |-> n, updates |-> news])
  /\ UNCHANGED <<up, starved, peers, udp, tcp, joined, declared, lost>>

ReceiveDatagram(n) == Receive(n) /\ UNCHANGED dsVars

(* process_updates takes the mutex and keeps it until all updates are done.*)
BeginUpdates(n) ==
  /\ Handling(n, "GOSSIP_UPDATE")
  /\ udp' = [udp EXCEPT ![n] = [at |-> "update", todo |-> udp[n].msg.updates]]
  /\ UNCHANGED <<up, starved, peers, inbox, dsVars>>

(* update_member; a change is passed on as news of this node's own, and    *)
(* the news that contradicts the list is dropped.                          *)
UpdateMember(n, u) ==
  LET idx     == IdxOf(peers[n], u.peer)
      removes == u.status = Removed /\ idx > 0
      adds    == u.status # Removed /\ idx = -1 /\ u.peer # Self(n)
  IN  /\ peers' = [peers EXCEPT ![n] = IF removes THEN RemovePeer(@, idx)
                                      ELSE IF adds THEN AddPeer(@, u.peer) ELSE @]
      /\ bcast' = [bcast EXCEPT ![n] =
           FixBroadcastList(IF removes \/ adds
                            THEN AddBroadcastToList(@, u.peer, u.status, Len(peers'[n]))
                            ELSE @,
                            peers'[n])]

ProcessUpdate(n) ==
  /\ up[n] /\ udp[n].at = "update" /\ udp[n].todo # <<>>
  /\ UpdateMember(n, Head(udp[n].todo))
  /\ udp' = [udp EXCEPT ![n].todo = Tail(@)]
  /\ UNCHANGED <<up, starved, inbox, tcp, joined, declared, lost>>

EndUpdates(n) ==
  /\ up[n] /\ udp[n].at = "update" /\ udp[n].todo = <<>>
  /\ udp' = [udp EXCEPT ![n] = Recv]
  /\ UNCHANGED <<up, starved, peers, inbox, dsVars>>

-----------------------------------------------------------------------------
(* The TCP thread admits j in three critical sections.                     *)

(* accept a join request; remv_peer does nothing at position 0. *)
RemvPeer(n) ==
  /\ Running(n) /\ tcp[n].at = "accept"
  /\ Cardinality(joined) < MaxJoin
  /\ \E j \in Joiners \ {n} :
       LET idx == IdxOf(peers[n], Self(j))
       IN  /\ <<n, j>> \notin joined
           /\ peers' = [peers EXCEPT ![n] = IF idx > 0 THEN RemovePeer(@, idx) ELSE @]
           /\ tcp' = [tcp EXCEPT ![n] = [at |-> "append", joiner |-> Self(j)]]
           /\ joined' = joined \cup {<<n, j>>}
  /\ UNCHANGED <<up, starved, inbox, udp, bcast, declared, lost>>

(* append_member, or exit when the arrays are full. *)
AppendMember(n) ==
  /\ Running(n) /\ tcp[n].at = "append"
  /\ IF Len(peers[n]) + 1 > CAPACITY
     THEN /\ up' = [up EXCEPT ![n] = FALSE]
          /\ UNCHANGED <<peers, tcp>>
     ELSE /\ peers' = [peers EXCEPT ![n] = AddPeer(@, tcp[n].joiner)]
          /\ tcp' = [tcp EXCEPT ![n].at = "announce"]
          /\ UNCHANGED up
  /\ UNCHANGED <<starved, inbox, udp, bcast, joined, declared, lost>>

(* append_broadcast *)
AppendBroadcast(n) ==
  /\ Running(n) /\ tcp[n].at = "announce"
  /\ bcast' = [bcast EXCEPT ![n] =
                 AddBroadcastToList(@, tcp[n].joiner, Joined, Len(peers[n]))]
  /\ tcp' = [tcp EXCEPT ![n] = Accept]
  /\ UNCHANGED <<udpVars, joined, declared, lost>>

(* check_probed finds a listed peer dead. *)
DeclareDead(n) ==
  /\ Running(n)
  /\ Cardinality(declared) < MaxDead
  /\ \E q \in Mortals :
       LET idx == IdxOf(peers[n], Self(q))
       IN  /\ idx # -1 /\ <<n, q>> \notin declared
           /\ peers' = [peers EXCEPT ![n] = RemovePeer(@, idx)]
           /\ bcast' = [bcast EXCEPT ![n] =
                AddBroadcastToList(@, Self(q), Removed, Len(peers[n]) - 1)]
           /\ declared' = declared \cup {<<n, q>>}
  /\ UNCHANGED <<up, starved, inbox, udp, tcp, joined, lost>>

Lose(n) ==
  /\ lost < MaxLoss
  /\ \E m \in DOMAIN inbox[n] : inbox' = [inbox EXCEPT ![n] = Without(@, m)]
  /\ lost' = lost + 1
  /\ UNCHANGED <<up, starved, peers, udp, bcast, tcp, joined, declared>>

-----------------------------------------------------------------------------
Listener(n) == ReceiveDatagram(n) \/ BeginUpdates(n) \/ ProcessUpdate(n) \/ EndUpdates(n)
Admitting(n) == AppendMember(n) \/ AppendBroadcast(n)

Next == \E n \in Node :
  \/ GossipChanges(n) \/ Listener(n)
  \/ RemvPeer(n) \/ Admitting(n)
  \/ DeclareDead(n) \/ Lose(n)

Spec == Init /\ [][Next]_vars

(* The threads of a node go on; nobody has to join, to die or to be lost.  *)
FairSpec == Spec /\ \A n \in Node :
  WF_vars(GossipChanges(n)) /\ WF_vars(Listener(n)) /\ WF_vars(Admitting(n))

-----------------------------------------------------------------------------
(* News has a cause.  A peer is listed, or is news to be a member, only if *)
(* it was a member at the start or asked to join; it is news to be dead    *)
(* only if the prober of some node found it dead.                          *)
Admitted == Members \cup {j[2] : j \in joined}
Dead == {d[2] : d \in declared}
Founded(u) == \/ u.status = Joined /\ u.peer \in {Self(q) : q \in Admitted}
              \/ u.status = Removed /\ u.peer \in {Self(q) : q \in Dead}

(* The lists and the news, wherever it is: in a broadcast list, under way  *)
(* or being processed.                                                     *)
NewsIsFounded ==
  \A n \in Node :
    /\ \A i \in 1..Len(peers[n]) : peers[n][i] \in {Self(q) : q \in Admitted}
    /\ \A i \in 1..Len(bcast[n]) : Founded(bcast[n][i])
    /\ \A m \in DOMAIN inbox[n] : m.type = "GOSSIP_UPDATE" =>
         \A i \in 1..Len(m.updates) : Founded(m.updates[i])
    /\ udp[n].at = "handle" /\ udp[n].msg.type = "GOSSIP_UPDATE" =>
         \A i \in 1..Len(udp[n].msg.updates) : Founded(udp[n].msg.updates[i])
    /\ udp[n].at = "update" =>
         \A i \in 1..Len(udp[n].todo) : Founded(udp[n].todo[i])

(* The lists keep the promise of GroupMembership: a node drops a port only *)
(* if some node declared it dead, or at the port's own request to join.    *)
Group == INSTANCE GroupMembership WITH
  listed <- [n \in Node |-> {peers[n][i].udp : i \in 1..Len(peers[n])}],
  asked  <- joined,
  dead   <- Dead
ImplementsMembership == Group!Spec

(* No peer is in a list twice, and none lists itself.                      *)
NoDuplicates == \A n \in Node : IsInjective(peers[n]) /\ ~IsPeer(peers[n], n)

(* Whoever is admitted by one gateway is in the end listed by all nodes.   *)
JoinSpreads ==
  \A n \in Node, j \in Joiners :
    <<n, j>> \in joined ~> \A q \in Node \ {j} : IsPeer(peers[q], j)

(* Whoever is declared dead by one node is in the end listed by none.      *)
RemovalSpreads ==
  \A n \in Node, q \in Mortals :
    <<n, q>> \in declared ~> \A r \in Node \ {q} : ~IsPeer(peers[r], q)

(* The news dies out: in the end nothing is left to gossip or to read.     *)
GossipEnds ==
  <>[] \A n \in Node : bcast[n] = <<>> /\ inbox[n] = EmptyBag /\ udp[n] = Recv
=============================================================================
