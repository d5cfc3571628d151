---------------------------- MODULE JoinProtocol ----------------------------
(***************************************************************************)
(* How nodes join and come back: join_network and populate_peers on the    *)
(* side of the joiner, tcp_port_listener on the side of its gateway, and   *)
(* reset_state, by which a node that was dropped by mistake and is told    *)
(* NOT_A_PEER forgets its state and joins again.  It runs with the gossip  *)
(* of Dissemination; of probing it has the datagrams, because they are     *)
(* what NOT_A_PEER answers, and the effect.                                *)
(*                                                                         *)
(* Newcomers are the ports in Joiners.  Members that are not in Node are   *)
(* listed, but their processes have stopped and nobody has noticed yet;    *)
(* those in Unnoticed stay so, for the turn to probe them does not come.   *)
(*                                                                         *)
(* Two assumptions on time, both NewsOver: the sleep of reset_state and    *)
(* the grace period after a join (GRACE_PERIOD, 0.75 s) outlast the news   *)
(* that is under way, and so does a cycle of the prober (0.5 s).  A third  *)
(* one, in Silent, is that a free gateway replies within such a cycle.  A  *)
(* fourth one is that no other thread changes the gateway's list in the 5  *)
(* lines of tcp_port_listener that copy it without the mutex.              *)
(***************************************************************************)
EXTENDS Dissemination

CONSTANTS
  Unnoticed,  \* stopped members that no prober comes to
  MaxTrouble  \* bound: newcomers that start, nodes that stop, mistakes

ASSUME UnnoticedAssumption == Unnoticed \subseteq Members \ Node
ASSUME TroubleAssumption == MaxTrouble \in Nat

VARIABLES
  joining,  \* joining[n]: where join_network is, in main or in reset_state
  grace,    \* grace[n]: grace_period_until is not over
  trouble   \* newcomers and mistakes so far

joinVars == <<joining, grace, trouble>>
allVars == <<vars, joinVars>>

Out == [at |-> "out"]      \* not started
Idle == [at |-> "idle"]    \* not joining
Sleep == [at |-> "sleep"]  \* in the sleep of reset_state
Waiting(g) == [at |-> "wait", gateway |-> g]
Replied(list) == [at |-> "replied", list |-> list]

JoinTypeOK ==
  /\ TypeOK
  /\ joining \in [Node -> {Out, Idle, Sleep} \cup {Waiting(g) : g \in Port}
                          \cup [at : {"replied"}, list : Seq(Peer)]]
  /\ grace \in [Node -> BOOLEAN]
  /\ trouble \in 0..MaxTrouble

JoinInit ==
  /\ up = [n \in Node |-> n \in Members]
  /\ starved = [n \in Node |-> FALSE]
  /\ peers \in [Node -> UNION {Orders(n) : n \in Node} \cup {<<>>}]
  /\ \A n \in Node : peers[n] \in IF n \in Members THEN Orders(n) ELSE {<<>>}
  /\ inbox = [n \in Node |-> EmptyBag]
  /\ udp = [n \in Node |-> Recv]
  /\ bcast = [n \in Node |-> <<>>]
  /\ tcp = [n \in Node |-> Accept]
  /\ joined = {}
  /\ declared = {}
  /\ lost = 0
  /\ joining = [n \in Node |-> IF n \in Members THEN Idle ELSE Out]
  /\ grace = [n \in Node |-> FALSE]
  /\ trouble = 0

-----------------------------------------------------------------------------
(* The side of the joiner.                                                 *)

(* connect and send.  A listening socket accepts before its thread does;   *)
(* where nobody listens connect fails, and the process exits.              *)
Connect(n, g) ==
  IF g \in Node /\ up[g]
  THEN joining' = [joining EXCEPT ![n] = Waiting(g)] /\ UNCHANGED up
  ELSE /\ joining' = [joining EXCEPT ![n] = Idle]
       /\ up' = [up EXCEPT ![n] = FALSE]

(* A newcomer joins before it starts its threads. *)
Start(n) ==
  /\ joining[n] = Out
  /\ trouble < MaxTrouble
  /\ trouble' = trouble + 1
  /\ \E g \in Members : Connect(n, g)
  /\ UNCHANGED <<starved, peers, inbox, udp, dsVars, grace>>

(* reset_state takes the mutex, forgets the news, and sleeps. *)
BeginReset(n) ==
  /\ Handling(n, "NOT_A_PEER") /\ ~Locked(n)
  /\ bcast' = [bcast EXCEPT ![n] = <<>>]
  /\ udp' = [udp EXCEPT ![n] = [at |-> "reset"]]
  /\ joining' = [joining EXCEPT ![n] = Sleep]
  /\ UNCHANGED <<up, starved, peers, inbox, tcp, joined, declared, lost, grace, trouble>>

NewsAt(n) ==
  \/ bcast[n] # <<>> /\ ~grace[n]
  \/ \E m \in DOMAIN inbox[n] : m.type = "GOSSIP_UPDATE"
  \/ Handling(n, "GOSSIP_UPDATE")
  \/ udp[n].at = "update"
NewsOver ==
  \A q \in Node : up[q] /\ udp[q].at # "reset" => ~NewsAt(q) /\ tcp[q] = Accept

(* After the sleep it joins through a random peer, mutex held.  With no    *)
(* peer the division by num_peers ends the process, as a failed connect    *)
(* does.                                                                   *)
Reconnect(n) ==
  /\ up[n] /\ joining[n] = Sleep
  /\ NewsOver
  /\ \E g \in IF peers[n] = <<>> THEN {NoPort} ELSE {p.tcp : p \in ToSet(peers[n])} :
       Connect(n, g)
  /\ UNCHANGED <<starved, peers, inbox, udp, dsVars, grace, trouble>>

(* The gateway has ended.  If it had read the request, recv returns 0 and  *)
(* leaves an empty reply; if not, recv fails and the joiner exits.         *)
HungUp(n) ==
  /\ joining[n].at = "wait"
  /\ LET g == joining[n].gateway
     IN  /\ ~up[g]
         /\ \/ /\ tcp[g].at = "accept" \/ tcp[g].joiner = Self(n)
               /\ joining' = [joining EXCEPT ![n] = Replied(<<>>)]
               /\ UNCHANGED up
            \/ /\ tcp[g].joiner # Self(n)
               /\ joining' = [joining EXCEPT ![n] = Idle]
               /\ up' = [up EXCEPT ![n] = FALSE]
  /\ UNCHANGED <<starved, peers, inbox, udp, dsVars, grace, trouble>>

(* populate_peers; then a newcomer starts its threads, and reset_state     *)
(* gives the mutex back.                                                   *)
Adopt(n) ==
  /\ joining[n].at = "replied"
  /\ peers' = [peers EXCEPT ![n] = joining[n].list]
  /\ grace' = [grace EXCEPT ![n] = TRUE]
  /\ joining' = [joining EXCEPT ![n] = Idle]
  /\ up' = [up EXCEPT ![n] = TRUE]
  /\ udp' = [udp EXCEPT ![n] = Recv]
  /\ UNCHANGED <<starved, inbox, dsVars, trouble>>

EndGrace(n) ==
  /\ up[n] /\ grace[n]
  /\ NewsOver
  /\ grace' = [grace EXCEPT ![n] = FALSE]
  /\ UNCHANGED <<vars, joining, trouble>>

-----------------------------------------------------------------------------
(* The side of the gateway.                                                *)

(* Mutant: the gateway does not remove a joiner that it still lists. *)
AcceptRequestKeeping(g) ==
  /\ Running(g) /\ tcp[g].at = "accept"
  /\ \E j \in Node :
       /\ joining[j] = Waiting(g)
       /\ tcp' = [tcp EXCEPT ![g] = [at |-> "append", joiner |-> Self(j)]]
  /\ UNCHANGED <<udpVars, bcast, joined, declared, lost, joinVars>>

(* accept, recv and remv_peer, which does nothing at position 0. *)
AcceptRequest(g) ==
  /\ Running(g) /\ tcp[g].at = "accept"
  /\ \E j \in Node :
       LET idx == IdxOf(peers[g], Self(j))
       IN  /\ joining[j] = Waiting(g)
           /\ peers' = [peers EXCEPT ![g] = IF idx > 0 THEN RemovePeer(@, idx) ELSE @]
           /\ tcp' = [tcp EXCEPT ![g] = [at |-> "append", joiner |-> Self(j)]]
  /\ UNCHANGED <<up, starved, inbox, udp, bcast, joined, declared, lost, joinVars>>


(* The reply is made of the list, read without the mutex, and the gateway. *)
JoinReply(g) == Append(peers[g], Self(g))

SendReply(g) ==
  /\ up[g] /\ tcp[g].at = "append"
  /\ LET j == tcp[g].joiner.tcp
     IN  /\ joining[j] = Waiting(g)
         /\ joining' = [joining EXCEPT ![j] = Replied(JoinReply(g))]
  /\ UNCHANGED <<vars, grace, trouble>>

Admit(g) ==
  /\ \/ AppendBroadcast(g)
     \/ AppendMember(g) /\ joining[tcp[g].joiner.tcp] # Waiting(g)
  /\ UNCHANGED joinVars

-----------------------------------------------------------------------------
(* The other threads.                                                      *)

(* probe_next, and the answer of a peer that does not list the prober.     *)
(* Every other probe changes nothing here, and one answer waits at a time. *)
Probe(n, q) ==
  /\ Running(n) /\ ~grace[n]
  /\ IsPeer(peers[n], q)
  /\ up[q] /\ udp[q] = Recv /\ ~IsPeer(peers[q], n)
  /\ [type |-> "NOT_A_PEER", from |-> q] \notin DOMAIN inbox[n]
  /\ inbox' = Send(inbox, q, n, [type |-> "NOT_A_PEER", from |-> q])
  /\ UNCHANGED <<up, starved, peers, udp, dsVars, joinVars>>

(* No answer comes from where no process runs, nor from a node that sleeps *)
(* in reset_state or waits there, mutex held, for a gateway that does so   *)
(* too.  A gateway that is free replies in less than a cycle of a prober.  *)
AwaitsSleeper(q) == joining[q].at = "wait" /\ Locked(joining[q].gateway)
Silent(q) ==
  \/ q \notin Node
  \/ q \in Node /\ ~up[q] /\ joining[q] = Idle
  \/ q \in Node /\ up[q] /\ (joining[q] = Sleep \/ AwaitsSleeper(q))

(* check_probed finds a peer dead, rightly or not. *)
FindDead(n) ==
  /\ Running(n) /\ NewsOver
  /\ \E q \in Port \ ({n} \cup Unnoticed) :
       LET idx == IdxOf(peers[n], Self(q))
       IN  /\ idx # -1
           /\ \/ Silent(q) /\ UNCHANGED trouble
              \/ /\ q \in Mortals /\ up[q] /\ ~Silent(q)
                 /\ trouble < MaxTrouble
                 /\ trouble' = trouble + 1
           /\ peers' = [peers EXCEPT ![n] = RemovePeer(@, idx)]
           /\ bcast' = [bcast EXCEPT ![n] =
                AddBroadcastToList(@, Self(q), Removed, Len(peers[n]) - 1)]
  /\ UNCHANGED <<up, starved, inbox, udp, tcp, joined, declared, lost, joining, grace>>

(* A process may end at any time; one that is joining only as HungUp says. *)
Stop(n) ==
  /\ up[n] /\ joining[n] = Idle
  /\ trouble < MaxTrouble
  /\ trouble' = trouble + 1
  /\ up' = [up EXCEPT ![n] = FALSE]
  /\ inbox' = [inbox EXCEPT ![n] = EmptyBag]
  /\ UNCHANGED <<starved, peers, udp, dsVars, joining, grace>>

Gossip(n) == ~grace[n] /\ GossipChanges(n) /\ UNCHANGED joinVars

(* process_updates holds the mutex of its node from the first update to    *)
(* the last and touches nothing else: nothing is lost if the rest waits.   *)
Updating(n) == BeginUpdates(n) \/ ProcessUpdate(n) \/ EndUpdates(n)
Undisturbed == \A q \in Node : udp[q].at # "update"

ListenerOf(n) ==
  \/ Updating(n) /\ UNCHANGED joinVars
  \/ ReceiveDatagram(n) /\ Undisturbed /\ UNCHANGED joinVars
  \/ BeginReset(n) /\ Undisturbed
Gateway(n) == (AcceptRequest(n) \/ SendReply(n) \/ Admit(n)) /\ Undisturbed
Joining(n) == (Reconnect(n) \/ HungUp(n) \/ Adopt(n)) /\ Undisturbed

JoinNext == \E n \in Node :
  \/ Joining(n) \/ Gateway(n) \/ ListenerOf(n)
  \/ /\ Undisturbed
     /\ \/ Start(n) \/ Stop(n) \/ EndGrace(n) \/ Gossip(n) \/ FindDead(n)
        \/ \E q \in Node : Probe(n, q)

JoinSpec == JoinInit /\ [][JoinNext]_allVars

FindStopped(n) == FindDead(n) /\ UNCHANGED trouble

JoinFairSpec == JoinSpec /\ \A n \in Node :
  /\ WF_allVars(ListenerOf(n)) /\ WF_allVars(Gateway(n)) /\ WF_allVars(Joining(n))
  /\ WF_allVars(EndGrace(n)) /\ WF_allVars(Gossip(n))
  /\ SF_allVars(FindStopped(n))
  /\ SF_allVars(\E q \in Node : Probe(n, q))

-----------------------------------------------------------------------------
(* What the stress test asks of each node that runs: its list is exactly   *)
(* the others that run.  A node that is alone with an empty list, because  *)
(* its gateway ended before it replied, is in no network.                  *)
Connected == {n \in Node : up[n] /\ peers[n] # <<>>}
Agreement ==
  \A n \in Connected :
    {q \in Node : Self(q) \in ToSet(peers[n])} = Connected \ {n}

(* A node may stop and a newcomer may be dropped by mistake at any step of *)
(* a join or a rejoin, also the gateway between request and reply: in the  *)
(* end the lists agree, with each other and with who runs.  Drops and      *)
(* rejoins wait for the news that is under way (NewsOver), so that no old  *)
(* news of a join crosses news of a death of the same node.                *)
Converges == <>[]Agreement
=============================================================================
