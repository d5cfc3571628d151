----------------------------- MODULE NodeState -----------------------------
(***************************************************************************)
(* The data of one node: the fields of struct node_state that describe the *)
(* membership (include/state.h) and the helpers of src/state.c that read   *)
(* and change them with the lock held.                                     *)
(*                                                                         *)
(* A member is known by its two port numbers.  idx_of compares both of     *)
(* them, is_peer and the probing code only the UDP one, so a member is a   *)
(* record of two ports and not just a name.  Node n listens on TCP port n  *)
(* and on UDP port n: the two port spaces are separate.                    *)
(***************************************************************************)
EXTENDS Positions, SequencesExt

CONSTANTS
  Port,       \* the port numbers that occur
  Node,       \* the ports of the nodes whose processes are modelled
  ZeroPort,   \* port number 0, to which no datagram can be sent
  NoPort,     \* the value -1 of current_udp_port_to_probe
  CAPACITY,   \* include/state.h: length of the fixed arrays (100)
  FAN_OUT     \* include/state.h: receivers of a gossip or a probe request (3)

ASSUME PortAssumption == /\ Node \subseteq Port \ {ZeroPort}
                         /\ NoPort \notin Port
                         /\ IsFiniteSet(Port)
ASSUME SizeAssumption == CAPACITY \in Nat /\ FAN_OUT \in Nat

Peer == [tcp : Port, udp : Port]
Self(n) == [tcp |-> n, udp |-> n]
NoPeer == [tcp |-> NoPort, udp |-> NoPort]

Removed == 0
Joined == 1
Update == [peer : Peer, status : {Removed, Joined}]
Broadcast == [peer : Peer, status : {Removed, Joined}, rounds : Int]

-----------------------------------------------------------------------------
(* The entries of s that satisfy Keep.  (SelectSeq, in a form the provers   *)
(* can expand.)                                                            *)
Filter(s, Keep(_)) == Entries(s, {i \in 1..Len(s) : Keep(s[i])})

(* Mutant: the loop ends one entry early. *)
IdxOfShort(list, p) ==
  SelectInSeq(SubSeq(list, 1, Len(list) - 1), LAMBDA e : e = p) - 1

(* The 0-based position of p in the peer list, -1 if it is not there.      *)
IdxOf(list, p) == SelectInSeq(list, LAMBDA e : e = p) - 1

(* Mutant: the entry is blanked, and the rest not moved up. *)
RemovePeerLeavingHole(list, idx) == [list EXCEPT ![idx + 1] = NoPeer]
(* Mutant: the list ends where the peer was. *)
RemovePeerTruncating(list, idx) == SubSeq(list, 1, idx)
(* Mutant: the position is taken to count from 1. *)
RemovePeerOneEarly(list, idx) == RemoveAt(list, idx)

(* remove_peer takes a 0-based position. *)
RemovePeer(list, idx) == RemoveAt(list, idx + 1)

AddPeer(list, p) == Append(list, p)

(* Mutant: the loop ends one entry early. *)
IsPeerShort(list, udp) == \E i \in 1..Len(list) - 1 : list[i].udp = udp

IsPeer(list, udp) == \E i \in 1..Len(list) : list[i].udp = udp

(* Mutant: log(num_peers) rounds. *)
GossipRoundsHalved(num_peers) == Cardinality({k \in {3, 8, 21, 55} : k <= num_peers})

(* 2 * (int)log(num_peers): the natural logarithm reaches 1, 2, 3 and 4 at *)
(* 3, 8, 21 and 55 peers, and CAPACITY is 100.                             *)
GossipRounds(num_peers) ==
  IF num_peers = 0 THEN 1
  ELSE 2 * Cardinality({k \in {3, 8, 21, 55} : k <= num_peers})

(* Mutant: the list is full with its first entry and not extended. *)
AddBroadcastCapped(bcast, p, status, num_peers) ==
  IF Len(bcast) >= 1 THEN bcast
  ELSE <<[peer |-> p, status |-> status, rounds |-> GossipRounds(num_peers)]>>
(* Mutant: a removal is broadcast as a join and the other way round. *)
AddBroadcastFlipped(bcast, p, status, num_peers) ==
  Append(bcast, [peer |-> p, status |-> 1 - status,
                 rounds |-> GossipRounds(num_peers)])

AddBroadcastToList(bcast, p, status, num_peers) ==
  Append(bcast, [peer |-> p, status |-> status,
                 rounds |-> GossipRounds(num_peers)])

TidyBroadcastList(bcast) == Filter(bcast, LAMBDA b : b.rounds > 0)

(* Drop the news that the peer list contradicts. *)
FixBroadcastList(bcast, list) ==
  Filter(bcast, LAMBDA b :
           /\ ~(b.status = Removed /\ IdxOf(list, b.peer) > 0)
           /\ ~(b.status = Joined /\ IdxOf(list, b.peer) = -1))

(* Mutant: the loop over the shuffled list ends one entry early. *)
RandomPeersShort(list, k, except) ==
  {{i \in J : list[i].udp # except} : J \in kSubset(Len(list) - 1, 1..Len(list))}

(* get_random_peers and get_random_peers_except: the positions of at most  *)
(* k distinct entries, all that pass the test if there are fewer.          *)
RandomPeers(list, k, except) ==
  LET I == {i \in 1..Len(list) : list[i].udp # except}
  IN  IF Cardinality(I) <= k THEN {I} ELSE kSubset(k, I)

(* Mutant: each position is drawn anew, so that an entry can be drawn twice.*)
ShufflesWithRepetition(list) ==
  {[i \in 1..Len(list) |-> list[f[i]]] : f \in [1..Len(list) -> 1..Len(list)]}

(* shuffle_ports_to_probe: the peer list in an order fisher_yates_ draws. *)
Shuffles(list) ==
  {[i \in 1..Len(list) |-> list[f[i]]] :
     f \in {g \in [1..Len(list) -> 1..Len(list)] : IsInjective(g)}}
=============================================================================
