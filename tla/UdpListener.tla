---------------------------- MODULE UdpListener ----------------------------
(***************************************************************************)
(* What the threads of a node share and how datagrams travel: the peer     *)
(* list, the UDP sockets, and the first half of udp_port_listener, which   *)
(* reads a datagram and checks that its sender is a peer.  The handlers    *)
(* are in the modules that extend this one.                                *)
(*                                                                         *)
(* Every function of state.c holds the node's mutex from its first to its  *)
(* last line, so a call is one action.  Two sections span several actions  *)
(* of the UDP thread with the mutex held, the loop of process_updates and  *)
(* reset_state: the other threads wait while Locked(n).                    *)
(***************************************************************************)
EXTENDS NodeState, Bags

VARIABLES
  up,       \* up[n]: the process of node n is running
  starved,  \* starved[n]: n has no file descriptor left, socket() fails
  peers,    \* peers[n]: tcp_ports, udp_ports and num_peers
  inbox,    \* inbox[n]: bag of datagrams sent to n and not yet read
  udp       \* udp[n]: where the UDP thread of n is

udpVars == <<up, starved, peers, inbox, udp>>

Message ==
       [type : {"PROBE", "ACK_PROBE", "NOT_A_PEER"}, from : Port]
  \cup [type : {"REQUEST_PROBE"}, from : Port, target : Port]
  \cup [type : {"GOSSIP_UPDATE"}, from : Port, updates : Seq(Update)]

UdpState ==
       [at : {"recv", "reset"}]
  \cup [at : {"handle"}, msg : Message]
  \cup [at : {"fulfil"}, acked : Port]
  \cup [at : {"update"}, todo : Seq(Update)]

Recv == [at |-> "recv"]

Locked(n) == udp[n].at \in {"update", "reset"}

(* Node n is about to run the handler of a datagram of the given type. *)
Handling(n, type) == /\ up[n]
                     /\ udp[n].at = "handle"
                     /\ udp[n].msg.type = type

(* Mutant: a port that refuses the datagram counts as a failure to send. *)
SendFailsRefused(n, to) == starved[n] \/ to \in {q \in Node : ~up[q]}

(* sendto fails at port 0 and socket() fails without a descriptor. *)
SendFails(n, to) == starved[n] \/ to = ZeroPort

(* One copy of m taken out of bag b, in which it is: BagRemove of BagsExt, *)
(* a module that the proof system cannot use.                              *)
Without(b, m) == IF b[m] = 1 THEN [x \in DOMAIN b \ {m} |-> b[x]]
                 ELSE [b EXCEPT ![m] = @ - 1]

(* Datagrams that n sends: to every node in dests, as many copies of m as  *)
(* copies says.  Nothing arrives where no process listens.                 *)
SendEach(box, n, dests, copies(_), m) ==
  IF starved[n] THEN box
  ELSE [d \in Node |-> IF d \in dests /\ up[d]
                       THEN box[d] (+) [x \in {m} |-> copies(d)]
                       ELSE box[d]]

Send(box, n, to, m) == SendEach(box, n, {to}, LAMBDA d : 1, m)

(* The same datagram to each of the listed positions of n's peer list. *)
SendToPeers(box, n, positions, m) ==
  SendEach(box, n, {peers[n][i].udp : i \in positions},
           LAMBDA d : Cardinality({i \in positions : peers[n][i].udp = d}), m)

(* recv, is_peer, and reply_not_peer if the sender is not a peer. *)
Receive(n) ==
  /\ up[n]
  /\ udp[n] = Recv
  /\ \E m \in DOMAIN inbox[n] :
       LET rest == [inbox EXCEPT ![n] = Without(@, m)]
       IN  \/ /\ IsPeer(peers[n], m.from)
              /\ udp' = [udp EXCEPT ![n] = [at |-> "handle", msg |-> m]]
              /\ inbox' = rest
           \/ /\ ~IsPeer(peers[n], m.from)
              /\ inbox' = Send(rest, n, m.from,
                               [type |-> "NOT_A_PEER", from |-> n])
              /\ UNCHANGED udp
  /\ UNCHANGED <<up, starved, peers>>

(* No UDP thread has anything left to do, but for those that sleep in      *)
(* reset_state.                                                            *)
Quiescent ==
  \A n \in Node : up[n] /\ udp[n].at # "reset" => inbox[n] = EmptyBag /\ udp[n] = Recv

UdpTypeOK ==
  /\ up \in [Node -> BOOLEAN]
  /\ starved \in [Node -> BOOLEAN]
  /\ peers \in [Node -> Seq(Peer)]
  /\ \A n \in Node : DOMAIN inbox[n] \subseteq Message
  /\ DOMAIN inbox = Node
  /\ udp \in [Node -> UdpState]
=============================================================================
