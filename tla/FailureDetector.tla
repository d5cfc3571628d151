-------------------------- MODULE FailureDetector --------------------------
(***************************************************************************)
(* Failure detection among nodes that have finished joining: the prober    *)
(* thread (src/node_manager.c, prober) and the probe handlers of the UDP   *)
(* thread, over the helpers of src/state.c.                                *)
(*                                                                         *)
(* The prober of a node repeats: probe the next peer; after a quarter of   *)
(* PROBE_PERIOD ask others to probe it if it did not answer; after three   *)
(* quarters more declare it dead if there is still no answer.              *)
(*                                                                         *)
(* Timely is the assumption the sleeps stand for: whatever a step of a     *)
(* prober sent has been handled, replies included, before the next step of *)
(* that prober.  What others have under way may be in any stage then, and  *)
(* may be handled after it.  Without it the sleeps mean nothing, and       *)
(* MaxQueued bounds the datagrams that wait to be read when a prober acts. *)
(*                                                                         *)
(* InStep keeps every prober waiting for the exchanges of all.  The model  *)
(* does not say in which order a thread reads the datagrams that wait, so  *)
(* that without it one exchange may be overtaken for ever by those of a    *)
(* faster node, which sockets, being queues, rule out.                     *)
(*                                                                         *)
(* The module ends where a node that was sent NOT_A_PEER has forgotten its *)
(* state and sleeps before it rejoins, with the mutex held.                *)
(***************************************************************************)
EXTENDS UdpListener

CONSTANTS
  Timely,      \* the sleeps of a prober outlast its own exchanges
  InStep,      \* the sleeps of a prober outlast everybody's exchanges
  MaxQueued,   \* bound: datagrams to be read when a prober acts, if not Timely
  MaxLoss,     \* bound: datagrams lost
  MaxCrash,    \* bound: nodes that stop
  MaxStarved   \* bound: nodes that run out of descriptors

ASSUME TimelyAssumption == {Timely, InStep} \subseteq BOOLEAN
ASSUME BoundAssumption == {MaxQueued, MaxLoss, MaxCrash, MaxStarved} \subseteq Nat

VARIABLES
  bcast,    \* bcast[n]: broadcast_list
  toProbe,  \* toProbe[n]: the ports left of the shuffled list, last one first
  target,   \* target[n]: current_tcp_port_to_probe, current_udp_port_to_probe
  probed,   \* probed[n]: FALSE for -1, TRUE for 1
  reqs,     \* reqs[n]: the three arrays of requests to probe for others
  prober,   \* prober[n]: the next step of the prober thread
  lost      \* datagrams lost so far

fdVars == <<bcast, toProbe, target, probed, reqs, prober, lost>>
vars == <<udpVars, fdVars>>

(* probe_request_ns is kept as whether not_expired still holds. *)
Request == [target : Port, requestor : Port, fresh : BOOLEAN]

TypeOK ==
  /\ UdpTypeOK
  /\ bcast \in [Node -> Seq(Broadcast)]
  /\ toProbe \in [Node -> Seq(Peer)]
  /\ target \in [Node -> Peer \cup {NoPeer}]
  /\ probed \in [Node -> BOOLEAN]
  /\ reqs \in [Node -> Seq(Request)]
  /\ prober \in [Node -> {"probe", "request", "check"}]
  /\ lost \in 0..MaxLoss

(* Every node lists all the others, each in an order of its own. *)
Init ==
  /\ up = [n \in Node |-> TRUE]
  /\ starved = [n \in Node |-> FALSE]
  /\ peers \in [Node -> UNION {SetToSeqs({Self(q) : q \in Node \ {n}}) : n \in Node}]
  /\ \A n \in Node : ToSet(peers[n]) = {Self(q) : q \in Node \ {n}}
  /\ inbox = [n \in Node |-> EmptyBag]
  /\ udp = [n \in Node |-> Recv]
  /\ bcast = [n \in Node |-> <<>>]
  /\ toProbe = [n \in Node |-> <<>>]
  /\ target = [n \in Node |-> NoPeer]
  /\ probed = [n \in Node |-> FALSE]
  /\ reqs = [n \in Node |-> <<>>]
  /\ prober = [n \in Node |-> "probe"]
  /\ lost = 0

-----------------------------------------------------------------------------
(* What the sleeps wait for. *)

ProbeFrom(n) == [type |-> "PROBE", from |-> n]
AckFrom(q) == [type |-> "ACK_PROBE", from |-> q]
RequestFrom(n, q) == [type |-> "REQUEST_PROBE", from |-> n, target |-> q]

(* Datagram m waits at d or is about to be handled there. *)
At(d, m) == m \in DOMAIN inbox[d] \/ udp[d] = [at |-> "handle", msg |-> m]

(* The exchange of probe_next: a PROBE of n to q, or its answer. *)
Awaited(n, q) == At(q, ProbeFrom(n)) \/ At(n, AckFrom(q))

(* h, asked by n to probe q, waits for the answer or is about to pass it on. *)
Asked(h, n, q) == \E i \in 1..Len(reqs[h]) :
  reqs[h][i] = [target |-> q, requestor |-> n, fresh |-> TRUE]
Helps(h, n, q) ==
  /\ Asked(h, n, q)
  /\ Awaited(h, q) \/ udp[h] = [at |-> "fulfil", acked |-> q]

(* The exchange of request_probes_if_no_ack: a request of n to probe q, a  *)
(* node that helps, or the answer passed on.                               *)
Relayed(n, q) ==
  \/ At(n, AckFrom(q))
  \/ \E h \in Node : At(h, RequestFrom(n, q)) \/ Helps(h, n, q)

(* Nobody waits for a node that sleeps in reset_state. *)
NobodySleeps == \A d \in Node : udp[d].at # "reset"

ExchangeOver(n) ==
  LET q == target[n].udp
  IN  q \in Node /\ NobodySleeps =>
        /\ prober[n] = "request" => ~Awaited(n, q)
        /\ prober[n] = "check" => ~Relayed(n, q)

MayAct(n) ==
  /\ up[n] /\ ~Locked(n)
  /\ IF Timely THEN IF InStep THEN Quiescent ELSE ExchangeOver(n)
     ELSE FoldSet(LAMBDA d, sum : BagCardinality(inbox[d]) + sum, 0,
                  {d \in Node : ~Locked(d)}) < MaxQueued

-----------------------------------------------------------------------------
(* The prober thread. *)

(* probe_next: take the next port of the shuffled list, shuffling the peer *)
(* list again when none is left, and send it a PROBE.  A PROBE that cannot *)
(* be sent counts as answered.                                             *)
ProbeNext(n) ==
  /\ MayAct(n) /\ prober[n] = "probe"
  /\ \E order \in IF toProbe[n] = <<>> THEN Shuffles(peers[n]) ELSE {toProbe[n]} :
       IF order = <<>>
       THEN /\ target' = [target EXCEPT ![n] = NoPeer]
            /\ probed' = [probed EXCEPT ![n] = FALSE]
            /\ UNCHANGED <<toProbe, inbox>>
       ELSE LET p == order[Len(order)]
            IN  /\ target' = [target EXCEPT ![n] = p]
                /\ toProbe' = [toProbe EXCEPT ![n] = SubSeq(order, 1, Len(order) - 1)]
                /\ probed' = [probed EXCEPT ![n] = SendFails(n, p.udp)]
                /\ inbox' = Send(inbox, n, p.udp, [type |-> "PROBE", from |-> n])
  /\ prober' = [prober EXCEPT ![n] = "request"]
  /\ UNCHANGED <<up, starved, peers, udp, bcast, reqs, lost>>

(* request_probes_if_no_ack *)
RequestProbes(n) ==
  /\ MayAct(n) /\ prober[n] = "request"
  /\ IF target[n] # NoPeer /\ ~probed[n]
     THEN \E chosen \in RandomPeers(peers[n], FAN_OUT, target[n].udp) :
            inbox' = SendToPeers(inbox, n, chosen,
                       [type |-> "REQUEST_PROBE", from |-> n, target |-> target[n].udp])
     ELSE UNCHANGED inbox
  /\ prober' = [prober EXCEPT ![n] = "check"]
  /\ UNCHANGED <<up, starved, peers, udp, bcast, toProbe, target, probed, reqs, lost>>

(* check_probed: without an answer the peer is dead, drop and announce it. *)
CheckProbed(n) ==
  /\ MayAct(n) /\ prober[n] = "check"
  /\ LET idx == IdxOf(peers[n], target[n])
     IN  IF target[n] # NoPeer /\ ~probed[n] /\ idx # -1
         THEN /\ peers' = [peers EXCEPT ![n] = RemovePeer(@, idx)]
              /\ bcast' = [bcast EXCEPT ![n] =
                   AddBroadcastToList(@, target[n], Removed, Len(peers[n]) - 1)]
         ELSE UNCHANGED <<peers, bcast>>
  /\ prober' = [prober EXCEPT ![n] = "probe"]
  /\ UNCHANGED <<up, starved, inbox, udp, toProbe, target, probed, reqs, lost>>

-----------------------------------------------------------------------------
(* The probe handlers of the UDP thread. *)

ReceiveDatagram(n) == Receive(n) /\ UNCHANGED fdVars

(* reply_probe *)
HandleProbe(n) ==
  /\ Handling(n, "PROBE")
  /\ inbox' = Send(inbox, n, udp[n].msg.from, [type |-> "ACK_PROBE", from |-> n])
  /\ udp' = [udp EXCEPT ![n] = Recv]
  /\ UNCHANGED <<up, starved, peers, fdVars>>

(* check_ack *)
HandleAck(n) ==
  /\ Handling(n, "ACK_PROBE")
  /\ LET p == udp[n].msg.from
     IN  /\ probed' = [probed EXCEPT ![n] = @ \/ target[n].udp = p]
         /\ udp' = [udp EXCEPT ![n] = [at |-> "fulfil", acked |-> p]]
  /\ UNCHANGED <<up, starved, peers, inbox, bcast, toProbe, target, reqs, prober, lost>>

(* fulfil_request_probes, the second call for an ACK: pass it on to those  *)
(* who asked and whose request has not expired, and forget both these and  *)
(* the expired requests.                                                   *)
FulfilRequestProbes(n) ==
  /\ up[n] /\ udp[n].at = "fulfil"
  /\ LET p == udp[n].acked
         answered == {i \in 1..Len(reqs[n]) : reqs[n][i].fresh /\ reqs[n][i].target = p}
     IN  /\ inbox' = SendEach(inbox, n, {reqs[n][i].requestor : i \in answered},
                       LAMBDA d : Cardinality({i \in answered : reqs[n][i].requestor = d}),
                       [type |-> "ACK_PROBE", from |-> p])
         /\ reqs' = [reqs EXCEPT ![n] =
                       Filter(@, LAMBDA r : r.fresh /\ r.target # p)]
  /\ udp' = [udp EXCEPT ![n] = Recv]
  /\ UNCHANGED <<up, starved, peers, bcast, toProbe, target, probed, prober, lost>>

(* What is left of node n when its process ends. *)
Stop(n) ==
  /\ up' = [up EXCEPT ![n] = FALSE]
  /\ peers' = [peers EXCEPT ![n] = <<>>]
  /\ inbox' = [inbox EXCEPT ![n] = EmptyBag]
  /\ udp' = [udp EXCEPT ![n] = Recv]
  /\ bcast' = [bcast EXCEPT ![n] = <<>>]
  /\ toProbe' = [toProbe EXCEPT ![n] = <<>>]
  /\ target' = [target EXCEPT ![n] = NoPeer]
  /\ probed' = [probed EXCEPT ![n] = FALSE]
  /\ reqs' = [reqs EXCEPT ![n] = <<>>]
  /\ prober' = [prober EXCEPT ![n] = "probe"]
  /\ UNCHANGED <<starved, lost>>

(* append_request_probe: the node exits when its table is full.  A PROBE   *)
(* that cannot be sent makes the node's own target pass for alive.         *)
HandleRequestProbe(n) ==
  /\ Handling(n, "REQUEST_PROBE")
  /\ LET m == udp[n].msg
     IN  IF Len(reqs[n]) >= CAPACITY
         THEN Stop(n)
         ELSE /\ reqs' = [reqs EXCEPT ![n] =
                   Append(@, [target |-> m.target, requestor |-> m.from, fresh |-> TRUE])]
              /\ inbox' = Send(inbox, n, m.target, [type |-> "PROBE", from |-> n])
              /\ probed' = [probed EXCEPT ![n] = @ \/ SendFails(n, m.target)]
              /\ udp' = [udp EXCEPT ![n] = Recv]
              /\ UNCHANGED <<up, starved, peers, bcast, toProbe, target, prober, lost>>

(* NOT_A_PEER: reset_state up to sleep_(GRACE_PERIOD). *)
BeginReset(n) ==
  /\ Handling(n, "NOT_A_PEER")
  /\ bcast' = [bcast EXCEPT ![n] = <<>>]
  /\ toProbe' = [toProbe EXCEPT ![n] = <<>>]
  /\ target' = [target EXCEPT ![n] = NoPeer]
  /\ probed' = [probed EXCEPT ![n] = FALSE]
  /\ reqs' = [reqs EXCEPT ![n] = <<>>]
  /\ udp' = [udp EXCEPT ![n] = [at |-> "reset"]]
  /\ UNCHANGED <<up, starved, peers, inbox, prober, lost>>

-----------------------------------------------------------------------------
(* The surroundings. *)

(* Three quarters of PROBE_PERIOD have passed since the oldest request.    *)
Expire(n) ==
  /\ up[n] /\ (Timely /\ InStep => Quiescent)
  /\ \E i \in 1..Len(reqs[n]) :
       /\ reqs[n][i].fresh
       /\ \A j \in 1..i - 1 : ~reqs[n][j].fresh
       /\ Timely /\ ~InStep /\ NobodySleeps =>
            ~Helps(n, reqs[n][i].requestor, reqs[n][i].target)
       /\ reqs' = [reqs EXCEPT ![n][i].fresh = FALSE]
  /\ UNCHANGED <<udpVars, bcast, toProbe, target, probed, prober, lost>>

(* No function closes the socket it sends through (send_gossip_message_to, *)
(* probe, reply_probe), so a node that has sent enough cannot open another.*)
Exhaust(n) ==
  /\ up[n] /\ ~starved[n]
  /\ Cardinality({q \in Node : starved[q]}) < MaxStarved
  /\ starved' = [starved EXCEPT ![n] = TRUE]
  /\ UNCHANGED <<up, peers, inbox, udp, fdVars>>

Lose(n) ==
  /\ lost < MaxLoss
  /\ \E m \in DOMAIN inbox[n] : inbox' = [inbox EXCEPT ![n] = Without(@, m)]
  /\ lost' = lost + 1
  /\ UNCHANGED <<up, starved, peers, udp, bcast, toProbe, target, probed, reqs, prober>>

Crash(n) ==
  /\ up[n]
  /\ Cardinality({q \in Node : ~up[q]}) < MaxCrash
  /\ Stop(n)

-----------------------------------------------------------------------------
Prober(n) == ProbeNext(n) \/ RequestProbes(n) \/ CheckProbed(n)

Listener(n) ==
  \/ ReceiveDatagram(n) \/ HandleProbe(n) \/ HandleAck(n) \/ FulfilRequestProbes(n)
  \/ HandleRequestProbe(n) \/ BeginReset(n)

Environment(n) == Expire(n) \/ Exhaust(n) \/ Lose(n) \/ Crash(n)

Next == \E n \in Node : Prober(n) \/ Listener(n) \/ Environment(n)

Spec == Init /\ [][Next]_vars

(* The threads of a running node go on: the listener as long as it can     *)
(* move, the prober although Quiescent comes and goes, because its sleeps  *)
(* end.                                                                    *)
FairSpec == Spec /\ \A n \in Node : WF_vars(Listener(n)) /\ SF_vars(Prober(n))

-----------------------------------------------------------------------------
(* No node drops a peer that is running: what check_probed declares dead   *)
(* is dead, if datagrams arrive in time.                                   *)
Accuracy == \A n, q \in Node : up[n] /\ up[q] /\ n # q => IsPeer(peers[n], q)

(* No running node is told that it is not a peer, so none forgets its      *)
(* state and rejoins without reason.                                       *)
NoRejoin == \A n \in Node : udp[n].at # "reset"

(* Each peer that a node has dropped is announced once, and nobody else    *)
(* is: the peer list and the broadcast list of check_probed agree.         *)
RemovalsAnnounced ==
  \A n \in Node : up[n] /\ udp[n].at # "reset" =>
    \A q \in Node \ {n} :
      Cardinality({i \in 1..Len(bcast[n]) : bcast[n][i].peer = Self(q)})
        = IF IsPeer(peers[n], q) THEN 0 ELSE 1

(* Every node that stops is dropped by all that keep running.  Nodes do    *)
(* not come back here, so this says that the lists become and stay clean.  *)
Completeness ==
  <>[] \A n, q \in Node : up[n] /\ ~up[q] => ~IsPeer(peers[n], q)

(* While datagrams arrive in time and none is lost, the peer lists are     *)
(* those of a perfect failure detector: check_probed removes one peer that *)
(* has stopped, every other step but the end of a process leaves all lists *)
(* alone, and nobody comes back.                                           *)
Detector == INSTANCE PerfectDetector WITH
  trusted <- [n \in Node |-> {peers[n][i].udp : i \in 1..Len(peers[n])}]
ImplementsDetector == Detector!Spec
=============================================================================
