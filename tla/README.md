# thin_swim in TLA+

A verification development for `thin_swim`, a SWIM-like group membership protocol: processes keep a list of their
peers, probe each other to find those that have stopped, and gossip joins and removals. The
repository also simulates gossip and averaging in Python and puts thin_swim and serf under stress; those scripts are
modelled too. Paths below are relative to the root of the repository; `state.c` is `src/state.c`, `node_manager.c` is
`src/node_manager.c`.

## 1. The system

### Components

| Component | State | Operations |
|---|---|---|
| Membership data (`include/state.h`, `state.c`) | `tcp_ports`, `udp_ports`, `num_peers`; `broadcast_list`; one mutex | `idx_of`, `remove_peer`, `add_peer`, `add_broadcast_to_list`, `tidy_broadcast_list`, `fix_broadcast_list`, `update_member`, random choice of peers |
| UDP thread (`udp_port_listener`) | the datagram in hand | reads a datagram, replies `NOT_A_PEER` to strangers, else calls the handler of its type |
| Prober thread (`prober`) | the shuffled list still to probe, the current target, `probed`, the table of probes asked for by others | `probe_next`, `request_probes_if_no_ack`, `check_probed`; handlers `reply_probe`, `check_ack`, `fulfil_request_probes`, `append_request_probe` |
| Gossiper thread (`gossiper`) | rounds left of each piece of news | `gossip_changes`; handler `process_updates` |
| TCP thread (`tcp_port_listener`) | the joiner being admitted | `remv_peer`, the join reply, `append_member`, `append_broadcast` |
| Joining (`join_network`, `populate_peers`) | - | sends a join request, adopts the list of the reply |
| Rejoining (`reset_state`) | - | on `NOT_A_PEER`: forgets everything but the peer list, sleeps, joins again through a random peer |
| Start-up (`node.c`, `start.c`) | process ids of the seeds | arguments, threads, `SIGINT` |
| Graphs (`gossip/graphs.py`) | the schedule of random neighbours and the position in it | `get_random_neighbor`, `get_neighbors`, `reset` |
| Gossip simulators (`gossip/nodes.py`) | S, I or R of each simulated node, messages of the round, delayed messages, curves | `run_si`, `run_si_async`, `run_sir` and the handlers of `SINode`, `SIRNode` |
| Averaging simulators (`gossip/averaging_msg_loss.py`) | value and weight of each node, or its flows | push-sum, push-flow, `run_averaging` |
| Gossip experiments (`gossip/dissemination_*.py`) | curves of the simulations run so far | which simulation follows which, on one graph with `reset` between |
| Stress test of serf (`serf/stress_test_serf.py`, `stress_test_runner.py`) | names, ports and processes of the agents, the reports | start the seeds, kill, join, register a round, destroy |
| Plots and statistics, stress test of thin_swim, logger | - | - |

The four threads of a node share `struct node_state`. Every function of `state.c` takes the mutex on entry and gives it
back at the end, so **one call is one action** of the models. What happens between two calls of one thread, the check of
the sender and the handler of its message for instance, interleaves with the other threads. There are three exceptions.
`reply_probe` takes no mutex and touches nothing but constants. The loop of `process_updates` and all of `reset_state`
hold the mutex over several steps of the UDP thread: in the models it is held while `Locked(n)`. And the TCP thread
reads the list for its reply without the mutex (in one step of the model, see *Assumptions*). Nodes know each other only by datagrams and, for
joins, by TCP. The Python programs are single threads; what is hard in them are random choices, losses and delays.

### What is hard here

* *Two nodes, four threads each, no acknowledgement of gossip, no identity of a probe cycle.* An ACK is matched by port.
* *Time.* Correctness of `check_probed` rests on sleeps being longer than the exchange of messages.
* *Stops.* A process may end at any moment, also while others probe it or wait for the answer it is asked to pass on.
* *Loss.* UDP loses datagrams. Probing has a second way through other nodes; gossip repeats a few rounds.
* *Order.* News about one peer has no version: `lamport_time` is sent but never advanced and never looked at.
* *Positions.* Lists are addressed by 0-based positions, with -1 for absence, and tested once with `!= -1`, three times
  with `> 0`.
* *Rejoining.* A node dropped by mistake sleeps and waits for another node with its own mutex held.
* *Resources.* Sockets are never closed, arrays have `CAPACITY` entries, not always checked.

`PROJECT.json` lists each hazard at its line, with the properties that cover it or the reason why none does yet.

### What makes each component correct

* Failure detector: it drops only nodes that have stopped (accuracy), all of those (completeness), reaches each peer
  regularly (bounded round robin), and announces exactly what it drops.
* Dissemination: news has a cause, reaches everybody although a datagram is lost, ends, keeps lists free of duplicates
  and does not undo newer news.
* Join and rejoin: in the end every running node lists exactly the other running nodes, which is the criterion of
  `stress_test.py:167`; nobody is listed twice.
* Gossip simulators: they implement an epidemic (nobody learns from nobody, nobody unlearns), count all messages, respect
  rounds and delays, and compare push, pull and push-pull on equal terms.
* Averaging: mass is lost with messages only and estimates stay meaningful (push-sum); a loss is repaired (push-flow).
* Stress test of serf: no agent is lost track of, the network stays in one piece, no round fails.

## 2. Modules

| Module | Models | Extends |
|---|---|---|
| `Positions` | the part of a sequence at some of its positions, in order | - |
| `NodeState` | data of one node and the helpers that work on it (no variables) | `Positions`, community modules |
| `UdpListener` | `up`, `starved`, `peers`, `inbox`, `udp`: what threads and nodes share; reading a datagram, the peer check, sending | `NodeState` |
| `FailureDetector` | prober thread, probe handlers, loss, crash, exhaustion of descriptors; `PerfectDetector` as refinement | `UdpListener`, instance of `PerfectDetector` |
| `PerfectDetector` | abstract specification of what probing promises | - |
| `Dissemination` | gossiper thread, `process_updates`, and the sources of news: a join admitted by the TCP thread, a death found by the prober; `GroupMembership` as refinement | `UdpListener`, instance of `GroupMembership` |
| `GroupMembership` | abstract specification of what joins and removals may do to the lists | - |
| `JoinProtocol` | joiner and gateway over TCP, `reset_state`, together with the gossip of `Dissemination` and the effect of probing | `Dissemination` |
| `MCFailureDetector` | symmetry for TLC, accuracy despite faults and the bound on what is tried after too many of them | `FailureDetector` |
| `MCRoundRobin` | history variable that counts cycles between probes | `FailureDetector` |
| `PeerChoice` | the graphs and their schedules: which neighbour a node picks | - |
| `GossipNodes` | the simulators of SI, asynchronous SI and SIR | `PeerChoice`, `Positions` |
| `Epidemic` | abstract specification of what a simulation promises | - |
| `Experiments` | the scripts that run simulations; `Epidemic` as refinement | `GossipNodes`, instance of `Epidemic` |
| `MCExperiments` | instances, and the states at the start of the round as history; whom one hop reaches | `Experiments` |
| `Averaging` | push-sum and push-flow | `PeerChoice`, `Positions` |
| `MCAveraging` | instances, and as history what was lost and which edges are in question | `Averaging` |
| `SerfStress` | the stress test of serf | `Positions` |
| `CollectionProofs` | lemmas on parts of sequences and on sums | `Positions` |
| `UdpListenerProofs` | lemmas on the helpers of `NodeState` and on sending | `UdpListener`, `CollectionProofs` |
| `FailureDetectorProofs` | theorems on probing, and on how long a peer waits for it | `MCFailureDetector`, `MCRoundRobin`, `UdpListenerProofs` |
| `DisseminationProofs` | theorems on gossip, and the types of joining | `JoinProtocol`, `UdpListenerProofs` |
| `ExperimentsProofs`, `SerfStressProofs` | theorems on the simulators and on the stress test | `CollectionProofs` |
| `PushPullProofs` | push, pull and push-pull compared; one hop a round | `ExperimentsProofs` |
| `AveragingProofs` | theorems on averaging | `MCAveraging`, `CollectionProofs` |

### How state and actions correspond to the code

A peer is a record of two ports, because `idx_of` compares both and `is_peer`, the probe table and `check_ack` only the
UDP one. Node `n` is the process on TCP port `n` and UDP port `n`. `ZeroPort` is port 0, to which `sendto` fails, and
`NoPort` the -1 of "no port". The lists are sequences in the order of the arrays; `IdxOf` and `RemovePeer` use the 0-based
positions of the code, so that tests such as `idx_peer > 0` are kept as written. `GossipRounds` is
`2 * (int)log(num_peers)` by its thresholds 3, 8, 21, 55 (1 if there is no peer).

The inbox of a node is a bag: UDP may reorder. A datagram sent to a port on which nobody listens disappears, and so do
all when the sender has no descriptor left (`starved`).

`udp[n]` says where the UDP thread is: `recv` (about to read), `handle` (sender checked, handler about to run), `fulfil`
(an ACK was checked, `fulfil_request_probes` is next), `update` (in the loop of `process_updates`, mutex held) or `reset`
(in the sleep of `reset_state`, mutex held).

| Action (`FailureDetector`) | Code |
|---|---|
| `ProbeNext`, `RequestProbes`, `CheckProbed` | the three calls in the loop of `prober` |
| `ReceiveDatagram` | `recv`, `is_peer`, `reply_not_peer` |
| `HandleProbe` / `HandleAck`, `FulfilRequestProbes` / `HandleRequestProbe` / `BeginReset` | handlers of PROBE / ACK_PROBE / REQUEST_PROBE / NOT_A_PEER |
| `Expire` | time since a request exceeds `not_expired` |
| `Exhaust` | the process has opened as many sockets as it may: none is ever closed |
| `Lose`, `Crash` | network and processes |

| Action (`Dissemination`) | Code |
|---|---|
| `GossipChanges` | `gossip_changes` |
| `ReceiveDatagram`, `BeginUpdates`, `ProcessUpdate`, `EndUpdates` | peer check, and `process_updates` one update at a time |
| `RemvPeer`, `AppendMember`, `AppendBroadcast` | the three critical sections in which a gateway admits a node |
| `DeclareDead` | the branch of `check_probed` that drops a peer |
| `Lose` | network |

| Action (`JoinProtocol`) | Code |
|---|---|
| `Start` | `--join`: `join_network` before any thread runs |
| `BeginReset`, `Reconnect` | `reset_state` up to its sleep, and `join_network` after it, the mutex held |
| `HungUp`, `Adopt` | the two ways in which `recv` of the reply ends: `recv` fails or returns 0, or `populate_peers` |
| `AcceptRequest`, `SendReply`, `Admit` | the loop of `tcp_port_listener`: request and `remv_peer`, reply, `append_member` and `append_broadcast` |
| `EndGrace` | the sleep of prober and gossiper until `grace_period_until` |
| `Probe` | a PROBE to a node that does not list the prober, and its NOT_A_PEER |
| `FindDead` | `check_probed` drops a node that has stopped (but those in `Unnoticed`), or does not answer because it sleeps in `reset_state` or waits there for a gateway that does (`Silent`), or (a mistake, counted) runs |
| `Stop` | the end of a process at any moment |
| `Gossip`, `Updating` | the actions of `Dissemination` |

| Action (`Experiments`, `Averaging`, `SerfStress`) | Code |
|---|---|
| `MainLoop`, `RunOutOfPicks` | main loop of one node; `IndexError` of a used-up schedule |
| `LoseMessages`, `DelayMessages` | loss and delay of all messages of a round |
| `RunOnUpdateRequest`, `RunOnUpdate`, `RunOnFeedback` | the handler of one message |
| `EndRound`, `NextSimulation` | statistics and the condition of the loop; `reset()` and the next mode |
| `MainLoop`, `LoseMessages`, `OnUpdate`, `EndRound` (`Averaging`) | `main_loop` of one node, the loss, `on_update` of one message, the round |
| `StartSeed`, `JoinSeeds`, `KillNodes`, `JoinNode`, `RegisterRound`, `Destroy`, `NextExperiment` | the methods of `SerfSimulation` in the order of `run_experiment` and `main` |

`is_peer` and `reply_not_peer` are two critical sections and one action, `Receive`: the reply does not depend on the list
and changes nothing of the node. The same holds for the test of `recv`.

### What the modules leave to each other

* In `FailureDetector` all nodes have joined and the gossiper does not run, so that a death is found by every node
  on its own. The module ends for a node where `reset_state` sleeps (`reset`); `JoinProtocol` goes on there.
* In `Dissemination` probing is reduced to its effect. A node that is not in the lists at the start has received its join
  reply and lists the members other than itself. A node that is told `NOT_A_PEER` stays in `handle`: what follows is
  `reset_state`, in `JoinProtocol`. `JoinProtocol` has the join as a whole; its `joined` and `declared`, which only record
  and bound, do not change.
* `grace_period_until` makes prober and gossiper wait after (re)joining: `grace` in `JoinProtocol`; in the other two modules
  a thread may take any time.
* `lamport_time` is constant in the code and left out. `print_peers` only formats.

### Assumptions and abstractions

* *`JoinProtocol`, time* (`NewsOver`). The sleep of `reset_state` and the grace period (`GRACE_PERIOD`, 0.75 s) outlast
  the news and admissions under way, and so does a cycle of the prober (0.5 s). Gossip does not pause (`sleep(0.05)` is
  `sleep(0)`), so a few rounds take milliseconds. Without it, news of a join and of a death of the same node chase each
  other for ever: each node that changes its mind starts the rounds anew (a hazard of its own, `state.c:411`).
* *`JoinProtocol`, a waiting joiner* (`Silent`). A node in `reset_state` answers no PROBE while it sleeps, nor while it waits for
  the reply of a gateway that is itself in `reset_state`. Another gateway is taken to reply within a cycle of the prober (0.5 s),
  so that nobody is found dead during that wait. If every wait counts as silence, TLC finds a lasso in `rejoin`: a death
  that is declared between the connection and the reply crosses the news of the join, and the two chase each other as above.
* *`JoinProtocol`, stopped members* (`Unnoticed`). In the runs the member `m`, whose process has stopped, is never found dead.
  This keeps newcomers off position 0 and the lists of those that reset from being empty. It matters: with `Unnoticed = {}` TLC finds both
  `NoDuplicates` and `Converges` of `rejoin` violated. When `m` has been dropped, the newcomer may be first in its gateway's list; told
  `NOT_A_PEER`, it asks that gateway to join again, `remv_peer` leaves it where it is, for it tests `idx_peer > 0`
  (`state.c:725`), and `append_member` lists it a second time, although the gateway's line is to "remove node if previously
  among peers" (`node_manager.c:229`). It is the test of `ds_first_entry` in another function.
* *`JoinProtocol`, the reply.* `node_manager.c:234-238` reads `num_peers` and the arrays without the mutex. The model takes the
  reply to be read while no other thread of the gateway changes its list; torn replies would need the stale entries behind
  `num_peers`.
* *`JoinProtocol`, order.* While a node is in the loop of `process_updates` (mutex held) the rest waits (`Undisturbed`). What
  the loop reads and writes no other thread touches meanwhile, so this leaves out interleavings and no outcomes.
* *`JoinProtocol`, a process that ends while it joins* ends only where `join_network` exits.
* *`PeerChoice`.* A schedule is drawn when it is first asked for and kept for the simulations that follow; no run can tell it
  from one drawn in advance. Random numbers are `\E`. Geometric graphs are given as neighbour sets, assumed connected, as
  the code makes them by drawing again (`graphs.py:59-64`).
* *`GossipNodes`.* `r > msg_loss` also loses a message of a simulation without loss if `r` is exactly 0.0; this is left out.
* *`Averaging`.* Floating point is exact arithmetic in multiples of `1/Unit`: what there is after `r` rounds are multiples of
  `Grain[kind][r]`, which is half of that of the round before (`GrainAssumption`; in the run, powers of two), so each halving
  within the bound is exact. Rounding and underflow are left out.
* *`SerfStress`.* Agents of serf are external: one that runs lists the agents of its cluster, and the cooldown is long enough.

## 3. Model checking

Passing runs. Every property of a passing run has a mutant in `PROJECT.json`: a plausible mistake in a modelled
operation with which TLC finds the property violated.

| Run | Instance | Checks | States |
|---|---|---|---|
| `fd_crashes` | 3 nodes, timely and in step, 2 crashes | `TypeOK`, `Accuracy`, `NoRejoin`, `RemovalsAnnounced`, `ProbedInTime`, `Completeness`, `ImplementsDetector` | 382,133 |
| `fd_faults` | 3 nodes, timely but not in step, table of 1 request, 1 loss of any datagram, 2 crashes, 1 starved node | `RemovalsAnnounced`, `AccurateDespiteFaults` | 1,839,349 |
| `ds_join` | 3 nodes, 1 join through any of 2 gateways, 1 loss | `NoDuplicates`, `JoinSpreads`, `GossipEnds` | 9,907 |
| `ds_removal` | 3 nodes, 3 declarations of the death of a fourth peer | `RemovalSpreads` | 11,998 |
| `ds_founded` | 2 nodes, 2 joins (one of a member), a death, a loss | `TypeOK`, `NewsIsFounded`, `ImplementsMembership` | 501,585 |
| `rejoin` | 3 nodes, one a newcomer, and 2 of: it starts, a node stops, the newcomer is dropped by mistake | `JoinTypeOK`, `NoDuplicates`, `Converges` | 178,971 |
| `gossip` | every experiment on complete, ring and geometric graphs of 3 nodes (asynchronous: 2) | `TypeOK`, `CurvesGrow`, `PushAtMostDoubles`, `MessagesPay`, `NewsTakesTime`, `PushPullAhead`, `FreshNodesSpread`, `ImplementsEpidemic`, `OneHopARound` | 1,778,129 |
| `averaging` | push-sum and push-flow, 3 nodes, complete for 2 rounds, a path for 3, any loss | `TypeOK`, `EstimatesInRange`, `MassConserved`, `LossesHeal` | 350,178 |
| `stress` | the five experiments, 2 rounds each, any choice of victims | `TypeOK`, `NoOrphans`, `OneNetwork`, `RunsThrough` | 22,869 |

* `Accuracy`: no running node drops a running node. It takes an ACK not sent, not passed on or read too late.
* `AccurateDespiteFaults`: this and `NoRejoin` with a loss, then only because of the indirect probe, or with nodes that stop at
  any moment, while the exchanges of the nodes overlap: a prober waits for its own only, so it may ask for
  help or declare a death while others' probes, requests and answers are unread, and a peer may be dropped
  between the check of a datagram of its and the handler (`node_manager.c:304`).
* `NoRejoin`: nobody that runs is told `NOT_A_PEER`.
* `RemovalsAnnounced`: relates the peer list, changed by position, to the broadcast list, changed by name, also when nodes
  are dropped by mistake or told `NOT_A_PEER` (`fd_faults`). That it needs no timing either is a theorem. It does not judge whether a peer
  was dropped rightly: a full table of requests, or a `probed` flag set by a PROBE for another node that could not be sent
  (`state.c:612`), leaves lists and announcements in agreement.
* `ProbedInTime`: the list is shuffled anew after each round, but a peer waits for at most `2K - 2` other probes,
  `K` being the number of peers.
* `Completeness`: in the end the lists of the survivors are clean, whoever stopped and whenever.
* `ImplementsDetector`: the refinement, with probes, helpers and positions hidden. The lists change as those of a perfect failure detector:
  one peer goes at a time, for good, after it has stopped; no other step touches a list. `Completeness` is the other half of the
  usual definition.
* `NoDuplicates`: a joiner is listed once although the gateway appends it unconditionally and the others hear of it from several
  nodes (`ds_join`), and again when it rejoins through a gateway that still lists it (`rejoin`), which must drop it first.
* `JoinSpreads`, `RemovalSpreads`, `GossipEnds`: what one node knows all come to know, and the traffic ceases.
* `NewsIsFounded`: whatever is listed or under way, at any stage, goes back to an admission or a declaration of death.
* `ImplementsMembership`: the refinement, with news, threads and positions hidden, and about what `NewsIsFounded` leaves open: what
  may disappear from a list. A list changes by one port at a time; a port goes only if some node declared it dead, or when it
  asks the owner of the list to join, once per request; so no crossing of old and new news drops anybody else.
* `Converges`: in the end each running node that is in a network lists exactly the others. It takes the gateway to list
  itself in the reply, to drop and append the joiner, and the news to reach everybody, whoever stops meanwhile, the gateway
  between request and reply included. News of a death and of a join of the same node do not cross in it (`NewsOver`).
* `CurvesGrow`, `PushAtMostDoubles`, `NewsTakesTime`: the curves that are plotted never fall, stop when they should, stay below
  the `2^x` drawn beside them, and leave 1 only after the smallest delay.
* `MessagesPay`: the message counter misses no update, request or feedback that an infection or a removal costs.
* `PushPullAhead`: push-pull on the choices that push and pull had is ahead of both in each round, which holds only
  because `reset()` restores every pointer.
* `FreshNodesSpread`: in SIR nobody is removed in the round in which it learnt the news, whatever order handlers run in.
* `ImplementsEpidemic`: the refinement, messages and rounds hidden.
* `OneHopARound`: on a schedule, after each round those have the news who had it or are next to them by the choices of this round, nobody more
  and nobody less. It takes all requests to be answered before any update is applied, each node to use one
  entry of the schedule per round, the right one, and no message to be forgotten.
* `EstimatesInRange`, `MassConserved`: push-sum under any loss. `LossesHeal`: push-flow's sum is wrong only while an
  edge has flows that do not cancel, and one message that arrives alone makes them cancel again.
* `NoOrphans`: names are given out by a counter without carry; they suffice for the experiments, so that no process is
  forgotten. `OneNetwork`: the gateway is always a member that runs, though the oldest node may be killed in each round.
  `RunsThrough`: no round has too few nodes to kill.

### Findings

Each is a run that must end in a violation.

| Run | What it shows |
|---|---|
| `fd_descriptors` | `Completeness` fails: sockets are never closed (`state.c:135`, `440`, `497`), and a PROBE that cannot be sent counts as answered (`state.c:444`). A node out of descriptors lists a stopped node for ever. |
| `ds_first_entry` | `RemovalSpreads` fails: `update_member` removes only `if (idx_peer > 0)` (`state.c:394`), so a dead peer at position 0 stays and its death is not passed on. |
| `rejoin_deadlock` | `Converges` fails: `reset_state` holds the mutex from `node_manager.c:51` to `90`, over its sleep and over `join_network`, and a gateway needs its own mutex for `remv_peer`. Two nodes that rejoin through each other wait for ever. |

### Bounds, and why they are enough

* *Nodes.* Three: a prober, its target and one more that can be asked for an indirect probe, or that hears news second
  hand. In the dissemination runs a further port (`m`) is listed, so that there are three peers and `GossipRounds` is 2.
  Two suffice in `ds_founded`, where they leave room for joins, deaths and losses.
* *More faults than one kind* (`FaultsNext`). In `fd_faults` exchanges overlap as long as the faults so far are those that may not make a node
  drop a running peer (`Calm`). After more, probers and surroundings wait until the UDP threads are idle; only
  `RemovalsAnnounced` speaks of those states, and its theorem has no such bound.
* *`CAPACITY`, `FAN_OUT`.* Capacity is above the number of peers but in `fd_faults`, where the table of requests reaches it. The
  fan-out is 3 as in the code, which is everybody, and 1 in `ds_founded`.
* *`MaxCrash`, `MaxStarved`, `MaxLoss`, `MaxJoin`, `MaxDead`* are numbers of events. Two crashes leave one survivor; one
  loss is what the code promises to survive. In `ds_removal` every node may declare the peer dead.
* *`MaxQueued`* bounds the datagrams waiting when a prober (if not `Timely`) or a gossiper acts. 9 in the liveness runs
  is never reached; 1 in `ds_founded` still lets old and new news cross, between the inbox and the broadcast list.
* *`AnyOrder`.* `ds_removal` starts with the dead peer last in each list. This is the precondition without which
  `ds_first_entry` shows the property false. In the runs of `JoinProtocol` a member `m` whose process has stopped unnoticed
  is in each list, so that the newcomer comes after it: at position 0 `remv_peer` would leave it, and list it twice.
* *`MaxTrouble`* counts newcomers, stops and mistakes: two, so that each meets each other. `rejoin` lets only the newcomer be
  dropped by mistake (`Mortals`); `rejoin_deadlock` a member, who may then meet the newcomer. Datagrams are not lost.
* *Simulations.* Three nodes: a sender, a receiver and one that neither knows of. The schedules have `Factor` 3 (complete)
  and 1 (geometric) for the 5 of the code: long enough for all to be informed, short enough to run out too. Runs without a schedule
  are cut after 2 to 5 rounds (`rounds`, `Rounds`), enough for news to pass on, a delayed message to be answered, an edge to break and
  be repaired. `MinDelay` and `MaxDelay` are 2 and 3 for 3 and 5.
* *`SerfStress`.* 5 letters for 26 and 2 rounds for 10, with the seeds, kills and joins of the code: ten names of one letter
  do not suffice, so the counter without carry is exercised.
* *Symmetry* is used only in runs without liveness; the initial states and actions treat nodes alike.
* *Deadlock* is checked in `fd_crashes`, where probers never stop. It is off in `fd_faults`, where two nodes may have
  ended and the third sleep in `reset_state`, with which the module ends, and for the dissemination,
  the joins, the simulations and the stress test, all of which end.

### Time and fairness

`Timely` is the assumption behind the constants: a quarter of `PROBE_PERIOD` (125 ms) and three quarters of it are longer
than the exchange that the prober of the same node has begun. So it asks others only when its PROBE or the ACK is no longer
unread or in a handler (`Awaited`), and declares a death only when the same holds of its requests, of the PROBEs and ACKs of
the nodes that help, and of the ACK passed on (`Relayed`); and a request expires (`not_expired`, three quarters of `PROBE_PERIOD` again)
only when the helper does not wait for the answer any more. Nobody waits for a node that sleeps in `reset_state`. What other nodes
have under way may be anywhere. `Accuracy` is about this assumption; that `RemovalsAnnounced` needs none of it is proved.

`InStep`, in `fd_crashes` and `fd_descriptors`, makes a prober wait for the exchanges of all nodes (`Quiescent`). It is there for
liveness. In the model a thread reads the datagrams that wait in any order, and then fairness of the thread is not enough: it may read
those of a faster node for ever and never the one that a third node waits for, which TLC finds. Sockets are
queues and rule this out; fairness for each datagram would too, but TLC cannot hold its state graph. The safety properties
are proved for both values of `InStep`, and `fd_faults` checks them without it.

Fairness, only for the liveness runs:
weak fairness of the UDP thread, of the gossiper and of an admission that has begun, since they are threads in endless
loops that block only on the mutex and on `recv`; strong fairness of the prober, since `MayAct` comes and goes with the
datagrams of others and a thread whose sleep ends is not postponed by them for ever. Nothing is assumed of crashes, losses,
joins, deaths and expiry. In `JoinProtocol` the joiner, the gateway and the end of the grace period have weak fairness,
for they run on their own; probing a peer and finding a silent one have strong fairness, since the round robin comes
back to each peer (`ProbedInTime`) while single attempts may be cut short. Nothing makes a newcomer start, a node stop or a mistake
happen. The stress test is a single thread that never blocks: weak fairness of `Next`. For the simulations only safety is checked.

## 4. Proofs

TLAPS checks the following for all values of the constants, given the named assumptions of the modules
(`PortAssumption`: node ports are ports other than 0, -1 is not a port, there are finitely many ports;
`SizeAssumption`, `BoundAssumption`: sizes and bounds are natural numbers; `TimelyAssumption`, `MemberAssumption`,
`OrderAssumption`; `InstancesAssumption`: an experiment has two nodes or more and edges between nodes; `FactorAssumption`,
`DelayAssumption`; `AveragingAssumption`, `GraphsAssumption`, `GrainAssumption`: values are natural numbers, edges go both ways,
and the unit can be halved in every round; `NamesSuffice`: the letters make names enough for the largest load). Sizes and bounds are arbitrary.

### Failure detector

* `TypeCorrect`: `Spec => []TypeOK`. The content is in the list helpers: `IdxOf` finds a position or -1, `RemovePeer` at a
  position found leaves a sequence without a hole, filtering keeps entries.
* `Accurate`, `NeverRejoins`: under `Timely`, no loss and no exhaustion, `Accuracy` and `NoRejoin` hold
  for any number of nodes and crashes.
* `FaultsSurvived`: under `Timely`, `MaxLoss = 1`, `FAN_OUT >= 1` and three nodes or more, `AccurateDespiteFaults`: one lost datagram,
  whichever it is, makes no node drop a running peer if no node stops, nor do nodes that stop if none is lost. The code promises the former by its
  indirect probes. With two nodes or no fan-out there is nobody to ask; with two losses both ways may be cut.

All three follow from `CalmInv`: as long as the surroundings are `Calm` (no node starved, and nothing lost or no node stopped), `IInv` holds.
`Accuracy` alone is not inductive. `IInv` adds
  - `ProbeOK`: while a node waits for a running peer, either its PROBE is in the peer's inbox or hands, or the ACK
    is in its own (`Awaited`), or a datagram was lost. After the requests were sent, it is a datagram lost and the answer `Relayed`: a
    third node has the request in its inbox or hands, or in its table and its own exchange with the peer is `Awaited`, or it is
    just passing the ACK on, or that ACK is at the first node. When the exchange is over none of these can be (`ExchangeEnded`), so a
    peer that has not answered by then is not running. This is the core. Since the one loss is used up when the requests go out, none of them
    is lost; and that one goes out at all needs a peer that is not the one asked about (`SomeoneAsked`). A helper
    whose table of requests overflows exits (`state.c:601`), and then a node has stopped and nothing is claimed.
  - `Traffic`: every datagram under way comes from a node, and never from the receiver; if that node runs, the receiver lists it by
    `Accuracy`, so that a PROBE is not answered with `NOT_A_PEER` instead of an ACK. Datagrams of a node that has stopped may outlive its
    place in the lists and be refused, which reaches nobody.
  - `ListsOK`: lists, targets and requests name other nodes only, so that nobody probes itself or is asked about itself.
  - `Rich`, `NoRejoin`, `TypeOK`.

  The proof has one lemma per action (`ProbeNextInv` ... `LoseInv`); `KeepStep`, `StaysStep` and `SendStep` do what they share.
* `RemovalsCorrect`: `RemovalsAnnounced` for any numbers of nodes, losses, crashes and exhausted
  descriptors, timely or not. The invariant `AInv` adds that no list names a peer twice (`Distinct`): otherwise `remove_peer` at the
  first position would leave a peer listed that has been announced dead. Removals keep it (`RemoveAt` of an injective sequence),
  and nothing in the module adds peers.
* `PerfectDetection`: `Spec => ImplementsDetector`, under the conditions of `Accurate`. A step of `check_probed` maps to `Suspect` of one
  peer: that it is one, and the right one, is `OnePortLess` (the list is `Distinct`, and `IdxOf` and `RemovePeer` count alike); that it
  has stopped is `Accuracy` in the next state. The end of a process, by a crash or by a full table of requests, maps to `Stop`; all else to a stutter.
* `EveryPeerProbedInTime`: `ProbedInTime`. The count of a single peer is not inductive, for what it may reach
  depends on the round: `WInv` bounds it by `2(K-1) - 1 - l` for a peer still among the `l` left to probe and by `K - 1 - l` for one that
  was probed in this round. That a round is no longer than `K` probes and has every peer rests on `Distinct` and on the
  shuffle being a permutation (`AInv`).

### Dissemination

* `TypeCorrect`, and `NewsFounded`: `NewsIsFounded` for any number of nodes, joins, deaths, losses. The invariant adds to it
  that the joiner in hand of the TCP thread was recorded (`TcpIn`), and says it as a monotone predicate of
  the sets of admitted and dead ports, which only grow (`FoundedMonotone`, `NodeMonotone`, `HistoryGrows`).
* `ListsDistinct`: `JoinedOnce => NoDuplicates`, for `NoDuplicates` is not true of a port that asks to join twice, or that is
  listed when it asks (the run has one join). `append_member` does not look for the joiner, so the list stays
  free of duplicates only because the joiner is unknown everywhere until its gateway has appended it. The invariant `JInv` says
  so: all news and lists name only ports `Known`, the members and those admitted and already appended. It is the same step
  lemma (`NewsStep`) as for `NewsFounded`, with a smaller set of ports; `process_updates` does look before it adds.
* `MembershipKept`: `Spec => ImplementsMembership`. Lists are mapped to the sets of their ports, so that a second entry, which a port
  that joins twice may get, stays when the first is removed (`PortsDropped`). An update that `process_updates` applies maps to `Forget`
  or `Learn`, since the invariant of `NewsFounded` says where it comes from; `remv_peer` maps to `Ask`, `append_member` to `Learn`
  of the joiner that the TCP thread remembers, `check_probed` to `Declare`; gossiping, reading and losing datagrams to stutters. That the
  lists are complete at first follows from counting (`PeersInOrderComplete`).
* `JoinTypeCorrect`: `JoinSpec => []JoinTypeOK`. The steps that `JoinProtocol` takes from `Dissemination` are typed already
  (`OldStepTyped`); new are removals at a position (`RemovedTyped`), the reply and what a joiner adopts (`JoiningTypes`).

### Simulators (`ExperimentsProofs`, `PushPullProofs`)

* `TypeCorrect`; the invariant `Underway` adds what each message says of its sender (`Carried`, `News`, `Answers`) and in which phase of
  the simulation it can be there (`Phased`).
* `Refinement`: `Spec => ImplementsEpidemic`, each step of the simulators is a step of `Epidemic` or a stutter. Needed: an
  update under way comes from a node that has the news and still spreads it (`News`); otherwise `on_update` could teach the news on
  behalf of one that never had it.
* `CurvesCorrect`: `CurvesGrow`, with `CurveInv`, which bounds the last entries of the curves by the numbers of nodes that have, and had, the news.
* `NewsInTime`: `NewsTakesTime`, with `InTime`: nothing is delivered, and nobody but node 0 knows, before the smallest delay is over, and what is
  still delayed by `d` rounds will not be delivered before either.
* `PushDoubles`: `PushAtMostDoubles`. `PushInv` counts through the round: messages are no more than the nodes before `node` that spread the news
  (`Spreaders`), and those who learnt it in this round together with the messages and updates left are no more than those
  who knew when it began.
* `FreshSpread`: `FreshNodesSpread`, with `FreshInv`: updates and feedback under way are between nodes whose state was such
  when the round began (`EarlyNews`, `EarlyAnswers`).
* `MessagesCounted`: `MessagesPay`. That the counter covers the infections and removals so far is not inductive: an update that
  is delivered spends a message counted rounds before. `PayInv` keeps the books (`Account`): what is under way in `messages`, `updates`,
  `feedbacks` and `pending` has been counted and not spent, an update or a feedback at what an infection costs
  (`UpdateCost`), a request at one less, as its reply is counted when it is sent. With it, the counter is never below what is spent plus what is under way. Values are
  sizes of sets (`Paid`, `Held`), so that losing, delaying and delivering messages are maps between sets (`HeldMoved`, `ValueTail`).
* `PushPullIsAhead` (`PushPullProofs`): `PushPullAhead`, on any graph, for any schedule and number of nodes. It compares a simulation with those
  that ended before it, and the state keeps of these only the curves. What it needs is who had the news in each round, and that is
  neither kept nor counted; but it is fixed by the schedule, which all of them share and which only grows (`PicksKept`). So `AheadInv` says that
  there *is* such a sequence of sets for the running simulation and for each one that ended (`Story`: it has the sizes on
  the curve, and in each round grows at most to `Reach`, those who have the news, whom these picked and who picked one of them), in place of a
  history variable. Within a round, `Turn` ties the pointers into the schedule to the main loops that have run, and `Round`
  says of each message that it stays within `Reach` and, by push and pull, that each node in `Reach` knows or will be told
  before the round ends (`Asked`, `Promised`). `Reach` is monotone (`ReachMore`), so a story that is not behind stays so; and the one that ended
  had everybody, so push-pull is done before the choices of that run are used up, which is why it cannot raise `IndexError`.
* `NewsGoesOneHop` (`PushPullProofs`): `OneHopARound`, on any graph and any schedule. `HopInv` says that `Round`, the account
  that `AheadInv` gives of the round for some set of nodes, holds for the set that the history variable remembers (`ToldBefore`). It bounds
  those who know by `Reach` from above, and, as each node in `Reach` knows or will be told before the updates run out, from below.

### Averaging (`AveragingProofs`)

* `TypeCorrect`, `EstimatesCorrect` (`EstimatesInRange`): neither is inductive, because a half is exact only of an even number. `FairInv`
  says how much each number can still be halved: a node that has run its main loop is one round further (`Level`), its value
  and weight are multiples of that round's `Grain`, the weight is not 0, and the value lies between the least and the
  greatest value times the weight. The same holds of each message, which is of the next round's grain, as all nodes are when it arrives.
* `MassIsConserved` (`MassConserved`): `ConservedInv`, with the history variable for what was lost. The step lemmas say what a sum does
  when one term changes, a message is appended, or the first is taken.
* `LossesAreHealed` (`LossesHeal`): `HealInv` says what is under way on each edge. Before the losses each message is `Current`, it tells the
  flow of its sender, who sends once per round; an edge not in question cancels or has messages on it. Afterwards, such an edge either
  cancels and has none, or has exactly one and that is current (`Alone`), so that mirroring it makes the flows cancel. If all do,
  the flows of all nodes add up to 0 (`FlowsCancel`), and the shares to the values (`SharesAddUp`).

### Stress test of serf (`SerfStressProofs`)

* `TypeCorrect`, `NobodyOrphaned` (`NoOrphans`), `NetworkTogether` (`OneNetwork`), from one invariant:
  - `Budget`: agents started and still to be started never exceed the names there are;
  - `Naming`: the letters before the current position are untouched (`Advanced`), those after it are used up, so each letter of a name
    in use is at most the current one's, and one of them is smaller (`Behind`);
  - `Tables`: the two tables list the same agents under the same names, in the same order (`Matching`); removing the same
    positions from both (`Entries`) keeps it, and distinct names make the removal by name hit one process;
  - `Network`: all that run are in one cluster. Without `Tables` an agent might be told to join one that was killed.

`CollectionProofs` has what several of these need. For lists: the rank of a position among those kept is one to one and onto, so
`Entries` keeps each entry once and in order. For sums: `SumFunctionOnSet` picks its elements one by one, in an order left open; that the
sum is well defined, and does not depend on the order, is proved from the least set for which it would fail (`SumIs`,
`SumWithout`), and then how it splits, changes and cancels (`SumSplit`, `SumChange`, `SumOpposites`).

### Only model-checked

* `Completeness`, `JoinSpreads`, `RemovalSpreads`, `GossipEnds`, `Converges`, `RunsThrough` are liveness under
  fairness, which the prover does not handle.
* `NoDuplicates` of `JoinProtocol` (run `rejoin`) is not covered by `ListsDistinct`, which has one join per port; and it is not true in
  general, because the gateway does not remove a joiner that it lists at position 0 (see `Unnoticed` above).
* The findings are counterexamples of TLC.

## 5. Not modelled

* Plots and statistics over many simulations (mean, deviation, outliers; `gossip/dissemination_*.py`, `draw_graphs.py`): floating
  point and drawing. `stress_test.py`, which reads logs after the fact; its criterion (`stress_test.py:167`) is what
  `Completeness`, `JoinSpreads` and `Converges` express. Logger and `sleep_`.
* `start.c`: it forks the seeds, whose lists are where the models begin, and passes `SIGINT` on.
* Binding and listening with retries: a process that fails there has not started.
* A client that closes before its join request: the gateway takes 0 bytes for port 0 (`node_manager.c:221`).
* Replies torn by a change of the list, and arrays written beyond `CAPACITY` (`state.c:282`, `351`, `node_manager.c:237`).

## 6. Plan

Next, in this order:

1. `JoinProtocol`: torn replies, the member on port 0, position 0.
2. `ThinSwim`: probing, gossip and joins in one state machine; a probe list that is older than the peer list.
3. `ProbeTiming`: discrete time and queues instead of `Timely`, `InStep` and `NewsOver`; the late ACK of another cycle; a bound on the table of requests.
4. `FisherYates` (every permutation, nothing else, checked against `Shuffles`) and `Starter` (which children are signalled).

The number of runs is kept small: related properties share an instance, and new modules will replace runs they subsume.

## 7. Running

In this directory: `tlc -config fd_crashes.cfg MCRoundRobin` and so on (module and configuration of each run are in
`PROJECT.json`), `tlapm FailureDetectorProofs.tla` for the proofs.
