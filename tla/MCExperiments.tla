--------------------------- MODULE MCExperiments ---------------------------
(***************************************************************************)
(* Experiments for TLC: three nodes, two in the asynchronous simulation,   *)
(* and a history variable with the states at the beginning of the round.   *)
(***************************************************************************)
EXTENDS Experiments

VARIABLE before

mcVars == <<experimentVars, before>>

Path == [i \in 0 .. 2 |-> IF i = 1 THEN {0, 2} ELSE {1}]
Pair == [i \in 0 .. 1 |-> {1 - i}]
NoEdges == [i \in 0 .. 2 |-> {}]

Instance(kind, type, fixed, n, neighbors, rounds) ==
  [kind |-> kind, graph |-> type, fixed |-> fixed, n |-> n,
   neighbors |-> neighbors, rounds |-> rounds]

MCFactor == [K |-> 3, RG |-> 1]

MCInstances == {
  Instance("si", "K", TRUE, 3, NoEdges, 0),
  Instance("si", "RG", TRUE, 3, Path, 0),
  Instance("si", "R", TRUE, 3, NoEdges, 2),
  Instance("si", "K", FALSE, 3, NoEdges, 2),
  Instance("si", "R", FALSE, 3, NoEdges, 2),
  Instance("si", "RG", FALSE, 3, Path, 3),
  Instance("async", "RG", FALSE, 2, Pair, 5),
  Instance("sir", "K", FALSE, 3, NoEdges, 3),
  Instance("sir", "RG", FALSE, 3, Path, 3)}

MCInit == Init /\ before = state

MCNext ==
  /\ Next
  /\ before' = IF phase # "main" /\ phase' = "main" THEN state' ELSE before

MCSpec == MCInit /\ [][MCNext]_mcVars

(* In SIR a node that gets the news spreads it for a round at least: it is *)
(* feedback to what it sent that removes it, never to what it was sent.    *)
FreshNodesSpread ==
  \A i \in Nodes : state[i] = "R" => before[i] # "S"

(* The place in its schedule, from 0, of the choice of node i in round r,  *)
(* if every node makes one a round, in turn, from the first entry on.      *)
PlaceOf(i, r) == IF graph.kind = "K" THEN (r - 1) * graph.n + i ELSE r - 1
Picked(i, r) == picks[ScheduleOf(i)][PlaceOf(i, r) + 1]

Now == Len(infected)
Told == {i \in Nodes : state[i] = "I"}
ToldBefore == {i \in Nodes : before[i] = "I"}

(* One hop: A, those whom a node of A picks, by push, and those who pick a *)
(* node of A, by pull.                                                     *)
Hop(A) ==
  {j \in Nodes : \/ j \in A
                 \/ mode.push /\ \E i \in A : Picked(i, Now) = j
                 \/ mode.pull /\ Picked(j, Now) \in A}

(* In a round on a schedule news travels one hop: when the messages are    *)
(* dealt with, those have it who had it or are next to them by the choices *)
(* of this round, nobody less and nobody more.  No request is answered     *)
(* with what came in the same round, whatever the order of the messages,   *)
(* and no round uses the choices of another one.                           *)
OneHopARound ==
  Scheduled /\ phase = "deliver" /\ messages = << >> /\ updates = << >> =>
    Told = Hop(ToldBefore)

=============================================================================
