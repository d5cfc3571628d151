----------------------------- MODULE PeerChoice -----------------------------
(***************************************************************************)
(* gossip/graphs.py: the graphs the simulators run on, and which node a    *)
(* node contacts in a round.  A random number is a choice with \E.  With a *)
(* fixed schedule the random numbers are drawn once, when the graph is     *)
(* made, and reset() plays the same ones again: here they are drawn when   *)
(* first asked for and kept in picks, which no run can tell apart.         *)
(***************************************************************************)
EXTENDS Integers, Sequences, FiniteSets

CONSTANT
  Factor      \* [K, RG]: the 5 in the lengths of the schedules

ASSUME FactorAssumption == Factor \in [{"K", "RG"} -> Nat \ {0}]

VARIABLES
  graph,      \* kind (complete, ring, random geometric), n, neighbors, fixed
  picks,      \* the schedules, as far as they have been drawn
  ptr         \* the position of the last entry used of each, from 0

choiceVars == <<graph, picks, ptr>>

Nodes == 0 .. graph.n - 1

(* int(np.log2(k)) for k >= 1: how many powers of two, from 2 on, reach k. *)
Log2(k) == Cardinality({e \in 1 .. k : 2^e <= k})

(* One schedule for the whole complete graph, used by the nodes in turn,   *)
(* and one per node of a random geometric graph; the radius is 0.5 in all  *)
(* experiments, so int(log2(n) * 1 / rad) is int(log2(n * n)).             *)
Schedules == IF graph.kind = "K" THEN {0} ELSE Nodes
ScheduleOf(i) == IF graph.kind = "K" THEN 0 ELSE i
ScheduleLength ==
  IF graph.kind = "K" THEN graph.n * Log2(graph.n) * Factor["K"]
                      ELSE Log2(graph.n * graph.n) * Factor["RG"]

(* The ring takes the parameter fixed_scheduling but has no schedule.      *)
Scheduled == graph.fixed /\ graph.kind # "R"

(* What one draw may give.  randint(3) is 0, 1 or 2 and never the -1 for   *)
(* which the ring would return the left neighbour.                         *)
CompleteChoices == Nodes
RingChoices(i) == {i, (i + 1) % graph.n}
GeometricChoices(i) == graph.neighbors[i] \cup {i}

NeighborChoices(i) ==
  CASE graph.kind = "K"  -> CompleteChoices
    [] graph.kind = "R"  -> RingChoices(i)
    [] graph.kind = "RG" -> GeometricChoices(i)

(* CompleteGraph and RandomGeometricGraph with their schedule, as made.    *)
ChoiceInit(g) ==
  /\ graph = g
  /\ picks = [s \in Schedules |-> << >>]
  /\ ptr = [s \in Schedules |-> -1]

(* Mutant: one entry too many is taken to be there. *)
ExhaustedLate(i) == Scheduled /\ ptr[ScheduleOf(i)] >= ScheduleLength

(* self.picks[self.ptr] is out of range: IndexError.                       *)
Exhausted(i) == Scheduled /\ ptr[ScheduleOf(i)] + 1 >= ScheduleLength

(* get_random_neighbor(i) returns p.                                       *)
ScheduledNeighbor(i, p) ==
  LET s == ScheduleOf(i)  pos == ptr[s] + 1 IN
  /\ Scheduled /\ ~Exhausted(i)
  /\ ptr' = [ptr EXCEPT ![s] = pos]
  /\ \/ pos < Len(picks[s]) /\ p = picks[s][pos + 1] /\ UNCHANGED picks
     \/ /\ pos = Len(picks[s])
        /\ p \in NeighborChoices(i)
        /\ picks' = [picks EXCEPT ![s] = Append(@, p)]

GetRandomNeighbor(i, p) ==
  /\ \/ ScheduledNeighbor(i, p)
     \/ ~Scheduled /\ p \in NeighborChoices(i) /\ UNCHANGED <<picks, ptr>>
  /\ UNCHANGED graph

(* get_neighbors                                                           *)
GetNeighbors(i) ==
  IF graph.kind = "K" THEN Nodes \ {i} ELSE graph.neighbors[i]

(* Mutant: the next run goes on where the last one stopped. *)
ResetForgotten == UNCHANGED choiceVars

Reset == ptr' = [s \in Schedules |-> -1] /\ UNCHANGED <<graph, picks>>

ChoiceTypeOK ==
  /\ graph.kind \in {"K", "R", "RG"} /\ graph.n \in Nat \ {0}
  /\ graph.fixed \in BOOLEAN
  /\ graph.neighbors \in [Nodes -> SUBSET Nodes]
  /\ picks \in [Schedules -> Seq(Nodes)] /\ ptr \in [Schedules -> Int]
  /\ \A s \in Schedules :
       /\ Len(picks[s]) <= ScheduleLength
       /\ ptr[s] \in -1 .. Len(picks[s]) - 1

=============================================================================
