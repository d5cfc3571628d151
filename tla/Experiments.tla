---------------------------- MODULE Experiments ----------------------------
(***************************************************************************)
(* The scripts gossip/dissemination_si.py, dissemination_async.py and      *)
(* dissemination_sir.py without their plots: which simulations each        *)
(* experiment runs, in which order and on which graph.  Experiments that   *)
(* compare push, pull and push-pull run them on one graph, reset between.  *)
(***************************************************************************)
EXTENDS GossipNodes

CONSTANT
  Instances   \* the graphs, their sizes and a bound on the rounds

(* No experiment runs on fewer than two nodes, and edges are between nodes. *)
ASSUME InstancesAssumption ==
  \A i \in Instances :
    /\ i.n \in Nat /\ i.n >= 2 /\ i.rounds \in Nat
    /\ i.neighbors \in [0 .. i.n - 1 -> SUBSET (0 .. i.n - 1)]

VARIABLES
  todo,       \* the simulations still to be run on this graph
  results     \* the curves of those that have ended

experimentVars == <<gossipVars, todo, results>>

Push     == [push |-> TRUE, pull |-> FALSE]
Pull     == [push |-> FALSE, pull |-> TRUE]
PushPull == [push |-> TRUE, pull |-> TRUE]

Compared == <<Push, Pull, PushPull>>

Setups(kind, graphs, fixed, programs, losses, ks) ==
  [kind : {kind}, graph : graphs, fixed : {fixed}, program : programs,
   lossy : losses, k : ks]

Lossless(graphs, fixed, program) ==
  Setups("si", graphs, fixed, {program}, {FALSE}, {1})

RunCompleteSiSingle == Lossless({"K"}, TRUE, Compared)
RunCompleteSiMeanStd == Lossless({"K"}, TRUE, Compared)
CompareCompleteSiExp == Lossless({"K"}, FALSE, <<Push>>)
CompareCompleteSiLoglog == Lossless({"K"}, FALSE, <<Pull>>)
CompleteSiVsGraphSize == Lossless({"K"}, TRUE, Compared)
CompareCompleteSiPhases == Lossless({"K"}, TRUE, Compared)
RingSiVsGraphSize == Lossless({"R"}, TRUE, Compared)
RandGeomSiVsGraphSize == Lossless({"RG"}, TRUE, Compared)
SiRoundsCompareTopologies == Lossless({"K", "R", "RG"}, TRUE, <<PushPull>>)
SiRoundsMsgLoss ==
  Setups("si", {"K", "R", "RG"}, FALSE, {<<PushPull>>}, BOOLEAN, {1})

CompareSyncAsyncMultiple ==
  Setups("si", {"K", "RG"}, FALSE, {<<PushPull>>}, BOOLEAN, {1}) \cup
  Setups("async", {"K", "RG"}, FALSE, {<<PushPull>>}, {FALSE}, {1})
CompareAsyncVsGraphSize == CompareSyncAsyncMultiple

(* k is 1, 2, 5 or 10; whether it is 1 is all that is not a probability.   *)
SingleRunSir ==
  Setups("sir", {"K", "RG"}, FALSE, {<<Push>>, <<Pull>>, <<PushPull>>},
         {FALSE}, {1, 2})
MultipleRunSir ==
  Setups("sir", {"K", "RG"}, FALSE, {<<PushPull>>}, {FALSE}, {1, 2})

AllSetups == UNION {
  RunCompleteSiSingle, RunCompleteSiMeanStd, CompareCompleteSiExp,
  CompareCompleteSiLoglog, CompleteSiVsGraphSize, CompareCompleteSiPhases,
  RingSiVsGraphSize, RandGeomSiVsGraphSize, SiRoundsCompareTopologies,
  SiRoundsMsgLoss, CompareSyncAsyncMultiple, CompareAsyncVsGraphSize,
  SingleRunSir, MultipleRunSir}

Init ==
  \E x \in AllSetups, i \in Instances :
    /\ i.kind = x.kind /\ i.graph = x.graph /\ i.fixed = x.fixed
    /\ GossipInit([kind |-> x.kind, lossy |-> x.lossy, k |-> x.k,
                   rounds |-> i.rounds],
                  Head(x.program),
                  [kind |-> x.graph, n |-> i.n, fixed |-> x.fixed,
                   neighbors |-> i.neighbors])
    /\ todo = Tail(x.program)
    /\ results = << >>

(* One simulation returns its curves, graph.reset(), the next one begins.  *)
NextSimulation ==
  /\ phase = "done" /\ todo # << >>
  /\ results' = Append(results, [mode |-> mode, infected |-> infected])
  /\ mode' = Head(todo) /\ todo' = Tail(todo)
  /\ Reset
  /\ state' = Started /\ phase' = "main"
  /\ infected' = <<1>> /\ removed' = <<0>> /\ sent' = 0
  /\ pending' = NoPending
  /\ UNCHANGED <<task, node, messages, updates, feedbacks>>

Next ==
  \/ GossipNext /\ UNCHANGED <<todo, results>>
  \/ NextSimulation

Spec == Init /\ [][Next]_experimentVars

(* What the experiments on phases record of a curve: the first round, from *)
(* 0, with half of the nodes infected.                                     *)
FirstPhase(curve) ==
  Min({r \in 0 .. Len(curve) - 1 : 2 * curve[r + 1] >= graph.n})

-----------------------------------------------------------------------------

TypeOK ==
  /\ ChoiceTypeOK
  /\ task \in [kind : {"si", "async", "sir"}, lossy : BOOLEAN,
               k : Nat \ {0}, rounds : Nat]
  /\ mode \in {Push, Pull, PushPull}
  /\ state \in [Nodes -> IF task.kind = "sir" THEN {"S", "I", "R"}
                                              ELSE {"S", "I"}]
  /\ phase \in {"main", "delay", "deliver", "done", "IndexError"}
  /\ node \in 0 .. graph.n
  /\ messages \in Seq(Message) /\ updates \in Seq(Message)
  /\ feedbacks \in Seq(Message)
  /\ pending \in [0 .. MaxDelay -> Seq(Message)]
  /\ infected \in Seq(0 .. graph.n) /\ removed \in Seq(0 .. graph.n)
  /\ sent \in Nat
  /\ todo \in Seq({Push, Pull, PushPull})
  /\ results \in Seq([mode : {Push, Pull, PushPull},
                      infected : Seq(0 .. graph.n)])

Spread(r) == infected[r] + removed[r]

(* The curves the experiments plot: the news is never unlearnt, nobody     *)
(* removed comes back, and a simulation of SI stops at the first round in  *)
(* which everybody is infected, neither before nor after.                  *)
CurvesGrow ==
  /\ \A r \in 1 .. Len(infected) - 1 :
       Spread(r) <= Spread(r + 1) /\ removed[r] <= removed[r + 1]
  /\ task.kind # "sir" =>
       \A r \in 1 .. Len(infected) :
         infected[r] = graph.n <=> r = Len(infected) /\ phase = "done"

(* Push alone, where an infected node sends one message a round, at most   *)
(* doubles the informed: the 2^x drawn beside it bounds the curve, so no   *)
(* node passes on in a round what it learns in that round.                 *)
PushAtMostDoubles ==
  mode = Push /\ task.kind # "async" =>
    \A r \in 1 .. Len(infected) - 1 : Spread(r + 1) <= Spread(r) + infected[r]

(* No news without messages: an infection costs an update, by pull also    *)
(* the request, and a removal an update that was not needed and the        *)
(* feedback to it.  The counter of messages misses none of them.           *)
UpdateCost == IF mode.push THEN 1 ELSE 2
MessagesPay ==
  LET informed == graph.n - Count("S") IN
  sent >= UpdateCost * (informed - 1) + (UpdateCost + 1) * Count("R")

(* A message of the asynchronous simulation is at least MinDelay rounds    *)
(* under way, whatever was delayed before it or is answered on arrival:    *)
(* nobody else has the news before MinDelay rounds have gone by.           *)
NewsTakesTime ==
  task.kind = "async" =>
    \A r \in 1 .. Len(infected) : infected[r] > 1 => r - 2 >= MinDelay

(* Push, pull and push-pull are compared on the same random choices; so    *)
(* push-pull is ahead of both in every round, done with the first phase    *)
(* and with all of it at the latest when they are, and never out of picks  *)
(* where they were not.  It rests on reset() restoring all of a schedule.  *)
PushPullAhead ==
  mode = PushPull /\ Scheduled =>
    \A c \in {results[k].infected : k \in DOMAIN results} :
      /\ phase # "IndexError"
      /\ Len(infected) <= Len(c)
      /\ \A r \in DOMAIN infected : infected[r] >= c[r]
      /\ phase = "done" => FirstPhase(infected) <= FirstPhase(c)

(* All simulations implement the epidemic.                                 *)
Abstract == INSTANCE Epidemic WITH state <- state
ImplementsEpidemic == Abstract!Spec

=============================================================================
