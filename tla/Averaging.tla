----------------------------- MODULE Averaging -----------------------------
(***************************************************************************)
(* gossip/averaging_msg_loss.py: push-sum and push-flow, by which the      *)
(* nodes of a graph come to estimate the average of their values, on a     *)
(* network that loses messages.  Floating point is left out: all numbers   *)
(* are multiples of 1/Unit, and what there is after r rounds are multiples *)
(* of Grain[kind][r], so that every halving within the bound is exact.     *)
(***************************************************************************)
EXTENDS PeerChoice, Positions, FiniteSetsExt

CONSTANTS
  Graphs,     \* the graphs of the experiments
  Value,      \* initial_values
  Rounds,     \* bound for each kind of graph: 200 to 2500 in the code
  Grain       \* for each kind of graph and each round

ASSUME AveragingAssumption ==
  /\ Rounds \in [{"K", "RG"} -> Nat]
  /\ \A g \in Graphs : \A i \in 0 .. g.n - 1 : Value[i] \in Nat

ASSUME GrainAssumption ==
  \A k \in {"K", "RG"} :
    /\ \A r \in 0 .. Rounds[k] : Grain[k][r] \in Nat \ {0}
    /\ \A r \in 1 .. Rounds[k] : Grain[k][r - 1] = 2 * Grain[k][r]

(* Complete or geometric, with edges both ways and none from a node to     *)
(* itself; averaging never asks for a fixed schedule.                      *)
ASSUME GraphsAssumption ==
  \A g \in Graphs :
    /\ g.kind \in {"K", "RG"} /\ g.n \in Nat \ {0} /\ g.fixed = FALSE
    /\ g.neighbors \in [0 .. g.n - 1 -> SUBSET (0 .. g.n - 1)]
    /\ \A i \in 0 .. g.n - 1 : \A q \in g.neighbors[i] :
         q # i /\ i \in g.neighbors[q]

VARIABLES
  alg,        \* the parameter mode
  lossy,      \* msg_loss > 0
  x, w,       \* value and weight of each node
  flowsX, flowsW,   \* per node and neighbor (push-flow)
  phase,      \* "main" or "deliver"
  node,       \* the next node to run its main loop
  round,
  messages    \* of this round, not applied yet

avgVars == <<choiceVars, alg, lossy, x, w, flowsX, flowsW, phase, node,
             round, messages>>

Unit == Grain[graph.kind][0]

(* sum(self.flows_x) and sum(self.flows_w)                                 *)
SumFlows(flows, i) == SumFunctionOnSet(flows[i], GetNeighbors(i))

(* What a node can halve, and the quotient of which get_estimate returns.  *)
OwnX(i) == IF alg = "PushSum" THEN x[i] ELSE x[i] - SumFlows(flowsX, i)
OwnW(i) == IF alg = "PushSum" THEN w[i] ELSE w[i] - SumFlows(flowsW, i)

(* What the two experiments run, on each graph.                            *)
TestPushSumMsgLoss == [alg : {"PushSum"}, lossy : BOOLEAN]
TestPushFlowVsPushSum == [alg : {"PushSum", "PushFlow"}, lossy : {TRUE}]

(* PushSumNode and PushFlowNode as they are made.                          *)
NewNodes ==
  /\ x = [i \in Nodes |-> Value[i] * Unit] /\ w = [i \in Nodes |-> Unit]
  /\ flowsX = [i \in Nodes |-> [q \in GetNeighbors(i) |-> 0]]
  /\ flowsW = flowsX

Init ==
  /\ \E e \in TestPushSumMsgLoss \cup TestPushFlowVsPushSum :
       alg = e.alg /\ lossy = e.lossy
  /\ \E g \in Graphs : ChoiceInit(g)
  /\ NewNodes
  /\ phase = "main" /\ node = 0 /\ round = 0
  /\ messages = << >>

Message(i, p, vx, vw) == [from |-> i, to |-> p, x |-> vx, w |-> vw]

(* Mutant: the half that is sent is not taken away. *)
SendHalfKeepingAll(i, p) ==
  /\ messages' = Append(messages, Message(i, p, x[i] \div 2, w[i] \div 2))
  /\ UNCHANGED <<x, w, flowsX, flowsW>>

(* PushSumNode.main_loop: half of what it has is sent, half is kept.       *)
SendHalf(i, p) ==
  /\ messages' = Append(messages, Message(i, p, x[i] \div 2, w[i] \div 2))
  /\ x' = [x EXCEPT ![i] = @ \div 2] /\ w' = [w EXCEPT ![i] = @ \div 2]
  /\ UNCHANGED <<flowsX, flowsW>>

(* PushFlowNode.main_loop: half of what it has is moved into the flow to   *)
(* p, and the flow is sent.                                                *)
SendFlow(i, p) ==
  LET fx == flowsX[i][p] + OwnX(i) \div 2
      fw == flowsW[i][p] + OwnW(i) \div 2
  IN  /\ flowsX' = [flowsX EXCEPT ![i][p] = fx]
      /\ flowsW' = [flowsW EXCEPT ![i][p] = fw]
      /\ messages' = Append(messages, Message(i, p, fx, fw))
      /\ UNCHANGED <<x, w>>

MainLoop ==
  /\ phase = "main" /\ node < graph.n /\ round < Rounds[graph.kind]
  /\ \E p \in Nodes :
       /\ GetRandomNeighbor(node, p)
       /\ \/ p = node /\ UNCHANGED <<x, w, flowsX, flowsW, messages>>
          \/ p # node /\ alg = "PushSum" /\ SendHalf(node, p)
          \/ p # node /\ alg = "PushFlow" /\ SendFlow(node, p)
  /\ node' = node + 1
  /\ UNCHANGED <<alg, lossy, phase, round>>

Survivors == IF lossy THEN SUBSET DOMAIN messages ELSE {DOMAIN messages}

LoseMessages ==
  /\ phase = "main" /\ node = graph.n
  /\ \E kept \in Survivors : messages' = Entries(messages, kept)
  /\ phase' = "deliver"
  /\ UNCHANGED <<choiceVars, alg, lossy, x, w, flowsX, flowsW, node,
                 round>>

(* Mutant: with the sign of push-flow. *)
AddHalfNegated(m) ==
  /\ x' = [x EXCEPT ![m.to] = @ - m.x] /\ w' = [w EXCEPT ![m.to] = @ - m.w]
  /\ UNCHANGED <<flowsX, flowsW>>
(* Mutant: the weight is forgotten. *)
AddHalfWithoutWeight(m) ==
  /\ x' = [x EXCEPT ![m.to] = @ + m.x]
  /\ UNCHANGED <<w, flowsX, flowsW>>

(* PushSumNode.on_update                                                   *)
AddHalf(m) ==
  /\ x' = [x EXCEPT ![m.to] = @ + m.x] /\ w' = [w EXCEPT ![m.to] = @ + m.w]
  /\ UNCHANGED <<flowsX, flowsW>>

(* Mutant: the flow is added to the one before. *)
MirrorFlowAdding(m) ==
  /\ flowsX' = [flowsX EXCEPT ![m.to][m.from] = @ - m.x]
  /\ flowsW' = [flowsW EXCEPT ![m.to][m.from] = @ - m.w]
  /\ UNCHANGED <<x, w>>

(* PushFlowNode.on_update: the opposite of the sender's flow, whatever was *)
(* there before.                                                           *)
MirrorFlow(m) ==
  /\ flowsX' = [flowsX EXCEPT ![m.to][m.from] = -m.x]
  /\ flowsW' = [flowsW EXCEPT ![m.to][m.from] = -m.w]
  /\ UNCHANGED <<x, w>>

OnUpdate ==
  /\ phase = "deliver" /\ messages # << >>
  /\ \/ alg = "PushSum" /\ AddHalf(Head(messages))
     \/ alg = "PushFlow" /\ MirrorFlow(Head(messages))
  /\ messages' = Tail(messages)
  /\ UNCHANGED <<choiceVars, alg, lossy, phase, node, round>>

(* The root mean square error that is recorded here is only plotted.       *)
EndRound ==
  /\ phase = "deliver" /\ messages = << >>
  /\ phase' = "main" /\ node' = 0 /\ round' = round + 1
  /\ UNCHANGED <<choiceVars, alg, lossy, x, w, flowsX, flowsW, messages>>

Next == MainLoop \/ LoseMessages \/ OnUpdate \/ EndRound

Spec == Init /\ [][Next]_avgVars

-----------------------------------------------------------------------------

TypeOK ==
  /\ ChoiceTypeOK
  /\ alg \in {"PushSum", "PushFlow"} /\ lossy \in BOOLEAN
  /\ x \in [Nodes -> Nat] /\ w \in [Nodes -> Nat]
  /\ \A i \in Nodes : /\ flowsX[i] \in [GetNeighbors(i) -> Int]
                      /\ flowsW[i] \in [GetNeighbors(i) -> Int]
  /\ phase \in {"main", "deliver"}
  /\ node \in 0 .. graph.n /\ round \in 0 .. Rounds[graph.kind]
  /\ messages \in Seq([from : Nodes, to : Nodes, x : Int, w : Int])

Values == {Value[i] : i \in Nodes}

(* Whatever is lost, a push-sum node is never left without weight, and its *)
(* estimate x / w stays between the smallest and the largest value: value  *)
(* and weight are halved, sent, lost and added together.                   *)
EstimatesInRange ==
  alg = "PushSum" =>
    \A i \in Nodes :
      w[i] > 0 /\ x[i] \in Min(Values) * w[i] .. Max(Values) * w[i]

=============================================================================
