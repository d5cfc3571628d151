-------------------------- MODULE AveragingProofs --------------------------
(***************************************************************************)
(* Proofs about push-sum and push-flow, for graphs of any size, any values *)
(* and any number of rounds, whatever messages are lost.                   *)
(*                                                                         *)
(* That push-sum conserves value and weight rests on exact halves, and so  *)
(* on how far a node has come in its round (FairInv).  That push-flow      *)
(* repairs a loss rests on what is under way on each edge (HealInv): the   *)
(* flow of the sender as it still is, since a node sends once per round.   *)
(***************************************************************************)
EXTENDS MCAveraging, CollectionProofs

(* A message goes along an edge. *)
Msg == {m \in [from : Nodes, to : Nodes, x : Int, w : Int] :
          m.to \in GetNeighbors(m.from) /\ m.from \in GetNeighbors(m.to)
            /\ m.from # m.to}

Flows == {f \in [Nodes -> UNION {[GetNeighbors(i) -> Int] : i \in Nodes}] :
            \A i \in Nodes : f[i] \in [GetNeighbors(i) -> Int]}

Typed ==
  /\ graph \in Graphs /\ ChoiceTypeOK
  /\ alg \in {"PushSum", "PushFlow"} /\ lossy \in BOOLEAN
  /\ x \in [Nodes -> Int] /\ w \in [Nodes -> Int]
  /\ flowsX \in Flows /\ flowsW \in Flows
  /\ phase \in {"main", "deliver"}
  /\ node \in 0 .. graph.n /\ round \in 0 .. Rounds[graph.kind]
  /\ messages \in Seq(Msg)
  /\ node > 0 => round < Rounds[graph.kind]
  /\ phase = "deliver" => node = graph.n
  /\ phase = "main" /\ node = 0 => messages = << >>

(* Value and weight of a node or message of push-sum: multiples of g, with *)
(* a quotient between l and h.                                             *)
Fair(l, h, vx, vw, g) ==
  /\ \E a \in Nat : vx = g * a
  /\ \E b \in Nat \ {0} : vw = g * b
  /\ l * vw <= vx /\ vx <= h * vw

(* A node that has run its main loop is one halving further.               *)
Level(i) == IF i < node THEN round + 1 ELSE round
GrainAt(r) == Grain[graph.kind][r]

FairInv ==
  /\ \A i \in Nodes :
       Fair(Min(Values), Max(Values), x[i], w[i], GrainAt(Level(i)))
  /\ \A k \in 1 .. Len(messages) :
       Fair(Min(Values), Max(Values), messages[k].x, messages[k].w,
            GrainAt(round + 1))

SumInv ==
  /\ Typed
  /\ alg = "PushSum" => FairInv
  /\ alg = "PushFlow" => x \in [Nodes -> Nat] /\ w \in [Nodes -> Nat]

ConservedInv == SumInv /\ lost \in [x : Int, w : Int] /\ MassConserved

(* The two flows of an edge cancel.                                        *)
Cancel(i, q) == /\ flowsX[i][q] + flowsX[q][i] = 0
                /\ flowsW[i][q] + flowsW[q][i] = 0

(* The message tells the flow of its sender.                               *)
Current(m) == m.x = flowsX[m.from][m.to] /\ m.w = flowsW[m.from][m.to]

On(e) == {k \in 1 .. Len(messages) : Edge(messages[k]) = e}

(* One message, and no other, is under way on the edge.                    *)
Alone(e) == \E k \in On(e) : On(e) = {k} /\ Current(messages[k])

HealInv ==
  /\ x = [i \in Nodes |-> Value[i] * Unit] /\ w = [i \in Nodes |-> Unit]
  /\ phase = "main" =>
       /\ \A k \in 1 .. Len(messages) :
            messages[k].from < node /\ Current(messages[k])
       /\ \A i \in Nodes : \A q \in GetNeighbors(i) :
            {i, q} \in dirty \/ Cancel(i, q) \/ On({i, q}) # {}
  /\ phase = "deliver" =>
       \A i \in Nodes : \A q \in GetNeighbors(i) :
         \/ {i, q} \in dirty
         \/ Cancel(i, q) /\ On({i, q}) = {}
         \/ Alone({i, q})

FlowInv == Typed /\ (alg = "PushFlow" => HealInv)

-----------------------------------------------------------------------------
(* What holds of all graphs of the experiments. *)
LEMMA GraphFacts ==
  ASSUME graph \in Graphs
  PROVE  /\ graph.n \in Nat \ {0} /\ graph.kind \in {"K", "RG"}
         /\ Rounds[graph.kind] \in Nat /\ 0 \in Nodes
         /\ IsFiniteSet(Nodes) /\ Cardinality(Nodes) = graph.n
         /\ \A i \in Nodes : Value[i] \in Nat
         /\ \A i \in Nodes : NeighborChoices(i) \subseteq GetNeighbors(i) \cup {i}
         /\ \A i \in Nodes : \A q \in GetNeighbors(i) :
              q \in Nodes /\ q # i /\ i \in GetNeighbors(q)
         /\ ~Scheduled
<1>1. /\ graph.n \in Nat \ {0} /\ graph.kind \in {"K", "RG"} /\ graph.fixed = FALSE
      /\ graph.neighbors \in [Nodes -> SUBSET Nodes]
      /\ \A i \in Nodes : \A q \in graph.neighbors[i] :
           q # i /\ i \in graph.neighbors[q]
  BY GraphsAssumption DEF Nodes
<1>2. Rounds[graph.kind] \in Nat /\ \A i \in Nodes : Value[i] \in Nat
  BY <1>1, AveragingAssumption DEF Nodes
<1>3. IsFiniteSet(Nodes) /\ Cardinality(Nodes) = graph.n
  <2>1. 0 \in Int /\ graph.n - 1 \in Int
    BY <1>1
  <2>2. /\ IsFiniteSet(0 .. graph.n - 1)
        /\ Cardinality(0 .. graph.n - 1) = IF 0 <= graph.n - 1 THEN graph.n - 1 - 0 + 1 ELSE 0
    BY <2>1, FS_Interval
  <2> QED BY <1>1, <2>2 DEF Nodes
<1>4. \A i \in Nodes : NeighborChoices(i) \subseteq GetNeighbors(i) \cup {i}
  BY <1>1 DEF NeighborChoices, CompleteChoices, GeometricChoices, GetNeighbors
<1>5. ASSUME NEW i \in Nodes, NEW q \in GetNeighbors(i)
      PROVE  q \in Nodes /\ q # i /\ i \in GetNeighbors(q)
  BY <1>1 DEF GetNeighbors
<1>6. ~Scheduled
  BY <1>1 DEF Scheduled
<1>7. 0 \in Nodes
  BY <1>1 DEF Nodes
<1> QED BY <1>1, <1>2, <1>3, <1>4, <1>5, <1>6, <1>7

(* Each round halves the grain. *)
LEMMA GrainFacts ==
  ASSUME graph \in Graphs
  PROVE  /\ Unit = GrainAt(0) /\ Unit \in Nat \ {0}
         /\ \A r \in 0 .. Rounds[graph.kind] - 1 :
              /\ GrainAt(r) = 2 * GrainAt(r + 1)
              /\ GrainAt(r + 1) \in Nat \ {0}
<1>1. graph.kind \in {"K", "RG"} /\ Rounds[graph.kind] \in Nat
  BY GraphFacts
<1>2. /\ \A r \in 0 .. Rounds[graph.kind] : Grain[graph.kind][r] \in Nat \ {0}
      /\ \A r \in 1 .. Rounds[graph.kind] : Grain[graph.kind][r - 1] = 2 * Grain[graph.kind][r]
  BY <1>1, GrainAssumption
<1>3. Unit = GrainAt(0) /\ Unit \in Nat \ {0}
  BY <1>1, <1>2 DEF Unit, GrainAt
<1>4. ASSUME NEW r \in 0 .. Rounds[graph.kind] - 1
      PROVE  GrainAt(r) = 2 * GrainAt(r + 1) /\ GrainAt(r + 1) \in Nat \ {0}
  <2>1. r + 1 \in 1 .. Rounds[graph.kind] /\ r + 1 \in 0 .. Rounds[graph.kind] /\ r + 1 - 1 = r
    BY <1>1
  <2> QED BY <1>2, <2>1 DEF GrainAt
<1> QED BY <1>3, <1>4

(* The values are numbers between their least and their greatest.          *)
LEMMA ValueFacts ==
  ASSUME graph \in Graphs
  PROVE  /\ Min(Values) \in Nat /\ Max(Values) \in Nat
         /\ \A i \in Nodes : Min(Values) <= Value[i] /\ Value[i] <= Max(Values)
<1>1. IsFiniteSet(Values)
  <2> DEFINE f == [i \in Nodes |-> Value[i]]
  <2>1. f \in Surjection(Nodes, Values)
    BY DEF Values, Surjection
  <2>2. IsFiniteSet(Nodes)
    BY GraphFacts
  <2> HIDE DEF f
  <2> QED BY <2>1, <2>2, FS_Surjection
<1>2. /\ Values \in SUBSET Int /\ Values \subseteq Nat /\ Values # {}
      /\ \A i \in Nodes : Value[i] \in Values
  BY GraphFacts DEF Values
<1>3. /\ \E v \in Values : \A y \in Values : v <= y
      /\ \E v \in Values : \A y \in Values : y <= v
  <2> DEFINE S == Values
  <2>1. S \in SUBSET Int /\ IsFiniteSet(S) /\ S \in SUBSET S /\ S # {}
    BY <1>1, <1>2
  <2> HIDE DEF S
  <2>2. /\ \E v \in S : \A y \in S : v <= y
        /\ \E v \in S : \A y \in S : y <= v
    BY <2>1, Extremes
  <2> QED BY <2>2 DEF S
<1>4. Min(Values) \in Values /\ \A y \in Values : Min(Values) <= y
  BY <1>3 DEF Min
<1>5. Max(Values) \in Values /\ \A y \in Values : Max(Values) >= y
  BY <1>2, <1>3 DEF Max
<1> QED BY <1>2, <1>4, <1>5

(* One flow changes, and no other. *)
LEMMA FlowChange ==
  ASSUME graph \in Graphs, NEW f \in Flows, NEW i \in Nodes,
         NEW p \in GetNeighbors(i), NEW v \in Int, NEW g,
         g = [f EXCEPT ![i][p] = v]
  PROVE  /\ g \in Flows /\ g[i][p] = v
         /\ \A j \in Nodes : \A q \in GetNeighbors(j) :
              <<j, q>> # <<i, p>> => g[j][q] = f[j][q]
<1>1. /\ f \in [Nodes -> UNION {[GetNeighbors(j) -> Int] : j \in Nodes}]
      /\ \A j \in Nodes : f[j] \in [GetNeighbors(j) -> Int]
  BY DEF Flows
<1>2. [f[i] EXCEPT ![p] = v] \in [GetNeighbors(i) -> Int]
  BY <1>1
<1>3. g = [f EXCEPT ![i] = [f[i] EXCEPT ![p] = v]]
  OBVIOUS
<1>4. /\ g[i] = [f[i] EXCEPT ![p] = v]
      /\ \A j \in Nodes : j # i => g[j] = f[j]
  BY <1>1, <1>3
<1>5. g \in [Nodes -> UNION {[GetNeighbors(j) -> Int] : j \in Nodes}]
  BY <1>1, <1>2, <1>3
<1>6. \A j \in Nodes : g[j] \in [GetNeighbors(j) -> Int]
  BY <1>1, <1>2, <1>4
<1> QED BY <1>1, <1>2, <1>4, <1>5, <1>6 DEF Flows

(* The sums of flows are numbers. *)
LEMMA OwnType ==
  ASSUME Typed, NEW i \in Nodes
  PROVE  /\ SumFlows(flowsX, i) \in Int /\ SumFlows(flowsW, i) \in Int
         /\ OwnX(i) \in Int /\ OwnW(i) \in Int
<1>1. IsFiniteSet(GetNeighbors(i))
  BY GraphFacts, FS_Subset DEF Typed
<1>2. /\ \A q \in GetNeighbors(i) : flowsX[i][q] \in Int
      /\ \A q \in GetNeighbors(i) : flowsW[i][q] \in Int
  BY DEF Typed, Flows
<1>3. SumFlows(flowsX, i) \in Int
  <2> DEFINE S == GetNeighbors(i)
             f == flowsX[i]
  <2>1. IsFiniteSet(S) /\ \A q \in S : f[q] \in Int
    BY <1>1, <1>2
  <2> HIDE DEF S, f
  <2>2. SumFunctionOnSet(f, S) \in Int
    BY <2>1, SumWithout
  <2> QED BY <2>2 DEF S, f, SumFlows
<1>4. SumFlows(flowsW, i) \in Int
  <2> DEFINE S == GetNeighbors(i)
             f == flowsW[i]
  <2>1. IsFiniteSet(S) /\ \A q \in S : f[q] \in Int
    BY <1>1, <1>2
  <2> HIDE DEF S, f
  <2>2. SumFunctionOnSet(f, S) \in Int
    BY <2>1, SumWithout
  <2> QED BY <2>2 DEF S, f, SumFlows
<1>5. x[i] \in Int /\ w[i] \in Int
  BY DEF Typed
<1> QED BY <1>3, <1>4, <1>5 DEF OwnX, OwnW

-----------------------------------------------------------------------------
(* Typed holds at the start. *)
LEMMA InitTyped == Init => Typed
<1> SUFFICES ASSUME Init PROVE Typed
  OBVIOUS
<1>1. /\ graph \in Graphs
      /\ picks = [s \in Schedules |-> << >>] /\ ptr = [s \in Schedules |-> -1]
  BY DEF Init, ChoiceInit
<1>2. ChoiceTypeOK
  <2>1. /\ graph.kind \in {"K", "RG"} /\ graph.n \in Nat \ {0} /\ graph.fixed = FALSE
        /\ graph.neighbors \in [Nodes -> SUBSET Nodes]
    BY <1>1, GraphsAssumption DEF Nodes
  <2>2. ScheduleLength \in Nat
    <3>1. ASSUME NEW k \in Nat PROVE Log2(k) \in Nat
      <4>1. IsFiniteSet(1 .. k)
        BY FS_Interval
      <4>2. IsFiniteSet({e \in 1 .. k : 2^e <= k})
        BY <4>1, FS_Subset
      <4> QED BY <4>2, FS_CardinalityType DEF Log2
    <3>2. graph.n * graph.n \in Nat
      BY <2>1
    <3>3. Log2(graph.n) \in Nat /\ Log2(graph.n * graph.n) \in Nat
      BY <2>1, <3>1, <3>2
    <3>4. Factor["K"] \in Nat /\ Factor["RG"] \in Nat
      BY FactorAssumption
    <3>5. \A a, b, c \in Nat : a * b * c \in Nat
      OBVIOUS
    <3>6. \A a, b \in Nat : a * b \in Nat
      OBVIOUS
    <3> QED BY <2>1, <3>3, <3>4, <3>5, <3>6 DEF ScheduleLength
  <2>3. \A s \in Schedules : Len(picks[s]) = 0 /\ ptr[s] = -1
    BY <1>1
  <2>4. picks \in [Schedules -> Seq(Nodes)] /\ ptr \in [Schedules -> Int]
    BY <1>1
  <2>5. \A s \in Schedules : Len(picks[s]) <= ScheduleLength /\ ptr[s] \in -1 .. Len(picks[s]) - 1
    BY <2>2, <2>3
  <2> QED BY <2>1, <2>4, <2>5 DEF ChoiceTypeOK
<1>3. /\ x = [i \in Nodes |-> Value[i] * Unit] /\ w = [i \in Nodes |-> Unit]
      /\ flowsX = [i \in Nodes |-> [q \in GetNeighbors(i) |-> 0]] /\ flowsW = flowsX
  BY DEF Init, NewNodes
<1>4. x \in [Nodes -> Int] /\ w \in [Nodes -> Int]
  <2>1. \A i \in Nodes : Value[i] \in Nat
    BY <1>1, GraphFacts
  <2>2. Unit \in Nat
    BY <1>1, GrainFacts
  <2>3. \A a, b \in Nat : a * b \in Int
    OBVIOUS
  <2> HIDE DEF Unit
  <2> QED BY <1>3, <2>1, <2>2, <2>3
<1>5. flowsX \in Flows
  <2>1. \A i \in Nodes : flowsX[i] \in [GetNeighbors(i) -> Int]
    BY <1>3
  <2>2. flowsX \in [Nodes -> UNION {[GetNeighbors(i) -> Int] : i \in Nodes}]
    BY <1>3, <2>1
  <2> QED BY <2>1, <2>2 DEF Flows
<1>6. graph.n \in Nat /\ Rounds[graph.kind] \in Nat
  BY <1>1, GraphFacts
<1>7. messages = << >> /\ messages \in Seq(Msg)
  BY DEF Init
<1>8. /\ alg \in {"PushSum", "PushFlow"} /\ lossy \in BOOLEAN
      /\ phase = "main" /\ node = 0 /\ round = 0
  BY DEF Init, TestPushSumMsgLoss, TestPushFlowVsPushSum
<1> QED BY <1>1, <1>2, <1>3, <1>4, <1>5, <1>6, <1>7, <1>8 DEF Typed

(* The graph is the same all the time, and so is all that depends on it.   *)
LEMMA GraphStep ==
  ASSUME Typed, [Next]_avgVars
  PROVE  /\ UNCHANGED <<graph, picks, ptr, alg, lossy>> /\ ChoiceTypeOK'
         /\ Nodes' = Nodes /\ Flows' = Flows /\ Msg' = Msg /\ Unit' = Unit
         /\ Values' = Values
         /\ Rounds[graph.kind]' = Rounds[graph.kind]
<1>1. ~Scheduled
  BY GraphFacts DEF Typed
<1>2. UNCHANGED <<graph, picks, ptr>>
  BY <1>1 DEF Next, MainLoop, LoseMessages, OnUpdate, EndRound, avgVars, choiceVars,
              GetRandomNeighbor, ScheduledNeighbor
<1>3. UNCHANGED <<alg, lossy>>
  BY DEF Next, MainLoop, LoseMessages, OnUpdate, EndRound, avgVars
<1>4. Nodes' = Nodes
  BY <1>2 DEF Nodes
<1>5. ChoiceTypeOK'
  BY <1>2, <1>4 DEF Typed, ChoiceTypeOK, Schedules, ScheduleLength
<1>6. Flows' = Flows
  BY <1>2, <1>4 DEF Flows, GetNeighbors
<1>7. Msg' = Msg
  BY <1>2, <1>4 DEF Msg, GetNeighbors
<1> QED BY <1>2, <1>3, <1>4, <1>5, <1>6, <1>7 DEF Unit, Values

(* In the main loop a node sends to a neighbor, or nothing.                *)
LEMMA MainLoopCases ==
  ASSUME Typed, MainLoop
  PROVE  /\ phase = "main" /\ phase' = "main" /\ node \in Nodes /\ node' = node + 1
         /\ round < Rounds[graph.kind] /\ round' = round
         /\ \/ UNCHANGED <<x, w, flowsX, flowsW, messages>>
            \/ \E p \in GetNeighbors(node) :
                 \/ alg = "PushSum" /\ SendHalf(node, p)
                 \/ alg = "PushFlow" /\ SendFlow(node, p)
<1>1. node \in Nodes
  BY GraphFacts DEF Typed, MainLoop, Nodes
<1>2. PICK p \in Nodes :
        /\ GetRandomNeighbor(node, p)
        /\ \/ p = node /\ UNCHANGED <<x, w, flowsX, flowsW, messages>>
           \/ p # node /\ alg = "PushSum" /\ SendHalf(node, p)
           \/ p # node /\ alg = "PushFlow" /\ SendFlow(node, p)
  BY DEF MainLoop
<1>3. p \in GetNeighbors(node) \/ p = node
  <2>1. ~Scheduled /\ NeighborChoices(node) \subseteq GetNeighbors(node) \cup {node}
    BY <1>1, GraphFacts DEF Typed
  <2> QED BY <1>2, <2>1 DEF GetRandomNeighbor, ScheduledNeighbor
<1> QED BY <1>1, <1>2, <1>3 DEF MainLoop

(* What a message has in it. *)
LEMMA MessageType ==
  ASSUME graph \in Graphs, NEW i \in Nodes, NEW p \in GetNeighbors(i),
         NEW vx \in Int, NEW vw \in Int
  PROVE  /\ Message(i, p, vx, vw) \in Msg
         /\ Message(i, p, vx, vw).from = i /\ Message(i, p, vx, vw).to = p
         /\ Message(i, p, vx, vw).x = vx /\ Message(i, p, vx, vw).w = vw
<1>1. p \in Nodes /\ p # i /\ i \in GetNeighbors(p)
  BY GraphFacts
<1> QED BY <1>1 DEF Message, Msg

(* Halves and flows are numbers, and a message goes to a neighbor. *)
LEMMA MainLoopTyped ==
  ASSUME Typed, MainLoop
  PROVE  Typed'
<1>1. /\ phase = "main" /\ phase' = "main" /\ node \in Nodes /\ node' = node + 1
      /\ round < Rounds[graph.kind] /\ round' = round
  BY MainLoopCases
<1>2. /\ UNCHANGED <<graph, alg, lossy>> /\ ChoiceTypeOK' /\ Nodes' = Nodes
      /\ Flows' = Flows /\ Msg' = Msg /\ Rounds[graph.kind]' = Rounds[graph.kind]
  BY GraphStep DEF Next
<1>3. graph.n \in Nat /\ Rounds[graph.kind] \in Nat
  BY GraphFacts DEF Typed
<1>4. node' \in 1 .. graph.n
  BY <1>1, <1>3 DEF Nodes
<1>5. /\ x' \in [Nodes -> Int] /\ w' \in [Nodes -> Int]
      /\ flowsX' \in Flows /\ flowsW' \in Flows /\ messages' \in Seq(Msg)
  <2>1. CASE UNCHANGED <<x, w, flowsX, flowsW, messages>>
    BY <2>1 DEF Typed
  <2>2. ASSUME NEW p \in GetNeighbors(node), SendHalf(node, p)
        PROVE  /\ x' \in [Nodes -> Int] /\ w' \in [Nodes -> Int]
               /\ flowsX' \in Flows /\ flowsW' \in Flows /\ messages' \in Seq(Msg)
    <3>1. x[node] \div 2 \in Int /\ w[node] \div 2 \in Int
      BY <1>1 DEF Typed
    <3>2. Message(node, p, x[node] \div 2, w[node] \div 2) \in Msg
      BY <1>1, <3>1, MessageType DEF Typed
    <3>3. messages' \in Seq(Msg)
      BY <2>2, <3>2, AppendProperties DEF SendHalf, Typed
    <3>4. x' \in [Nodes -> Int] /\ w' \in [Nodes -> Int]
      BY <2>2, <1>1, <3>1 DEF SendHalf, Typed
    <3> QED BY <2>2, <3>3, <3>4 DEF SendHalf, Typed
  <2>3. ASSUME NEW p \in GetNeighbors(node), SendFlow(node, p)
        PROVE  /\ x' \in [Nodes -> Int] /\ w' \in [Nodes -> Int]
               /\ flowsX' \in Flows /\ flowsW' \in Flows /\ messages' \in Seq(Msg)
    <3> DEFINE fx == flowsX[node][p] + OwnX(node) \div 2
               fw == flowsW[node][p] + OwnW(node) \div 2
    <3>1. flowsX[node][p] \in Int /\ flowsW[node][p] \in Int
      BY <1>1 DEF Typed, Flows
    <3>2. OwnX(node) \in Int /\ OwnW(node) \in Int
      BY <1>1, OwnType
    <3>3. fx \in Int /\ fw \in Int
      BY <3>1, <3>2
    <3>4. /\ flowsX' = [flowsX EXCEPT ![node][p] = fx]
          /\ flowsW' = [flowsW EXCEPT ![node][p] = fw]
          /\ messages' = Append(messages, Message(node, p, fx, fw))
          /\ UNCHANGED <<x, w>>
      BY <2>3 DEF SendFlow
    <3> HIDE DEF fx, fw
    <3>5. flowsX' \in Flows /\ flowsW' \in Flows
      BY <1>1, <3>3, <3>4, FlowChange DEF Typed
    <3>6. Message(node, p, fx, fw) \in Msg
      BY <1>1, <3>3, MessageType DEF Typed
    <3>7. messages' \in Seq(Msg)
      BY <3>4, <3>6, AppendProperties DEF Typed
    <3> QED BY <3>4, <3>5, <3>7 DEF Typed
  <2> QED BY <2>1, <2>2, <2>3, MainLoopCases
<1> QED BY <1>1, <1>2, <1>3, <1>4, <1>5 DEF Typed

(* What is left after the losses was sent: each message that arrives is at *)
(* a position of its own of the messages that were sent.                   *)
LEMMA LossStep ==
  ASSUME Typed, LoseMessages
  PROVE  /\ messages' \in Seq(Msg)
         /\ \E at \in [1 .. Len(messages') -> 1 .. Len(messages)] :
              \A k \in 1 .. Len(messages') : messages'[k] = messages[at[k]]
<1>1. PICK kept \in SUBSET DOMAIN messages : messages' = Entries(messages, kept)
  BY DEF LoseMessages, Survivors
<1>2. messages \in Seq(Msg) /\ DOMAIN messages = 1 .. Len(messages) /\ Len(messages) \in Nat
  BY LenProperties DEF Typed
<1>3. kept \in SUBSET (1 .. Len(messages))
  BY <1>1, <1>2
<1>4. Cardinality(kept) \in Nat
  <2>1. IsFiniteSet(1 .. Len(messages))
    BY <1>2, FS_Interval
  <2> QED BY <1>3, <2>1, FS_Subset, FS_CardinalityType
<1> DEFINE n == Cardinality(kept)
<1>5. PICK at \in [1 .. n -> kept] :
        /\ \A j, k \in 1 .. n : at[j] = at[k] => j = k
        /\ \A i \in kept : \E j \in 1 .. n : at[j] = i
        /\ \A j \in 1 .. n : Entries(messages, kept)[j] = messages[at[j]]
  BY <1>2, <1>3, EntriesAt
<1>6. \A k \in 1 .. Len(messages) : messages[k] \in Msg
  BY <1>2, ElementOfSeq
<1>7. \A j \in 1 .. Cardinality(kept) : messages'[j] = messages[at[j]] /\ messages'[j] \in Msg
  BY <1>1, <1>3, <1>5, <1>6
<1>8. messages' \in [1 .. Cardinality(kept) -> Msg]
  <2>1. messages' = [j \in 1 .. Cardinality(kept) |-> messages'[j]]
    BY <1>1 DEF Entries
  <2> QED BY <1>7, <2>1
<1>9. messages' \in Seq(Msg) /\ Len(messages') = Cardinality(kept)
  BY <1>4, <1>8, SeqDef, LenProperties
<1>10. at \in [1 .. Len(messages') -> 1 .. Len(messages)]
  BY <1>3, <1>5, <1>9
<1> QED BY <1>7, <1>9, <1>10

(* on_update takes the first message and leaves the others. *)
LEMMA UpdateCases ==
  ASSUME Typed, OnUpdate
  PROVE  /\ phase = "deliver" /\ phase' = "deliver" /\ UNCHANGED <<node, round>>
         /\ Len(messages) \in Nat \ {0}
         /\ messages' \in Seq(Msg) /\ Len(messages') = Len(messages) - 1
         /\ \A k \in 1 .. Len(messages') : messages'[k] = messages[k + 1]
         /\ messages[1] \in Msg
         /\ \/ alg = "PushSum" /\ AddHalf(messages[1])
            \/ alg = "PushFlow" /\ MirrorFlow(messages[1])
<1>1. messages \in Seq(Msg) /\ messages # << >> /\ messages' = Tail(messages)
  BY DEF OnUpdate, Typed
<1>2. Len(messages) \in Nat \ {0} /\ Head(messages) = messages[1]
  BY <1>1, EmptySeq, LenProperties, HeadTailProperties
<1>3. /\ messages' \in Seq(Msg) /\ Len(messages') = Len(messages) - 1
      /\ \A k \in 1 .. Len(messages') : messages'[k] = messages[k + 1]
  BY <1>1, HeadTailProperties
<1>4. messages[1] \in Msg
  BY <1>1, <1>2, ElementOfSeq
<1> QED BY <1>2, <1>3, <1>4 DEF OnUpdate

(* A message adds to one node, or sets one flow of its receiver. *)
LEMMA UpdateTyped ==
  ASSUME Typed, OnUpdate
  PROVE  Typed'
<1>1. /\ UNCHANGED <<graph, alg, lossy>> /\ ChoiceTypeOK' /\ Nodes' = Nodes
      /\ Flows' = Flows /\ Msg' = Msg /\ Rounds[graph.kind]' = Rounds[graph.kind]
  BY GraphStep DEF Next
<1>2. PICK m \in Msg : m = messages[1]
  BY UpdateCases
<1>3. /\ m.from \in Nodes /\ m.to \in Nodes /\ m.x \in Int /\ m.w \in Int
      /\ m.from \in GetNeighbors(m.to)
  BY DEF Msg
<1>4. /\ x' \in [Nodes -> Int] /\ w' \in [Nodes -> Int]
      /\ flowsX' \in Flows /\ flowsW' \in Flows
  <2>1. CASE AddHalf(m)
    <3>1. x[m.to] + m.x \in Int /\ w[m.to] + m.w \in Int
      BY <1>3 DEF Typed
    <3> QED BY <2>1, <1>3, <3>1 DEF AddHalf, Typed
  <2>2. CASE MirrorFlow(m)
    <3>1. /\ flowsX' = [flowsX EXCEPT ![m.to][m.from] = -m.x]
          /\ flowsW' = [flowsW EXCEPT ![m.to][m.from] = -m.w]
          /\ -m.x \in Int /\ -m.w \in Int
      BY <2>2, <1>3 DEF MirrorFlow
    <3>2. ASSUME NEW f \in Flows, NEW v \in Int, NEW g, g = [f EXCEPT ![m.to][m.from] = v]
          PROVE  g \in Flows
      <4>1. graph \in Graphs
        BY DEF Typed
      <4> QED BY <1>3, <3>2, <4>1, FlowChange
    <3>3. flowsX \in Flows /\ flowsW \in Flows
      BY DEF Typed
    <3>4. flowsX' \in Flows /\ flowsW' \in Flows
      BY <3>1, <3>2, <3>3
    <3> QED BY <2>2, <3>4 DEF MirrorFlow, Typed
  <2> QED BY <1>2, <2>1, <2>2, UpdateCases
<1> QED BY <1>1, <1>4, UpdateCases DEF Typed

(* Typed is inductive. *)
LEMMA NextTyped == Typed /\ [Next]_avgVars => Typed'
<1> SUFFICES ASSUME Typed, [Next]_avgVars PROVE Typed'
  OBVIOUS
<1>1. /\ UNCHANGED <<graph, alg, lossy>> /\ ChoiceTypeOK' /\ Nodes' = Nodes
      /\ Flows' = Flows /\ Msg' = Msg /\ Rounds[graph.kind]' = Rounds[graph.kind]
  BY GraphStep
<1>2. graph.n \in Nat \ {0} /\ Rounds[graph.kind] \in Nat
  BY GraphFacts DEF Typed
<1>3. CASE LoseMessages
  <2>1. node > 0 /\ round < Rounds[graph.kind]
    BY <1>2, <1>3 DEF Typed, LoseMessages
  <2>2. messages' \in Seq(Msg)
    BY <1>3, LossStep
  <2> QED BY <1>1, <1>3, <2>1, <2>2 DEF Typed, LoseMessages
<1>4. CASE EndRound
  <2>1. round < Rounds[graph.kind]
    BY <1>2, <1>4 DEF Typed, EndRound
  <2>2. round' \in 0 .. Rounds[graph.kind] /\ node' \in 0 .. graph.n
    BY <1>2, <1>4, <2>1 DEF Typed, EndRound
  <2> QED BY <1>1, <1>4, <2>2 DEF Typed, EndRound
<1>5. CASE UNCHANGED avgVars
  BY <1>1, <1>5 DEF Typed, avgVars
<1> QED BY <1>3, <1>4, <1>5, MainLoopTyped, UpdateTyped DEF Next

-----------------------------------------------------------------------------
(* Halving and adding keep the quotient within its bounds.                 *)
LEMMA HalfFair ==
  ASSUME NEW l \in Nat, NEW h \in Nat, NEW g \in Nat \ {0}, NEW vx, NEW vw,
         Fair(l, h, vx, vw, 2 * g)
  PROVE  /\ vx \in Nat /\ vw \in Nat \ {0}
         /\ vx = vx \div 2 + vx \div 2 /\ vw = vw \div 2 + vw \div 2
         /\ Fair(l, h, vx \div 2, vw \div 2, g)
<1>1. PICK a \in Nat, b \in Nat \ {0} : vx = 2 * g * a /\ vw = 2 * g * b
  BY DEF Fair
<1>2. PICK c \in Nat, d \in Nat \ {0} : c = g * a /\ d = g * b
  <2>1. \A k, n \in Nat : k * n \in Nat /\ (k # 0 /\ n # 0 => k * n # 0)
    OBVIOUS
  <2> QED BY <2>1
<1>3. vx = 2 * c /\ vw = 2 * d
  BY <1>1, <1>2
<1>4. vx \div 2 = c /\ vw \div 2 = d
  BY <1>3
<1>5. l * d <= c /\ c <= h * d
  <2>1. l * (2 * d) <= 2 * c /\ 2 * c <= h * (2 * d)
    BY <1>3 DEF Fair
  <2>2. PICK p \in Nat, q \in Nat : p = l * d /\ q = h * d
    OBVIOUS
  <2>3. l * (2 * d) = 2 * p /\ h * (2 * d) = 2 * q
    BY <2>2
  <2> QED BY <2>1, <2>2, <2>3
<1> QED BY <1>2, <1>3, <1>4, <1>5 DEF Fair

(* Value and weight of two that are fair are fair together. *)
LEMMA AddFair ==
  ASSUME NEW l \in Nat, NEW h \in Nat, NEW g \in Nat \ {0}, NEW vx, NEW vw, NEW ux, NEW uw,
         Fair(l, h, vx, vw, g), Fair(l, h, ux, uw, g)
  PROVE  Fair(l, h, vx + ux, vw + uw, g)
<1>1. PICK a \in Nat, b \in Nat \ {0} : vx = g * a /\ vw = g * b
  BY DEF Fair
<1>2. PICK c \in Nat, d \in Nat \ {0} : ux = g * c /\ uw = g * d
  BY DEF Fair
<1>3. vx + ux = g * (a + c) /\ vw + uw = g * (b + d) /\ a + c \in Nat /\ b + d \in Nat \ {0}
  BY <1>1, <1>2
<1>4. vw \in Nat /\ uw \in Nat /\ vx \in Nat /\ ux \in Nat
  BY <1>1, <1>2
<1>5. l * (vw + uw) <= vx + ux /\ vx + ux <= h * (vw + uw)
  <2>1. l * vw <= vx /\ vx <= h * vw /\ l * uw <= ux /\ ux <= h * uw
    BY DEF Fair
  <2>2. l * (vw + uw) = l * vw + l * uw /\ h * (vw + uw) = h * vw + h * uw
    BY <1>4
  <2>3. PICK p, q, r, s \in Nat : p = l * vw /\ q = l * uw /\ r = h * vw /\ s = h * uw
    BY <1>4
  <2> QED BY <1>4, <2>1, <2>2, <2>3
<1> QED BY <1>3, <1>5 DEF Fair

(* A node that has the value v of its own and the weight of one.           *)
LEMMA OneFair ==
  ASSUME NEW l \in Nat, NEW h \in Nat, NEW g \in Nat \ {0}, NEW v \in l .. h
  PROVE  Fair(l, h, v * g, g, g)
<1>1. v * g = g * v /\ g = g * 1 /\ v \in Nat
  OBVIOUS
<1>2. l * g <= v * g /\ v * g <= h * g
  <2>1. PICK a \in Nat, b \in Nat : v = l + a /\ h = v + b
    <3>1. v - l \in Nat /\ h - v \in Nat
      OBVIOUS
    <3> QED BY <3>1
  <2>2. (l + a) * g = l * g + a * g /\ (v + b) * g = v * g + b * g
    BY <1>1
  <2>3. PICK p, q, r, s \in Nat : p = l * g /\ q = a * g /\ r = v * g /\ s = b * g
    BY <1>1
  <2> QED BY <2>1, <2>2, <2>3
<1> QED BY <1>1, <1>2 DEF Fair

(* All weights are equal at the start. *)
LEMMA InitSum == Init => SumInv
<1> SUFFICES ASSUME Init PROVE SumInv
  OBVIOUS
<1>1. Typed /\ graph \in Graphs
  BY InitTyped DEF Typed
<1>2. /\ x = [i \in Nodes |-> Value[i] * Unit] /\ w = [i \in Nodes |-> Unit]
      /\ Len(messages) = 0 /\ node = 0 /\ round = 0
  BY DEF Init, NewNodes
<1>3. Unit = GrainAt(0) /\ Unit \in Nat \ {0}
  BY <1>1, GrainFacts
<1>4. /\ Min(Values) \in Nat /\ Max(Values) \in Nat
      /\ \A i \in Nodes : Value[i] \in Min(Values) .. Max(Values) /\ Value[i] \in Nat
  BY <1>1, ValueFacts, GraphFacts
<1>5. ASSUME NEW i \in Nodes
      PROVE  /\ Fair(Min(Values), Max(Values), x[i], w[i], GrainAt(Level(i)))
             /\ x[i] \in Nat /\ w[i] \in Nat
  <2>1. x[i] = Value[i] * Unit /\ w[i] = Unit
    BY <1>2
  <2>2. Level(i) = 0
    BY <1>2, GraphFacts, <1>1 DEF Level, Nodes
  <2>3. Fair(Min(Values), Max(Values), Value[i] * Unit, Unit, Unit)
    BY <1>3, <1>4, OneFair
  <2>4. \A a, b \in Nat : a * b \in Nat
    OBVIOUS
  <2>5. Value[i] * Unit \in Nat
    BY <1>3, <1>4, <2>4
  <2> QED BY <1>3, <2>1, <2>2, <2>3, <2>5
<1>6. x \in [Nodes -> Nat] /\ w \in [Nodes -> Nat]
  BY <1>1, <1>5 DEF Typed
<1> QED BY <1>1, <1>2, <1>5, <1>6 DEF SumInv, FairInv

(* The bounds do not move. *)
LEMMA BoundsStep ==
  ASSUME Typed, [Next]_avgVars
  PROVE  /\ Min(Values)' = Min(Values) /\ Max(Values)' = Max(Values)
         /\ \A r : GrainAt(r)' = GrainAt(r)
BY GraphStep DEF Min, Max, GrainAt

(* A node halves what it has, exactly. *)
LEMMA SendHalfFacts ==
  ASSUME Typed, FairInv, MainLoop, NEW p \in GetNeighbors(node), SendHalf(node, p)
  PROVE  /\ node \in Nodes /\ round \in 0 .. Rounds[graph.kind] - 1
         /\ \E hx, hw \in Nat :
              /\ x[node] = hx + hx /\ w[node] = hw + hw
              /\ Fair(Min(Values), Max(Values), hx, hw, GrainAt(round + 1))
              /\ x' = [x EXCEPT ![node] = hx] /\ w' = [w EXCEPT ![node] = hw]
              /\ \E m \in Msg : /\ m.x = hx /\ m.w = hw
                                /\ messages' = Append(messages, m)
<1>1. node \in Nodes /\ round \in 0 .. Rounds[graph.kind] - 1
  BY MainLoopCases, GraphFacts DEF Typed
<1>2. GrainAt(round) = 2 * GrainAt(round + 1) /\ GrainAt(round + 1) \in Nat \ {0}
  BY <1>1, GrainFacts DEF Typed
<1>3. Fair(Min(Values), Max(Values), x[node], w[node], 2 * GrainAt(round + 1))
  <2>1. Level(node) = round
    BY <1>1, GraphFacts DEF Level, Nodes, Typed
  <2> QED BY <1>1, <1>2, <2>1 DEF FairInv
<1> DEFINE hx == x[node] \div 2
           hw == w[node] \div 2
<1>4. Min(Values) \in Nat /\ Max(Values) \in Nat
  BY ValueFacts DEF Typed
<1>5. /\ x[node] \in Nat /\ w[node] \in Nat
      /\ x[node] = hx + hx /\ w[node] = hw + hw
      /\ Fair(Min(Values), Max(Values), hx, hw, GrainAt(round + 1))
  BY <1>2, <1>3, <1>4, HalfFair
<1>6. hx \in Nat /\ hw \in Nat
  BY <1>5
<1>7. /\ x' = [x EXCEPT ![node] = hx] /\ w' = [w EXCEPT ![node] = hw]
      /\ messages' = Append(messages, Message(node, p, hx, hw))
  BY DEF SendHalf
<1> HIDE DEF hx, hw
<1>8. /\ Message(node, p, hx, hw) \in Msg
      /\ Message(node, p, hx, hw).x = hx /\ Message(node, p, hx, hw).w = hw
  BY <1>1, <1>6, MessageType DEF Typed
<1> QED BY <1>1, <1>5, <1>6, <1>7, <1>8

(* What one half more leaves of FairInv. *)
LEMMA MainLoopFair ==
  ASSUME Typed, FairInv, MainLoop, alg = "PushSum"
  PROVE  FairInv'
<1> DEFINE lo == Min(Values)
           hi == Max(Values)
<1>1. /\ node \in Nodes /\ node' = node + 1 /\ round' = round
      /\ round \in 0 .. Rounds[graph.kind] - 1
  BY MainLoopCases, GraphFacts DEF Typed
<1>2. /\ Nodes' = Nodes /\ lo' = lo /\ hi' = hi
      /\ \A r : GrainAt(r)' = GrainAt(r)
  BY GraphStep, BoundsStep DEF Next
<1>3. /\ GrainAt(round) = 2 * GrainAt(round + 1) /\ GrainAt(round + 1) \in Nat \ {0}
      /\ lo \in Nat /\ hi \in Nat
  BY <1>1, GrainFacts, ValueFacts DEF Typed
<1>4. /\ \A i \in Nodes : i # node => Level(i)' = Level(i)
      /\ Level(node) = round
      /\ \A i \in Nodes : i = node => Level(i)' = round + 1
  BY <1>1, GraphFacts DEF Level, Nodes, Typed
<1>5. /\ \A i \in Nodes : Fair(lo, hi, x[i], w[i], GrainAt(Level(i)))
      /\ \A k \in 1 .. Len(messages) :
           Fair(lo, hi, messages[k].x, messages[k].w, GrainAt(round + 1))
  BY DEF FairInv
<1> HIDE DEF lo, hi
<1>6. Fair(lo, hi, x[node], w[node], 2 * GrainAt(round + 1))
  BY <1>1, <1>3, <1>4, <1>5
<1>7. CASE UNCHANGED <<x, w, messages>>
  <2>1. Fair(lo, hi, x[node], w[node], GrainAt(round + 1))
    <3>1. PICK a \in Nat, b \in Nat \ {0} :
            x[node] = 2 * GrainAt(round + 1) * a /\ w[node] = 2 * GrainAt(round + 1) * b
      BY <1>6 DEF Fair
    <3>2. /\ x[node] = GrainAt(round + 1) * (2 * a) /\ 2 * a \in Nat
          /\ w[node] = GrainAt(round + 1) * (2 * b) /\ 2 * b \in Nat \ {0}
      BY <1>3, <3>1
    <3> QED BY <1>6, <3>2 DEF Fair
  <2>2. \A i \in Nodes : Fair(lo, hi, x'[i], w'[i], GrainAt(Level(i)'))
    BY <1>1, <1>4, <1>5, <1>7, <2>1
  <2>3. \A i \in Nodes' : Fair(lo, hi, x[i], w[i], GrainAt(Level(i)))'
    BY <1>2, <2>2 DEF Fair
  <2>4. \A k \in 1 .. Len(messages') :
          Fair(lo, hi, messages[k].x, messages[k].w, GrainAt(round + 1))'
    BY <1>1, <1>2, <1>5, <1>7 DEF Fair
  <2> QED BY <1>2, <2>3, <2>4 DEF FairInv, lo, hi
<1>8. ASSUME NEW p \in GetNeighbors(node), SendHalf(node, p)
      PROVE  FairInv'
  <2>1. PICK hx \in Nat, hw \in Nat :
          /\ Fair(lo, hi, hx, hw, GrainAt(round + 1))
          /\ x' = [x EXCEPT ![node] = hx] /\ w' = [w EXCEPT ![node] = hw]
          /\ \E m \in Msg : m.x = hx /\ m.w = hw /\ messages' = Append(messages, m)
    BY <1>8, SendHalfFacts DEF lo, hi
  <2>2. PICK m \in Msg : m.x = hx /\ m.w = hw /\ messages' = Append(messages, m)
    BY <2>1
  <2>3. x \in [Nodes -> Int] /\ w \in [Nodes -> Int] /\ messages \in Seq(Msg)
    BY DEF Typed
  <2>4. ASSUME NEW i \in Nodes
        PROVE  Fair(lo, hi, x'[i], w'[i], GrainAt(Level(i)'))
    <3>1. CASE i = node
      BY <1>1, <1>4, <2>1, <2>3, <3>1
    <3>2. CASE i # node
      BY <1>1, <1>4, <1>5, <2>1, <2>3, <3>2
    <3> QED BY <3>1, <3>2
  <2>5. /\ Len(messages') = Len(messages) + 1 /\ Len(messages) \in Nat
        /\ \A k \in 1 .. Len(messages) : messages'[k] = messages[k]
        /\ messages'[Len(messages) + 1] = m
    BY <2>2, <2>3, AppendProperties, LenProperties
  <2>6. ASSUME NEW k \in 1 .. Len(messages')
        PROVE  Fair(lo, hi, messages'[k].x, messages'[k].w, GrainAt(round + 1))
    <3>1. CASE k = Len(messages) + 1
      BY <2>1, <2>2, <2>5, <3>1
    <3>2. CASE k # Len(messages) + 1
      <4>1. k \in 1 .. Len(messages)
        BY <2>5, <3>2
      <4> QED BY <1>5, <2>5, <4>1
    <3> QED BY <3>1, <3>2
  <2>7. \A i \in Nodes' : Fair(lo, hi, x[i], w[i], GrainAt(Level(i)))'
    BY <1>2, <2>4 DEF Fair
  <2>8. \A k \in 1 .. Len(messages') :
          Fair(lo, hi, messages[k].x, messages[k].w, GrainAt(round + 1))'
    BY <1>1, <1>2, <2>6 DEF Fair
  <2> QED BY <1>2, <2>7, <2>8 DEF FairInv, lo, hi
<1> QED BY <1>7, <1>8, MainLoopCases

(* Receiver and message have the same grain when they are added. *)
LEMMA UpdateFair ==
  ASSUME Typed, FairInv, OnUpdate, alg = "PushSum"
  PROVE  FairInv'
<1> DEFINE lo == Min(Values)
           hi == Max(Values)
           g == GrainAt(round + 1)
<1>1. PICK m \in Msg : /\ m = messages[1]
                       /\ x' = [x EXCEPT ![m.to] = @ + m.x]
                       /\ w' = [w EXCEPT ![m.to] = @ + m.w]
  BY UpdateCases DEF AddHalf
<1>2. m.to \in Nodes
  BY DEF Msg
<1>3. /\ Nodes' = Nodes /\ lo' = lo /\ hi' = hi
      /\ \A r : GrainAt(r)' = GrainAt(r)
  BY GraphStep, BoundsStep DEF Next
<1>4. /\ phase = "deliver" /\ UNCHANGED <<node, round>>
      /\ Len(messages) \in Nat \ {0} /\ Len(messages') = Len(messages) - 1
      /\ \A k \in 1 .. Len(messages') : messages'[k] = messages[k + 1]
  BY UpdateCases
<1>5. \A i \in Nodes : Level(i) = round + 1 /\ Level(i)' = round + 1
  <2>1. node = graph.n
    BY <1>4 DEF Typed
  <2> QED BY <1>3, <1>4, <2>1, GraphFacts DEF Level, Nodes, Typed
<1>6. round \in 0 .. Rounds[graph.kind] - 1
  <2>1. node > 0
    BY <1>4, GraphFacts DEF Typed
  <2> QED BY <2>1, GraphFacts DEF Typed
<1>7. g \in Nat \ {0} /\ lo \in Nat /\ hi \in Nat
  BY <1>6, GrainFacts, ValueFacts DEF Typed
<1>8. /\ \A i \in Nodes : Fair(lo, hi, x[i], w[i], g)
      /\ \A k \in 1 .. Len(messages) : Fair(lo, hi, messages[k].x, messages[k].w, g)
  BY <1>5 DEF FairInv
<1>9. g' = g
  BY <1>3, <1>4
<1> HIDE DEF lo, hi, g
<1>10. x \in [Nodes -> Int] /\ w \in [Nodes -> Int]
  BY DEF Typed
<1>11. ASSUME NEW i \in Nodes
       PROVE  Fair(lo, hi, x'[i], w'[i], g)
  <2>1. CASE i = m.to
    <3>1. Fair(lo, hi, m.x, m.w, g)
      BY <1>1, <1>4, <1>8
    <3>2. Fair(lo, hi, x[i] + m.x, w[i] + m.w, g)
      BY <1>7, <1>8, <3>1, AddFair
    <3>3. x'[i] = x[i] + m.x /\ w'[i] = w[i] + m.w
      BY <1>1, <1>10, <2>1
    <3> QED BY <3>2, <3>3
  <2>2. CASE i # m.to
    <3>1. x'[i] = x[i] /\ w'[i] = w[i]
      BY <1>1, <1>10, <2>2
    <3> QED BY <1>8, <3>1
  <2> QED BY <2>1, <2>2
<1>12. \A k \in 1 .. Len(messages') : Fair(lo, hi, messages'[k].x, messages'[k].w, g)
  <2>1. \A k \in 1 .. Len(messages') : k + 1 \in 1 .. Len(messages)
    BY <1>4
  <2> QED BY <1>4, <1>8, <2>1
<1>13. \A i \in Nodes' : Fair(lo, hi, x[i], w[i], g)'
  BY <1>3, <1>9, <1>11 DEF Fair
<1>14. \A k \in 1 .. Len(messages') : Fair(lo, hi, messages[k].x, messages[k].w, g)'
  BY <1>3, <1>9, <1>12 DEF Fair
<1>15. \A i \in Nodes : GrainAt(Level(i))' = g'
  BY <1>3, <1>4, <1>5 DEF g
<1> QED BY <1>3, <1>13, <1>14, <1>15 DEF FairInv, lo, hi, g

(* SumInv is inductive. *)
LEMMA NextSum == SumInv /\ [Next]_avgVars => SumInv'
<1> SUFFICES ASSUME SumInv, [Next]_avgVars PROVE SumInv'
  OBVIOUS
<1>1. Typed /\ Typed' /\ alg' = alg
  BY NextTyped, GraphStep DEF SumInv
<1>2. /\ Nodes' = Nodes /\ graph' = graph
      /\ Min(Values)' = Min(Values) /\ Max(Values)' = Max(Values)
      /\ \A r : GrainAt(r)' = GrainAt(r)
  BY <1>1, GraphStep, BoundsStep
<1>3. ASSUME alg = "PushFlow"
      PROVE  x' \in [Nodes' -> Nat] /\ w' \in [Nodes' -> Nat]
  <2>1. UNCHANGED <<x, w>>
    <3>1. CASE MainLoop
      <4>1. ASSUME NEW p \in GetNeighbors(node), SendFlow(node, p) PROVE UNCHANGED <<x, w>>
        BY <4>1 DEF SendFlow
      <4> QED BY <1>1, <1>3, <3>1, <4>1, MainLoopCases
    <3>2. CASE OnUpdate
      <4>1. ASSUME MirrorFlow(messages[1]) PROVE UNCHANGED <<x, w>>
        BY <4>1 DEF MirrorFlow
      <4> QED BY <1>1, <1>3, <3>2, <4>1, UpdateCases
    <3> QED BY <3>1, <3>2 DEF Next, LoseMessages, EndRound, avgVars
  <2> QED BY <1>2, <1>3, <2>1 DEF SumInv
<1>4. ASSUME alg = "PushSum" PROVE FairInv'
  <2>1. FairInv
    BY <1>4 DEF SumInv
  <2>2. CASE LoseMessages
    <3>1. UNCHANGED <<x, w, node, round>>
      BY <2>2 DEF LoseMessages
    <3>2. PICK at \in [1 .. Len(messages') -> 1 .. Len(messages)] :
            \A k \in 1 .. Len(messages') : messages'[k] = messages[at[k]]
      BY <1>1, <2>2, LossStep
    <3>3. \A k \in 1 .. Len(messages') :
            Fair(Min(Values), Max(Values), messages'[k].x, messages'[k].w, GrainAt(round + 1))
      BY <2>1, <3>2 DEF FairInv
    <3>4. \A k \in 1 .. Len(messages') :
            Fair(Min(Values), Max(Values), messages[k].x, messages[k].w, GrainAt(round + 1))'
      BY <1>2, <3>1, <3>3 DEF Fair
    <3>5. \A i \in Nodes' : Fair(Min(Values), Max(Values), x[i], w[i], GrainAt(Level(i)))'
      BY <1>2, <2>1, <3>1 DEF FairInv, Fair, Level
    <3> QED BY <3>4, <3>5 DEF FairInv
  <2>3. CASE EndRound
    <3>1. /\ UNCHANGED <<x, w, messages>> /\ messages = << >> /\ phase = "deliver"
          /\ node' = 0 /\ round' = round + 1
      BY <2>3 DEF EndRound
    <3>2. \A i \in Nodes : Level(i)' = Level(i)
      <4>1. node = graph.n
        BY <1>1, <3>1 DEF Typed
      <4> QED BY <1>1, <1>2, <3>1, <4>1, GraphFacts DEF Level, Nodes, Typed
    <3>3. \A i \in Nodes' : Fair(Min(Values), Max(Values), x[i], w[i], GrainAt(Level(i)))'
      BY <1>2, <2>1, <3>1, <3>2 DEF FairInv, Fair
    <3>4. Len(messages') = 0
      BY <3>1
    <3> QED BY <3>3, <3>4 DEF FairInv
  <2>4. CASE UNCHANGED avgVars
    BY <1>2, <2>1, <2>4 DEF avgVars, FairInv, Fair, Level
  <2> QED BY <1>1, <1>4, <2>1, <2>2, <2>3, <2>4, MainLoopFair, UpdateFair DEF Next
<1> QED BY <1>1, <1>3, <1>4 DEF SumInv

(* Averaging keeps its types: values and weights of push-sum are halved    *)
(* without a rest, flows are kept for each neighbor and no other node, and *)
(* messages go along edges.                                                *)
THEOREM TypeCorrect == Spec => []TypeOK
<1>1. SumInv => TypeOK
  <2> SUFFICES ASSUME SumInv PROVE TypeOK
    OBVIOUS
  <2>1. Typed
    BY DEF SumInv
  <2>2. x \in [Nodes -> Nat] /\ w \in [Nodes -> Nat]
    <3>1. CASE alg = "PushSum"
      <4>1. ASSUME NEW i \in Nodes PROVE x[i] \in Nat /\ w[i] \in Nat
        <5> DEFINE g == GrainAt(Level(i))
        <5>1. g \in Nat
          <6>1. Level(i) \in 0 .. Rounds[graph.kind]
            BY <2>1, GraphFacts DEF Level, Typed, Nodes
          <6> QED BY <2>1, <6>1, GraphFacts, GrainAssumption DEF GrainAt, Typed
        <5>2. PICK a \in Nat, b \in Nat : x[i] = g * a /\ w[i] = g * b
          BY <3>1 DEF SumInv, FairInv, Fair
        <5> HIDE DEF g
        <5>3. g * a \in Nat /\ g * b \in Nat
          BY <5>1
        <5> QED BY <5>2, <5>3
      <4> QED BY <2>1, <4>1 DEF Typed
    <3>2. CASE alg = "PushFlow"
      BY <3>2 DEF SumInv
    <3> QED BY <2>1, <3>1, <3>2 DEF Typed
  <2>3. messages \in Seq([from : Nodes, to : Nodes, x : Int, w : Int])
    <3>1. Msg \subseteq [from : Nodes, to : Nodes, x : Int, w : Int]
      BY DEF Msg
    <3> QED BY <2>1, <3>1, SeqMonotonic DEF Typed
  <2> QED BY <2>1, <2>2, <2>3 DEF TypeOK, Typed, Flows
<1> QED BY <1>1, InitSum, NextSum, PTL DEF Spec

(* Whatever is lost, no push-sum node is left without weight, and its      *)
(* estimate is between the smallest and the largest of the values.         *)
THEOREM EstimatesCorrect == Spec => []EstimatesInRange
<1>1. SumInv => EstimatesInRange
  <2> SUFFICES ASSUME SumInv, alg = "PushSum", NEW i \in Nodes
               PROVE  w[i] > 0 /\ x[i] \in Min(Values) * w[i] .. Max(Values) * w[i]
    BY DEF EstimatesInRange
  <2>1. Typed /\ x[i] \in Int
    BY DEF SumInv, Typed
  <2> DEFINE g == GrainAt(Level(i))
  <2>2. g \in Nat \ {0}
    <3>1. Level(i) \in 0 .. Rounds[graph.kind]
      BY <2>1, GraphFacts DEF Level, Typed, Nodes
    <3> QED BY <2>1, <3>1, GraphFacts, GrainAssumption DEF GrainAt, Typed
  <2>3. PICK b \in Nat \ {0} : w[i] = g * b
    BY DEF SumInv, FairInv, Fair
  <2>4. Min(Values) * w[i] <= x[i] /\ x[i] <= Max(Values) * w[i]
    BY DEF SumInv, FairInv, Fair
  <2> HIDE DEF g
  <2>5. w[i] \in Nat /\ w[i] > 0
    BY <2>2, <2>3
  <2>6. Min(Values) \in Nat /\ Max(Values) \in Nat
    BY <2>1, ValueFacts DEF Typed
  <2>7. Min(Values) * w[i] \in Int /\ Max(Values) * w[i] \in Int
    BY <2>5, <2>6
  <2> QED BY <2>1, <2>4, <2>5, <2>7
<1> QED BY <1>1, InitSum, NextSum, PTL DEF Spec

-----------------------------------------------------------------------------
(* The sums over a list of messages, when one is added at the end and when *)
(* the first is taken away.                                                *)
Numbers(M) == \A m \in M : m.x \in Int /\ m.w \in Int

(* The sums over messages are numbers. *)
LEMMA MessageSums ==
  ASSUME NEW M, Numbers(M), NEW s \in Seq(M)
  PROVE  /\ SumX(s) \in Int /\ SumW(s) \in Int
         /\ SumX(s) = SumFunctionOnSet([k \in 1 .. Len(s) |-> s[k].x], 1 .. Len(s))
         /\ SumW(s) = SumFunctionOnSet([k \in 1 .. Len(s) |-> s[k].w], 1 .. Len(s))
<1>1. DOMAIN s = 1 .. Len(s) /\ Len(s) \in Nat
  BY LenProperties
<1> DEFINE S == 1 .. Len(s)
           f == [k \in S |-> s[k].x]
           g == [k \in S |-> s[k].w]
<1>2. IsFiniteSet(S)
  BY <1>1, FS_Interval
<1>3. \A k \in S : f[k] \in Int /\ g[k] \in Int
  BY ElementOfSeq DEF Numbers
<1>4. SumX(s) = SumFunctionOnSet(f, S) /\ SumW(s) = SumFunctionOnSet(g, S)
  BY <1>1 DEF SumX, SumW, Total
<1>5. SumFunctionOnSet(f, S) \in Int /\ SumFunctionOnSet(g, S) \in Int
  <2> HIDE DEF S, f, g
  <2> QED BY <1>2, <1>3, SumWithout
<1> QED BY <1>4, <1>5

(* A message that is sent adds its value and weight. *)
LEMMA SumsAppend ==
  ASSUME NEW M, Numbers(M), NEW s \in Seq(M), NEW m \in M, NEW t, t = Append(s, m)
  PROVE  SumX(t) = SumX(s) + m.x /\ SumW(t) = SumW(s) + m.w
<1> DEFINE n == Len(s)
           f == [k \in 1 .. Len(s) |-> s[k].x]
           g == [k \in 1 .. Len(s) |-> s[k].w]
           ff == [k \in 1 .. Len(t) |-> t[k].x]
           gg == [k \in 1 .. Len(t) |-> t[k].w]
<1>1. /\ t \in Seq(M) /\ n \in Nat /\ Len(t) = n + 1
      /\ \A k \in 1 .. n : t[k] = s[k] /\ s[k] \in M
      /\ t[n + 1] = m
  BY AppendProperties, LenProperties, ElementOfSeq
<1>2. /\ \A k \in 1 .. n : /\ f[k] \in Int /\ ff[k] = f[k]
                           /\ g[k] \in Int /\ gg[k] = g[k]
      /\ ff[n + 1] = m.x /\ gg[n + 1] = m.w /\ ff[n + 1] \in Int /\ gg[n + 1] \in Int
  BY <1>1 DEF Numbers
<1>3. /\ SumX(s) = SumFunctionOnSet(f, 1 .. n) /\ SumX(t) = SumFunctionOnSet(ff, 1 .. n + 1)
      /\ SumW(s) = SumFunctionOnSet(g, 1 .. n) /\ SumW(t) = SumFunctionOnSet(gg, 1 .. n + 1)
  <2> HIDE DEF f, g, ff, gg
  <2>1. /\ SumX(s) = SumFunctionOnSet(f, 1 .. Len(s)) /\ SumX(t) = SumFunctionOnSet(ff, 1 .. Len(t))
        /\ SumW(s) = SumFunctionOnSet(g, 1 .. Len(s)) /\ SumW(t) = SumFunctionOnSet(gg, 1 .. Len(t))
    BY <1>1, MessageSums DEF f, g, ff, gg
  <2> QED BY <1>1, <2>1
<1> HIDE DEF f, g, ff, gg, n
<1>4. SumFunctionOnSet(ff, 1 .. n + 1) = SumFunctionOnSet(f, 1 .. n) + ff[n + 1]
  BY <1>1, <1>2, SumLast
<1>5. SumFunctionOnSet(gg, 1 .. n + 1) = SumFunctionOnSet(g, 1 .. n) + gg[n + 1]
  BY <1>1, <1>2, SumLast
<1> QED BY <1>2, <1>3, <1>4, <1>5

(* A message that is applied takes them away. *)
LEMMA SumsTail ==
  ASSUME NEW M, Numbers(M), NEW s \in Seq(M), NEW t \in Seq(M),
         Len(s) = Len(t) + 1, \A k \in 1 .. Len(t) : t[k] = s[k + 1]
  PROVE  SumX(s) = s[1].x + SumX(t) /\ SumW(s) = s[1].w + SumW(t)
<1> DEFINE n == Len(t)
           f == [k \in 1 .. Len(s) |-> s[k].x]
           g == [k \in 1 .. Len(s) |-> s[k].w]
           ff == [k \in 1 .. Len(t) |-> t[k].x]
           gg == [k \in 1 .. Len(t) |-> t[k].w]
<1>1. n \in Nat /\ \A k \in 1 .. n + 1 : s[k] \in M
  BY LenProperties, ElementOfSeq
<1>2. /\ \A k \in 1 .. n + 1 : f[k] \in Int /\ g[k] \in Int
      /\ \A k \in 1 .. n : k + 1 \in 1 .. n + 1
      /\ f[1] = s[1].x /\ g[1] = s[1].w
  BY <1>1 DEF Numbers
<1>3. \A k \in 1 .. n : ff[k] = f[k + 1] /\ gg[k] = g[k + 1]
  BY <1>1, <1>2
<1>4. /\ SumX(t) = SumFunctionOnSet(ff, 1 .. n) /\ SumX(s) = SumFunctionOnSet(f, 1 .. n + 1)
      /\ SumW(t) = SumFunctionOnSet(gg, 1 .. n) /\ SumW(s) = SumFunctionOnSet(g, 1 .. n + 1)
  <2> HIDE DEF f, g, ff, gg
  <2>1. /\ SumX(s) = SumFunctionOnSet(f, 1 .. Len(s)) /\ SumX(t) = SumFunctionOnSet(ff, 1 .. Len(t))
        /\ SumW(s) = SumFunctionOnSet(g, 1 .. Len(s)) /\ SumW(t) = SumFunctionOnSet(gg, 1 .. Len(t))
    BY MessageSums DEF f, g, ff, gg
  <2> QED BY <1>1, <2>1
<1> HIDE DEF f, g, ff, gg, n
<1>5. SumFunctionOnSet(f, 1 .. n + 1) = f[1] + SumFunctionOnSet(ff, 1 .. n)
  BY <1>1, <1>2, <1>3, SumFirst
<1>6. SumFunctionOnSet(g, 1 .. n + 1) = g[1] + SumFunctionOnSet(gg, 1 .. n)
  BY <1>1, <1>2, <1>3, SumFirst
<1> QED BY <1>2, <1>4, <1>5, <1>6

(* A total of numbers is a number. *)
LEMMA TotalType ==
  ASSUME NEW S, IsFiniteSet(S), NEW f \in [S -> Int]
  PROVE  Total(f) \in Int
<1>1. DOMAIN f = S /\ \A y \in S : f[y] \in Int
  OBVIOUS
<1> QED BY <1>1, SumWithout DEF Total

(* The total when one value changes. *)
LEMMA TotalChange ==
  ASSUME NEW S, IsFiniteSet(S), NEW f, NEW g, DOMAIN f = S, DOMAIN g = S, NEW a \in S,
         \A y \in S : f[y] \in Int /\ g[y] \in Int /\ (y # a => g[y] = f[y])
  PROVE  Total(g) = Total(f) - f[a] + g[a]
<1>1. SumFunctionOnSet(g, S) = SumFunctionOnSet(f, S) - f[a] + g[a]
  BY SumChange
<1> QED BY <1>1 DEF Total

(* At the start the values are all there is. *)
LEMMA InitTotals ==
  ASSUME graph \in Graphs
  PROVE  /\ Total([i \in Nodes |-> Value[i] * Unit]) = Unit * TotalValue
         /\ Total([i \in Nodes |-> Unit]) = Unit * graph.n
<1>1. /\ IsFiniteSet(Nodes) /\ Cardinality(Nodes) = graph.n /\ graph.n \in Nat
      /\ \A i \in Nodes : Value[i] \in Nat
  BY GraphFacts
<1>2. Unit \in Nat
  BY GrainFacts
<1> DEFINE S == Nodes
           u == Unit
           f == [i \in S |-> Value[i]]
           g == [i \in S |-> Value[i] * u]
           c == [i \in S |-> u]
<1>3. \A i \in S : f[i] \in Int /\ g[i] = u * f[i] /\ c[i] = u
  BY <1>1, <1>2
<1>4. DOMAIN f = S /\ DOMAIN g = S /\ DOMAIN c = S
  OBVIOUS
<1>5. Total(f) = TotalValue
  BY DEF TotalValue
<1>6. IsFiniteSet(S) /\ u \in Int /\ Cardinality(S) = graph.n
  BY <1>1, <1>2
<1> HIDE DEF S, u, f, g, c
<1>7. SumFunctionOnSet(g, S) = u * SumFunctionOnSet(f, S)
  BY <1>3, <1>6, SumTimes
<1>8. SumFunctionOnSet(c, S) = Cardinality(S) * u
  BY <1>3, <1>6, SumConstant
<1>9. Total(g) = u * TotalValue /\ Total(c) = u * graph.n
  BY <1>1, <1>4, <1>5, <1>6, <1>7, <1>8 DEF Total
<1> QED BY <1>9 DEF S, u, g, c

-----------------------------------------------------------------------------
(* Messages have numbers in them. *)
LEMMA MsgNumbers == Numbers(Msg)
BY DEF Numbers, Msg

(* Nothing is lost at the start. *)
LEMMA InitConserved == MCInit => ConservedInv
<1> SUFFICES ASSUME MCInit PROVE ConservedInv
  OBVIOUS
<1>1. SumInv /\ Typed /\ graph \in Graphs
  BY InitSum DEF MCInit, SumInv, Typed
<1>2. /\ x = [i \in Nodes |-> Value[i] * Unit] /\ w = [i \in Nodes |-> Unit]
      /\ messages = << >> /\ lost = [x |-> 0, w |-> 0]
  BY DEF MCInit, Init, NewNodes
<1>3. SumX(messages) = 0 /\ SumW(messages) = 0
  BY <1>2, SumEmpty DEF SumX, SumW, Total
<1>4. Total(x) = Unit * TotalValue /\ Total(w) = Unit * graph.n
  BY <1>1, <1>2, InitTotals
<1>5. Total(x) \in Int /\ Total(w) \in Int
  <2>1. x \in [Nodes -> Int] /\ w \in [Nodes -> Int] /\ IsFiniteSet(Nodes)
    BY <1>1, GraphFacts DEF Typed
  <2> QED BY <2>1, TotalType
<1>6. /\ Total(x) + SumX(messages) + lost.x = Unit * TotalValue
      /\ Total(w) + SumW(messages) + lost.w = Unit * graph.n
  BY <1>2, <1>3, <1>4, <1>5
<1> QED BY <1>1, <1>2, <1>6 DEF ConservedInv, MassConserved

(* ConservedInv is inductive: a half that is sent is not kept, and the     *)
(* history variable takes what is lost.                                    *)
LEMMA NextConserved == ConservedInv /\ [MCNext]_mcVars => ConservedInv'
<1> SUFFICES ASSUME ConservedInv, [MCNext]_mcVars PROVE ConservedInv'
  OBVIOUS
<1>1. [Next]_avgVars /\ SumInv /\ Typed /\ SumInv'
  BY NextSum DEF ConservedInv, SumInv, MCNext, mcVars, avgVars
<1>2. /\ Nodes' = Nodes /\ graph' = graph /\ alg' = alg /\ Unit' = Unit
      /\ TotalValue' = TotalValue /\ Msg' = Msg
  BY <1>1, GraphStep DEF TotalValue, Total
<1>3. /\ messages \in Seq(Msg) /\ messages' \in Seq(Msg) /\ IsFiniteSet(Nodes)
      /\ x \in [Nodes -> Int] /\ w \in [Nodes -> Int] /\ lost \in [x : Int, w : Int]
      /\ x' \in [Nodes -> Int] /\ w' \in [Nodes -> Int]
  BY <1>1, <1>2, GraphFacts DEF ConservedInv, SumInv, Typed
<1>0. IsFiniteSet(Nodes)
  BY <1>3
<1>4. /\ SumX(messages) \in Int /\ SumW(messages) \in Int
      /\ SumX(messages') \in Int /\ SumW(messages') \in Int
  <2>1. PICK s \in Seq(Msg), t \in Seq(Msg) : s = messages /\ t = messages'
    BY <1>3
  <2>2. SumX(s) \in Int /\ SumW(s) \in Int /\ SumX(t) \in Int /\ SumW(t) \in Int
    BY MsgNumbers, MessageSums
  <2> QED BY <2>1, <2>2
<1>5. Total(x) \in Int /\ Total(w) \in Int
  BY <1>3, TotalType
<1>6. ASSUME alg = "PushSum"
      PROVE  /\ lost' \in [x : Int, w : Int]
             /\ Total(x') + SumX(messages') + lost'.x = Total(x) + SumX(messages) + lost.x
             /\ Total(w') + SumW(messages') + lost'.w = Total(w) + SumW(messages) + lost.w
  <2>1. CASE MainLoop
    <3>1. lost' = lost
      <4>1. phase' # "deliver"
        BY <1>1, <2>1, MainLoopCases
      <4> QED BY <4>1 DEF MCNext, mcVars
    <3>2. ASSUME NEW p \in GetNeighbors(node), SendHalf(node, p)
          PROVE  /\ Total(x') + SumX(messages') = Total(x) + SumX(messages)
                 /\ Total(w') + SumW(messages') = Total(w) + SumW(messages)
      <4>1. PICK hx \in Nat, hw \in Nat :
              /\ x[node] = hx + hx /\ w[node] = hw + hw
              /\ x' = [x EXCEPT ![node] = hx] /\ w' = [w EXCEPT ![node] = hw]
              /\ \E m \in Msg : m.x = hx /\ m.w = hw /\ messages' = Append(messages, m)
        BY <1>1, <1>6, <2>1, <3>2, SendHalfFacts DEF SumInv
      <4>2. PICK m \in Msg : m.x = hx /\ m.w = hw /\ messages' = Append(messages, m)
        BY <4>1
      <4>3. node \in Nodes /\ hx \in Int /\ hw \in Int
        BY <1>1, <2>1, MainLoopCases
      <4>4. Total(x') = Total(x) - x[node] + hx
        <5>1. PICK f \in [Nodes -> Int], g \in [Nodes -> Int], n \in Nodes :
                f = x /\ g = x' /\ n = node
          BY <1>2, <1>3, <4>3
        <5>2. /\ DOMAIN f = Nodes /\ DOMAIN g = Nodes
              /\ \A y \in Nodes : f[y] \in Int /\ g[y] \in Int /\ (y # n => g[y] = f[y])
          BY <4>1, <5>1
        <5>3. g[n] = hx
          BY <4>1, <5>1
        <5>4. Total(g) = Total(f) - f[n] + g[n]
          BY <1>0, <5>2, TotalChange
        <5> QED BY <5>1, <5>3, <5>4
      <4>5. Total(w') = Total(w) - w[node] + hw
        <5>1. PICK f \in [Nodes -> Int], g \in [Nodes -> Int], n \in Nodes :
                f = w /\ g = w' /\ n = node
          BY <1>2, <1>3, <4>3
        <5>2. /\ DOMAIN f = Nodes /\ DOMAIN g = Nodes
              /\ \A y \in Nodes : f[y] \in Int /\ g[y] \in Int /\ (y # n => g[y] = f[y])
          BY <4>1, <5>1
        <5>3. g[n] = hw
          BY <4>1, <5>1
        <5>4. Total(g) = Total(f) - f[n] + g[n]
          BY <1>0, <5>2, TotalChange
        <5> QED BY <5>1, <5>3, <5>4
      <4>6. SumX(messages') = SumX(messages) + hx /\ SumW(messages') = SumW(messages) + hw
        <5>1. PICK s \in Seq(Msg), t \in Seq(Msg) : s = messages /\ t = messages'
          BY <1>3
        <5>2. SumX(t) = SumX(s) + m.x /\ SumW(t) = SumW(s) + m.w
          BY <4>2, <5>1, MsgNumbers, SumsAppend
        <5> QED BY <4>2, <5>1, <5>2
      <4>7. Total(x') + SumX(messages') = Total(x) + SumX(messages)
        BY <1>4, <1>5, <4>1, <4>3, <4>4, <4>6
      <4>8. Total(w') + SumW(messages') = Total(w) + SumW(messages)
        BY <1>4, <1>5, <4>1, <4>3, <4>5, <4>6
      <4> QED BY <4>7, <4>8
    <3>3. CASE UNCHANGED <<x, w, messages>>
      BY <1>3, <3>1, <3>3
    <3>4. ASSUME NEW p \in GetNeighbors(node), SendHalf(node, p)
          PROVE  /\ Total(x') + SumX(messages') + lost'.x = Total(x) + SumX(messages) + lost.x
                 /\ Total(w') + SumW(messages') + lost'.w = Total(w) + SumW(messages) + lost.w
      BY <3>1, <3>2, <3>4
    <3> QED BY <1>1, <1>3, <1>6, <2>1, <3>1, <3>3, <3>4, MainLoopCases
  <2>2. CASE LoseMessages
    <3>1. /\ UNCHANGED <<x, w>>
          /\ lost' = [x |-> lost.x + SumX(messages) - SumX(messages'),
                      w |-> lost.w + SumW(messages) - SumW(messages')]
      <4>1. phase = "main" /\ phase' = "deliver" /\ UNCHANGED <<x, w>>
        BY <2>2 DEF LoseMessages
      <4>2. phase # phase'
        BY <4>1
      <4> QED BY <4>1, <4>2 DEF MCNext, mcVars, avgVars
    <3>2. lost.x \in Int /\ lost.w \in Int
      BY <1>3
    <3> QED BY <1>4, <1>5, <3>1, <3>2
  <2>3. CASE OnUpdate
    <3>1. PICK m \in Msg : /\ m = messages[1]
                           /\ x' = [x EXCEPT ![m.to] = @ + m.x]
                           /\ w' = [w EXCEPT ![m.to] = @ + m.w]
      BY <1>1, <1>6, <2>3, UpdateCases DEF AddHalf
    <3>2. m.to \in Nodes /\ m.x \in Int /\ m.w \in Int
      BY DEF Msg
    <3>3. x[m.to] \in Int /\ w[m.to] \in Int
      BY <1>3, <3>2
    <3>4. Total(x') = Total(x) - x[m.to] + (x[m.to] + m.x)
      <4>1. PICK f \in [Nodes -> Int], g \in [Nodes -> Int], n \in Nodes :
              f = x /\ g = x' /\ n = m.to
        BY <1>2, <1>3, <3>2
      <4>2. /\ DOMAIN f = Nodes /\ DOMAIN g = Nodes
            /\ \A y \in Nodes : f[y] \in Int /\ g[y] \in Int /\ (y # n => g[y] = f[y])
        BY <3>1, <4>1
      <4>3. g[n] = x[m.to] + m.x
        BY <3>1, <4>1
      <4>4. Total(g) = Total(f) - f[n] + g[n]
        BY <1>0, <4>2, TotalChange
      <4> QED BY <4>1, <4>3, <4>4
    <3>5. Total(w') = Total(w) - w[m.to] + (w[m.to] + m.w)
      <4>1. PICK f \in [Nodes -> Int], g \in [Nodes -> Int], n \in Nodes :
              f = w /\ g = w' /\ n = m.to
        BY <1>2, <1>3, <3>2
      <4>2. /\ DOMAIN f = Nodes /\ DOMAIN g = Nodes
            /\ \A y \in Nodes : f[y] \in Int /\ g[y] \in Int /\ (y # n => g[y] = f[y])
        BY <3>1, <4>1
      <4>3. g[n] = w[m.to] + m.w
        BY <3>1, <4>1
      <4>4. Total(g) = Total(f) - f[n] + g[n]
        BY <1>0, <4>2, TotalChange
      <4> QED BY <4>1, <4>3, <4>4
    <3>6. SumX(messages) = m.x + SumX(messages') /\ SumW(messages) = m.w + SumW(messages')
      <4>1. PICK s \in Seq(Msg), t \in Seq(Msg) : s = messages /\ t = messages'
        BY <1>3
      <4>2. Len(s) = Len(t) + 1 /\ \A k \in 1 .. Len(t) : t[k] = s[k + 1]
        BY <1>1, <2>3, <4>1, UpdateCases
      <4>3. SumX(s) = s[1].x + SumX(t) /\ SumW(s) = s[1].w + SumW(t)
        BY <4>2, MsgNumbers, SumsTail
      <4> QED BY <3>1, <4>1, <4>3
    <3>7. lost' = lost
      <4>1. phase = "deliver"
        BY <2>3 DEF OnUpdate
      <4> QED BY <4>1 DEF MCNext, mcVars
    <3>8. lost.x \in Int /\ lost.w \in Int
      BY <1>3
    <3>9. lost' \in [x : Int, w : Int]
      BY <1>3, <3>7
    <3>10. Total(x') + SumX(messages') + lost.x = Total(x) + SumX(messages) + lost.x
      BY <1>4, <1>5, <3>2, <3>3, <3>4, <3>6, <3>8
    <3>11. Total(w') + SumW(messages') + lost.w = Total(w) + SumW(messages) + lost.w
      BY <1>4, <1>5, <3>2, <3>3, <3>5, <3>6, <3>8
    <3> QED BY <3>7, <3>9, <3>10, <3>11
  <2>4. CASE EndRound \/ UNCHANGED avgVars
    <3>1. UNCHANGED <<x, w, messages>> /\ lost' = lost
      BY <2>4 DEF EndRound, MCNext, mcVars, avgVars
    <3> QED BY <1>3, <3>1
  <2> QED BY <1>1, <2>1, <2>2, <2>3, <2>4 DEF Next
<1>7. ASSUME alg # "PushSum" PROVE lost' \in [x : Int, w : Int]
  <2>1. lost.x \in Int /\ lost.w \in Int
    BY <1>3
  <2>2. \/ lost' = lost
        \/ lost' = [x |-> lost.x + SumX(messages) - SumX(messages'),
                    w |-> lost.w + SumW(messages) - SumW(messages')]
    BY DEF MCNext, mcVars
  <2> QED BY <1>3, <1>4, <2>1, <2>2
<1>8. ASSUME alg = "PushSum" PROVE MassConserved'
  BY <1>2, <1>6, <1>8 DEF ConservedInv, MassConserved
<1> QED BY <1>1, <1>2, <1>6, <1>7, <1>8 DEF ConservedInv, MassConserved

(* Push-sum loses value and weight only with the messages it loses.        *)
THEOREM MassIsConserved == MCSpec => []MassConserved
<1>1. ConservedInv => MassConserved
  BY DEF ConservedInv
<1> QED BY <1>1, InitConserved, NextConserved, PTL DEF MCSpec

-----------------------------------------------------------------------------
(* If the two flows of each edge cancel, the flows of all nodes add up to  *)
(* nothing.                                                                *)
LEMMA FlowsCancel ==
  ASSUME graph \in Graphs, NEW f \in Flows,
         \A i \in Nodes : \A q \in GetNeighbors(i) : f[i][q] + f[q][i] = 0
  PROVE  /\ \A i \in Nodes : SumFlows(f, i) \in Int
         /\ SumFunctionOnSet([i \in Nodes |-> SumFlows(f, i)], Nodes) = 0
<1> DEFINE S == Nodes
           N(i) == GetNeighbors(i)
           a == [i \in S |-> [q \in S |-> IF q \in N(i) THEN f[i][q] ELSE 0]]
<1>1. /\ IsFiniteSet(S)
      /\ \A i \in S : N(i) \in SUBSET S /\ \A q \in N(i) : i \in N(q)
  BY GraphFacts
<1>2. \A i \in S : \A q \in N(i) : f[i][q] \in Int
  BY DEF Flows
<1>3. \A i, q \in S : /\ q \in N(i) => a[i][q] = f[i][q]
                      /\ q \notin N(i) => a[i][q] = 0
  OBVIOUS
<1>4. Opposite(a, S)
  <2> SUFFICES ASSUME NEW i \in S, NEW q \in S
               PROVE  a[i][q] \in Int /\ a[i][q] + a[q][i] = 0
    BY DEF Opposite
  <2>1. CASE q \in N(i)
    <3>1. i \in N(q)
      BY <1>1, <2>1
    <3>2. a[i][q] = f[i][q] /\ a[q][i] = f[q][i]
      BY <1>3, <2>1, <3>1
    <3>3. f[i][q] + f[q][i] = 0
      BY <2>1
    <3> HIDE DEF a
    <3> QED BY <1>2, <2>1, <3>2, <3>3
  <2>2. CASE q \notin N(i)
    <3>1. i \notin N(q)
      BY <1>1, <2>2
    <3>2. a[i][q] = 0 /\ a[q][i] = 0
      BY <1>3, <2>2, <3>1
    <3> HIDE DEF a
    <3> QED BY <3>2
  <2> QED BY <2>1, <2>2
<1>5. ASSUME NEW i \in S
      PROVE  SumFlows(f, i) \in Int /\ SumFunctionOnSet(a[i], S) = SumFlows(f, i)
  <2>1. PICK b, g, T : b = a[i] /\ g = f[i] /\ T = N(i)
    OBVIOUS
  <2>2. T \in SUBSET S /\ IsFiniteSet(T)
    BY <1>1, <2>1, FS_Subset
  <2>3. \A q \in S : b[q] \in Int /\ (q \notin T => b[q] = 0)
    BY <1>2, <1>3, <2>1
  <2>4. \A q \in T : b[q] \in Int /\ b[q] = g[q]
    BY <1>1, <1>3, <2>1, <2>3
  <2> HIDE DEF a, S
  <2>5. SumFunctionOnSet(b, S) = SumFunctionOnSet(b, T)
    BY <1>1, <2>2, <2>3, SumPadded
  <2>6. SumFunctionOnSet(b, T) = SumFunctionOnSet(g, T)
    BY <2>2, <2>4, SumEqual
  <2>7. SumFunctionOnSet(b, T) \in Int
    <3>1. \A q \in T : b[q] \in Int
      BY <2>4
    <3> QED BY <2>2, <3>1, SumWithout
  <2> QED BY <2>1, <2>5, <2>6, <2>7 DEF SumFlows
<1>6. [i \in S |-> SumFunctionOnSet(a[i], S)] = [i \in S |-> SumFlows(f, i)]
  <2> HIDE DEF a, S
  <2> QED BY <1>5
<1>7. SumFunctionOnSet([i \in S |-> SumFunctionOnSet(a[i], S)], S) = 0
  <2> HIDE DEF a, S
  <2> QED BY <1>1, <1>4, SumOpposites
<1> HIDE DEF a, S
<1>8. SumFunctionOnSet([i \in S |-> SumFlows(f, i)], S) = 0
  BY <1>6, <1>7
<1> QED BY <1>5, <1>8 DEF S

(* Then the shares of the nodes add up to what the nodes started with.     *)
LEMMA SharesAddUp ==
  ASSUME graph \in Graphs, NEW f \in Flows, NEW v \in [Nodes -> Int],
         \A i \in Nodes : \A q \in GetNeighbors(i) : f[i][q] + f[q][i] = 0
  PROVE  Total([i \in Nodes |-> v[i] - SumFlows(f, i)]) = Total(v)
<1> DEFINE S == Nodes
           g == [i \in S |-> SumFlows(f, i)]
           h == [i \in S |-> v[i] - SumFlows(f, i)]
<1>1. /\ IsFiniteSet(S) /\ SumFunctionOnSet(g, S) = 0
      /\ \A i \in S : SumFlows(f, i) \in Int
  BY GraphFacts, FlowsCancel
<1>2. /\ DOMAIN v = S /\ DOMAIN h = S
      /\ \A i \in S : g[i] \in Int /\ h[i] \in Int /\ v[i] = h[i] + g[i]
  BY <1>1
<1> HIDE DEF S, g, h
<1>3. SumFunctionOnSet(v, S) = SumFunctionOnSet(h, S) + SumFunctionOnSet(g, S)
  BY <1>1, <1>2, SumPlus
<1>4. SumFunctionOnSet(h, S) \in Int
  <2>1. \A i \in S : h[i] \in Int
    BY <1>2
  <2> QED BY <1>1, <2>1, SumWithout
<1>5. Total(h) = Total(v)
  BY <1>1, <1>2, <1>3, <1>4 DEF Total
<1> QED BY <1>5 DEF h, S

-----------------------------------------------------------------------------
(* All flows are 0 at the start. *)
LEMMA InitHeal == MCInit => FlowInv
<1> SUFFICES ASSUME MCInit PROVE FlowInv
  OBVIOUS
<1>1. Typed /\ graph \in Graphs
  BY InitTyped DEF MCInit, Typed
<1>2. /\ x = [i \in Nodes |-> Value[i] * Unit] /\ w = [i \in Nodes |-> Unit]
      /\ flowsX = [i \in Nodes |-> [q \in GetNeighbors(i) |-> 0]] /\ flowsW = flowsX
      /\ phase = "main" /\ Len(messages) = 0
  BY DEF MCInit, Init, NewNodes
<1>3. ASSUME NEW i \in Nodes, NEW q \in GetNeighbors(i) PROVE Cancel(i, q)
  <2>1. q \in Nodes /\ i \in GetNeighbors(q)
    BY <1>1, GraphFacts
  <2>2. flowsX[i][q] = 0 /\ flowsX[q][i] = 0
    BY <1>2, <2>1
  <2> QED BY <1>2, <2>2 DEF Cancel
<1> QED BY <1>1, <1>2, <1>3 DEF FlowInv, HealInv

(* A node that sends changes one flow, and tells it.                       *)
LEMMA MainLoopHeal ==
  ASSUME Typed, HealInv, MainLoop, alg = "PushFlow", UNCHANGED dirty
  PROVE  HealInv'
<1>1. /\ phase = "main" /\ phase' = "main" /\ node \in Nodes /\ node' = node + 1
  BY MainLoopCases
<1>2. Nodes' = Nodes /\ graph' = graph /\ Unit' = Unit /\ messages \in Seq(Msg)
  BY GraphStep DEF Next, Typed
<1>3. /\ \A i \in Nodes : GetNeighbors(i)' = GetNeighbors(i)
      /\ \A i \in Nodes : \A q \in GetNeighbors(i) : q \in Nodes /\ i \in GetNeighbors(q)
  BY <1>2, GraphFacts DEF GetNeighbors, Typed
<1>4. /\ \A k \in 1 .. Len(messages) : messages[k].from < node /\ Current(messages[k])
      /\ \A i \in Nodes : \A q \in GetNeighbors(i) :
           {i, q} \in dirty \/ Cancel(i, q) \/ On({i, q}) # {}
      /\ x = [i \in Nodes |-> Value[i] * Unit] /\ w = [i \in Nodes |-> Unit]
  BY <1>1 DEF HealInv
<1>5. node \in Int /\ \A k \in 1 .. Len(messages) :
        messages[k].from \in Nodes /\ messages[k].from \in Int
  <2>1. \A k \in 1 .. Len(messages) : messages[k] \in Msg
    BY <1>2, ElementOfSeq
  <2> QED BY <1>1, <2>1 DEF Msg, Nodes
<1>6. CASE UNCHANGED <<x, w, flowsX, flowsW, messages>>
  <2>1. \A k \in 1 .. Len(messages') :
          messages'[k].from < node' /\ Current(messages[k])'
    BY <1>1, <1>4, <1>5, <1>6 DEF Current
  <2>2. \A i \in Nodes' : \A q \in GetNeighbors(i)' :
          {i, q} \in dirty' \/ Cancel(i, q)' \/ On({i, q})' # {}
    <3>1. \A i \in Nodes : \A q \in GetNeighbors(i) :
            Cancel(i, q)' = Cancel(i, q) /\ On({i, q})' = On({i, q})
      BY <1>6 DEF Cancel, On
    <3>2. \A i \in Nodes : \A q \in GetNeighbors(i) :
            {i, q} \in dirty' \/ Cancel(i, q)' \/ On({i, q})' # {}
      BY <1>4, <3>1
    <3> QED BY <1>2, <1>3, <3>2
  <2> QED BY <1>1, <1>2, <1>4, <1>6, <2>1, <2>2 DEF HealInv
<1>7. ASSUME NEW p \in GetNeighbors(node), SendFlow(node, p)
      PROVE  HealInv'
  <2>1. PICK fx \in Int, fw \in Int :
          /\ flowsX' = [flowsX EXCEPT ![node][p] = fx]
          /\ flowsW' = [flowsW EXCEPT ![node][p] = fw]
          /\ messages' = Append(messages, Message(node, p, fx, fw))
    <3>1. flowsX[node][p] \in Int /\ flowsW[node][p] \in Int
      BY <1>1 DEF Typed, Flows
    <3>2. OwnX(node) \in Int /\ OwnW(node) \in Int
      BY <1>1, OwnType
    <3>3. flowsX[node][p] + OwnX(node) \div 2 \in Int /\ flowsW[node][p] + OwnW(node) \div 2 \in Int
      BY <3>1, <3>2
    <3> QED BY <1>7, <3>3 DEF SendFlow
  <2>2. /\ flowsX'[node][p] = fx /\ flowsW'[node][p] = fw
        /\ \A i \in Nodes : \A q \in GetNeighbors(i) : <<i, q>> # <<node, p>> =>
             flowsX'[i][q] = flowsX[i][q] /\ flowsW'[i][q] = flowsW[i][q]
    <3>1. graph \in Graphs /\ node \in Nodes
      BY <1>1 DEF Typed
    <3>2. ASSUME NEW f \in Flows, NEW g, NEW v \in Int, g = [f EXCEPT ![node][p] = v]
          PROVE  /\ g[node][p] = v
                 /\ \A i \in Nodes : \A q \in GetNeighbors(i) :
                      <<i, q>> # <<node, p>> => g[i][q] = f[i][q]
      BY <3>1, <3>2, FlowChange
    <3>3. PICK f \in Flows, ff \in Flows : f = flowsX /\ ff = flowsW
      BY DEF Typed
    <3>0. PICK g, gg : g = flowsX' /\ gg = flowsW'
      OBVIOUS
    <3>4. g = [f EXCEPT ![node][p] = fx] /\ gg = [ff EXCEPT ![node][p] = fw]
      BY <2>1, <3>0, <3>3
    <3>5. /\ g[node][p] = fx
          /\ \A i \in Nodes : \A q \in GetNeighbors(i) :
               <<i, q>> # <<node, p>> => g[i][q] = f[i][q]
      BY <3>2, <3>4
    <3>6. /\ gg[node][p] = fw
          /\ \A i \in Nodes : \A q \in GetNeighbors(i) :
               <<i, q>> # <<node, p>> => gg[i][q] = ff[i][q]
      BY <3>2, <3>4
    <3> QED BY <3>0, <3>3, <3>5, <3>6
  <2>3. PICK m \in Msg : /\ m = Message(node, p, fx, fw)
                         /\ m.from = node /\ m.to = p /\ m.x = fx /\ m.w = fw
    BY <1>1, MessageType DEF Typed
  <2>4. /\ Len(messages') = Len(messages) + 1 /\ Len(messages) \in Nat
        /\ \A k \in 1 .. Len(messages) : messages'[k] = messages[k] /\ messages[k] \in Msg
        /\ messages'[Len(messages) + 1] = m
    BY <1>2, <2>1, <2>3, AppendProperties, LenProperties, ElementOfSeq
  <2>5. ASSUME NEW k \in 1 .. Len(messages')
        PROVE  messages'[k].from < node' /\ Current(messages[k])'
    <3>1. CASE k = Len(messages) + 1
      BY <1>1, <1>5, <2>2, <2>3, <2>4, <3>1 DEF Current
    <3>2. CASE k # Len(messages) + 1
      <4>1. PICK u \in Msg : u = messages[k] /\ u = messages'[k] /\ k \in 1 .. Len(messages)
        BY <2>4, <3>2
      <4>2. u.from < node /\ u.from # node /\ u.from \in Nodes /\ u.to \in GetNeighbors(u.from)
            /\ u.from \in Int
        <5>1. u.from < node /\ u.from \in Int
          BY <1>4, <1>5, <4>1
        <5>2. u.from \in Nodes /\ u.to \in GetNeighbors(u.from)
          BY DEF Msg
        <5> QED BY <1>5, <5>1, <5>2
      <4>3. u.x = flowsX[u.from][u.to] /\ u.w = flowsW[u.from][u.to]
        BY <1>4, <4>1 DEF Current
      <4>4. u.x = flowsX'[u.from][u.to] /\ u.w = flowsW'[u.from][u.to]
        BY <2>2, <4>2, <4>3
      <4> QED BY <1>1, <1>5, <4>1, <4>2, <4>4 DEF Current
    <3> QED BY <3>1, <3>2
  <2>6. ASSUME NEW i \in Nodes, NEW q \in GetNeighbors(i)
        PROVE  {i, q} \in dirty' \/ Cancel(i, q)' \/ On({i, q})' # {}
    <3>1. CASE {i, q} = {node, p}
      <4>1. Len(messages) + 1 \in 1 .. Len(messages')
        BY <2>4
      <4>2. Edge(messages'[Len(messages) + 1]) = {i, q}
        BY <2>3, <2>4, <3>1 DEF Edge
      <4> QED BY <4>1, <4>2 DEF On
    <3>2. CASE {i, q} # {node, p}
      <4>1. <<i, q>> # <<node, p>> /\ <<q, i>> # <<node, p>>
        BY <3>2
      <4>2. Cancel(i, q) => Cancel(i, q)'
        <5>1. /\ flowsX'[i][q] = flowsX[i][q] /\ flowsW'[i][q] = flowsW[i][q]
              /\ flowsX'[q][i] = flowsX[q][i] /\ flowsW'[q][i] = flowsW[q][i]
          BY <1>3, <2>2, <4>1
        <5> QED BY <5>1 DEF Cancel
      <4>3. On({i, q}) \subseteq On({i, q})'
        BY <2>4 DEF On
      <4> QED BY <1>4, <4>2, <4>3
    <3> QED BY <3>1, <3>2
  <2>7. UNCHANGED <<x, w>>
    BY <1>7 DEF SendFlow
  <2> QED BY <1>1, <1>2, <1>3, <1>4, <2>5, <2>6, <2>7 DEF HealInv
<1> QED BY <1>6, <1>7, MainLoopCases

(* When the messages are sent, the flow of an edge on which nothing was    *)
(* sent still cancels, and one message that is left tells its sender's.    *)
LEMMA LossHeal ==
  ASSUME Typed, HealInv, LoseMessages,
         dirty' = (dirty \cup Edges(messages)) \ UsedOnce(messages')
  PROVE  HealInv'
<1>1. /\ phase = "main" /\ phase' = "deliver"
      /\ UNCHANGED <<graph, x, w, flowsX, flowsW>> /\ messages \in Seq(Msg)
  BY DEF LoseMessages, choiceVars, Typed
<1>2. /\ Nodes' = Nodes /\ Unit' = Unit
      /\ \A i \in Nodes : GetNeighbors(i)' = GetNeighbors(i)
  BY <1>1 DEF Nodes, Unit, GetNeighbors
<1>3. /\ \A k \in 1 .. Len(messages) : Current(messages[k])
      /\ \A i \in Nodes : \A q \in GetNeighbors(i) :
           {i, q} \in dirty \/ Cancel(i, q) \/ On({i, q}) # {}
      /\ x = [i \in Nodes |-> Value[i] * Unit] /\ w = [i \in Nodes |-> Unit]
  BY <1>1 DEF HealInv
<1>4. messages' \in Seq(Msg)
  BY LossStep
<1>5. PICK at \in [1 .. Len(messages') -> 1 .. Len(messages)] :
        \A k \in 1 .. Len(messages') : messages'[k] = messages[at[k]]
  BY LossStep
<1>6. \A k \in 1 .. Len(messages') : Current(messages[k])'
  BY <1>1, <1>3, <1>5 DEF Current
<1>7. ASSUME NEW i \in Nodes, NEW q \in GetNeighbors(i), {i, q} \notin dirty'
      PROVE  \/ Cancel(i, q)' /\ On({i, q})' = {}
             \/ Alone({i, q})'
  <2> DEFINE e == {i, q}
  <2>1. CASE e \in UsedOnce(messages')
    <3>1. DOMAIN messages' = 1 .. Len(messages')
      BY <1>4, LenProperties
    <3>2. Cardinality({k \in 1 .. Len(messages') : Edge(messages'[k]) = e}) = 1
      BY <2>1, <3>1 DEF UsedOnce
    <3>3. IsFiniteSet({k \in 1 .. Len(messages') : Edge(messages'[k]) = e})
      <4>1. IsFiniteSet(1 .. Len(messages'))
        BY <1>4, LenProperties, FS_Interval
      <4> QED BY <4>1, FS_Subset
    <3>4. PICK k : {j \in 1 .. Len(messages') : Edge(messages'[j]) = e} = {k}
      <4>1. PICK S : S = {j \in 1 .. Len(messages') : Edge(messages'[j]) = e}
        OBVIOUS
      <4>2. \E k : S = {k}
        BY <3>2, <3>3, <4>1, FS_Singleton
      <4> QED BY <4>1, <4>2
    <3>5. On(e)' = {k}
      BY <3>4 DEF On
    <3>6. k \in On(e)' /\ k \in 1 .. Len(messages')
      BY <3>4, <3>5
    <3>7. Current(messages[k])'
      BY <1>6, <3>6
    <3> QED BY <3>5, <3>7 DEF Alone
  <2>2. CASE e \notin UsedOnce(messages')
    <3>1. e \notin dirty /\ e \notin Edges(messages)
      BY <1>7, <2>2
    <3>2. DOMAIN messages = 1 .. Len(messages)
      BY <1>1, LenProperties
    <3>3. \A k \in 1 .. Len(messages) : Edge(messages[k]) # e
      BY <3>1, <3>2 DEF Edges
    <3>4. On(e) = {}
      BY <3>3 DEF On
    <3>5. On(e)' = {}
      BY <1>5, <3>3 DEF On
    <3>6. Cancel(i, q)
      BY <1>3, <3>1, <3>4
    <3>7. Cancel(i, q)'
      BY <1>1, <3>6 DEF Cancel
    <3> QED BY <3>5, <3>7
  <2> QED BY <2>1, <2>2
<1>8. \A i \in Nodes' : \A q \in GetNeighbors(i)' :
        \/ {i, q} \in dirty'
        \/ Cancel(i, q)' /\ On({i, q})' = {}
        \/ Alone({i, q})'
  BY <1>2, <1>7
<1>9. phase' # "main"
  BY <1>1
<1> QED BY <1>1, <1>2, <1>3, <1>8, <1>9 DEF HealInv

(* When a message is applied, the flows of its edge cancel if it was alone,*)
(* and those of the other edges are as before.                             *)
LEMMA UpdateHeal ==
  ASSUME Typed, HealInv, OnUpdate, alg = "PushFlow", UNCHANGED dirty
  PROVE  HealInv'
<1>1. /\ phase = "deliver" /\ phase' = "deliver" /\ Len(messages) \in Nat \ {0}
      /\ Len(messages') = Len(messages) - 1
      /\ \A k \in 1 .. Len(messages') : messages'[k] = messages[k + 1]
  BY UpdateCases
<1>2. UNCHANGED <<graph, x, w>>
  BY DEF OnUpdate, choiceVars, MirrorFlow
<1>3. /\ Nodes' = Nodes /\ Unit' = Unit
      /\ \A i \in Nodes : GetNeighbors(i)' = GetNeighbors(i)
  BY <1>2 DEF Nodes, Unit, GetNeighbors
<1>4. /\ \A i \in Nodes : \A q \in GetNeighbors(i) :
           \/ {i, q} \in dirty
           \/ Cancel(i, q) /\ On({i, q}) = {}
           \/ Alone({i, q})
      /\ x = [i \in Nodes |-> Value[i] * Unit] /\ w = [i \in Nodes |-> Unit]
  BY <1>1 DEF HealInv
<1>5. PICK m \in Msg : m = messages[1] /\ MirrorFlow(m)
  BY UpdateCases
<1>6. /\ m.from \in Nodes /\ m.to \in Nodes /\ m.x \in Int /\ m.w \in Int
      /\ m.from \in GetNeighbors(m.to) /\ m.to \in GetNeighbors(m.from) /\ m.from # m.to
  BY DEF Msg
<1>7. /\ \A i \in Nodes : \A q \in GetNeighbors(i) : q \in Nodes /\ i \in GetNeighbors(q)
  BY GraphFacts DEF Typed
<1>8. /\ flowsX'[m.to][m.from] = -m.x /\ flowsW'[m.to][m.from] = -m.w
      /\ \A i \in Nodes : \A q \in GetNeighbors(i) : <<i, q>> # <<m.to, m.from>> =>
           flowsX'[i][q] = flowsX[i][q] /\ flowsW'[i][q] = flowsW[i][q]
  <2>1. graph \in Graphs /\ -m.x \in Int /\ -m.w \in Int
    BY <1>6 DEF Typed
  <2>2. PICK n \in Nodes : n = m.to
    BY <1>6
  <2>3. PICK p \in GetNeighbors(n) : p = m.from
    BY <1>6, <2>2
  <2>4. ASSUME NEW f \in Flows, NEW g, NEW v \in Int, g = [f EXCEPT ![n][p] = v]
        PROVE  /\ g[n][p] = v
               /\ \A i \in Nodes : \A q \in GetNeighbors(i) :
                    <<i, q>> # <<n, p>> => g[i][q] = f[i][q]
    BY <2>1, <2>4, FlowChange
  <2>5. PICK f \in Flows, ff \in Flows : f = flowsX /\ ff = flowsW
    BY DEF Typed
  <2>10. PICK g, gg : g = flowsX' /\ gg = flowsW'
    OBVIOUS
  <2>6. PICK vx \in Int, vw \in Int : vx = -m.x /\ vw = -m.w
    BY <2>1
  <2>7. g = [f EXCEPT ![n][p] = vx] /\ gg = [ff EXCEPT ![n][p] = vw]
    BY <1>5, <2>2, <2>3, <2>5, <2>6, <2>10 DEF MirrorFlow
  <2>8. /\ g[n][p] = vx
        /\ \A i \in Nodes : \A q \in GetNeighbors(i) :
             <<i, q>> # <<n, p>> => g[i][q] = f[i][q]
    BY <2>4, <2>7
  <2>9. /\ gg[n][p] = vw
        /\ \A i \in Nodes : \A q \in GetNeighbors(i) :
             <<i, q>> # <<n, p>> => gg[i][q] = ff[i][q]
    BY <2>4, <2>7
  <2> QED BY <2>2, <2>3, <2>5, <2>6, <2>8, <2>9, <2>10
<1>9. ASSUME NEW i \in Nodes, NEW q \in GetNeighbors(i), {i, q} \notin dirty
      PROVE  \/ Cancel(i, q)' /\ On({i, q})' = {}
             \/ Alone({i, q})'
  <2> DEFINE e == {i, q}
  <2>1. ASSUME NEW k \in 1 .. Len(messages') PROVE k \in On(e)' <=> k + 1 \in On(e)
    <3>1. k + 1 \in 1 .. Len(messages) /\ messages'[k] = messages[k + 1]
      BY <1>1
    <3>2. k \in On(e)' <=> Edge(messages'[k]) = e
      BY DEF On, Edge
    <3>3. k + 1 \in On(e) <=> Edge(messages[k + 1]) = e
      BY <3>1 DEF On
    <3> QED BY <3>1, <3>2, <3>3
  <2>2. CASE e = Edge(m)
    <3>1. 1 \in On(e)
      BY <1>1, <1>5, <2>2 DEF On
    <3>2. PICK k \in On(e) : On(e) = {k} /\ Current(messages[k])
      BY <1>4, <1>9, <3>1 DEF Alone
    <3>3. On(e) = {1} /\ Current(m)
      BY <1>5, <3>1, <3>2
    <3>4. On(e)' = {}
      <4>1. \A j \in On(e)' : j \in 1 .. Len(messages')
        BY DEF On
      <4>2. \A j \in 1 .. Len(messages') : j + 1 # 1
        OBVIOUS
      <4> QED BY <2>1, <3>3, <4>1, <4>2
    <3>5. <<m.from, m.to>> # <<m.to, m.from>>
      BY <1>6
    <3>6. flowsX'[m.from][m.to] = m.x /\ flowsW'[m.from][m.to] = m.w
      BY <1>6, <1>8, <3>3, <3>5 DEF Current
    <3>7. Cancel(m.from, m.to)' /\ Cancel(m.to, m.from)'
      <4>1. m.x + (-m.x) = 0 /\ -m.x + m.x = 0 /\ m.w + (-m.w) = 0 /\ -m.w + m.w = 0
        BY <1>6
      <4>2. /\ flowsX'[m.from][m.to] + flowsX'[m.to][m.from] = 0
            /\ flowsX'[m.to][m.from] + flowsX'[m.from][m.to] = 0
        BY <1>8, <3>6, <4>1
      <4>3. /\ flowsW'[m.from][m.to] + flowsW'[m.to][m.from] = 0
            /\ flowsW'[m.to][m.from] + flowsW'[m.from][m.to] = 0
        BY <1>8, <3>6, <4>1
      <4> QED BY <4>2, <4>3 DEF Cancel
    <3>8. (i = m.from /\ q = m.to) \/ (i = m.to /\ q = m.from)
      BY <1>6, <2>2 DEF Edge
    <3>9. Cancel(i, q)'
      BY <3>7, <3>8
    <3> QED BY <3>4, <3>9
  <2>3. CASE e # Edge(m)
    <3>1. /\ flowsX'[i][q] = flowsX[i][q] /\ flowsW'[i][q] = flowsW[i][q]
          /\ flowsX'[q][i] = flowsX[q][i] /\ flowsW'[q][i] = flowsW[q][i]
      <4>1. <<i, q>> # <<m.to, m.from>> /\ <<q, i>> # <<m.to, m.from>>
        BY <2>3 DEF Edge
      <4> QED BY <1>7, <1>8, <4>1
    <3>2. 1 \notin On(e)
      BY <1>5, <2>3 DEF On
    <3>3. CASE Cancel(i, q) /\ On(e) = {}
      <4>1. Cancel(i, q)'
        BY <3>1, <3>3 DEF Cancel
      <4>2. On(e)' = {}
        BY <2>1, <3>3 DEF On
      <4> QED BY <4>1, <4>2
    <3>4. CASE Alone(e)
      <4>1. PICK k \in On(e) : On(e) = {k} /\ Current(messages[k])
        BY <3>4 DEF Alone
      <4>2. k \in 2 .. Len(messages) /\ k - 1 \in 1 .. Len(messages') /\ k - 1 + 1 = k
        BY <1>1, <3>2, <4>1 DEF On
      <4>3. messages'[k - 1] = messages[k] /\ k - 1 \in On(e)'
        BY <1>1, <2>1, <4>1, <4>2
      <4>4. On(e)' = {k - 1}
        <5>1. ASSUME NEW j \in On(e)' PROVE j = k - 1
          <6>1. j \in 1 .. Len(messages')
            BY DEF On
          <6>2. j + 1 \in On(e)
            BY <2>1, <6>1
          <6>3. j + 1 = k
            BY <4>1, <6>2
          <6> QED BY <4>2, <6>1, <6>3
        <5> QED BY <4>3, <5>1
      <4>5. /\ messages[k] \in Msg /\ Edge(messages[k]) = e
        BY <4>1, <4>2, ElementOfSeq DEF On, Typed
      <4>6. PICK u \in Msg : u = messages[k]
        BY <4>5
      <4>7. u.x = flowsX[u.from][u.to] /\ u.w = flowsW[u.from][u.to]
        BY <4>1, <4>6 DEF Current
      <4>8. /\ u.from \in Nodes /\ u.to \in GetNeighbors(u.from)
            /\ <<u.from, u.to>> # <<m.to, m.from>>
        BY <2>3, <4>5, <4>6 DEF Edge, Msg
      <4>9. u.x = flowsX'[u.from][u.to] /\ u.w = flowsW'[u.from][u.to]
        BY <1>8, <4>7, <4>8
      <4>10. Current(messages[k - 1])'
        BY <4>3, <4>6, <4>9 DEF Current
      <4> QED BY <4>4, <4>10 DEF Alone
    <3> QED BY <1>4, <1>9, <3>3, <3>4
  <2> QED BY <2>2, <2>3
<1>10. \A i \in Nodes' : \A q \in GetNeighbors(i)' :
         \/ {i, q} \in dirty'
         \/ Cancel(i, q)' /\ On({i, q})' = {}
         \/ Alone({i, q})'
  BY <1>3, <1>9
<1>11. phase' # "main"
  BY <1>1
<1> QED BY <1>2, <1>3, <1>4, <1>10, <1>11 DEF HealInv

(* FlowInv is inductive. *)
LEMMA NextHeal == FlowInv /\ [MCNext]_mcVars => FlowInv'
<1> SUFFICES ASSUME FlowInv, [MCNext]_mcVars PROVE FlowInv'
  OBVIOUS
<1>1. Typed /\ [Next]_avgVars
  BY DEF FlowInv, MCNext, mcVars, avgVars
<1>2. Typed' /\ alg' = alg
  BY <1>1, NextTyped, GraphStep
<1>3. ASSUME alg = "PushFlow" PROVE HealInv'
  <2>1. HealInv
    BY <1>3 DEF FlowInv
  <2>2. CASE MainLoop
    <3>1. phase' # "deliver"
      BY <1>1, <2>2, MainLoopCases
    <3>2. UNCHANGED dirty
      BY <3>1 DEF MCNext, mcVars
    <3> QED BY <1>1, <1>3, <2>1, <2>2, <3>2, MainLoopHeal
  <2>3. CASE LoseMessages
    <3>1. phase = "main" /\ phase' = "deliver" /\ phase # phase'
      BY <2>3 DEF LoseMessages
    <3>2. dirty' = (dirty \cup Edges(messages)) \ UsedOnce(messages')
      BY <3>1 DEF MCNext, mcVars, avgVars
    <3> QED BY <1>1, <2>1, <2>3, <3>2, LossHeal
  <2>4. CASE OnUpdate
    <3>1. phase # "main"
      BY <2>4 DEF OnUpdate
    <3>2. UNCHANGED dirty
      BY <3>1 DEF MCNext, mcVars
    <3> QED BY <1>1, <1>3, <2>1, <2>4, <3>2, UpdateHeal
  <2>5. CASE EndRound
    <3>1. /\ UNCHANGED <<graph, x, w, flowsX, flowsW, messages>> /\ messages = << >>
          /\ phase = "deliver" /\ phase' = "main"
      BY <2>5 DEF EndRound, choiceVars
    <3>2. UNCHANGED dirty
      BY <3>1 DEF MCNext, mcVars
    <3>3. Len(messages) = 0 /\ Len(messages') = 0
      BY <3>1
    <3>4. \A i \in Nodes : \A q \in GetNeighbors(i) : {i, q} \in dirty \/ Cancel(i, q)
      <4>1. \A e : ~Alone(e)
        BY <3>3 DEF Alone, On
      <4> QED BY <2>1, <3>1, <4>1 DEF HealInv
    <3>5. /\ Nodes' = Nodes /\ Unit' = Unit
          /\ \A i \in Nodes : GetNeighbors(i)' = GetNeighbors(i)
      BY <3>1 DEF Nodes, Unit, GetNeighbors
    <3>6. \A i \in Nodes : \A q \in GetNeighbors(i) : Cancel(i, q)' <=> Cancel(i, q)
      BY <3>1 DEF Cancel
    <3>7. \A i \in Nodes' : \A q \in GetNeighbors(i)' :
            {i, q} \in dirty' \/ Cancel(i, q)' \/ On({i, q})' # {}
      BY <3>2, <3>4, <3>5, <3>6
    <3>8. /\ x = [i \in Nodes |-> Value[i] * Unit] /\ w = [i \in Nodes |-> Unit]
      BY <2>1 DEF HealInv
    <3>9. phase' # "deliver"
      BY <3>1
    <3>10. x' = [i \in Nodes' |-> Value[i] * Unit'] /\ w' = [i \in Nodes' |-> Unit']
      BY <3>1, <3>5, <3>8
    <3>11. \A k \in 1 .. Len(messages') : messages'[k].from < node' /\ Current(messages[k])'
      BY <3>3
    <3> QED BY <3>7, <3>9, <3>10, <3>11 DEF HealInv
  <2>6. CASE UNCHANGED avgVars
    <3>1. UNCHANGED <<graph, x, w, flowsX, flowsW, phase, node, messages>>
      BY <2>6 DEF avgVars, choiceVars
    <3>2. ~(phase = "main" /\ phase' = "deliver")
      BY <3>1
    <3>3. UNCHANGED dirty
      BY <3>2 DEF MCNext, mcVars
    <3>4. /\ Nodes' = Nodes /\ Unit' = Unit
          /\ \A i \in Nodes : GetNeighbors(i)' = GetNeighbors(i)
      BY <3>1 DEF Nodes, Unit, GetNeighbors
    <3>5. x' = [i \in Nodes' |-> Value[i] * Unit'] /\ w' = [i \in Nodes' |-> Unit']
      BY <2>1, <3>1, <3>4 DEF HealInv
    <3>6. /\ \A i, q : Cancel(i, q)' <=> Cancel(i, q)
          /\ \A k : Current(messages[k])' <=> Current(messages[k])
          /\ \A e : On(e)' = On(e)
      BY <3>1 DEF Cancel, Current, On
    <3>7. \A e : Alone(e)' <=> Alone(e)
      BY <3>6 DEF Alone
    <3>8. phase = "main" =>
            /\ \A k \in 1 .. Len(messages) :
                 messages[k].from < node /\ Current(messages[k])'
            /\ \A i \in Nodes : \A q \in GetNeighbors(i) :
                 {i, q} \in dirty' \/ Cancel(i, q)' \/ On({i, q})' # {}
      BY <2>1, <3>3, <3>6 DEF HealInv
    <3>9. phase = "deliver" =>
            \A i \in Nodes : \A q \in GetNeighbors(i) :
              \/ {i, q} \in dirty'
              \/ Cancel(i, q)' /\ On({i, q})' = {}
              \/ Alone({i, q})'
      BY <2>1, <3>3, <3>6, <3>7 DEF HealInv
    <3> QED BY <3>1, <3>4, <3>5, <3>8, <3>9 DEF HealInv
  <2> QED BY <1>1, <2>2, <2>3, <2>4, <2>5, <2>6 DEF Next
<1> QED BY <1>2, <1>3 DEF FlowInv

(* Push-flow repairs: between rounds the flows of all edges on which one   *)
(* message arrived alone since the last loss or crossing cancel, and if    *)
(* that is so of all edges, the shares of the nodes add up to their values.*)
THEOREM LossesAreHealed == MCSpec => []LossesHeal
<1>1. FlowInv => LossesHeal
  <2> SUFFICES ASSUME FlowInv, alg = "PushFlow", phase = "main", node = 0
               PROVE  /\ \A i \in Nodes : \A q \in GetNeighbors(i) :
                           {i, q} \notin dirty => Cancel(i, q)
                      /\ dirty = {} =>
                           /\ Total([i \in Nodes |-> OwnX(i)]) = Unit * TotalValue
                           /\ Total([i \in Nodes |-> OwnW(i)]) = Unit * graph.n
    BY DEF LossesHeal, Cancel
  <2>1. Typed /\ HealInv /\ messages = << >>
    BY DEF FlowInv, Typed
  <2>2. \A e : On(e) = {}
    BY <2>1 DEF On
  <2>3. \A i \in Nodes : \A q \in GetNeighbors(i) : {i, q} \notin dirty => Cancel(i, q)
    BY <2>1, <2>2 DEF HealInv
  <2>4. ASSUME dirty = {}
        PROVE  /\ Total([i \in Nodes |-> OwnX(i)]) = Unit * TotalValue
               /\ Total([i \in Nodes |-> OwnW(i)]) = Unit * graph.n
    <3>1. graph \in Graphs
      BY <2>1 DEF Typed
    <3>2. PICK f \in Flows, ff \in Flows, v \in [Nodes -> Int], vv \in [Nodes -> Int] :
            f = flowsX /\ ff = flowsW /\ v = x /\ vv = w
      BY <2>1 DEF Typed
    <3>3. /\ \A i \in Nodes : \A q \in GetNeighbors(i) : f[i][q] + f[q][i] = 0
          /\ \A i \in Nodes : \A q \in GetNeighbors(i) : ff[i][q] + ff[q][i] = 0
      BY <2>3, <2>4, <3>2 DEF Cancel
    <3>4. Total([i \in Nodes |-> v[i] - SumFlows(f, i)]) = Total(v)
      BY <3>1, <3>3, SharesAddUp
    <3>5. Total([i \in Nodes |-> vv[i] - SumFlows(ff, i)]) = Total(vv)
      BY <3>1, <3>3, SharesAddUp
    <3>6. /\ [i \in Nodes |-> OwnX(i)] = [i \in Nodes |-> v[i] - SumFlows(f, i)]
          /\ [i \in Nodes |-> OwnW(i)] = [i \in Nodes |-> vv[i] - SumFlows(ff, i)]
      BY <3>2 DEF OwnX, OwnW
    <3>7. v = [i \in Nodes |-> Value[i] * Unit] /\ vv = [i \in Nodes |-> Unit]
      BY <2>1, <3>2 DEF HealInv
    <3>8. Total(v) = Unit * TotalValue /\ Total(vv) = Unit * graph.n
      BY <3>1, <3>7, InitTotals
    <3> QED BY <3>4, <3>5, <3>6, <3>8
  <2> QED BY <2>3, <2>4
<1> QED BY <1>1, InitHeal, NextHeal, PTL DEF MCSpec

=============================================================================
