------------------------- MODULE ExperimentsProofs -------------------------
(***************************************************************************)
(* Proofs about the simulations of gossip/nodes.py, for graphs of any size *)
(* and any bound on the rounds and delays: types, and the refinement of    *)
(* Epidemic, on an invariant that says who sent what is under way; then    *)
(* what the curves and the counter of messages show.                       *)
(***************************************************************************)
EXTENDS MCExperiments, CollectionProofs, TLAPS, SequenceTheorems, FiniteSetTheorems

Modes == {Push, Pull, PushPull}
Curve == Seq(0 .. graph.n)

(* Messages of the main loop and replies: an update that has not been      *)
(* applied yet comes from a node that still spreads the news.              *)
Carried ==
  {m \in Message : /\ m.type \in {"update", "request"}
                   /\ m.from # m.to
                   /\ m.type = "update" => state[m.from] = "I"}
News == {m \in Carried : m.type = "update"}

(* Feedback passes between two nodes that have, or had, the news.          *)
Answers ==
  {m \in Message : /\ m.type = "feedback" /\ m.from # m.to
                   /\ state[m.from] # "S"
                   /\ state[m.to] # "S"}

SetupTyped ==
  /\ task \in [kind : {"si", "async", "sir"}, lossy : BOOLEAN,
               k : Nat \ {0}, rounds : Nat]
  /\ mode \in Modes /\ todo \in Seq(Modes)
  /\ results \in Seq([mode : Modes, infected : Curve])
NodesTyped ==
  /\ state \in [Nodes -> IF task.kind = "sir" THEN {"S", "I", "R"}
                                              ELSE {"S", "I"}]
  /\ phase \in {"main", "delay", "deliver", "done", "IndexError"}
  /\ node \in 0 .. graph.n
CurvesTyped == infected \in Curve /\ removed \in Curve /\ sent \in Nat

Underway ==
  /\ messages \in Seq(Carried) /\ updates \in Seq(News)
  /\ feedbacks \in Seq(Answers)
  /\ pending \in [0 .. MaxDelay -> Seq(Carried)]

(* Which lists are empty when.                                             *)
Phased ==
  /\ graph.n >= 2
  /\ phase = "delay" => task.kind = "async"
  /\ task.kind # "async" => \A d \in 0 .. MaxDelay : pending[d] = << >>
  /\ task.kind # "sir" => feedbacks = << >>
  /\ phase \in {"main", "delay"} => updates = << >> /\ feedbacks = << >>
  /\ phase = "done" => /\ messages = << >> /\ updates = << >>
                       /\ feedbacks = << >> /\ node = 0 /\ Finished

Inv == /\ ChoiceTypeOK /\ SetupTyped /\ NodesTyped /\ CurvesTyped
       /\ Underway /\ Phased

-----------------------------------------------------------------------------
(* The parts of the invariant give the types of all variables.             *)
LEMMA InvTyped == Inv => TypeOK
<1> SUFFICES ASSUME Inv PROVE TypeOK
  OBVIOUS
<1>1. Carried \subseteq Message /\ News \subseteq Message /\ Answers \subseteq Message
  BY DEF Carried, News, Answers
<1> HIDE DEF Carried, News, Answers, Message
<1>2. /\ messages \in Seq(Message) /\ updates \in Seq(Message)
      /\ feedbacks \in Seq(Message)
  BY <1>1, SeqMonotonic DEF Inv, Underway
<1>3. pending \in [0 .. MaxDelay -> Seq(Message)]
  BY <1>1, SeqMonotonic DEF Inv, Underway
<1> QED BY <1>2, <1>3 DEF Inv, TypeOK, SetupTyped, NodesTyped, CurvesTyped, Modes, Curve

(* A number of nodes is at most their number.                              *)
LEMMA CountType ==
  ASSUME graph.n \in Nat, NEW s
  PROVE  Count(s) \in 0 .. graph.n /\ IsFiniteSet({i \in Nodes : state[i] = s})
<1> DEFINE C == {i \in Nodes : state[i] = s}
<1>1. IsFiniteSet(Nodes) /\ Cardinality(Nodes) = graph.n
  BY NumbersBelow DEF Nodes
<1>2. C \in SUBSET Nodes
  OBVIOUS
<1>3. IsFiniteSet(C) /\ Cardinality(C) <= graph.n
  BY <1>1, <1>2, FS_Subset
<1>4. Cardinality(C) \in Nat
  BY <1>3, FS_CardinalityType
<1> QED BY <1>3, <1>4 DEF Count

-----------------------------------------------------------------------------
(* The schedules have a length, and drawing or playing back keeps the      *)
(* position within what has been drawn.                                    *)
LEMMA LengthType ==
  ASSUME graph.n \in Nat
  PROVE  ScheduleLength \in Nat
<1>1. ASSUME NEW k \in Nat PROVE Log2(k) \in Nat
  <2>1. IsFiniteSet(1 .. k)
    BY FS_Interval
  <2>2. IsFiniteSet({e \in 1 .. k : 2^e <= k})
    BY <2>1, FS_Subset
  <2> QED BY <2>2, FS_CardinalityType DEF Log2
<1>2. graph.n * graph.n \in Nat
  OBVIOUS
<1>3. Log2(graph.n) \in Nat /\ Log2(graph.n * graph.n) \in Nat
  BY <1>1, <1>2
<1>4. Factor["K"] \in Nat /\ Factor["RG"] \in Nat
  BY FactorAssumption
<1>5. \A a, b, c \in Nat : a * b * c \in Nat
  OBVIOUS
<1>6. \A a, b \in Nat : a * b \in Nat
  OBVIOUS
<1> QED BY <1>2, <1>3, <1>4, <1>5, <1>6 DEF ScheduleLength

(* Neighbors are nodes. *)
LEMMA NeighborsType ==
  ASSUME ChoiceTypeOK, NEW i \in Nodes
  PROVE  NeighborChoices(i) \subseteq Nodes
<1>1. graph.n \in Nat \ {0}
  BY DEF ChoiceTypeOK
<1>2. \A k \in Nat, n \in Nat \ {0} : (k + 1) % n \in 0 .. n - 1
  OBVIOUS
<1>3. RingChoices(i) \subseteq Nodes
  BY <1>1, <1>2 DEF RingChoices, Nodes
<1>4. GeometricChoices(i) \subseteq Nodes
  BY DEF GeometricChoices, ChoiceTypeOK
<1> QED BY <1>3, <1>4 DEF NeighborChoices, CompleteChoices, ChoiceTypeOK

(* get_random_neighbor returns a node and moves one pointer. *)
LEMMA GetNeighborStep ==
  ASSUME ChoiceTypeOK, NEW i \in Nodes, NEW p, GetRandomNeighbor(i, p)
  PROVE  ChoiceTypeOK' /\ graph' = graph /\ p \in Nodes
<1>1. graph' = graph
  BY DEF GetRandomNeighbor
<1>2. Schedules' = Schedules /\ ScheduleLength' = ScheduleLength /\ Nodes' = Nodes
  BY <1>1 DEF Schedules, ScheduleLength, Nodes
<1>3. NeighborChoices(i) \subseteq Nodes
  BY NeighborsType
<1>4. CASE ~Scheduled /\ p \in NeighborChoices(i) /\ UNCHANGED <<picks, ptr>>
  BY <1>1, <1>2, <1>3, <1>4 DEF ChoiceTypeOK
<1>5. CASE ScheduledNeighbor(i, p)
  <2> DEFINE s == ScheduleOf(i)
             pos == ptr[s] + 1
  <2>1. s \in Schedules
    BY DEF ScheduleOf, Schedules
  <2>2. /\ picks \in [Schedules -> Seq(Nodes)] /\ picks[s] \in Seq(Nodes)
        /\ ptr[s] \in -1 .. Len(picks[s]) - 1 /\ Len(picks[s]) \in Nat
        /\ Len(picks[s]) <= ScheduleLength
    BY <2>1, LenProperties DEF ChoiceTypeOK
  <2>3. ScheduleLength \in Nat
    BY LengthType DEF ChoiceTypeOK
  <2>4. ptr' = [ptr EXCEPT ![s] = pos] /\ pos < ScheduleLength /\ pos \in 0 .. Len(picks[s])
    BY <1>5, <2>2, <2>3 DEF ScheduledNeighbor, Exhausted
  <2>5. ptr' \in [Schedules -> Int]
    <3>1. ptr \in [Schedules -> Int] /\ pos \in Int
      BY <2>2, <2>4 DEF ChoiceTypeOK
    <3> HIDE DEF s, pos
    <3> QED BY <2>4, <3>1
  <2>6. CASE pos < Len(picks[s]) /\ p = picks[s][pos + 1] /\ UNCHANGED picks
    <3>1. p \in Nodes
      <4>1. pos + 1 \in 1 .. Len(picks[s])
        BY <2>2, <2>4, <2>6
      <4> QED BY <2>2, <2>6, <4>1, ElementOfSeq
    <3>2. ptr' \in [Schedules -> Int]
      BY <2>5
    <3>3. \A t \in Schedules : ptr'[t] \in -1 .. Len(picks[t]) - 1
      BY <2>1, <2>2, <2>4, <2>6 DEF ChoiceTypeOK
    <3> QED BY <1>1, <1>2, <2>6, <3>1, <3>2, <3>3 DEF ChoiceTypeOK
  <2>7. CASE /\ pos = Len(picks[s]) /\ p \in NeighborChoices(i)
             /\ picks' = [picks EXCEPT ![s] = Append(@, p)]
    <3>1. p \in Nodes
      BY <1>3, <2>7
    <3>2. Append(picks[s], p) \in Seq(Nodes) /\ Len(Append(picks[s], p)) = Len(picks[s]) + 1
      BY <2>2, <3>1, AppendProperties
    <3>3. ptr' \in [Schedules -> Int] /\ picks' \in [Schedules -> Seq(Nodes)]
      BY <2>2, <2>7, <2>5, <3>2
    <3>4. \A t \in Schedules : /\ Len(picks'[t]) <= ScheduleLength
                               /\ ptr'[t] \in -1 .. Len(picks'[t]) - 1
      <4> SUFFICES ASSUME NEW t \in Schedules
                   PROVE  /\ Len(picks'[t]) <= ScheduleLength
                          /\ ptr'[t] \in -1 .. Len(picks'[t]) - 1
        OBVIOUS
      <4>1. CASE t = s
        <5>1. ptr'[t] = pos /\ picks'[t] = Append(picks[s], p)
          BY <2>2, <2>4, <2>7, <4>1 DEF ChoiceTypeOK
        <5> HIDE DEF s, pos
        <5> QED BY <2>2, <2>3, <2>4, <2>7, <3>2, <5>1
      <4>2. CASE t # s
        <5>1. ptr'[t] = ptr[t] /\ picks'[t] = picks[t]
          BY <2>2, <2>4, <2>7, <4>2 DEF ChoiceTypeOK
        <5> QED BY <5>1 DEF ChoiceTypeOK
      <4> QED BY <4>1, <4>2
    <3> QED BY <1>1, <1>2, <3>1, <3>3, <3>4 DEF ChoiceTypeOK
  <2> QED BY <1>5, <2>6, <2>7 DEF ScheduledNeighbor
<1> QED BY <1>4, <1>5 DEF GetRandomNeighbor

(* The choices stay typed, and nothing ever changes the graph.             *)
LEMMA ChoiceStep ==
  ASSUME ChoiceTypeOK, node \in 0 .. graph.n, [Next]_experimentVars
  PROVE  ChoiceTypeOK' /\ graph' = graph /\ Nodes' = Nodes
<1>1. CASE MainLoop
  <2>1. graph.n \in Nat
    BY DEF ChoiceTypeOK
  <2>2. node \in Nodes
    BY <1>1, <2>1 DEF MainLoop, Nodes
  <2> QED BY <1>1, <2>2, GetNeighborStep DEF MainLoop, Nodes
<1>2. ASSUME Reset PROVE ChoiceTypeOK' /\ graph' = graph /\ Nodes' = Nodes
  <2>1. graph' = graph /\ picks' = picks
    BY <1>2 DEF Reset
  <2>2. Schedules' = Schedules /\ ScheduleLength' = ScheduleLength /\ Nodes' = Nodes
    BY <2>1 DEF Schedules, ScheduleLength, Nodes
  <2>3. ptr' = [s \in Schedules |-> -1]
    BY <1>2 DEF Reset
  <2>4. \A s \in Schedules : Len(picks[s]) \in Nat
    BY LenProperties DEF ChoiceTypeOK
  <2>5. ptr' \in [Schedules -> Int] /\ \A s \in Schedules : ptr'[s] \in -1 .. Len(picks[s]) - 1
    BY <2>3, <2>4
  <2> QED BY <2>1, <2>2, <2>5 DEF ChoiceTypeOK
<1>3. ASSUME UNCHANGED choiceVars PROVE ChoiceTypeOK' /\ graph' = graph /\ Nodes' = Nodes
  BY <1>3 DEF choiceVars, ChoiceTypeOK, Nodes, Schedules, ScheduleLength
<1>4. CASE NextSimulation
  BY <1>2, <1>4 DEF NextSimulation
<1>5. CASE GossipNext
  BY <1>1, <1>3, <1>5 DEF GossipNext, RunOutOfPicks, LoseMessages, DelayMessages,
     RunOnUpdateRequest, RunOnUpdate, RunOnFeedback, EndRound
<1>6. CASE UNCHANGED experimentVars
  BY <1>3, <1>6 DEF experimentVars, gossipVars
<1> QED BY <1>4, <1>5, <1>6 DEF Next

-----------------------------------------------------------------------------
(* The first and the other messages of a list.                             *)
LEMMA FirstMessages ==
  ASSUME Inv
  PROVE  /\ messages # << >> => Head(messages) \in Carried /\ Tail(messages) \in Seq(Carried)
         /\ updates # << >> => Head(updates) \in News /\ Tail(updates) \in Seq(News)
         /\ feedbacks # << >> => Head(feedbacks) \in Answers /\ Tail(feedbacks) \in Seq(Answers)
<1> USE DEF Inv, Underway
<1>1. messages # << >> => Head(messages) \in Carried /\ Tail(messages) \in Seq(Carried)
  BY HeadTailProperties
<1>2. updates # << >> => Head(updates) \in News /\ Tail(updates) \in Seq(News)
  BY HeadTailProperties
<1>3. feedbacks # << >> => Head(feedbacks) \in Answers /\ Tail(feedbacks) \in Seq(Answers)
  BY HeadTailProperties
<1> QED BY <1>1, <1>2, <1>3

(* What the main loop of a node sends is at most an update and a request,  *)
(* and it sends an update only if it spreads the news.                     *)
LEMMA MainLoopSends ==
  ASSUME Inv, NEW i \in Nodes, NEW p \in Nodes
  PROVE  RunMainLoop(i, p) \in Seq(Carried)
<1> DEFINE pushed == IF mode.push /\ state[i] = "I" THEN <<Update(i, p)>> ELSE << >>
           pulled == IF mode.pull THEN <<Request(i, p)>> ELSE << >>
<1>1. CASE p = i
  BY <1>1, EmptySeq DEF RunMainLoop
<1>2. CASE p # i
  <2>1. pushed \in Seq(Carried)
    <3>1. state[i] = "I" => Update(i, p) \in Carried
      BY <1>2 DEF Carried, Message, Update
    <3> QED BY <3>1, EmptySeq
  <2>2. pulled \in Seq(Carried)
    <3>1. Request(i, p) \in Carried
      BY <1>2 DEF Carried, Message, Request
    <3> QED BY <3>1, EmptySeq
  <2> HIDE DEF pushed, pulled
  <2>3. pushed \o pulled \in Seq(Carried)
    BY <2>1, <2>2, ConcatProperties
  <2>4. RunMainLoop(i, p) = pushed \o pulled
    BY <1>2 DEF RunMainLoop, pushed, pulled
  <2> QED BY <2>3, <2>4
<1> QED BY <1>1, <1>2

(* The parameters of a simulation keep their types.                        *)
LEMMA SetupStep ==
  ASSUME Inv, [Next]_experimentVars
  PROVE  SetupTyped' /\ task' = task
<1>1. graph' = graph
  BY ChoiceStep DEF Inv, NodesTyped
<1>2. CASE NextSimulation
  <2>1. Head(todo) \in Modes /\ Tail(todo) \in Seq(Modes)
    BY <1>2, HeadTailProperties DEF NextSimulation, Inv, SetupTyped
  <2>2. [mode |-> mode, infected |-> infected] \in [mode : Modes, infected : Curve]
    BY DEF Inv, SetupTyped, CurvesTyped
  <2>3. results' \in Seq([mode : Modes, infected : Curve])
    BY <1>2, <2>2, AppendProperties DEF NextSimulation, Inv, SetupTyped
  <2> QED BY <1>1, <1>2, <2>1, <2>3 DEF NextSimulation, Inv, SetupTyped, Curve, Modes
<1>3. ASSUME UNCHANGED <<task, mode, todo, results>> PROVE SetupTyped' /\ task' = task
  BY <1>1, <1>3 DEF Inv, SetupTyped, Curve, Modes
<1>4. CASE GossipNext /\ UNCHANGED <<todo, results>>
  BY <1>3, <1>4 DEF GossipNext, MainLoop, RunOutOfPicks, LoseMessages, DelayMessages,
     RunOnUpdateRequest, RunOnUpdate, RunOnFeedback, EndRound
<1>5. CASE UNCHANGED experimentVars
  BY <1>3, <1>5 DEF experimentVars, gossipVars, nodeVars
<1> QED BY <1>2, <1>4, <1>5 DEF Next

(* The states of the nodes keep their types: only SIR removes nodes.       *)
LEMMA NodesStep ==
  ASSUME Inv, [Next]_experimentVars
  PROVE  NodesTyped'
<1>1. graph' = graph /\ Nodes' = Nodes /\ task' = task
  BY ChoiceStep, SetupStep DEF Inv, NodesTyped
<1>2. graph.n \in Nat \ {0} /\ 0 \in Nodes
  BY DEF Inv, ChoiceTypeOK, Nodes
<1>3. ASSUME UNCHANGED state, phase' \in {"main", "delay", "deliver", "done", "IndexError"},
             node' \in 0 .. graph.n
      PROVE  NodesTyped'
  BY <1>1, <1>3 DEF Inv, NodesTyped
<1>4. CASE NextSimulation
  BY <1>1, <1>2, <1>4 DEF NextSimulation, Inv, NodesTyped, Started
<1>5. CASE MainLoop
  <2>1. node' \in 0 .. graph.n
    BY <1>2, <1>5 DEF MainLoop, Inv, NodesTyped
  <2> QED BY <1>3, <1>5, <2>1 DEF MainLoop, Inv, NodesTyped
<1>6. CASE RunOutOfPicks \/ LoseMessages \/ DelayMessages \/ RunOnUpdateRequest
  BY <1>3, <1>6 DEF RunOutOfPicks, LoseMessages, DelayMessages, RunOnUpdateRequest,
     Inv, NodesTyped
<1>7. CASE RunOnUpdate
  <2>1. Head(updates).to \in Nodes
    BY <1>7, FirstMessages DEF RunOnUpdate, News, Carried, Message
  <2> QED BY <1>1, <1>7, <2>1 DEF RunOnUpdate, OnUpdate, Inv, NodesTyped
<1>8. CASE RunOnFeedback
  <2>1. Head(feedbacks).to \in Nodes /\ task.kind = "sir"
    BY <1>8, FirstMessages DEF RunOnFeedback, Answers, Message, Inv, Phased
  <2> QED BY <1>1, <1>8, <2>1 DEF RunOnFeedback, OnFeedback, Inv, NodesTyped
<1>9. CASE EndRound
  <2>1. node' \in 0 .. graph.n
    BY <1>2, <1>9 DEF EndRound
  <2> QED BY <1>3, <1>9, <2>1 DEF EndRound
<1>10. CASE UNCHANGED experimentVars
  BY <1>3, <1>10 DEF experimentVars, gossipVars, nodeVars, Inv, NodesTyped
<1> QED BY <1>4, <1>5, <1>6, <1>7, <1>8, <1>9, <1>10 DEF Next, GossipNext

(* Each round adds a number of nodes to the curves.                        *)
LEMMA CurvesStep ==
  ASSUME Inv, [Next]_experimentVars
  PROVE  CurvesTyped'
<1>1. graph' = graph
  BY ChoiceStep DEF Inv, NodesTyped
<1>2. graph.n \in Nat \ {0}
  BY DEF Inv, ChoiceTypeOK
<1>3. ASSUME UNCHANGED <<infected, removed>>, sent' \in Nat PROVE CurvesTyped'
  BY <1>1, <1>3 DEF Inv, CurvesTyped, Curve
<1>4. CASE NextSimulation
  BY <1>1, <1>2, <1>4 DEF NextSimulation, CurvesTyped, Curve
<1>5. CASE MainLoop
  <2>1. PICK p \in Nodes : GetRandomNeighbor(node, p) /\ sent' = sent + Len(RunMainLoop(node, p))
    BY <1>5 DEF MainLoop
  <2>2. node \in Nodes
    BY <1>2, <1>5 DEF MainLoop, Nodes, Inv, NodesTyped
  <2>3. Len(RunMainLoop(node, p)) \in Nat
    BY <2>2, MainLoopSends, LenProperties
  <2> QED BY <1>3, <1>5, <2>1, <2>3 DEF MainLoop, Inv, CurvesTyped
<1>6. CASE RunOutOfPicks \/ LoseMessages \/ DelayMessages \/ RunOnUpdateRequest
           \/ RunOnUpdate \/ RunOnFeedback
  BY <1>3, <1>6 DEF RunOutOfPicks, LoseMessages, DelayMessages, RunOnUpdateRequest,
     OnUpdateRequest, RunOnUpdate, RunOnFeedback, Inv, CurvesTyped
<1>7. CASE EndRound
  <2>1. Count("I") \in 0 .. graph.n /\ Count("R") \in 0 .. graph.n
    BY <1>2, CountType
  <2>2. infected' \in Curve /\ removed' \in Curve
    BY <1>7, <2>1, AppendProperties DEF EndRound, Inv, CurvesTyped, Curve
  <2> QED BY <1>1, <1>7, <2>2 DEF EndRound, Inv, CurvesTyped, Curve
<1>8. CASE UNCHANGED experimentVars
  BY <1>3, <1>8 DEF experimentVars, gossipVars, nodeVars, Inv, CurvesTyped
<1> QED BY <1>4, <1>5, <1>6, <1>7, <1>8 DEF Next, GossipNext

-----------------------------------------------------------------------------
(* Only nodes that get the news change state: what is under way is still   *)
(* sent by nodes that spread it, and feedback is still between informed.   *)
LEMMA StillCarried ==
  ASSUME Nodes' = Nodes,
         \A i \in Nodes : state'[i] # state[i] => state[i] = "S" /\ state'[i] = "I"
  PROVE  /\ Carried \subseteq Carried' /\ News \subseteq News' /\ Answers \subseteq Answers'
         /\ Seq(Carried) \subseteq Seq(Carried') /\ Seq(News) \subseteq Seq(News')
         /\ Seq(Answers) \subseteq Seq(Answers')
<1>1. Carried \subseteq Carried'
  BY DEF Carried, Message
<1>2. News \subseteq News'
  BY <1>1 DEF News
<1>3. Answers \subseteq Answers'
  BY DEF Answers, Message
<1> QED BY <1>1, <1>2, <1>3, SeqMonotonic

(* What a reply does to the updates of this round and to those put off.    *)
LEMMA ReplySent ==
  ASSUME Inv, NEW m \in News, SendReply(m)
  PROVE  updates' \in Seq(News) /\ pending' \in [0 .. MaxDelay -> Seq(Carried)]
<1> USE DEF Inv, Underway
<1>1. CASE UNCHANGED <<updates, pending>>
  BY <1>1
<1>2. CASE updates' = Append(updates, m) /\ UNCHANGED pending
  BY <1>2, AppendProperties
<1>3. ASSUME NEW d \in MinDelay .. MaxDelay, pending' = [pending EXCEPT ![d] = Append(@, m)],
             UNCHANGED updates
      PROVE  updates' \in Seq(News) /\ pending' \in [0 .. MaxDelay -> Seq(Carried)]
  <2>1. m \in Carried /\ d \in 0 .. MaxDelay
    BY DelayAssumption DEF News
  <2>2. Append(pending[d], m) \in Seq(Carried)
    BY <2>1, AppendProperties
  <2> QED BY <1>3, <2>1, <2>2
<1> QED BY <1>1, <1>2, <1>3 DEF SendReply

(* What messages say of their senders stays true. *)
LEMMA UnderwayStep ==
  ASSUME Inv, [Next]_experimentVars
  PROVE  Underway'
<1>1. graph' = graph /\ Nodes' = Nodes
  BY ChoiceStep DEF Inv, NodesTyped
<1>2. graph.n \in Nat \ {0}
  BY DEF Inv, ChoiceTypeOK
<1>3. ASSUME UNCHANGED state PROVE Carried' = Carried /\ News' = News /\ Answers' = Answers
  BY <1>1, <1>3 DEF Carried, News, Answers, Message
<1>4. MaxDelay \in Nat
  BY DelayAssumption
<1>5. CASE NextSimulation
  <2>1. messages' = << >> /\ updates' = << >> /\ feedbacks' = << >> /\ pending' = NoPending
    BY <1>5 DEF NextSimulation, Inv, Phased
  <2> QED BY <2>1, EmptySeq DEF Underway, NoPending
<1>6. CASE MainLoop
  <2>1. PICK p \in Nodes : messages' = messages \o RunMainLoop(node, p)
    BY <1>6 DEF MainLoop
  <2>2. node \in Nodes
    BY <1>2, <1>6 DEF MainLoop, Nodes, Inv, NodesTyped
  <2>3. messages' \in Seq(Carried)
    BY <2>1, <2>2, MainLoopSends, ConcatProperties DEF Inv, Underway
  <2> QED BY <1>3, <1>6, <2>3 DEF MainLoop, Inv, Underway
<1>7. CASE LoseMessages
  <2>1. PICK kept \in Survivors : messages' = Entries(messages, kept)
    BY <1>7 DEF LoseMessages
  <2>2. kept \in SUBSET (1 .. Len(messages))
    BY LenProperties DEF Survivors, Inv, Underway
  <2>3. messages' \in Seq(Carried)
    BY <2>1, <2>2, EntriesProps DEF Inv, Underway
  <2> QED BY <1>3, <1>7, <2>3 DEF LoseMessages, Inv, Underway
<1>8. CASE DelayMessages
  <2>1. PICK delay \in Delays : pending' = [d \in 0 .. MaxDelay |->
          pending[d] \o Entries(messages, {k \in DOMAIN messages : delay[k] = d})]
    BY <1>8 DEF DelayMessages
  <2>2. DOMAIN messages = 1 .. Len(messages)
    BY LenProperties DEF Inv, Underway
  <2>3. ASSUME NEW d \in 0 .. MaxDelay
        PROVE  pending[d] \o Entries(messages, {k \in DOMAIN messages : delay[k] = d})
                 \in Seq(Carried)
    <3>1. {k \in DOMAIN messages : delay[k] = d} \in SUBSET (1 .. Len(messages))
      BY <2>2
    <3>2. Entries(messages, {k \in DOMAIN messages : delay[k] = d}) \in Seq(Carried)
      BY <3>1, EntriesProps DEF Inv, Underway
    <3> QED BY <3>2, ConcatProperties DEF Inv, Underway
  <2>4. pending' \in [0 .. MaxDelay -> Seq(Carried)]
    BY <2>1, <2>3
  <2>5. messages' \in Seq(Carried)
    BY <1>4, <1>8, <2>4 DEF DelayMessages
  <2> QED BY <1>3, <1>8, <2>4, <2>5 DEF DelayMessages, Inv, Underway
<1>9. CASE RunOnUpdateRequest
  <2> DEFINE m == Head(messages)
  <2>1. messages # << >> /\ m \in Carried /\ messages' = Tail(messages)
        /\ messages' \in Seq(Carried) /\ UNCHANGED <<state, feedbacks>>
    BY <1>9, FirstMessages DEF RunOnUpdateRequest
  <2>2. CASE m.type = "update" /\ updates' = Append(updates, m) /\ UNCHANGED pending
    <3>1. m \in News
      BY <2>1, <2>2 DEF News
    <3>2. updates' \in Seq(News)
      BY <2>2, <3>1, AppendProperties DEF Inv, Underway
    <3> QED BY <1>3, <2>1, <2>2, <3>2 DEF Inv, Underway
  <2>3. CASE state[m.to] # "I" /\ UNCHANGED <<updates, pending>>
    BY <1>3, <2>1, <2>3 DEF Inv, Underway
  <2>4. CASE state[m.to] = "I" /\ SendReply(Update(m.to, m.from))
    <3>1. Update(m.to, m.from) \in News
      BY <2>1, <2>4 DEF News, Carried, Message, Update
    <3>2. updates' \in Seq(News) /\ pending' \in [0 .. MaxDelay -> Seq(Carried)]
      BY <2>4, <3>1, ReplySent
    <3> QED BY <1>3, <2>1, <3>2 DEF Inv, Underway
  <2> QED BY <1>9, <2>2, <2>3, <2>4 DEF RunOnUpdateRequest, OnUpdateRequest
<1>10. CASE RunOnUpdate
  <2> DEFINE m == Head(updates)
  <2>1. updates # << >> /\ m \in News /\ Tail(updates) \in Seq(News) /\ updates' = Tail(updates)
        /\ UNCHANGED <<messages, pending>> /\ OnUpdate(m)
    BY <1>10, FirstMessages DEF RunOnUpdate
  <2>2. m.to \in Nodes /\ m.from \in Nodes /\ m.from # m.to /\ state[m.from] = "I"
    BY <2>1 DEF News, Carried, Message
  <2>3. \A i \in Nodes : state'[i] # state[i] => state[i] = "S" /\ state'[i] = "I"
    BY <2>1, <2>2 DEF OnUpdate, Inv, NodesTyped
  <2>4. /\ Seq(Carried) \subseteq Seq(Carried') /\ Seq(News) \subseteq Seq(News')
        /\ Seq(Answers) \subseteq Seq(Answers')
    BY <1>1, <2>3, StillCarried
  <2>5. feedbacks' \in Seq(Answers)
    <3>1. CASE feedbacks' = feedbacks
      BY <3>1 DEF Inv, Underway
    <3>2. CASE state[m.to] # "S" /\ feedbacks' = Append(feedbacks, Feedback(m.to, m.from))
      <4>1. Feedback(m.to, m.from) \in Answers
        BY <2>2, <3>2 DEF Answers, Message, Feedback
      <4> QED BY <3>2, <4>1, AppendProperties DEF Inv, Underway
    <3> QED BY <2>1, <3>1, <3>2 DEF OnUpdate
  <2>6. messages' \in Seq(Carried') /\ updates' \in Seq(News') /\ feedbacks' \in Seq(Answers')
    BY <2>1, <2>4, <2>5 DEF Inv, Underway
  <2>7. pending' \in [0 .. MaxDelay -> Seq(Carried')]
    BY <2>1, <2>4 DEF Inv, Underway
  <2> QED BY <2>6, <2>7 DEF Underway
<1>11. CASE RunOnFeedback
  <2> DEFINE m == Head(feedbacks)
  <2>1. /\ feedbacks # << >> /\ Tail(feedbacks) \in Seq(Answers) /\ feedbacks' = Tail(feedbacks)
        /\ messages' = << >> /\ updates' = << >> /\ pending' = pending
        /\ OnFeedback(m) /\ m \in Answers
    BY <1>11, FirstMessages DEF RunOnFeedback
  <2>2. \A d \in 0 .. MaxDelay : pending[d] = << >>
    BY <2>1 DEF Inv, Phased
  <2>3. m.to \in Nodes
    BY <2>1 DEF Answers, Message
  <2>4. \A i \in Nodes : state[i] # "S" => state'[i] # "S"
    BY <2>1, <2>3 DEF OnFeedback, Inv, NodesTyped
  <2>5. Answers \subseteq Answers'
    BY <1>1, <2>4 DEF Answers, Message
  <2>6. feedbacks' \in Seq(Answers')
    BY <2>1, <2>5, SeqMonotonic
  <2>7. pending' \in [0 .. MaxDelay -> Seq(Carried')]
    BY <2>1, <2>2, EmptySeq DEF Inv, Underway
  <2> QED BY <2>1, <2>6, <2>7, EmptySeq DEF Underway
<1>12. CASE EndRound
  <2>1. pending' \in [0 .. MaxDelay -> Seq(Carried)]
    <3>1. ASSUME NEW d \in 0 .. MaxDelay
          PROVE  (IF d < MaxDelay THEN pending[d + 1] ELSE << >>) \in Seq(Carried)
      <4>1. d < MaxDelay => d + 1 \in 0 .. MaxDelay
        BY <1>4
      <4> QED BY <4>1, EmptySeq DEF Inv, Underway
    <3> QED BY <1>12, <3>1 DEF EndRound
  <2> QED BY <1>3, <1>12, <2>1 DEF EndRound, Inv, Underway
<1>13. CASE RunOutOfPicks \/ UNCHANGED experimentVars
  BY <1>3, <1>13 DEF RunOutOfPicks, experimentVars, gossipVars, nodeVars, Inv, Underway
<1> QED BY <1>5, <1>6, <1>7, <1>8, <1>9, <1>10, <1>11, <1>12, <1>13 DEF Next, GossipNext

(* Each list is empty when the loops of a round expect it to be, and a     *)
(* simulation that is done has finished.                                   *)
LEMMA PhasedStep ==
  ASSUME Inv, [Next]_experimentVars
  PROVE  Phased'
<1>1. graph' = graph /\ Nodes' = Nodes /\ task' = task
  BY ChoiceStep, SetupStep DEF Inv, NodesTyped
<1>2. MaxDelay \in Nat
  BY DelayAssumption
<1>3. CASE NextSimulation
  BY <1>1, <1>3 DEF NextSimulation, NoPending, Inv, Phased
<1>4. CASE MainLoop \/ RunOutOfPicks \/ LoseMessages
  BY <1>1, <1>4 DEF MainLoop, RunOutOfPicks, LoseMessages, Inv, Phased
<1>5. CASE DelayMessages
  BY <1>1, <1>5 DEF DelayMessages, Inv, Phased
<1>6. CASE RunOnUpdateRequest
  <2>1. task.kind # "async" => UNCHANGED pending
    BY <1>6 DEF RunOnUpdateRequest, OnUpdateRequest, SendReply
  <2> QED BY <1>1, <1>6, <2>1 DEF RunOnUpdateRequest, Inv, Phased
<1>7. CASE RunOnUpdate
  <2>1. task.kind # "sir" => UNCHANGED feedbacks
    BY <1>7 DEF RunOnUpdate, OnUpdate
  <2> QED BY <1>1, <1>7, <2>1 DEF RunOnUpdate, Inv, Phased
<1>8. CASE RunOnFeedback
  <2>1. task.kind = "sir"
    BY <1>8 DEF RunOnFeedback, Inv, Phased
  <2> QED BY <1>1, <1>8, <2>1 DEF RunOnFeedback, Inv, Phased
<1>9. CASE EndRound
  <2>1. Finished' <=> Finished
    BY <1>1, <1>9 DEF EndRound, Finished, Count
  <2>2. task.kind # "async" => \A d \in 0 .. MaxDelay : pending'[d] = << >>
    <3> SUFFICES ASSUME task.kind # "async", NEW d \in 0 .. MaxDelay
                 PROVE  pending'[d] = << >>
      OBVIOUS
    <3>1. d < MaxDelay => d + 1 \in 0 .. MaxDelay
      BY <1>2
    <3> QED BY <1>9, <3>1 DEF EndRound, Inv, Phased
  <2>3. phase' \in {"done", "main"} /\ node' = 0 /\ (phase' = "done" => Finished)
        /\ messages' = << >> /\ updates' = << >> /\ feedbacks' = << >>
    BY <1>9 DEF EndRound
  <2>4. graph'.n >= 2
    BY <1>1 DEF Inv, Phased
  <2> QED BY <1>1, <2>1, <2>2, <2>3, <2>4 DEF Phased
<1>10. CASE UNCHANGED experimentVars
  BY <1>1, <1>10 DEF experimentVars, gossipVars, nodeVars, Inv, Phased, Finished, Count
<1> QED BY <1>3, <1>4, <1>5, <1>6, <1>7, <1>8, <1>9, <1>10 DEF Next, GossipNext

(* Inv is inductive. *)
LEMMA InvStep == Inv /\ [Next]_experimentVars => Inv'
<1> SUFFICES ASSUME Inv, [Next]_experimentVars PROVE Inv'
  OBVIOUS
<1>1. ChoiceTypeOK'
  BY ChoiceStep DEF Inv, NodesTyped
<1> QED BY <1>1, SetupStep, NodesStep, CurvesStep, UnderwayStep, PhasedStep DEF Inv

(* What the experiments start with.                                        *)
LEMMA SetupsTyped ==
  ASSUME NEW x \in AllSetups
  PROVE  /\ x.kind \in {"si", "async", "sir"} /\ x.graph \in {"K", "R", "RG"}
         /\ x.fixed \in BOOLEAN /\ x.lossy \in BOOLEAN /\ x.k \in Nat \ {0}
         /\ Head(x.program) \in Modes /\ Tail(x.program) \in Seq(Modes)
<1> DEFINE Programs == {Compared, <<Push>>, <<Pull>>, <<PushPull>>}
           Good == [kind : {"si", "async", "sir"}, graph : {"K", "R", "RG"},
                    fixed : BOOLEAN, program : Programs, lossy : BOOLEAN, k : {1, 2}]
<1>1. \A p \in Programs : Head(p) \in Modes /\ Tail(p) \in Seq(Modes)
  <2>1. Push \in Modes /\ Pull \in Modes /\ PushPull \in Modes
    BY DEF Modes
  <2>2. /\ Compared \in Seq(Modes) /\ <<Push>> \in Seq(Modes)
        /\ <<Pull>> \in Seq(Modes) /\ <<PushPull>> \in Seq(Modes)
    BY <2>1 DEF Compared
  <2>3. \A p \in Programs : Len(p) # 0
    BY DEF Compared
  <2>4. \A p \in Programs : p \in Seq(Modes) /\ p # << >>
    BY <2>2, <2>3, EmptySeq
  <2> QED BY <2>4, HeadTailProperties
<1>2. \A K \in {"si", "async", "sir"}, graphs \in SUBSET {"K", "R", "RG"}, fixed \in BOOLEAN,
         programs \in SUBSET Programs, losses \in SUBSET BOOLEAN, ks \in SUBSET {1, 2} :
        Setups(K, graphs, fixed, programs, losses, ks) \subseteq Good
  BY DEF Setups
<1>3. /\ \A k \in {"si", "async", "sir"} : k \in {"si", "async", "sir"}
      /\ TRUE \in BOOLEAN /\ FALSE \in BOOLEAN
      /\ {FALSE} \in SUBSET BOOLEAN /\ BOOLEAN \in SUBSET BOOLEAN
      /\ {1} \in SUBSET {1, 2} /\ {1, 2} \in SUBSET {1, 2}
  OBVIOUS
<1> HIDE DEF Programs, Good
<1>4. \A graphs \in SUBSET {"K", "R", "RG"}, fixed \in BOOLEAN, p \in Programs :
        Lossless(graphs, fixed, p) \subseteq Good
  <2> SUFFICES ASSUME NEW graphs \in SUBSET {"K", "R", "RG"}, NEW fixed \in BOOLEAN,
                      NEW p \in Programs
               PROVE  Setups("si", graphs, fixed, {p}, {FALSE}, {1}) \subseteq Good
    BY DEF Lossless
  <2>1. {p} \in SUBSET Programs
    OBVIOUS
  <2> QED BY <1>2, <1>3, <2>1
<1>5. Compared \in Programs /\ <<Push>> \in Programs /\ <<Pull>> \in Programs /\ <<PushPull>> \in Programs
  BY DEF Programs
<1>6. /\ RunCompleteSiSingle \subseteq Good /\ RunCompleteSiMeanStd \subseteq Good
      /\ CompareCompleteSiExp \subseteq Good /\ CompareCompleteSiLoglog \subseteq Good
      /\ CompleteSiVsGraphSize \subseteq Good /\ CompareCompleteSiPhases \subseteq Good
      /\ RingSiVsGraphSize \subseteq Good /\ RandGeomSiVsGraphSize \subseteq Good
      /\ SiRoundsCompareTopologies \subseteq Good
  BY <1>4, <1>5 DEF RunCompleteSiSingle, RunCompleteSiMeanStd, CompareCompleteSiExp,
     CompareCompleteSiLoglog, CompleteSiVsGraphSize, CompareCompleteSiPhases,
     RingSiVsGraphSize, RandGeomSiVsGraphSize, SiRoundsCompareTopologies
<1>7. SiRoundsMsgLoss \subseteq Good /\ CompareSyncAsyncMultiple \subseteq Good
  <2>1. {<<PushPull>>} \in SUBSET Programs /\ {"K", "RG"} \in SUBSET {"K", "R", "RG"}
    BY <1>5
  <2> QED BY <1>2, <1>3, <2>1 DEF SiRoundsMsgLoss, CompareSyncAsyncMultiple
<1>8. SingleRunSir \subseteq Good /\ MultipleRunSir \subseteq Good
  <2>1. /\ {<<Push>>, <<Pull>>, <<PushPull>>} \in SUBSET Programs
        /\ {<<PushPull>>} \in SUBSET Programs /\ {"K", "RG"} \in SUBSET {"K", "R", "RG"}
    BY <1>5
  <2> QED BY <1>2, <1>3, <2>1 DEF SingleRunSir, MultipleRunSir
<1>9. x \in Good
  BY <1>6, <1>7, <1>8 DEF AllSetups, CompareAsyncVsGraphSize
<1> QED BY <1>1, <1>9 DEF Good

(* Inv holds at the start. *)
LEMMA InvInit == Init => Inv
<1> SUFFICES ASSUME Init PROVE Inv
  OBVIOUS
<1>1. PICK x \in AllSetups, i \in Instances :
        /\ i.kind = x.kind /\ i.graph = x.graph /\ i.fixed = x.fixed
        /\ GossipInit([kind |-> x.kind, lossy |-> x.lossy, k |-> x.k, rounds |-> i.rounds],
                      Head(x.program),
                      [kind |-> x.graph, n |-> i.n, fixed |-> x.fixed,
                       neighbors |-> i.neighbors])
        /\ todo = Tail(x.program)
        /\ results = << >>
  BY DEF Init
<1>2. /\ x.kind \in {"si", "async", "sir"} /\ x.graph \in {"K", "R", "RG"}
      /\ x.fixed \in BOOLEAN /\ x.lossy \in BOOLEAN /\ x.k \in Nat \ {0}
      /\ Head(x.program) \in Modes /\ Tail(x.program) \in Seq(Modes)
  BY SetupsTyped
<1>3. /\ i.n \in Nat /\ i.n >= 2 /\ i.rounds \in Nat
      /\ i.neighbors \in [0 .. i.n - 1 -> SUBSET (0 .. i.n - 1)]
  BY InstancesAssumption
<1>4. /\ graph.kind = x.graph /\ graph.n = i.n /\ graph.fixed = x.fixed
      /\ graph.neighbors = i.neighbors
      /\ picks = [s \in Schedules |-> << >>] /\ ptr = [s \in Schedules |-> -1]
  BY <1>1 DEF GossipInit, ChoiceInit
<1>5. ChoiceTypeOK
  <2>1. \A s \in Schedules : ptr[s] = -1 /\ picks[s] = << >>
    BY <1>4
  <2>2. ScheduleLength \in Nat
    BY <1>3, <1>4, LengthType
  <2>3. /\ picks \in [Schedules -> Seq(Nodes)] /\ ptr \in [Schedules -> Int]
        /\ \A s \in Schedules : Len(picks[s]) = 0
    BY <1>4, EmptySeq
  <2>4. graph.n \in Nat \ {0} /\ graph.kind \in {"K", "R", "RG"} /\ graph.fixed \in BOOLEAN
        /\ graph.neighbors \in [Nodes -> SUBSET Nodes]
    BY <1>2, <1>3, <1>4 DEF Nodes
  <2> QED BY <2>1, <2>2, <2>3, <2>4, EmptySeq DEF ChoiceTypeOK
<1>6. SetupTyped
  BY <1>1, <1>2, <1>3, EmptySeq DEF GossipInit, SetupTyped
<1>7. NodesTyped
  BY <1>1, <1>3, <1>4 DEF GossipInit, NodesTyped, Started
<1>8. CurvesTyped
  BY <1>1, <1>3, <1>4 DEF GossipInit, CurvesTyped, Curve
<1>9. Underway /\ Phased
  BY <1>1, <1>3, <1>4, EmptySeq DEF GossipInit, Underway, Phased, NoPending
<1> QED BY <1>5, <1>6, <1>7, <1>8, <1>9 DEF Inv

(* Every simulation of the experiments keeps the invariant.                *)
LEMMA Invariant == Spec => []Inv
<1>1. Init => Inv
  BY InvInit
<1>2. Inv /\ [Next]_experimentVars => Inv'
  BY InvStep
<1> QED BY <1>1, <1>2, PTL DEF Spec

(* The variables of the simulations keep their types: the schedules are    *)
(* never read beyond their ends, and no list gets a message that is none.  *)
THEOREM TypeCorrect == Spec => []TypeOK
BY Invariant, InvTyped, PTL

-----------------------------------------------------------------------------
(* A simulation ends when nobody is left to inform, or nobody to do it.    *)
LEMMA FinishedIsOver ==
  ASSUME Inv, Finished
  PROVE  Abstract!Over
<1> DEFINE Of(s) == {i \in Nodes : state[i] = s}
<1>1. graph.n \in Nat /\ graph.n >= 2 /\ Abstract!Node = Nodes
  BY DEF Inv, ChoiceTypeOK, Phased, NodesTyped, Abstract!Node
<1>2. \A s : IsFiniteSet(Of(s)) /\ Count(s) = Cardinality(Of(s))
  BY <1>1, CountType DEF Count
<1>3. CASE Count("I") = 0
  <2>1. Of("I") = {}
    BY <1>2, <1>3, FS_EmptySet
  <2> QED BY <1>1, <2>1 DEF Abstract!Over
<1>4. CASE Count("S") = 0
  <2>1. Of("S") = {}
    BY <1>2, <1>4, FS_EmptySet
  <2> QED BY <1>1, <2>1 DEF Abstract!Over, Abstract!Informed
<1>5. CASE Count("I") = graph.n
  <2>1. IsFiniteSet(Nodes) /\ Cardinality(Nodes) = graph.n
    BY <1>1, FS_Interval DEF Nodes
  <2>2. Of("I") = Nodes
    BY <1>2, <1>5, <2>1, FS_Subset
  <2> QED BY <1>1, <2>2 DEF Abstract!Over, Abstract!Informed
<1> QED BY <1>3, <1>4, <1>5 DEF Finished

(* At the start of every simulation node 0 has the news.                   *)
LEMMA StartedInfected ==
  ASSUME graph.n \in Nat, graph.n >= 2
  PROVE  Abstract!OneInfected(Started) /\ DOMAIN Started = Nodes
<1>1. DOMAIN Started = Nodes /\ 0 \in Nodes
  BY DEF Started, Nodes
<1>2. Started = [m \in DOMAIN Started |-> IF m = 0 THEN "I" ELSE "S"]
  BY <1>1 DEF Started
<1> QED BY <1>1, <1>2 DEF Abstract!OneInfected

(* A step of a simulation is the same step of the epidemic, or none: only  *)
(* an update infects, only feedback removes, and the next simulation       *)
(* begins when one is over.                                                *)
LEMMA StepRefines ==
  ASSUME Inv, [Next]_experimentVars
  PROVE  [Abstract!Next]_state
<1>1. Abstract!Node = Nodes /\ graph.n \in Nat /\ graph.n >= 2
  BY DEF Inv, ChoiceTypeOK, Phased, NodesTyped, Abstract!Node
<1>2. CASE NextSimulation
  <2>1. Abstract!Over
    BY <1>2, FinishedIsOver DEF NextSimulation, Inv, Phased
  <2>2. Abstract!OneInfected(state') /\ DOMAIN state' = Nodes
    BY <1>1, <1>2, StartedInfected DEF NextSimulation
  <2> QED BY <1>1, <2>1, <2>2 DEF Abstract!Next, Abstract!Restart
<1>3. CASE RunOnUpdate
  <2> DEFINE m == Head(updates)
  <2>1. m.to \in Nodes /\ m.from \in Nodes /\ state[m.from] = "I" /\ OnUpdate(m)
    BY <1>3, FirstMessages DEF RunOnUpdate, News, Carried, Message
  <2>2. CASE UNCHANGED state
    BY <2>2
  <2>3. CASE state[m.to] = "S" /\ state' = [state EXCEPT ![m.to] = "I"]
    BY <1>1, <2>1, <2>3 DEF Abstract!Next, Abstract!Infect
  <2> QED BY <2>1, <2>2, <2>3 DEF OnUpdate
<1>4. CASE RunOnFeedback
  <2> DEFINE m == Head(feedbacks)
  <2>1. /\ m.to \in Nodes /\ m.from \in Nodes /\ m.from # m.to
        /\ state[m.from] # "S" /\ state[m.to] # "S" /\ OnFeedback(m)
    BY <1>4, FirstMessages DEF RunOnFeedback, Answers, Message
  <2>2. CASE UNCHANGED state
    BY <2>2
  <2>3. CASE state' = [state EXCEPT ![m.to] = "R"] /\ state[m.to] = "I"
    <3>1. Abstract!Informed # {m.to}
      BY <1>1, <2>1 DEF Abstract!Informed
    <3> QED BY <1>1, <2>1, <2>3, <3>1 DEF Abstract!Next, Abstract!Remove
  <2>4. CASE state' = [state EXCEPT ![m.to] = "R"] /\ state[m.to] = "R"
    BY <2>1, <2>4 DEF Inv, NodesTyped
  <2>5. state[m.to] \in {"I", "R"}
    BY <2>1 DEF Inv, NodesTyped
  <2> QED BY <2>1, <2>2, <2>3, <2>4, <2>5 DEF OnFeedback
<1>5. CASE UNCHANGED state
  BY <1>5
<1> QED BY <1>2, <1>3, <1>4, <1>5 DEF Next, GossipNext, MainLoop, RunOutOfPicks, LoseMessages,
     DelayMessages, RunOnUpdateRequest, EndRound, experimentVars, gossipVars, nodeVars

(* All simulations of all experiments, on graphs of any size and with any  *)
(* losses and delays, implement the epidemic: the news only comes from a   *)
(* node that spreads it, and is never lost by everybody.                   *)
THEOREM Refinement == Spec => ImplementsEpidemic
<1>1. Init => Abstract!Init
  <2> SUFFICES ASSUME Init PROVE Abstract!Init
    OBVIOUS
  <2>1. graph.n \in Nat /\ graph.n >= 2
    BY InvInit DEF Inv, ChoiceTypeOK, Phased
  <2>2. state = Started
    BY DEF Init, GossipInit
  <2> QED BY <2>1, <2>2, StartedInfected DEF Abstract!Init
<1>2. Inv /\ [Next]_experimentVars => [Abstract!Next]_state
  BY StepRefines
<1> QED BY <1>1, <1>2, Invariant, PTL DEF Spec, ImplementsEpidemic, Abstract!Spec

-----------------------------------------------------------------------------
(* What the curves show.  In every round of a simulation the last entries  *)
(* are what the round began with, and news put off by MinDelay rounds or   *)
(* more cannot be here before.                                             *)
InTime ==
  task.kind = "async" =>
    /\ \A d \in 0 .. MaxDelay : pending[d] # << >> => d + Now > MinDelay
    /\ phase = "deliver" /\ messages # << >> => Now > MinDelay
    /\ updates # << >> => Now > MinDelay
    /\ (\E i \in Nodes : i # 0 /\ state[i] # "S") => Now > MinDelay

CurveInv ==
  /\ Now >= 1 /\ Len(removed) = Now
  /\ Spread(Now) + Count("S") <= graph.n
  /\ removed[Now] <= Count("R")
  /\ CurvesGrow

TimeInv == InTime /\ NewsTakesTime

-----------------------------------------------------------------------------
(* Every node is in one of three states.                                   *)
LEMMA CountSum ==
  ASSUME NodesTyped, graph.n \in Nat
  PROVE  Count("S") + Count("I") + Count("R") = graph.n
<1> DEFINE Of(s) == {i \in Nodes : state[i] = s}
<1>1. IsFiniteSet(Nodes) /\ Cardinality(Nodes) = graph.n
  BY NumbersBelow DEF Nodes
<1>2. \A s : IsFiniteSet(Of(s)) /\ Count(s) = Cardinality(Of(s)) /\ Count(s) \in Nat
  <2>1. \A s : Count(s) \in 0 .. graph.n /\ IsFiniteSet(Of(s))
    BY CountType
  <2> QED BY <2>1 DEF Count
<1>3. Nodes = (Of("S") \cup Of("I")) \cup Of("R")
  BY DEF NodesTyped
<1>4. Of("S") \cap Of("I") = {} /\ (Of("S") \cup Of("I")) \cap Of("R") = {}
  OBVIOUS
<1> HIDE DEF Of
<1>5. IsFiniteSet(Of("S") \cup Of("I")) /\ Cardinality(Of("S") \cup Of("I")) = Count("S") + Count("I")
  BY <1>2, <1>4, FS_Union, FS_EmptySet
<1>6. Cardinality(Nodes) = Cardinality(Of("S") \cup Of("I")) + Count("R")
  <2> DEFINE A == Of("S") \cup Of("I")
  <2>1. IsFiniteSet(A) /\ Cardinality(A) \in Nat /\ A \cap Of("R") = {}
    BY <1>4, <1>5, FS_CardinalityType
  <2> HIDE DEF A
  <2>2. Cardinality(A \cup Of("R")) = Cardinality(A) + Cardinality(Of("R")) - Cardinality(A \cap Of("R"))
    BY <1>2, <2>1, FS_Union
  <2>3. Cardinality(A \cup Of("R")) = Cardinality(A) + Count("R")
    BY <1>2, <2>1, <2>2, FS_EmptySet
  <2> QED BY <1>3, <2>3 DEF A
<1> QED BY <1>1, <1>2, <1>5, <1>6

(* An update makes at most one more node informed, and feedback removes.   *)
LEMMA CountStep ==
  ASSUME Inv, [Next]_experimentVars, ~NextSimulation
  PROVE  /\ Count("S")' \in {Count("S"), Count("S") - 1}
         /\ Count("R") <= Count("R")' /\ Count("R")' \in Nat
         /\ ~RunOnUpdate => Count("S")' = Count("S")
<1> DEFINE Of(s) == {i \in Nodes : state[i] = s}
           Then(s) == {i \in Nodes : state'[i] = s}
<1>1. graph' = graph /\ Nodes' = Nodes /\ graph.n \in Nat
  BY ChoiceStep DEF Inv, NodesTyped, ChoiceTypeOK
<1>2. \A s : IsFiniteSet(Of(s)) /\ Count(s) = Cardinality(Of(s)) /\ Count(s) \in Nat
  <2>1. \A s : Count(s) \in 0 .. graph.n /\ IsFiniteSet(Of(s))
    BY <1>1, CountType
  <2>2. \A s : Count(s) = Cardinality(Of(s))
    BY DEF Count
  <2> HIDE DEF Of
  <2> QED BY <1>1, <2>1, <2>2
<1>3. \A s : Count(s)' = Cardinality(Then(s)) /\ IsFiniteSet(Then(s)) /\ Cardinality(Then(s)) \in Nat
  <2>1. IsFiniteSet(Nodes)
    BY <1>1, FS_Interval DEF Nodes
  <2>2. \A s : Then(s) \in SUBSET Nodes
    OBVIOUS
  <2>3. \A s : Count(s)' = Cardinality(Then(s))
    BY <1>1 DEF Count
  <2> HIDE DEF Then
  <2> QED BY <2>1, <2>2, <2>3, FS_Subset, FS_CardinalityType
<1>4. ASSUME Then("S") \in {Of("S"), Of("S") \ {Head(updates).to}},
             Of("R") \subseteq Then("R"), ~RunOnUpdate => Then("S") = Of("S")
      PROVE  /\ Count("S")' \in {Count("S"), Count("S") - 1}
             /\ Count("R") <= Count("R")' /\ Count("R")' \in Nat
             /\ ~RunOnUpdate => Count("S")' = Count("S")
  <2> HIDE DEF Of, Then
  <2>1. Cardinality(Of("S") \ {Head(updates).to}) \in {Count("S"), Count("S") - 1}
    BY <1>2, FS_RemoveElement
  <2>2. Cardinality(Of("R")) <= Cardinality(Then("R"))
    BY <1>3, <1>4, FS_Subset
  <2> QED BY <1>2, <1>3, <1>4, <2>1, <2>2
<1>5. CASE UNCHANGED state
  BY <1>4, <1>5
<1>6. CASE RunOnUpdate
  <2> DEFINE m == Head(updates)
  <2>1. m.to \in Nodes /\ OnUpdate(m)
    BY <1>6, FirstMessages DEF RunOnUpdate, News, Carried, Message
  <2>2. CASE state[m.to] = "S" /\ state' = [state EXCEPT ![m.to] = "I"]
    <3>1. \A i \in Nodes : state'[i] = IF i = m.to THEN "I" ELSE state[i]
      BY <2>1, <2>2 DEF Inv, NodesTyped
    <3> HIDE DEF m
    <3>2. Then("S") = Of("S") \ {m.to} /\ Of("R") \subseteq Then("R")
      BY <2>1, <2>2, <3>1
    <3> QED BY <1>4, <1>6, <3>2 DEF m
  <2> QED BY <1>5, <2>1, <2>2 DEF OnUpdate
<1>7. CASE RunOnFeedback
  <2> DEFINE m == Head(feedbacks)
  <2>1. m.to \in Nodes /\ OnFeedback(m) /\ state[m.to] # "S"
    BY <1>7, FirstMessages DEF RunOnFeedback, Answers, Message
  <2>2. CASE state' = [state EXCEPT ![m.to] = "R"]
    <3>1. \A i \in Nodes : state'[i] = IF i = m.to THEN "R" ELSE state[i]
      BY <2>1, <2>2 DEF Inv, NodesTyped
    <3> HIDE DEF m
    <3>2. Then("S") = Of("S") /\ Of("R") \subseteq Then("R")
      BY <2>1, <3>1
    <3> QED BY <1>4, <3>2
  <2> QED BY <1>5, <2>1, <2>2 DEF OnFeedback
<1> QED BY <1>5, <1>6, <1>7 DEF Next, GossipNext, MainLoop, RunOutOfPicks, LoseMessages,
     DelayMessages, RunOnUpdateRequest, EndRound, experimentVars, gossipVars, nodeVars

(* At the start of a simulation one node is infected.                      *)
LEMMA StartedCounts ==
  ASSUME graph.n \in Nat, graph.n >= 2
  PROVE  /\ Cardinality({i \in Nodes : Started[i] = "S"}) = graph.n - 1
         /\ Cardinality({i \in Nodes : Started[i] = "I"}) = 1
         /\ Cardinality({i \in Nodes : Started[i] = "R"}) = 0
<1>1. 0 \in Nodes
  BY DEF Nodes
<1>2. IsFiniteSet(Nodes) /\ Cardinality(Nodes) = graph.n
  BY NumbersBelow DEF Nodes
<1>3. /\ {i \in Nodes : Started[i] = "I"} = {0} /\ {i \in Nodes : Started[i] = "R"} = {}
      /\ {i \in Nodes : Started[i] = "S"} = Nodes \ {0}
  BY <1>1 DEF Started
<1>4. Cardinality(Nodes \ {0}) = graph.n - 1
  BY <1>1, <1>2, FS_RemoveElement
<1> QED BY <1>3, <1>4, FS_EmptySet, FS_Singleton

-----------------------------------------------------------------------------
(* The curves grow, and end with the first round in which all are infected.*)
LEMMA CurveStep ==
  ASSUME Inv, CurveInv, [Next]_experimentVars
  PROVE  CurveInv'
<1>1. graph' = graph /\ Nodes' = Nodes /\ task' = task /\ graph.n \in Nat /\ graph.n >= 2
  BY ChoiceStep, SetupStep DEF Inv, NodesTyped, ChoiceTypeOK, Phased
<1>2. /\ infected \in Seq(Nat) /\ removed \in Seq(Nat) /\ Now \in Nat
      /\ \A r \in 1 .. Now : infected[r] \in 0 .. graph.n /\ removed[r] \in 0 .. graph.n
  <2>1. 0 .. graph.n \subseteq Nat
    BY <1>1
  <2> QED BY <2>1, SeqMonotonic, LenProperties, ElementOfSeq
          DEF Inv, CurvesTyped, Curve, CurveInv, Now
<1>3. \A s : Count(s) \in 0 .. graph.n
  BY <1>1, CountType
<1>4. CASE NextSimulation
  <2>1. infected' = <<1>> /\ removed' = <<0>> /\ state' = Started /\ phase' = "main"
    BY <1>4 DEF NextSimulation
  <2>2. Count("S")' = graph.n - 1 /\ Count("R")' = 0
    BY <1>1, <2>1, StartedCounts DEF Count
  <2>3. CurvesGrow'
    BY <1>1, <2>1 DEF CurvesGrow, Spread
  <2> QED BY <1>1, <2>1, <2>2, <2>3 DEF CurveInv, Now, Spread
<1>5. CASE EndRound
  <2> DEFINE a == Count("I")  b == Count("R")
  <2>1. infected' = Append(infected, a) /\ removed' = Append(removed, b)
        /\ phase' = (IF Finished THEN "done" ELSE "main") /\ phase = "deliver" /\ state' = state
    BY <1>5 DEF EndRound
  <2>2. Count("S")' = Count("S") /\ Count("R")' = b
    BY <1>1, <2>1 DEF Count
  <2>3. Count("S") + a + b = graph.n
    BY <1>1, CountSum DEF Inv
  <2>4. a \in 0 .. graph.n /\ b \in 0 .. graph.n
    BY <1>3
  <2>5. task.kind # "sir" => (Finished <=> a = graph.n)
    BY DEF Finished
  <2> HIDE DEF a, b
  <2>6. PICK n \in Nat : n = Now /\ n >= 1
    BY <1>2 DEF CurveInv
  <2>7. /\ Len(infected') = n + 1 /\ Len(removed') = n + 1
        /\ infected'[n + 1] = a /\ removed'[n + 1] = b
        /\ \A r \in 1 .. n : infected'[r] = infected[r] /\ removed'[r] = removed[r]
    BY <1>2, <2>1, <2>4, <2>6, AppendProperties DEF CurveInv, Now
  <2>8. infected[n] + removed[n] + Count("S") <= graph.n /\ removed[n] <= b
        /\ infected[n] \in Nat /\ removed[n] \in Nat /\ Count("S") \in Nat
    BY <1>2, <1>3, <2>6 DEF CurveInv, Spread, b
  <2>9. ASSUME NEW r \in 1 .. n
        PROVE  /\ infected'[r] + removed'[r] <= infected'[r + 1] + removed'[r + 1]
               /\ removed'[r] <= removed'[r + 1]
    <3>1. CASE r < n
      <4>1. r \in 1 .. n - 1 /\ r + 1 \in 1 .. n
        BY <3>1
      <4>2. infected[r] + removed[r] <= infected[r + 1] + removed[r + 1] /\ removed[r] <= removed[r + 1]
        BY <2>6, <4>1 DEF CurveInv, CurvesGrow, Now, Spread
      <4> QED BY <2>7, <4>1, <4>2
    <3>2. CASE r = n
      BY <1>1, <2>3, <2>4, <2>7, <2>8, <3>2
    <3> QED BY <3>1, <3>2
  <2>10. ASSUME task.kind # "sir", NEW r \in 1 .. n + 1
         PROVE  infected'[r] = graph.n <=> r = n + 1 /\ phase' = "done"
    <3>1. CASE r \in 1 .. n
      BY <1>2, <2>1, <2>6, <2>7, <2>10, <3>1 DEF CurveInv, CurvesGrow, Now
    <3>2. CASE r = n + 1
      BY <2>1, <2>5, <2>7, <2>10, <3>2
    <3> QED BY <3>1, <3>2
  <2>11. CurvesGrow'
    BY <1>1, <2>6, <2>7, <2>9, <2>10 DEF CurvesGrow, Spread
  <2> QED BY <1>1, <2>2, <2>3, <2>4, <2>6, <2>7, <2>8, <2>11 DEF CurveInv, Now, Spread
<1>6. CASE ~NextSimulation /\ ~EndRound
  <2>1. /\ infected' = infected /\ removed' = removed
        /\ phase' # phase => phase # "done" /\ phase' # "done"
    BY <1>6 DEF Next, GossipNext, MainLoop, RunOutOfPicks, LoseMessages, DelayMessages,
       RunOnUpdateRequest, RunOnUpdate, RunOnFeedback, experimentVars, gossipVars, nodeVars
  <2>2. /\ Count("S")' \in {Count("S"), Count("S") - 1}
        /\ Count("R") <= Count("R")' /\ Count("R")' \in Nat
    BY <1>6, CountStep
  <2>3. /\ Now' = Now /\ Spread(Now)' = Spread(Now)
        /\ Spread(Now) \in Nat /\ removed[Now] \in Nat /\ removed'[Now'] = removed[Now]
    BY <1>2, <2>1 DEF Spread, Now, CurveInv
  <2>4. Spread(Now)' + Count("S")' <= graph'.n
    BY <1>1, <1>3, <2>2, <2>3 DEF CurveInv
  <2>5. removed'[Now'] <= Count("R")'
    BY <1>3, <2>2, <2>3 DEF CurveInv
  <2>6. CurvesGrow'
    BY <1>1, <2>1 DEF CurveInv, CurvesGrow, Spread
  <2> QED BY <2>1, <2>3, <2>4, <2>5, <2>6 DEF CurveInv, Now
<1> QED BY <1>4, <1>5, <1>6

(* Each simulation starts with curves of one entry.                        *)
LEMMA CurveInit == Init => CurveInv /\ TimeInv
<1> SUFFICES ASSUME Init PROVE CurveInv /\ TimeInv
  OBVIOUS
<1>1. /\ infected = <<1>> /\ removed = <<0>> /\ state = Started /\ phase = "main"
      /\ messages = << >> /\ updates = << >> /\ pending = NoPending
  BY DEF Init, GossipInit
<1>2. graph.n \in Nat /\ graph.n >= 2
  BY InvInit DEF Inv, ChoiceTypeOK, Phased
<1>3. Count("S") = graph.n - 1 /\ Count("R") = 0
  BY <1>1, <1>2, StartedCounts DEF Count
<1>4. CurveInv
  BY <1>1, <1>2, <1>3 DEF CurveInv, CurvesGrow, Now, Spread
<1>5. TimeInv
  BY <1>1 DEF TimeInv, InTime, NewsTakesTime, Now, Started, NoPending
<1> QED BY <1>4, <1>5

(* Whatever is lost or delayed, the news is never unlearnt, nobody removed *)
(* comes back, and SI stops exactly in the first round that reaches all.   *)
THEOREM CurvesCorrect == Spec => []CurvesGrow
<1>1. Init => CurveInv
  BY CurveInit
<1>2. Inv /\ CurveInv /\ [Next]_experimentVars => CurveInv'
  BY CurveStep
<1>3. CurveInv => CurvesGrow
  BY DEF CurveInv
<1> QED BY <1>1, <1>2, <1>3, Invariant, PTL DEF Spec

-----------------------------------------------------------------------------
(* News that was put off arrives in its round and not before.              *)
LEMMA InTimeStep ==
  ASSUME Inv, Now >= 1, TimeInv, [Next]_experimentVars
  PROVE  InTime'
<1>1. graph' = graph /\ Nodes' = Nodes /\ task' = task
  BY ChoiceStep, SetupStep DEF Inv, NodesTyped
<1>2. MinDelay \in Nat \ {0} /\ MaxDelay \in Nat /\ MinDelay <= MaxDelay
  BY DelayAssumption
<1>3. SUFFICES ASSUME task.kind = "async" PROVE InTime'
  BY <1>1 DEF InTime
<1>4. Now \in Nat
  BY LenProperties DEF Inv, CurvesTyped, Curve, Now
<1>5. InTime
  BY DEF TimeInv
<1>6. CASE NextSimulation
  <2>1. /\ pending' = NoPending /\ messages' = << >> /\ updates' = << >> /\ state' = Started
    BY <1>6 DEF NextSimulation, Inv, Phased
  <2> QED BY <1>1, <2>1 DEF InTime, NoPending, Started
<1>7. CASE MainLoop \/ RunOutOfPicks \/ LoseMessages
  BY <1>1, <1>3, <1>5, <1>7 DEF MainLoop, RunOutOfPicks, LoseMessages, InTime, Now
<1>8. CASE DelayMessages
  <2>1. PICK delay \in Delays : pending' = [d \in 0 .. MaxDelay |->
          pending[d] \o Entries(messages, {k \in DOMAIN messages : delay[k] = d})]
    BY <1>8 DEF DelayMessages
  <2>2. Now' = Now /\ messages' = pending'[0] /\ UNCHANGED <<updates, state>>
    BY <1>8 DEF DelayMessages, Now
  <2>3. ASSUME NEW d \in 0 .. MaxDelay, pending'[d] # << >>
        PROVE  d + Now > MinDelay
    <3>1. CASE pending[d] # << >>
      BY <1>3, <1>5, <3>1 DEF InTime
    <3>2. CASE d >= MinDelay
      BY <1>2, <1>4, <3>2
    <3>3. CASE pending[d] = << >> /\ d < MinDelay
      <4>1. {k \in DOMAIN messages : delay[k] = d} = {}
        BY <1>2, <2>1, <3>3 DEF Delays
      <4>2. Entries(messages, {}) = << >>
        BY FS_EmptySet DEF Entries
      <4>3. pending'[d] = << >> \o << >>
        BY <2>1, <3>3, <4>1, <4>2
      <4>4. pending'[d] = << >>
        BY <4>3
      <4> QED BY <2>3, <4>4
    <3> QED BY <1>2, <3>1, <3>2, <3>3
  <2>4. messages' # << >> => Now > MinDelay
    BY <1>2, <1>4, <2>2, <2>3
  <2> QED BY <1>1, <1>3, <1>5, <2>2, <2>3, <2>4 DEF InTime
<1>9. CASE RunOnUpdateRequest
  <2>1. Now' = Now /\ Now > MinDelay /\ UNCHANGED state
    BY <1>3, <1>5, <1>9 DEF RunOnUpdateRequest, InTime, Now
  <2>2. \A d \in 0 .. MaxDelay : d + Now > MinDelay
    BY <1>2, <1>4, <2>1
  <2> QED BY <1>1, <1>3, <1>5, <2>1, <2>2 DEF InTime
<1>10. CASE RunOnUpdate
  <2>1. Now' = Now /\ Now > MinDelay
    BY <1>3, <1>5, <1>10 DEF RunOnUpdate, InTime, Now
  <2>2. \A d \in 0 .. MaxDelay : d + Now > MinDelay
    BY <1>2, <1>4, <2>1
  <2> QED BY <2>1, <2>2 DEF InTime
<1>11. CASE RunOnFeedback
  BY <1>3, <1>11 DEF RunOnFeedback, Inv, Phased
<1>12. CASE EndRound
  <2>1. Now' = Now + 1
    BY <1>12, AppendProperties DEF EndRound, Now, Inv, CurvesTyped, Curve
  <2>2. ASSUME NEW d \in 0 .. MaxDelay, pending'[d] # << >>
        PROVE  d + Now' > MinDelay
    <3>1. d < MaxDelay /\ d + 1 \in 0 .. MaxDelay /\ pending[d + 1] # << >>
      BY <1>2, <1>12, <2>2 DEF EndRound
    <3>2. d + 1 + Now > MinDelay
      BY <1>3, <1>5, <3>1 DEF InTime
    <3> QED BY <1>4, <2>1, <3>2
  <2>3. phase' # "deliver" /\ updates' = << >> /\ UNCHANGED state
    BY <1>12 DEF EndRound
  <2>4. Now > MinDelay => Now' > MinDelay
    BY <1>2, <1>4, <2>1
  <2> QED BY <1>1, <1>3, <1>5, <2>2, <2>3, <2>4 DEF InTime
<1>13. CASE UNCHANGED experimentVars
  BY <1>1, <1>3, <1>5, <1>13 DEF experimentVars, gossipVars, nodeVars, InTime, Now
<1> QED BY <1>6, <1>7, <1>8, <1>9, <1>10, <1>11, <1>12, <1>13 DEF Next, GossipNext

(* Two infected nodes are not both node 0.                                 *)
LEMMA OtherInfected ==
  ASSUME graph.n \in Nat, Count("I") > 1
  PROVE  \E i \in Nodes : i # 0 /\ state[i] # "S"
<1> SUFFICES ASSUME \A i \in Nodes : i = 0 \/ state[i] = "S" PROVE FALSE
  OBVIOUS
<1> DEFINE C == {i \in Nodes : state[i] = "I"}
<1>1. C \in SUBSET {0}
  OBVIOUS
<1>2. Count("I") = Cardinality(C) /\ Count("I") \in 0 .. graph.n
  BY CountType DEF Count
<1> HIDE DEF C
<1>3. IsFiniteSet({0}) /\ Cardinality({0}) = 1
  BY FS_Singleton
<1>4. Cardinality(C) <= 1
  BY <1>1, <1>3, FS_Subset
<1> QED BY <1>2, <1>4

(* TimeInv is kept by every step. *)
LEMMA TimeStep ==
  ASSUME Inv, Now >= 1, TimeInv, [Next]_experimentVars
  PROVE  TimeInv'
<1>1. InTime'
  BY InTimeStep
<1>2. graph' = graph /\ task' = task /\ graph.n \in Nat
  BY ChoiceStep, SetupStep DEF Inv, NodesTyped, ChoiceTypeOK
<1>3. SUFFICES ASSUME task.kind = "async", NEW r \in 1 .. Len(infected'), infected'[r] > 1
               PROVE  r - 2 >= MinDelay
  BY <1>1, <1>2 DEF TimeInv, NewsTakesTime
<1>4. CASE NextSimulation
  BY <1>3, <1>4 DEF NextSimulation
<1>5. CASE EndRound
  <2> DEFINE a == Count("I")
  <2>1. infected' = Append(infected, a)
    BY <1>5 DEF EndRound
  <2>2. a \in 0 .. graph.n
    BY <1>2, CountType
  <2>3. a > 1 => Now > MinDelay
    BY <1>2, <1>3, OtherInfected DEF TimeInv, InTime
  <2> HIDE DEF a
  <2>4. /\ Len(infected') = Now + 1 /\ infected'[Now + 1] = a /\ Now \in Nat
        /\ \A k \in 1 .. Now : infected'[k] = infected[k]
    BY <2>1, <2>2, AppendProperties, LenProperties DEF Inv, CurvesTyped, Curve, Now
  <2>5. CASE r \in 1 .. Now
    BY <1>3, <2>4, <2>5 DEF TimeInv, NewsTakesTime, Now
  <2>6. CASE r = Now + 1
    BY <1>3, <2>3, <2>4, <2>6, DelayAssumption
  <2> QED BY <1>3, <2>4, <2>5, <2>6
<1>6. CASE UNCHANGED infected
  BY <1>3, <1>6 DEF TimeInv, NewsTakesTime
<1> QED BY <1>4, <1>5, <1>6 DEF Next, GossipNext, MainLoop, RunOutOfPicks, LoseMessages,
     DelayMessages, RunOnUpdateRequest, RunOnUpdate, RunOnFeedback, experimentVars,
     gossipVars, nodeVars

(* In the asynchronous simulation nobody but node 0 has the news before    *)
(* MinDelay rounds have gone by, for any delays and graphs.                *)
THEOREM NewsInTime == Spec => []NewsTakesTime
<1>1. Init => CurveInv /\ TimeInv
  BY CurveInit
<1>2. Inv /\ CurveInv /\ [Next]_experimentVars => CurveInv'
  BY CurveStep
<1>3. Inv /\ CurveInv /\ TimeInv /\ [Next]_experimentVars => TimeInv'
  BY TimeStep DEF CurveInv
<1>4. TimeInv => NewsTakesTime
  BY DEF TimeInv
<1> QED BY <1>1, <1>2, <1>3, <1>4, Invariant, PTL DEF Spec

-----------------------------------------------------------------------------
(* With push alone there are only updates, no more than nodes that spread  *)
(* the news at the start of the round; each of them informs one node.      *)
Spreaders(k) == Cardinality({i \in 0 .. k - 1 : state[i] = "I"})

PushInv ==
  mode = Push /\ task.kind # "async" =>
    /\ messages \in Seq(News)
    /\ phase = "main" => /\ Len(messages) <= Spreaders(node)
                         /\ Count("I") <= infected[Now]
                         /\ graph.n <= Spread(Now) + Count("S")
    /\ phase = "deliver" =>
         graph.n + Len(messages) + Len(updates) <= Spread(Now) + infected[Now] + Count("S")
    /\ PushAtMostDoubles

(* The spreaders before node k + 1 are those before k, and k itself. *)
LEMMA SpreadersType ==
  ASSUME NEW k \in Nat
  PROVE  /\ Spreaders(k) \in Nat
         /\ Spreaders(k + 1) = Spreaders(k) + (IF state[k] = "I" THEN 1 ELSE 0)
<1> DEFINE A == {i \in 0 .. k - 1 : state[i] = "I"}
           B == {i \in 0 .. (k + 1) - 1 : state[i] = "I"}
<1>1. IsFiniteSet(A)
  <2>1. IsFiniteSet(0 .. k - 1) /\ A \in SUBSET (0 .. k - 1)
    BY FS_Interval
  <2> HIDE DEF A
  <2> QED BY <2>1, FS_Subset
<1>2. CASE state[k] = "I"
  <2>1. B = A \cup {k} /\ k \notin A
    BY <1>2
  <2> HIDE DEF A, B
  <2>2. Cardinality(A \cup {k}) = Cardinality(A) + 1
    BY <1>1, <2>1, FS_AddElement
  <2> QED BY <1>1, <1>2, <2>1, <2>2, FS_CardinalityType DEF Spreaders, A, B
<1>3. CASE state[k] # "I"
  <2>1. B = A
    BY <1>3
  <2>2. Cardinality(A) \in Nat
    BY <1>1, FS_CardinalityType
  <2> QED BY <1>3, <2>1, <2>2 DEF Spreaders
<1> QED BY <1>2, <1>3

(* Without pull the main loop of a node that spreads the news sends one    *)
(* update, and that of another node nothing.                               *)
LEMMA PushSends ==
  ASSUME Inv, mode = Push, NEW i \in Nodes, NEW p \in Nodes
  PROVE  /\ RunMainLoop(i, p) \in Seq(News)
         /\ Len(RunMainLoop(i, p)) <= IF state[i] = "I" THEN 1 ELSE 0
<1>1. mode.push = TRUE /\ mode.pull = FALSE
  BY DEF Push
<1>2. RunMainLoop(i, p) = << >> \/ (RunMainLoop(i, p) = <<Update(i, p)>> \o << >>
                                    /\ state[i] = "I" /\ p # i)
  <2>1. CASE p = i
    BY <2>1 DEF RunMainLoop
  <2>2. CASE p # i /\ state[i] = "I"
    BY <1>1, <2>2 DEF RunMainLoop
  <2>3. CASE p # i /\ state[i] # "I"
    <3>1. RunMainLoop(i, p) = << >> \o << >>
      BY <1>1, <2>3 DEF RunMainLoop
    <3> QED BY <3>1
  <2> QED BY <2>1, <2>2, <2>3
<1>3. CASE RunMainLoop(i, p) = << >>
  BY <1>3, EmptySeq
<1>4. CASE RunMainLoop(i, p) = <<Update(i, p)>> \o << >> /\ state[i] = "I" /\ p # i
  <2>1. Update(i, p) \in News
    BY <1>4 DEF News, Carried, Message, Update
  <2>2. <<Update(i, p)>> \in Seq(News) /\ << >> \in Seq(News) /\ Len(<<Update(i, p)>>) = 1
    BY <2>1, EmptySeq
  <2> QED BY <1>4, <2>2, ConcatProperties, EmptySeq
<1> QED BY <1>2, <1>3, <1>4

(* PushInv is kept by every step. *)
LEMMA PushStep ==
  ASSUME Inv, CurveInv, PushInv, [Next]_experimentVars
  PROVE  PushInv'
<1>1. graph' = graph /\ Nodes' = Nodes /\ task' = task /\ graph.n \in Nat /\ graph.n >= 2
  BY ChoiceStep, SetupStep DEF Inv, NodesTyped, ChoiceTypeOK, Phased
<1>2. SUFFICES ASSUME mode' = Push, task.kind # "async" PROVE PushInv'
  BY <1>1 DEF PushInv
<1>3. PICK n \in Nat : n = Now /\ n >= 1 /\ infected[n] \in Nat /\ removed[n] \in Nat
  <2>1. infected \in Curve /\ removed \in Curve /\ Now >= 1 /\ Len(removed) = Now
    BY DEF Inv, CurvesTyped, CurveInv
  <2>2. Now \in Nat /\ Now \in 1 .. Len(infected) /\ Now \in 1 .. Len(removed)
    BY <2>1, LenProperties DEF Curve, Now
  <2>3. infected[Now] \in 0 .. graph.n /\ removed[Now] \in 0 .. graph.n
    BY <2>1, <2>2, ElementOfSeq DEF Curve
  <2> QED BY <1>1, <2>1, <2>2, <2>3
<1>4. Spread(Now) = infected[n] + removed[n] /\ Spread(Now) \in Nat /\ infected[Now] = infected[n]
  BY <1>3 DEF Spread
<1>5. \A s : Count(s) \in 0 .. graph.n
  BY <1>1, CountType
<1>6. Len(messages) \in Nat /\ Len(updates) \in Nat
  BY LenProperties DEF Inv, Underway
<1>7. ASSUME mode = Push
      PROVE  /\ messages \in Seq(News) /\ PushAtMostDoubles
             /\ phase = "main" => /\ Len(messages) <= Spreaders(node)
                                  /\ Count("I") <= infected[n]
                                  /\ graph.n <= infected[n] + removed[n] + Count("S")
             /\ phase = "deliver" =>
                  graph.n + Len(messages) + Len(updates)
                    <= infected[n] + removed[n] + infected[n] + Count("S")
  BY <1>2, <1>3, <1>4, <1>7 DEF PushInv
<1>8. ASSUME UNCHANGED <<infected, removed, mode>>
      PROVE  /\ PushAtMostDoubles' /\ Now' = Now /\ infected'[Now'] = infected[n]
             /\ Spread(Now)' = infected[n] + removed[n] /\ mode = Push
  BY <1>1, <1>2, <1>3, <1>7, <1>8 DEF PushAtMostDoubles, Now, Spread
<1>9. ASSUME UNCHANGED state PROVE News' = News /\ \A s : Count(s)' = Count(s)
  BY <1>1, <1>9 DEF News, Carried, Message, Count
<1>10. CASE NextSimulation
  <2>1. /\ messages' = << >> /\ node' = 0 /\ phase' = "main" /\ state' = Started
        /\ infected' = <<1>> /\ removed' = <<0>>
    BY <1>10 DEF NextSimulation, Inv, Phased
  <2>2. Count("S")' = graph.n - 1 /\ Count("I")' = 1
    BY <1>1, <2>1, StartedCounts DEF Count
  <2>3. Spreaders(node)' = 0
    <3>1. {i \in 0 .. 0 - 1 : state'[i] = "I"} = {}
      OBVIOUS
    <3> QED BY <2>1, <3>1, FS_EmptySet DEF Spreaders
  <2>4. PushAtMostDoubles'
    BY <2>1 DEF PushAtMostDoubles
  <2>5. messages' \in Seq(News') /\ Len(messages') = 0
    BY <2>1, EmptySeq
  <2> QED BY <1>1, <2>1, <2>2, <2>3, <2>4, <2>5 DEF PushInv, Spread, Now
<1>11. CASE MainLoop
  <2>1. PICK p \in Nodes : messages' = messages \o RunMainLoop(node, p)
    BY <1>11 DEF MainLoop
  <2>2. node \in Nodes /\ node \in Nat
    BY <1>1, <1>11 DEF MainLoop, Nodes, Inv, NodesTyped
  <2>3. /\ UNCHANGED <<infected, removed, mode, state, phase>>
        /\ node' = node + 1 /\ phase = "main" /\ phase' = "main"
    BY <1>11 DEF MainLoop
  <2>4. /\ RunMainLoop(node, p) \in Seq(News)
        /\ Len(RunMainLoop(node, p)) <= IF state[node] = "I" THEN 1 ELSE 0
    BY <1>8, <2>2, <2>3, PushSends
  <2>5. /\ messages' \in Seq(News)
        /\ Len(messages') = Len(messages) + Len(RunMainLoop(node, p))
        /\ Len(RunMainLoop(node, p)) \in Nat
    BY <1>7, <1>8, <2>1, <2>3, <2>4, ConcatProperties, LenProperties
  <2>6. Spreaders(node)' = Spreaders(node) + (IF state[node] = "I" THEN 1 ELSE 0)
        /\ Spreaders(node) \in Nat
    BY <2>2, <2>3, SpreadersType DEF Spreaders
  <2>7. Len(messages') <= Spreaders(node)'
    BY <1>6, <1>7, <1>8, <2>3, <2>4, <2>5, <2>6
  <2> QED BY <1>1, <1>7, <1>8, <1>9, <2>3, <2>5, <2>7 DEF PushInv
<1>12. CASE LoseMessages
  <2>1. PICK kept \in Survivors : messages' = Entries(messages, kept)
    BY <1>12 DEF LoseMessages
  <2>2. /\ UNCHANGED <<infected, removed, mode, state, updates>> /\ phase' = "deliver"
        /\ phase = "main" /\ node = graph.n /\ updates = << >> /\ Len(updates') = 0
    BY <1>2, <1>12, EmptySeq DEF LoseMessages, Inv, Phased
  <2>3. messages \in Seq(News)
    BY <1>7, <1>8, <2>2
  <2>4. kept \in SUBSET (1 .. Len(messages))
    BY <2>3, LenProperties DEF Survivors
  <2>5. messages' \in Seq(News) /\ Len(messages') = Cardinality(kept)
    BY <2>1, <2>3, <2>4, EntriesProps
  <2>6. Cardinality(kept) <= Len(messages) /\ Cardinality(kept) \in Nat
    <3> DEFINE k == Len(messages)
    <3>1. k \in Nat
      BY <1>6
    <3> HIDE DEF k
    <3>2. IsFiniteSet(1 .. k) /\ Cardinality(1 .. k) = IF 1 > k THEN 0 ELSE k - 1 + 1
      BY <3>1, FS_Interval
    <3>3. Cardinality(1 .. k) = k /\ kept \in SUBSET (1 .. k)
      BY <2>4, <3>1, <3>2 DEF k
    <3>4. IsFiniteSet(kept) /\ Cardinality(kept) <= k
      BY <3>2, <3>3, FS_Subset
    <3> QED BY <3>4, FS_CardinalityType DEF k
  <2>7. Spreaders(node) = Count("I")
    BY <2>2 DEF Spreaders, Count, Nodes
  <2>8. graph.n + Len(messages') + 0 <= infected[n] + removed[n] + infected[n] + Count("S")
    <3>1. /\ Len(messages) <= Count("I") /\ Count("I") <= infected[n]
          /\ graph.n <= infected[n] + removed[n] + Count("S")
      BY <1>7, <1>8, <2>2, <2>7
    <3>2. Count("I") \in Nat /\ Count("S") \in Nat
      BY <1>1, <1>5
    <3>3. Len(messages') <= infected[n] /\ Len(messages') \in Nat
      BY <1>3, <1>6, <2>5, <2>6, <3>1, <3>2
    <3>4. \A g, m, x, y, z \in Nat :
            m <= x /\ g <= x + y + z => g + m + 0 <= x + y + x + z
      OBVIOUS
    <3> QED BY <1>1, <1>3, <3>1, <3>2, <3>3, <3>4
  <2> QED BY <1>1, <1>8, <1>9, <2>2, <2>5, <2>8 DEF PushInv
<1>13. CASE RunOnUpdateRequest
  <2>1. /\ UNCHANGED <<infected, removed, mode, state, phase>> /\ messages' = Tail(messages)
        /\ messages # << >> /\ phase = "deliver"
    BY <1>13 DEF RunOnUpdateRequest
  <2>2. messages \in Seq(News) /\ Head(messages) \in News /\ Tail(messages) \in Seq(News)
        /\ Len(Tail(messages)) = Len(messages) - 1
    BY <1>7, <1>8, <2>1, HeadTailProperties
  <2>3. Head(messages).type = "update" /\ Head(messages).type # "request"
    BY <2>2 DEF News
  <2>4. updates' = Append(updates, Head(messages)) /\ UNCHANGED pending
    BY <1>13, <2>3 DEF RunOnUpdateRequest
  <2>5. Len(updates') = Len(updates) + 1
    BY <2>2, <2>4, AppendProperties DEF Inv, Underway
  <2>6. graph.n + Len(messages') + Len(updates')
          <= infected[n] + removed[n] + infected[n] + Count("S")
    <3>1. graph.n + Len(messages) + Len(updates)
            <= infected[n] + removed[n] + infected[n] + Count("S")
      BY <1>7, <1>8, <2>1
    <3>2. graph.n + Len(messages') + Len(updates') = graph.n + Len(messages) + Len(updates)
      <4>1. Len(messages') = Len(messages) - 1
        BY <2>1, <2>2
      <4>2. \A g, m, u \in Nat : g + (m - 1) + (u + 1) = g + m + u
        OBVIOUS
      <4>3. graph.n \in Nat /\ Len(messages) \in Nat /\ Len(updates) \in Nat
        BY <1>1, <1>6
      <4> QED BY <2>5, <4>1, <4>2, <4>3
    <3> QED BY <3>1, <3>2
  <2> QED BY <1>1, <1>8, <1>9, <2>1, <2>2, <2>6 DEF PushInv
<1>14. CASE RunOnUpdate
  <2>1. /\ UNCHANGED <<infected, removed, mode, messages, phase>> /\ updates' = Tail(updates)
        /\ updates # << >> /\ messages = << >> /\ phase = "deliver" /\ ~NextSimulation
    BY <1>14 DEF RunOnUpdate, NextSimulation
  <2>2. Len(updates') = Len(updates) - 1
    BY <2>1, HeadTailProperties DEF Inv, Underway
  <2>3. Count("S")' \in {Count("S"), Count("S") - 1}
    BY <2>1, CountStep
  <2>4. graph.n + Len(messages') + Len(updates')
          <= infected[n] + removed[n] + infected[n] + Count("S")'
    <3>1. graph.n + Len(messages) + Len(updates)
            <= infected[n] + removed[n] + infected[n] + Count("S")
      BY <1>7, <1>8, <2>1
    <3>2. Count("S") \in Int /\ messages' = messages
      BY <1>1, <1>5, <2>1
    <3>3. Count("S")' \in Int /\ Count("S")' >= Count("S") - 1
      BY <2>3, <3>2
    <3>4. infected[n] \in Int /\ removed[n] \in Int
      BY <1>3
    <3>5. graph.n + Len(messages) + (Len(updates) - 1)
            <= infected[n] + removed[n] + infected[n] + Count("S")'
      <4> DEFINE g == graph.n  m == Len(messages)  u == Len(updates)  x == infected[n]
                 y == removed[n]  c == Count("S")  d == Count("S")'
      <4>1. /\ g \in Int /\ m \in Int /\ u \in Int /\ x \in Int /\ y \in Int
            /\ c \in Int /\ d \in Int
            /\ g + m + u <= x + y + x + c /\ d >= c - 1
        BY <1>1, <1>6, <3>1, <3>2, <3>3, <3>4
      <4> HIDE DEF g, m, u, x, y, c, d
      <4>2. g + m + (u - 1) <= x + y + x + d
        BY <4>1
      <4> QED BY <4>2 DEF g, m, u, x, y, c, d
    <3> QED BY <2>2, <3>2, <3>5
  <2>5. messages' \in Seq(News')
    BY <2>1, EmptySeq
  <2> QED BY <1>1, <1>8, <2>1, <2>4, <2>5 DEF PushInv
<1>15. CASE RunOnFeedback
  <2>1. /\ UNCHANGED <<infected, removed, mode, messages, updates, phase>>
        /\ messages = << >> /\ phase = "deliver" /\ ~NextSimulation /\ ~RunOnUpdate
    BY <1>15 DEF RunOnFeedback, NextSimulation, RunOnUpdate
  <2>2. Count("S")' = Count("S")
    BY <2>1, CountStep
  <2>3. messages' \in Seq(News')
    BY <2>1, EmptySeq
  <2> QED BY <1>1, <1>7, <1>8, <2>1, <2>2, <2>3 DEF PushInv
<1>16. CASE EndRound
  <2> DEFINE a == Count("I")  b == Count("R")
  <2>1. /\ infected' = Append(infected, a) /\ removed' = Append(removed, b)
        /\ phase = "deliver" /\ phase' \in {"main", "done"} /\ state' = state /\ mode' = mode
        /\ messages = << >> /\ messages' = << >> /\ updates = << >> /\ node' = 0
    BY <1>16 DEF EndRound
  <2>2. Count("S") + a + b = graph.n /\ a \in 0 .. graph.n /\ b \in 0 .. graph.n
    BY <1>1, <1>5, CountSum DEF Inv
  <2>3. Count("S")' = Count("S") /\ Count("I")' = a
    BY <1>9, <2>1
  <2> HIDE DEF a, b
  <2>4. /\ Len(infected') = n + 1 /\ infected'[n + 1] = a /\ removed'[n + 1] = b
        /\ \A r \in 1 .. n : infected'[r] = infected[r] /\ removed'[r] = removed[r]
    BY <1>3, <2>1, <2>2, AppendProperties DEF Inv, CurvesTyped, Curve, CurveInv, Now
  <2>5. a + b <= infected[n] + removed[n] + infected[n]
    <3>1. Len(messages) = 0 /\ Len(updates) = 0
      BY <2>1, EmptySeq
    <3>2. graph.n + 0 + 0 <= infected[n] + removed[n] + infected[n] + Count("S")
      BY <1>2, <1>7, <2>1, <3>1
    <3> QED BY <1>1, <1>3, <1>5, <2>2, <3>2
  <2>6. ASSUME NEW r \in 1 .. n
        PROVE  infected'[r + 1] + removed'[r + 1] <= infected'[r] + removed'[r] + infected'[r]
    <3>1. CASE r < n
      <4>1. r \in 1 .. n - 1 /\ r + 1 \in 1 .. n
        BY <3>1
      <4>2. infected[r + 1] + removed[r + 1] <= infected[r] + removed[r] + infected[r]
        BY <1>2, <1>3, <1>7, <2>1, <4>1 DEF PushAtMostDoubles, Spread, Now
      <4> QED BY <2>4, <4>1, <4>2
    <3>2. CASE r = n
      BY <1>3, <2>4, <2>5, <3>2
    <3> QED BY <3>1, <3>2
  <2>7. PushAtMostDoubles'
    BY <2>4, <2>6 DEF PushAtMostDoubles, Spread
  <2>8. Spreaders(node)' = 0
    <3>1. {i \in 0 .. 0 - 1 : state'[i] = "I"} = {}
      OBVIOUS
    <3> QED BY <2>1, <3>1, FS_EmptySet DEF Spreaders
  <2>9. messages' \in Seq(News') /\ Len(messages') = 0
    BY <2>1, EmptySeq
  <2>10. /\ infected'[Now'] = a /\ Spread(Now)' = a + b
    BY <2>4 DEF Spread, Now
  <2>11. graph'.n <= Spread(Now)' + Count("S")' /\ Count("I")' <= infected'[Now']
    <3>1. \A g, x, y \in Nat, c \in Int : c + x + y = g => g <= (x + y) + c /\ x <= x
      OBVIOUS
    <3> QED BY <1>1, <1>5, <2>2, <2>3, <2>10, <3>1
  <2>12. phase' # "deliver" /\ Len(messages') <= Spreaders(node)'
    BY <2>1, <2>8, <2>9
  <2> QED BY <2>7, <2>9, <2>11, <2>12 DEF PushInv
<1>17. CASE RunOutOfPicks
  <2>1. UNCHANGED <<infected, removed, mode, messages, state>> /\ phase' = "IndexError"
    BY <1>17 DEF RunOutOfPicks
  <2> QED BY <1>1, <1>7, <1>8, <1>9, <2>1 DEF PushInv
<1>18. CASE DelayMessages
  BY <1>2, <1>18 DEF DelayMessages, Inv, Phased
<1>19. CASE UNCHANGED experimentVars
  BY <1>1, <1>2, <1>9, <1>19 DEF experimentVars, gossipVars, nodeVars, PushInv, Spreaders,
     PushAtMostDoubles, Spread, Now
<1> QED BY <1>10, <1>11, <1>12, <1>13, <1>14, <1>15, <1>16, <1>17, <1>18, <1>19 DEF Next, GossipNext

(* In every synchronous simulation with push alone the informed nodes at   *)
(* most double in a round, whatever the graph and the losses.              *)
THEOREM PushDoubles == Spec => []PushAtMostDoubles
<1>1. Init => CurveInv /\ PushInv
  <2> SUFFICES ASSUME Init PROVE PushInv
    BY CurveInit
  <2>1. /\ infected = <<1>> /\ removed = <<0>> /\ state = Started /\ phase = "main"
        /\ messages = << >> /\ node = 0
    BY DEF Init, GossipInit
  <2>2. graph.n \in Nat /\ graph.n >= 2
    BY InvInit DEF Inv, ChoiceTypeOK, Phased
  <2>3. Count("S") = graph.n - 1 /\ Count("I") = 1
    BY <2>1, <2>2, StartedCounts DEF Count
  <2>4. messages \in Seq(News) /\ Len(messages) = 0
    BY <2>1, EmptySeq
  <2>5. Spreaders(node) \in Nat
    BY <2>1, SpreadersType
  <2> QED BY <2>1, <2>2, <2>3, <2>4, <2>5 DEF PushInv, PushAtMostDoubles, Now, Spread
<1>2. Inv /\ CurveInv /\ [Next]_experimentVars => CurveInv'
  BY CurveStep
<1>3. Inv /\ CurveInv /\ PushInv /\ [Next]_experimentVars => PushInv'
  BY PushStep
<1>4. PushInv => PushAtMostDoubles
  BY DEF PushInv, PushAtMostDoubles
<1> QED BY <1>1, <1>2, <1>3, <1>4, Invariant, PTL DEF Spec

-----------------------------------------------------------------------------
(* In SIR, all replies are sent before a node changes state: until then    *)
(* the nodes are as at the start of the round, and who sent an update was  *)
(* informed then.                                                          *)
EarlyNews == {m \in News : before[m.from] # "S"}
EarlyAnswers == {m \in Answers : before[m.to] # "S"}

FreshInv ==
  task.kind = "sir" =>
    /\ phase = "main" => before = state
    /\ phase = "deliver" /\ messages # << >> => before = state
    /\ updates \in Seq(EarlyNews)
    /\ feedbacks \in Seq(EarlyAnswers)
    /\ FreshNodesSpread

(* FreshInv is kept by every step. *)
LEMMA FreshStep ==
  ASSUME Inv, FreshInv, [MCNext]_mcVars
  PROVE  FreshInv'
<1>1. [Next]_experimentVars
  BY DEF MCNext, mcVars
<1>2. graph' = graph /\ Nodes' = Nodes /\ task' = task
  BY <1>1, ChoiceStep, SetupStep DEF Inv, NodesTyped
<1>3. SUFFICES ASSUME task.kind = "sir" PROVE FreshInv'
  BY <1>2 DEF FreshInv
<1>4. /\ phase = "main" => before = state
      /\ phase = "deliver" /\ messages # << >> => before = state
      /\ updates \in Seq(EarlyNews) /\ feedbacks \in Seq(EarlyAnswers)
      /\ \A i \in Nodes : state[i] = "R" => before[i] # "S"
  BY <1>3 DEF FreshInv, FreshNodesSpread
<1>5. ASSUME UNCHANGED <<state, before>>
      PROVE  /\ EarlyNews' = EarlyNews /\ EarlyAnswers' = EarlyAnswers /\ FreshNodesSpread'
  BY <1>2, <1>4, <1>5 DEF EarlyNews, EarlyAnswers, News, Answers, Carried, Message,
     FreshNodesSpread
<1>6. CASE UNCHANGED mcVars
  BY <1>2, <1>3, <1>4, <1>5, <1>6 DEF mcVars, experimentVars, gossipVars, nodeVars, FreshInv
<1>7. ASSUME Next, ~(phase # "main" /\ phase' = "main") PROVE before' = before
  <2>1. CASE MCNext
    BY <1>7, <2>1 DEF MCNext
  <2>2. CASE UNCHANGED mcVars
    BY <2>2 DEF mcVars
  <2> QED BY <2>1, <2>2
<1>8. CASE MCNext /\ NextSimulation
  <2>1. /\ phase' = "main" /\ before' = state' /\ state' = Started
        /\ updates' = << >> /\ feedbacks' = << >>
    BY <1>8 DEF MCNext, NextSimulation, Inv, Phased
  <2>2. FreshNodesSpread'
    BY <1>2, <2>1 DEF FreshNodesSpread, Started
  <2> QED BY <2>1, <2>2, EmptySeq DEF FreshInv
<1>9. CASE MCNext /\ EndRound
  <2>1. /\ phase # "main" /\ phase' \in {"main", "done"} /\ state' = state
        /\ updates' = << >> /\ feedbacks' = << >>
    BY <1>9 DEF EndRound
  <2>2. before' = (IF phase' = "main" THEN state' ELSE before)
    BY <1>9, <2>1 DEF MCNext
  <2>3. FreshNodesSpread'
    BY <1>2, <1>4, <2>1, <2>2 DEF FreshNodesSpread
  <2> QED BY <2>1, <2>2, <2>3, EmptySeq DEF FreshInv
<1>10. CASE Next /\ (MainLoop \/ RunOutOfPicks \/ LoseMessages)
  <2>1. UNCHANGED <<state, before, updates, feedbacks>> /\ phase = "main"
    BY <1>7, <1>10 DEF MainLoop, RunOutOfPicks, LoseMessages
  <2> QED BY <1>4, <1>5, <2>1 DEF FreshInv
<1>11. CASE DelayMessages
  BY <1>3, <1>11 DEF DelayMessages, Inv, Phased
<1>12. CASE Next /\ RunOnUpdateRequest
  <2> DEFINE m == Head(messages)
  <2>1. /\ UNCHANGED <<state, before, feedbacks, phase>> /\ phase = "deliver"
        /\ before = state /\ m \in Carried /\ messages # << >>
    BY <1>4, <1>7, <1>12, FirstMessages DEF RunOnUpdateRequest
  <2>2. updates' \in Seq(EarlyNews)
    <3>1. CASE UNCHANGED updates
      BY <1>4, <3>1
    <3>2. CASE m.type = "update" /\ updates' = Append(updates, m)
      <4>1. m \in EarlyNews
        BY <2>1, <3>2 DEF EarlyNews, News, Carried
      <4> QED BY <1>4, <3>2, <4>1, AppendProperties
    <3>3. CASE state[m.to] = "I" /\ updates' = Append(updates, Update(m.to, m.from))
      <4>1. Update(m.to, m.from) \in EarlyNews
        BY <2>1, <3>3 DEF EarlyNews, News, Carried, Message, Update
      <4> QED BY <1>4, <3>3, <4>1, AppendProperties
    <3> QED BY <1>12, <3>1, <3>2, <3>3 DEF RunOnUpdateRequest, OnUpdateRequest, SendReply
  <2> QED BY <1>4, <1>5, <2>1, <2>2 DEF FreshInv
<1>13. CASE Next /\ RunOnUpdate
  <2> DEFINE m == Head(updates)
  <2>1. /\ updates # << >> /\ m \in EarlyNews /\ Tail(updates) \in Seq(EarlyNews)
        /\ updates' = Tail(updates) /\ messages' = << >> /\ before' = before
        /\ phase' = "deliver" /\ OnUpdate(m)
    BY <1>4, <1>7, <1>13, HeadTailProperties DEF RunOnUpdate
  <2>2. m.to \in Nodes /\ m.from \in Nodes /\ m.from # m.to /\ state[m.from] = "I"
        /\ before[m.from] # "S"
    BY <2>1 DEF EarlyNews, News, Carried, Message
  <2>3. \A i \in Nodes : state'[i] # state[i] => state[i] = "S" /\ state'[i] = "I"
    BY <2>1, <2>2 DEF OnUpdate, Inv, NodesTyped
  <2>4. News \subseteq News' /\ Answers \subseteq Answers'
    BY <1>2, <2>3, StillCarried
  <2>5. EarlyNews \subseteq EarlyNews' /\ EarlyAnswers \subseteq EarlyAnswers'
    BY <2>1, <2>4 DEF EarlyNews, EarlyAnswers
  <2>6. feedbacks' \in Seq(EarlyAnswers)
    <3>1. CASE feedbacks' = feedbacks
      BY <1>4, <3>1
    <3>2. CASE state[m.to] # "S" /\ feedbacks' = Append(feedbacks, Feedback(m.to, m.from))
      <4>1. Feedback(m.to, m.from) \in EarlyAnswers
        BY <2>2, <3>2 DEF EarlyAnswers, Answers, Message, Feedback
      <4> QED BY <1>4, <3>2, <4>1, AppendProperties
    <3> QED BY <2>1, <3>1, <3>2 DEF OnUpdate
  <2>7. updates' \in Seq(EarlyNews') /\ feedbacks' \in Seq(EarlyAnswers')
    BY <2>1, <2>5, <2>6, SeqMonotonic
  <2>8. FreshNodesSpread'
    BY <1>2, <1>4, <2>1, <2>3 DEF FreshNodesSpread
  <2> QED BY <2>1, <2>7, <2>8 DEF FreshInv
<1>14. CASE Next /\ RunOnFeedback
  <2> DEFINE m == Head(feedbacks)
  <2>1. /\ feedbacks # << >> /\ m \in EarlyAnswers /\ Tail(feedbacks) \in Seq(EarlyAnswers)
        /\ feedbacks' = Tail(feedbacks) /\ messages' = << >> /\ updates' = << >>
        /\ before' = before /\ phase' = "deliver" /\ OnFeedback(m)
    BY <1>4, <1>7, <1>14, HeadTailProperties DEF RunOnFeedback
  <2>2. m.to \in Nodes /\ before[m.to] # "S"
    BY <2>1 DEF EarlyAnswers, Answers, Message
  <2>3. \A i \in Nodes : /\ state[i] # "S" => state'[i] # "S"
                         /\ state'[i] = "R" => state[i] = "R" \/ i = m.to
    BY <2>1, <2>2 DEF OnFeedback, Inv, NodesTyped
  <2>4. EarlyAnswers \subseteq EarlyAnswers'
    BY <1>2, <2>1, <2>3 DEF EarlyAnswers, Answers, Message
  <2>5. feedbacks' \in Seq(EarlyAnswers')
    BY <2>1, <2>4, SeqMonotonic
  <2>6. FreshNodesSpread'
    BY <1>2, <1>4, <2>1, <2>2, <2>3 DEF FreshNodesSpread
  <2> QED BY <2>1, <2>5, <2>6, EmptySeq DEF FreshInv
<1> QED BY <1>6, <1>8, <1>9, <1>10, <1>11, <1>12, <1>13, <1>14 DEF MCNext, Next, GossipNext

(* In SIR a node is never removed in the round in which it got the news,   *)
(* in whatever order updates and feedback reach it.                        *)
THEOREM FreshSpread == MCSpec => []FreshNodesSpread
<1>1. MCInit => Init /\ FreshInv
  <2> SUFFICES ASSUME MCInit PROVE Init /\ FreshInv
    OBVIOUS
  <2>1. /\ Init /\ before = state /\ state = Started
        /\ updates = << >> /\ feedbacks = << >>
    BY DEF MCInit, Init, GossipInit
  <2> QED BY <2>1, EmptySeq DEF FreshInv, FreshNodesSpread, Started
<1>2. [MCNext]_mcVars => [Next]_experimentVars
  BY DEF MCNext, mcVars
<1>3. Inv /\ FreshInv /\ [MCNext]_mcVars => FreshInv'
  BY FreshStep
<1>4. Inv /\ FreshInv => FreshNodesSpread
  BY DEF FreshInv, FreshNodesSpread, Inv, NodesTyped
<1> QED BY <1>1, <1>2, <1>3, <1>4, InvInit, InvStep, PTL DEF MCSpec

-----------------------------------------------------------------------------
(* What sent has to account for: an infection costs c messages, and with   *)
(* it the update that brought it, or a feedback to that update; a request  *)
(* costs what is left of c.  Held is what pending still holds from day a   *)
(* on; what is due in this round is in messages already.                   *)
Worth(c, m) == IF m.type = "request" THEN c - 1 ELSE c
Paid(c, s) == {t \in (DOMAIN s) \X {1, 2} : t[2] <= Worth(c, s[t[1]])}
Value(c, s) == Cardinality(Paid(c, s))

Tagged(d, P) == {<<d, t>> : t \in P}
Held(c, p, a) == UNION {Tagged(d, Paid(c, p[d])) : d \in a .. MaxDelay}
Later == Held(UpdateCost, pending, IF phase = "deliver" THEN 1 ELSE 0)

Spent == UpdateCost * (graph.n - Count("S") - 1) + (UpdateCost + 1) * Count("R")
Account ==
  Value(UpdateCost, messages) + Value(UpdateCost, updates) + Value(UpdateCost, feedbacks)
    + Cardinality(Later)
PayInv == IsFiniteSet(Later) /\ sent >= Spent + Account

(* An update costs one message, by pull two; so no message is worth more.  *)
LEMMA CostType ==
  /\ mode \in Modes => UpdateCost \in {1, 2}
  /\ \A c \in {1, 2} : \A m : Worth(c, m) \in {0, 1, 2}
BY DEF UpdateCost, Worth, Modes, Push, Pull, PushPull

(* A set that is mapped one to one into a finite one is no larger.         *)
LEMMA NoLarger ==
  ASSUME NEW S, NEW T, NEW f, IsFiniteSet(T),
         \A x \in S : f[x] \in T,
         \A x, y \in S : f[x] = f[y] => x = y
  PROVE  IsFiniteSet(S) /\ Cardinality(S) <= Cardinality(T)
<1> DEFINE g == [x \in S |-> f[x]]
<1>1. g \in Injection(S, T)
  BY DEF Injection, IsInjective
<1> QED BY <1>1, FS_Injection

(* Adding what is worth w to a set of what was paid.                       *)
Some(w, one, two) == {x \in {one, two} : (w >= 1 /\ x = one) \/ w = 2}

LEMMA AddPaid ==
  ASSUME NEW A, IsFiniteSet(A), NEW w \in {0, 1, 2}, NEW one, NEW two,
         NEW B, B \subseteq A \cup Some(w, one, two)
  PROVE  IsFiniteSet(B) /\ Cardinality(B) <= Cardinality(A) + w
<1>1. Cardinality(A) \in Nat
  BY FS_CardinalityType
<1>2. /\ IsFiniteSet(A \cup {one}) /\ Cardinality(A \cup {one}) \in Nat
      /\ Cardinality(A \cup {one}) <= Cardinality(A) + 1
  <2>1. /\ IsFiniteSet(A \cup {one})
        /\ Cardinality(A \cup {one}) = IF one \in A THEN Cardinality(A) ELSE Cardinality(A) + 1
    BY FS_AddElement
  <2> QED BY <1>1, <2>1
<1> DEFINE C == A \cup {one}
<1>3. IsFiniteSet(C \cup {two}) /\ Cardinality(C \cup {two}) <= Cardinality(A) + 2
      /\ Cardinality(C \cup {two}) \in Nat
  <2>1. IsFiniteSet(C) /\ Cardinality(C) \in Nat /\ Cardinality(C) <= Cardinality(A) + 1
    BY <1>2
  <2> HIDE DEF C
  <2>2. /\ IsFiniteSet(C \cup {two})
        /\ Cardinality(C \cup {two}) = IF two \in C THEN Cardinality(C) ELSE Cardinality(C) + 1
    BY <2>1, FS_AddElement
  <2> QED BY <1>1, <2>1, <2>2, FS_CardinalityType
<1>4. CASE w = 0
  <2>1. B \in SUBSET A
    BY <1>4 DEF Some
  <2> QED BY <1>1, <1>4, <2>1, FS_Subset
<1>5. CASE w = 1
  <2>1. B \in SUBSET C
    BY <1>5 DEF Some
  <2> HIDE DEF C
  <2> QED BY <1>1, <1>2, <1>5, <2>1, FS_Subset, FS_CardinalityType DEF C
<1>6. CASE w = 2
  <2>1. B \in SUBSET (C \cup {two})
    BY <1>6 DEF Some
  <2> HIDE DEF C
  <2> QED BY <1>1, <1>3, <1>6, <2>1, FS_Subset, FS_CardinalityType
<1> QED BY <1>4, <1>5, <1>6

(* The value of a finite list is a number, and of an empty list zero.      *)
LEMMA ValueType ==
  ASSUME NEW c, NEW M, NEW s \in Seq(M)
  PROVE  /\ DOMAIN s = 1 .. Len(s) /\ Len(s) \in Nat
         /\ IsFiniteSet(Paid(c, s)) /\ Value(c, s) \in Nat
         /\ s = << >> => Value(c, s) = 0 /\ Paid(c, s) = {}
<1>1. DOMAIN s = 1 .. Len(s) /\ Len(s) \in Nat
  BY LenProperties
<1>2. IsFiniteSet((1 .. Len(s)) \X {1, 2})
  <2>1. IsFiniteSet(1 .. Len(s))
    BY <1>1, FS_Interval
  <2>2. IsFiniteSet({1, 2})
    <3>1. IsFiniteSet({1}) /\ {1} \cup {2} = {1, 2}
      BY FS_Singleton
    <3> QED BY <3>1, FS_AddElement
  <2> QED BY <2>1, <2>2, FS_Product
<1>3. IsFiniteSet(Paid(c, s))
  <2>1. Paid(c, s) \in SUBSET ((1 .. Len(s)) \X {1, 2})
    BY <1>1 DEF Paid
  <2> QED BY <1>2, <2>1, FS_Subset
<1>4. Value(c, s) \in Nat
  BY <1>3, FS_CardinalityType DEF Value
<1>5. s = << >> => Value(c, s) = 0 /\ Paid(c, s) = {}
  <2>1. s = << >> => Paid(c, s) = {}
    BY DEF Paid
  <2> QED BY <2>1, FS_EmptySet DEF Value
<1> QED BY <1>1, <1>3, <1>4, <1>5

(* What a longer list pays: what it paid, and the worth of what is new.    *)
LEMMA PaidAppend ==
  ASSUME NEW c \in {1, 2}, NEW M, NEW s \in Seq(M), NEW m \in M
  PROVE  LET n == Len(s) + 1
         IN  Paid(c, Append(s, m)) \subseteq Paid(c, s) \cup Some(Worth(c, m), <<n, 1>>, <<n, 2>>)
<1> DEFINE n == Len(s) + 1
           B == Paid(c, Append(s, m))
<1>1. /\ Append(s, m) \in Seq(M) /\ Len(Append(s, m)) = n /\ Append(s, m)[n] = m
      /\ \A k \in 1 .. Len(s) : Append(s, m)[k] = s[k]
  BY AppendProperties
<1>2. /\ DOMAIN s = 1 .. Len(s) /\ Len(s) \in Nat /\ IsFiniteSet(Paid(c, s))
      /\ DOMAIN Append(s, m) = 1 .. n
  BY <1>1, ValueType
<1>3. Worth(c, m) \in {0, 1, 2}
  BY CostType
<1>4. ASSUME NEW t \in B
      PROVE  t \in Paid(c, s) \/ (Worth(c, m) >= 1 /\ t = <<n, 1>>) \/ (Worth(c, m) = 2 /\ t = <<n, 2>>)
  <2>1. PICK k \in 1 .. n, j \in {1, 2} : t = <<k, j>> /\ j <= Worth(c, Append(s, m)[k])
    BY <1>2, <1>4 DEF Paid
  <2>2. CASE k = n
    BY <1>1, <1>3, <2>1, <2>2
  <2>3. CASE k # n
    <3>1. k \in 1 .. Len(s) /\ Append(s, m)[k] = s[k]
      BY <1>1, <1>2, <2>3
    <3> QED BY <1>2, <2>1, <3>1 DEF Paid
  <2> QED BY <2>2, <2>3
<1> QED BY <1>3, <1>4 DEF Some

(* A message appended to a list adds its worth to the value.               *)
LEMMA ValueAppend ==
  ASSUME NEW c \in {1, 2}, NEW M, NEW s \in Seq(M), NEW m \in M
  PROVE  Value(c, Append(s, m)) <= Value(c, s) + Worth(c, m)
<1> DEFINE B == Paid(c, Append(s, m))
           one == <<Len(s) + 1, 1>>
           two == <<Len(s) + 1, 2>>
           w == Worth(c, m)
<1>1. /\ w \in {0, 1, 2} /\ IsFiniteSet(Paid(c, s))
      /\ B \subseteq Paid(c, s) \cup Some(w, one, two)
  BY CostType, ValueType, PaidAppend
<1> HIDE DEF B, one, two, w
<1>2. IsFiniteSet(B) /\ Cardinality(B) <= Cardinality(Paid(c, s)) + w
  BY <1>1, AddPaid
<1> QED BY <1>2 DEF Value, B, w

(* A message taken from the head of a list takes its worth with it.        *)
LEMMA ValueTail ==
  ASSUME NEW c \in {1, 2}, NEW M, NEW s \in Seq(M), s # << >>
  PROVE  Value(c, Tail(s)) + Worth(c, Head(s)) <= Value(c, s)
<1> DEFINE r == Tail(s)
           w == Worth(c, Head(s))
           B == {t \in Paid(c, s) : t[1] # 1}
           f == [t \in Paid(c, r) |-> <<t[1] + 1, t[2]>>]
<1>1. /\ r \in Seq(M) /\ Len(r) = Len(s) - 1 /\ Head(s) = s[1]
      /\ \A k \in 1 .. Len(r) : r[k] = s[k + 1]
  BY HeadTailProperties
<1>2. /\ DOMAIN s = 1 .. Len(s) /\ Len(s) \in Nat /\ IsFiniteSet(Paid(c, s)) /\ Value(c, s) \in Nat
      /\ DOMAIN r = 1 .. Len(r) /\ Len(r) \in Nat /\ Value(c, r) \in Nat
  <2> HIDE DEF r
  <2> QED BY <1>1, ValueType
<1>3. w \in {0, 1, 2}
  BY CostType
<1>4. IsFiniteSet(B)
  BY <1>2, FS_Subset
<1> HIDE DEF r, w
<1>5. \A t \in Paid(c, r) : \E k \in 1 .. Len(r), j \in {1, 2} : t = <<k, j>> /\ j <= Worth(c, r[k])
  BY <1>2 DEF Paid
<1> HIDE DEF f
<1>6. \A t \in Paid(c, r) : f[t] \in B
  <2> SUFFICES ASSUME NEW t \in Paid(c, r) PROVE f[t] \in B
    OBVIOUS
  <2>1. PICK k \in 1 .. Len(r), j \in {1, 2} : t = <<k, j>> /\ j <= Worth(c, r[k])
    BY <1>5
  <2>2. f[t] = <<k + 1, j>>
    BY <2>1 DEF f
  <2>3. k + 1 \in 1 .. Len(s) /\ k + 1 # 1 /\ s[k + 1] = r[k]
    BY <1>1, <1>2
  <2> QED BY <1>2, <2>1, <2>2, <2>3 DEF Paid
<1>7. \A t, u \in Paid(c, r) : f[t] = f[u] => t = u
  <2> SUFFICES ASSUME NEW t \in Paid(c, r), NEW u \in Paid(c, r), f[t] = f[u] PROVE t = u
    OBVIOUS
  <2>1. PICK k \in 1 .. Len(r), j \in {1, 2} : t = <<k, j>>
    BY <1>5
  <2>2. PICK l \in 1 .. Len(r), i \in {1, 2} : u = <<l, i>>
    BY <1>5
  <2>3. f[t] = <<k + 1, j>> /\ f[u] = <<l + 1, i>>
    BY <2>1, <2>2 DEF f
  <2> QED BY <1>2, <2>1, <2>2, <2>3
<1>8. Cardinality(Paid(c, r)) <= Cardinality(B)
  BY <1>4, <1>6, <1>7, NoLarger
<1>9. Cardinality(B) + w <= Cardinality(Paid(c, s))
  <2> DEFINE C == {t \in Paid(c, s) : t # <<1, 1>>}
  <2>1. 1 \in 1 .. Len(s)
    BY <1>2, EmptySeq
  <2>2. w >= 1 => <<1, 1>> \in Paid(c, s)
    BY <1>1, <1>2, <1>3, <2>1 DEF Paid, w
  <2>3. w = 2 => <<1, 2>> \in Paid(c, s) \ {<<1, 1>>}
    BY <1>1, <1>2, <2>1 DEF Paid, w
  <2>4. B \subseteq (Paid(c, s) \ {<<1, 1>>}) \ {<<1, 2>>}
    OBVIOUS
  <2> DEFINE P == Paid(c, s)
             Q == P \ {<<1, 1>>}
             R == Q \ {<<1, 2>>}
  <2>5. IsFiniteSet(P) /\ Cardinality(P) \in Nat
    BY <1>2, FS_CardinalityType
  <2>6. /\ IsFiniteSet(Q) /\ Cardinality(Q) \in Nat /\ Cardinality(Q) <= Cardinality(P)
        /\ w >= 1 => Cardinality(Q) = Cardinality(P) - 1
    <3>1. w >= 1 => <<1, 1>> \in P
      BY <2>2
    <3> HIDE DEF P
    <3>2. /\ IsFiniteSet(P \ {<<1, 1>>})
          /\ Cardinality(P \ {<<1, 1>>}) = IF <<1, 1>> \in P THEN Cardinality(P) - 1 ELSE Cardinality(P)
      BY <2>5, FS_RemoveElement
    <3>3. Cardinality(Q) \in Nat
      BY <3>2, FS_CardinalityType
    <3> QED BY <2>5, <3>1, <3>2, <3>3
  <2>7. /\ IsFiniteSet(R) /\ Cardinality(R) \in Nat /\ Cardinality(R) <= Cardinality(Q)
        /\ w = 2 => Cardinality(R) = Cardinality(Q) - 1
    <3>1. w = 2 => <<1, 2>> \in Q
      BY <2>3
    <3> HIDE DEF Q
    <3>2. /\ IsFiniteSet(Q \ {<<1, 2>>})
          /\ Cardinality(Q \ {<<1, 2>>}) = IF <<1, 2>> \in Q THEN Cardinality(Q) - 1 ELSE Cardinality(Q)
      BY <2>6, FS_RemoveElement
    <3>3. Cardinality(R) \in Nat
      BY <3>2, FS_CardinalityType
    <3> QED BY <2>6, <3>1, <3>2, <3>3
  <2>8. B \in SUBSET R
    BY <2>4
  <2> HIDE DEF P, Q, R, B
  <2>9. Cardinality(B) <= Cardinality(R) /\ Cardinality(B) \in Nat
    BY <1>4, <2>7, <2>8, FS_Subset, FS_CardinalityType
  <2> QED BY <1>3, <2>5, <2>6, <2>7, <2>9 DEF P
<1>10. Cardinality(B) \in Nat
  BY <1>4, FS_CardinalityType
<1> QED BY <1>2, <1>3, <1>8, <1>9, <1>10 DEF Value, r, w

(* Losing messages loses what they were worth. *)
LEMMA ValueEntries ==
  ASSUME NEW c, NEW M, NEW s \in Seq(M), NEW I \in SUBSET (1 .. Len(s))
  PROVE  Value(c, Entries(s, I)) <= Value(c, s)
<1> DEFINE e == Entries(s, I)
           n == Cardinality(I)
<1>1. PICK at \in [1 .. n -> I] :
        /\ \A j, k \in 1 .. n : at[j] = at[k] => j = k
        /\ \A j \in 1 .. n : e[j] = s[at[j]]
  BY EntriesAt
<1>2. e \in Seq(M) /\ Len(e) = n
  BY EntriesProps
<1>3. DOMAIN e = 1 .. n /\ DOMAIN s = 1 .. Len(s) /\ IsFiniteSet(Paid(c, s))
  <2> HIDE DEF e
  <2> QED BY <1>2, ValueType
<1> DEFINE f == [t \in Paid(c, e) |-> <<at[t[1]], t[2]>>]
<1> HIDE DEF e, n
<1>4. \A t \in Paid(c, e) : \E k \in 1 .. n, j \in {1, 2} : t = <<k, j>> /\ j <= Worth(c, e[k])
  BY <1>3 DEF Paid
<1>5. \A t \in Paid(c, e) : f[t] \in Paid(c, s)
  <2> SUFFICES ASSUME NEW t \in Paid(c, e) PROVE f[t] \in Paid(c, s)
    OBVIOUS
  <2>1. PICK k \in 1 .. n, j \in {1, 2} : t = <<k, j>> /\ j <= Worth(c, e[k])
    BY <1>4
  <2>2. f[t] = <<at[k], j>> /\ at[k] \in 1 .. Len(s) /\ e[k] = s[at[k]]
    BY <1>1, <2>1
  <2> QED BY <1>3, <2>1, <2>2 DEF Paid
<1>6. \A t, u \in Paid(c, e) : f[t] = f[u] => t = u
  <2> SUFFICES ASSUME NEW t \in Paid(c, e), NEW u \in Paid(c, e), f[t] = f[u] PROVE t = u
    OBVIOUS
  <2>1. PICK k \in 1 .. n, j \in {1, 2} : t = <<k, j>>
    BY <1>4
  <2>2. PICK l \in 1 .. n, i \in {1, 2} : u = <<l, i>>
    BY <1>4
  <2>3. f[t] = <<at[k], j>> /\ f[u] = <<at[l], i>>
    BY <2>1, <2>2
  <2> QED BY <1>1, <2>1, <2>2, <2>3
<1> HIDE DEF f
<1>7. Cardinality(Paid(c, e)) <= Cardinality(Paid(c, s))
  BY <1>3, <1>5, <1>6, NoLarger
<1> QED BY <1>7 DEF Value, e

-----------------------------------------------------------------------------
(* The tag of a day changes no size.                                       *)
LEMMA TaggedSize ==
  ASSUME NEW P, IsFiniteSet(P), NEW d
  PROVE  IsFiniteSet(Tagged(d, P)) /\ Cardinality(Tagged(d, P)) = Cardinality(P)
<1> DEFINE f == [t \in P |-> <<d, t>>]
           g == [x \in Tagged(d, P) |-> x[2]]
<1>1. \A t \in P : f[t] \in Tagged(d, P)
  BY DEF Tagged
<1>2. \A t, u \in P : f[t] = f[u] => t = u
  OBVIOUS
<1>3. \A x \in Tagged(d, P) : g[x] \in P
  BY DEF Tagged
<1>4. \A x, y \in Tagged(d, P) : g[x] = g[y] => x = y
  BY DEF Tagged
<1> HIDE DEF f, g
<1>5. IsFiniteSet(Tagged(d, P)) /\ Cardinality(Tagged(d, P)) <= Cardinality(P)
  BY <1>3, <1>4, NoLarger
<1>6. Cardinality(P) <= Cardinality(Tagged(d, P))
  BY <1>1, <1>2, <1>5, NoLarger
<1> QED BY <1>5, <1>6, FS_CardinalityType

(* What is held, element by element: a day and a place in its list.        *)
LEMMA HeldIs ==
  ASSUME NEW c, NEW p, NEW a, NEW x
  PROVE  x \in Held(c, p, a) <=>
           \E d \in a .. MaxDelay : \E t \in Paid(c, p[d]) : x = <<d, t>>
BY DEF Held, Tagged

(* A reply that is put off adds what it is worth.                          *)
LEMMA HeldReply ==
  ASSUME NEW c \in {1, 2}, NEW M, NEW p \in [0 .. MaxDelay -> Seq(M)], NEW m \in M,
         NEW e \in 0 .. MaxDelay, NEW a \in {0, 1}, IsFiniteSet(Held(c, p, a))
  PROVE  LET q == [p EXCEPT ![e] = Append(@, m)]
         IN  /\ IsFiniteSet(Held(c, q, a))
             /\ Cardinality(Held(c, q, a)) <= Cardinality(Held(c, p, a)) + Worth(c, m)
<1> DEFINE q == [p EXCEPT ![e] = Append(@, m)]
           s == p[e]
           n == Len(s) + 1
           one == <<e, <<n, 1>>>>
           two == <<e, <<n, 2>>>>
           w == Worth(c, m)
<1>1. s \in Seq(M)
  OBVIOUS
<1>2. w \in {0, 1, 2}
  BY CostType
<1>3. q[e] = Append(s, m) /\ \A d \in 0 .. MaxDelay : d # e => q[d] = p[d]
  OBVIOUS
<1> HIDE DEF q, s
<1>4. Paid(c, q[e]) \subseteq Paid(c, s) \cup Some(w, <<n, 1>>, <<n, 2>>)
  BY <1>1, <1>3, PaidAppend
<1>5. Held(c, q, a) \subseteq Held(c, p, a) \cup Some(w, one, two)
  <2> SUFFICES ASSUME NEW x \in Held(c, q, a), x \notin Held(c, p, a) PROVE x \in Some(w, one, two)
    OBVIOUS
  <2>1. PICK d \in a .. MaxDelay : \E t \in Paid(c, q[d]) : x = <<d, t>>
    BY HeldIs
  <2>2. PICK t \in Paid(c, q[d]) : x = <<d, t>>
    BY <2>1
  <2>3. t \notin Paid(c, p[d])
    BY <2>2, HeldIs
  <2>4. d = e
    <3>1. d \in 0 .. MaxDelay
      OBVIOUS
    <3> QED BY <1>3, <2>2, <2>3, <3>1
  <2>5. t \in Some(w, <<n, 1>>, <<n, 2>>)
    BY <1>4, <2>2, <2>3, <2>4 DEF s
  <2> QED BY <2>2, <2>4, <2>5 DEF Some
<1> HIDE DEF one, two, w
<1>6. IsFiniteSet(Held(c, q, a)) /\ Cardinality(Held(c, q, a)) <= Cardinality(Held(c, p, a)) + w
  BY <1>2, <1>5, AddPaid
<1> QED BY <1>6 DEF q, w

(* The next round is one day nearer.                                       *)
LEMMA HeldShift ==
  ASSUME NEW c, NEW p, MaxDelay \in Nat, IsFiniteSet(Held(c, p, 1))
  PROVE  LET q == [d \in 0 .. MaxDelay |-> IF d < MaxDelay THEN p[d + 1] ELSE << >>]
         IN  /\ IsFiniteSet(Held(c, q, 0))
             /\ Cardinality(Held(c, q, 0)) <= Cardinality(Held(c, p, 1))
<1> DEFINE q == [d \in 0 .. MaxDelay |-> IF d < MaxDelay THEN p[d + 1] ELSE << >>]
           f == [x \in Held(c, q, 0) |-> <<x[1] + 1, x[2]>>]
<1>1. Paid(c, << >>) = {}
  BY DEF Paid
<1>2. \A d \in 0 .. MaxDelay : q[d] = IF d < MaxDelay THEN p[d + 1] ELSE << >>
  OBVIOUS
<1> HIDE DEF q, f
<1>3. \A x \in Held(c, q, 0) : \E d \in 0 .. MaxDelay : \E t \in Paid(c, q[d]) : x = <<d, t>>
  BY HeldIs
<1>4. ASSUME NEW x \in Held(c, q, 0) PROVE f[x] \in Held(c, p, 1)
  <2>0. PICK d \in 0 .. MaxDelay : \E t \in Paid(c, q[d]) : x = <<d, t>>
    BY <1>3
  <2>1. PICK t \in Paid(c, q[d]) : x = <<d, t>>
    BY <2>0
  <2>2. d < MaxDelay /\ t \in Paid(c, p[d + 1])
    BY <1>1, <1>2, <2>1
  <2>3. f[x] = <<d + 1, t>> /\ d + 1 \in 1 .. MaxDelay
    BY <2>1, <2>2 DEF f
  <2> QED BY <2>2, <2>3, HeldIs
<1>5. ASSUME NEW x \in Held(c, q, 0), NEW y \in Held(c, q, 0), f[x] = f[y] PROVE x = y
  <2>1. PICK d \in 0 .. MaxDelay : \E t : x = <<d, t>>
    BY <1>3
  <2>2. PICK e \in 0 .. MaxDelay : \E u : y = <<e, u>>
    BY <1>3
  <2>3. x = <<d, x[2]>> /\ y = <<e, y[2]>>
    BY <2>1, <2>2
  <2>4. f[x] = <<d + 1, x[2]>> /\ f[y] = <<e + 1, y[2]>>
    BY <2>3 DEF f
  <2>5. d + 1 = e + 1 /\ x[2] = y[2]
    <3>1. PICK k, l, t, u : k = d + 1 /\ l = e + 1 /\ t = x[2] /\ u = y[2]
      OBVIOUS
    <3>2. <<k, t>> = <<l, u>>
      BY <1>5, <2>4, <3>1
    <3>3. k = l /\ t = u
      BY <3>2
    <3> QED BY <3>1, <3>3
  <2>6. d = e
    BY <2>5
  <2> QED BY <2>3, <2>5, <2>6
<1>6. IsFiniteSet(Held(c, q, 0)) /\ Cardinality(Held(c, q, 0)) <= Cardinality(Held(c, p, 1))
  BY <1>4, <1>5, NoLarger
<1> QED BY <1>6 DEF q

(* What is due in this round, and the rest.                                *)
LEMMA HeldSplit ==
  ASSUME NEW c, MaxDelay \in Nat, NEW M, NEW q \in [0 .. MaxDelay -> Seq(M)],
         IsFiniteSet(Held(c, q, 0))
  PROVE  /\ IsFiniteSet(Held(c, q, 1))
         /\ Cardinality(Held(c, q, 0)) = Cardinality(Held(c, q, 1)) + Value(c, q[0])
<1> DEFINE A == Held(c, q, 1)
           B == Tagged(0, Paid(c, q[0]))
<1>1. 0 \in 0 .. MaxDelay /\ 1 .. MaxDelay \subseteq 0 .. MaxDelay
      /\ \A d \in 0 .. MaxDelay : d # 0 => d \in 1 .. MaxDelay
  OBVIOUS
<1>2. Held(c, q, 0) = A \cup B
  <2>1. ASSUME NEW x \in A \cup B PROVE x \in Held(c, q, 0)
    <3>1. CASE x \in A
      BY <1>1, <3>1, HeldIs
    <3>2. CASE x \in B
      BY <1>1, <3>2, HeldIs DEF Tagged
    <3> QED BY <3>1, <3>2
  <2>2. ASSUME NEW x \in Held(c, q, 0) PROVE x \in A \cup B
    <3>1. PICK d \in 0 .. MaxDelay : \E t \in Paid(c, q[d]) : x = <<d, t>>
      BY HeldIs
    <3>2. CASE d = 0
      BY <3>1, <3>2 DEF Tagged
    <3>3. CASE d # 0
      BY <1>1, <3>1, <3>3, HeldIs
    <3> QED BY <3>2, <3>3
  <2> QED BY <2>1, <2>2
<1>3. A \cap B = {}
  <2> SUFFICES ASSUME NEW x \in A, x \in B PROVE FALSE
    OBVIOUS
  <2>1. PICK d \in 1 .. MaxDelay : \E t : x = <<d, t>>
    BY HeldIs
  <2>2. \E t : x = <<0, t>>
    BY DEF Tagged
  <2>3. x[1] = d /\ x[1] = 0
    BY <2>1, <2>2
  <2> QED BY <2>3
<1>4. IsFiniteSet(B) /\ Cardinality(B) = Value(c, q[0]) /\ Value(c, q[0]) \in Nat
  BY <1>1, ValueType, TaggedSize DEF Value
<1> HIDE DEF A, B
<1>5. IsFiniteSet(A)
  <2>1. A \in SUBSET Held(c, q, 0)
    BY <1>2
  <2> QED BY <2>1, FS_Subset
<1>6. Cardinality(A \cup B) = Cardinality(A) + Cardinality(B) - Cardinality(A \cap B)
  BY <1>4, <1>5, FS_Union
<1>7. Cardinality(A \cap B) = 0
  <2>1. Cardinality({}) = 0
    BY FS_EmptySet, Zenon
  <2> QED BY <1>3, <2>1
<1>8. Cardinality(A) \in Nat
  BY <1>5, FS_CardinalityType
<1>9. Cardinality(Held(c, q, 0)) = Cardinality(A \cup B)
  BY <1>2, Zenon
<1>10. Cardinality(Held(c, q, 0)) = Cardinality(A) + Value(c, q[0])
  <2>1. PICK h, u, a, v, x : /\ h = Cardinality(Held(c, q, 0)) /\ u = Cardinality(A \cup B)
                             /\ a = Cardinality(A) /\ v = Value(c, q[0]) /\ x = Cardinality(A \cap B)
    OBVIOUS
  <2>2. u = a + v - x
    BY <1>4, <1>6, <2>1, Zenon
  <2>3. h = u /\ x = 0
    BY <1>7, <1>9, <2>1, Zenon
  <2>4. a \in Nat /\ v \in Nat
    BY <1>4, <1>8, <2>1, Zenon
  <2>5. h = a + v
    BY <2>2, <2>3, <2>4
  <2> QED BY <2>1, <2>5
<1> QED BY <1>5, <1>10 DEF A

(* What is appended to a day's messages is some of the new ones, each once. *)
MovedTo(r, x, s, delay, d, at) ==
  /\ \A k \in DOMAIN x : k \in DOMAIN r => x[k] = r[k]
  /\ \A k \in DOMAIN x : k \notin DOMAIN r =>
       at[k] \in DOMAIN s /\ delay[at[k]] = d /\ x[k] = s[at[k]]
  /\ \A j, k \in DOMAIN x :
       j \notin DOMAIN r /\ k \notin DOMAIN r /\ at[j] = at[k] => j = k

(* Every message of s goes to the day its delay names, and there only.      *)
LEMMA DelayedTo ==
  ASSUME NEW M, NEW r \in Seq(M), NEW s \in Seq(M), NEW delay, NEW d,
         NEW I, \A i \in I : i \in DOMAIN s /\ delay[i] = d,
         NEW x, x = r \o Entries(s, I)
  PROVE  x \in Seq(M) /\ \E at : MovedTo(r, x, s, delay, d, at)
<1> DEFINE e == Entries(s, I)
           n == Cardinality(I)
           L == Len(r)
<1>0. I \in SUBSET (1 .. Len(s)) /\ \A i \in I : i \in DOMAIN s /\ delay[i] = d
  BY LenProperties
<1>4. x = r \o e
  OBVIOUS
<1>1. /\ n \in Nat
      /\ \E at \in [1 .. n -> I] :
            /\ \A j, k \in 1 .. n : at[j] = at[k] => j = k
            /\ \A j \in 1 .. n : e[j] = s[at[j]]
  BY <1>0, EntriesAt
<1>2. e \in Seq(M) /\ Len(e) = n
  BY <1>0, EntriesProps
<1>3. L \in Nat /\ DOMAIN r = 1 .. L
  BY LenProperties
<1> HIDE DEF e, n, L
<1>5. /\ r \o e \in Seq(M) /\ Len(r \o e) = Len(r) + Len(e)
      /\ \A k \in 1 .. Len(r) + Len(e) :
           (r \o e)[k] = IF k <= Len(r) THEN r[k] ELSE e[k - Len(r)]
  BY <1>2, ConcatProperties
<1>6. /\ x \in Seq(M) /\ Len(x) = L + n
      /\ \A k \in 1 .. L + n : x[k] = IF k <= L THEN r[k] ELSE e[k - L]
  BY <1>2, <1>4, <1>5 DEF L
<1>7. DOMAIN x = 1 .. L + n
  BY <1>6, LenProperties
<1>8. PICK at \in [1 .. n -> I] : /\ \A j, k \in 1 .. n : at[j] = at[k] => j = k
                                  /\ \A j \in 1 .. n : e[j] = s[at[j]]
  BY <1>1
<1> DEFINE by == [k \in DOMAIN x |-> at[k - L]]
<1>9. ASSUME NEW k \in DOMAIN x, k \notin DOMAIN r
      PROVE  k - L \in 1 .. n /\ by[k] \in I /\ x[k] = s[by[k]]
  <2>1. k \in Nat /\ k > L /\ k <= L + n /\ k - L \in 1 .. n
    BY <1>1, <1>3, <1>7, <1>9
  <2>2. x[k] = e[k - L]
    <3>1. k \in 1 .. L + n /\ ~(k <= L)
      BY <1>3, <1>7, <2>1
    <3>2. x[k] = IF k <= L THEN r[k] ELSE e[k - L]
      BY <1>6, <3>1
    <3> QED BY <3>1, <3>2, Zenon
  <2>3. by[k] = at[k - L]
    OBVIOUS
  <2> QED BY <1>8, <2>1, <2>2, <2>3
<1>10. ASSUME NEW j \in DOMAIN x, NEW k \in DOMAIN x, j \notin DOMAIN r, k \notin DOMAIN r, by[j] = by[k]
       PROVE  j = k
  <2>1. j - L \in 1 .. n /\ k - L \in 1 .. n
    BY <1>9, <1>10
  <2>2. at[j - L] = at[k - L]
    BY <1>10
  <2>3. j - L = k - L
    BY <1>8, <2>1, <2>2
  <2>4. j \in Int /\ k \in Int
    BY <1>7
  <2> QED BY <1>3, <2>3, <2>4
<1>11. \A k \in DOMAIN x : k \in DOMAIN r => x[k] = r[k]
  BY <1>1, <1>3, <1>6, <1>7
<1> HIDE DEF by
<1>12. MovedTo(r, x, s, delay, d, by)
  <2>1. \A k \in DOMAIN x : k \notin DOMAIN r =>
          by[k] \in DOMAIN s /\ delay[by[k]] = d /\ x[k] = s[by[k]]
    BY <1>0, <1>9
  <2> QED BY <1>10, <1>11, <2>1 DEF MovedTo
<1> QED BY <1>6, <1>12

(* Each day has kept its messages, and what is new there comes from s.     *)
Moved(p, q, s, delay, at) ==
  \A d \in 0 .. MaxDelay : MovedTo(p[d], q[d], s, delay, d, at[d])

(* Where an element of what is held lies.                                  *)
LEMMA HeldIn ==
  ASSUME NEW c, NEW p, NEW a, NEW x \in Held(c, p, a)
  PROVE  \E d, k, j : x = <<d, <<k, j>>>>
<1>1. PICK d \in a .. MaxDelay : \E t \in Paid(c, p[d]) : x = <<d, t>>
  BY HeldIs
<1>2. PICK t \in Paid(c, p[d]) : x = <<d, t>>
  BY <1>1
<1>3. \E k, j : t = <<k, j>>
  BY <1>2 DEF Paid
<1> QED BY <1>2, <1>3

(* A place of what is held is worth what its message is.                   *)
LEMMA HeldPair ==
  ASSUME NEW c, NEW p, NEW a, NEW d, NEW k, NEW j
  PROVE  <<d, <<k, j>>>> \in Held(c, p, a) <=>
           /\ d \in a .. MaxDelay /\ k \in DOMAIN p[d]
           /\ j \in {1, 2} /\ j <= Worth(c, p[d][k])
<1>1. <<d, <<k, j>>>> \in Held(c, p, a) <=> d \in a .. MaxDelay /\ <<k, j>> \in Paid(c, p[d])
  <2>1. ASSUME <<d, <<k, j>>>> \in Held(c, p, a)
        PROVE  d \in a .. MaxDelay /\ <<k, j>> \in Paid(c, p[d])
    <3>1. PICK b \in a .. MaxDelay : \E t \in Paid(c, p[b]) : <<d, <<k, j>>>> = <<b, t>>
      BY <2>1, HeldIs
    <3> QED BY <3>1
  <2>2. ASSUME d \in a .. MaxDelay, <<k, j>> \in Paid(c, p[d])
        PROVE  <<d, <<k, j>>>> \in Held(c, p, a)
    BY <2>2, HeldIs
  <2> QED BY <2>1, <2>2
<1> QED BY <1>1 DEF Paid

(* Putting messages off, each to one day, keeps what they are worth.       *)
LEMMA HeldMoved ==
  ASSUME NEW c \in {1, 2}, MaxDelay \in Nat, NEW M, NEW p \in [0 .. MaxDelay -> Seq(M)],
         NEW q \in [0 .. MaxDelay -> Seq(M)],
         NEW s \in Seq(M), NEW delay, NEW at, IsFiniteSet(Held(c, p, 0)),
         Moved(p, q, s, delay, at)
  PROVE  /\ IsFiniteSet(Held(c, q, 0))
         /\ Cardinality(Held(c, q, 0)) <= Cardinality(Held(c, p, 0)) + Value(c, s)
<1> DEFINE none == -1
           A == Held(c, q, 0)
           P == Held(c, p, 0)
           S == Tagged(none, Paid(c, s))
<1>1. DOMAIN s = 1 .. Len(s) /\ Len(s) \in Nat /\ IsFiniteSet(Paid(c, s)) /\ Value(c, s) \in Nat
  BY ValueType
<1>2. \A d \in 0 .. MaxDelay : \A k \in DOMAIN q[d] : k \in DOMAIN p[d] => q[d][k] = p[d][k]
  BY DEF Moved, MovedTo
<1>3. /\ \A d \in 0 .. MaxDelay : \A k \in DOMAIN q[d] : k \notin DOMAIN p[d] =>
           at[d][k] \in DOMAIN s /\ delay[at[d][k]] = d /\ q[d][k] = s[at[d][k]]
      /\ \A d \in 0 .. MaxDelay : \A j, k \in DOMAIN q[d] :
           j \notin DOMAIN p[d] /\ k \notin DOMAIN p[d] /\ at[d][j] = at[d][k] => j = k
  BY DEF Moved, MovedTo
<1> DEFINE f == [x \in A |-> IF x[2][1] \in DOMAIN p[x[1]] THEN x
                             ELSE <<none, <<at[x[1]][x[2][1]], x[2][2]>>>>]
           late(d, k, j) == <<none, <<at[d][k], j>>>>
<1> HIDE DEF none
<1>5. ASSUME NEW x \in A, NEW d, NEW k, NEW j, x = <<d, <<k, j>>>>
      PROVE  /\ d \in 0 .. MaxDelay /\ k \in DOMAIN q[d] /\ j \in {1, 2} /\ j <= Worth(c, q[d][k])
             /\ f[x] = IF k \in DOMAIN p[d] THEN x ELSE late(d, k, j)
  <2>1. d \in 0 .. MaxDelay /\ k \in DOMAIN q[d] /\ j \in {1, 2} /\ j <= Worth(c, q[d][k])
    BY <1>5, HeldPair
  <2>2. x[1] = d /\ x[2][1] = k /\ x[2][2] = j
    BY <1>5
  <2>3. f[x] = IF x[2][1] \in DOMAIN p[x[1]] THEN x
                ELSE <<none, <<at[x[1]][x[2][1]], x[2][2]>>>>
    OBVIOUS
  <2> HIDE DEF f, A
  <2>4. f[x] = IF k \in DOMAIN p[d] THEN x ELSE <<none, <<at[d][k], j>>>>
    BY <2>2, <2>3, Zenon
  <2> QED BY <2>1, <2>4
<1>6. ASSUME NEW x \in A PROVE \E d, k, j : x = <<d, <<k, j>>>>
  BY HeldIn
<1> HIDE DEF A, P, S, f, late
<1>7. ASSUME NEW x \in A PROVE f[x] \in P \cup S
  <2>1. PICK d, k, j : x = <<d, <<k, j>>>>
    BY <1>6
  <2>2. d \in 0 .. MaxDelay /\ k \in DOMAIN q[d] /\ j \in {1, 2} /\ j <= Worth(c, q[d][k])
    BY <1>5, <2>1, Zenon
  <2>0. f[x] = IF k \in DOMAIN p[d] THEN x ELSE late(d, k, j)
    BY <1>5, <2>1, SMT
  <2>3. CASE k \in DOMAIN p[d]
    <3>1. f[x] = x /\ q[d][k] = p[d][k]
      BY <1>2, <2>0, <2>2, <2>3, Zenon
    <3>2. <<d, <<k, j>>>> \in P
      BY <2>2, <2>3, <3>1, HeldPair DEF P
    <3> QED BY <2>1, <3>1, <3>2, Zenon
  <2>4. CASE k \notin DOMAIN p[d]
    <3> DEFINE i == at[d][k]
    <3>1. f[x] = late(d, k, j)
      BY <2>0, <2>4, Zenon
    <3>2. i \in DOMAIN s /\ q[d][k] = s[i]
      BY <1>3, <2>2, <2>4
    <3> HIDE DEF i
    <3>3. <<i, j>> \in Paid(c, s)
      BY <2>2, <3>2 DEF Paid
    <3>4. <<none, <<i, j>>>> \in S
      BY <3>3 DEF S, Tagged
    <3>5. late(d, k, j) \in S
      BY <3>4 DEF late, i
    <3> QED BY <3>1, <3>5, Zenon
  <2> QED BY <2>3, <2>4
<1>8. \A d \in 0 .. MaxDelay : d # none
  BY DEF none
<1>9. ASSUME NEW x \in A, NEW y \in A, f[x] = f[y] PROVE x = y
  <2>1. PICK d, k, j : x = <<d, <<k, j>>>>
    BY <1>6
  <2>2. PICK e, l, i : y = <<e, <<l, i>>>>
    BY <1>6
  <2>3. d \in 0 .. MaxDelay /\ k \in DOMAIN q[d] /\ e \in 0 .. MaxDelay /\ l \in DOMAIN q[e]
    BY <1>5, <2>1, <2>2, Zenon
  <2>0. /\ f[x] = IF k \in DOMAIN p[d] THEN x ELSE late(d, k, j)
        /\ f[y] = IF l \in DOMAIN p[e] THEN y ELSE late(e, l, i)
    BY <1>5, <2>1, <2>2, SMT
  <2>4. /\ k \in DOMAIN p[d] => f[x] = x
        /\ k \notin DOMAIN p[d] => f[x] = late(d, k, j)
        /\ l \in DOMAIN p[e] => f[y] = y
        /\ l \notin DOMAIN p[e] => f[y] = late(e, l, i)
    BY <2>0, Zenon
  <2>5. CASE k \in DOMAIN p[d] /\ l \in DOMAIN p[e]
    BY <1>9, <2>1, <2>2, <2>4, <2>5
  <2>6. ~(k \in DOMAIN p[d] /\ l \notin DOMAIN p[e])
    <3> SUFFICES ASSUME k \in DOMAIN p[d], l \notin DOMAIN p[e] PROVE FALSE
      OBVIOUS
    <3>1. <<d, <<k, j>>>> = late(e, l, i)
      BY <1>9, <2>1, <2>4, Zenon
    <3> QED BY <1>8, <2>3, <3>1 DEF late
  <2>7. ~(k \notin DOMAIN p[d] /\ l \in DOMAIN p[e])
    <3> SUFFICES ASSUME k \notin DOMAIN p[d], l \in DOMAIN p[e] PROVE FALSE
      OBVIOUS
    <3>1. <<e, <<l, i>>>> = late(d, k, j)
      BY <1>9, <2>2, <2>4, Zenon
    <3> QED BY <1>8, <2>3, <3>1 DEF late
  <2>8. CASE k \notin DOMAIN p[d] /\ l \notin DOMAIN p[e]
    <3>1. at[d][k] = at[e][l] /\ j = i
      <4>1. late(d, k, j) = late(e, l, i)
        BY <1>9, <2>4, <2>8, Zenon
      <4> QED BY <4>1 DEF late
    <3>2. delay[at[d][k]] = d /\ delay[at[e][l]] = e
      BY <1>3, <2>3, <2>8
    <3>3. d = e
      BY <3>1, <3>2
    <3>4. k = l
      BY <1>3, <2>3, <2>8, <3>1, <3>3
    <3> QED BY <2>1, <2>2, <3>1, <3>3, <3>4
  <2> QED BY <2>5, <2>6, <2>7, <2>8
<1>10. IsFiniteSet(S) /\ Cardinality(S) = Value(c, s)
  BY <1>1, TaggedSize DEF S, Value
<1>11. P \cap S = {}
  <2> SUFFICES ASSUME NEW x \in P, x \in S PROVE FALSE
    OBVIOUS
  <2>1. PICK d \in 0 .. MaxDelay : \E t : x = <<d, t>>
    BY HeldIs DEF P
  <2>2. \E t : x = <<none, t>>
    BY DEF S, Tagged
  <2>3. x[1] = d /\ x[1] = none
    BY <2>1, <2>2
  <2> QED BY <1>8, <2>3
<1>12. IsFiniteSet(P) /\ Cardinality(P) \in Nat
  BY FS_CardinalityType DEF P
<1>13. IsFiniteSet(P \cup S) /\ Cardinality(P \cup S) = Cardinality(P) + Value(c, s)
  <2>1. Cardinality(P \cap S) = 0
    <3>1. Cardinality({}) = 0
      BY FS_EmptySet, Zenon
    <3> QED BY <1>11, <3>1
  <2>2. /\ IsFiniteSet(P \cup S)
        /\ Cardinality(P \cup S) = Cardinality(P) + Cardinality(S) - Cardinality(P \cap S)
    BY <1>10, <1>12, FS_Union
  <2> QED BY <1>1, <1>10, <1>12, <2>1, <2>2
<1>14. IsFiniteSet(A) /\ Cardinality(A) <= Cardinality(P \cup S)
  <2> DEFINE T == P \cup S
  <2>1. IsFiniteSet(T) /\ \A x \in A : f[x] \in T
    BY <1>7, <1>13
  <2>2. \A x, y \in A : f[x] = f[y] => x = y
    BY <1>9
  <2> HIDE DEF T
  <2>3. IsFiniteSet(A) /\ Cardinality(A) <= Cardinality(T)
    BY <2>1, <2>2, NoLarger
  <2> QED BY <2>3 DEF T
<1> QED BY <1>13, <1>14 DEF A, P

(* What DelayMessages makes of pending: each message waits for its day.    *)
PutOff(p, s, delay) ==
  [d \in 0 .. MaxDelay |-> p[d] \o Entries(s, {k \in DOMAIN s : delay[k] = d})]

(* DelayMessages loses nothing: what is put off keeps its value.           *)
LEMMA HeldDelay ==
  ASSUME NEW c \in {1, 2}, MaxDelay \in Nat, NEW M, NEW p \in [0 .. MaxDelay -> Seq(M)],
         NEW s \in Seq(M), NEW delay, IsFiniteSet(Held(c, p, 0)), NEW q,
         q = PutOff(p, s, delay)
  PROVE  /\ IsFiniteSet(Held(c, q, 1)) /\ Cardinality(Held(c, q, 1)) \in Nat
         /\ q[0] \in Seq(M)
         /\ Cardinality(Held(c, q, 1)) + Value(c, q[0]) <= Cardinality(Held(c, p, 0)) + Value(c, s)
<1>1. ASSUME NEW d \in 0 .. MaxDelay
      PROVE  q[d] \in Seq(M) /\ \E at : MovedTo(p[d], q[d], s, delay, d, at)
  <2> DEFINE I == {k \in DOMAIN s : delay[k] = d}
  <2>1. /\ p[d] \in Seq(M)
        /\ q[d] = p[d] \o Entries(s, I)
        /\ \A i \in I : i \in DOMAIN s /\ delay[i] = d
    BY DEF PutOff
  <2> HIDE DEF I
  <2> QED BY <2>1, DelayedTo
<1>2. q \in [0 .. MaxDelay -> Seq(M)]
  <2>1. \A d \in 0 .. MaxDelay : q[d] \in Seq(M)
    BY <1>1
  <2> QED BY <2>1 DEF PutOff
<1> DEFINE at == [d \in 0 .. MaxDelay |-> CHOOSE a : MovedTo(p[d], q[d], s, delay, d, a)]
<1>3. ASSUME NEW d \in 0 .. MaxDelay PROVE MovedTo(p[d], q[d], s, delay, d, at[d])
  <2>1. \E a : MovedTo(p[d], q[d], s, delay, d, a)
    BY <1>1
  <2>2. at[d] = CHOOSE a : MovedTo(p[d], q[d], s, delay, d, a)
    OBVIOUS
  <2> HIDE DEF at
  <2> QED BY <2>1, <2>2, Zenon
<1> HIDE DEF at
<1>4. Moved(p, q, s, delay, at)
  BY <1>3 DEF Moved
<1>5. /\ IsFiniteSet(Held(c, q, 0))
      /\ Cardinality(Held(c, q, 0)) <= Cardinality(Held(c, p, 0)) + Value(c, s)
  BY <1>2, <1>4, HeldMoved
<1>6. /\ IsFiniteSet(Held(c, q, 1))
      /\ Cardinality(Held(c, q, 0)) = Cardinality(Held(c, q, 1)) + Value(c, q[0])
  BY <1>2, <1>5, HeldSplit
<1>7. Cardinality(Held(c, q, 1)) \in Nat
  BY <1>6, FS_CardinalityType
<1>8. q[0] \in Seq(M)
  BY <1>2
<1>9. Cardinality(Held(c, q, 1)) + Value(c, q[0]) <= Cardinality(Held(c, p, 0)) + Value(c, s)
  <2>1. PICK u, v, w : /\ u = Cardinality(Held(c, q, 1)) + Value(c, q[0]) /\ v = Cardinality(Held(c, q, 0))
                       /\ w = Cardinality(Held(c, p, 0)) + Value(c, s)
    OBVIOUS
  <2>2. v <= w /\ v = u
    BY <1>5, <1>6, <2>1, Zenon
  <2> QED BY <2>1, <2>2
<1> QED BY <1>6, <1>7, <1>8, <1>9

-----------------------------------------------------------------------------
(* A message of a list, by its type, is worth what an infection costs, or  *)
(* a request that much less one.                                           *)
LEMMA WorthIs ==
  /\ \A c : \A m \in News : Worth(c, m) = c
  /\ \A c : \A m \in Answers : Worth(c, m) = c
  /\ \A c, i, p : /\ Worth(c, Update(i, p)) = c
                  /\ Worth(c, Request(i, p)) = c - 1
                  /\ Worth(c, Feedback(i, p)) = c
BY DEF Worth, News, Answers, Update, Request, Feedback

(* The main loop counts no less than what it sends is worth: an update is  *)
(* only sent by push, and with push a request is worth nothing.            *)
LEMMA MainLoopPays ==
  ASSUME Inv, NEW i \in Nodes, NEW p \in Nodes
  PROVE  /\ Len(RunMainLoop(i, p)) \in Nat
         /\ Value(UpdateCost, messages \o RunMainLoop(i, p))
              <= Value(UpdateCost, messages) + Len(RunMainLoop(i, p))
<1> DEFINE c == UpdateCost
           u == Update(i, p)
           q == Request(i, p)
<1>1. c \in {1, 2} /\ (mode.push => c = 1)
  BY CostType DEF Inv, SetupTyped, UpdateCost
<1>2. messages \in Seq(Message) /\ Value(c, messages) \in Nat
  <2>1. messages \in Seq(Message)
    BY InvTyped DEF TypeOK
  <2> QED BY <2>1, ValueType
<1>3. u \in Message /\ q \in Message
  BY DEF Update, Request, Message
<1>4. Worth(c, u) = c /\ Worth(c, q) = c - 1
  BY WorthIs
<1> HIDE DEF c, u, q, Message
<1>5. CASE RunMainLoop(i, p) = << >>
  <2>1. messages \o << >> = messages
    BY <1>2, ConcatEmptySeq
  <2>2. Len(RunMainLoop(i, p)) = 0 /\ messages \o RunMainLoop(i, p) = messages
    BY <1>5, <2>1, EmptySeq
  <2> QED BY <1>2, <2>2 DEF c
<1>6. CASE RunMainLoop(i, p) = <<u>> /\ mode.push
  <2>1. messages \o <<u>> = Append(messages, u)
    BY <1>2, <1>3, AppendIsConcat
  <2>2. Value(c, Append(messages, u)) <= Value(c, messages) + 1
    BY <1>1, <1>2, <1>3, <1>4, <1>6, ValueAppend
  <2>3. Len(<<u>>) = 1
    OBVIOUS
  <2> QED BY <1>6, <2>1, <2>2, <2>3 DEF c
<1>7. CASE RunMainLoop(i, p) = <<q>>
  <2>1. messages \o <<q>> = Append(messages, q)
    BY <1>2, <1>3, AppendIsConcat
  <2>2. Value(c, Append(messages, q)) <= Value(c, messages) + Worth(c, q)
    BY <1>1, <1>2, <1>3, ValueAppend
  <2>3. Append(messages, q) \in Seq(Message)
    BY <1>2, <1>3, AppendProperties
  <2>4. Value(c, Append(messages, q)) \in Nat
    BY <2>3, ValueType
  <2>5. Value(c, Append(messages, q)) <= Value(c, messages) + 1
    BY <1>1, <1>2, <1>4, <2>2, <2>4
  <2>6. Len(<<q>>) = 1
    OBVIOUS
  <2> QED BY <1>7, <2>1, <2>5, <2>6 DEF c
<1>8. CASE RunMainLoop(i, p) = <<u>> \o <<q>> /\ mode.push
  <2> DEFINE s == Append(messages, u)
             t == Append(s, q)
  <2>1. s \in Seq(Message) /\ s = messages \o <<u>> /\ Value(c, s) <= Value(c, messages) + 1
    BY <1>1, <1>2, <1>3, <1>4, <1>8, ValueAppend, AppendIsConcat, AppendProperties
  <2>2. Value(c, s) \in Nat
    BY <2>1, ValueType
  <2> HIDE DEF s
  <2>3. t \in Seq(Message) /\ t = s \o <<q>> /\ Value(c, t) <= Value(c, s) + 0
    <3>1. Worth(c, q) = 0
      BY <1>1, <1>4, <1>8
    <3>2. t \in Seq(Message) /\ t = s \o <<q>>
      BY <1>3, <2>1, AppendIsConcat, AppendProperties
    <3>3. Value(c, t) <= Value(c, s) + Worth(c, q)
      BY <1>1, <1>3, <2>1, ValueAppend
    <3> QED BY <3>1, <3>2, <3>3
  <2>4. Value(c, t) \in Nat
    BY <2>3, ValueType
  <2> HIDE DEF t
  <2>5. <<u>> \in Seq(Message) /\ <<q>> \in Seq(Message)
    BY <1>3
  <2>6. t = messages \o RunMainLoop(i, p)
    BY <1>2, <1>8, <2>1, <2>3, <2>5, ConcatAssociative
  <2>7. Len(RunMainLoop(i, p)) = 2
    <3>1. Len(<<u>>) = 1 /\ Len(<<q>>) = 1
      OBVIOUS
    <3>2. Len(<<u>> \o <<q>>) = Len(<<u>>) + Len(<<q>>)
      BY <2>5, ConcatProperties
    <3> QED BY <1>8, <3>1, <3>2
  <2>8. Value(c, t) <= Value(c, messages) + 2
    <3>1. PICK x, y, z : x = Value(c, messages) /\ y = Value(c, s) /\ z = Value(c, t)
      OBVIOUS
    <3>2. y <= x + 1 /\ z <= y + 0
      BY <2>1, <2>3, <3>1, Zenon
    <3>3. x \in Nat /\ y \in Nat /\ z \in Nat
      BY <1>2, <2>2, <2>4, <3>1, Zenon
    <3>4. z <= x + 2
      BY <3>2, <3>3
    <3> QED BY <3>1, <3>4, Zenon
  <2>9. Value(c, messages \o RunMainLoop(i, p)) = Value(c, t)
    BY <2>6, Zenon
  <2> QED BY <2>7, <2>8, <2>9 DEF c
<1>9. /\ (<<u>> \o << >> = <<u>>) /\ (<< >> \o <<q>> = <<q>>) /\ (<< >> \o << >> = << >>)
  <2>1. <<u>> \in Seq(Message) /\ <<q>> \in Seq(Message) /\ << >> \in Seq(Message)
    BY <1>3
  <2> QED BY <2>1, ConcatEmptySeq
<1>10. \/ RunMainLoop(i, p) = << >> \/ RunMainLoop(i, p) = <<q>>
       \/ mode.push /\ RunMainLoop(i, p) = <<u>>
       \/ mode.push /\ RunMainLoop(i, p) = <<u>> \o <<q>>
  <2>1. RunMainLoop(i, p) =
          IF p = i THEN << >>
          ELSE (IF mode.push /\ state[i] = "I" THEN <<u>> ELSE << >>)
               \o (IF mode.pull THEN <<q>> ELSE << >>)
    BY DEF RunMainLoop, u, q
  <2> QED BY <1>9, <2>1, Zenon
<1> QED BY <1>5, <1>6, <1>7, <1>8, <1>10

(* Feedback removes at most one node, and nothing else does. *)
LEMMA CountRemoved ==
  ASSUME Inv, [Next]_experimentVars, ~NextSimulation
  PROVE  /\ Count("R")' <= Count("R") + 1
         /\ ~RunOnFeedback => Count("R")' = Count("R")
<1> DEFINE A == {i \in Nodes : state[i] = "R"}
           B == {i \in Nodes : state'[i] = "R"}
<1>1. graph' = graph /\ Nodes' = Nodes /\ graph.n \in Nat
  BY ChoiceStep DEF Inv, NodesTyped, ChoiceTypeOK
<1>2. Count("R") = Cardinality(A) /\ IsFiniteSet(A) /\ Count("R") \in Nat
  BY <1>1, CountType DEF Count
<1>3. Count("R")' = Cardinality(B)
  BY <1>1 DEF Count
<1>4. CASE RunOnFeedback
  <2> DEFINE m == Head(feedbacks)
             C == A \cup {m.to}
  <2>1. m.to \in Nodes /\ OnFeedback(m)
    BY <1>4, FirstMessages DEF RunOnFeedback, Answers, Message
  <2>2. \A i \in Nodes : state'[i] = "R" => state[i] = "R" \/ i = m.to
    BY <2>1 DEF OnFeedback, Inv, NodesTyped
  <2>3. B \in SUBSET C
    BY <2>2
  <2> HIDE DEF A, B, m
  <2>4. IsFiniteSet(C) /\ Cardinality(C) \in {Cardinality(A), Cardinality(A) + 1}
    BY <1>2, FS_AddElement
  <2> HIDE DEF C
  <2>5. IsFiniteSet(B) /\ Cardinality(B) <= Cardinality(C)
    BY <2>3, <2>4, FS_Subset
  <2>6. Cardinality(B) \in Nat
    BY <2>5, FS_CardinalityType
  <2> QED BY <1>2, <1>3, <1>4, <2>4, <2>5, <2>6
<1>5. ASSUME A = B PROVE Count("R")' = Count("R")
  BY <1>2, <1>3, <1>5
<1>6. CASE UNCHANGED state
  BY <1>2, <1>5, <1>6
<1>7. CASE RunOnUpdate
  <2> DEFINE m == Head(updates)
  <2>1. m.to \in Nodes /\ OnUpdate(m)
    BY <1>7, FirstMessages DEF RunOnUpdate, News, Carried, Message
  <2>2. \A i \in Nodes : state'[i] = "R" <=> state[i] = "R"
    BY <2>1 DEF OnUpdate, Inv, NodesTyped
  <2> QED BY <1>2, <1>5, <2>2
<1> QED BY <1>4, <1>6, <1>7 DEF Next, GossipNext, MainLoop, RunOutOfPicks, LoseMessages,
     DelayMessages, RunOnUpdateRequest, EndRound, experimentVars, gossipVars, nodeVars

(* What is put off has a value, and the account is a number. *)
LEMMA HeldOf ==
  ASSUME NEW c, NEW p, \A d \in 0 .. MaxDelay : p[d] = << >>, NEW a \in {0, 1}
  PROVE  IsFiniteSet(Held(c, p, a)) /\ Cardinality(Held(c, p, a)) = 0
<1>1. \A d \in a .. MaxDelay : p[d] = << >>
  BY DelayAssumption
<1>2. Held(c, p, a) = {}
  <2>1. Paid(c, << >>) = {}
    BY DEF Paid
  <2>2. \A x : x \notin Held(c, p, a)
    BY <1>1, <2>1, HeldIs
  <2> QED BY <2>2
<1>3. IsFiniteSet({}) /\ Cardinality({}) = 0
  BY FS_EmptySet, Zenon
<1> QED BY <1>2, <1>3

(* Less is held from a later day on.                                       *)
LEMMA HeldTaken ==
  ASSUME NEW c, NEW p, IsFiniteSet(Held(c, p, 0))
  PROVE  /\ IsFiniteSet(Held(c, p, 1))
         /\ Cardinality(Held(c, p, 1)) <= Cardinality(Held(c, p, 0))
<1>1. 1 .. MaxDelay \subseteq 0 .. MaxDelay
  BY DelayAssumption
<1>2. Held(c, p, 1) \in SUBSET Held(c, p, 0)
  BY <1>1, HeldIs
<1> QED BY <1>2, FS_Subset

(* The values of the three lists of a round are numbers.                   *)
LEMMA ListValues ==
  ASSUME Inv
  PROVE  /\ UpdateCost \in {1, 2} /\ MaxDelay \in Nat
         /\ Value(UpdateCost, messages) \in Nat /\ Value(UpdateCost, updates) \in Nat
         /\ Value(UpdateCost, feedbacks) \in Nat
<1>1. messages \in Seq(Carried) /\ updates \in Seq(News) /\ feedbacks \in Seq(Answers)
  BY DEF Inv, Underway
<1>2. UpdateCost \in {1, 2}
  BY CostType DEF Inv, SetupTyped
<1>3. Value(UpdateCost, messages) \in Nat
  BY <1>1, ValueType
<1>4. Value(UpdateCost, updates) \in Nat
  BY <1>1, ValueType
<1>5. Value(UpdateCost, feedbacks) \in Nat
  BY <1>1, ValueType
<1> QED BY <1>2, <1>3, <1>4, <1>5, DelayAssumption

(* Spent is an integer that changes with the counts. *)
LEMMA SpentType ==
  ASSUME Inv
  PROVE  /\ Spent \in Int
         /\ UpdateCost = 1 => Spent = graph.n - Count("S") - 1 + 2 * Count("R")
         /\ UpdateCost = 2 => Spent = 2 * (graph.n - Count("S") - 1) + 3 * Count("R")
<1>1. graph.n \in Nat /\ Count("S") \in 0 .. graph.n /\ Count("R") \in 0 .. graph.n
  BY CountType DEF Inv, ChoiceTypeOK
<1>2. UpdateCost = 1 => Spent = graph.n - Count("S") - 1 + 2 * Count("R")
  BY <1>1 DEF Spent
<1>3. UpdateCost = 2 => Spent = 2 * (graph.n - Count("S") - 1) + 3 * Count("R")
  BY <1>1 DEF Spent
<1>4. UpdateCost \in {1, 2}
  BY ListValues
<1> HIDE DEF Spent
<1>5. CASE UpdateCost = 1
  BY <1>1, <1>2, <1>5
<1>6. CASE UpdateCost = 2
  BY <1>1, <1>3, <1>6
<1> QED BY <1>2, <1>3, <1>4, <1>5, <1>6

-----------------------------------------------------------------------------
(* A step that uses up what it is paid with keeps the books.               *)
LEMMA Balanced ==
  ASSUME Inv, Inv', PayInv, mode' = mode, IsFiniteSet(Later'), NEW k \in Int,
         Spent' \in Int, Spent' <= Spent + k,
         Value(UpdateCost, messages') + Value(UpdateCost, updates')
             + Value(UpdateCost, feedbacks') + Cardinality(Later') + k
           <= Account + (sent' - sent)
  PROVE  PayInv'
<1>1. UpdateCost' = UpdateCost
  BY DEF UpdateCost
<1>2. Account' = Value(UpdateCost, messages') + Value(UpdateCost, updates')
                   + Value(UpdateCost, feedbacks') + Cardinality(Later')
  BY <1>1 DEF Account
<1>3. Account \in Int /\ Spent \in Int /\ sent \in Int
  <2>1. Cardinality(Later) \in Nat
    BY FS_CardinalityType DEF PayInv
  <2> QED BY <2>1, ListValues, SpentType DEF Account, Inv, CurvesTyped
<1>4. Account' \in Int /\ Spent' \in Int /\ sent' \in Int
  <2>1. Cardinality(Later') \in Nat
    BY FS_CardinalityType
  <2>2. messages' \in Seq(Carried') /\ updates' \in Seq(News') /\ feedbacks' \in Seq(Answers')
    BY DEF Inv, Underway
  <2>3. Value(UpdateCost, messages') \in Nat
    BY <2>2, ValueType
  <2>4. Value(UpdateCost, updates') \in Nat
    BY <2>2, ValueType
  <2>5. Value(UpdateCost, feedbacks') \in Nat
    BY <2>2, ValueType
  <2> QED BY <1>2, <2>1, <2>3, <2>4, <2>5 DEF Inv, CurvesTyped
<1>5. sent >= Spent + Account
  BY DEF PayInv
<1>6. Account' + k <= Account + (sent' - sent)
  BY <1>2
<1>7. sent' >= Spent' + Account'
  <2>1. PICK a, b, p, q, x, y : /\ a = Account /\ b = Account' /\ p = Spent /\ q = Spent'
                                /\ x = sent /\ y = sent'
    OBVIOUS
  <2> HIDE DEF Account, Spent
  <2>2. a \in Int /\ b \in Int /\ p \in Int /\ q \in Int /\ x \in Int /\ y \in Int
    BY <1>3, <1>4, <2>1, Zenon
  <2>3. x >= p + a /\ b + k <= a + (y - x) /\ q <= p + k
    BY <1>5, <1>6, <2>1, Zenon
  <2>4. y >= q + b
    BY <2>2, <2>3
  <2> QED BY <2>1, <2>4, Zenon
<1> QED BY <1>7 DEF PayInv

(* What a step spends: an update an infection, feedback a removal.         *)
LEMMA SpentStep ==
  ASSUME Inv, [Next]_experimentVars, ~NextSimulation
  PROVE  /\ mode' = mode /\ Spent' \in Int
         /\ RunOnUpdate => Spent' <= Spent + UpdateCost
         /\ RunOnFeedback => Spent' <= Spent + (UpdateCost + 1)
         /\ UNCHANGED state => Spent' <= Spent + 0
<1>1. graph' = graph /\ Nodes' = Nodes /\ graph.n \in Nat
  BY ChoiceStep DEF Inv, NodesTyped, ChoiceTypeOK
<1>2. mode' = mode /\ (RunOnFeedback => ~RunOnUpdate)
  BY DEF Next, GossipNext, MainLoop, RunOutOfPicks, LoseMessages, DelayMessages,
     RunOnUpdateRequest, RunOnUpdate, RunOnFeedback, EndRound, experimentVars, gossipVars, nodeVars
<1>3. UpdateCost' = UpdateCost /\ UpdateCost \in {1, 2}
  BY <1>2, ListValues DEF UpdateCost
<1> DEFINE n == graph.n  S == Count("S")  R == Count("R")  T == Count("S")'  Q == Count("R")'
           c == UpdateCost
<1>4. n \in Nat /\ S \in Nat /\ R \in Nat /\ T \in {S, S - 1} /\ Q \in Nat /\ Q <= R + 1
      /\ (~RunOnUpdate => T = S) /\ (~RunOnFeedback => Q = R)
  <2>1. S \in 0 .. n /\ R \in 0 .. n
    BY <1>1, CountType
  <2>2. S \in Nat /\ R \in Nat
    BY <1>1, <2>1
  <2> QED BY <1>1, <2>2, CountStep, CountRemoved
<1>5. UNCHANGED state => T = S /\ Q = R
  BY <1>1 DEF Count
<1>6. /\ Spent = c * (n - S - 1) + (c + 1) * R
      /\ Spent' = c * (n - T - 1) + (c + 1) * Q
  BY <1>1, <1>3 DEF Spent
<1> HIDE DEF n, S, R, T, Q, c, Spent
<1>7. CASE c = 1
  <2>1. Spent = n - S - 1 + 2 * R /\ Spent' = n - T - 1 + 2 * Q
    BY <1>4, <1>6, <1>7
  <2>2. Spent \in Int /\ Spent' \in Int
    BY <1>4, <2>1
  <2>3. RunOnUpdate => Spent' <= Spent + c
    BY <1>2, <1>4, <1>7, <2>1
  <2>4. RunOnFeedback => Spent' <= Spent + (c + 1)
    BY <1>2, <1>4, <1>7, <2>1
  <2>5. UNCHANGED state => Spent' <= Spent + 0
    BY <1>5, <2>1, <2>2
  <2> QED BY <1>2, <2>2, <2>3, <2>4, <2>5 DEF c
<1>8. CASE c = 2
  <2>1. Spent = 2 * (n - S - 1) + 3 * R /\ Spent' = 2 * (n - T - 1) + 3 * Q
    BY <1>4, <1>6, <1>8
  <2>2. Spent \in Int /\ Spent' \in Int
    BY <1>4, <2>1
  <2>3. RunOnUpdate => Spent' <= Spent + c
    BY <1>2, <1>4, <1>8, <2>1
  <2>4. RunOnFeedback => Spent' <= Spent + (c + 1)
    BY <1>2, <1>4, <1>8, <2>1
  <2>5. UNCHANGED state => Spent' <= Spent + 0
    BY <1>5, <2>1, <2>2
  <2> QED BY <1>2, <2>2, <2>3, <2>4, <2>5 DEF c
<1> QED BY <1>3, <1>7, <1>8 DEF c

(* Nothing is under way at the start of a simulation, and nothing spent.   *)
Fresh ==
  /\ graph.n \in Nat /\ graph.n >= 2 /\ state = Started /\ sent = 0 /\ phase = "main"
  /\ messages = << >> /\ updates = << >> /\ feedbacks = << >> /\ pending = NoPending
  /\ UpdateCost \in {1, 2}

LEMMA FreshBooks == Fresh => PayInv
<1> SUFFICES ASSUME Fresh PROVE PayInv
  OBVIOUS
<1> USE DEF Fresh
<1>1. Count("S") = graph.n - 1 /\ Count("R") = 0
  BY StartedCounts DEF Count
<1>2. Spent = 0
  <2>1. graph.n - Count("S") - 1 = 0
    BY <1>1
  <2>2. UpdateCost * 0 + (UpdateCost + 1) * 0 = 0
    OBVIOUS
  <2> QED BY <1>1, <2>1, <2>2 DEF Spent
<1>3. Value(UpdateCost, << >>) = 0
  <2>1. << >> \in Seq(Message)
    BY EmptySeq
  <2> QED BY <2>1, ValueType
<1>4. IsFiniteSet(Later) /\ Cardinality(Later) = 0
  <2>1. \A d \in 0 .. MaxDelay : pending[d] = << >>
    BY DEF NoPending
  <2>2. Later = Held(UpdateCost, pending, 0)
    BY DEF Later
  <2> QED BY <2>1, <2>2, HeldOf
<1> QED BY <1>2, <1>3, <1>4 DEF PayInv, Account

(* The same where a step starts the next simulation.                       *)
LEMMA FreshBooksNext == Fresh' => PayInv'
BY FreshBooks, PTL

(* A reply costs one message and, if it is not lost, is an update to come. *)
LEMMA ReplyPays ==
  ASSUME Inv, NEW m \in News, SendReply(m), NEW c \in {1, 2}, MaxDelay \in Nat,
         IsFiniteSet(Held(c, pending, 1)), phase = "deliver"
  PROVE  /\ IsFiniteSet(Held(c, pending', 1))
         /\ Value(c, updates') + Cardinality(Held(c, pending', 1))
              <= Value(c, updates) + Cardinality(Held(c, pending, 1)) + c
<1> DEFINE u == Value(c, updates)
           v == Value(c, updates')
           h == Cardinality(Held(c, pending, 1))
           k == Cardinality(Held(c, pending', 1))
<1>1. /\ updates \in Seq(News) /\ pending \in [0 .. MaxDelay -> Seq(Carried)] /\ m \in Carried
      /\ u \in Nat /\ h \in Nat /\ Worth(c, m) = c
  <2>1. updates \in Seq(News) /\ pending \in [0 .. MaxDelay -> Seq(Carried)] /\ m \in Carried
    BY DEF Inv, Underway, News
  <2>2. u \in Nat
    BY <2>1, ValueType
  <2>3. h \in Nat
    BY FS_CardinalityType
  <2> QED BY <2>1, <2>2, <2>3, WorthIs
<1>2. CASE UNCHANGED <<updates, pending>>
  BY <1>1, <1>2
<1>3. CASE updates' = Append(updates, m) /\ UNCHANGED pending
  <2>1. Value(c, Append(updates, m)) <= u + Worth(c, m)
    BY <1>1, ValueAppend
  <2>2. Append(updates, m) \in Seq(News)
    BY <1>1, AppendProperties
  <2>3. Value(c, Append(updates, m)) \in Nat
    BY <2>2, ValueType
  <2>4. v <= u + c /\ v \in Nat /\ k = h
    BY <1>1, <1>3, <2>1, <2>3
  <2> HIDE DEF u, v, h, k
  <2>5. v + k <= u + h + c
    BY <1>1, <2>4
  <2> QED BY <1>3, <2>5 DEF u, v, h, k
<1>4. ASSUME NEW d \in MinDelay .. MaxDelay, pending' = [pending EXCEPT ![d] = Append(@, m)],
             UNCHANGED updates
      PROVE  IsFiniteSet(Held(c, pending', 1)) /\ v + k <= u + h + c
  <2>1. d \in 0 .. MaxDelay
    BY DelayAssumption
  <2> DEFINE p == pending
             q == [p EXCEPT ![d] = Append(@, m)]
  <2>2. p \in [0 .. MaxDelay -> Seq(Carried)] /\ IsFiniteSet(Held(c, p, 1)) /\ q = pending'
    BY <1>1, <1>4
  <2>3. IsFiniteSet(Held(c, q, 1)) /\ Cardinality(Held(c, q, 1)) <= Cardinality(Held(c, p, 1)) + Worth(c, m)
    <3> HIDE DEF p
    <3> QED BY <1>1, <2>1, <2>2, HeldReply
  <2>4. IsFiniteSet(Held(c, pending', 1)) /\ k <= h + Worth(c, m)
    BY <2>2, <2>3, Zenon
  <2>5. k \in Nat
    BY <2>4, FS_CardinalityType
  <2>6. k <= h + c /\ v = u
    BY <1>1, <1>4, <2>4
  <2> HIDE DEF u, v, h, k
  <2>7. v + k <= u + h + c
    BY <1>1, <2>5, <2>6
  <2> QED BY <2>4, <2>7
<1> QED BY <1>2, <1>3, <1>4 DEF SendReply

-----------------------------------------------------------------------------
(* The books are kept by every step. *)
LEMMA PayStep ==
  ASSUME Inv, PayInv, [Next]_experimentVars
  PROVE  PayInv'
<1> DEFINE c == UpdateCost
           v == Value(c, messages)
           u == Value(c, updates)
           f == Value(c, feedbacks)
           l == Cardinality(Later)
           Books(k) == Value(c, messages') + Value(c, updates') + Value(c, feedbacks')
                         + Cardinality(Later') + k <= Account + (sent' - sent)
<1>1. Inv' /\ graph' = graph /\ task' = task
  BY InvStep, ChoiceStep, SetupStep DEF Inv, NodesTyped
<1>2. /\ c \in {1, 2} /\ MaxDelay \in Nat /\ v \in Nat /\ u \in Nat /\ f \in Nat /\ l \in Nat
      /\ IsFiniteSet(Later) /\ sent \in Nat /\ Account = v + u + f + l
  <2>1. l \in Nat
    BY FS_CardinalityType DEF PayInv
  <2> QED BY <2>1, ListValues DEF PayInv, Inv, CurvesTyped, Account
<1>3. /\ messages \in Seq(Carried) /\ updates \in Seq(News) /\ feedbacks \in Seq(Answers)
      /\ pending \in [0 .. MaxDelay -> Seq(Carried)]
  BY DEF Inv, Underway
<1>4. CASE NextSimulation
  <2>1. Fresh'
    <3>1. UpdateCost' \in {1, 2}
      <4>1. mode' \in Modes
        BY <1>1 DEF Inv, SetupTyped
      <4> QED BY <4>1 DEF UpdateCost, Modes, Push, Pull, PushPull
    <3>2. graph'.n \in Nat /\ graph'.n >= 2
      BY <1>1 DEF Inv, ChoiceTypeOK, Phased
    <3>3. /\ state' = Started /\ sent' = 0 /\ phase' = "main" /\ pending' = NoPending
          /\ messages' = << >> /\ updates' = << >> /\ feedbacks' = << >>
      BY <1>4 DEF NextSimulation, Inv, Phased
    <3>4. Started' = Started
      BY <1>1 DEF Started, Nodes
    <3> QED BY <3>1, <3>2, <3>3, <3>4 DEF Fresh
  <2> QED BY <2>1, FreshBooksNext
<1>5. ASSUME UNCHANGED <<mode, pending>>, (phase' = "deliver") <=> (phase = "deliver")
      PROVE  Later' = Later
  BY <1>5 DEF Later, UpdateCost
<1>6. ASSUME ~NextSimulation PROVE mode' = mode /\ Spent' \in Int /\ (UNCHANGED state => Spent' <= Spent + 0)
  BY <1>6, SpentStep
<1>7. ASSUME ~NextSimulation, UNCHANGED state, IsFiniteSet(Later'), Books(0) PROVE PayInv'
  BY <1>1, <1>6, <1>7, Balanced
<1>8. CASE MainLoop
  <2>1. PICK p \in Nodes : messages' = messages \o RunMainLoop(node, p)
                           /\ sent' = sent + Len(RunMainLoop(node, p))
    BY <1>8 DEF MainLoop
  <2>2. node \in Nodes
    BY <1>8 DEF MainLoop, Nodes, Inv, NodesTyped, ChoiceTypeOK
  <2>3. /\ UNCHANGED <<mode, state, phase, updates, feedbacks, pending>> /\ phase = "main"
    BY <1>8 DEF MainLoop
  <2>4. ~NextSimulation
    BY <2>3 DEF NextSimulation
  <2>5. Later' = Later
    BY <1>5, <2>3
  <2> DEFINE k == Len(RunMainLoop(node, p))
             w == Value(c, messages')
  <2>6. k \in Nat /\ w <= v + k /\ sent' = sent + k
    BY <2>1, <2>2, MainLoopPays
  <2>7. w \in Nat
    <3>1. messages' \in Seq(Carried')
      BY <1>1 DEF Inv, Underway
    <3> QED BY <3>1, ValueType
  <2> HIDE DEF c, v, u, f, l, k, w
  <2>8. w + u + f + l + 0 <= v + u + f + l + (sent' - sent)
    BY <1>2, <2>6, <2>7
  <2>9. Books(0)
    BY <1>2, <2>3, <2>5, <2>8 DEF u, f, l, w
  <2> QED BY <1>2, <1>7, <2>3, <2>4, <2>5, <2>9
<1>9. CASE RunOutOfPicks \/ UNCHANGED experimentVars
  <2>1. UNCHANGED <<mode, state, messages, updates, feedbacks, pending, sent>>
        /\ (phase' = "deliver" <=> phase = "deliver") /\ ~NextSimulation
    <3>1. ASSUME NextSimulation PROVE FALSE
      BY <1>9, <3>1 DEF RunOutOfPicks, NextSimulation, experimentVars, gossipVars, nodeVars
    <3> QED BY <1>9, <3>1 DEF RunOutOfPicks, experimentVars, gossipVars, nodeVars
  <2>2. Later' = Later
    BY <1>5, <2>1
  <2> HIDE DEF c
  <2>3. Books(0)
    BY <1>2, <2>1, <2>2
  <2> QED BY <1>2, <1>7, <2>1, <2>2, <2>3
<1>10. CASE LoseMessages
  <2>1. PICK kept \in Survivors : messages' = Entries(messages, kept)
    BY <1>10 DEF LoseMessages
  <2>2. /\ UNCHANGED <<mode, state, updates, feedbacks, pending, sent>> /\ phase = "main"
        /\ phase' \in {"delay", "deliver"} /\ ~NextSimulation
    BY <1>10 DEF LoseMessages, NextSimulation
  <2> DEFINE w == Value(c, messages')
  <2>3. w <= v
    <3>1. kept \in SUBSET (1 .. Len(messages))
      BY <1>3, LenProperties DEF Survivors
    <3>2. Value(c, Entries(messages, kept)) <= Value(c, messages)
      BY <1>3, <3>1, ValueEntries
    <3> QED BY <2>1, <3>2
  <2>4. w \in Nat
    <3>1. messages' \in Seq(Carried')
      BY <1>1 DEF Inv, Underway
    <3> QED BY <3>1, ValueType
  <2>5. IsFiniteSet(Later') /\ Cardinality(Later') <= l /\ Cardinality(Later') \in Nat
    <3>1. Later = Held(c, pending, 0) /\ Later' \in {Held(c, pending, 0), Held(c, pending, 1)}
      BY <2>2 DEF Later, UpdateCost
    <3>2. IsFiniteSet(Held(c, pending, 1)) /\ Cardinality(Held(c, pending, 1)) <= l
      BY <1>2, <3>1, HeldTaken
    <3>3. IsFiniteSet(Later') /\ Cardinality(Later') <= l
      BY <1>2, <3>1, <3>2
    <3> QED BY <3>3, FS_CardinalityType
  <2> DEFINE h == Cardinality(Later')
  <2> HIDE DEF c, v, u, f, l, h, w
  <2>6. w + u + f + h + 0 <= v + u + f + l + (sent - sent)
    BY <1>2, <2>3, <2>4, <2>5 DEF h
  <2>7. Books(0)
    BY <1>2, <2>2, <2>6 DEF u, f, h, w
  <2> QED BY <1>7, <2>2, <2>5, <2>7
<1>11. CASE DelayMessages
  <2>1. PICK delay : pending' = [d \in 0 .. MaxDelay |->
           pending[d] \o Entries(messages, {k \in DOMAIN messages : delay[k] = d})]
    BY <1>11 DEF DelayMessages
  <2>2. /\ UNCHANGED <<mode, state, updates, feedbacks, sent>> /\ phase = "delay"
        /\ phase' = "deliver" /\ messages' = pending'[0] /\ ~NextSimulation
    BY <1>11 DEF DelayMessages, NextSimulation
  <2>3. Later = Held(c, pending, 0) /\ Later' = Held(c, pending', 1)
    BY <2>2 DEF Later, UpdateCost
  <2> DEFINE w == Value(c, messages')
             h == Cardinality(Later')
  <2>4. /\ IsFiniteSet(Held(c, pending', 1)) /\ Cardinality(Held(c, pending', 1)) \in Nat
        /\ pending'[0] \in Seq(Carried)
        /\ Cardinality(Held(c, pending', 1)) + Value(c, pending'[0])
             <= Cardinality(Held(c, pending, 0)) + Value(c, messages)
    <3>1. IsFiniteSet(Held(c, pending, 0))
      BY <1>2, <2>3
    <3>2. PICK M, p, q, s : M = Carried /\ p = pending /\ q = pending' /\ s = messages
      OBVIOUS
    <3>3. /\ p \in [0 .. MaxDelay -> Seq(M)] /\ s \in Seq(M) /\ IsFiniteSet(Held(c, p, 0))
          /\ q = PutOff(p, s, delay)
      BY <1>3, <2>1, <3>1, <3>2 DEF PutOff
    <3>4. c \in {1, 2} /\ MaxDelay \in Nat
      BY <1>2
    <3> HIDE DEF c
    <3>5. /\ IsFiniteSet(Held(c, q, 1)) /\ Cardinality(Held(c, q, 1)) \in Nat
          /\ q[0] \in Seq(M)
          /\ Cardinality(Held(c, q, 1)) + Value(c, q[0]) <= Cardinality(Held(c, p, 0)) + Value(c, s)
      BY <3>3, <3>4, HeldDelay
    <3> QED BY <3>2, <3>5, Zenon
  <2>5. w \in Nat
    BY <2>2, <2>4, ValueType
  <2>6. IsFiniteSet(Later') /\ h \in Nat /\ h + w <= l + v
    BY <2>2, <2>3, <2>4
  <2> HIDE DEF c, v, u, f, l, h, w
  <2>7. w + u + f + h + 0 <= v + u + f + l + (sent - sent)
    BY <1>2, <2>5, <2>6
  <2>8. Books(0)
    BY <1>2, <2>2, <2>7 DEF u, f, h, w
  <2> QED BY <1>7, <2>2, <2>6, <2>8
<1>12. CASE RunOnUpdateRequest
  <2> DEFINE m == Head(messages)
             w == Value(c, messages')
             x == Value(c, updates')
             h == Cardinality(Later')
  <2>1. /\ UNCHANGED <<mode, state, phase, feedbacks>> /\ phase = "deliver" /\ messages # << >>
        /\ messages' = Tail(messages) /\ ~NextSimulation
        /\ \/ m.type = "update" /\ updates' = Append(updates, m) /\ UNCHANGED <<pending, sent>>
           \/ m.type = "request" /\ OnUpdateRequest(m)
    BY <1>12 DEF RunOnUpdateRequest, NextSimulation
  <2>2. m \in Carried /\ Worth(c, m) \in {0, 1, 2}
    BY <1>2, <2>1, FirstMessages, CostType
  <2>3. w + Worth(c, m) <= v /\ w \in Nat
    <3>1. Value(c, Tail(messages)) + Worth(c, Head(messages)) <= Value(c, messages)
      BY <1>2, <1>3, <2>1, ValueTail
    <3>2. messages' \in Seq(Carried')
      BY <1>1 DEF Inv, Underway
    <3>3. w \in Nat
      BY <3>2, ValueType
    <3> QED BY <2>1, <3>1, <3>3
  <2>4. Later = Held(c, pending, 1) /\ Later' = Held(c, pending', 1)
    BY <2>1 DEF Later, UpdateCost
  <2>5. x \in Nat
    <3>1. updates' \in Seq(News')
      BY <1>1 DEF Inv, Underway
    <3> QED BY <3>1, ValueType
  <2>6. ASSUME IsFiniteSet(Later'), h \in Nat, sent' \in Int,
               x + h <= u + l + (sent' - sent) + Worth(c, m)
        PROVE  PayInv'
    <3> DEFINE y == Worth(c, m)  t == sent'
    <3>1. y \in Nat
      BY <2>2
    <3>2. w + y <= v /\ x + h <= u + l + (t - sent) + y /\ t \in Int
      BY <2>3, <2>6
    <3> HIDE DEF c, v, u, f, l, h, w, x, y, t
    <3>3. w + x + f + h + 0 <= v + u + f + l + (t - sent)
      BY <1>2, <2>3, <2>5, <2>6, <3>1, <3>2
    <3>4. Books(0)
      BY <1>2, <2>1, <3>3 DEF f, h, w, x, t
    <3> QED BY <1>7, <2>1, <2>6, <3>4
  <2>7. CASE m.type = "update" /\ updates' = Append(updates, m) /\ UNCHANGED <<pending, sent>>
    <3>1. m \in News
      BY <2>2, <2>7 DEF News
    <3>2. Value(c, Append(updates, m)) <= Value(c, updates) + Worth(c, m)
      BY <1>2, <1>3, <3>1, ValueAppend
    <3>3. Later' = Later
      BY <2>4, <2>7
    <3>4. x <= u + Worth(c, m) /\ h = l /\ sent' = sent
      BY <2>7, <3>2, <3>3
    <3>5. x + h <= u + l + (sent' - sent) + Worth(c, m)
      <4> DEFINE y == Worth(c, m)
      <4> HIDE DEF c, v, u, f, l, h, w, x, y
      <4>1. y \in Int
        BY <2>2 DEF y
      <4>2. x <= u + y /\ h = l /\ sent' = sent
        BY <3>4 DEF y
      <4>3. x + h <= u + l + (sent - sent) + y
        BY <1>2, <2>5, <4>1, <4>2
      <4> QED BY <4>2, <4>3 DEF y
    <3> QED BY <1>2, <2>6, <3>3, <3>4, <3>5
  <2>8. CASE m.type = "request" /\ state[m.to] = "I" /\ SendReply(Update(m.to, m.from)) /\ sent' = sent + 1
    <3> DEFINE r == Update(m.to, m.from)
    <3>1. r \in News
      BY <2>2, <2>8 DEF News, Carried, Message, Update
    <3>2. Worth(c, m) = c - 1
      BY <2>8 DEF Worth
    <3>3. SendReply(r) /\ IsFiniteSet(Held(c, pending, 1))
      BY <1>2, <2>4, <2>8
    <3> HIDE DEF r, c
    <3>4. /\ IsFiniteSet(Held(c, pending', 1))
          /\ Value(c, updates') + Cardinality(Held(c, pending', 1))
               <= Value(c, updates) + Cardinality(Held(c, pending, 1)) + c
      BY <1>2, <2>1, <3>1, <3>3, ReplyPays
    <3>5. IsFiniteSet(Later') /\ h \in Nat /\ x + h <= u + l + c
      BY <2>4, <3>4, FS_CardinalityType
    <3>6. x + h <= u + l + (sent' - sent) + Worth(c, m)
      <4> HIDE DEF v, u, f, l, h, w, x
      <4>1. c \in Int
        BY <1>2
      <4>2. u + l + ((sent + 1) - sent) + (c - 1) = u + l + c
        BY <1>2, <4>1
      <4> QED BY <2>8, <3>2, <3>5, <4>2
    <3> QED BY <1>2, <2>6, <2>8, <3>5, <3>6
  <2>9. CASE m.type = "request" /\ UNCHANGED <<updates, pending, sent>>
    <3>1. Later' = Later /\ h = l /\ x = u /\ sent' = sent
      BY <2>4, <2>9
    <3>2. x + h <= u + l + (sent' - sent) + Worth(c, m)
      <4> DEFINE y == Worth(c, m)
      <4>1. y \in Nat
        BY <2>2
      <4> HIDE DEF c, v, u, f, l, h, w, x, y
      <4>2. x + h <= u + l + (sent - sent) + y
        BY <1>2, <3>1, <4>1
      <4> QED BY <3>1, <4>2 DEF y
    <3> QED BY <1>2, <2>6, <3>1, <3>2
  <2> QED BY <2>1, <2>7, <2>8, <2>9 DEF OnUpdateRequest
<1>13. CASE RunOnUpdate
  <2> DEFINE m == Head(updates)
             x == Value(c, updates')
             y == Value(c, feedbacks')
  <2>1. /\ UNCHANGED <<mode, phase, messages, pending, sent>> /\ updates # << >>
        /\ updates' = Tail(updates) /\ OnUpdate(m) /\ ~NextSimulation
    BY <1>13 DEF RunOnUpdate, NextSimulation
  <2>2. m \in News /\ Worth(c, m) = c
    BY <2>1, FirstMessages, WorthIs
  <2>3. x + c <= u /\ x \in Nat
    <3>1. Value(c, Tail(updates)) + Worth(c, Head(updates)) <= Value(c, updates)
      BY <1>2, <1>3, <2>1, ValueTail
    <3>2. updates' \in Seq(News')
      BY <1>1 DEF Inv, Underway
    <3>3. x \in Nat
      BY <3>2, ValueType
    <3>4. x + Worth(c, m) <= u
      BY <2>1, <3>1
    <3> QED BY <2>2, <3>3, <3>4
  <2>4. Later' = Later
    BY <1>5, <2>1
  <2>5. CASE feedbacks' = feedbacks
    <3>1. Spent' \in Int /\ Spent' <= Spent + c
      BY <1>13, <2>1, SpentStep
    <3>2. v + x + f + l + c <= v + u + f + l + (sent - sent)
      <4> HIDE DEF c, v, u, f, l, x
      <4> QED BY <1>2, <2>3
    <3>3. Books(c)
      <4> HIDE DEF c
      <4> QED BY <1>2, <2>1, <2>4, <2>5, <3>2
    <3>4. c \in Int /\ IsFiniteSet(Later')
      BY <1>2, <2>4
    <3> QED BY <1>1, <2>1, <3>1, <3>3, <3>4, Balanced
  <2>6. CASE UNCHANGED state /\ feedbacks' = Append(feedbacks, Feedback(m.to, m.from))
             /\ state[m.to] # "S"
    <3> DEFINE r == Feedback(m.to, m.from)
    <3>1. r \in Answers /\ Worth(c, r) = c
      BY <2>2, <2>6, WorthIs DEF News, Carried, Answers, Message, Feedback
    <3>2. y <= f + c /\ y \in Nat
      <4> HIDE DEF r, c
      <4>1. Value(c, Append(feedbacks, r)) <= Value(c, feedbacks) + Worth(c, r)
        BY <1>2, <1>3, <3>1, ValueAppend
      <4>2. Append(feedbacks, r) \in Seq(Answers)
        BY <1>3, <3>1, AppendProperties
      <4>3. Value(c, Append(feedbacks, r)) \in Nat
        BY <4>2, ValueType
      <4> QED BY <2>6, <3>1, <4>1, <4>3 DEF r
    <3>3. v + x + y + l + 0 <= v + u + f + l + (sent - sent)
      <4> HIDE DEF c, v, u, f, l, x, y
      <4>1. c \in Int
        BY <1>2
      <4> QED BY <1>2, <2>3, <3>2, <4>1
    <3>4. Books(0)
      <4> HIDE DEF c
      <4> QED BY <1>2, <2>1, <2>4, <3>3
    <3> QED BY <1>2, <1>7, <2>1, <2>4, <2>6, <3>4
  <2> QED BY <2>1, <2>5, <2>6 DEF OnUpdate
<1>14. CASE RunOnFeedback
  <2> DEFINE m == Head(feedbacks)
             y == Value(c, feedbacks')
  <2>1. /\ UNCHANGED <<mode, phase, messages, updates, pending>> /\ feedbacks # << >>
        /\ feedbacks' = Tail(feedbacks) /\ sent' = sent + 1 /\ ~NextSimulation
    BY <1>14 DEF RunOnFeedback, NextSimulation
  <2>2. m \in Answers /\ Worth(c, m) = c
    BY <2>1, FirstMessages, WorthIs
  <2>3. y + c <= f /\ y \in Nat
    <3>1. Value(c, Tail(feedbacks)) + Worth(c, Head(feedbacks)) <= Value(c, feedbacks)
      BY <1>2, <1>3, <2>1, ValueTail
    <3>2. feedbacks' \in Seq(Answers')
      BY <1>1 DEF Inv, Underway
    <3>3. y \in Nat
      BY <3>2, ValueType
    <3>4. y + Worth(c, m) <= f
      BY <2>1, <3>1
    <3> QED BY <2>2, <3>3, <3>4
  <2>4. Later' = Later
    BY <1>5, <2>1
  <2>5. Spent' \in Int /\ Spent' <= Spent + (c + 1)
    BY <1>14, <2>1, SpentStep
  <2>6. v + u + y + l + (c + 1) <= v + u + f + l + ((sent + 1) - sent)
    <3>1. c \in Int
      BY <1>2
    <3> HIDE DEF c, v, u, f, l, y
    <3> QED BY <1>2, <2>3, <3>1
  <2>7. Books(c + 1)
    <3> HIDE DEF c
    <3> QED BY <1>2, <2>1, <2>4, <2>6
  <2>8. c + 1 \in Int /\ IsFiniteSet(Later')
    BY <1>2, <2>4
  <2> QED BY <1>1, <2>1, <2>5, <2>7, <2>8, <1>6, Balanced
<1>15. CASE EndRound
  <2>1. /\ UNCHANGED <<mode, state, messages, updates, feedbacks, sent>> /\ phase = "deliver"
        /\ phase' \in {"main", "done"} /\ ~NextSimulation
        /\ pending' = [d \in 0 .. MaxDelay |-> IF d < MaxDelay THEN pending[d + 1] ELSE << >>]
    BY <1>15 DEF EndRound, NextSimulation
  <2>2. Later = Held(c, pending, 1) /\ Later' = Held(c, pending', 0)
    BY <2>1 DEF Later, UpdateCost
  <2>3. IsFiniteSet(Later') /\ Cardinality(Later') <= l /\ Cardinality(Later') \in Nat
    <3>1. IsFiniteSet(Held(c, pending, 1))
      BY <1>2, <2>2
    <3> HIDE DEF c
    <3>2. /\ IsFiniteSet(Held(c, pending', 0))
          /\ Cardinality(Held(c, pending', 0)) <= Cardinality(Held(c, pending, 1))
      BY <1>2, <2>1, <3>1, HeldShift
    <3> QED BY <2>2, <3>2, FS_CardinalityType
  <2> DEFINE h == Cardinality(Later')
  <2>4. v + u + f + h + 0 <= v + u + f + l + (sent - sent)
    <3>1. h <= l /\ h \in Nat
      BY <2>3
    <3> HIDE DEF c, v, u, f, l, h
    <3> QED BY <1>2, <3>1
  <2>5. Books(0)
    <3> HIDE DEF c
    <3> QED BY <1>2, <2>1, <2>4
  <2> QED BY <1>7, <2>1, <2>3, <2>5
<1> QED BY <1>4, <1>8, <1>9, <1>10, <1>11, <1>12, <1>13, <1>14, <1>15 DEF Next, GossipNext

(* What has been spent is paid for. *)
LEMMA PaidFor == Inv /\ PayInv => MessagesPay
<1> SUFFICES ASSUME Inv, PayInv PROVE MessagesPay
  OBVIOUS
<1>1. Account \in Nat
  <2>1. Cardinality(Later) \in Nat
    BY FS_CardinalityType DEF PayInv
  <2> QED BY <2>1, ListValues DEF Account
<1>2. sent \in Nat /\ Spent \in Int
  BY SpentType DEF Inv, CurvesTyped
<1>3. sent >= Spent
  BY <1>1, <1>2 DEF PayInv
<1>4. UpdateCost * ((graph.n - Count("S")) - 1) + (UpdateCost + 1) * Count("R") = Spent
  BY DEF Spent
<1> QED BY <1>3, <1>4 DEF MessagesPay

(* Whatever is lost, delayed or answered late, the counter of messages has *)
(* counted an update for every infection, by pull its request too, and for *)
(* every removal an update that was no news and the feedback to it.        *)
THEOREM MessagesCounted == Spec => []MessagesPay
<1>1. Init => PayInv
  <2> SUFFICES ASSUME Init PROVE PayInv
    OBVIOUS
  <2>1. Inv
    BY InvInit
  <2>2. Fresh
    BY <2>1, ListValues DEF Fresh, Init, GossipInit, Inv, ChoiceTypeOK, Phased
  <2> QED BY <2>2, FreshBooks
<1>2. Inv /\ PayInv /\ [Next]_experimentVars => PayInv'
  BY PayStep
<1> QED BY <1>1, <1>2, PaidFor, Invariant, PTL DEF Spec

=============================================================================
