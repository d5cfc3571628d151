--------------------------- MODULE PushPullProofs ---------------------------
(***************************************************************************)
(* Push, pull and push-pull on the same choices: push-pull is ahead, on    *)
(* any graph and any schedule; and in each round the news gets one hop     *)
(* further, no less and no more.                                           *)
(*                                                                         *)
(* The property compares a simulation with those that ended before it, so  *)
(* it needs what a state does not keep: who had the news in each of their  *)
(* rounds.  The schedule that they share does keep enough.  A simulation   *)
(* on it is told by the sets of nodes that have the news when each round   *)
(* begins: in a round, the news goes at most between a node and the one it *)
(* picks, either way, and push-pull takes it everywhere there.  Such sets  *)
(* exist for every simulation, and can be compared round by round; for the *)
(* simulation at hand a history variable has the current one.              *)
(***************************************************************************)
EXTENDS ExperimentsProofs

(* The choice of node i in round r is made.                                *)
Drawn(i, r) == PlaceOf(i, r) < Len(picks[ScheduleOf(i)])

(* Those that can have the news after round r, if A had it before.         *)
Reach(A, r) ==
  {j \in Nodes : j \in A \/ Picked(j, r) \in A \/ \E i \in A : Picked(i, r) = j}

(* Every node asks the schedule once a round, in turn.                     *)
Turn ==
  /\ \A i \in Nodes : i < node => Drawn(i, Now)
  /\ graph.kind = "K" => ptr[0] + 1 = PlaceOf(node, Now)
  /\ graph.kind = "RG" =>
       \A i \in Nodes : ptr[i] + 1 = PlaceOf(i, Now) + (IF i < node THEN 1 ELSE 0)

(* Message m will tell node j, if A were informed when the round began.    *)
Brings(m, j, A) ==
  \/ m.type = "update" /\ m.to = j
  \/ m.type = "request" /\ m.from = j /\ m.to \in A

(* The nodes whose main loop has run have asked the one they picked, or    *)
(* told it, or both.                                                       *)
Asked(A) ==
  \A i \in Nodes : i < node /\ Picked(i, Now) # i =>
    /\ mode.pull => Request(i, Picked(i, Now)) \in Range(messages)
    /\ mode.push /\ i \in A => Update(i, Picked(i, Now)) \in Range(messages)

(* All that are one hop away have the news, or will be told in this round. *)
Promised(A) ==
  \A j \in Hop(A) :
    \/ j \in Told
    \/ \E u \in Range(updates) : u.to = j
    \/ \E m \in Range(messages) : Brings(m, j, A)

(* A round that began with A informed.                                     *)
Round(A) ==
  /\ A \subseteq Told /\ Told \subseteq Hop(A)
  /\ phase # "deliver" \/ messages # << >> => Told = A
  /\ phase = "deliver" => node = graph.n
  /\ \A m \in Range(messages) : /\ m.from < node /\ m.to = Picked(m.from, Now)
                                /\ m.type = "update" => mode.push
                                /\ m.type = "request" => mode.pull
  /\ \A u \in Range(updates) : u.to \in Hop(A)
  /\ phase = "main" => Asked(A)
  /\ phase = "deliver" => Promised(A)

(* T tells the curve c.                                                    *)
Story(T, c) ==
  /\ T \in Seq(SUBSET Nodes) /\ Len(T) = Len(c) /\ Len(T) >= 1
  /\ T[1] = {0}
  /\ \A r \in 1 .. Len(T) : c[r] = Cardinality(T[r])
  /\ \A r \in 1 .. Len(T) - 1 :
       T[r + 1] \subseteq Reach(T[r], r) /\ \A i \in Nodes : Drawn(i, r)

(* The simulation told by U has ended, and this one, told by T, is ahead   *)
(* of it if it is by push and pull.                                        *)
Behind(U, T) ==
  /\ U[Len(U)] = Nodes
  /\ mode = PushPull =>
       /\ phase # "IndexError"
       /\ Len(T) <= Len(U) /\ (phase # "done" => Len(T) < Len(U))
       /\ \A r \in 1 .. Len(T) : U[r] \subseteq T[r]

(* The simulations on one schedule: this one has a story, which goes on in *)
(* its round, and each one that has ended has a story that is behind.      *)
AheadInv ==
  Scheduled =>
    /\ task.kind = "si" /\ ~task.lossy /\ Turn
    /\ \E T : /\ Story(T, infected) /\ Round(T[Now])
              /\ \A k \in DOMAIN results :
                   \E U : Story(U, results[k].infected) /\ Behind(U, T)

(* Schedules only get longer. *)
Kept ==
  /\ graph' = graph
  /\ \A s \in Schedules :
       /\ Len(picks[s]) <= Len(picks'[s])
       /\ \A k \in 1 .. Len(picks[s]) : picks'[s][k] = picks[s][k]

-----------------------------------------------------------------------------
(* Places are numbers, and those of the next round come right after.       *)
LEMMA PlaceType ==
  ASSUME graph.n \in Nat, NEW r \in Nat \ {0}
  PROVE  /\ \A i \in 0 .. graph.n : PlaceOf(i, r) \in Nat
         /\ graph.kind = "K" => /\ PlaceOf(0, r + 1) = PlaceOf(graph.n, r)
                                /\ \A i \in 0 .. graph.n - 1 : PlaceOf(i + 1, r) = PlaceOf(i, r) + 1
         /\ graph.kind # "K" => \A i : PlaceOf(i, r) = r - 1 /\ PlaceOf(i, r + 1) = r
<1> DEFINE n == graph.n
           z == (r - 1) * n
<1>1. n \in Nat /\ r - 1 \in Nat
  OBVIOUS
<1> HIDE DEF n
<1>2. z \in Nat /\ ((r + 1) - 1) * n = z + n
  <2>1. \A a \in Nat, b \in Nat : a * b \in Nat /\ ((a + 1 + 1) - 1) * b = a * b + b
    OBVIOUS
  <2>2. r = (r - 1) + 1
    OBVIOUS
  <2> QED BY <1>1, <2>1, <2>2
<1> USE DEF n
<1> HIDE DEF z
<1>3. \A i : PlaceOf(i, r) = IF graph.kind = "K" THEN z + i ELSE r - 1
  BY DEF PlaceOf, z
<1>4. \A i : PlaceOf(i, r + 1) = IF graph.kind = "K" THEN z + n + i ELSE r
  BY <1>2 DEF PlaceOf
<1> QED BY <1>2, <1>3, <1>4

(* A step only appends to the schedules.                                   *)
LEMMA PicksKept ==
  ASSUME Inv, [Next]_experimentVars
  PROVE  Kept
<1>1. graph' = graph
  BY ChoiceStep DEF Inv, NodesTyped
<1>2. ASSUME UNCHANGED picks PROVE Kept
  BY <1>1, <1>2, LenProperties DEF Kept, Inv, ChoiceTypeOK
<1>3. CASE MainLoop
  <2>1. PICK p \in Nodes : GetRandomNeighbor(node, p)
    BY <1>3 DEF MainLoop
  <2>2. CASE UNCHANGED picks
    BY <1>2, <2>2
  <2>3. ASSUME NEW s, p \in Nodes, picks' = [picks EXCEPT ![s] = Append(@, p)] PROVE Kept
    <3>1. picks \in [Schedules -> Seq(Nodes)]
      BY DEF Inv, ChoiceTypeOK
    <3>2. \A t \in Schedules : picks'[t] = picks[t] \/ picks'[t] = Append(picks[t], p)
      BY <2>3, <3>1
    <3>3. \A t \in Schedules : /\ Len(picks[t]) \in Nat
                               /\ Len(picks[t]) <= Len(picks'[t])
                               /\ \A k \in 1 .. Len(picks[t]) : picks'[t][k] = picks[t][k]
      BY <2>3, <3>1, <3>2, LenProperties, AppendProperties
    <3> QED BY <1>1, <3>3 DEF Kept
  <2> QED BY <2>1, <2>2, <2>3 DEF GetRandomNeighbor, ScheduledNeighbor
<1>4. CASE Next /\ ~MainLoop
  BY <1>2, <1>4 DEF Next, GossipNext, RunOutOfPicks, LoseMessages, DelayMessages,
     RunOnUpdateRequest, RunOnUpdate, RunOnFeedback, EndRound, NextSimulation, Reset, choiceVars
<1>5. CASE UNCHANGED experimentVars
  BY <1>2, <1>5 DEF experimentVars, gossipVars, choiceVars
<1> QED BY <1>3, <1>4, <1>5

(* So the choices made stay as they are,                                   *)
LEMMA DrawnKept ==
  ASSUME ChoiceTypeOK, Kept, NEW i, i \in Nodes, NEW r \in Nat \ {0}, Drawn(i, r)
  PROVE  Drawn(i, r)' /\ Picked(i, r)' = Picked(i, r)
<1>1. ScheduleOf(i) \in Schedules /\ ScheduleOf(i)' = ScheduleOf(i) /\ PlaceOf(i, r)' = PlaceOf(i, r)
  BY DEF Kept, ScheduleOf, Schedules, PlaceOf
<1>2. PlaceOf(i, r) \in Nat
  <2>1. graph.n \in Nat /\ i \in 0 .. graph.n
    BY DEF ChoiceTypeOK, Nodes
  <2> QED BY <2>1, PlaceType
<1> DEFINE s == ScheduleOf(i)
           k == PlaceOf(i, r)
<1>3. Len(picks[s]) \in Nat /\ Len(picks[s]) <= Len(picks'[s]) /\ k < Len(picks[s])
  BY <1>1, LenProperties DEF Kept, ChoiceTypeOK, Drawn
<1>4. picks'[s][k + 1] = picks[s][k + 1]
  <2>1. k + 1 \in 1 .. Len(picks[s])
    BY <1>2, <1>3
  <2> QED BY <1>1, <2>1 DEF Kept
<1>5. k < Len(picks'[s])
  BY <1>2, <1>3
<1> QED BY <1>1, <1>4, <1>5 DEF Drawn, Picked

(* and who can be reached in a round,                                      *)
LEMMA ReachKept ==
  ASSUME ChoiceTypeOK, Kept, NEW r \in Nat \ {0}, \A i \in Nodes : Drawn(i, r), NEW A,
         A \in SUBSET Nodes
  PROVE  (\A i \in Nodes : Drawn(i, r)') /\ Reach(A, r)' = Reach(A, r)
<1>1. \A i \in Nodes : Drawn(i, r)' /\ Picked(i, r)' = Picked(i, r)
  BY DrawnKept
<1>2. Nodes' = Nodes
  BY DEF Kept, Nodes
<1> QED BY <1>1, <1>2 DEF Reach

(* and the stories.                                                        *)
LEMMA StoryKept ==
  ASSUME ChoiceTypeOK, Kept, NEW T, NEW c, Story(T, c)
  PROVE  Story(T, c)'
<1>1. Nodes' = Nodes
  BY DEF Kept, Nodes
<1>2. T \in Seq(SUBSET Nodes) /\ Len(T) \in Nat
  BY LenProperties DEF Story
<1>3. ASSUME NEW r \in 1 .. Len(T) - 1
      PROVE  T[r + 1] \subseteq Reach(T[r], r)' /\ \A i \in Nodes : Drawn(i, r)'
  <2>1. r \in Nat \ {0} /\ r \in 1 .. Len(T)
    BY <1>2
  <2>2. T[r] \in SUBSET Nodes
    BY <1>2, <2>1, ElementOfSeq
  <2>3. T[r + 1] \subseteq Reach(T[r], r) /\ \A i \in Nodes : Drawn(i, r)
    BY DEF Story
  <2> QED BY <2>1, <2>2, <2>3, ReachKept
<1> QED BY <1>1, <1>3 DEF Story

(* A new round goes on with the story. *)
LEMMA StoryGoesOn ==
  ASSUME NEW T, NEW c, NEW A, Story(T, c), c \in Seq(Nat), A \in SUBSET Nodes,
         A \subseteq Reach(T[Len(T)], Len(T)), \A i \in Nodes : Drawn(i, Len(T)),
         NEW a, a = Cardinality(A), a \in Nat
  PROVE  Story(Append(T, A), Append(c, a))
<1>1. /\ T \in Seq(SUBSET Nodes) /\ Len(T) \in Nat /\ Len(T) >= 1
      /\ Len(c) = Len(T) /\ T[1] = {0}
  BY LenProperties DEF Story
<1> DEFINE n == Len(T)
           U == Append(T, A)
           d == Append(c, a)
<1>2. /\ U \in Seq(SUBSET Nodes) /\ Len(U) = n + 1 /\ U[n + 1] = A
      /\ \A r \in 1 .. n : U[r] = T[r]
  BY <1>1, AppendProperties
<1>3. Len(d) = n + 1 /\ d[n + 1] = a /\ \A r \in 1 .. n : d[r] = c[r]
  BY <1>1, AppendProperties
<1> HIDE DEF U, d
<1>4. ASSUME NEW r \in 1 .. Len(U) PROVE d[r] = Cardinality(U[r])
  <2>1. CASE r = n + 1
    BY <1>2, <1>3, <2>1
  <2>2. CASE r # n + 1
    <3>1. r \in 1 .. n
      BY <1>1, <1>2, <2>2
    <3> QED BY <1>2, <1>3, <3>1 DEF Story
  <2> QED BY <2>1, <2>2
<1>5. ASSUME NEW r \in 1 .. Len(U) - 1
      PROVE  U[r + 1] \subseteq Reach(U[r], r) /\ \A i \in Nodes : Drawn(i, r)
  <2>1. r \in 1 .. n
    BY <1>1, <1>2
  <2>2. CASE r = n
    BY <1>1, <1>2, <2>1, <2>2
  <2>3. CASE r # n
    <3>1. r \in 1 .. n - 1 /\ r + 1 \in 1 .. n
      BY <1>1, <2>1, <2>3
    <3> QED BY <1>2, <2>1, <3>1 DEF Story
  <2> QED BY <2>2, <2>3
<1>6. Len(U) >= 1 /\ Len(U) = Len(d) /\ U[1] = {0}
  BY <1>1, <1>2, <1>3
<1>7. Story(U, d)
  BY <1>2, <1>4, <1>5, <1>6 DEF Story
<1> QED BY <1>7 DEF U, d

(* What is informed more spreads to more. *)
LEMMA ReachMore ==
  ASSUME NEW A, NEW B, A \subseteq B, NEW r
  PROVE  Reach(A, r) \subseteq Reach(B, r)
BY DEF Reach

-----------------------------------------------------------------------------
(* The main loop of a node asks its schedule, and sends what push and pull *)
(* make of the answer.                                                     *)
LEMMA AskedPick ==
  ASSUME Inv, Scheduled, Turn, CurveInv, Next, MainLoop,
         NEW i, i = node, NEW r, r = Now, NEW p \in Nodes, GetRandomNeighbor(i, p)
  PROVE  /\ i \in Nodes /\ Turn'
         /\ Drawn(i, r)' /\ Picked(i, r)' = p
<1>1. graph.n \in Nat \ {0} /\ i \in Nodes /\ node' = i + 1 /\ Now' = r /\ r \in Nat \ {0}
  <2>1. infected \in Seq(0 .. graph.n)
    BY DEF Inv, CurvesTyped, Curve
  <2> QED BY <2>1, LenProperties DEF MainLoop, Inv, NodesTyped, ChoiceTypeOK, Nodes, CurveInv, Now
<1>2. /\ Kept /\ graph' = graph /\ Nodes' = Nodes
      /\ Schedules' = Schedules /\ \A j : ScheduleOf(j)' = ScheduleOf(j)
      /\ \A j : PlaceOf(j, r)' = PlaceOf(j, r)
  <2>1. Kept
    BY PicksKept
  <2> QED BY <2>1 DEF Kept, Nodes, Schedules, ScheduleOf, PlaceOf
<1> DEFINE s == ScheduleOf(i)
           pos == ptr[s] + 1
<1>3. /\ s \in Schedules /\ picks[s] \in Seq(Nodes) /\ Len(picks[s]) \in Nat
      /\ ptr \in [Schedules -> Int] /\ pos \in 0 .. Len(picks[s])
  <2>1. s \in Schedules
    BY <1>1 DEF ScheduleOf, Schedules
  <2> QED BY <2>1, LenProperties DEF Inv, ChoiceTypeOK
<1>4. /\ ptr' = [ptr EXCEPT ![s] = pos]
      /\ \/ pos < Len(picks[s]) /\ p = picks[s][pos + 1] /\ UNCHANGED picks
         \/ pos = Len(picks[s]) /\ picks' = [picks EXCEPT ![s] = Append(@, p)]
  BY DEF GetRandomNeighbor, ScheduledNeighbor
<1>5. pos < Len(picks'[s]) /\ picks'[s][pos + 1] = p
  <2>1. CASE pos < Len(picks[s]) /\ p = picks[s][pos + 1] /\ UNCHANGED picks
    BY <2>1
  <2>2. CASE pos = Len(picks[s]) /\ picks' = [picks EXCEPT ![s] = Append(@, p)]
    <3>1. picks'[s] = Append(picks[s], p)
      BY <1>3, <2>2 DEF Inv, ChoiceTypeOK
    <3> QED BY <1>3, <2>2, <3>1, AppendProperties
  <2> QED BY <1>4, <2>1, <2>2
<1>6. /\ \A j \in 0 .. graph.n : PlaceOf(j, r) \in Nat
      /\ graph.kind = "K" => \A j \in 0 .. graph.n - 1 : PlaceOf(j + 1, r) = PlaceOf(j, r) + 1
      /\ graph.kind # "K" => \A j : PlaceOf(j, r) = r - 1
  BY <1>1, PlaceType
<1>7. graph.kind = "K" \/ graph.kind = "RG"
  BY DEF Scheduled, Inv, ChoiceTypeOK
<1>8. pos = PlaceOf(i, r)
  <2>1. PlaceOf(i, r) \in Nat
    BY <1>1, <1>6 DEF Nodes
  <2>2. CASE graph.kind = "K"
    <3>1. ptr[0] + 1 = PlaceOf(i, r) /\ s = 0
      BY <2>2 DEF Turn, ScheduleOf
    <3> QED BY <3>1
  <2>3. CASE graph.kind = "RG"
    <3>1. ptr[i] + 1 = PlaceOf(i, r) + (IF i < node THEN 1 ELSE 0) /\ s = i
      BY <1>1, <2>3 DEF Turn, ScheduleOf
    <3>2. ~(i < node)
      BY <1>1 DEF Nodes
    <3> QED BY <2>1, <3>1, <3>2
  <2> QED BY <1>7, <2>2, <2>3
<1>9. Drawn(i, r)' /\ Picked(i, r)' = p
  BY <1>2, <1>5, <1>8 DEF Drawn, Picked
<1>10. ASSUME NEW j \in Nodes, j < node' PROVE Drawn(j, r)'
  <2>1. CASE j = i
    BY <1>9, <2>1
  <2>2. CASE j # i
    <3>1. Drawn(j, r)
      BY <1>1, <1>10, <2>2 DEF Turn, Nodes
    <3> QED BY <1>1, <1>2, <3>1, DrawnKept DEF Inv
  <2> QED BY <2>1, <2>2
<1>11. graph.kind = "K" => ptr'[0] + 1 = PlaceOf(i + 1, r)
  <2>1. graph.kind = "K" => s = 0
    BY DEF ScheduleOf
  <2>2. ptr'[s] = pos
    BY <1>3, <1>4
  <2>3. graph.kind = "K" => PlaceOf(i + 1, r) = PlaceOf(i, r) + 1
    BY <1>1, <1>6 DEF Nodes
  <2> HIDE DEF s, pos
  <2> QED BY <1>8, <2>1, <2>2, <2>3
<1>12. ASSUME graph.kind = "RG", NEW j \in Nodes
       PROVE  ptr'[j] + 1 = PlaceOf(j, r) + (IF j < i + 1 THEN 1 ELSE 0)
  <2>1. s = i /\ Schedules = Nodes /\ PlaceOf(i, r) = r - 1 /\ PlaceOf(j, r) = r - 1
    BY <1>6, <1>12 DEF ScheduleOf, Schedules
  <2>2. CASE j = i
    <3>1. ptr'[j] = pos
      BY <1>3, <1>4, <2>1, <2>2
    <3> HIDE DEF s, pos
    <3> QED BY <1>1, <1>8, <2>1, <2>2, <3>1 DEF Nodes
  <2>3. CASE j # i
    <3>1. ptr'[j] = ptr[j]
      BY <1>3, <1>4, <2>1, <2>3
    <3>2. ptr[j] + 1 = PlaceOf(j, r) + (IF j < i THEN 1 ELSE 0)
      BY <1>12 DEF Turn
    <3>3. j < i <=> j < i + 1
      BY <1>1, <2>3 DEF Nodes
    <3> QED BY <3>1, <3>2, <3>3
  <2> QED BY <2>2, <2>3
<1>13. Turn'
  BY <1>1, <1>2, <1>10, <1>11, <1>12 DEF Turn
<1> QED BY <1>1, <1>9, <1>13

(* What a round begins with: nothing is asked, nothing sent.               *)
LEMMA RoundBegins ==
  ASSUME NEW A, A \in SUBSET Nodes, Told = A, node = 0, phase \in {"main", "done"},
         messages = << >>, updates = << >>
  PROVE  Round(A)
<1>1. Range(messages) = {} /\ Range(updates) = {}
  BY DEF Range
<1>2. A \subseteq Hop(A)
  BY DEF Hop
<1> QED BY <1>1, <1>2 DEF Round, Asked, Nodes

(* One hop is within reach, and by push and pull all that is. *)
LEMMA HopReach ==
  ASSUME NEW A, A \in SUBSET Nodes
  PROVE  /\ Hop(A) \subseteq Reach(A, Now)
         /\ mode = PushPull => Hop(A) = Reach(A, Now)
<1>1. mode = PushPull => mode.push /\ mode.pull
  BY DEF PushPull
<1> QED BY <1>1 DEF Hop, Reach

(* What is appended, and what is left of a list. *)
LEMMA RangeAppend ==
  ASSUME NEW S, NEW s \in Seq(S), NEW m \in S
  PROVE  Range(Append(s, m)) = Range(s) \cup {m}
<1>1. /\ Append(s, m) \in Seq(S) /\ Len(Append(s, m)) = Len(s) + 1
      /\ \A k \in 1 .. Len(s) : Append(s, m)[k] = s[k]
      /\ Append(s, m)[Len(s) + 1] = m
  BY AppendProperties
<1>2. Len(s) \in Nat /\ DOMAIN s = 1 .. Len(s) /\ DOMAIN Append(s, m) = 1 .. Len(s) + 1
  BY <1>1, LenProperties
<1>3. \A x \in Range(Append(s, m)) : x \in Range(s) \cup {m}
  BY <1>1, <1>2 DEF Range
<1>4. \A x \in Range(s) \cup {m} : x \in Range(Append(s, m))
  BY <1>1, <1>2 DEF Range
<1> QED BY <1>3, <1>4

LEMMA RangeConcat ==
  ASSUME NEW S, NEW s \in Seq(S), NEW t \in Seq(S)
  PROVE  Range(s \o t) = Range(s) \cup Range(t)
<1>1. /\ Len(s) \in Nat /\ Len(t) \in Nat /\ DOMAIN s = 1 .. Len(s) /\ DOMAIN t = 1 .. Len(t)
      /\ s \o t \in Seq(S) /\ Len(s \o t) = Len(s) + Len(t)
      /\ \A k \in 1 .. Len(s) + Len(t) :
           (s \o t)[k] = IF k <= Len(s) THEN s[k] ELSE t[k - Len(s)]
  BY LenProperties, ConcatProperties
<1>2. DOMAIN (s \o t) = 1 .. Len(s) + Len(t)
  BY <1>1, LenProperties
<1>3. ASSUME NEW x \in Range(s \o t) PROVE x \in Range(s) \cup Range(t)
  <2>1. PICK k \in 1 .. Len(s) + Len(t) : x = (s \o t)[k]
    BY <1>2 DEF Range
  <2>2. CASE k <= Len(s)
    BY <1>1, <2>1, <2>2 DEF Range
  <2>3. CASE ~(k <= Len(s))
    <3>1. k - Len(s) \in 1 .. Len(t) /\ x = t[k - Len(s)]
      BY <1>1, <2>1, <2>3
    <3> QED BY <1>1, <3>1 DEF Range
  <2> QED BY <2>2, <2>3
<1>4. ASSUME NEW x \in Range(s) PROVE x \in Range(s \o t)
  <2>1. PICK k \in 1 .. Len(s) : x = s[k]
    BY <1>1 DEF Range
  <2>2. k \in 1 .. Len(s) + Len(t) /\ (s \o t)[k] = x
    BY <1>1, <2>1
  <2> QED BY <1>2, <2>2 DEF Range
<1>5. ASSUME NEW x \in Range(t) PROVE x \in Range(s \o t)
  <2>1. PICK k \in 1 .. Len(t) : x = t[k]
    BY <1>1 DEF Range
  <2>2. k + Len(s) \in 1 .. Len(s) + Len(t) /\ (s \o t)[k + Len(s)] = x
    BY <1>1, <2>1
  <2> QED BY <1>2, <2>2 DEF Range
<1> QED BY <1>3, <1>4, <1>5

LEMMA RangeTail ==
  ASSUME NEW S, NEW s \in Seq(S), s # << >>
  PROVE  Range(s) = Range(Tail(s)) \cup {Head(s)}
<1>1. Tail(s) \in Seq(S) /\ Head(s) \in S /\ s = <<Head(s)>> \o Tail(s)
  BY HeadTailProperties
<1> DEFINE h == <<Head(s)>>
<1>2. h \in Seq(S) /\ Range(h) = {Head(s)}
  BY <1>1 DEF Range
<1> HIDE DEF h
<1>3. \A t \in Seq(S) : Range(h \o t) = Range(h) \cup Range(t)
  BY <1>2, RangeConcat
<1> QED BY <1>1, <1>2, <1>3 DEF h

(* A list is the same messages when none is lost. *)
LEMMA NoneLost ==
  ASSUME NEW S, NEW s \in Seq(S)
  PROVE  Range(Entries(s, DOMAIN s)) = Range(s)
<1> DEFINE I == DOMAIN s
           e == Entries(s, I)
<1>1. Len(s) \in Nat /\ I = 1 .. Len(s)
  BY LenProperties
<1>2. I \in SUBSET (1 .. Len(s))
  BY <1>1
<1> HIDE DEF I
<1>3. e \in Seq(S) /\ \A j \in 1 .. Len(e) : \E i \in I : e[j] = s[i]
  BY <1>2, EntriesProps
<1>4. DOMAIN e = 1 .. Len(e)
  BY <1>3, LenProperties
<1>5. \A i \in I : \E j \in 1 .. Len(e) : e[j] = s[i]
  BY <1>2, EntriesKept
<1> HIDE DEF e
<1>6. \A x \in Range(e) : x \in Range(s)
  BY <1>3, <1>4 DEF Range, I
<1>7. \A x \in Range(s) : x \in Range(e)
  BY <1>4, <1>5 DEF Range, I
<1> QED BY <1>6, <1>7 DEF e, I

-----------------------------------------------------------------------------
(* Within a round, no message goes astray, and by push-pull none is        *)
(* missing.                                                                *)
InRound(A) ==
  /\ Inv /\ CurveInv /\ Scheduled /\ task.kind = "si" /\ ~task.lossy
  /\ Turn /\ A \in SUBSET Nodes /\ Round(A)

(* Node i asks one more, and, in A, tells it.                              *)
LEMMA MainLoopInRound ==
  ASSUME NEW A, InRound(A), Next, MainLoop
  PROVE  Turn' /\ Round(A)'
<1>1. PICK i, r : i = node /\ r = Now
  OBVIOUS
<1>2. PICK p \in Nodes : GetRandomNeighbor(i, p) /\ messages' = messages \o RunMainLoop(i, p)
  BY <1>1 DEF MainLoop
<1>3. i \in Nodes /\ Turn' /\ Drawn(i, r)' /\ Picked(i, r)' = p
  BY <1>1, <1>2, AskedPick DEF InRound
<1>4. /\ phase = "main" /\ phase' = "main" /\ node' = i + 1 /\ Now' = r
      /\ updates' = updates /\ mode' = mode /\ updates = << >> /\ state' = state
  BY <1>1 DEF MainLoop, Now, InRound, Inv, Phased
<1>5. graph.n \in Nat \ {0} /\ r \in Nat \ {0}
  <2>1. infected \in Seq(0 .. graph.n)
    BY DEF Inv, CurvesTyped, Curve, InRound
  <2> QED BY <1>1, <2>1, LenProperties DEF InRound, Inv, ChoiceTypeOK, CurveInv, Now
<1>6. Kept /\ Nodes' = Nodes /\ Told' = Told
  BY <1>4, PicksKept DEF InRound, Kept, Nodes, Told
<1>7. \A j \in Nodes : j < i => Drawn(j, r)' /\ Picked(j, r)' = Picked(j, r)
  BY <1>1, <1>5, <1>6, DrawnKept DEF InRound, Turn, Inv
<1>8. Told = A /\ A \subseteq Hop(A)'
  BY <1>4, <1>6 DEF InRound, Round, Hop
<1>9. Range(messages') = Range(messages) \cup Range(RunMainLoop(i, p))
  <2>1. messages \in Seq(Carried) /\ RunMainLoop(i, p) \in Seq(Carried)
    BY <1>3, MainLoopSends DEF InRound, Inv, Underway
  <2> QED BY <1>2, <2>1, RangeConcat
<1>10. \A m \in Range(messages) : m.from \in Nodes
  <2>1. messages \in Seq(Carried)
    BY DEF InRound, Inv, Underway
  <2>2. \A k \in DOMAIN messages : messages[k] \in Carried
    BY <2>1, LenProperties, ElementOfSeq
  <2> QED BY <2>2 DEF Range, Carried, Message
<1>11. /\ \A m \in Range(RunMainLoop(i, p)) :
            /\ m.from = i /\ m.to = p
            /\ m.type = "update" => mode.push
            /\ m.type = "request" => mode.pull
       /\ p # i => /\ mode.pull => Request(i, p) \in Range(RunMainLoop(i, p))
                   /\ mode.push /\ i \in A => Update(i, p) \in Range(RunMainLoop(i, p))
  <2> DEFINE pushed == IF mode.push /\ state[i] = "I" THEN <<Update(i, p)>> ELSE << >>
             pulled == IF mode.pull THEN <<Request(i, p)>> ELSE << >>
  <2>1. CASE p = i
    BY <2>1 DEF RunMainLoop, Range
  <2>2. CASE p # i
    <3>1. RunMainLoop(i, p) = pushed \o pulled
      BY <2>2 DEF RunMainLoop
    <3>2. /\ pushed \in Seq({Update(i, p), Request(i, p)})
          /\ pulled \in Seq({Update(i, p), Request(i, p)})
      <4> DEFINE S == {Update(i, p), Request(i, p)}
      <4>1. \A x \in S : <<x>> \in Seq(S)
        OBVIOUS
      <4>2. Update(i, p) \in S /\ Request(i, p) \in S
        OBVIOUS
      <4> HIDE DEF S
      <4>3. pushed \in Seq(S) /\ pulled \in Seq(S)
        BY <4>1, <4>2, EmptySeq
      <4> QED BY <4>3 DEF S
    <3> HIDE DEF pushed, pulled
    <3>3. Range(RunMainLoop(i, p)) = Range(pushed) \cup Range(pulled)
      BY <3>1, <3>2, RangeConcat
    <3>4. /\ Range(pushed) = IF mode.push /\ state[i] = "I" THEN {Update(i, p)} ELSE {}
          /\ Range(pulled) = IF mode.pull THEN {Request(i, p)} ELSE {}
      BY DEF Range, pushed, pulled
    <3>5. i \in A => state[i] = "I"
      BY <1>8 DEF Told
    <3> QED BY <2>2, <3>3, <3>4, <3>5 DEF Update, Request
  <2> QED BY <2>1, <2>2
<1>12. \A m \in Range(messages') :
         /\ m.from < node' /\ m.to = Picked(m.from, r)'
         /\ m.type = "update" => mode.push
         /\ m.type = "request" => mode.pull
  <2> SUFFICES ASSUME NEW m \in Range(messages')
               PROVE  /\ m.from < i + 1 /\ m.to = Picked(m.from, r)'
                      /\ m.type = "update" => mode.push
                      /\ m.type = "request" => mode.pull
    BY <1>4
  <2>1. CASE m \in Range(messages)
    <3>1. /\ m.from \in Nodes /\ m.from < i /\ m.to = Picked(m.from, r)
          /\ m.type = "update" => mode.push
          /\ m.type = "request" => mode.pull
      BY <1>1, <1>10, <2>1 DEF InRound, Round
    <3> QED BY <1>3, <1>5, <1>7, <3>1 DEF Nodes
  <2>2. CASE m \in Range(RunMainLoop(i, p))
    BY <1>3, <1>5, <1>11, <2>2 DEF Nodes
  <2> QED BY <1>9, <2>1, <2>2
<1>13. ASSUME NEW j \in Nodes, j < i + 1, Picked(j, r)' # j
       PROVE  /\ mode.pull => Request(j, Picked(j, r)') \in Range(messages')
              /\ mode.push /\ j \in A => Update(j, Picked(j, r)') \in Range(messages')
  <2>1. CASE j = i
    BY <1>3, <1>9, <1>11, <1>13, <2>1
  <2>2. CASE j # i
    <3>1. j < i /\ Picked(j, r)' = Picked(j, r)
      BY <1>3, <1>5, <1>7, <1>13, <2>2 DEF Nodes
    <3>2. Asked(A)
      BY <1>4 DEF InRound, Round
    <3> QED BY <1>1, <1>9, <1>13, <3>1, <3>2 DEF Asked
  <2> QED BY <2>1, <2>2
<1>14. \A u \in Range(updates') : u.to \in Hop(A)'
  BY <1>4 DEF Range
<1>15. Asked(A)'
  BY <1>4, <1>6, <1>13 DEF Asked, Request, Update
<1> QED BY <1>3, <1>4, <1>6, <1>8, <1>12, <1>14, <1>15 DEF Round

(* No message is lost: all that was asked or told is delivered.            *)
LEMMA LoseInRound ==
  ASSUME NEW A, InRound(A), Next, LoseMessages
  PROVE  Turn' /\ Round(A)'
<1>1. /\ phase = "main" /\ phase' = "deliver" /\ node = graph.n /\ UNCHANGED <<node, updates, mode>>
      /\ UNCHANGED <<graph, picks, ptr, state, infected>> /\ updates = << >>
  BY DEF LoseMessages, InRound, Inv, Phased, choiceVars
<1>2. Range(messages') = Range(messages)
  <2>1. messages' = Entries(messages, DOMAIN messages)
    BY DEF LoseMessages, Survivors, InRound
  <2>2. messages \in Seq(Carried)
    BY DEF InRound, Inv, Underway
  <2> QED BY <2>1, <2>2, NoneLost
<1>3. Turn' /\ Told' = Told /\ Told = A /\ Hop(A)' = Hop(A)
  BY <1>1 DEF InRound, Round, Turn, Told, Hop, Drawn, Picked, PlaceOf, ScheduleOf, Now, Nodes
<1>4. Promised(A)
  <2> SUFFICES ASSUME NEW j \in Hop(A), j \notin A
               PROVE  \E m \in Range(messages) : Brings(m, j, A)
    BY <1>3 DEF Promised
  <2>1. Asked(A) /\ \A i \in Nodes : i < node
    BY <1>1 DEF InRound, Round, Nodes, Inv, ChoiceTypeOK
  <2>2. CASE mode.pull /\ Picked(j, Now) \in A
    <3>1. Request(j, Picked(j, Now)) \in Range(messages)
      BY <2>1, <2>2 DEF Asked, Hop
    <3> QED BY <2>2, <3>1 DEF Brings, Request
  <2>3. CASE mode.push /\ \E i \in A : Picked(i, Now) = j
    <3>1. PICK i \in A : Picked(i, Now) = j
      BY <2>3
    <3>2. Update(i, j) \in Range(messages)
      BY <2>1, <2>3, <3>1 DEF Asked, InRound
    <3> QED BY <3>2 DEF Brings, Update
  <2> QED BY <2>2, <2>3 DEF Hop
<1>5. Promised(A)'
  BY <1>1, <1>2, <1>3, <1>4 DEF Promised, Brings
<1>6. \A m \in Range(messages)' :
        /\ m.from < node' /\ m.to = Picked(m.from, Now)'
        /\ m.type = "update" => mode'.push
        /\ m.type = "request" => mode'.pull
  BY <1>1, <1>2 DEF InRound, Round, Picked, ScheduleOf, PlaceOf, Now
<1>7. \A u \in Range(updates)' : u.to \in Hop(A)'
  BY <1>1 DEF Range
<1>8. A \subseteq Told' /\ Told' \subseteq Hop(A)'
  BY <1>3 DEF InRound, Round
<1> QED BY <1>1, <1>3, <1>5, <1>6, <1>7, <1>8 DEF Round

(* What stays in a round that goes on. *)
LEMMA SameTurn ==
  ASSUME NEW A, InRound(A), UNCHANGED <<graph, picks, ptr, node, infected, mode>>
  PROVE  /\ Turn' /\ Hop(A)' = Hop(A) /\ Nodes' = Nodes
         /\ \A i : Picked(i, Now)' = Picked(i, Now)
<1>1. UNCHANGED Now /\ Nodes' = Nodes
  BY DEF Now, Nodes
<1>2. \A i : Picked(i, Now)' = Picked(i, Now) /\ Drawn(i, Now)' = Drawn(i, Now)
  BY <1>1 DEF Picked, Drawn, ScheduleOf, PlaceOf
<1>3. Turn'
  BY <1>1, <1>2 DEF InRound, Turn, PlaceOf
<1> QED BY <1>1, <1>2, <1>3 DEF Hop

(* A request to an informed node is answered by an update.                 *)
LEMMA RequestInRound ==
  ASSUME NEW A, InRound(A), Next, RunOnUpdateRequest
  PROVE  Turn' /\ Round(A)'
<1>1. /\ phase = "deliver" /\ phase' = "deliver" /\ node = graph.n /\ mode' = mode
      /\ UNCHANGED <<graph, picks, ptr, node, infected, state>>
  BY DEF RunOnUpdateRequest, InRound, Round, choiceVars
<1>2. /\ Turn' /\ Hop(A)' = Hop(A) /\ Nodes' = Nodes
      /\ \A i : Picked(i, Now)' = Picked(i, Now)
  BY <1>1, SameTurn
<1>3. Told' = Told /\ Told = A
  BY <1>1, <1>2 DEF InRound, Round, RunOnUpdateRequest, Told
<1>4. PICK m : m = Head(messages)
  OBVIOUS
<1>5. m \in Carried /\ messages' = Tail(messages) /\ Range(messages) = Range(messages') \cup {m}
  BY <1>4, FirstMessages, RangeTail DEF RunOnUpdateRequest, InRound, Inv, Underway
<1>6. /\ m.to = Picked(m.from, Now) /\ m.from \in Nodes /\ m.to \in Nodes
      /\ m.type \in {"update", "request"}
      /\ m.type = "update" => mode.push
      /\ m.type = "request" => mode.pull
  BY <1>5 DEF InRound, Round, Carried, Message
<1>7. updates \in Seq(News) /\ Update(m.to, m.from).to = m.from
  BY DEF InRound, Inv, Underway, Update
<1>8. CASE m.type = "update"
  <2>1. updates' = Append(updates, m)
    BY <1>4, <1>8 DEF RunOnUpdateRequest
  <2>2. Range(updates') = Range(updates) \cup {m}
    BY <1>5, <1>7, <1>8, <2>1, RangeAppend DEF News
  <2>3. m.to \in Hop(A)
    BY <1>3, <1>5, <1>6, <1>8 DEF Carried, Told, Hop
  <2>4. Promised(A)'
    BY <1>1, <1>2, <1>3, <1>5, <1>8, <2>2 DEF Promised, Brings, InRound, Round
  <2>5. \A u \in Range(updates)' : u.to \in Hop(A)'
    BY <1>2, <2>2, <2>3 DEF InRound, Round
  <2> QED BY <1>1, <1>2, <1>3, <1>5, <2>4, <2>5 DEF InRound, Round
<1>9. CASE m.type = "request" /\ state[m.to] = "I"
  <2> DEFINE u == Update(m.to, m.from)
  <2>1. updates' = Append(updates, u)
    BY <1>4, <1>9 DEF RunOnUpdateRequest, OnUpdateRequest, SendReply, InRound
  <2>2. u \in News
    BY <1>5, <1>9 DEF News, Carried, Message, Update
  <2>3. Range(updates') = Range(updates) \cup {u}
    BY <1>7, <2>1, <2>2, RangeAppend
  <2>4. u.to = m.from /\ m.from \in Hop(A)
    BY <1>3, <1>6, <1>7, <1>9 DEF Told, Hop
  <2> HIDE DEF u
  <2>5. Promised(A)'
    BY <1>1, <1>2, <1>3, <1>5, <1>9, <2>3, <2>4 DEF Promised, Brings, InRound, Round
  <2>6. \A v \in Range(updates)' : v.to \in Hop(A)'
    BY <1>2, <2>3, <2>4 DEF InRound, Round
  <2> QED BY <1>1, <1>2, <1>3, <1>5, <2>5, <2>6 DEF InRound, Round
<1>10. CASE m.type = "request" /\ state[m.to] # "I"
  <2>1. updates' = updates
    BY <1>4, <1>10 DEF RunOnUpdateRequest, OnUpdateRequest
  <2>2. m.to \notin A
    BY <1>3, <1>10 DEF Told
  <2>3. Promised(A)'
    BY <1>1, <1>2, <1>3, <1>5, <1>10, <2>1, <2>2 DEF Promised, Brings, InRound, Round
  <2> QED BY <1>1, <1>2, <1>3, <1>5, <2>1, <2>3 DEF InRound, Round
<1> QED BY <1>6, <1>8, <1>9, <1>10

(* An update tells one of those who can be reached.                        *)
LEMMA UpdateInRound ==
  ASSUME NEW A, InRound(A), Next, RunOnUpdate
  PROVE  Turn' /\ Round(A)'
<1>1. /\ phase = "deliver" /\ phase' = "deliver" /\ node = graph.n /\ mode' = mode
      /\ UNCHANGED <<graph, picks, ptr, node, infected, messages>> /\ messages = << >>
  BY DEF RunOnUpdate, InRound, Round, choiceVars
<1>2. /\ Turn' /\ Hop(A)' = Hop(A) /\ Nodes' = Nodes
      /\ \A i : Picked(i, Now)' = Picked(i, Now)
  BY <1>1, SameTurn
<1>3. PICK u : u = Head(updates)
  OBVIOUS
<1>4. u \in News /\ Range(updates) = Range(updates') \cup {u} /\ OnUpdate(u)
  BY <1>3, FirstMessages, RangeTail DEF RunOnUpdate, InRound, Inv, Underway
<1>5. u.to \in Nodes /\ u.to \in Hop(A)
  BY <1>4 DEF News, Carried, Message, InRound, Round
<1>6. Told' = Told \cup {u.to}
  BY <1>2, <1>4, <1>5 DEF OnUpdate, Told, InRound, Inv, NodesTyped
<1>7. Range(messages) = {}
  BY <1>1 DEF Range
<1>8. Promised(A)'
  BY <1>1, <1>2, <1>4, <1>6, <1>7 DEF Promised, InRound, Round
<1> QED BY <1>1, <1>2, <1>4, <1>5, <1>6, <1>7, <1>8 DEF InRound, Round


(* Every step within a round is one of these.                              *)
LEMMA InRoundStep ==
  ASSUME NEW A, InRound(A), Next, GossipNext, ~EndRound
  PROVE  Turn' /\ Round(A)'
<1>1. CASE RunOutOfPicks
  <2>1. /\ phase = "main" /\ phase' = "IndexError"
        /\ UNCHANGED <<graph, picks, ptr, node, infected, state, mode, messages, updates>>
    BY <1>1 DEF RunOutOfPicks, choiceVars
  <2>2. /\ Turn' /\ Hop(A)' = Hop(A) /\ Nodes' = Nodes
        /\ \A i : Picked(i, Now)' = Picked(i, Now)
    BY <2>1, SameTurn
  <2>3. Told' = Told
    BY <2>1, <2>2 DEF Told
  <2> QED BY <2>1, <2>2, <2>3 DEF InRound, Round
<1>2. ~DelayMessages /\ ~RunOnFeedback
  BY DEF DelayMessages, RunOnFeedback, InRound, Inv, Phased
<1> QED BY <1>1, <1>2, MainLoopInRound, LoseInRound, RequestInRound, UpdateInRound DEF GossipNext

-----------------------------------------------------------------------------
(* The end of a round: all is told that was to be told.                    *)
LEMMA RoundEnds ==
  ASSUME NEW A, InRound(A), EndRound
  PROVE  /\ Told \in SUBSET Nodes /\ Told \subseteq Reach(A, Now)
         /\ \A i \in Nodes : Drawn(i, Now)
         /\ mode = PushPull => Reach(A, Now) \subseteq Told
<1>1. /\ phase = "deliver" /\ messages = << >> /\ updates = << >> /\ node = graph.n
  BY DEF EndRound, InRound, Round
<1>2. Told \in SUBSET Nodes /\ Told \subseteq Hop(A)
  BY DEF Told, InRound, Round
<1>3. \A i \in Nodes : Drawn(i, Now)
  BY <1>1 DEF InRound, Turn, Nodes, Inv, ChoiceTypeOK
<1>4. Range(messages) = {} /\ Range(updates) = {}
  BY <1>1 DEF Range
<1>5. Hop(A) \subseteq Told
  BY <1>1, <1>4 DEF InRound, Round, Promised
<1> QED BY <1>2, <1>3, <1>5, HopReach DEF InRound

(* The next round begins.                                                  *)
LEMMA TurnAnew ==
  ASSUME NEW A, InRound(A), EndRound
  PROVE  Turn'
<1>1. PICK r : r = Now
  OBVIOUS
<1>2. graph.n \in Nat \ {0} /\ r \in Nat \ {0} /\ Now' = r + 1
  <2>1. infected \in Seq(0 .. graph.n) /\ Count("I") \in 0 .. graph.n
    BY CountType DEF Inv, CurvesTyped, Curve, InRound, ChoiceTypeOK
  <2>2. Len(infected') = Len(infected) + 1
    BY <2>1, AppendProperties DEF EndRound
  <2> QED BY <1>1, <2>1, <2>2, LenProperties DEF InRound, Inv, ChoiceTypeOK, CurveInv, Now
<1>3. node = graph.n /\ node' = 0 /\ UNCHANGED <<graph, picks, ptr>>
  BY DEF EndRound, InRound, Round, choiceVars
<1>4. Nodes' = Nodes /\ \A i \in Nodes : i >= 0 /\ i < graph.n /\ i \in 0 .. graph.n
  BY <1>2, <1>3 DEF Nodes
<1>5. graph.kind = "K" \/ graph.kind = "RG"
  BY DEF InRound, Scheduled, Inv, ChoiceTypeOK
<1>6. \A i : PlaceOf(i, r + 1)' = PlaceOf(i, r + 1)
  BY <1>3 DEF PlaceOf
<1>7. graph.kind = "K" => ptr'[0] + 1 = PlaceOf(0, r + 1)'
  BY <1>1, <1>2, <1>3, <1>6, PlaceType DEF InRound, Turn
<1>8. ASSUME graph.kind = "RG", NEW i \in Nodes
      PROVE  ptr'[i] + 1 = PlaceOf(i, r + 1)'
  <2>1. PlaceOf(i, r) = r - 1 /\ PlaceOf(i, r + 1) = r
    BY <1>2, <1>8, PlaceType
  <2>2. ptr[i] + 1 = PlaceOf(i, r) + 1
    BY <1>1, <1>3, <1>4, <1>8 DEF InRound, Turn
  <2> QED BY <1>2, <1>3, <1>6, <2>1, <2>2
<1>9. ASSUME graph.kind = "RG", NEW i \in Nodes
      PROVE  ptr'[i] + 1 = PlaceOf(i, r + 1)' + 0
  <2>1. PlaceOf(i, r + 1)' \in Nat
    BY <1>2, <1>6, <1>9, PlaceType
  <2> QED BY <1>8, <1>9, <2>1
<1> QED BY <1>2, <1>3, <1>4, <1>5, <1>7, <1>9 DEF Turn

(* A simulation begins with all pointers at the start.                     *)
LEMMA TurnStarts ==
  ASSUME Inv', Scheduled', node' = 0, Now' = 1,
         \A s \in Schedules' : ptr'[s] = -1
  PROVE  Turn'
<1>1. graph'.n \in Nat \ {0} /\ graph'.kind \in {"K", "RG"}
  BY DEF Inv, ChoiceTypeOK, Scheduled
<1>2. \A i : PlaceOf(i, 1)' = IF graph'.kind = "K" THEN (1 - 1) * graph'.n + i ELSE 0
  BY DEF PlaceOf
<1>3. (1 - 1) * graph'.n = 0
  BY <1>1
<1>4. \A i \in Nodes' : PlaceOf(i, 1)' = (IF graph'.kind = "K" THEN i ELSE 0) /\ PlaceOf(0, 1)' = 0
  BY <1>1, <1>2, <1>3 DEF Nodes
<1>5. 0 \in Nodes' /\ \A i \in Nodes' : ~(i < 0)
  BY <1>1 DEF Nodes
<1>6. graph'.kind = "K" => ptr'[0] = -1
  BY DEF Schedules
<1>7. graph'.kind = "RG" => \A i \in Nodes' : ptr'[i] = -1
  BY DEF Schedules
<1>8. PlaceOf(node, Now)' = PlaceOf(0, 1)'
  BY DEF PlaceOf
<1>9. \A i \in Nodes' : PlaceOf(i, Now)' = PlaceOf(i, 1)'
  BY DEF PlaceOf
<1> QED BY <1>1, <1>4, <1>5, <1>6, <1>7, <1>8, <1>9 DEF Turn

LEMMA RoundBeginsNext ==
  ASSUME NEW A, A \in SUBSET Nodes', Told' = A, node' = 0, phase' \in {"main", "done"},
         messages' = << >>, updates' = << >>
  PROVE  Round(A)'
<1>1. Range(messages') = {} /\ Range(updates') = {}
  BY DEF Range
<1>2. A \subseteq Hop(A)'
  BY DEF Hop
<1> QED BY <1>1, <1>2 DEF Round, Asked, Nodes

(* All have the news when their number is that of the nodes.               *)
LEMMA AllTold ==
  ASSUME graph.n \in Nat
  PROVE  /\ IsFiniteSet(Nodes) /\ Cardinality(Nodes) = graph.n
         /\ Count("I") = Cardinality(Told)
         /\ Count("I") = graph.n <=> Told = Nodes
<1>1. IsFiniteSet(Nodes) /\ Cardinality(Nodes) = graph.n
  BY NumbersBelow DEF Nodes
<1>2. Told \in SUBSET Nodes /\ Count("I") = Cardinality(Told)
  BY DEF Told, Count
<1>3. Cardinality(Told) = Cardinality(Nodes) => Told = Nodes
  BY <1>1, <1>2, FS_Subset
<1> QED BY <1>1, <1>2, <1>3

(* A step within a round. *)
LEMMA AheadInRound ==
  ASSUME Inv, CurveInv, AheadInv, Scheduled, Next, GossipNext, ~EndRound,
         UNCHANGED <<todo, results>>
  PROVE  AheadInv'
<1>1. PICK T : /\ Story(T, infected) /\ Round(T[Now])
               /\ \A k \in DOMAIN results :
                    \E U : Story(U, results[k].infected) /\ Behind(U, T)
  BY DEF AheadInv
<1>2. PICK c, r, A : c = infected /\ r = Now /\ A = T[r]
  OBVIOUS
<1>3. /\ UNCHANGED <<task, mode, infected>> /\ phase' # "done" /\ phase # "done"
      /\ phase' = "IndexError" => RunOutOfPicks
  BY DEF GossipNext, MainLoop, RunOutOfPicks, LoseMessages, DelayMessages,
     RunOnUpdateRequest, RunOnUpdate, RunOnFeedback
<1>4. /\ Kept /\ graph' = graph /\ ChoiceTypeOK
  BY PicksKept DEF Kept, Inv
<1>5. /\ Len(T) = r /\ r \in Nat \ {0} /\ A \in SUBSET Nodes /\ Now' = r
  <2>1. T \in Seq(SUBSET Nodes) /\ Len(T) = r /\ r >= 1
    BY <1>1, <1>2 DEF Story, Now
  <2>2. Len(T) \in Nat
    BY <2>1, LenProperties
  <2> QED BY <1>2, <1>3, <2>1, <2>2, ElementOfSeq DEF Now
<1>6. InRound(A)
  BY <1>1, <1>2, <1>5 DEF InRound, AheadInv
<1>7. Turn' /\ Round(A)'
  BY <1>6, InRoundStep
<1>8. Story(T, c)'
  BY <1>1, <1>2, <1>4, StoryKept
<1>9. ASSUME NEW k \in DOMAIN results
      PROVE  \E U : Story(U, results[k].infected)' /\ Behind(U, T)'
  <2>1. PICK d : d = results[k].infected
    OBVIOUS
  <2>2. PICK U : Story(U, d) /\ Behind(U, T)
    BY <1>1, <2>1
  <2>3. Story(U, d)'
    BY <1>4, <2>2, StoryKept
  <2>4. ASSUME mode = PushPull PROVE phase' # "IndexError"
    <3> SUFFICES ASSUME RunOutOfPicks PROVE FALSE
      BY <1>3
    <3>1. node \in Nodes /\ Exhausted(node) /\ graph.n \in Nat
      BY DEF RunOutOfPicks, Inv, NodesTyped, Nodes, ChoiceTypeOK
    <3>2. r \in 1 .. Len(U) - 1
      <4>1. r < Len(U) /\ Len(U) \in Nat
        BY <1>3, <1>5, <2>2, <2>4, LenProperties DEF Behind, Story
      <4> QED BY <1>5, <4>1
    <3>3. Drawn(node, r)
      BY <2>2, <3>1, <3>2 DEF Story
    <3>4. ptr[ScheduleOf(node)] + 1 = PlaceOf(node, r)
      <4>1. PlaceOf(node, r) \in Nat
        <5>1. node \in 0 .. graph.n
          BY DEF Inv, NodesTyped
        <5> QED BY <1>5, <3>1, <5>1, PlaceType
      <4>2. CASE graph.kind = "K"
        BY <1>2, <1>6, <4>2 DEF InRound, Turn, ScheduleOf
      <4>3. CASE graph.kind = "RG"
        <5>1. ptr[node] + 1 = PlaceOf(node, r) + (IF node < node THEN 1 ELSE 0)
          BY <1>2, <1>6, <3>1, <4>3 DEF InRound, Turn
        <5>2. ~(node < node) /\ ScheduleOf(node) = node
          BY <3>1, <4>3 DEF Nodes, ScheduleOf
        <5> QED BY <4>1, <5>1, <5>2
      <4> QED BY <4>2, <4>3 DEF Scheduled, Inv, ChoiceTypeOK
    <3>5. ScheduleOf(node) \in Schedules /\ ScheduleLength \in Nat
      BY <3>1, LengthType DEF ScheduleOf, Schedules
    <3> DEFINE s == ScheduleOf(node)
    <3>6. Len(picks[s]) <= ScheduleLength /\ Len(picks[s]) \in Nat /\ ptr[s] \in Int
      BY <3>5, LenProperties DEF Inv, ChoiceTypeOK
    <3>7. ptr[s] + 1 >= ScheduleLength /\ ptr[s] + 1 < Len(picks[s])
      BY <3>1, <3>3, <3>4 DEF Exhausted, Drawn
    <3> HIDE DEF s
    <3> QED BY <3>5, <3>6, <3>7
  <2>5. Behind(U, T)'
    BY <1>3, <1>4, <2>2, <2>4 DEF Behind, Nodes
  <2> QED BY <2>1, <2>3, <2>5
<1>10. /\ task'.kind = "si" /\ ~task'.lossy
  BY <1>3 DEF AheadInv
<1> QED BY <1>2, <1>3, <1>5, <1>7, <1>8, <1>9, <1>10 DEF AheadInv

(* At the end of a round the story goes on with those who have been told.  *)
LEMMA AheadRoundEnds ==
  ASSUME Inv, Inv', CurveInv, AheadInv, Scheduled, EndRound, UNCHANGED <<todo, results>>
  PROVE  AheadInv'
<1>1. PICK T : /\ Story(T, infected) /\ Round(T[Now])
               /\ \A k \in DOMAIN results :
                    \E U : Story(U, results[k].infected) /\ Behind(U, T)
  BY DEF AheadInv
<1>2. PICK c, r, A, B, a : c = infected /\ r = Now /\ A = T[r] /\ B = Told /\ a = Count("I")
  OBVIOUS
<1>3. /\ UNCHANGED <<task, mode, state, graph, picks, ptr, messages, updates>>
      /\ phase = "deliver" /\ phase' = (IF Finished THEN "done" ELSE "main") /\ node' = 0
      /\ messages = << >> /\ updates = << >> /\ infected' = Append(c, a)
  BY <1>2 DEF EndRound, choiceVars
<1>4. /\ Kept /\ Nodes' = Nodes /\ Told' = B /\ graph.n \in Nat \ {0}
      /\ ChoiceTypeOK
  <2>1. Kept
    BY <1>3, LenProperties DEF Kept, Inv, ChoiceTypeOK
  <2> QED BY <1>2, <1>3, <2>1 DEF Told, Nodes, Inv, ChoiceTypeOK
<1>5. /\ T \in Seq(SUBSET Nodes) /\ Len(T) = r /\ r \in Nat \ {0} /\ A \in SUBSET Nodes
      /\ c \in Seq(Nat) /\ Len(c) = r
  <2>1. T \in Seq(SUBSET Nodes) /\ Len(T) = r /\ r >= 1 /\ Len(c) = r
    BY <1>1, <1>2 DEF Story, Now
  <2>2. Len(T) \in Nat
    BY <2>1, LenProperties
  <2>3. infected \in Seq(0 .. graph.n) /\ 0 .. graph.n \subseteq Nat
    BY DEF Inv, CurvesTyped, Curve
  <2>4. c \in Seq(Nat)
    BY <1>2, <2>3, SeqMonotonic
  <2> QED BY <1>2, <2>1, <2>2, <2>4, ElementOfSeq
<1>6. InRound(A)
  BY <1>1, <1>2, <1>5 DEF InRound, AheadInv
<1>7. /\ Turn' /\ B \in SUBSET Nodes /\ B \subseteq Reach(A, r)
      /\ \A i \in Nodes : Drawn(i, r)
      /\ mode = PushPull => Reach(A, r) \subseteq B
  BY <1>2, <1>6, TurnAnew, RoundEnds
<1>8. a = Cardinality(B) /\ a \in Nat /\ (Finished <=> B = Nodes)
  <2>1. Count("I") \in 0 .. graph.n
    BY <1>4, CountType
  <2>2. Finished <=> Count("I") = graph.n
    BY <1>6 DEF InRound, Finished
  <2> QED BY <1>2, <1>4, <2>1, <2>2, AllTold
<1> DEFINE T1 == Append(T, B)
           c1 == Append(c, a)
<1>9. /\ Len(T1) = r + 1 /\ T1[r + 1] = B /\ \A q \in 1 .. r : T1[q] = T[q]
      /\ Len(c1) = r + 1
  BY <1>5, AppendProperties
<1>10. Story(T1, c1)
  <2>1. Story(T, c)
    BY <1>1, <1>2
  <2> QED BY <1>2, <1>5, <1>7, <1>8, <2>1, StoryGoesOn
<1> HIDE DEF T1, c1
<1>11. Story(T1, c1)'
  BY <1>4, <1>10, StoryKept
<1>12. Now' = r + 1 /\ infected' = c1
  BY <1>3, <1>9 DEF Now, c1
<1>13. Round(B)'
  <2>1. phase' \in {"main", "done"}
    BY <1>3
  <2> QED BY <1>3, <1>4, <1>7, <2>1, RoundBeginsNext
<1>14. ASSUME NEW k \in DOMAIN results
       PROVE  \E U : Story(U, results[k].infected)' /\ Behind(U, T1)'
  <2>1. PICK d : d = results[k].infected
    OBVIOUS
  <2>2. PICK U : Story(U, d) /\ Behind(U, T)
    BY <1>1, <2>1
  <2>3. Story(U, d)'
    BY <1>4, <2>2, StoryKept
  <2>4. Len(U) \in Nat /\ U[Len(U)] = Nodes
    BY <2>2, LenProperties DEF Behind, Story
  <2>5. ASSUME mode = PushPull
        PROVE  /\ phase' # "IndexError"
               /\ Len(T1) <= Len(U) /\ (phase' # "done" => Len(T1) < Len(U))
               /\ \A q \in 1 .. Len(T1) : U[q] \subseteq T1[q]
    <3>1. r < Len(U) /\ \A q \in 1 .. r : U[q] \subseteq T[q]
      BY <1>3, <1>5, <2>2, <2>5 DEF Behind
    <3>2. U[r + 1] \subseteq B
      <4>1. r \in 1 .. Len(U) - 1 /\ r \in 1 .. r
        BY <1>5, <2>4, <3>1
      <4>2. U[r + 1] \subseteq Reach(U[r], r) /\ U[r] \subseteq A
        BY <1>2, <2>2, <3>1, <4>1 DEF Story
      <4>3. Reach(U[r], r) \subseteq Reach(A, r)
        BY <4>2, ReachMore
      <4> QED BY <1>7, <2>5, <4>2, <4>3
    <3>3. ASSUME NEW q \in 1 .. Len(T1) PROVE U[q] \subseteq T1[q]
      <4>1. CASE q = r + 1
        BY <1>9, <3>2, <4>1
      <4>2. CASE q # r + 1
        <5>1. q \in 1 .. r
          BY <1>5, <1>9, <4>2
        <5> QED BY <1>9, <3>1, <5>1
      <4> QED BY <4>1, <4>2
    <3>4. ASSUME phase' # "done" PROVE Len(T1) # Len(U)
      <4> SUFFICES ASSUME Len(T1) = Len(U) PROVE FALSE
        OBVIOUS
      <4>1. Nodes \subseteq B
        BY <1>9, <2>4, <3>2
      <4> QED BY <1>3, <1>7, <1>8, <3>4, <4>1
    <3> QED BY <1>3, <1>5, <1>9, <2>4, <3>1, <3>3, <3>4
  <2>6. Behind(U, T1)'
    BY <1>3, <1>4, <2>4, <2>5 DEF Behind
  <2> QED BY <2>1, <2>3, <2>6
<1>15. task'.kind = "si" /\ ~task'.lossy
  BY <1>3 DEF AheadInv
<1> QED BY <1>7, <1>9, <1>11, <1>12, <1>13, <1>14, <1>15 DEF AheadInv

(* The first round of a simulation. *)
LEMMA FirstStory ==
  ASSUME NEW g, g = graph, graph.n \in Nat \ {0}, NEW T, T = <<{0}>>, NEW c, c = << 1 >>
  PROVE  Story(T, c)
<1>1. 0 \in Nodes
  BY DEF Nodes
<1>2. {0} \in SUBSET Nodes /\ Cardinality({0}) = 1
  BY <1>1, FS_Singleton
<1>3. T \in Seq(SUBSET Nodes) /\ Len(T) = 1 /\ T[1] = {0} /\ Len(c) = 1 /\ c[1] = 1
  BY <1>2
<1> QED BY <1>2, <1>3 DEF Story

(* The next simulation on the schedule: the story so far is one of those   *)
(* that have ended, as all nodes had the news.                             *)
LEMMA AheadRestarts ==
  ASSUME Inv, Inv', CurveInv, AheadInv, Scheduled, NextSimulation
  PROVE  AheadInv'
<1>1. PICK T : /\ Story(T, infected) /\ Round(T[Now])
               /\ \A k \in DOMAIN results :
                    \E U : Story(U, results[k].infected) /\ Behind(U, T)
  BY DEF AheadInv
<1>2. PICK c, r : c = infected /\ r = Now
  OBVIOUS
<1>3. /\ UNCHANGED <<task, graph, picks, node, messages, updates>>
      /\ phase = "done" /\ phase' = "main" /\ infected' = << 1 >> /\ state' = Started
      /\ results' = Append(results, [mode |-> mode, infected |-> c])
      /\ ptr' = [s \in Schedules |-> -1]
  BY <1>2 DEF NextSimulation, Reset
<1>4. /\ Kept /\ Nodes' = Nodes /\ graph.n \in Nat /\ graph.n >= 2 /\ ChoiceTypeOK
      /\ messages = << >> /\ updates = << >> /\ node = 0 /\ Finished
      /\ Schedules' = Schedules
  <2>1. Kept
    BY <1>3, LenProperties DEF Kept, Inv, ChoiceTypeOK
  <2> QED BY <1>3, <2>1 DEF Nodes, Inv, ChoiceTypeOK, Phased, Schedules
<1>5. Len(T) = r /\ r \in Nat \ {0}
  <2>1. T \in Seq(SUBSET Nodes) /\ Len(T) = r /\ r >= 1
    BY <1>1, <1>2 DEF Story, Now
  <2> QED BY <2>1, LenProperties
<1>6. T[r] = Nodes
  <2>1. Told = Nodes
    BY <1>4, AllTold DEF Finished, AheadInv
  <2> QED BY <1>1, <1>2, <1>3, <2>1 DEF Round
<1> DEFINE T1 == <<{0}>>
<1>7. Len(T1) = 1 /\ T1[1] = {0} /\ Now' = 1
  BY <1>3 DEF Now
<1>8. Told' = {0}
  BY <1>3, <1>4 DEF Told, Started, Nodes
<1> HIDE DEF T1
<1>9. Story(T1, infected)'
  <2>1. PICK d : d = << 1 >>
    OBVIOUS
  <2>2. Story(T1, d)
    BY <1>4, <2>1, FirstStory DEF T1
  <2>3. Story(T1, d)'
    BY <1>4, <2>2, StoryKept
  <2> QED BY <1>3, <2>1, <2>3
<1>10. Round({0})'
  <2>1. {0} \in SUBSET Nodes'
    <3>1. 0 \in Nodes
      BY <1>4 DEF Nodes
    <3> QED BY <1>4, <3>1
  <2> QED BY <1>3, <1>4, <1>8, <2>1, RoundBeginsNext
<1>11. Turn'
  <2>1. Scheduled'
    BY <1>3 DEF Scheduled
  <2> QED BY <1>3, <1>4, <1>7, <2>1, TurnStarts
<1>12. ASSUME NEW U, NEW d, Story(U, d), U[Len(U)] = Nodes
       PROVE  Story(U, d)' /\ Behind(U, T1)'
  <2>1. Story(U, d)'
    BY <1>4, <1>12, StoryKept
  <2>2. Len(U) \in Nat /\ Len(U) >= 1 /\ U[1] = {0}
    BY <1>12, LenProperties DEF Story
  <2>3. Len(U) # 1
    <3>1. 1 \in Nodes
      BY <1>4 DEF Nodes
    <3> QED BY <1>12, <2>2, <3>1
  <2>4. \A q \in 1 .. Len(T1) : U[q] \subseteq T1[q]
    BY <1>7, <2>2
  <2>5. Len(T1) < Len(U) /\ Len(T1) <= Len(U)
    <3>1. \A n \in Nat : n >= 1 /\ n # 1 => 1 < n
      OBVIOUS
    <3> QED BY <1>7, <2>2, <2>3, <3>1
  <2>6. phase' # "IndexError" /\ U[Len(U)] = Nodes'
    BY <1>3, <1>4, <1>12
  <2>7. Behind(U, T1)'
    BY <2>4, <2>5, <2>6 DEF Behind
  <2> QED BY <2>1, <2>7
<1>13. ASSUME NEW k \in DOMAIN results'
       PROVE  \E U : Story(U, results[k].infected)' /\ Behind(U, T1)'
  <2>1. \E U, d : Story(U, d) /\ U[Len(U)] = Nodes /\ d = results'[k].infected
    <3>1. results \in Seq([mode : Modes, infected : Curve])
      BY DEF Inv, SetupTyped
    <3> DEFINE e == [mode |-> mode, infected |-> c]
    <3>2. /\ e \in [mode : Modes, infected : Curve] /\ e.infected = c
      BY <1>2 DEF Inv, SetupTyped, CurvesTyped
    <3> HIDE DEF e
    <3>3. /\ results' = Append(results, e) /\ Len(results) \in Nat
          /\ DOMAIN results = 1 .. Len(results) /\ DOMAIN results' = 1 .. Len(results) + 1
          /\ \A j \in 1 .. Len(results) : results'[j] = results[j]
          /\ results'[Len(results) + 1] = e
      BY <1>3, <3>1, <3>2, AppendProperties, LenProperties DEF e
    <3>4. CASE k = Len(results) + 1
      BY <1>1, <1>2, <1>5, <1>6, <3>2, <3>3, <3>4
    <3>5. CASE k # Len(results) + 1
      <4>1. k \in DOMAIN results /\ results'[k] = results[k]
        BY <3>3, <3>5
      <4> QED BY <1>1, <4>1 DEF Behind
    <3> QED BY <3>4, <3>5
  <2> QED BY <1>12, <2>1
<1>14. T1[Now'] = {0}
  BY <1>7
<1> QED BY <1>3, <1>9, <1>10, <1>11, <1>13, <1>14 DEF AheadInv

(* AheadInv is inductive.                                                  *)
LEMMA AheadStep == Inv /\ Inv' /\ CurveInv /\ AheadInv /\ [Next]_experimentVars => AheadInv'
<1> SUFFICES ASSUME Inv, Inv', CurveInv, AheadInv, [Next]_experimentVars PROVE AheadInv'
  OBVIOUS
<1>1. CASE ~Scheduled
  <2>1. graph' = graph
    BY ChoiceStep DEF Inv, NodesTyped
  <2> QED BY <1>1, <2>1 DEF AheadInv, Scheduled
<1>2. CASE Scheduled /\ Next
  BY <1>2, AheadInRound, AheadRoundEnds, AheadRestarts DEF Next, GossipNext
<1>3. CASE UNCHANGED experimentVars
  <2>1. /\ UNCHANGED <<graph, picks, ptr, task, mode, state, phase, node, messages, updates>>
        /\ UNCHANGED <<infected, results>>
    BY <1>3 DEF experimentVars, gossipVars, choiceVars, nodeVars
  <2>2. Nodes' = Nodes /\ Now' = Now /\ Told' = Told /\ Scheduled' = Scheduled
    BY <2>1 DEF Nodes, Now, Told, Scheduled
  <2>3. \A i, r : Picked(i, r)' = Picked(i, r) /\ Drawn(i, r)' = Drawn(i, r)
    BY <2>1 DEF Picked, Drawn, ScheduleOf, PlaceOf
  <2>4. \A A, r : Reach(A, r)' = Reach(A, r)
    BY <2>2, <2>3 DEF Reach
  <2>5. Turn' = Turn /\ \A i : Picked(i, Now)' = Picked(i, Now)
    BY <2>1, <2>2 DEF Turn, Drawn, Picked, ScheduleOf, PlaceOf
  <2>6. \A A : Hop(A)' = Hop(A)
    BY <2>1, <2>2, <2>5 DEF Hop
  <2>7. \A A : Round(A)' = Round(A)
    BY <2>1, <2>2, <2>5, <2>6 DEF Round, Asked, Promised, Brings, Request, Update
  <2>8. \A T, U : Behind(U, T)' = Behind(U, T)
    BY <2>1, <2>2 DEF Behind
  <2>9. \A T : Story(T, infected)' = Story(T, infected)
    BY <2>1, <2>2, <2>3, <2>4 DEF Story
  <2>10. \A T, k : Story(T, results[k].infected)' = Story(T, results[k].infected)
    BY <2>1, <2>2, <2>3, <2>4 DEF Story
  <2> QED BY <2>1, <2>2, <2>5, <2>7, <2>8, <2>9, <2>10 DEF AheadInv
<1> QED BY <1>1, <1>2, <1>3

(* Schedules are used by SI without losses only.                           *)
LEMMA ScheduledSetups ==
  ASSUME NEW x \in AllSetups, x.fixed, x.graph # "R"
  PROVE  x.kind = "si" /\ ~x.lossy
<1>1. \A graphs, fixed, program : \A y \in Lossless(graphs, fixed, program) :
        y.kind = "si" /\ y.lossy = FALSE
  BY DEF Lossless, Setups
<1>2. \A kind, graphs, programs, losses, ks :
        \A y \in Setups(kind, graphs, FALSE, programs, losses, ks) : y.fixed = FALSE
  BY DEF Setups
<1>3. CASE \/ x \in RunCompleteSiSingle \/ x \in RunCompleteSiMeanStd
           \/ x \in CompareCompleteSiExp \/ x \in CompareCompleteSiLoglog
           \/ x \in CompleteSiVsGraphSize \/ x \in CompareCompleteSiPhases
           \/ x \in RingSiVsGraphSize \/ x \in RandGeomSiVsGraphSize
           \/ x \in SiRoundsCompareTopologies
  BY <1>1, <1>3 DEF RunCompleteSiSingle, RunCompleteSiMeanStd, CompareCompleteSiExp,
     CompareCompleteSiLoglog, CompleteSiVsGraphSize, CompareCompleteSiPhases,
     RingSiVsGraphSize, RandGeomSiVsGraphSize, SiRoundsCompareTopologies
<1>4. CASE \/ x \in SiRoundsMsgLoss \/ x \in CompareSyncAsyncMultiple
           \/ x \in SingleRunSir \/ x \in MultipleRunSir
  BY <1>2, <1>4 DEF SiRoundsMsgLoss, CompareSyncAsyncMultiple, SingleRunSir, MultipleRunSir
<1> QED BY <1>3, <1>4 DEF AllSetups, CompareAsyncVsGraphSize

(* It holds of the first simulation of each experiment.                    *)
LEMMA AheadInit == Init => AheadInv
<1> SUFFICES ASSUME Init, Scheduled PROVE AheadInv
  BY DEF AheadInv
<1>1. PICK x \in AllSetups, inst \in Instances :
        /\ GossipInit([kind |-> x.kind, lossy |-> x.lossy, k |-> x.k, rounds |-> inst.rounds],
                      Head(x.program),
                      [kind |-> x.graph, n |-> inst.n, fixed |-> x.fixed,
                       neighbors |-> inst.neighbors])
        /\ results = << >>
  BY DEF Init
<1>2. /\ graph.kind = x.graph /\ graph.fixed = x.fixed
      /\ ptr = [s \in Schedules |-> -1]
      /\ task.kind = x.kind /\ task.lossy = x.lossy /\ state = Started /\ phase = "main" /\ node = 0
      /\ messages = << >> /\ updates = << >> /\ infected = << 1 >>
  BY <1>1 DEF GossipInit, ChoiceInit
<1>3. task.kind = "si" /\ ~task.lossy
  BY <1>2, ScheduledSetups DEF Scheduled
<1>4. graph.n \in Nat \ {0} /\ graph.kind \in {"K", "RG"}
  BY InvInit DEF Inv, ChoiceTypeOK, Scheduled
<1>5. 0 \in Nodes /\ {0} \in SUBSET Nodes /\ Told = {0} /\ Now = 1
  BY <1>2, <1>4 DEF Nodes, Told, Started, Now
<1>6. Turn
  <2>1. \A i \in Nodes : i \in Int /\ ~(i < 0)
    BY <1>4 DEF Nodes
  <2>2. (1 - 1) * graph.n + 0 = 0
    BY <1>4
  <2>3. graph.kind = "K" => PlaceOf(node, Now) = 0 /\ ptr[0] = -1
    BY <1>2, <1>5, <2>2 DEF PlaceOf, Schedules
  <2>4. graph.kind = "RG" => \A i \in Nodes : PlaceOf(i, Now) = 0 /\ ptr[i] = -1
    BY <1>2, <1>5 DEF PlaceOf, Schedules
  <2> QED BY <1>2, <1>4, <2>1, <2>3, <2>4 DEF Turn
<1> DEFINE T == <<{0}>>
<1>7. Story(T, infected)
  <2>1. PICK g, c : g = graph /\ c = << 1 >>
    OBVIOUS
  <2>2. Story(T, c)
    BY <1>4, <2>1, FirstStory
  <2> QED BY <1>2, <2>1, <2>2
<1>8. T[Now] = {0} /\ DOMAIN results = {}
  BY <1>1, <1>5
<1>9. Round({0})
  BY <1>2, <1>5, RoundBegins
<1> HIDE DEF T
<1> QED BY <1>3, <1>6, <1>7, <1>8, <1>9 DEF AheadInv

-----------------------------------------------------------------------------
(* The first phase ends no later on a curve that is ahead.                 *)
LEMMA LeastIsMin ==
  ASSUME NEW T \in SUBSET Nat, T # {}
  PROVE  Min(T) \in T /\ \A y \in T : Min(T) <= y
<1>1. \E x \in T : \A y \in T : x <= y
  BY LeastElement
<1> QED BY <1>1 DEF Min

(* A story ahead of another has the greater curve.                         *)
LEMMA StoryIsAhead == Inv /\ CurveInv /\ AheadInv => PushPullAhead
<1> SUFFICES ASSUME Inv, CurveInv, AheadInv, mode = PushPull, Scheduled, NEW k \in DOMAIN results,
                    NEW c, c = results[k].infected
             PROVE  /\ phase # "IndexError"
                    /\ Len(infected) <= Len(c)
                    /\ \A r \in DOMAIN infected : infected[r] >= c[r]
                    /\ phase = "done" => FirstPhase(infected) <= FirstPhase(c)
  BY DEF PushPullAhead
<1>1. PICK T, U : Story(T, infected) /\ Story(U, c) /\ Behind(U, T)
  BY DEF AheadInv
<1>2. /\ Len(T) \in Nat /\ Len(U) \in Nat /\ Len(infected) = Len(T) /\ Len(c) = Len(U)
      /\ Len(T) >= 1 /\ DOMAIN infected = 1 .. Len(T)
      /\ Len(T) <= Len(U)
  <2>1. infected \in Seq(0 .. graph.n)
    BY DEF Inv, CurvesTyped, Curve
  <2> QED BY <1>1, <2>1, LenProperties DEF Story, Behind
<1>3. IsFiniteSet(Nodes) /\ Cardinality(Nodes) = graph.n /\ graph.n \in Nat \ {0}
  BY AllTold DEF Inv, ChoiceTypeOK
<1>4. /\ \A r \in 1 .. Len(T) : T[r] \in SUBSET Nodes
      /\ \A r \in 1 .. Len(U) : U[r] \in SUBSET Nodes
  BY <1>1, ElementOfSeq DEF Story
<1>5. ASSUME NEW r \in 1 .. Len(U) PROVE c[r] = Cardinality(U[r]) /\ c[r] \in 0 .. graph.n
  <2>1. c[r] = Cardinality(U[r]) /\ IsFiniteSet(U[r]) /\ Cardinality(U[r]) <= Cardinality(Nodes)
    BY <1>1, <1>3, <1>4, FS_Subset DEF Story
  <2> QED BY <1>3, <2>1, FS_CardinalityType
<1>6. ASSUME NEW r \in 1 .. Len(T)
      PROVE  infected[r] \in 0 .. graph.n /\ infected[r] >= c[r]
  <2>1. U[r] \subseteq T[r] /\ r \in 1 .. Len(U)
    BY <1>1, <1>2 DEF Behind
  <2>2. IsFiniteSet(T[r]) /\ Cardinality(T[r]) <= Cardinality(Nodes) /\ Cardinality(T[r]) \in Nat
    BY <1>3, <1>4, FS_Subset, FS_CardinalityType
  <2>3. Cardinality(U[r]) <= Cardinality(T[r])
    BY <2>1, <2>2, FS_Subset
  <2>4. infected[r] = Cardinality(T[r])
    BY <1>1 DEF Story
  <2> QED BY <1>3, <1>5, <2>1, <2>2, <2>3, <2>4
<1>7. phase # "IndexError"
  BY <1>1 DEF Behind
<1>8. ASSUME phase = "done" PROVE FirstPhase(infected) <= FirstPhase(c)
  <2> DEFINE I == {r \in 0 .. Len(infected) - 1 : 2 * infected[r + 1] >= graph.n}
             C == {r \in 0 .. Len(c) - 1 : 2 * c[r + 1] >= graph.n}
  <2>1. I \in SUBSET Nat /\ C \in SUBSET Nat
    BY <1>2
  <2>2. Len(infected) - 1 \in I
    <3>1. infected[Len(infected)] = graph.n
      <4>1. task.kind = "si"
        BY DEF AheadInv
      <4>2. Len(infected) \in 1 .. Len(infected)
        BY <1>2
      <4> QED BY <1>8, <4>1, <4>2 DEF CurveInv, CurvesGrow
    <3> QED BY <1>2, <1>3, <3>1
  <2>3. Len(c) - 1 \in C
    <3>1. c[Len(c)] = graph.n
      BY <1>1, <1>2, <1>3, <1>5 DEF Behind
    <3> QED BY <1>2, <1>3, <3>1
  <2>4. Min(I) \in I /\ Min(C) \in C /\ \A y \in I : Min(I) <= y
    BY <2>1, <2>2, <2>3, LeastIsMin
  <2>5. FirstPhase(infected) = Min(I) /\ FirstPhase(c) = Min(C)
    BY DEF FirstPhase
  <2> DEFINE i == Min(I)
             m == Min(C)
  <2>6. m \in 0 .. Len(c) - 1 /\ 2 * c[m + 1] >= graph.n
    BY <2>4
  <2>7. i \in Nat /\ i <= Len(infected) - 1
    BY <1>2, <2>2, <2>4
  <2>8. \A y \in I : i <= y
    BY <2>4
  <2> HIDE DEF i, m
  <2>9. CASE m <= Len(infected) - 1
    <3>1. m \in 0 .. Len(infected) - 1 /\ m + 1 \in 1 .. Len(T) /\ m + 1 \in 1 .. Len(U)
      BY <1>2, <2>6, <2>9
    <3>2. infected[m + 1] \in 0 .. graph.n /\ infected[m + 1] >= c[m + 1] /\ c[m + 1] \in 0 .. graph.n
      BY <1>5, <1>6, <3>1
    <3> \A a, b \in 0 .. graph.n : a >= b /\ 2 * b >= graph.n => 2 * a >= graph.n
      BY <1>3
    <3>3. 2 * infected[m + 1] >= graph.n
      BY <2>6, <3>2
    <3>4. m \in I
      BY <3>1, <3>3
    <3>5. i <= m
      BY <2>8, <3>4
    <3> QED BY <2>5, <3>5 DEF i, m
  <2>10. CASE ~(m <= Len(infected) - 1)
    <3>1. i <= m
      BY <1>2, <2>6, <2>7, <2>10
    <3> QED BY <2>5, <3>1 DEF i, m
  <2> QED BY <2>9, <2>10
<1> QED BY <1>2, <1>6, <1>7, <1>8

(* On any graph and any schedule push-pull is ahead of push and of pull in *)
(* every round of the experiments that compare them, is never done later,  *)
(* and never runs out of a schedule on which they were done.               *)
THEOREM PushPullIsAhead == Spec => []PushPullAhead
<1>1. Init => CurveInv /\ AheadInv
  BY CurveInit, AheadInit
<1>2. Inv /\ CurveInv /\ [Next]_experimentVars => CurveInv'
  BY CurveStep
<1>3. Inv /\ Inv' /\ CurveInv /\ AheadInv /\ [Next]_experimentVars => AheadInv'
  BY AheadStep
<1>4. Inv /\ CurveInv /\ AheadInv => PushPullAhead
  BY StoryIsAhead
<1> QED BY <1>1, <1>2, <1>3, <1>4, Invariant, PTL DEF Spec

-----------------------------------------------------------------------------
(* One hop a round: the round at hand began with those that the history    *)
(* variable remembers.                                                     *)
HopInv == Scheduled /\ phase # "done" => Round(ToldBefore)

(* HopInv is kept by every step. *)
LEMMA HopStep ==
  ASSUME Inv, Inv', CurveInv, AheadInv, HopInv, [MCNext]_mcVars
  PROVE  HopInv'
<1>1. [Next]_experimentVars
  BY DEF MCNext, mcVars
<1>2. graph' = graph /\ Nodes' = Nodes /\ (Scheduled' <=> Scheduled)
  <2>1. graph' = graph
    BY <1>1, ChoiceStep DEF Inv, NodesTyped
  <2> QED BY <2>1 DEF Nodes, Scheduled
<1> SUFFICES ASSUME Scheduled, phase' # "done" PROVE Round(ToldBefore)'
  BY <1>2 DEF HopInv
<1>3. CASE UNCHANGED mcVars
  <2>1. /\ UNCHANGED <<graph, picks, mode, state, phase, node, messages, updates>>
        /\ UNCHANGED <<infected, before>>
    BY <1>3 DEF mcVars, experimentVars, gossipVars, choiceVars, nodeVars
  <2>2. /\ Round(ToldBefore) /\ Now' = Now /\ Told' = Told
        /\ ToldBefore' = ToldBefore
    BY <1>2, <2>1 DEF HopInv, Now, Told, ToldBefore
  <2>3. \A i : Picked(i, Now)' = Picked(i, Now)
    BY <2>1, <2>2 DEF Picked, ScheduleOf, PlaceOf
  <2>4. Hop(ToldBefore)' = Hop(ToldBefore)
    BY <1>2, <2>1, <2>2, <2>3 DEF Hop
  <2> QED BY <1>2, <2>1, <2>2, <2>3, <2>4 DEF Round, Asked, Promised, Brings, Request, Update
<1>4. CASE MCNext /\ GossipNext /\ ~EndRound
  <2>1. phase # "done" /\ ~(phase # "main" /\ phase' = "main")
    BY <1>4 DEF GossipNext, MainLoop, RunOutOfPicks, LoseMessages, DelayMessages,
       RunOnUpdateRequest, RunOnUpdate, RunOnFeedback
  <2>2. PICK A : A = ToldBefore
    OBVIOUS
  <2>3. ToldBefore' = A /\ A \in SUBSET Nodes
    BY <1>2, <1>4, <2>1, <2>2 DEF MCNext, ToldBefore
  <2>4. InRound(A)
    BY <2>1, <2>2, <2>3 DEF InRound, HopInv, AheadInv
  <2>5. Round(A)'
    BY <1>4, <2>4, InRoundStep DEF MCNext
  <2> QED BY <2>3, <2>5
<1>5. CASE MCNext /\ (EndRound \/ NextSimulation)
  <2>1. /\ phase # "main" /\ phase' = "main" /\ before' = state'
        /\ node' = 0 /\ messages' = << >> /\ updates' = << >>
    BY <1>5 DEF MCNext, EndRound, NextSimulation, Inv, Phased
  <2>2. ToldBefore' = Told' /\ Told' \in SUBSET Nodes'
    BY <2>1 DEF ToldBefore, Told
  <2> QED BY <2>1, <2>2, RoundBeginsNext
<1> QED BY <1>3, <1>4, <1>5 DEF MCNext, Next

(* In every round of a simulation on a schedule, on any graph and by push, *)
(* pull or both, the news gets exactly one hop further.                    *)
THEOREM NewsGoesOneHop == MCSpec => []OneHopARound
<1>1. MCInit => Init /\ CurveInv /\ AheadInv /\ HopInv
  <2> SUFFICES ASSUME MCInit PROVE Init /\ CurveInv /\ AheadInv /\ HopInv
    OBVIOUS
  <2>1. /\ Init /\ before = state /\ node = 0 /\ phase = "main"
        /\ messages = << >> /\ updates = << >>
    BY DEF MCInit, Init, GossipInit
  <2>2. ToldBefore = Told /\ Told \in SUBSET Nodes
    BY <2>1 DEF ToldBefore, Told
  <2>3. HopInv
    BY <2>1, <2>2, RoundBegins DEF HopInv
  <2> QED BY <2>1, <2>3, CurveInit, AheadInit
<1>2. [MCNext]_mcVars => [Next]_experimentVars
  BY DEF MCNext, mcVars
<1>3. Inv /\ CurveInv /\ [Next]_experimentVars => CurveInv'
  BY CurveStep
<1>4. Inv /\ Inv' /\ CurveInv /\ AheadInv /\ [Next]_experimentVars => AheadInv'
  BY AheadStep
<1>5. Inv /\ Inv' /\ CurveInv /\ AheadInv /\ HopInv /\ [MCNext]_mcVars => HopInv'
  BY HopStep
<1>6. Inv /\ HopInv => OneHopARound
  <2> SUFFICES ASSUME Inv, HopInv, Scheduled, phase = "deliver",
                      messages = << >>, updates = << >>
               PROVE  Told = Hop(ToldBefore)
    BY DEF OneHopARound
  <2>1. Range(messages) = {} /\ Range(updates) = {}
    BY DEF Range
  <2> QED BY <2>1 DEF HopInv, Round, Promised
<1> QED BY <1>1, <1>2, <1>3, <1>4, <1>5, <1>6, InvInit, InvStep, PTL DEF MCSpec

=============================================================================
