---------------------------- MODULE MCAveraging ----------------------------
(***************************************************************************)
(* Averaging for TLC, with history variables: what was lost, and the edges *)
(* whose two flows need not cancel.                                        *)
(***************************************************************************)
EXTENDS Averaging

VARIABLES
  lost,       \* value and weight of all messages lost so far
  dirty       \* edges on which not exactly one message arrived when last used

mcVars == <<avgVars, lost, dirty>>

MCFactor == [K |-> 1, RG |-> 1]
Complete == [kind |-> "K", n |-> 3, fixed |-> FALSE,
             neighbors |-> [i \in 0 .. 2 |-> {}]]
Path == [kind |-> "RG", n |-> 3, fixed |-> FALSE,
         neighbors |-> [i \in 0 .. 2 |-> IF i = 1 THEN {0, 2} ELSE {1}]]
MCGraphs == {Complete, Path}
MCRounds == [K |-> 2, RG |-> 3]
MCGrain == [k \in {"K", "RG"} |->
              [r \in 0 .. MCRounds[k] |-> 2^(MCRounds[k] - r)]]
MCValue == [i \in 0 .. 2 |-> 2 * i]

Total(f) == SumFunctionOnSet(f, DOMAIN f)
SumX(msgs) == Total([k \in DOMAIN msgs |-> msgs[k].x])
SumW(msgs) == Total([k \in DOMAIN msgs |-> msgs[k].w])

Edge(m) == {m.from, m.to}
Edges(msgs) == {Edge(msgs[k]) : k \in DOMAIN msgs}
UsedOnce(msgs) ==
  {e \in Edges(msgs) : Cardinality({k \in DOMAIN msgs : Edge(msgs[k]) = e}) = 1}

MCInit == Init /\ lost = [x |-> 0, w |-> 0] /\ dirty = {}

(* In a step of LoseMessages messages is what was sent, messages' what     *)
(* will arrive.                                                            *)
MCNext ==
  /\ Next
  /\ IF phase = "main" /\ phase' = "deliver"
     THEN /\ lost' = [x |-> lost.x + SumX(messages) - SumX(messages'),
                      w |-> lost.w + SumW(messages) - SumW(messages')]
          /\ dirty' = (dirty \cup Edges(messages)) \ UsedOnce(messages')
     ELSE UNCHANGED <<lost, dirty>>

MCSpec == MCInit /\ [][MCNext]_mcVars

TotalValue == Total([i \in Nodes |-> Value[i]])

(* Push-sum loses value and weight only with the messages it loses: the    *)
(* rest is at the nodes or on its way.                                     *)
MassConserved ==
  alg = "PushSum" =>
    /\ Total(x) + SumX(messages) + lost.x = Unit * TotalValue
    /\ Total(w) + SumW(messages) + lost.w = Unit * graph.n

(* Push-flow repairs: a lost message, or two that crossed on an edge, make *)
(* the sum wrong only until one message arrives there alone.  Between      *)
(* rounds the two flows of every other edge cancel, and if no edge is in   *)
(* question the sum of the nodes' shares is the sum of their values.       *)
LossesHeal ==
  alg = "PushFlow" /\ phase = "main" /\ node = 0 =>
    /\ \A i \in Nodes : \A q \in GetNeighbors(i) :
         {i, q} \notin dirty => /\ flowsX[i][q] + flowsX[q][i] = 0
                               /\ flowsW[i][q] + flowsW[q][i] = 0
    /\ dirty = {} => /\ Total([i \in Nodes |-> OwnX(i)]) = Unit * TotalValue
                     /\ Total([i \in Nodes |-> OwnW(i)]) = Unit * graph.n

=============================================================================
