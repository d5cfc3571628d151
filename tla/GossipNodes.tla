---------------------------- MODULE GossipNodes ----------------------------
(***************************************************************************)
(* gossip/nodes.py: run_si, run_si_async and run_sir, which simulate the   *)
(* spreading of one piece of news, round by round in one thread, on a      *)
(* graph of PeerChoice.  One action is one call of a handler of SINode or  *)
(* SIRNode, or one of the loops over all messages between them.            *)
(***************************************************************************)
EXTENDS PeerChoice, Positions, SequencesExt

CONSTANTS
  MinDelay, MaxDelay    \* 3 and 5 rounds in the code

(* A reply is never put into the round whose messages are being read.      *)
ASSUME DelayAssumption ==
  MinDelay \in Nat \ {0} /\ MaxDelay \in Nat /\ MinDelay <= MaxDelay

VARIABLES
  task,       \* kind ("si", "async", "sir"), lossy (msg_loss > 0), k, and
              \* rounds, which bounds the runs without a schedule
  mode,       \* push and pull
  state,      \* "S", "I" or "R" of each node
  phase,      \* "main", "delay", "deliver", "done", "IndexError"
  node,       \* the next node to run its main loop
  messages,   \* this round's messages, those not replied to yet
  updates,    \* update_messages
  feedbacks,
  pending,    \* messages_for_round, from the current round on
  infected,   \* infected nodes at the end of each round
  removed,
  sent        \* sent_messages[-1] + cnt_messages_sent

nodeVars == <<task, mode, state, phase, node, messages, updates, feedbacks,
              pending, infected, removed, sent>>
gossipVars == <<choiceVars, nodeVars>>

Update(i, p)   == [type |-> "update", from |-> i, to |-> p]
Request(i, p)  == [type |-> "request", from |-> i, to |-> p]
(* Mutant: sender and receiver are swapped. *)
FeedbackToSelf(i, p) == [type |-> "feedback", from |-> p, to |-> i]
Feedback(i, p) == [type |-> "feedback", from |-> i, to |-> p]

Message == [type : {"update", "request", "feedback"}, from : Nodes, to : Nodes]
NoPending == [d \in 0 .. MaxDelay |-> << >>]

(* The nodes and statistics at the start of each run: node 0 is infected.  *)
Started == [i \in Nodes |-> IF i = 0 THEN "I" ELSE "S"]

GossipInit(t, m, g) ==
  /\ ChoiceInit(g)
  /\ task = t /\ mode = m
  /\ state = Started
  /\ phase = "main" /\ node = 0
  /\ messages = << >> /\ updates = << >> /\ feedbacks = << >>
  /\ pending = NoPending
  /\ infected = <<1>> /\ removed = <<0>> /\ sent = 0

(* Mutant: without pull the nodes send requests all the same. *)
RunMainLoopAsking(i, p) ==
  IF p = i THEN << >>
  ELSE (IF mode.push /\ state[i] = "I" THEN <<Update(i, p)>> ELSE << >>)
       \o <<Request(i, p)>>

(* What node i sends when its random neighbour is p.                       *)
RunMainLoop(i, p) ==
  IF p = i THEN << >>
  ELSE (IF mode.push /\ state[i] = "I" THEN <<Update(i, p)>> ELSE << >>)
       \o (IF mode.pull THEN <<Request(i, p)>> ELSE << >>)

(* The bound: a run without a schedule could go on for ever.               *)
WithinBound == Scheduled \/ Len(infected) <= task.rounds

MainLoop ==
  /\ phase = "main" /\ node < graph.n /\ WithinBound
  /\ \E p \in Nodes :
       /\ GetRandomNeighbor(node, p)
       /\ messages' = messages \o RunMainLoop(node, p)
       /\ sent' = sent + Len(RunMainLoop(node, p))
  /\ node' = node + 1
  /\ UNCHANGED <<task, mode, state, phase, updates, feedbacks, pending,
                 infected, removed>>

RunOutOfPicks ==
  /\ phase = "main" /\ node < graph.n /\ Exhausted(node)
  /\ phase' = "IndexError"
  /\ UNCHANGED <<choiceVars, task, mode, state, node, messages, updates,
                 feedbacks, pending, infected, removed, sent>>

(* run_sir loses nothing.  r > msg_loss also loses a message of a run      *)
(* without loss if r is exactly 0.0: left out, see the README.             *)
Survivors == IF task.lossy THEN SUBSET DOMAIN messages ELSE {DOMAIN messages}

LoseMessages ==
  /\ phase = "main" /\ node = graph.n
  /\ \E kept \in Survivors : messages' = Entries(messages, kept)
  /\ phase' = IF task.kind = "async" THEN "delay" ELSE "deliver"
  /\ UNCHANGED <<choiceVars, task, mode, state, node, updates, feedbacks,
                 pending, infected, removed, sent>>

(* Mutant: the delays are one round less. *)
DelaysShort == [DOMAIN messages -> MinDelay - 1 .. MaxDelay - 1]

Delays == [DOMAIN messages -> MinDelay .. MaxDelay]

(* Each message is put off, and those due in this round are taken.         *)
DelayMessages ==
  /\ phase = "delay"
  /\ \E delay \in Delays :
       pending' = [d \in 0 .. MaxDelay |->
         pending[d] \o Entries(messages, {k \in DOMAIN messages : delay[k] = d})]
  /\ messages' = pending'[0]
  /\ phase' = "deliver"
  /\ UNCHANGED <<choiceVars, task, mode, state, node, updates, feedbacks,
                 infected, removed, sent>>

(* What becomes of a reply: it is lost, sent at once, or put off.          *)
SendReply(m) ==
  \/ task.lossy /\ UNCHANGED <<updates, pending>>
  \/ task.kind # "async" /\ updates' = Append(updates, m) /\ UNCHANGED pending
  \/ /\ task.kind = "async"
     /\ \E d \in MinDelay .. MaxDelay :
          pending' = [pending EXCEPT ![d] = Append(@, m)]
     /\ UNCHANGED updates

(* Mutant: the replies are not counted. *)
OnUpdateRequestUncounted(m) ==
  /\ \/ state[m.to] = "I" /\ SendReply(Update(m.to, m.from))
     \/ state[m.to] # "I" /\ UNCHANGED <<updates, pending>>
  /\ UNCHANGED sent

OnUpdateRequest(m) ==
  \/ /\ state[m.to] = "I"
     /\ SendReply(Update(m.to, m.from))
     /\ sent' = sent + 1
  \/ state[m.to] # "I" /\ UNCHANGED <<updates, pending, sent>>

(* Mutant: an update is applied when it is met, before later requests. *)
RunOnUpdateRequestInTurn ==
  /\ phase = "deliver" /\ messages # << >>
  /\ LET m == Head(messages) IN
       \/ /\ m.type = "update"
          /\ state' = [state EXCEPT ![m.to] = IF @ = "S" THEN "I" ELSE @]
          /\ UNCHANGED <<updates, pending, sent>>
       \/ m.type = "request" /\ OnUpdateRequest(m) /\ UNCHANGED state
  /\ messages' = Tail(messages)
  /\ UNCHANGED <<choiceVars, task, mode, phase, node, feedbacks, infected, removed>>

(* The loop that replies to requests, before any update is applied: an     *)
(* update waits its turn in it.                                            *)
RunOnUpdateRequest ==
  /\ phase = "deliver" /\ messages # << >>
  /\ LET m == Head(messages) IN
       \/ /\ m.type = "update"
          /\ updates' = Append(updates, m)
          /\ UNCHANGED <<pending, sent>>
       \/ m.type = "request" /\ OnUpdateRequest(m)
  /\ messages' = Tail(messages)
  /\ UNCHANGED <<choiceVars, task, mode, state, phase, node, feedbacks,
                 infected, removed>>

(* Mutant: a node that was removed spreads the news again. *)
OnUpdateReviving(m) ==
  \/ /\ state[m.to] # "I"
     /\ state' = [state EXCEPT ![m.to] = "I"]
     /\ UNCHANGED feedbacks
  \/ /\ state[m.to] = "I"
     /\ feedbacks' = IF task.kind = "sir"
                     THEN Append(feedbacks, Feedback(m.to, m.from))
                     ELSE feedbacks
     /\ UNCHANGED state

(* An SIRNode that has the news already says so.                           *)
OnUpdate(m) ==
  \/ /\ state[m.to] = "S"
     /\ state' = [state EXCEPT ![m.to] = "I"]
     /\ UNCHANGED feedbacks
  \/ /\ state[m.to] # "S"
     /\ feedbacks' = IF task.kind = "sir"
                     THEN Append(feedbacks, Feedback(m.to, m.from))
                     ELSE feedbacks
     /\ UNCHANGED state

RunOnUpdate ==
  /\ phase = "deliver" /\ messages = << >> /\ updates # << >>
  /\ OnUpdate(Head(updates))
  /\ updates' = Tail(updates)
  /\ UNCHANGED <<choiceVars, task, mode, phase, node, messages, pending,
                 infected, removed, sent>>

(* r <= 1 / k holds for every r if k is 1.                                 *)
OnFeedback(m) ==
  \/ state' = [state EXCEPT ![m.to] = "R"]
  \/ task.k > 1 /\ UNCHANGED state

RunOnFeedback ==
  /\ phase = "deliver" /\ messages = << >> /\ updates = << >>
  /\ feedbacks # << >>
  /\ OnFeedback(Head(feedbacks))
  /\ feedbacks' = Tail(feedbacks)
  /\ sent' = sent + 1
  /\ UNCHANGED <<choiceVars, task, mode, phase, node, messages, updates,
                 pending, infected, removed>>

Count(s) == Cardinality({i \in Nodes : state[i] = s})

(* Mutant: the loop ends when one node is left. *)
FinishedEarly == IF task.kind = "sir" THEN Count("I") = 0 \/ Count("S") = 0
                                      ELSE Count("I") >= graph.n - 1

(* The condition on which the while loops end.                             *)
Finished == IF task.kind = "sir" THEN Count("I") = 0 \/ Count("S") = 0
                                 ELSE Count("I") = graph.n

EndRound ==
  /\ phase = "deliver"
  /\ messages = << >> /\ updates = << >> /\ feedbacks = << >>
  /\ infected' = Append(infected, Count("I"))
  /\ removed' = Append(removed, Count("R"))
  /\ phase' = IF Finished THEN "done" ELSE "main"
  /\ node' = 0
  /\ pending' = [d \in 0 .. MaxDelay |->
                   IF d < MaxDelay THEN pending[d + 1] ELSE << >>]
  /\ UNCHANGED <<choiceVars, task, mode, state, messages, updates, feedbacks,
                 sent>>

GossipNext ==
  \/ MainLoop
  \/ RunOutOfPicks
  \/ LoseMessages
  \/ DelayMessages
  \/ RunOnUpdateRequest
  \/ RunOnUpdate
  \/ RunOnFeedback
  \/ EndRound

=============================================================================
