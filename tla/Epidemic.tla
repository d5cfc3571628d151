------------------------------ MODULE Epidemic ------------------------------
(***************************************************************************)
(* What the simulations of gossip/nodes.py promise, without messages,      *)
(* rounds or random choices: one node has the news ("I") at first, others  *)
(* get it only from a node that spreads it, a node stops spreading ("R")   *)
(* only when somebody else has the news, and nobody loses it.              *)
(***************************************************************************)
VARIABLE state

Node == DOMAIN state

Informed == {n \in Node : state[n] # "S"}

OneInfected(s) == \E n \in DOMAIN s :
  s = [m \in DOMAIN s |-> IF m = n THEN "I" ELSE "S"]

Init == OneInfected(state)

Infect(n) ==
  /\ state[n] = "S"
  /\ \E m \in Node : state[m] = "I"
  /\ state' = [state EXCEPT ![n] = "I"]

Remove(n) ==
  /\ state[n] = "I"
  /\ Informed # {n}
  /\ state' = [state EXCEPT ![n] = "R"]

(* Nothing can change any more but spreaders becoming silent.              *)
Over == Informed = Node \/ \A n \in Node : state[n] # "I"

(* The next simulation on the same nodes.                                  *)
Restart == Over /\ DOMAIN state' = Node /\ OneInfected(state')

Next == Restart \/ \E n \in Node : Infect(n) \/ Remove(n)

Spec == Init /\ [][Next]_state

=============================================================================
