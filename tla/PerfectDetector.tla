-------------------------- MODULE PerfectDetector --------------------------
(***************************************************************************)
(* What failure detection promises as long as datagrams arrive in time,    *)
(* without probes, answers or helpers: every node trusts all others at     *)
(* first, nodes may stop for good, and a running node stops trusting       *)
(* another, one at a time and for good, only when that one has stopped.    *)
(***************************************************************************)
CONSTANT Node

VARIABLES
  up,      \* up[n]: n has not stopped
  trusted  \* trusted[n]: the nodes that n takes to be running

Init ==
  /\ up = [n \in Node |-> TRUE]
  /\ trusted = [n \in Node |-> Node \ {n}]

(* What a node knew is gone when it stops.                                 *)
Stop(n) ==
  /\ up[n]
  /\ up' = [up EXCEPT ![n] = FALSE]
  /\ trusted' = [trusted EXCEPT ![n] = {}]

Suspect(n, q) ==
  /\ up[n] /\ ~up[q]
  /\ q \in trusted[n]
  /\ trusted' = [trusted EXCEPT ![n] = @ \ {q}]
  /\ up' = up

Next == \E n \in Node : Stop(n) \/ \E q \in Node : Suspect(n, q)

Spec == Init /\ [][Next]_<<up, trusted>>
=============================================================================
