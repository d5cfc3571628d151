------------------------- MODULE MCRoundRobin -------------------------
(***************************************************************************)
(* FailureDetector for TLC, with a history variable that counts, for each  *)
(* pair of nodes, the cycles since the one last probed the other.          *)
(***************************************************************************)
EXTENDS FailureDetector

VARIABLE waited

mcVars == <<vars, waited>>

MCInit == Init /\ waited = [n \in Node |-> [q \in Node |-> 0]]

Waiting(n, q) ==
  IF \/ ~up'[n] \/ udp'[n].at = "reset" \/ ~IsPeer(peers'[n], q)
     \/ target'[n].udp = q
  THEN 0
  ELSE IF prober[n] = "probe" /\ prober'[n] = "request"
       THEN waited[n][q] + 1
       ELSE waited[n][q]

MCNext == Next /\ waited' = [n \in Node |-> [q \in Node |-> Waiting(n, q)]]

(* With the fairness of FairSpec.                                          *)
MCFairSpec ==
  /\ MCInit /\ [][MCNext]_mcVars
  /\ \A n \in Node : WF_vars(Listener(n)) /\ SF_vars(Prober(n))

(* The shuffled round robin probes a peer at the latest when two rounds,   *)
(* less the two probes of it, have gone by: between two probes of the same *)
(* peer there are at most 2K - 2 others, K being the number of peers.      *)
ProbedInTime ==
  \A n \in Node : \A q \in Node \ {n} :
    waited[n][q] <= 2 * (Cardinality(Node) - 1) - 2
=============================================================================
