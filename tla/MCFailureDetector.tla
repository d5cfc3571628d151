------------------------- MODULE MCFailureDetector -------------------------
(***************************************************************************)
(* FailureDetector for TLC.  Init and Next treat all nodes alike, so the   *)
(* runs that check no liveness may take nodes up to renaming.              *)
(***************************************************************************)
EXTENDS FailureDetector

Symmetry == Permutations(Node)

(* The faults that may not make a node drop a running peer: a lost         *)
(* datagram if all nodes run, or nodes that stop if nothing is lost.       *)
Rich == \A n \in Node : ~starved[n]
Calm == Rich /\ (lost = 0 \/ \A n \in Node : up[n])

(* With more faults than that the probers and the surroundings wait until  *)
(* all UDP threads are idle, a bound on the interleavings.                 *)
FaultsNext ==
  \/ Quiescent /\ Next
  \/ \E n \in Node : ~Quiescent /\ Listener(n)
  \/ ~Quiescent /\ Calm /\ \E n \in Node : (Prober(n) \/ Environment(n)) /\ Calm'
FaultsSpec == Init /\ [][FaultsNext]_vars

(* A lost datagram of any kind, or nodes that stop at any moment, make no  *)
(* node drop a running peer or tell it that it is none, however the        *)
(* exchanges of the probers overlap: check_probed does not act before its  *)
(* answer, and the indirect probe through a third node makes up for the    *)
(* loss.                                                                   *)
AccurateDespiteFaults == Calm => Accuracy /\ NoRejoin
=============================================================================
