----------------------------- MODULE Positions -----------------------------
(***************************************************************************)
(* Part of a sequence, as a loop over it that keeps some of the entries    *)
(* leaves it: the lists of state.c and those of gossip/nodes.py.           *)
(***************************************************************************)
EXTENDS Integers, Sequences, FiniteSets

(* The number of positions of I up to i.                                   *)
Rank(I, i) == Cardinality({k \in I : k <= i})

(* The entries of s at the positions in I, in their order.                 *)
Entries(s, I) ==
  [j \in 1..Cardinality(I) |-> s[CHOOSE i \in I : Rank(I, i) = j]]

=============================================================================
