-------------------------- MODULE GroupMembership --------------------------
(***************************************************************************)
(* What joins and removals may do to the lists, without threads, news or   *)
(* datagrams: every node lists the other members at first; from then on a  *)
(* list changes by one port at a time, gains only ports that were admitted *)
(* to the group, and loses only ports that some node declared dead, or the *)
(* one that just now asks the owner of the list to be admitted anew.       *)
(***************************************************************************)
CONSTANTS Node, Port, Members

VARIABLES
  listed,  \* listed[n]: the ports that n takes to be in the group
  asked,   \* who asked to join so far: pairs of gateway and joiner
  dead     \* the ports that some node declared dead

Init ==
  /\ listed = [n \in Node |-> Members \ {n}]
  /\ asked = {}
  /\ dead = {}

(* A port that is listed twice is still there when one entry is removed.   *)
Drop(n, p) == listed' = listed \/ listed' = [listed EXCEPT ![n] = @ \ {p}]

(* p asks n to join, once; n drops what it knew of p until it has admitted *)
(* p anew.                                                                 *)
Ask(n, p) ==
  /\ p # n /\ <<n, p>> \notin asked
  /\ asked' = asked \cup {<<n, p>>}
  /\ Drop(n, p)
  /\ dead' = dead

Declare(n, p) ==
  /\ p \in listed[n]
  /\ dead' = dead \cup {p}
  /\ Drop(n, p)
  /\ asked' = asked

Learn(n, p) ==
  /\ p # n /\ p \in Members \cup {a[2] : a \in asked}
  /\ listed' = [listed EXCEPT ![n] = @ \cup {p}]
  /\ UNCHANGED <<asked, dead>>

Forget(n, p) ==
  /\ p \in dead
  /\ Drop(n, p)
  /\ UNCHANGED <<asked, dead>>

Next == \E n \in Node, p \in Port :
  Ask(n, p) \/ Declare(n, p) \/ Learn(n, p) \/ Forget(n, p)

Spec == Init /\ [][Next]_<<listed, asked, dead>>
=============================================================================
