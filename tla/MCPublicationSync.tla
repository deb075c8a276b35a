-------------------------- MODULE MCPublicationSync --------------------------
(***************************************************************************)
(* Instances of PublicationSync for TLC: two publications of one family    *)
(* and one on its own.                                                      *)
(***************************************************************************)
EXTENDS PublicationSync, TLC

CONSTANTS a1, a2, b, family, single

MCItems == {a1, a2, b}
MCParents == {family, single}
MCParentOf == [i \in Items |-> IF i = b THEN single ELSE family]
Two == {a1, b}
One == {a1}
Symmetry == Permutations(Workers) \cup Permutations({a1, a2})
=============================================================================
