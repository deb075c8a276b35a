----------------------- MODULE MCPublicationSnapshot -----------------------
(* Two publications and two families; no name differs from another.  *)
EXTENDS PublicationSnapshot, TLC

Symmetry == Permutations(Items) \cup Permutations(Families)
=============================================================================
