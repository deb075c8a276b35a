---------------------- MODULE MCTiendanubeMigration ----------------------
(* Instances of TiendanubeMigration for TLC. *)
EXTENDS TiendanubeMigration, TLC

Symmetry == Permutations(Keys) \cup Permutations(Workers)
=============================================================================
