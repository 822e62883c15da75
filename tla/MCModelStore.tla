---------------------------- MODULE MCModelStore ----------------------------
(* Instance of ModelStore for TLC. *)
EXTENDS ModelStore, TLC
Symmetry == Permutations(Clients) \cup Permutations(Hashes) \cup Permutations(Pulls)
=============================================================================
