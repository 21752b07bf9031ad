----------------------------- MODULE MCLogAgent -----------------------------
(* LogAgent on small instances; the bounds are in the cfg files. *)
EXTENDS LogAgent, TLC

Symmetry == Permutations(Path)
=============================================================================
