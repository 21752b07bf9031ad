----------------------------- MODULE MCIngester -----------------------------
(* Ingester on small instances. *)
EXTENDS Ingester, TLC

Symmetry == Permutations(Entry) \cup Permutations(Worker)
=============================================================================
