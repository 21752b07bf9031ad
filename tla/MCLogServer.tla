---------------------------- MODULE MCLogServer -----------------------------
(* LogServer on small instances: the first stream carries one entry, the
   second the others. *)
EXTENDS LogServer, TLC

CONSTANTS e1, e2, e3, s1, s2

TwoStreams   == [e \in Entry |-> IF e = e1 THEN s1 ELSE s2]
OneStream    == [e \in Entry |-> s1]

Symmetry == Permutations(Worker)
=============================================================================
