------------------------- MODULE MCCustomerService --------------------------
(* CustomerService on small instances: addresses "A" and "a" differ in case
   only, "x" has no proper shape. *)
EXTENDS CustomerService, TLC

CONSTANTS upperA, lowerA, b, x

MCLower == [r \in Raw |-> IF r = upperA THEN lowerA ELSE r]

Symmetry == Permutations(Client)
=============================================================================
