----------------------------- MODULE MCPipeline -----------------------------
(* Pipeline on small instances; the bounds are in the cfg files. *)
EXTENDS Pipeline

CallNumbers == 1..4
Entries == (1..2) \X CallNumbers
LastOf  == [e \in Entries |-> e[2]]
=============================================================================
