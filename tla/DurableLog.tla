----------------------------- MODULE DurableLog -----------------------------
(***************************************************************************)
(* What the ingestion pipeline promises, without channel, workers or       *)
(* batches: an accepted entry is pending until it has been written; only   *)
(* accepted entries are ever written; a written row stays; and a pending   *)
(* entry is let go unwritten only after shutdown was requested (the        *)
(* comments of Submit and flush in internal/ingest/ingester.go).           *)
(***************************************************************************)
CONSTANT Entry

VARIABLES
  accepted,  \* entries the caller was told are in
  pending,   \* entries the pipeline still holds
  stored,    \* entries in the logs table
  shutdown   \* shutdown was requested

logVars == <<accepted, pending, stored, shutdown>>

Init ==
  /\ accepted = {} /\ pending = {} /\ stored = {}
  /\ shutdown = FALSE

Accept(e) ==
  /\ e \notin accepted
  /\ accepted' = accepted \cup {e}
  /\ pending' = pending \cup {e}
  /\ UNCHANGED <<stored, shutdown>>

\* A set of pending entries is written; the writer learns of it, and lets the
\* set go, or keeps it to write it again.
Write(S) ==
  /\ S \subseteq pending
  /\ stored' = stored \cup S
  /\ pending' \in {pending, pending \ S}
  /\ UNCHANGED <<accepted, shutdown>>

Lose(S) ==
  /\ shutdown
  /\ S \subseteq pending
  /\ pending' = pending \ S
  /\ UNCHANGED <<accepted, stored, shutdown>>

Shutdown ==
  /\ shutdown' = TRUE
  /\ UNCHANGED <<accepted, pending, stored>>

Next ==
  \/ \E e \in Entry : Accept(e)
  \/ \E S \in SUBSET pending : Write(S) \/ Lose(S)
  \/ Shutdown

Spec == Init /\ [][Next]_logVars

=============================================================================
