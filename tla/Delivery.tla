------------------------------ MODULE Delivery ------------------------------
(***************************************************************************)
(* What agent, server and table promise together about the lines of one    *)
(* log file.  A line is handed to the server, which keeps or refuses it;   *)
(* a kept line is written to the table, and let go unwritten only by a     *)
(* server that was told to stop or that died; the agent's saved position   *)
(* passes a line only after it was handed over (the comments of Shipper in *)
(* internal/logagent and of Submit and flush in internal/ingest).          *)
(***************************************************************************)
EXTENDS Naturals

CONSTANT MaxLines  \* lines of the file

VARIABLES
  handed,   \* lines some handler has submitted
  held,     \* lines in the memory of the server
  stored,   \* lines in the table
  saved,    \* the agent's position
  server    \* "up", "stopping", "down"

deliveryVars == <<handed, held, stored, saved, server>>

Init ==
  /\ saved = 0
  /\ handed = {} /\ held = {} /\ stored = {}
  /\ server = "up"

\* A line is handed over, for the first time or again, and kept or refused.
Hand(l) ==
  /\ server # "down"
  /\ handed' = handed \cup {l}
  /\ held' \in {held, held \cup {l}}
  /\ UNCHANGED <<stored, saved, server>>

\* Held lines are written; some of them may be held a second time.
Store(S) ==
  /\ server # "down"
  /\ stored' = stored \cup S
  /\ held' \in {held \ T : T \in SUBSET S}
  /\ UNCHANGED <<handed, saved, server>>

Lose(S) ==
  /\ server = "stopping"
  /\ held' = held \ S
  /\ UNCHANGED <<handed, stored, saved, server>>

Commit(n) ==
  /\ n > saved /\ 1..n \subseteq handed
  /\ saved' = n
  /\ UNCHANGED <<handed, held, stored, server>>

Stop ==
  /\ server = "up"
  /\ server' = "stopping"
  /\ UNCHANGED <<handed, held, stored, saved>>

\* An exit or a crash; the memory is gone.
Die ==
  /\ server # "down"
  /\ server' = "down" /\ held' = {}
  /\ UNCHANGED <<handed, stored, saved>>

Start ==
  /\ server = "down"
  /\ server' = "up"
  /\ UNCHANGED <<handed, held, stored, saved>>

Next ==
  \/ Stop \/ Die \/ Start
  \/ \E l \in 1..MaxLines : Hand(l) \/ Commit(l)
  \/ \E S \in SUBSET held : Store(S) \/ Lose(S)

Spec == Init /\ [][Next]_deliveryVars

=============================================================================
