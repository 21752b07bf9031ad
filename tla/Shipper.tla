------------------------------- MODULE Shipper -------------------------------
(***************************************************************************)
(* What the log agent does with the lines of one file, seen from outside:  *)
(* it gathers the next few lines, hands them to the server until a receipt *)
(* comes, and only then moves its position, in memory and on disk, behind  *)
(* them; a new process starts over from the disk (the comments of Shipper  *)
(* in internal/logagent).  Modules LogAgent, for a file that is only       *)
(* appended to, and Pipeline both implement it.                            *)
(***************************************************************************)
EXTENDS Naturals

CONSTANTS
  MaxLines,   \* lines of the file
  BatchSize   \* Config.BatchSize

VARIABLES
  at,         \* "collect" or "ready": a batch is gathered
  shipped,    \* the position in memory
  read,       \* the batch is the lines after shipped up to here
  saved,      \* the position on disk
  handed      \* lines the server has taken or refused

shipperState == <<at, shipped, read, saved, handed>>

Init ==
  /\ at = "collect"
  /\ shipped = 0 /\ read = 0 /\ saved = 0
  /\ handed = {}

Gather ==
  /\ at = "collect" /\ at' = "ready"
  /\ \E n \in 1..BatchSize : shipped + n <= MaxLines /\ read' = shipped + n
  /\ UNCHANGED <<shipped, saved, handed>>

\* Lines reach the server, for the first time or again, in the call the shipper
\* waits for or in one it has given up.
Hand(S) ==
  /\ handed' = handed \cup S
  /\ UNCHANGED <<at, shipped, read, saved>>

\* The receipt has come: every line of the batch was handed over.  Saving may fail.
Commit ==
  /\ at = "ready" /\ (shipped + 1)..read \subseteq handed
  /\ at' = "collect"
  /\ shipped' = read
  /\ saved' \in {saved, read}
  /\ UNCHANGED <<read, handed>>

Restart ==
  /\ at' = "collect"
  /\ shipped' = saved /\ read' = saved
  /\ UNCHANGED <<saved, handed>>

Next ==
  \/ Gather \/ Commit \/ Restart
  \/ \E S \in SUBSET (1..MaxLines) : Hand(S)

Spec == Init /\ [][Next]_shipperState

=============================================================================
