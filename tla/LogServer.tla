----------------------------- MODULE LogServer ------------------------------
(***************************************************************************)
(* The server process around the ingestion pool: the IngestLogs handlers   *)
(* (internal/adapter/grpc/log_handler.go), App.Run with its bounded drain, *)
(* App.Close (internal/app/app.go) and main (cmd/server/main.go).  The     *)
(* pool is module Ingester; its Submit, Cancel, CloseQueue and StopReturns *)
(* happen only where this code calls them.  gRPC is external: once a       *)
(* graceful stop began no stream opens, and the stop returns when every    *)
(* handler has returned.                                                   *)
(***************************************************************************)
EXTENDS Ingester, FiniteSets

CONSTANTS
  Stream,    \* IngestLogs calls
  Origin,    \* the stream each entry is sent on
  NoReceipt  \* what a client knows before it is told a count

ASSUME LogServerAssumption == Origin \in [Entry -> Stream] /\ NoReceipt \notin Nat

VARIABLES
  proc,     \* how far Run, Close and main have come
  stream,   \* each call: not made, running, its context done, or returned
  counted,  \* the handler's local variable accepted
  receipt   \* the count each client was told; NoReceipt until then

streamVars == <<stream, counted, receipt>>
serverVars == <<ingesterVars, proc, streamVars>>

\* serving: Run's select; draining: GracefulStop; forced: Stop after the
\* timeout; closing: Run returned nil; exited: main returned; fatal: log.Fatalf.
Phases  == {"serving", "draining", "forced", "closing", "exited", "fatal"}
Calls   == {"idle", "open", "broken", "ended", "failed"}

Alive   == proc \notin {"exited", "fatal"}
Running == {s \in Stream : stream[s] \in {"open", "broken"}}
AcceptedOn(s) == {e \in Accepted : Origin[e] = s}

ServerInit ==
  /\ Init
  /\ proc = "serving"
  /\ stream = [s \in Stream |-> "idle"]
  /\ counted = [s \in Stream |-> 0]
  /\ receipt = [s \in Stream |-> NoReceipt]

-----------------------------------------------------------------------------
(* IngestLogs: one handler per stream.                                     *)

OpenStream(s) ==
  /\ proc = "serving"
  /\ stream[s] = "idle"
  /\ stream' = [stream EXCEPT ![s] = "open"]
  /\ UNCHANGED <<ingesterVars, proc, counted, receipt>>

\* Mutant: the entry is counted before Submit answers.
CountEvery(s) ==
  counted' = [counted EXCEPT ![s] = @ + 1]

\* accepted++ is reached only when Submit returned nil.
CountAccepted(s) ==
  counted' = [counted EXCEPT ![s] = IF Accepted' = Accepted THEN @ ELSE @ + 1]

\* Recv returns an entry and the handler submits it.  An entry Submit refuses
\* is dropped and the stream goes on; a panic is turned into an error by the
\* recovery interceptor and ends it.
HandleEntry(s, e) ==
  /\ Alive
  /\ s \in Running /\ Origin[e] = s
  /\ Submit(e, stream[s] = "broken")
  /\ CountAccepted(s)
  /\ stream' = [stream EXCEPT ![s] = IF verdict'[e] = "panic" THEN "failed" ELSE @]
  /\ UNCHANGED <<proc, receipt>>

\* Recv returns io.EOF: SendAndClose delivers the count.
EndStream(s) ==
  /\ Alive
  /\ stream[s] = "open"
  /\ stream' = [stream EXCEPT ![s] = "ended"]
  /\ receipt' = [receipt EXCEPT ![s] = counted[s]]
  /\ UNCHANGED <<ingesterVars, proc, counted>>

\* The client cancels, its deadline passes or the connection breaks.
BreakStream(s) ==
  /\ Alive
  /\ stream[s] = "open"
  /\ stream' = [stream EXCEPT ![s] = "broken"]
  /\ UNCHANGED <<ingesterVars, proc, counted, receipt>>

\* Recv returns an error, and so does the handler.
FailStream(s) ==
  /\ Alive
  /\ stream[s] = "broken"
  /\ stream' = [stream EXCEPT ![s] = "failed"]
  /\ UNCHANGED <<ingesterVars, proc, counted, receipt>>

-----------------------------------------------------------------------------
(* main, Run and Close.                                                    *)

\* SIGTERM or Ctrl+C: the one lifecycle context is cancelled.
Signal ==
  /\ Alive
  /\ Cancel
  /\ UNCHANGED <<proc, streamVars>>

\* Run's select takes ctx.Done: NOT_SERVING, then GracefulStop.
BeginDrain ==
  /\ proc = "serving" /\ cancelled
  /\ proc' = "draining"
  /\ UNCHANGED <<ingesterVars, streamVars>>

\* Run's select takes serveErr: main calls log.Fatalf, which runs no deferred
\* function, so Close never happens.
ServeFails ==
  /\ proc = "serving"
  /\ proc' = "fatal"
  /\ UNCHANGED <<ingesterVars, streamVars>>

\* Mutant: the drain is not bounded.
DrainNeverTimesOut == FALSE /\ UNCHANGED serverVars

\* drainTimeout passed, with handlers left (a long stream, a health watcher) or
\* not: Stop closes every connection.
DrainTimeout ==
  /\ proc = "draining"
  /\ proc' = "forced"
  /\ stream' = [s \in Stream |-> IF s \in Running THEN "broken" ELSE stream[s]]
  /\ UNCHANGED <<ingesterVars, counted, receipt>>

\* Mutant: after a forced stop Run does not wait for GracefulStop (<-done).
HandlersReturnedUnlessForced == Running = {} \/ proc = "forced"

\* Mutant: a call that was cut off counts as returned.
NoCallOpen == \A s \in Stream : stream[s] # "open"

HandlersReturned == Running = {}

\* GracefulStop returned (<-done) and so does Run.
DrainDone ==
  /\ proc \in {"draining", "forced"}
  /\ HandlersReturned
  /\ proc' = "closing"
  /\ UNCHANGED <<ingesterVars, streamVars>>

\* Mutant: Stop closes the queue and does not wait.
CloseIngesterWithoutWait ==
  /\ proc = "closing" /\ ~closed
  /\ closed' = TRUE /\ stopped' = TRUE
  /\ UNCHANGED <<verdict, ch, cancelled, workerVars, dbVars, proc, streamVars>>

\* Close: Stop closes the queue and waits for the workers ...
CloseIngester ==
  /\ proc = "closing"
  /\ CloseQueue \/ StopReturns
  /\ UNCHANGED <<proc, streamVars>>

\* ... then the cache and the pool are closed and main returns.
CloseReturns ==
  /\ proc = "closing" /\ stopped
  /\ proc' = "exited"
  /\ UNCHANGED <<ingesterVars, streamVars>>

\* The workers, for as long as there is a process, and the database.
InProcess(A) == Alive /\ A /\ UNCHANGED <<proc, streamVars>>

PoolStep(w) == InProcess(WorkerStep(w))

Database ==
  /\ DbDown \/ DbUp
  /\ UNCHANGED <<proc, streamVars>>

ServerNext ==
  \/ \E s \in Stream :
       \/ OpenStream(s) \/ EndStream(s) \/ BreakStream(s) \/ FailStream(s)
       \/ \E e \in Entry : HandleEntry(s, e)
  \/ \E w \in Worker : PoolStep(w)
  \/ Signal \/ BeginDrain \/ ServeFails \/ DrainTimeout \/ DrainDone
  \/ CloseIngester \/ CloseReturns \/ Database

ServerSpec == ServerInit /\ [][ServerNext]_serverVars

\* Goroutines run, timers fire, Recv on a cancelled stream returns, and selects
\* are fair (see WorkerFairness).  No fairness for clients and the database.
ServerFairness ==
  /\ WF_serverVars(BeginDrain) /\ WF_serverVars(DrainTimeout)
  /\ WF_serverVars(DrainDone) /\ WF_serverVars(CloseIngester)
  /\ WF_serverVars(CloseReturns)
  /\ \A s \in Stream : WF_serverVars(FailStream(s))
  /\ \A w \in Worker :
       /\ WF_serverVars(InProcess(Receive(w)))
       /\ WF_serverVars(InProcess(ReceiveClosed(w)))
       /\ WF_serverVars(InProcess(Tick(w))) /\ WF_serverVars(InProcess(CtxDone(w)))
       /\ WF_serverVars(InProcess(Attempt(w))) /\ WF_serverVars(InProcess(Retry(w)))
       /\ SF_serverVars(InProcess(GiveUp(w)))

FairServerSpec == ServerSpec /\ ServerFairness

-----------------------------------------------------------------------------
(* Properties.                                                             *)

\* Types; and once Run has returned nil no handler runs, those of cut-off calls
\* included (stopGracefully).
HandlersInTime == proc \in {"closing", "exited"} => Running = {}

ServerTypeOK ==
  /\ TypeOK /\ HandlersInTime
  /\ proc \in Phases
  /\ stream \in [Stream -> Calls]
  /\ counted \in [Stream -> Nat]
  /\ receipt \in [Stream -> Nat \cup {NoReceipt}]

\* "Safe to call ... Call it once, before any Submit"; Stop closes the channel,
\* and sending on a closed channel panics: no handler submits after Close began,
\* because Run returns only when every handler has (stopGracefully).
NoSubmitAfterClose == \A e \in Entry : verdict[e] # "panic"

\* IngestSummary.accepted is the number of entries of that stream which Submit
\* accepted, whatever was dropped in between.
ReceiptIsHonest ==
  \A s \in Stream :
    stream[s] = "ended" => receipt[s] = Cardinality(AcceptedOn(s))

\* "Stop drains any in-flight batch, and that drain still needs a live
\* connection to write to" (Close): after an orderly exit with a database that
\* never failed, an accepted entry is in the table or never left the channel.
BatchesWrittenAtExit ==
  proc = "exited" /\ outages = 0 /\ Unstorable = {} =>
    Accepted \subseteq Stored \cup Range(ch)

\* "This is the one path where a batch can still be lost" (flush): what an orderly
\* exit loses beyond the batches given up, with any database, is what was in the
\* channel when ctx.Done made the workers leave, or came after.  That is never more
\* than the channel holds (Config.BufferSize): handlers that go on submitting
\* during the drain fill it once and are then refused.
LossFitsTheChannel ==
  proc = "exited" => Cardinality(Accepted \ (Stored \cup givenUp)) <= BufferSize

\* "Without a bound, one such client holds shutdown open" (drainTimeout), "a dead
\* database does not make shutdown hang forever" (flush): after the signal the
\* process ends, whatever clients and database do.
ShutdownCompletes == cancelled ~> ~Alive

\* "This is the drain that stops shutdown from losing entries" (worker), "10s
\* leaves the rest of that window for Close to flush them" (drainTimeout): after
\* an orderly exit with a database that never failed nothing accepted is lost.
DrainLosesNothing ==
  proc = "exited" /\ outages = 0 /\ Unstorable = {} => Accepted \subseteq Stored

=============================================================================
