------------------------------ MODULE Ingester ------------------------------
(***************************************************************************)
(* The log-ingestion worker pool, internal/ingest/ingester.go: a bounded   *)
(* channel that Submit sends to, and worker goroutines that receive from   *)
(* it, gather batches, and write each batch with BulkInsert, retrying with *)
(* backoff until the insert succeeds or the lifecycle context is           *)
(* cancelled.  The Postgres table is external: an attempt may succeed,     *)
(* fail, or commit and still report an error (the reply was lost).         *)
(*                                                                         *)
(* Init is the state right after Start.  The caller's side (gRPC streams,  *)
(* App.Run, App.Close) is module LogServer, which extends this one.        *)
(***************************************************************************)
EXTENDS Naturals, Sequences, Functions

CONSTANTS
  Entry,        \* log entries; each is submitted at most once
  Worker,       \* the worker goroutines
  BatchSize,    \* Config.BatchSize
  BufferSize,   \* Config.BufferSize: capacity of the channel
  Unstorable,   \* entries whose row Postgres refuses whenever it is tried
  MaxOutages,   \* bound: how often the database goes down
  MaxLostAcks   \* bound: how many committed inserts report an error

ASSUME IngesterAssumption ==
  /\ Worker # {}
  /\ BatchSize \in Nat \ {0}
  /\ BufferSize \in Nat \ {0}
  /\ Unstorable \subseteq Entry
  /\ MaxOutages \in Nat
  /\ MaxLostAcks \in Nat

VARIABLES
  verdict,    \* what Submit answered for each entry
  ch,         \* the channel's buffer
  closed,     \* close(i.ch) has run
  cancelled,  \* the context given to Start is cancelled
  stopped,    \* Stop has returned
  pc,         \* where each worker is
  batch,      \* each worker's own batch
  leaving,    \* the worker returns once its current flush is over
  rows,       \* how many rows of the logs table hold the entry
  givenUp,    \* entries of batches a worker gave up on
  dbUp,       \* the database answers
  outages,    \* outages so far
  lostAcks    \* committed inserts whose reply was lost, so far

queueVars  == <<verdict, ch, closed, stopped>>
workerVars == <<pc, batch, leaving, givenUp>>
dbVars     == <<rows, dbUp, outages, lostAcks>>
ingesterVars == <<queueVars, cancelled, workerVars, dbVars>>

Verdicts == {"unsent", "accepted", "full", "ctxDone", "panic"}
Places   == {"select", "insert", "backoff", "exited"}

Accepted == {e \in Entry : verdict[e] = "accepted"}
Stored   == {e \in Entry : rows[e] > 0}
InBatch  == UNION {Range(batch[w]) : w \in Worker}
Exited(w) == pc[w] = "exited"

Init ==
  /\ verdict = [e \in Entry |-> "unsent"]
  /\ ch = <<>>
  /\ closed = FALSE /\ cancelled = FALSE /\ stopped = FALSE
  /\ pc = [w \in Worker |-> "select"]
  /\ batch = [w \in Worker |-> <<>>]
  /\ leaving = [w \in Worker |-> FALSE]
  /\ rows = [e \in Entry |-> 0]
  /\ givenUp = {}
  /\ dbUp = TRUE /\ outages = 0 /\ lostAcks = 0

-----------------------------------------------------------------------------
(* Submit: a select over the send, the request's context and default.      *)

HasRoomOffByOne == Len(ch) <= BufferSize  \* mutant

HasRoom == Len(ch) < BufferSize

\* The send is ready: the entry is in the buffer.
SubmitQueued(e) ==
  /\ ~closed /\ HasRoom
  /\ ch' = Append(ch, e)
  /\ verdict' = [verdict EXCEPT ![e] = "accepted"]

\* The request's own context is done.  When the send is ready as well, select
\* picks either.
SubmitCtxDone(e) ==
  /\ verdict' = [verdict EXCEPT ![e] = "ctxDone"]
  /\ UNCHANGED ch

\* Nothing is ready: default, ErrBufferFull.
SubmitFull(e) ==
  /\ ~closed /\ ~HasRoom
  /\ verdict' = [verdict EXCEPT ![e] = "full"]
  /\ UNCHANGED ch

\* Sending on a closed channel panics.
SubmitPanics(e) ==
  /\ closed
  /\ verdict' = [verdict EXCEPT ![e] = "panic"]
  /\ UNCHANGED ch

Submit(e, ctxDone) ==
  /\ verdict[e] = "unsent"
  /\ \/ SubmitQueued(e)
     \/ ctxDone /\ SubmitCtxDone(e)
     \/ ~ctxDone /\ SubmitFull(e)
     \/ SubmitPanics(e)
  /\ UNCHANGED <<closed, stopped, cancelled, workerVars, dbVars>>

-----------------------------------------------------------------------------
(* worker: one select over the channel, the ticker and the context.        *)

BatchFullOffByOne(b) == Len(b) > BatchSize  \* mutant

BatchFull(b) == Len(b) >= BatchSize

\* Mutant: one slice captured by every worker's goroutine.
ReceiveIntoSharedSlice(w) ==
  /\ pc[w] = "select"
  /\ ch # <<>>
  /\ ch' = Tail(ch)
  /\ batch' = [v \in Worker |-> Append(batch[v], Head(ch))]
  /\ pc' = [pc EXCEPT ![w] = IF BatchFull(batch'[w]) THEN "insert" ELSE "select"]
  /\ UNCHANGED <<verdict, closed, stopped, cancelled, leaving, givenUp, dbVars>>

\* A received entry joins the worker's batch; a full batch is flushed.
Receive(w) ==
  /\ pc[w] = "select"
  /\ ch # <<>>
  /\ ch' = Tail(ch)
  /\ batch' = [batch EXCEPT ![w] = Append(@, Head(ch))]
  /\ pc' = [pc EXCEPT ![w] = IF BatchFull(batch'[w]) THEN "insert" ELSE "select"]
  /\ UNCHANGED <<verdict, closed, stopped, cancelled, leaving, givenUp, dbVars>>

\* Mutant: the worker returns without its last flush.
ReturnWithoutFlush(w) ==
  /\ pc' = [pc EXCEPT ![w] = "exited"]
  /\ leaving' = [leaving EXCEPT ![w] = TRUE]
  /\ UNCHANGED <<queueVars, cancelled, batch, givenUp, dbVars>>

\* flush returns at once on an empty batch.
FlushAndReturn(w) ==
  /\ pc' = [pc EXCEPT ![w] = IF batch[w] = <<>> THEN "exited" ELSE "insert"]
  /\ leaving' = [leaving EXCEPT ![w] = TRUE]
  /\ UNCHANGED <<queueVars, cancelled, batch, givenUp, dbVars>>

\* Mutant: a closed channel is noticed only with something left to flush.
ReceiveClosedUnlessIdle(w) ==
  /\ pc[w] = "select"
  /\ closed /\ ch = <<>> /\ batch[w] # <<>>
  /\ FlushAndReturn(w)

\* The channel is closed AND empty: the buffered entries are received first.
ReceiveClosed(w) ==
  /\ pc[w] = "select"
  /\ closed /\ ch = <<>>
  /\ FlushAndReturn(w)

\* Mutant: the interval alone does not flush.
TickOnlyWhenFull(w) ==
  /\ pc[w] = "select"
  /\ BatchFull(batch[w])
  /\ pc' = [pc EXCEPT ![w] = "insert"]
  /\ UNCHANGED <<queueVars, cancelled, batch, leaving, givenUp, dbVars>>

\* The ticker fires.  An empty batch is left alone.
Tick(w) ==
  /\ pc[w] = "select"
  /\ batch[w] # <<>>
  /\ pc' = [pc EXCEPT ![w] = "insert"]
  /\ UNCHANGED <<queueVars, cancelled, batch, leaving, givenUp, dbVars>>

\* ctx.Done is ready: the worker leaves whatever is still in the channel.
CtxDone(w) ==
  /\ pc[w] = "select"
  /\ cancelled
  /\ FlushAndReturn(w)

-----------------------------------------------------------------------------
(* flush: attempts of BulkInsert with a backoff wait between them.         *)

WriteRows(b) ==
  rows' = [e \in Entry |-> IF e \in Range(b) THEN rows[e] + 1 ELSE rows[e]]

\* One COPY inserts every row of the batch or none of them.
Insertable(w) == dbUp /\ Range(batch[w]) \cap Unstorable = {}

\* Mutant: flush's fresh batch is not assigned.
FlushDoneKeepsBatch(w) ==
  /\ UNCHANGED batch
  /\ pc' = [pc EXCEPT ![w] = IF leaving[w] THEN "exited" ELSE "select"]

\* Back to the loop with a fresh batch, or out of the worker.
FlushDone(w) ==
  /\ batch' = [batch EXCEPT ![w] = <<>>]
  /\ pc' = [pc EXCEPT ![w] = IF leaving[w] THEN "exited" ELSE "select"]

InsertOk(w) ==
  /\ Insertable(w)
  /\ WriteRows(batch[w])
  /\ FlushDone(w)
  /\ UNCHANGED lostAcks

\* The rows are committed, but the attempt's timeout or the connection ended
\* before the reply: the worker sees an error.
InsertUnacknowledged(w) ==
  /\ Insertable(w)
  /\ lostAcks < MaxLostAcks
  /\ WriteRows(batch[w])
  /\ lostAcks' = lostAcks + 1
  /\ pc' = [pc EXCEPT ![w] = "backoff"]
  /\ UNCHANGED batch

\* Mutant: the batch is cleared although the insert failed.
InsertFailsDropsBatch(w) ==
  /\ ~Insertable(w)
  /\ FlushDone(w)
  /\ UNCHANGED <<rows, lostAcks>>

InsertFails(w) ==
  /\ ~Insertable(w)
  /\ pc' = [pc EXCEPT ![w] = "backoff"]
  /\ UNCHANGED <<batch, rows, lostAcks>>

Attempt(w) ==
  /\ pc[w] = "insert"
  /\ InsertOk(w) \/ InsertUnacknowledged(w) \/ InsertFails(w)
  /\ UNCHANGED <<queueVars, cancelled, leaving, givenUp, dbUp, outages>>

Retry(w) ==
  /\ pc[w] = "backoff"
  /\ pc' = [pc EXCEPT ![w] = "insert"]
  /\ UNCHANGED <<queueVars, cancelled, batch, leaving, givenUp, dbVars>>

MayAlwaysGiveUp == TRUE  \* mutant
MayNeverGiveUp == FALSE  \* mutant

MayGiveUp == cancelled

\* The context is done during the backoff wait: the batch is dropped.  A
\* worker that was not leaving goes back to its loop.
GiveUp(w) ==
  /\ pc[w] = "backoff"
  /\ MayGiveUp
  /\ givenUp' = givenUp \cup Range(batch[w])
  /\ FlushDone(w)
  /\ UNCHANGED <<queueVars, cancelled, leaving, dbVars>>

WorkerStep(w) ==
  \/ Receive(w) \/ ReceiveClosed(w) \/ Tick(w) \/ CtxDone(w)
  \/ Attempt(w) \/ Retry(w) \/ GiveUp(w)

-----------------------------------------------------------------------------
(* Stop, the lifecycle context, and the database.                          *)

\* Stop, first half: close(i.ch), once.
CloseQueue ==
  /\ ~closed
  /\ closed' = TRUE
  /\ UNCHANGED <<verdict, ch, stopped, cancelled, workerVars, dbVars>>

\* Stop, second half: wg.Wait() returns.
StopReturns ==
  /\ closed /\ ~stopped
  /\ \A w \in Worker : Exited(w)
  /\ stopped' = TRUE
  /\ UNCHANGED <<verdict, ch, closed, cancelled, workerVars, dbVars>>

Cancel ==
  /\ ~cancelled
  /\ cancelled' = TRUE
  /\ UNCHANGED <<queueVars, workerVars, dbVars>>

DbDown ==
  /\ dbUp /\ outages < MaxOutages
  /\ dbUp' = FALSE
  /\ outages' = outages + 1
  /\ UNCHANGED <<queueVars, cancelled, workerVars, rows, lostAcks>>

DbUp ==
  /\ ~dbUp
  /\ dbUp' = TRUE
  /\ UNCHANGED <<queueVars, cancelled, workerVars, rows, outages, lostAcks>>

Next ==
  \/ \E e \in Entry, ctxDone \in BOOLEAN : Submit(e, ctxDone)
  \/ \E w \in Worker : WorkerStep(w)
  \/ CloseQueue \/ StopReturns \/ Cancel \/ DbDown \/ DbUp

Spec == Init /\ [][Next]_ingesterVars

\* Goroutines are scheduled, tickers and backoff timers fire, an attempt ends
\* within its 10s timeout.  Two cases of a select that stay ready are chosen
\* among at random, so one that is ready again and again is eventually taken:
\* strong fairness for GiveUp, which competes with Retry.
WorkerFairness ==
  \A w \in Worker :
    /\ WF_ingesterVars(Receive(w)) /\ WF_ingesterVars(ReceiveClosed(w))
    /\ WF_ingesterVars(Tick(w)) /\ WF_ingesterVars(CtxDone(w))
    /\ WF_ingesterVars(Attempt(w)) /\ WF_ingesterVars(Retry(w))
    /\ SF_ingesterVars(GiveUp(w))

FairSpec == Spec /\ WorkerFairness /\ WF_ingesterVars(StopReturns)

-----------------------------------------------------------------------------
(* Properties.                                                             *)

QueueTypes ==
  /\ verdict \in [Entry -> Verdicts]
  /\ ch \in Seq(Entry) /\ Len(ch) <= BufferSize
  /\ closed \in BOOLEAN /\ stopped \in BOOLEAN

WorkerTypes ==
  /\ pc \in [Worker -> Places]
  /\ batch \in [Worker -> Seq(Entry)]
  /\ leaving \in [Worker -> BOOLEAN]
  /\ givenUp \subseteq Entry

DbTypes ==
  /\ rows \in [Entry -> Nat]
  /\ dbUp \in BOOLEAN /\ outages \in Nat /\ lostAcks \in Nat

\* Types, and the channel within the capacity it was made with (Config.BufferSize).
TypeOK == QueueTypes /\ WorkerTypes /\ DbTypes /\ cancelled \in BOOLEAN

\* "Each worker owns its own batch ... no two workers ever touch the same
\* slice" (worker): an entry is in at most one place, and once in that place.
NoSharing ==
  /\ IsInjective(ch)
  /\ \A w \in Worker :
       /\ IsInjective(batch[w])
       /\ Range(batch[w]) \cap Range(ch) = {}
       /\ \A v \in Worker \ {w} : Range(batch[w]) \cap Range(batch[v]) = {}

\* "flush once a batch reaches this many entries" (Config.BatchSize): a batch
\* never exceeds BatchSize, a worker in its loop holds less than a full one, one
\* inside flush has something to write, and one that returned holds nothing.
Bounded ==
  \A w \in Worker :
    /\ Len(batch[w]) <= BatchSize
    /\ pc[w] = "select" => Len(batch[w]) < BatchSize
    /\ pc[w] \in {"insert", "backoff"} => batch[w] # <<>>
    /\ Exited(w) => batch[w] = <<>>

\* "The pipeline never silently drops an entry" (ErrBufferFull): as long as the
\* lifecycle context is live, an entry Submit accepted is in the table, or held
\* by a worker that still runs, or queued with a worker left to receive it.
NoLossWhileLive ==
  ~cancelled =>
    \A e \in Accepted :
      \/ e \in Stored
      \/ \E w \in Worker : ~Exited(w) /\ e \in Range(ch) \cup Range(batch[w])

\* After shutdown too, nothing vanishes without trace: every accepted entry is
\* queued, in a batch, stored, or in a batch some worker gave up on, and none
\* of these ever holds an entry Submit refused.
Conservation == Accepted = Range(ch) \cup InBatch \cup Stored \cup givenUp

\* "no entries were duplicated" (TestFlushRetriesAndSucceeds): an entry has one
\* row, plus at most one for each insert whose reply was lost.
DuplicatesNeedLostAcks == \A e \in Entry : rows[e] <= 1 + lostAcks

\* "Keep the batch until the insert succeeds", "no lost logs" (LOG_PIPELINE_
\* ROADMAP): the pool implements the abstract log of module DurableLog.
Log == INSTANCE DurableLog WITH
         accepted <- Accepted, pending <- Range(ch) \cup InBatch,
         stored <- Stored, shutdown <- cancelled

ImplementsDurableLog == Log!Spec

\* "No stall after recovery - once the database is back, the backlog drains"
\* (LOG_PIPELINE_ROADMAP): with a database that is eventually back for good and
\* no shutdown, every accepted entry Postgres can store is eventually stored.
BacklogDrains ==
  (<>[]dbUp /\ []~cancelled) =>
    \A e \in Entry \ Unstorable : (verdict[e] = "accepted") ~> (rows[e] > 0)

\* "retrying must not hang shutdown forever" (TestFlushGivesUpOnShutdown...):
\* Stop returns once the context is cancelled, whatever the database does.
StopReturnsOnceCancelled == (closed /\ cancelled) ~> stopped

\* "will block here until the repository recovers" (Stop): without cancellation
\* Stop still returns if the database is eventually back for good.
StopReturnsOnceRecovered == <>[]dbUp => (closed ~> stopped)

=============================================================================
