-------------------------- MODULE LogServerProofs ---------------------------
(***************************************************************************)
(* Proofs about module LogServer: the server contains the ingestion pool   *)
(* as module Ingester describes it, so the pool's theorems hold in the     *)
(* server; and the order of shutdown keeps Submit off a closed channel.    *)
(***************************************************************************)
EXTENDS LogServer, IngesterProofs, FiniteSetTheorems

\* Every step of the server is a step of the pool or leaves the pool alone.
LEMMA ServerStepIsPoolStep == [ServerNext]_serverVars => [Next]_ingesterVars
<1>. SUFFICES ASSUME ServerNext PROVE [Next]_ingesterVars
  BY DEF serverVars
<1>1. ASSUME NEW s \in Stream,
             OpenStream(s) \/ EndStream(s) \/ BreakStream(s) \/ FailStream(s)
      PROVE  UNCHANGED ingesterVars
  BY <1>1 DEF OpenStream, EndStream, BreakStream, FailStream
<1>2. ASSUME NEW s \in Stream, NEW e \in Entry, HandleEntry(s, e)
      PROVE  Next
  <2>. DEFINE done == stream[s] = "broken"
  <2>1. Submit(e, done) /\ done \in BOOLEAN
    BY <1>2 DEF HandleEntry
  <2>. QED  BY <2>1 DEF Next
<1>3. ASSUME NEW w \in Worker, PoolStep(w) PROVE Next
  BY <1>3 DEF PoolStep, InProcess, Next
<1>4. Signal \/ CloseIngester \/ Database => Next
  BY DEF Signal, CloseIngester, Database, Next
<1>5. BeginDrain \/ ServeFails \/ DrainTimeout \/ DrainDone \/ CloseReturns
      => UNCHANGED ingesterVars
  BY DEF BeginDrain, ServeFails, DrainTimeout, DrainDone, CloseReturns
<1>. QED  BY <1>1, <1>2, <1>3, <1>4, <1>5 DEF ServerNext

\* So the pool in the server behaves as module Ingester says.
LEMMA ServerHasPool == ServerSpec => Spec
<1>1. ServerInit => Init
  BY DEF ServerInit
<1>. QED  BY <1>1, ServerStepIsPoolStep, PTL DEF ServerSpec, Spec

\* "The pipeline never silently drops an entry", for the entries of every
\* IngestLogs stream, until the shutdown signal.
THEOREM ServerNoSilentDrop == ServerSpec => []NoLossWhileLive
  BY ServerHasPool, NoSilentDrop, PTL

-----------------------------------------------------------------------------
(* The order of shutdown.                                                  *)

\* Run returns only when every handler has.
LEMMA HandlersInTimeStep ==
  ASSUME stream \in [Stream -> Calls], HandlersInTime, [ServerNext]_serverVars
  PROVE  HandlersInTime'
<1>. USE DEF HandlersInTime
<1>1. UNCHANGED <<proc, stream>> => HandlersInTime'
  BY DEF Running
<1>2. ASSUME NEW s \in Stream,
             OpenStream(s) \/ EndStream(s) \/ BreakStream(s) \/ FailStream(s)
      PROVE  HandlersInTime'
  <2>1. proc' = proc /\ \A t \in Stream \ {s} : stream'[t] = stream[t]
    BY <1>2 DEF OpenStream, EndStream, BreakStream, FailStream
  <2>2. proc \in {"closing", "exited"} => stream'[s] \notin {"open", "broken"}
    BY <1>2 DEF OpenStream, EndStream, BreakStream, FailStream, Running
  <2>. QED  BY <2>1, <2>2 DEF Running
<1>3. ASSUME NEW s \in Stream, NEW e \in Entry, HandleEntry(s, e)
      PROVE  HandlersInTime'
  BY <1>3 DEF HandleEntry
<1>4. ASSUME NEW w \in Worker, PoolStep(w) PROVE HandlersInTime'
  BY <1>1, <1>4 DEF PoolStep, InProcess, streamVars
<1>5. CASE Signal \/ CloseIngester \/ Database \/ UNCHANGED serverVars
  BY <1>1, <1>5 DEF Signal, CloseIngester, Database, serverVars, streamVars
<1>6. CASE BeginDrain \/ ServeFails \/ CloseReturns \/ DrainDone
  BY <1>6 DEF BeginDrain, ServeFails, CloseReturns, DrainDone, HandlersReturned,
              streamVars, Running
<1>7. CASE DrainTimeout
  BY <1>7 DEF DrainTimeout
<1>. QED  BY <1>2, <1>3, <1>4, <1>5, <1>6, <1>7 DEF ServerNext

\* And only then Close runs.
ClosedAfterHandlers ==
  /\ stream \in [Stream -> Calls]
  /\ closed => proc \in {"closing", "exited"}
  /\ HandlersInTime
  /\ NoSubmitAfterClose

LEMMA ClosedAfterHandlersStep ==
  ASSUME TypeOK, ClosedAfterHandlers, [ServerNext]_serverVars
  PROVE  ClosedAfterHandlers'
<1>. USE DEF ClosedAfterHandlers
<1>0. HandlersInTime'
  BY HandlersInTimeStep
<1>1. UNCHANGED <<verdict, closed, proc, stream>> => ClosedAfterHandlers'
  BY <1>0 DEF NoSubmitAfterClose
<1>2. ASSUME NEW s \in Stream,
             OpenStream(s) \/ EndStream(s) \/ BreakStream(s) \/ FailStream(s)
      PROVE  ClosedAfterHandlers'
  <2>1. UNCHANGED <<verdict, closed, proc>>
    BY <1>2 DEF OpenStream, EndStream, BreakStream, FailStream, ingesterVars, queueVars
  <2>2. stream' \in [Stream -> Calls]
    BY <1>2 DEF OpenStream, EndStream, BreakStream, FailStream, Calls
  <2>. QED  BY <1>0, <2>1, <2>2 DEF NoSubmitAfterClose
<1>3. ASSUME NEW s \in Stream, NEW e \in Entry, HandleEntry(s, e)
      PROVE  ClosedAfterHandlers'
  <2>1. s \in Running /\ proc' = proc /\ ~closed /\ closed' = closed
    <3>1. s \in Running /\ proc' = proc /\ closed' = closed
      BY <1>3 DEF HandleEntry, Submit
    <3>. QED  BY <3>1 DEF HandlersInTime
  <2>3. NoSubmitAfterClose'
    <3>1. verdict \in [Entry -> Verdicts]
      BY DEF TypeOK, QueueTypes
    <3>2. SubmitQueued(e) \/ SubmitCtxDone(e) \/ SubmitFull(e)
      BY <1>3, <2>1 DEF HandleEntry, Submit, SubmitPanics
    <3>3. \E v \in {"accepted", "ctxDone", "full"} : verdict' = [verdict EXCEPT ![e] = v]
      BY <3>2 DEF SubmitQueued, SubmitCtxDone, SubmitFull
    <3>. QED  BY <3>1, <3>3 DEF NoSubmitAfterClose
  <2>4. stream' \in [Stream -> Calls]
    BY <1>3 DEF HandleEntry, Calls
  <2>. QED  BY <1>0, <2>1, <2>3, <2>4
<1>4. ASSUME NEW w \in Worker, PoolStep(w) PROVE ClosedAfterHandlers'
  <2>1. UNCHANGED <<verdict, closed>>
    BY <1>4 DEF PoolStep, InProcess, WorkerStep, Receive, ReceiveClosed, CtxDone, Tick,
                FlushAndReturn, Attempt, Retry, GiveUp, queueVars
  <2>. QED  BY <1>1, <1>4, <2>1 DEF PoolStep, InProcess, streamVars
<1>5. CASE Signal \/ Database \/ UNCHANGED serverVars
  BY <1>1, <1>5 DEF Signal, Cancel, Database, DbDown, DbUp, serverVars, ingesterVars,
                    queueVars, streamVars
<1>6. CASE BeginDrain \/ ServeFails \/ CloseReturns \/ DrainDone
  <2>1. UNCHANGED <<verdict, closed, stream>>
    BY <1>6 DEF BeginDrain, ServeFails, CloseReturns, DrainDone, ingesterVars,
                queueVars, streamVars
  <2>2. closed => proc' \in {"closing", "exited"}
    BY <1>6 DEF BeginDrain, ServeFails, CloseReturns, DrainDone
  <2>. QED  BY <1>0, <2>1, <2>2 DEF NoSubmitAfterClose
<1>7. CASE DrainTimeout
  <2>1. UNCHANGED <<verdict, closed>> /\ proc = "draining" /\ proc' = "forced"
    BY <1>7 DEF DrainTimeout, ingesterVars, queueVars
  <2>2. stream' \in [Stream -> Calls]
    BY <1>7 DEF DrainTimeout, Calls
  <2>. QED  BY <1>0, <2>1, <2>2 DEF NoSubmitAfterClose
<1>8. CASE CloseIngester
  <2>1. proc = "closing" /\ UNCHANGED <<proc, stream, verdict>>
    BY <1>8 DEF CloseIngester, CloseQueue, StopReturns, streamVars
  <2>. QED  BY <1>0, <2>1 DEF NoSubmitAfterClose
<1>. QED  BY <1>2, <1>3, <1>4, <1>5, <1>6, <1>7, <1>8 DEF ServerNext

\* Stop closes the channel only after the last handler returned: no Submit ever
\* sends on a closed channel.
THEOREM SubmitNeverPanics == ServerSpec => []NoSubmitAfterClose
<1>1. ServerInit => ClosedAfterHandlers
  BY DEF ServerInit, Init, ClosedAfterHandlers, HandlersInTime, NoSubmitAfterClose, Calls
<1>2. ServerSpec => []TypeOK
  BY ServerHasPool, TypeCorrect, PTL
<1>3. ClosedAfterHandlers => NoSubmitAfterClose
  BY DEF ClosedAfterHandlers
<1>. QED  BY <1>1, <1>2, <1>3, ClosedAfterHandlersStep, PTL DEF ServerSpec

-----------------------------------------------------------------------------
(* Types, and what the clients are told.                                   *)

\* The types of ServerTypeOK that are not the pool's.
CallTypes ==
  /\ proc \in Phases
  /\ stream \in [Stream -> Calls]
  /\ counted \in [Stream -> Nat]
  /\ receipt \in [Stream -> Nat \cup {NoReceipt}]

\* A handler's counter is the number of its stream's accepted entries, and a
\* client that was told a count was told that one.
CountsMatch ==
  \A s \in Stream :
    /\ IsFiniteSet(AcceptedOn(s)) /\ counted[s] = Cardinality(AcceptedOn(s))
    /\ stream[s] = "ended" => receipt[s] = counted[s]

\* What one entry does to the counters.
LEMMA HandleEntryCounts ==
  ASSUME TypeOK, CallTypes, CountsMatch,
         NEW s \in Stream, NEW e \in Entry, HandleEntry(s, e)
  PROVE  CallTypes' /\ CountsMatch'
<1>1. /\ UNCHANGED <<proc, receipt>> /\ s \in Running /\ Origin[e] = s
      /\ verdict[e] = "unsent"
      /\ stream' = [stream EXCEPT ![s] = IF verdict'[e] = "panic" THEN "failed" ELSE @]
      /\ counted' = [counted EXCEPT ![s] = IF Accepted' = Accepted THEN @ ELSE @ + 1]
  BY DEF HandleEntry, Submit, CountAccepted
<1>2. CallTypes'
  BY <1>1 DEF CallTypes, Calls
<1>3. e \notin Accepted /\ (Accepted' = Accepted \cup {e} \/ Accepted' = Accepted)
  <2>1. Submit(e, stream[s] = "broken") /\ (stream[s] = "broken") \in BOOLEAN
    BY DEF HandleEntry
  <2>. QED  BY <1>1, <2>1, SubmitMoves DEF Accepted
<1>4. ASSUME NEW t \in Stream
      PROVE  /\ IsFiniteSet(AcceptedOn(t)') /\ counted'[t] = Cardinality(AcceptedOn(t)')
             /\ stream'[t] = "ended" => receipt'[t] = counted'[t]
  <2>1. CASE t # s \/ Accepted' = Accepted
    <3>1. AcceptedOn(t)' = AcceptedOn(t)
      BY <1>1, <1>3, <2>1 DEF AcceptedOn
    <3>2. counted'[t] = counted[t] /\ (stream'[t] = "ended" => stream[t] = "ended")
      BY <1>1, <2>1 DEF CallTypes
    <3>. QED  BY <1>1, <3>1, <3>2 DEF CountsMatch
  <2>2. CASE t = s /\ Accepted' = Accepted \cup {e} /\ Accepted' # Accepted
    <3>1. AcceptedOn(s)' = AcceptedOn(s) \cup {e} /\ e \notin AcceptedOn(s)
      BY <1>1, <1>3, <2>2 DEF AcceptedOn
    <3>2. IsFiniteSet(AcceptedOn(s)) /\ counted[s] = Cardinality(AcceptedOn(s))
      BY DEF CountsMatch
    <3>3. counted'[s] = counted[s] + 1
      BY <1>1, <2>2 DEF CallTypes
    <3>4. /\ IsFiniteSet(AcceptedOn(s) \cup {e})
          /\ Cardinality(AcceptedOn(s) \cup {e}) = Cardinality(AcceptedOn(s)) + 1
      BY <3>1, <3>2, FS_AddElement
    <3>5. stream'[s] # "ended"
      BY <1>1 DEF CallTypes, Running
    <3>. QED  BY <2>2, <3>1, <3>2, <3>3, <3>4, <3>5
  <2>. QED  BY <1>3, <2>1, <2>2
<1>. QED  BY <1>2, <1>4 DEF CountsMatch

\* And what the other steps do.
LEMMA CountsStep ==
  ASSUME TypeOK, CallTypes, CountsMatch, [ServerNext]_serverVars
  PROVE  CallTypes' /\ CountsMatch'
<1>1. UNCHANGED verdict => \A s \in Stream : AcceptedOn(s)' = AcceptedOn(s)
  BY DEF AcceptedOn, Accepted
<1>2. UNCHANGED <<verdict, streamVars>> /\ proc' \in Phases => CallTypes' /\ CountsMatch'
  BY <1>1 DEF streamVars, CallTypes, CountsMatch
<1>3. ASSUME NEW s \in Stream,
             OpenStream(s) \/ BreakStream(s) \/ FailStream(s)
      PROVE  CallTypes' /\ CountsMatch'
  <2>1. /\ UNCHANGED <<verdict, proc, counted, receipt>>
        /\ \E a \in Calls \ {"ended"} : stream' = [stream EXCEPT ![s] = a]
    BY <1>3 DEF OpenStream, BreakStream, FailStream, ingesterVars, queueVars, Calls
  <2>2. CallTypes'
    BY <2>1 DEF CallTypes
  <2>3. \A t \in Stream : stream'[t] = "ended" => stream[t] = "ended"
    BY <2>1 DEF CallTypes
  <2>. QED  BY <1>1, <2>1, <2>2, <2>3 DEF CountsMatch
<1>4. ASSUME NEW s \in Stream, EndStream(s)
      PROVE  CallTypes' /\ CountsMatch'
  <2>1. /\ UNCHANGED <<verdict, proc, counted>>
        /\ stream' = [stream EXCEPT ![s] = "ended"]
        /\ receipt' = [receipt EXCEPT ![s] = counted[s]]
    BY <1>4 DEF EndStream, ingesterVars, queueVars
  <2>2. CallTypes'
    BY <2>1 DEF CallTypes, Calls
  <2>3. \A t \in Stream : stream'[t] = "ended" => receipt'[t] = counted[t]
    BY <2>1 DEF CallTypes, CountsMatch
  <2>. QED  BY <1>1, <2>1, <2>2, <2>3 DEF CountsMatch
<1>5. ASSUME NEW w \in Worker, PoolStep(w) PROVE CallTypes' /\ CountsMatch'
  <2>1. UNCHANGED <<verdict, proc, streamVars>>
    BY <1>5 DEF PoolStep, InProcess, WorkerStep, Receive, ReceiveClosed, CtxDone, Tick,
                FlushAndReturn, Attempt, Retry, GiveUp, queueVars
  <2>. QED  BY <1>2, <2>1 DEF CallTypes
<1>6. CASE Signal \/ Database \/ CloseIngester \/ UNCHANGED serverVars
  <2>1. UNCHANGED <<verdict, proc, streamVars>>
    BY <1>6 DEF Signal, Cancel, Database, DbDown, DbUp, CloseIngester, CloseQueue,
                StopReturns, serverVars, ingesterVars, queueVars, streamVars
  <2>. QED  BY <1>2, <2>1 DEF CallTypes
<1>7. CASE BeginDrain \/ ServeFails \/ DrainDone \/ CloseReturns
  BY <1>2, <1>7 DEF BeginDrain, ServeFails, DrainDone, CloseReturns, Phases,
                    ingesterVars, queueVars
<1>8. CASE DrainTimeout
  <2>1. /\ UNCHANGED <<verdict, counted, receipt>> /\ proc' = "forced"
        /\ stream' = [s \in Stream |-> IF s \in Running THEN "broken" ELSE stream[s]]
    BY <1>8 DEF DrainTimeout, ingesterVars, queueVars
  <2>2. CallTypes'
    BY <2>1 DEF CallTypes, Calls, Phases
  <2>3. \A t \in Stream : stream'[t] = "ended" => stream[t] = "ended"
    BY <2>1 DEF CallTypes
  <2>. QED  BY <1>1, <2>1, <2>2, <2>3 DEF CountsMatch
<1>. QED  BY <1>3, <1>4, <1>5, <1>6, <1>7, <1>8, HandleEntryCounts DEF ServerNext

LEMMA CountsInvariance == ServerSpec => [](TypeOK /\ CallTypes /\ CountsMatch)
<1>1. ServerInit => CallTypes /\ CountsMatch
  <2>. SUFFICES ASSUME ServerInit PROVE CallTypes /\ CountsMatch
    OBVIOUS
  <2>1. CallTypes
    BY DEF ServerInit, CallTypes, Phases, Calls
  <2>2. \A s \in Stream : AcceptedOn(s) = {} /\ counted[s] = 0 /\ stream[s] = "idle"
    BY DEF ServerInit, Init, AcceptedOn, Accepted
  <2>. QED  BY <2>1, <2>2, FS_EmptySet DEF CountsMatch
<1>2. ServerSpec => []TypeOK
  BY ServerHasPool, TypeCorrect, PTL
<1>. QED  BY <1>1, <1>2, CountsStep, PTL DEF ServerSpec

\* Every reachable state of the server is well typed, and no handler runs once Run
\* has returned nil, whether the drain was forced or not.
THEOREM ServerTypeCorrect == ServerSpec => []ServerTypeOK
<1>1. ServerInit => HandlersInTime
  BY DEF ServerInit, HandlersInTime
<1>2. CallTypes /\ HandlersInTime /\ [ServerNext]_serverVars => HandlersInTime'
  BY HandlersInTimeStep DEF CallTypes
<1>3. TypeOK /\ CallTypes /\ HandlersInTime => ServerTypeOK
  BY DEF CallTypes, ServerTypeOK
<1>. QED  BY <1>1, <1>2, <1>3, CountsInvariance, PTL DEF ServerSpec

\* IngestSummary.accepted is what Submit accepted of that stream: for any number
\* of streams and entries, whatever was dropped, and also when the process was told
\* to stop meanwhile.
THEOREM ReceiptsAreHonest == ServerSpec => []ReceiptIsHonest
<1>1. CountsMatch => ReceiptIsHonest
  BY DEF CountsMatch, ReceiptIsHonest
<1>. QED  BY <1>1, CountsInvariance, PTL

-----------------------------------------------------------------------------
(* What is written when the process has ended.                             *)

\* Close returns after Stop did.
ExitedAfterStop == proc = "exited" => stopped

LEMMA ExitedAfterStopInvariance == ServerSpec => []ExitedAfterStop
<1>1. ServerInit => ExitedAfterStop
  BY DEF ServerInit, ExitedAfterStop
<1>2. ASSUME ExitedAfterStop, [ServerNext]_serverVars PROVE ExitedAfterStop'
  <2>1. stopped => stopped'
    <3>1. [Next]_ingesterVars
      BY <1>2, ServerStepIsPoolStep
    <3>. QED  BY <3>1 DEF Next, Submit, WorkerStep, Receive, ReceiveClosed, CtxDone, Tick,
                  FlushAndReturn, Attempt, Retry, GiveUp, CloseQueue, StopReturns, Cancel,
                  DbDown, DbUp, ingesterVars, queueVars
  <2>2. CASE CloseReturns
    BY <2>1, <2>2 DEF CloseReturns, ExitedAfterStop
  <2>3. CASE UNCHANGED proc \/ BeginDrain \/ ServeFails \/ DrainTimeout \/ DrainDone
    BY <1>2, <2>1, <2>3 DEF BeginDrain, ServeFails, DrainTimeout, DrainDone, ExitedAfterStop
  <2>. QED  BY <1>2, <2>2, <2>3
            DEF ServerNext, OpenStream, EndStream, BreakStream, FailStream, HandleEntry,
                PoolStep, InProcess, Signal, CloseIngester, Database, serverVars
<1>. QED  BY <1>1, <1>2, PTL DEF ServerSpec

\* Stop returns when every worker has left, so an accepted entry is in the table,
\* in a batch that was given up, or still in the channel.
LEMMA NothingInBatchesAtExit ==
  ASSUME IInv, NothingUnwritten, ExitedAfterStop, proc = "exited"
  PROVE  Accepted \subseteq Range(ch) \cup Stored \cup givenUp
<1>1. \A w \in Worker : Exited(w) /\ batch[w] = <<>>
  BY DEF ExitedAfterStop, NothingUnwritten, IInv, Bounded
<1>2. InBatch = {}
  BY <1>1, EmptySeq DEF InBatch
<1>. QED  BY <1>2 DEF IInv, Conservation

\* "closing the pool first would make the final flush fail every time" (Close):
\* when main has returned every worker has made its last flush, so with a database
\* that never failed only what no worker received can be missing from the table.
THEOREM ExitWritesBatches == ServerSpec => []BatchesWrittenAtExit
<1>1. IInv /\ NothingUnwritten /\ ExitedAfterStop => BatchesWrittenAtExit
  BY NothingInBatchesAtExit DEF NothingUnwritten, BatchesWrittenAtExit
<1>2. ServerSpec => [](IInv /\ NothingUnwritten)
  BY ServerHasPool, Invariance, NothingUnwrittenInvariance, PTL
<1>. QED  BY <1>1, <1>2, ExitedAfterStopInvariance, PTL

\* A sequence has no more members than places.
LEMMA RangeBounded ==
  ASSUME NEW S, NEW s \in Seq(S)
  PROVE  IsFiniteSet(Range(s)) /\ Cardinality(Range(s)) <= Len(s)
<1>1. Len(s) \in Nat /\ DOMAIN s = 1..Len(s) /\ s \in [1..Len(s) -> S]
  OBVIOUS
<1>2. s \in Surjection(1..Len(s), Range(s))
  BY <1>1 DEF Surjection, Range
<1>3. IsFiniteSet(1..Len(s)) /\ Cardinality(1..Len(s)) = Len(s)
  BY <1>1, FS_Interval
<1>. QED  BY <1>2, <1>3, FS_Surjection

\* "This is the one path where a batch can still be lost" (flush): whatever the
\* database did, an orderly exit loses, beyond the batches given up, no more than
\* the channel holds, for any number of streams, workers and entries.
THEOREM LossBounded == ServerSpec => []LossFitsTheChannel
<1>1. ASSUME IInv, NothingUnwritten, ExitedAfterStop PROVE LossFitsTheChannel
  <2>. SUFFICES ASSUME proc = "exited"
                PROVE  Cardinality(Accepted \ (Stored \cup givenUp)) <= BufferSize
    BY DEF LossFitsTheChannel
  <2>. DEFINE lost == Accepted \ (Stored \cup givenUp)
  <2>1. lost \subseteq Range(ch)
    BY <1>1, NothingInBatchesAtExit
  <2>2. ch \in Seq(Entry) /\ Len(ch) <= BufferSize
    BY <1>1 DEF IInv, TypeOK, QueueTypes
  <2>3. IsFiniteSet(Range(ch)) /\ Cardinality(Range(ch)) <= Len(ch)
    BY <2>2, RangeBounded
  <2>4. Cardinality(lost) <= Cardinality(Range(ch))
    BY <2>1, <2>3, FS_Subset
  <2>5. IsFiniteSet(lost)
    BY <2>1, <2>3, FS_Subset
  <2>6. /\ Cardinality(lost) \in Nat /\ Cardinality(Range(ch)) \in Nat
        /\ Len(ch) \in Nat /\ BufferSize \in Nat
    BY <2>2, <2>3, <2>5, FS_CardinalityType, IngesterAssumption
  <2>. HIDE DEF lost
  <2>. QED  BY <2>2, <2>3, <2>4, <2>6 DEF lost
<1>2. ServerSpec => [](IInv /\ NothingUnwritten)
  BY ServerHasPool, Invariance, NothingUnwrittenInvariance, PTL
<1>. QED  BY <1>1, <1>2, ExitedAfterStopInvariance, PTL

=============================================================================
