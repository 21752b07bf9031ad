--------------------------- MODULE IngesterProofs ---------------------------
(***************************************************************************)
(* Proofs about module Ingester, for any number of entries and workers and *)
(* any batch and buffer size.                                              *)
(***************************************************************************)
EXTENDS Ingester, TLAPS

-----------------------------------------------------------------------------
(* The entries of a sequence.                                              *)

\* Nothing is in the empty sequence, the state of a fresh batch or channel.
LEMMA EmptySeq == Range(<<>>) = {} /\ IsInjective(<<>>)
  BY DEF Range, IsInjective

\* What a received or sent entry adds at the end of a batch or the channel.
LEMMA AppendSeq ==
  ASSUME NEW S, NEW s \in Seq(S), NEW e \in S
  PROVE  /\ Append(s, e) \in Seq(S)
         /\ Len(Append(s, e)) = Len(s) + 1
         /\ Range(Append(s, e)) = Range(s) \cup {e}
         /\ IsInjective(s) /\ e \notin Range(s) => IsInjective(Append(s, e))
<1>1. /\ Append(s, e) \in Seq(S) /\ Len(Append(s, e)) = Len(s) + 1
      /\ DOMAIN Append(s, e) = 1 .. Len(s) + 1 /\ DOMAIN s = 1 .. Len(s)
      /\ Len(s) \in Nat
  OBVIOUS
<1>2. /\ \A i \in 1 .. Len(s) : Append(s, e)[i] = s[i]
      /\ Append(s, e)[Len(s) + 1] = e
  OBVIOUS
<1>3. \A i \in 1 .. Len(s) + 1 : i \in 1 .. Len(s) \/ i = Len(s) + 1
  BY <1>1
<1>4. Range(Append(s, e)) = Range(s) \cup {e}
  BY <1>1, <1>2, <1>3 DEF Range
<1>5. ASSUME IsInjective(s), e \notin Range(s)
      PROVE  IsInjective(Append(s, e))
  BY <1>1, <1>2, <1>3, <1>5 DEF Range, IsInjective
<1>. QED  BY <1>1, <1>4, <1>5

\* What a receive takes from the front of the channel.
LEMMA TailSeq ==
  ASSUME NEW S, NEW s \in Seq(S), s # <<>>
  PROVE  /\ Head(s) \in S /\ Tail(s) \in Seq(S)
         /\ Len(Tail(s)) = Len(s) - 1
         /\ Range(s) = {Head(s)} \cup Range(Tail(s))
         /\ IsInjective(s) => /\ Head(s) \notin Range(Tail(s))
                              /\ IsInjective(Tail(s))
<1>1. /\ Head(s) \in S /\ Tail(s) \in Seq(S) /\ Len(Tail(s)) = Len(s) - 1
      /\ Head(s) = s[1] /\ Len(s) \in Nat /\ Len(s) > 0
      /\ DOMAIN s = 1 .. Len(s) /\ DOMAIN Tail(s) = 1 .. Len(s) - 1
  OBVIOUS
<1>2. \A i \in 1 .. Len(s) - 1 : Tail(s)[i] = s[i + 1] /\ i + 1 \in 1 .. Len(s)
  BY <1>1
<1>3. \A i \in 1 .. Len(s) : i = 1 \/ (i - 1 \in 1 .. Len(s) - 1 /\ Tail(s)[i - 1] = s[i])
  BY <1>1
<1>4. Range(s) \subseteq {Head(s)} \cup Range(Tail(s))
  <2>. SUFFICES ASSUME NEW i \in 1 .. Len(s)
                PROVE  s[i] = Head(s) \/ \E j \in DOMAIN Tail(s) : Tail(s)[j] = s[i]
    BY <1>1 DEF Range
  <2>1. CASE i = 1
    BY <1>1, <2>1
  <2>2. CASE i - 1 \in 1 .. Len(s) - 1 /\ Tail(s)[i - 1] = s[i]
    BY <1>1, <2>2, Zenon
  <2>. QED  BY <1>3, <2>1, <2>2
<1>5. {Head(s)} \cup Range(Tail(s)) \subseteq Range(s)
  BY <1>1, <1>2 DEF Range
<1>6. ASSUME IsInjective(s)
      PROVE  Head(s) \notin Range(Tail(s)) /\ IsInjective(Tail(s))
  BY <1>1, <1>2, <1>6 DEF Range, IsInjective
<1>. QED  BY <1>1, <1>4, <1>5, <1>6

\* The entries of a sequence over S are in S.
LEMMA RangeSubset ==
  ASSUME NEW S, NEW s \in Seq(S)
  PROVE  Range(s) \subseteq S /\ (s # <<>> => Range(s) # {})
  BY DEF Range

-----------------------------------------------------------------------------
(* Type correctness.                                                       *)

\* The initial state is well typed.
LEMMA InitTypes == Init => TypeOK
<1>. SUFFICES ASSUME Init PROVE TypeOK
  OBVIOUS
<1>1. verdict \in [Entry -> Verdicts] /\ closed \in BOOLEAN /\ stopped \in BOOLEAN
  BY DEF Init, Verdicts
<1>2. ch \in Seq(Entry) /\ Len(ch) <= BufferSize
  BY IngesterAssumption DEF Init
<1>3. pc \in [Worker -> Places] /\ batch \in [Worker -> Seq(Entry)]
  BY DEF Init, Places
<1>4. leaving \in [Worker -> BOOLEAN] /\ givenUp \subseteq Entry
  BY DEF Init
<1>5. DbTypes /\ cancelled \in BOOLEAN
  BY DEF Init, DbTypes
<1>. QED  BY <1>1, <1>2, <1>3, <1>4, <1>5 DEF TypeOK, QueueTypes, WorkerTypes

\* Submit keeps the types: the send is guarded by HasRoom.
LEMMA SubmitTypes ==
  ASSUME QueueTypes, NEW e \in Entry, NEW ctxDone \in BOOLEAN, Submit(e, ctxDone)
  PROVE  QueueTypes'
<1>1. Append(ch, e) \in Seq(Entry) /\ Len(Append(ch, e)) = Len(ch) + 1
  BY AppendSeq DEF QueueTypes
<1>2. ch' \in Seq(Entry) /\ Len(ch') <= BufferSize
  <2>1. CASE SubmitQueued(e)
    BY <1>1, <2>1, IngesterAssumption DEF SubmitQueued, HasRoom, QueueTypes
  <2>2. CASE ch' = ch
    BY <2>2 DEF QueueTypes
  <2>. QED  BY <2>1, <2>2 DEF Submit, SubmitCtxDone, SubmitFull, SubmitPanics
<1>3. verdict' \in [Entry -> Verdicts]
  BY DEF Submit, SubmitQueued, SubmitCtxDone, SubmitFull, SubmitPanics,
         QueueTypes, Verdicts
<1>. QED  BY <1>2, <1>3 DEF Submit, QueueTypes

\* So does a worker receiving an entry.
LEMMA ReceiveTypes ==
  ASSUME QueueTypes, WorkerTypes, NEW w \in Worker, Receive(w)
  PROVE  QueueTypes' /\ WorkerTypes'
<1>1. /\ Head(ch) \in Entry /\ Tail(ch) \in Seq(Entry)
      /\ Len(Tail(ch)) = Len(ch) - 1 /\ Len(ch) \in Nat
  BY TailSeq DEF Receive, QueueTypes
<1>2. QueueTypes'
  BY <1>1, IngesterAssumption DEF Receive, QueueTypes
<1>3. Append(batch[w], Head(ch)) \in Seq(Entry)
  BY <1>1, AppendSeq DEF WorkerTypes
<1>4. batch' \in [Worker -> Seq(Entry)] /\ pc' \in [Worker -> Places]
  BY <1>3 DEF Receive, WorkerTypes, Places
<1>. QED  BY <1>2, <1>4 DEF Receive, WorkerTypes

\* And an attempt to insert a batch.
LEMMA AttemptTypes ==
  ASSUME WorkerTypes, DbTypes, NEW w \in Worker, Attempt(w)
  PROVE  WorkerTypes' /\ DbTypes'
<1>1. ASSUME WriteRows(batch[w]) PROVE rows' \in [Entry -> Nat]
  BY <1>1 DEF WriteRows, DbTypes
<1>2. CASE InsertOk(w)
  <2>1. WorkerTypes'
    BY <1>2 DEF Attempt, InsertOk, FlushDone, WorkerTypes, Places
  <2>. QED  BY <1>1, <1>2, <2>1 DEF Attempt, InsertOk, DbTypes
<1>3. CASE InsertUnacknowledged(w)
  <2>1. WorkerTypes'
    BY <1>3 DEF Attempt, InsertUnacknowledged, WorkerTypes, Places
  <2>. QED  BY <1>1, <1>3, <2>1 DEF Attempt, InsertUnacknowledged, DbTypes
<1>4. CASE InsertFails(w)
  BY <1>4 DEF Attempt, InsertFails, WorkerTypes, DbTypes, Places
<1>. QED  BY <1>2, <1>3, <1>4 DEF Attempt

\* And the worker steps that touch neither the channel nor the table.
LEMMA WorkerOnlyTypes ==
  ASSUME WorkerTypes, NEW w \in Worker,
         ReceiveClosed(w) \/ CtxDone(w) \/ Tick(w) \/ Retry(w) \/ GiveUp(w)
  PROVE  WorkerTypes'
<1>1. CASE ReceiveClosed(w) \/ CtxDone(w)
  BY <1>1 DEF ReceiveClosed, CtxDone, FlushAndReturn, WorkerTypes, Places
<1>2. CASE Tick(w) \/ Retry(w)
  BY <1>2 DEF Tick, Retry, WorkerTypes, Places
<1>3. CASE GiveUp(w)
  <2>1. Range(batch[w]) \subseteq Entry
    BY RangeSubset DEF WorkerTypes
  <2>. QED  BY <1>3, <2>1 DEF GiveUp, FlushDone, WorkerTypes, Places
<1>. QED  BY <1>1, <1>2, <1>3

LEMMA TypeStep == TypeOK /\ [Next]_ingesterVars => TypeOK'
<1>. SUFFICES ASSUME TypeOK, [Next]_ingesterVars PROVE TypeOK'
  OBVIOUS
<1>. USE DEF TypeOK
<1>1. /\ UNCHANGED queueVars => QueueTypes'
      /\ UNCHANGED workerVars => WorkerTypes'
      /\ UNCHANGED dbVars => DbTypes'
  BY DEF queueVars, workerVars, dbVars, QueueTypes, WorkerTypes, DbTypes
<1>2. ASSUME NEW e \in Entry, NEW ctxDone \in BOOLEAN, Submit(e, ctxDone)
      PROVE  TypeOK'
  BY <1>1, <1>2, SubmitTypes DEF Submit
<1>3. ASSUME NEW w \in Worker, WorkerStep(w)
      PROVE  TypeOK'
  <2>1. CASE Receive(w)
    BY <1>1, <2>1, ReceiveTypes DEF Receive
  <2>2. CASE ReceiveClosed(w) \/ CtxDone(w) \/ Tick(w) \/ Retry(w) \/ GiveUp(w)
    <3>1. WorkerTypes'
      BY <2>2, WorkerOnlyTypes
    <3>. QED  BY <1>1, <2>2, <3>1
              DEF ReceiveClosed, CtxDone, FlushAndReturn, Tick, Retry, GiveUp
  <2>3. CASE Attempt(w)
    BY <1>1, <2>3, AttemptTypes DEF Attempt
  <2>. QED  BY <1>3, <2>1, <2>2, <2>3 DEF WorkerStep
<1>4. CASE CloseQueue \/ StopReturns
  BY <1>1, <1>4 DEF CloseQueue, StopReturns, QueueTypes
<1>5. CASE Cancel
  BY <1>1, <1>5 DEF Cancel
<1>6. CASE DbDown \/ DbUp
  <2>1. ASSUME DbDown PROVE DbTypes'
    <3>1. UNCHANGED <<rows, lostAcks>> /\ dbUp' \in BOOLEAN /\ outages' = outages + 1
      BY <2>1 DEF DbDown
    <3>. QED  BY <3>1 DEF DbTypes
  <2>2. ASSUME DbUp PROVE DbTypes'
    BY <2>2 DEF DbUp, DbTypes
  <2>. QED  BY <1>1, <1>6, <2>1, <2>2 DEF DbDown, DbUp
<1>7. CASE UNCHANGED ingesterVars
  BY <1>1, <1>7 DEF ingesterVars
<1>. QED  BY <1>2, <1>3, <1>4, <1>5, <1>6, <1>7 DEF Next

\* Every reachable state is well typed, and the channel stays within the
\* capacity New made it with.
THEOREM TypeCorrect == Spec => []TypeOK
  BY InitTypes, TypeStep, PTL DEF Spec

-----------------------------------------------------------------------------
(* The inductive invariant.                                                *)

\* A worker is on its way out only because the context is cancelled, or because
\* the channel is closed and drained; nothing is given up before cancellation.
Leavers ==
  /\ \A w \in Worker :
       /\ leaving[w] => cancelled \/ (closed /\ ch = <<>>)
       /\ Exited(w) => leaving[w]
  /\ givenUp # {} => cancelled

\* Nothing is held or written that Submit did not accept.
OnlyAccepted == Range(ch) \cup InBatch \cup Stored \subseteq Accepted

\* An entry still queued or in a batch has one row at most for each lost reply.
RowsCounted ==
  \A e \in Entry :
    /\ rows[e] <= 1 + lostAcks
    /\ e \in Range(ch) \cup InBatch => rows[e] <= lostAcks

IInv ==
  /\ TypeOK /\ Bounded /\ Leavers /\ Conservation /\ NoSharing /\ RowsCounted

-----------------------------------------------------------------------------
(* Where the entries go in the steps that move them.                       *)

\* A received entry moves from the channel to the worker's batch.
LEMMA ReceiveMoves ==
  ASSUME TypeOK, NEW w \in Worker, Receive(w)
  PROVE  /\ Head(ch) \in Entry
         /\ Range(ch) = {Head(ch)} \cup Range(ch')
         /\ Range(batch'[w]) = Range(batch[w]) \cup {Head(ch)}
         /\ \A v \in Worker \ {w} : batch'[v] = batch[v]
         /\ InBatch' = InBatch \cup {Head(ch)}
<1>1. ch \in Seq(Entry) /\ ch # <<>> /\ ch' = Tail(ch)
  BY DEF TypeOK, QueueTypes, Receive
<1>2. Head(ch) \in Entry /\ Range(ch) = {Head(ch)} \cup Range(ch')
  BY <1>1, TailSeq
<1>3. batch \in [Worker -> Seq(Entry)] /\ batch[w] \in Seq(Entry)
  BY DEF TypeOK, WorkerTypes
<1>4. /\ batch'[w] = Append(batch[w], Head(ch))
      /\ \A v \in Worker \ {w} : batch'[v] = batch[v]
  BY <1>3 DEF Receive
<1>5. Range(batch'[w]) = Range(batch[w]) \cup {Head(ch)}
  BY <1>2, <1>3, <1>4, AppendSeq
<1>6. InBatch' = InBatch \cup {Head(ch)}
  BY <1>4, <1>5 DEF InBatch
<1>. QED  BY <1>2, <1>4, <1>5, <1>6

\* A finished flush empties the worker's batch and no other.
LEMMA FlushDoneMoves ==
  ASSUME TypeOK, NEW w \in Worker, FlushDone(w)
  PROVE  /\ batch'[w] = <<>> /\ Range(batch'[w]) = {}
         /\ \A v \in Worker \ {w} : batch'[v] = batch[v]
         /\ InBatch = InBatch' \cup Range(batch[w])
         /\ NoSharing => InBatch' = InBatch \ Range(batch[w])
<1>1. batch \in [Worker -> Seq(Entry)]
  BY DEF TypeOK, WorkerTypes
<1>2. batch'[w] = <<>> /\ \A v \in Worker \ {w} : batch'[v] = batch[v]
  BY <1>1 DEF FlushDone
<1>3. Range(batch'[w]) = {}
  BY <1>2, EmptySeq
<1>4. InBatch = InBatch' \cup Range(batch[w])
  BY <1>2, <1>3 DEF InBatch
<1>5. NoSharing => InBatch' \cap Range(batch[w]) = {}
  BY <1>2, <1>3 DEF InBatch, NoSharing
<1>. QED  BY <1>2, <1>3, <1>4, <1>5

\* A submitted entry joins the channel or the channel stays as it was.
LEMMA SubmitMoves ==
  ASSUME TypeOK, NEW e \in Entry, NEW ctxDone \in BOOLEAN, Submit(e, ctxDone)
  PROVE  /\ verdict[e] = "unsent"
         /\ UNCHANGED <<workerVars, dbVars, cancelled, closed, stopped>>
         /\ \/ /\ ~closed /\ Range(ch') = Range(ch) \cup {e}
               /\ ch' = Append(ch, e)
               /\ Accepted' = Accepted \cup {e}
            \/ UNCHANGED ch /\ Accepted' = Accepted
<1>0. verdict \in [Entry -> Verdicts] /\ verdict[e] = "unsent"
  BY DEF TypeOK, QueueTypes, Submit
<1>1. CASE SubmitQueued(e)
  <2>1. ch \in Seq(Entry)
    BY DEF TypeOK, QueueTypes
  <2>2. Range(ch') = Range(ch) \cup {e}
    BY <1>1, <2>1, AppendSeq DEF SubmitQueued
  <2>3. Accepted' = Accepted \cup {e}
    BY <1>0, <1>1 DEF SubmitQueued, Accepted
  <2>. QED  BY <1>0, <1>1, <2>2, <2>3 DEF Submit, SubmitQueued
<1>2. CASE SubmitCtxDone(e) \/ SubmitFull(e) \/ SubmitPanics(e)
  <2>1. Accepted' = Accepted
    BY <1>0, <1>2 DEF SubmitCtxDone, SubmitFull, SubmitPanics, Accepted
  <2>. QED  BY <1>0, <1>2, <2>1 DEF Submit, SubmitCtxDone, SubmitFull, SubmitPanics
<1>. QED  BY <1>1, <1>2 DEF Submit

\* A committed insert adds one row for each entry of the batch.
LEMMA WriteMoves ==
  ASSUME TypeOK, NEW w \in Worker, WriteRows(batch[w])
  PROVE  /\ \A e \in Range(batch[w]) : e \in Entry /\ rows'[e] = rows[e] + 1
         /\ \A e \in Entry \ Range(batch[w]) : rows'[e] = rows[e]
         /\ Stored' = Stored \cup Range(batch[w])
<1>1. batch[w] \in Seq(Entry) /\ rows \in [Entry -> Nat]
  BY DEF TypeOK, WorkerTypes, DbTypes
<1>2. Range(batch[w]) \subseteq Entry
  BY <1>1, RangeSubset
<1>3. /\ \A e \in Range(batch[w]) : rows'[e] = rows[e] + 1
      /\ \A e \in Entry \ Range(batch[w]) : rows'[e] = rows[e]
  BY <1>2 DEF WriteRows
<1>4. Stored' = Stored \cup Range(batch[w])
  BY <1>1, <1>2, <1>3 DEF Stored
<1>. QED  BY <1>2, <1>3, <1>4

-----------------------------------------------------------------------------
(* Each conjunct of the invariant is kept by every step.                   *)

\* The initial state satisfies the invariant.
LEMMA InitInv == Init => IInv
<1>. SUFFICES ASSUME Init PROVE IInv
  OBVIOUS
<1>1. TypeOK
  BY InitTypes
<1>2. /\ \A w \in Worker : batch[w] = <<>> /\ pc[w] = "select" /\ ~leaving[w]
      /\ ch = <<>> /\ givenUp = {} /\ \A e \in Entry : rows[e] = 0 /\ lostAcks = 0
      /\ \A e \in Entry : verdict[e] # "accepted"
  BY DEF Init
<1>3. Bounded
  BY <1>2, IngesterAssumption DEF Bounded, Exited
<1>4. Leavers
  BY <1>2 DEF Leavers, Exited
<1>5. Conservation
  BY <1>2, EmptySeq DEF Conservation, InBatch, Stored, Accepted
<1>6. NoSharing
  BY <1>2, EmptySeq DEF NoSharing
<1>7. RowsCounted
  <2>. lostAcks = 0
    BY DEF Init
  <2>. QED  BY <1>2 DEF RowsCounted
<1>. QED  BY <1>1, <1>3, <1>4, <1>5, <1>6, <1>7 DEF IInv

\* A batch is flushed when it is full: no step lets one outgrow BatchSize.
LEMMA BoundedStep ==
  ASSUME TypeOK, Bounded, [Next]_ingesterVars PROVE Bounded'
<1>. USE DEF Bounded, Exited
<1>0. /\ pc \in [Worker -> Places] /\ batch \in [Worker -> Seq(Entry)]
      /\ BatchSize \in Nat \ {0}
  BY IngesterAssumption DEF TypeOK, WorkerTypes
<1>1. UNCHANGED <<pc, batch>> => Bounded'
  OBVIOUS
<1>2. ASSUME NEW w \in Worker, WorkerStep(w) PROVE Bounded'
  <2>1. CASE Receive(w)
    <3>1. Head(ch) \in Entry
      BY <2>1, ReceiveMoves
    <3>2. /\ Len(batch'[w]) = Len(batch[w]) + 1 /\ batch'[w] # <<>>
          /\ \A v \in Worker \ {w} : batch'[v] = batch[v] /\ pc'[v] = pc[v]
      BY <1>0, <2>1, <3>1, AppendSeq DEF Receive
    <3>3. pc[w] = "select" /\ Len(batch[w]) \in Nat /\ Len(batch[w]) < BatchSize
      BY <1>0, <2>1 DEF Receive
    <3>4. /\ Len(batch'[w]) >= BatchSize => pc'[w] = "insert"
          /\ ~(Len(batch'[w]) >= BatchSize) => pc'[w] = "select"
      BY <1>0, <2>1 DEF Receive, BatchFull
    <3>5. Len(batch'[w]) <= BatchSize /\ (pc'[w] = "select" => Len(batch'[w]) < BatchSize)
      BY <1>0, <3>2, <3>3, <3>4
    <3>6. pc'[w] \in {"insert", "select"}
      BY <3>4
    <3>. QED  BY <3>2, <3>5, <3>6
  <2>2. CASE ReceiveClosed(w) \/ CtxDone(w)
    BY <1>0, <2>2 DEF ReceiveClosed, CtxDone, FlushAndReturn
  <2>3. CASE Tick(w) \/ Retry(w)
    BY <1>0, <2>3 DEF Tick, Retry
  <2>4. ASSUME FlushDone(w) PROVE Bounded'
    BY <1>0, <2>4 DEF FlushDone
  <2>5. CASE Attempt(w)
    <3>1. CASE InsertOk(w)
      BY <2>4, <3>1 DEF InsertOk
    <3>2. CASE InsertUnacknowledged(w) \/ InsertFails(w)
      BY <1>0, <2>5, <3>2 DEF Attempt, InsertUnacknowledged, InsertFails
    <3>. QED  BY <2>5, <3>1, <3>2 DEF Attempt
  <2>6. CASE GiveUp(w)
    BY <2>4, <2>6 DEF GiveUp
  <2>. QED  BY <1>2, <2>1, <2>2, <2>3, <2>5, <2>6 DEF WorkerStep
<1>3. ASSUME NEW e \in Entry, NEW ctxDone \in BOOLEAN, Submit(e, ctxDone) PROVE Bounded'
  BY <1>1, <1>3 DEF Submit, workerVars
<1>4. CASE CloseQueue \/ StopReturns \/ Cancel \/ DbDown \/ DbUp \/ UNCHANGED ingesterVars
  BY <1>1, <1>4 DEF CloseQueue, StopReturns, Cancel, DbDown, DbUp, ingesterVars, workerVars
<1>. QED  BY <1>2, <1>3, <1>4 DEF Next

\* Workers leave for the two reasons worker has, and flush gives up only on a
\* cancelled context.
LEMMA LeaversStep ==
  ASSUME TypeOK, Leavers, [Next]_ingesterVars PROVE Leavers'
<1>. USE DEF Leavers, Exited
<1>0. /\ pc \in [Worker -> Places] /\ leaving \in [Worker -> BOOLEAN]
      /\ cancelled \in BOOLEAN /\ closed \in BOOLEAN
  BY DEF TypeOK, WorkerTypes, QueueTypes
<1>1. /\ UNCHANGED workerVars
      /\ cancelled => cancelled'
      /\ closed /\ ch = <<>> => closed' /\ ch' = <<>>
      => Leavers'
  BY DEF workerVars
<1>2. ASSUME NEW w \in Worker, WorkerStep(w) PROVE Leavers'
  <2>1. CASE Receive(w)
    BY <1>0, <2>1 DEF Receive
  <2>2. CASE ReceiveClosed(w) \/ CtxDone(w)
    BY <1>0, <2>2 DEF ReceiveClosed, CtxDone, FlushAndReturn, queueVars
  <2>3. CASE Tick(w) \/ Retry(w)
    BY <1>0, <2>3 DEF Tick, Retry, queueVars
  <2>4. CASE Attempt(w)
    <3>1. CASE InsertOk(w)
      BY <1>0, <2>4, <3>1 DEF Attempt, InsertOk, FlushDone, queueVars
    <3>2. CASE InsertUnacknowledged(w) \/ InsertFails(w)
      BY <1>0, <2>4, <3>2 DEF Attempt, InsertUnacknowledged, InsertFails, queueVars
    <3>. QED  BY <2>4, <3>1, <3>2 DEF Attempt
  <2>5. CASE GiveUp(w)
    BY <1>0, <2>5 DEF GiveUp, MayGiveUp, FlushDone, queueVars
  <2>. QED  BY <1>2, <2>1, <2>2, <2>3, <2>4, <2>5 DEF WorkerStep
<1>3. ASSUME NEW e \in Entry, NEW ctxDone \in BOOLEAN, Submit(e, ctxDone) PROVE Leavers'
  BY <1>1, <1>3, SubmitMoves
<1>4. CASE CloseQueue \/ StopReturns \/ Cancel \/ DbDown \/ DbUp \/ UNCHANGED ingesterVars
  BY <1>1, <1>4 DEF CloseQueue, StopReturns, Cancel, DbDown, DbUp, ingesterVars, queueVars
<1>. QED  BY <1>2, <1>3, <1>4 DEF Next

\* An accepted entry leaves a batch only for the table or for givenUp.
LEMMA ConservationStep ==
  ASSUME TypeOK, Conservation, [Next]_ingesterVars PROVE Conservation'
<1>. USE DEF Conservation
<1>1. UNCHANGED <<verdict, ch, batch, rows, givenUp>> => Conservation'
  BY DEF Accepted, InBatch, Stored
<1>2. ASSUME NEW w \in Worker, WorkerStep(w) PROVE Conservation'
  <2>1. CASE Receive(w)
    <3>1. UNCHANGED <<verdict, rows, givenUp>>
      BY <2>1 DEF Receive, dbVars
    <3>2. Accepted' = Accepted /\ Stored' = Stored
      BY <3>1 DEF Accepted, Stored
    <3>. QED  BY <2>1, <3>1, <3>2, ReceiveMoves
  <2>2. CASE ReceiveClosed(w) \/ CtxDone(w) \/ Tick(w) \/ Retry(w)
    BY <1>1, <2>2 DEF ReceiveClosed, CtxDone, FlushAndReturn, Tick, Retry,
                      queueVars, dbVars
  <2>3. CASE Attempt(w)
    <3>1. UNCHANGED <<verdict, ch, givenUp>> /\ Accepted' = Accepted
      BY <2>3 DEF Attempt, queueVars, Accepted
    <3>2. CASE InsertOk(w)
      <4>1. InBatch = InBatch' \cup Range(batch[w])
        BY <3>2, FlushDoneMoves DEF InsertOk
      <4>2. Stored' = Stored \cup Range(batch[w])
        BY <3>2, WriteMoves DEF InsertOk
      <4>. QED  BY <3>1, <4>1, <4>2
    <3>3. CASE InsertUnacknowledged(w)
      <4>1. InBatch' = InBatch /\ Range(batch[w]) \subseteq InBatch
        BY <3>3 DEF InsertUnacknowledged, InBatch
      <4>2. Stored' = Stored \cup Range(batch[w])
        BY <3>3, WriteMoves DEF InsertUnacknowledged
      <4>. QED  BY <3>1, <4>1, <4>2
    <3>4. CASE InsertFails(w)
      BY <1>1, <3>1, <3>4 DEF InsertFails
    <3>. QED  BY <2>3, <3>2, <3>3, <3>4 DEF Attempt
  <2>4. CASE GiveUp(w)
    <3>1. Accepted' = Accepted /\ Stored' = Stored /\ ch' = ch
      BY <2>4 DEF GiveUp, queueVars, dbVars, Accepted, Stored
    <3>2. InBatch = InBatch' \cup Range(batch[w])
      BY <2>4, FlushDoneMoves DEF GiveUp
    <3>. QED  BY <2>4, <3>1, <3>2 DEF GiveUp
  <2>. QED  BY <1>2, <2>1, <2>2, <2>3, <2>4 DEF WorkerStep
<1>3. ASSUME NEW e \in Entry, NEW ctxDone \in BOOLEAN, Submit(e, ctxDone)
      PROVE  Conservation'
  <2>1. UNCHANGED <<batch, rows, givenUp>>
    BY <1>3, SubmitMoves DEF workerVars, dbVars
  <2>2. InBatch' = InBatch /\ Stored' = Stored
    BY <2>1 DEF InBatch, Stored
  <2>. QED  BY <1>3, <2>1, <2>2, SubmitMoves
<1>4. CASE CloseQueue \/ StopReturns \/ Cancel \/ DbDown \/ DbUp \/ UNCHANGED ingesterVars
  BY <1>1, <1>4 DEF CloseQueue, StopReturns, Cancel, DbDown, DbUp, ingesterVars,
                    queueVars, workerVars, dbVars
<1>. QED  BY <1>2, <1>3, <1>4 DEF Next

\* What is held was accepted, so an entry not submitted yet is nowhere.
LEMMA HeldAccepted ==
  ASSUME OnlyAccepted, NEW e \in Entry, verdict[e] = "unsent"
  PROVE  e \notin Range(ch) /\ \A w \in Worker : e \notin Range(batch[w])
  BY DEF OnlyAccepted, Accepted, InBatch

\* What a step holds or writes was held before, or accepted in this step.
LEMMA OnlyAcceptedStep ==
  ASSUME TypeOK, OnlyAccepted, [Next]_ingesterVars PROVE OnlyAccepted'
<1>. USE DEF OnlyAccepted
<1>1. UNCHANGED <<verdict, ch, batch, rows>> => OnlyAccepted'
  BY DEF Accepted, InBatch, Stored
<1>2. ASSUME NEW w \in Worker, WorkerStep(w) PROVE OnlyAccepted'
  <2>1. UNCHANGED verdict /\ Accepted' = Accepted
    BY <1>2 DEF WorkerStep, Receive, ReceiveClosed, CtxDone, FlushAndReturn, Tick,
                Attempt, Retry, GiveUp, queueVars, Accepted
  <2>2. Range(batch[w]) \subseteq InBatch
    BY DEF InBatch
  <2>3. CASE Receive(w)
    <3>1. UNCHANGED rows /\ Stored' = Stored
      BY <2>3 DEF Receive, dbVars, Stored
    <3>. QED  BY <2>1, <2>3, <3>1, ReceiveMoves
  <2>4. CASE ReceiveClosed(w) \/ CtxDone(w) \/ Tick(w) \/ Retry(w)
    BY <1>1, <2>4 DEF ReceiveClosed, CtxDone, FlushAndReturn, Tick, Retry, queueVars, dbVars
  <2>5. CASE Attempt(w)
    <3>1. UNCHANGED ch
      BY <2>5 DEF Attempt, queueVars
    <3>2. CASE InsertOk(w)
      BY <2>1, <2>2, <3>1, <3>2, FlushDoneMoves, WriteMoves DEF InsertOk
    <3>3. CASE InsertUnacknowledged(w)
      <4>1. InBatch' = InBatch
        BY <3>3 DEF InsertUnacknowledged, InBatch
      <4>. QED  BY <2>1, <2>2, <3>1, <3>3, <4>1, WriteMoves DEF InsertUnacknowledged
    <3>4. CASE InsertFails(w)
      BY <1>1, <2>1, <3>1, <3>4 DEF InsertFails
    <3>. QED  BY <2>5, <3>2, <3>3, <3>4 DEF Attempt
  <2>6. CASE GiveUp(w)
    <3>1. UNCHANGED <<ch, rows>> /\ Stored' = Stored
      BY <2>6 DEF GiveUp, queueVars, dbVars, Stored
    <3>. QED  BY <2>1, <2>6, <3>1, FlushDoneMoves DEF GiveUp
  <2>. QED  BY <1>2, <2>3, <2>4, <2>5, <2>6 DEF WorkerStep
<1>3. ASSUME NEW e \in Entry, NEW ctxDone \in BOOLEAN, Submit(e, ctxDone)
      PROVE  OnlyAccepted'
  <2>1. UNCHANGED <<batch, rows>> /\ InBatch' = InBatch /\ Stored' = Stored
    BY <1>3, SubmitMoves DEF workerVars, dbVars, InBatch, Stored
  <2>. QED  BY <1>3, <2>1, SubmitMoves
<1>4. CASE CloseQueue \/ StopReturns \/ Cancel \/ DbDown \/ DbUp \/ UNCHANGED ingesterVars
  BY <1>1, <1>4 DEF CloseQueue, StopReturns, Cancel, DbDown, DbUp, ingesterVars,
                    queueVars, workerVars, dbVars
<1>. QED  BY <1>2, <1>3, <1>4 DEF Next

\* A receive moves an entry, it never copies it.
LEMMA NoSharingStep ==
  ASSUME TypeOK, OnlyAccepted, NoSharing, [Next]_ingesterVars PROVE NoSharing'
<1>. USE DEF NoSharing
<1>0. /\ batch \in [Worker -> Seq(Entry)] /\ ch \in Seq(Entry)
  BY DEF TypeOK, WorkerTypes, QueueTypes
<1>1. UNCHANGED <<ch, batch>> => NoSharing'
  OBVIOUS
<1>2. ASSUME NEW w \in Worker, WorkerStep(w) PROVE NoSharing'
  <2>1. CASE Receive(w)
    <3>1. /\ Head(ch) \in Entry
          /\ Range(ch) = {Head(ch)} \cup Range(ch')
          /\ Range(batch'[w]) = Range(batch[w]) \cup {Head(ch)}
          /\ \A v \in Worker \ {w} : batch'[v] = batch[v]
      BY <2>1, ReceiveMoves
    <3>2. Head(ch) \notin Range(ch') /\ IsInjective(ch')
      BY <1>0, <2>1, TailSeq DEF Receive
    <3>3. batch'[w] = Append(batch[w], Head(ch)) /\ batch[w] \in Seq(Entry)
      BY <1>0, <2>1 DEF Receive
    <3>4. IsInjective(batch[w]) /\ Head(ch) \notin Range(batch[w])
      BY <3>1
    <3>5. IsInjective(batch'[w])
      BY <3>1, <3>3, <3>4, AppendSeq
    <3>6. ASSUME NEW v \in Worker
          PROVE  IsInjective(batch'[v]) /\ Range(batch'[v]) \cap Range(ch') = {}
      BY <3>1, <3>2, <3>5
    <3>7. ASSUME NEW v \in Worker, NEW u \in Worker \ {v}
          PROVE  Range(batch'[v]) \cap Range(batch'[u]) = {}
      <4>1. Head(ch) \notin Range(batch[v]) /\ Head(ch) \notin Range(batch[u])
        BY <3>1
      <4>2. Range(batch[v]) \cap Range(batch[u]) = {}
        OBVIOUS
      <4>. QED  BY <3>1, <4>1, <4>2
    <3>. QED  BY <3>2, <3>6, <3>7
  <2>2. CASE ReceiveClosed(w) \/ CtxDone(w) \/ Tick(w) \/ Retry(w)
    BY <1>1, <2>2 DEF ReceiveClosed, CtxDone, FlushAndReturn, Tick, Retry, queueVars
  <2>3. ASSUME FlushDone(w), UNCHANGED ch PROVE NoSharing'
    BY <2>3, FlushDoneMoves, EmptySeq
  <2>4. CASE Attempt(w)
    BY <1>1, <2>3, <2>4 DEF Attempt, InsertOk, InsertUnacknowledged, InsertFails, queueVars
  <2>5. CASE GiveUp(w)
    BY <2>3, <2>5 DEF GiveUp, queueVars
  <2>. QED  BY <1>2, <2>1, <2>2, <2>4, <2>5 DEF WorkerStep
<1>3. ASSUME NEW e \in Entry, NEW ctxDone \in BOOLEAN, Submit(e, ctxDone)
      PROVE  NoSharing'
  <2>1. UNCHANGED batch
    BY <1>3, SubmitMoves DEF workerVars
  <2>2. e \notin Range(ch) /\ \A w \in Worker : e \notin Range(batch[w])
    BY <1>3, SubmitMoves, HeldAccepted
  <2>3. CASE UNCHANGED ch
    BY <1>1, <2>1, <2>3
  <2>4. CASE ch' = Append(ch, e) /\ Range(ch') = Range(ch) \cup {e}
    <3>1. IsInjective(ch')
      BY <1>0, <2>2, <2>4, AppendSeq
    <3>2. ASSUME NEW v \in Worker PROVE Range(batch[v]) \cap Range(ch') = {}
      <4>. Range(batch[v]) \cap Range(ch) = {} /\ e \notin Range(batch[v])
        BY <2>2
      <4>. QED  BY <2>4
    <3>3. ASSUME NEW v \in Worker
          PROVE  IsInjective(batch'[v]) /\ Range(batch'[v]) \cap Range(ch') = {}
      BY <2>1, <3>2
    <3>4. ASSUME NEW v \in Worker, NEW u \in Worker \ {v}
          PROVE  Range(batch'[v]) \cap Range(batch'[u]) = {}
      BY <2>1
    <3>. QED  BY <3>1, <3>3, <3>4
  <2>5. UNCHANGED ch \/ (ch' = Append(ch, e) /\ Range(ch') = Range(ch) \cup {e})
    BY <1>3, SubmitMoves
  <2>. QED  BY <2>3, <2>4, <2>5
<1>4. CASE CloseQueue \/ StopReturns \/ Cancel \/ DbDown \/ DbUp \/ UNCHANGED ingesterVars
  BY <1>1, <1>4 DEF CloseQueue, StopReturns, Cancel, DbDown, DbUp, ingesterVars,
                    queueVars, workerVars
<1>. QED  BY <1>2, <1>3, <1>4 DEF Next

\* A retry is the only way to write an entry again, and it follows an insert
\* whose reply was lost.
LEMMA RowsCountedStep ==
  ASSUME TypeOK, OnlyAccepted, NoSharing, RowsCounted, [Next]_ingesterVars
  PROVE  RowsCounted'
<1>. USE DEF RowsCounted
<1>0. rows \in [Entry -> Nat] /\ lostAcks \in Nat
  BY DEF TypeOK, DbTypes
<1>1. UNCHANGED <<ch, batch, rows, lostAcks>> => RowsCounted'
  BY DEF InBatch
<1>2. ASSUME NEW w \in Worker, WorkerStep(w) PROVE RowsCounted'
  <2>1. CASE Receive(w)
    <3>1. Range(ch') \cup InBatch' = Range(ch) \cup InBatch
      BY <2>1, ReceiveMoves
    <3>2. UNCHANGED <<rows, lostAcks>>
      BY <2>1 DEF Receive, dbVars
    <3>. QED  BY <3>1, <3>2
  <2>2. CASE ReceiveClosed(w) \/ CtxDone(w) \/ Tick(w) \/ Retry(w)
    BY <1>1, <2>2 DEF ReceiveClosed, CtxDone, FlushAndReturn, Tick, Retry,
                      queueVars, dbVars
  <2>3. CASE Attempt(w)
    <3>1. UNCHANGED ch
      BY <2>3 DEF Attempt, queueVars
    <3>2. CASE InsertOk(w)
      <4>1. InBatch' = InBatch \ Range(batch[w])
        BY <3>2, FlushDoneMoves DEF InsertOk
      <4>2. Range(batch[w]) \cap Range(ch) = {} /\ Range(batch[w]) \subseteq InBatch
        BY DEF NoSharing, InBatch
      <4>3. lostAcks' = lostAcks
        BY <3>2 DEF InsertOk
      <4>4. /\ \A e \in Range(batch[w]) : e \in Entry /\ rows'[e] = rows[e] + 1
            /\ \A e \in Entry \ Range(batch[w]) : rows'[e] = rows[e]
        BY <3>2, WriteMoves DEF InsertOk
      <4>5. ASSUME NEW e \in Range(batch[w])
            PROVE  rows'[e] <= 1 + lostAcks /\ e \notin Range(ch') \cup InBatch'
        BY <1>0, <3>1, <4>1, <4>2, <4>4
      <4>6. ASSUME NEW e \in Entry \ Range(batch[w])
            PROVE  /\ rows'[e] <= 1 + lostAcks
                   /\ e \in Range(ch') \cup InBatch' => rows'[e] <= lostAcks
        BY <3>1, <4>1, <4>4
      <4>. QED  BY <4>3, <4>5, <4>6
    <3>3. CASE InsertUnacknowledged(w)
      <4>1. InBatch' = InBatch /\ Range(batch[w]) \subseteq InBatch
        BY <3>3 DEF InsertUnacknowledged, InBatch
      <4>2. lostAcks' = lostAcks + 1
        BY <3>3 DEF InsertUnacknowledged
      <4>3. /\ \A e \in Range(batch[w]) : e \in Entry /\ rows'[e] = rows[e] + 1
            /\ \A e \in Entry \ Range(batch[w]) : rows'[e] = rows[e]
        BY <3>3, WriteMoves DEF InsertUnacknowledged
      <4>4. ASSUME NEW e \in Entry
            PROVE  /\ rows'[e] <= 1 + lostAcks'
                   /\ e \in Range(ch') \cup InBatch' => rows'[e] <= lostAcks'
        <5>1. rows[e] \in Nat /\ (e \in Range(ch) \cup InBatch => rows[e] <= lostAcks)
              /\ rows[e] <= 1 + lostAcks
          BY <1>0
        <5>2. CASE e \in Range(batch[w])
          BY <1>0, <3>1, <4>1, <4>2, <4>3, <5>1, <5>2
        <5>3. CASE e \notin Range(batch[w])
          BY <1>0, <3>1, <4>1, <4>2, <4>3, <5>1, <5>3
        <5>. QED  BY <5>2, <5>3
      <4>. QED  BY <4>4
    <3>4. CASE InsertFails(w)
      BY <1>1, <3>1, <3>4 DEF InsertFails
    <3>. QED  BY <2>3, <3>2, <3>3, <3>4 DEF Attempt
  <2>4. CASE GiveUp(w)
    <3>1. Range(ch') \cup InBatch' \subseteq Range(ch) \cup InBatch
      BY <2>4, FlushDoneMoves DEF GiveUp, queueVars
    <3>2. UNCHANGED <<rows, lostAcks>>
      BY <2>4 DEF GiveUp, dbVars
    <3>. QED  BY <3>1, <3>2
  <2>. QED  BY <1>2, <2>1, <2>2, <2>3, <2>4 DEF WorkerStep
<1>3. ASSUME NEW e \in Entry, NEW ctxDone \in BOOLEAN, Submit(e, ctxDone)
      PROVE  RowsCounted'
  <2>1. UNCHANGED <<batch, rows, lostAcks>> /\ InBatch' = InBatch
    BY <1>3, SubmitMoves DEF workerVars, dbVars, InBatch
  <2>2. e \notin Stored
    BY <1>3, SubmitMoves DEF OnlyAccepted, Accepted
  <2>3. rows[e] = 0
    BY <1>0, <2>2 DEF Stored
  <2>4. Range(ch') \subseteq Range(ch) \cup {e}
    BY <1>3, SubmitMoves
  <2>. QED  BY <1>0, <2>1, <2>3, <2>4
<1>4. CASE CloseQueue \/ StopReturns \/ Cancel \/ UNCHANGED ingesterVars
  BY <1>1, <1>4 DEF CloseQueue, StopReturns, Cancel, ingesterVars,
                    queueVars, workerVars, dbVars
<1>5. CASE DbDown \/ DbUp
  BY <1>1, <1>5 DEF DbDown, DbUp, queueVars, workerVars
<1>. QED  BY <1>2, <1>3, <1>4, <1>5 DEF Next

-----------------------------------------------------------------------------
(* Safety.                                                                 *)

\* The invariant holds in every reachable state.
THEOREM Invariance == Spec => []IInv
<1>1. IInv /\ [Next]_ingesterVars => IInv'
  BY TypeStep, BoundedStep, LeaversStep, ConservationStep, NoSharingStep,
     RowsCountedStep DEF IInv, Conservation, OnlyAccepted
<1>. QED  BY InitInv, <1>1, PTL DEF Spec

\* "The pipeline never silently drops an entry": while the context is live,
\* every accepted entry is stored, or held by a worker that still runs, or
\* queued with a worker left to receive it.
THEOREM NoSilentDrop == Spec => []NoLossWhileLive
<1>1. IInv => NoLossWhileLive
  <2>. SUFFICES ASSUME IInv, ~cancelled, NEW e \in Accepted, e \notin Stored
                PROVE  \E w \in Worker :
                         ~Exited(w) /\ e \in Range(ch) \cup Range(batch[w])
    BY DEF NoLossWhileLive
  <2>1. e \in Range(ch) \cup InBatch
    BY DEF IInv, Conservation, Leavers
  <2>2. CASE e \in Range(ch)
    <3>1. ch # <<>>
      BY <2>2, EmptySeq
    <3>2. PICK w \in Worker : TRUE
      BY IngesterAssumption
    <3>. QED  BY <2>2, <3>1, <3>2 DEF IInv, Leavers
  <2>3. CASE e \in InBatch
    <3>1. PICK w \in Worker : e \in Range(batch[w])
      BY <2>3 DEF InBatch
    <3>2. batch[w] # <<>>
      BY <3>1, EmptySeq
    <3>. QED  BY <3>1, <3>2 DEF IInv, Bounded
  <2>. QED  BY <2>1, <2>2, <2>3
<1>. QED  BY <1>1, Invariance, PTL

\* "no entries were duplicated" and "no two workers ever touch the same slice",
\* with the accounting of every accepted entry and the batch sizes: the other
\* invariants of module Ingester.
THEOREM SafetyInvariants ==
  Spec => [](NoSharing /\ Bounded /\ Conservation /\ DuplicatesNeedLostAcks)
<1>1. IInv => NoSharing /\ Bounded /\ Conservation /\ DuplicatesNeedLostAcks
  BY DEF IInv, RowsCounted, DuplicatesNeedLostAcks
<1>. QED  BY <1>1, Invariance, PTL

\* "Each worker owns its own batch ... no two workers ever touch the same slice"
\* (worker): with any number of workers an entry is in one place at most.
THEOREM NoEntryShared == Spec => []NoSharing
  BY SafetyInvariants, PTL

\* "flush once a batch reaches this many entries" (Config.BatchSize): no batch
\* exceeds it, and no worker returns with something in its hands.
THEOREM BatchesBounded == Spec => []Bounded
  BY SafetyInvariants, PTL

\* "no entries were duplicated" (TestFlushRetriesAndSucceeds): one row more at
\* most for every insert whose reply was lost, over any number of retries.
THEOREM RowsNeedLostAcks == Spec => []DuplicatesNeedLostAcks
  BY SafetyInvariants, PTL

-----------------------------------------------------------------------------
(* A database that never failed.                                           *)

\* Stop returns after the last worker; and if the database was never down and
\* refuses no row, an insert fails only because its reply was lost, so whatever is
\* in backoff or given up has been written.
NothingUnwritten ==
  /\ stopped => \A w \in Worker : Exited(w)
  /\ outages = 0 => dbUp
  /\ outages = 0 /\ Unstorable = {} =>
       /\ givenUp \subseteq Stored
       /\ \A w \in Worker : pc[w] = "backoff" => Range(batch[w]) \subseteq Stored

LEMMA NothingUnwrittenStep ==
  ASSUME TypeOK, NothingUnwritten, [Next]_ingesterVars
  PROVE  NothingUnwritten'
<1>. USE DEF NothingUnwritten
<1>0. /\ pc \in [Worker -> Places] /\ batch \in [Worker -> Seq(Entry)]
      /\ rows \in [Entry -> Nat] /\ outages \in Nat
  BY DEF TypeOK, WorkerTypes, DbTypes
<1>1. UNCHANGED <<pc, batch, givenUp, rows, dbUp, outages, stopped>> => NothingUnwritten'
  BY DEF Stored, Exited
<1>2. ASSUME NEW w \in Worker, WorkerStep(w) PROVE NothingUnwritten'
  <2>1. pc[w] # "exited" /\ \A v \in Worker \ {w} : pc'[v] = pc[v] /\ batch'[v] = batch[v]
    BY <1>0, <1>2 DEF WorkerStep, Receive, ReceiveClosed, Tick, CtxDone, FlushAndReturn,
                      Attempt, InsertOk, InsertUnacknowledged, InsertFails, FlushDone,
                      Retry, GiveUp
  <2>2. ~stopped /\ ~stopped' /\ UNCHANGED <<dbUp, outages>>
    BY <2>1, <1>2 DEF Exited, WorkerStep, Receive, ReceiveClosed, Tick, CtxDone,
                      FlushAndReturn, Attempt, Retry, GiveUp, queueVars, dbVars
  <2>. SUFFICES ASSUME outages = 0, Unstorable = {}
                PROVE  /\ givenUp' \subseteq Stored'
                       /\ pc'[w] = "backoff" => Range(batch'[w]) \subseteq Stored'
                       /\ Stored \subseteq Stored'
    BY <2>1, <2>2
  <2>3. CASE Receive(w) \/ ReceiveClosed(w) \/ Tick(w) \/ CtxDone(w) \/ Retry(w)
    <3>1. UNCHANGED <<rows, givenUp>> /\ pc'[w] # "backoff"
      BY <1>0, <2>3 DEF Receive, ReceiveClosed, Tick, CtxDone, FlushAndReturn, Retry, dbVars
    <3>. QED  BY <3>1 DEF Stored
  <2>4. CASE GiveUp(w)
    <3>1. /\ pc[w] = "backoff" /\ givenUp' = givenUp \cup Range(batch[w])
          /\ pc'[w] # "backoff" /\ UNCHANGED rows
      BY <1>0, <2>4 DEF GiveUp, FlushDone, dbVars
    <3>. QED  BY <3>1 DEF Stored
  <2>5. CASE Attempt(w)
    <3>1. UNCHANGED givenUp
      BY <2>5 DEF Attempt
    <3>2. CASE InsertOk(w)
      <4>1. pc'[w] # "backoff"
        BY <1>0, <3>2 DEF InsertOk, FlushDone
      <4>. QED  BY <3>1, <3>2, <4>1, WriteMoves DEF InsertOk
    <3>3. CASE InsertUnacknowledged(w)
      <4>1. UNCHANGED batch
        BY <3>3 DEF InsertUnacknowledged
      <4>. QED  BY <3>1, <3>3, <4>1, WriteMoves DEF InsertUnacknowledged
    <3>4. CASE InsertFails(w)
      BY <3>4 DEF InsertFails, Insertable
    <3>. QED  BY <2>5, <3>2, <3>3, <3>4 DEF Attempt
  <2>. QED  BY <1>2, <2>3, <2>4, <2>5 DEF WorkerStep
<1>3. ASSUME NEW e \in Entry, NEW ctxDone \in BOOLEAN, Submit(e, ctxDone)
      PROVE  NothingUnwritten'
  BY <1>1, <1>3 DEF Submit, workerVars, dbVars
<1>4. CASE CloseQueue \/ Cancel \/ UNCHANGED ingesterVars
  BY <1>1, <1>4 DEF CloseQueue, Cancel, ingesterVars, queueVars, workerVars, dbVars
<1>5. CASE StopReturns
  BY <1>5 DEF StopReturns, workerVars, dbVars, Stored, Exited
<1>6. CASE DbDown
  <2>1. outages' # 0 /\ UNCHANGED <<stopped, pc>>
    BY <1>0, <1>6 DEF DbDown, queueVars, workerVars
  <2>. QED  BY <2>1 DEF Exited
<1>7. CASE DbUp
  <2>1. outages' # 0 /\ UNCHANGED <<stopped, pc>>
    BY <1>0, <1>7 DEF DbUp, queueVars, workerVars
  <2>. QED  BY <2>1 DEF Exited
<1>. QED  BY <1>2, <1>3, <1>4, <1>5, <1>6, <1>7 DEF Next

LEMMA NothingUnwrittenInvariance == Spec => []NothingUnwritten
<1>1. Init => NothingUnwritten
  BY DEF Init, NothingUnwritten
<1>. QED  BY <1>1, NothingUnwrittenStep, TypeCorrect, PTL DEF Spec

-----------------------------------------------------------------------------
(* Refinement: the pool is a durable log.                                  *)

\* Submit accepts, a committed insert writes, a worker that gives up loses, and
\* everything else is invisible.
LEMMA LogStep == IInv /\ [Next]_ingesterVars => [Log!Next]_(Log!logVars)
<1>. SUFFICES ASSUME IInv, [Next]_ingesterVars PROVE [Log!Next]_(Log!logVars)
  OBVIOUS
<1>. USE DEF Log!Next, Log!logVars
<1>0. TypeOK /\ NoSharing /\ Conservation
  BY DEF IInv
<1>1. UNCHANGED <<verdict, rows, cancelled>> => UNCHANGED <<Accepted, Stored, cancelled>>
  BY DEF Accepted, Stored
<1>2. UNCHANGED <<verdict, rows, cancelled, ch, batch>> => UNCHANGED Log!logVars
  BY <1>1 DEF InBatch
<1>3. ASSUME NEW w \in Worker, WorkerStep(w) PROVE [Log!Next]_(Log!logVars)
  <2>1. CASE Receive(w)
    <3>1. Range(ch') \cup InBatch' = Range(ch) \cup InBatch
      BY <1>0, <2>1, ReceiveMoves
    <3>2. UNCHANGED <<verdict, rows, cancelled>>
      BY <2>1 DEF Receive, dbVars
    <3>. QED  BY <1>1, <3>1, <3>2
  <2>2. CASE ReceiveClosed(w) \/ CtxDone(w) \/ Tick(w) \/ Retry(w)
    BY <1>2, <2>2 DEF ReceiveClosed, CtxDone, FlushAndReturn, Tick, Retry,
                      queueVars, dbVars
  <2>3. DEFINE S == Range(batch[w])
  <2>4. /\ S \subseteq Range(ch) \cup InBatch
        /\ S \cap Range(ch) = {}
    BY <1>0 DEF InBatch, NoSharing
  <2>5. ASSUME FlushDone(w), UNCHANGED ch
        PROVE  Range(ch') \cup InBatch' = (Range(ch) \cup InBatch) \ S
    <3>1. InBatch' = InBatch \ S
      BY <1>0, <2>5, FlushDoneMoves
    <3>. QED  BY <2>4, <2>5, <3>1
  <2>6. CASE Attempt(w)
    <3>1. UNCHANGED <<ch, verdict, cancelled>> /\ Accepted' = Accepted
      BY <2>6 DEF Attempt, queueVars, Accepted
    <3>2. CASE InsertOk(w)
      <4>1. Stored' = Stored \cup S
        BY <1>0, <3>2, WriteMoves DEF InsertOk
      <4>2. Range(ch') \cup InBatch' = (Range(ch) \cup InBatch) \ S
        BY <2>5, <3>1, <3>2 DEF InsertOk
      <4>3. Log!Write(S)
        BY <2>4, <3>1, <4>1, <4>2 DEF Log!Write
      <4>. QED  BY <2>4, <4>3
    <3>3. CASE InsertUnacknowledged(w)
      <4>1. Stored' = Stored \cup S
        BY <1>0, <3>3, WriteMoves DEF InsertUnacknowledged
      <4>2. InBatch' = InBatch
        BY <3>3 DEF InsertUnacknowledged, InBatch
      <4>3. Log!Write(S)
        BY <2>4, <3>1, <4>1, <4>2 DEF Log!Write
      <4>. QED  BY <2>4, <4>3
    <3>4. CASE InsertFails(w)
      BY <1>2, <3>1, <3>4 DEF InsertFails
    <3>. QED  BY <2>6, <3>2, <3>3, <3>4 DEF Attempt
  <2>7. CASE GiveUp(w)
    <3>1. UNCHANGED <<verdict, rows, cancelled, ch>> /\ cancelled
      BY <2>7 DEF GiveUp, MayGiveUp, queueVars, dbVars
    <3>2. Range(ch') \cup InBatch' = (Range(ch) \cup InBatch) \ S
      BY <2>5, <2>7, <3>1 DEF GiveUp
    <3>3. Log!Lose(S)
      BY <1>1, <2>4, <3>1, <3>2 DEF Log!Lose
    <3>. QED  BY <2>4, <3>3
  <2>. QED  BY <1>3, <2>1, <2>2, <2>6, <2>7 DEF WorkerStep
<1>4. ASSUME NEW e \in Entry, NEW ctxDone \in BOOLEAN, Submit(e, ctxDone)
      PROVE  [Log!Next]_(Log!logVars)
  <2>1. UNCHANGED <<batch, rows, cancelled>> /\ verdict[e] = "unsent"
    BY <1>0, <1>4, SubmitMoves DEF workerVars, dbVars
  <2>2. InBatch' = InBatch /\ Stored' = Stored /\ e \notin Accepted
    BY <2>1 DEF InBatch, Stored, Accepted
  <2>3. \/ Range(ch') = Range(ch) \cup {e} /\ Accepted' = Accepted \cup {e}
        \/ UNCHANGED ch /\ Accepted' = Accepted
    BY <1>0, <1>4, SubmitMoves
  <2>4. CASE Range(ch') = Range(ch) \cup {e} /\ Accepted' = Accepted \cup {e}
    <3>1. Log!Accept(e)
      BY <2>1, <2>2, <2>4 DEF Log!Accept
    <3>. QED  BY <3>1
  <2>5. CASE UNCHANGED ch /\ Accepted' = Accepted
    BY <2>1, <2>2, <2>5
  <2>. QED  BY <2>3, <2>4, <2>5
<1>5. CASE Cancel
  <2>1. Accepted' = Accepted /\ Stored' = Stored /\ InBatch' = InBatch /\ ch' = ch
    BY <1>5 DEF Cancel, queueVars, workerVars, dbVars, Accepted, Stored, InBatch
  <2>2. Log!Shutdown
    BY <1>5, <2>1 DEF Cancel, Log!Shutdown
  <2>. QED  BY <2>2
<1>6. CASE CloseQueue \/ StopReturns \/ DbDown \/ DbUp \/ UNCHANGED ingesterVars
  BY <1>2, <1>6 DEF CloseQueue, StopReturns, DbDown, DbUp, ingesterVars,
                    queueVars, workerVars, dbVars
<1>. QED  BY <1>3, <1>4, <1>5, <1>6 DEF Next

\* "that is what makes a database outage survivable rather than a source of
\* silent data loss" (flush): accepted entries stay pending until they are
\* written, rows stay written, and entries are lost only after shutdown began.
THEOREM Refinement == Spec => ImplementsDurableLog
<1>1. Init => Log!Init
  <2>. SUFFICES ASSUME Init PROVE Log!Init
    OBVIOUS
  <2>1. /\ \A w \in Worker : Range(batch[w]) = {}
        /\ Range(ch) = {} /\ \A e \in Entry : verdict[e] # "accepted" /\ rows[e] = 0
    BY EmptySeq DEF Init
  <2>2. Accepted = {} /\ Range(ch) \cup InBatch = {} /\ Stored = {}
    BY <2>1 DEF Accepted, InBatch, Stored
  <2>. QED  BY <2>2 DEF Init, Log!Init
<1>. QED  BY <1>1, Invariance, LogStep, PTL DEF Spec, ImplementsDurableLog, Log!Spec

=============================================================================
