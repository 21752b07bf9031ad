--------------------------- MODULE PipelineProofs ---------------------------
(***************************************************************************)
(* Proofs about module Pipeline, for any number of lines, calls, workers   *)
(* and mishaps: the saved position never passes a line nobody accounts     *)
(* for; agent, server and table together keep the promise of module        *)
(* Delivery; and the rows of a line are limited by the mishaps.            *)
(***************************************************************************)
EXTENDS Pipeline, LogServerProofs, Extrema

-----------------------------------------------------------------------------
(* The invariant.                                                          *)

\* What PipelineTypeOK says of the agent.
AgentTypes ==
  /\ at \in {"collect", "ready", "call"}
  /\ saved \in 0..shipped /\ shipped \in 0..read /\ read \in 0..MaxLines
  /\ call \in Call \cup {0} /\ (call # 0 <=> at = "call")
  /\ mishaps \in 0..MaxMishaps

ServerInv == TypeOK /\ CallTypes /\ CountsMatch /\ HandlersInTime

Settled == Accepted \cup Refused

\* A call that ended well has seen each of its lines accepted or refused.
LinesHandled ==
  /\ content \in [Call -> SUBSET Line]
  /\ \A c \in Call :
       /\ stream[c] = "idle" => \A l \in Line : verdict[<<l, c>>] = "unsent"
       /\ stream[c] = "open" =>
            \A l \in content[c] : verdict[<<l, c>>] \in {"unsent", "accepted", "full"}
       /\ stream[c] = "ended" =>
            \A l \in content[c] : verdict[<<l, c>>] \in {"accepted", "full"}

\* The call the shipper waits for carries the lines after its position, which has
\* only passed lines that were accepted or refused.
PositionSettled ==
  /\ at # "collect" => shipped < read
  /\ at = "call" => content[call] = (shipped + 1)..read /\ stream[call] # "idle"
  /\ 1..shipped \subseteq LinesOf(Settled)

\* An accepted entry is somewhere: conservation, over restarts of the server.
Whereabouts == Stored \cup Range(ch) \cup InBatch \cup givenUp
Traced == Accepted \subseteq Whereabouts \cup vanished

PInv == ServerInv /\ AgentTypes /\ LinesHandled /\ PositionSettled /\ Traced

-----------------------------------------------------------------------------
(* Steps of the server inside the pipeline.                                *)

\* The kill of the process.
Crash == Alive /\ proc' = "fatal" /\ UNCHANGED <<ingesterVars, streamVars>>

\* Giving a call up touches its stream only.
LEMMA HangupMoves ==
  ASSUME PInv, Hangup
  PROVE  /\ [ServerNext]_serverVars
         /\ UNCHANGED <<ingesterVars, proc, counted, receipt>>
         /\ \A c \in Call : stream'[c] = stream[c] \/ stream'[c] = "broken"
<1>1. CASE call # 0 /\ BreakStream(call)
  <2>1. call \in Stream
    BY <1>1 DEF PInv, AgentTypes, Call
  <2>. QED  BY <1>1, <2>1 DEF ServerNext, BreakStream, Call, PInv, ServerInv, CallTypes
<1>2. CASE UNCHANGED serverVars
  BY <1>2 DEF serverVars, streamVars
<1>. QED  BY <1>1, <1>2 DEF Hangup

\* What the pipeline does to the server is a step of the server, a kill, or the
\* start of a new process.
LEMMA ServerSteps ==
  ASSUME PInv, [PipelineNext]_pipelineVars
  PROVE  [ServerNext]_serverVars \/ Crash \/ ServerStarts
<1>1. CASE Gather \/ CallOk \/ UNCHANGED pipelineVars
  BY <1>1 DEF Gather, CallOk, pipelineVars
<1>2. CASE StartCall
  BY <1>2 DEF StartCall, ServerNext, Call
<1>3. CASE CallFails \/ CallTimesOut \/ AgentRestart
  BY <1>3, HangupMoves DEF CallFails, CallTimesOut, AgentRestart
<1>4. ASSUME NEW c \in Call, HandleNext(c) \/ Answer(c)
      PROVE  ServerNext
  <2>1. CASE HandleNext(c)
    <3>1. PICK l \in NextOf(c) : HandleEntry(c, <<l, c>>)
      BY <2>1 DEF HandleNext
    <3>2. <<l, c>> \in Entry
      BY <3>1, PipelineAssumption DEF NextOf, PInv, LinesHandled
    <3>. QED  BY <3>1, <3>2 DEF ServerNext, Call
  <2>2. CASE Answer(c)
    BY <2>2 DEF Answer, ServerNext, Call
  <2>. QED  BY <1>4, <2>1, <2>2
<1>5. CASE ServerStep
  BY <1>5 DEF ServerStep, InServer, ProcessStep, ServerNext, Call
<1>6. CASE Shutdown
  BY <1>6 DEF Shutdown, ServerNext
<1>7. CASE ServerDies
  BY <1>7 DEF ServerDies, ServerNext, Crash
<1>. QED  BY <1>1, <1>2, <1>3, <1>4, <1>5, <1>6, <1>7 DEF PipelineNext, AgentStep

\* A new process has empty hands.
LEMMA StartMoves ==
  ASSUME TypeOK, ServerStarts
  PROVE  /\ ~Alive /\ Alive' /\ ~cancelled'
         /\ Range(ch') \cup InBatch' = {} /\ TypeOK'
         /\ UNCHANGED <<verdict, rows, givenUp>>
         /\ vanished' = vanished \cup Range(ch) \cup InBatch
<1>1. /\ ~Alive /\ proc' = "serving" /\ ~cancelled'
      /\ ch' = <<>> /\ batch' = [w \in Worker |-> <<>>]
      /\ closed' = FALSE /\ stopped' = FALSE /\ cancelled' = FALSE
      /\ pc' = [w \in Worker |-> "select"] /\ leaving' = [w \in Worker |-> FALSE]
      /\ UNCHANGED <<verdict, givenUp, rows, dbUp, outages, lostAcks>>
      /\ vanished' = vanished \cup Range(ch) \cup InBatch
  BY DEF ServerStarts, dbVars
<1>2. QueueTypes'
  <2>1. ch' \in Seq(Entry) /\ Len(ch') <= BufferSize
    BY <1>1, IngesterAssumption
  <2>. QED  BY <1>1, <2>1 DEF TypeOK, QueueTypes
<1>3. WorkerTypes' /\ DbTypes' /\ cancelled' \in BOOLEAN
  <2>1. pc' \in [Worker -> Places] /\ batch' \in [Worker -> Seq(Entry)]
    BY <1>1 DEF Places
  <2>2. leaving' \in [Worker -> BOOLEAN] /\ cancelled' \in BOOLEAN
    BY <1>1
  <2>. QED  BY <1>1, <2>1, <2>2 DEF TypeOK, WorkerTypes, DbTypes
<1>4. \A w \in Worker : Range(batch'[w]) = {}
  BY <1>1, EmptySeq
<1>. QED  BY <1>1, <1>2, <1>3, <1>4, EmptySeq DEF TypeOK, InBatch, Alive

LEMMA ServerInvStep ==
  ASSUME PInv, [PipelineNext]_pipelineVars
  PROVE  ServerInv'
<1>. USE DEF ServerInv
<1>0. TypeOK /\ CallTypes /\ CountsMatch /\ HandlersInTime
  BY DEF PInv
<1>1. CASE [ServerNext]_serverVars
  BY <1>0, <1>1, CountsStep, HandlersInTimeStep, ServerStepIsPoolStep, TypeStep DEF CallTypes
<1>2. CASE Crash
  <2>1. TypeOK'
    BY <1>0, <1>2 DEF Crash, ingesterVars, queueVars, workerVars, dbVars, TypeOK,
                      QueueTypes, WorkerTypes, DbTypes
  <2>2. \A s \in Stream : AcceptedOn(s)' = AcceptedOn(s)
    BY <1>2 DEF Crash, ingesterVars, queueVars, AcceptedOn, Accepted
  <2>3. HandlersInTime'
    BY <1>2 DEF Crash, HandlersInTime
  <2>. QED  BY <1>0, <1>2, <2>1, <2>2, <2>3 DEF Crash, streamVars, CallTypes, CountsMatch, Phases
<1>3. CASE ServerStarts
  <2>1. TypeOK' /\ UNCHANGED verdict
    BY <1>0, <1>3, StartMoves
  <2>2. \A s \in Stream : AcceptedOn(s)' = AcceptedOn(s)
    BY <2>1 DEF AcceptedOn, Accepted
  <2>3. /\ UNCHANGED <<counted, receipt>> /\ proc' = "serving"
        /\ stream' = [c \in Call |-> IF c \in Running THEN "failed" ELSE stream[c]]
    BY <1>3 DEF ServerStarts
  <2>4. CallTypes'
    BY <1>0, <2>3 DEF CallTypes, Phases, Calls, Call
  <2>5. \A s \in Stream : stream'[s] = "ended" => stream[s] = "ended"
    BY <2>3 DEF Call
  <2>6. HandlersInTime'
    BY <2>3 DEF HandlersInTime
  <2>. QED  BY <1>0, <2>1, <2>2, <2>3, <2>4, <2>5, <2>6 DEF CountsMatch
<1>. QED  BY <1>1, <1>2, <1>3, ServerSteps

-----------------------------------------------------------------------------
(* The agent.                                                              *)

\* Counting a mishap keeps the bound.
LEMMA MishapBound ==
  ASSUME PInv, Mishap
  PROVE  mishaps' \in 0..MaxMishaps
<1>1. /\ outages \in Nat /\ lostAcks \in Nat /\ mishaps \in 0..MaxMishaps
      /\ mishaps' = mishaps + 1 /\ mishaps' + outages + lostAcks <= MaxMishaps
  BY DEF PInv, AgentTypes, ServerInv, TypeOK, DbTypes, Mishap
<1>2. MaxMishaps \in Nat
  BY PipelineAssumption
<1>. QED  BY <1>1, <1>2

LEMMA AgentTypesStep ==
  ASSUME PInv, [PipelineNext]_pipelineVars
  PROVE  AgentTypes'
<1>. USE DEF AgentTypes
<1>0. /\ AgentTypes /\ outages \in Nat /\ lostAcks \in Nat
      /\ MaxLines \in Nat /\ AgentBatch \in Nat
  <2>1. MaxLines \in Nat /\ AgentBatch \in Nat
    BY PipelineAssumption
  <2>. QED  BY <2>1 DEF PInv, ServerInv, TypeOK, DbTypes
<1>1. UNCHANGED agentVars /\ mishaps' \in 0..MaxMishaps => AgentTypes'
  BY <1>0 DEF agentVars
<1>2. CASE Gather
  BY <1>0, <1>2 DEF Gather
<1>3. CASE StartCall
  <2>1. 0 \notin Call
    BY PipelineAssumption DEF Call
  <2>. QED  BY <1>0, <1>3, <2>1 DEF StartCall
<1>4. CASE CallOk
  BY <1>0, <1>4, MishapBound DEF CallOk, CommitPosition
<1>5. CASE CallFails \/ CallTimesOut
  BY <1>0, <1>5, MishapBound DEF CallFails, CallTimesOut, Hangup
<1>6. CASE AgentRestart
  BY <1>0, <1>6, MishapBound DEF AgentRestart, Hangup, ResumeFromSaved
<1>7. CASE (\E c \in Call : HandleNext(c) \/ Answer(c)) \/ ServerStep \/ Shutdown
           \/ ServerDies \/ ServerStarts \/ UNCHANGED pipelineVars
  <2>1. UNCHANGED agentVars
    BY <1>7 DEF HandleNext, Answer, ServerStep, InServer, Shutdown, ServerDies,
                ServerStarts, OfServer, pipelineVars, agentVars
  <2>2. mishaps' = mishaps \/ Mishap
    BY <1>7 DEF HandleNext, Answer, ServerStep, InServer, Shutdown, ServerDies,
                ServerStarts, pipelineVars
  <2>. QED  BY <1>0, <1>1, <2>1, <2>2, MishapBound
<1>. QED  BY <1>2, <1>3, <1>4, <1>5, <1>6, <1>7 DEF PipelineNext, AgentStep

-----------------------------------------------------------------------------
(* What is known of an entry never gets lost.                              *)

\* A step of the pool keeps what it has and takes in what it accepts.
LEMMA PoolTraces ==
  ASSUME TypeOK, [Next]_ingesterVars
  PROVE  /\ Whereabouts \subseteq Whereabouts'
         /\ Accepted' \subseteq Accepted \cup Whereabouts'
<1>. USE DEF Whereabouts
<1>1. UNCHANGED verdict => Accepted' = Accepted
  BY DEF Accepted
<1>2. UNCHANGED <<ch, batch, rows, givenUp>> => Whereabouts' = Whereabouts
  BY DEF InBatch, Stored
<1>3. ASSUME NEW w \in Worker, WorkerStep(w)
      PROVE  Whereabouts \subseteq Whereabouts' /\ UNCHANGED verdict
  <2>1. UNCHANGED verdict
    BY <1>3 DEF WorkerStep, Receive, ReceiveClosed, CtxDone, FlushAndReturn, Tick, Attempt,
                Retry, GiveUp, queueVars
  <2>2. CASE Receive(w)
    <3>1. UNCHANGED givenUp /\ Stored' = Stored
      BY <2>2 DEF Receive, dbVars, Stored
    <3>. QED  BY <2>1, <2>2, <3>1, ReceiveMoves
  <2>3. CASE ReceiveClosed(w) \/ CtxDone(w) \/ Tick(w) \/ Retry(w)
    BY <1>2, <2>1, <2>3 DEF ReceiveClosed, CtxDone, FlushAndReturn, Tick, Retry,
                            queueVars, dbVars
  <2>4. CASE Attempt(w)
    <3>1. UNCHANGED <<ch, givenUp>>
      BY <2>4 DEF Attempt, queueVars
    <3>2. CASE InsertOk(w)
      <4>1. InBatch = InBatch' \cup Range(batch[w])
        BY <3>2, FlushDoneMoves DEF InsertOk
      <4>2. Stored' = Stored \cup Range(batch[w])
        BY <3>2, WriteMoves DEF InsertOk
      <4>. QED  BY <2>1, <3>1, <4>1, <4>2
    <3>3. CASE InsertUnacknowledged(w)
      <4>1. InBatch' = InBatch
        BY <3>3 DEF InsertUnacknowledged, InBatch
      <4>2. Stored' = Stored \cup Range(batch[w])
        BY <3>3, WriteMoves DEF InsertUnacknowledged
      <4>. QED  BY <2>1, <3>1, <4>1, <4>2
    <3>4. CASE InsertFails(w)
      BY <1>2, <2>1, <3>1, <3>4 DEF InsertFails
    <3>. QED  BY <2>4, <3>2, <3>3, <3>4 DEF Attempt
  <2>5. CASE GiveUp(w)
    <3>1. UNCHANGED ch /\ Stored' = Stored
      BY <2>5 DEF GiveUp, queueVars, dbVars, Stored
    <3>2. InBatch = InBatch' \cup Range(batch[w])
      BY <2>5, FlushDoneMoves DEF GiveUp
    <3>. QED  BY <2>1, <2>5, <3>1, <3>2 DEF GiveUp
  <2>. QED  BY <1>3, <2>1, <2>2, <2>3, <2>4, <2>5 DEF WorkerStep
<1>4. ASSUME NEW e \in Entry, NEW ctxDone \in BOOLEAN, Submit(e, ctxDone)
      PROVE  /\ Whereabouts \subseteq Whereabouts'
             /\ Accepted' \subseteq Accepted \cup Whereabouts'
  <2>1. UNCHANGED <<batch, rows, givenUp>>
    BY <1>4, SubmitMoves DEF workerVars, dbVars
  <2>2. InBatch' = InBatch /\ Stored' = Stored
    BY <2>1 DEF InBatch, Stored
  <2>. QED  BY <1>4, <2>1, <2>2, SubmitMoves
<1>5. CASE CloseQueue \/ StopReturns \/ Cancel \/ DbDown \/ DbUp \/ UNCHANGED ingesterVars
  BY <1>1, <1>2, <1>5 DEF CloseQueue, StopReturns, Cancel, DbDown, DbUp, ingesterVars,
                          queueVars, workerVars, dbVars
<1>. QED  BY <1>1, <1>3, <1>4, <1>5 DEF Next

LEMMA TracedStep ==
  ASSUME PInv, [PipelineNext]_pipelineVars
  PROVE  Traced'
<1>0. TypeOK /\ Traced
  BY DEF PInv, ServerInv
<1>1. CASE ServerStarts
  <2>1. Accepted' = Accepted /\ Stored' = Stored /\ UNCHANGED givenUp
    BY <1>0, <1>1, StartMoves DEF Accepted, Stored
  <2>. QED  BY <1>0, <1>1, <2>1, StartMoves DEF Traced, Whereabouts
<1>2. CASE ~ServerStarts
  <2>1. UNCHANGED vanished
    BY <1>2 DEF PipelineNext, AgentStep, Gather, StartCall, CallOk, CallFails, CallTimesOut,
                AgentRestart, HandleNext, Answer, ServerStep, InServer, Shutdown, ServerDies,
                OfServer, pipelineVars
  <2>2. [Next]_ingesterVars
    BY <1>2, ServerSteps, ServerStepIsPoolStep DEF Crash
  <2>. QED  BY <1>0, <2>1, <2>2, PoolTraces DEF Traced
<1>. QED  BY <1>1, <1>2

-----------------------------------------------------------------------------
(* Calls and positions.                                                    *)

\* What Submit may answer.
LEMMA SubmitAnswers ==
  ASSUME TypeOK, NEW e \in Entry, NEW d \in BOOLEAN, Submit(e, d)
  PROVE  /\ verdict[e] = "unsent"
         /\ \A f \in Entry \ {e} : verdict'[f] = verdict[f]
         /\ \/ verdict'[e] \in {"accepted", "full"}
            \/ d /\ verdict'[e] = "ctxDone"
            \/ verdict'[e] = "panic"
  BY DEF Submit, SubmitQueued, SubmitCtxDone, SubmitFull, SubmitPanics, TypeOK, QueueTypes

\* A verdict is final.
LEMMA SettledGrows ==
  ASSUME TypeOK, [Next]_ingesterVars
  PROVE  Settled \subseteq Settled'
<1>1. UNCHANGED verdict => Settled' = Settled
  BY DEF Settled, Accepted, Refused
<1>2. ASSUME NEW w \in Worker, WorkerStep(w) PROVE UNCHANGED verdict
  BY <1>2 DEF WorkerStep, Receive, ReceiveClosed, CtxDone, FlushAndReturn, Tick, Attempt,
              Retry, GiveUp, queueVars
<1>3. ASSUME NEW e \in Entry, NEW d \in BOOLEAN, Submit(e, d)
      PROVE  Settled \subseteq Settled'
  BY <1>3, SubmitAnswers DEF Settled, Accepted, Refused
<1>4. CASE CloseQueue \/ StopReturns \/ Cancel \/ DbDown \/ DbUp \/ UNCHANGED ingesterVars
  BY <1>1, <1>4 DEF CloseQueue, StopReturns, Cancel, DbDown, DbUp, ingesterVars, queueVars
<1>. QED  BY <1>1, <1>2, <1>3, <1>4 DEF Next

LEMMA SettledStep ==
  ASSUME PInv, [PipelineNext]_pipelineVars
  PROVE  Settled \subseteq Settled'
<1>1. CASE ServerStarts
  BY <1>1, StartMoves DEF PInv, ServerInv, Settled, Accepted, Refused
<1>2. CASE ~ServerStarts
  BY <1>2, ServerSteps, ServerStepIsPoolStep, SettledGrows DEF Crash, PInv, ServerInv
<1>. QED  BY <1>1, <1>2

\* Apart from StartCall, HandleNext and Answer, a step answers no entry, and a
\* stream stays as it is or goes wrong.
Quiet ==
  /\ UNCHANGED <<verdict, content>>
  /\ \A c \in Call : stream'[c] = stream[c] \/ stream'[c] \in {"broken", "failed"}

LEMMA QuietSteps ==
  ASSUME PInv, [PipelineNext]_pipelineVars
  PROVE  Quiet \/ StartCall \/ \E c \in Call : HandleNext(c) \/ Answer(c)
<1>. USE DEF Quiet
<1>0. stream \in [Stream -> Calls]
  BY DEF PInv, ServerInv, CallTypes
<1>1. CASE Gather \/ CallOk \/ UNCHANGED pipelineVars
  BY <1>1 DEF Gather, CallOk, pipelineVars, serverVars, streamVars, ingesterVars, queueVars
<1>2. CASE CallFails \/ CallTimesOut \/ AgentRestart
  BY <1>2, HangupMoves DEF CallFails, CallTimesOut, AgentRestart, ingesterVars, queueVars
<1>3. CASE ServerStep
  <2>1. UNCHANGED content
    BY <1>3 DEF ServerStep, InServer, OfServer
  <2>2. CASE \E c \in Call : FailStream(c)
    BY <1>0, <2>1, <2>2 DEF FailStream, Call, ingesterVars, queueVars
  <2>3. CASE BeginDrain \/ DrainDone \/ CloseIngester \/ CloseReturns \/ Database
    BY <2>1, <2>3 DEF BeginDrain, DrainDone, CloseIngester, CloseReturns, CloseQueue,
                      StopReturns, Database, DbDown, DbUp, streamVars, ingesterVars, queueVars
  <2>4. CASE DrainTimeout
    BY <2>1, <2>4 DEF DrainTimeout, Call, ingesterVars, queueVars
  <2>5. CASE \E w \in Worker : PoolStep(w)
    BY <2>1, <2>5 DEF PoolStep, InProcess, WorkerStep, Receive, ReceiveClosed, CtxDone,
                      FlushAndReturn, Tick, Attempt, Retry, GiveUp, streamVars, queueVars
  <2>. QED  BY <1>3, <2>2, <2>3, <2>4, <2>5 DEF ServerStep, InServer, ProcessStep
<1>4. CASE Shutdown \/ ServerDies
  BY <1>4 DEF Shutdown, Signal, Cancel, ServerDies, ServeFails, OfServer, streamVars,
              ingesterVars, queueVars
<1>5. CASE ServerStarts
  BY <1>5 DEF ServerStarts, Call
<1>. QED  BY <1>1, <1>2, <1>3, <1>4, <1>5 DEF PipelineNext, AgentStep

\* The lines of a call that are still to come have a first one.
LEMMA AllHandledMeans ==
  ASSUME NEW c \in Call, content[c] \subseteq Line, AllHandled(c)
  PROVE  \A l \in content[c] : verdict[<<l, c>>] # "unsent"
<1>. DEFINE S == {l \in content[c] : verdict[<<l, c>>] = "unsent"}
<1>1. S \in SUBSET Nat
  BY PipelineAssumption DEF Line
<1>2. CASE S # {}
  <2>1. PICK m \in S : \A k \in S : m <= k
    <3>. HIDE DEF S
    <3>. QED  BY <1>1, <1>2, LeastOf
  <2>2. \A k \in content[c] : k < m => verdict[<<k, c>>] # "unsent"
    BY <1>1, <2>1
  <2>3. m \in NextOf(c)
    BY <2>1, <2>2 DEF NextOf
  <2>. QED  BY <2>3 DEF AllHandled
<1>. QED  BY <1>2

LEMMA LinesHandledStep ==
  ASSUME PInv, [PipelineNext]_pipelineVars
  PROVE  LinesHandled'
<1>. USE DEF LinesHandled
<1>0. /\ LinesHandled /\ stream \in [Stream -> Calls]
      /\ verdict \in [Entry -> Verdicts] /\ TypeOK
  BY DEF PInv, ServerInv, CallTypes, TypeOK, QueueTypes
<1>1. CASE Quiet
  BY <1>0, <1>1 DEF Quiet
<1>2. CASE StartCall
  <2>1. PICK c \in Call : /\ OpenStream(c)
                          /\ content' = [content EXCEPT ![c] = (shipped + 1)..read]
    BY <1>2 DEF StartCall
  <2>2. /\ UNCHANGED verdict /\ stream[c] = "idle"
        /\ stream' = [stream EXCEPT ![c] = "open"]
    BY <2>1 DEF OpenStream, ingesterVars, queueVars
  <2>3. (shipped + 1)..read \subseteq Line
    BY PipelineAssumption DEF Line, PInv, AgentTypes
  <2>. QED  BY <1>0, <2>1, <2>2, <2>3 DEF Call
<1>3. ASSUME NEW c \in Call, HandleNext(c) PROVE LinesHandled'
  <2>1. PICK l \in NextOf(c) : HandleEntry(c, <<l, c>>)
    BY <1>3 DEF HandleNext
  <2>. DEFINE e == <<l, c>>
              d == stream[c] = "broken"
  <2>2. e \in Entry /\ l \in content[c] /\ d \in BOOLEAN /\ Submit(e, d)
    BY <1>0, <2>1, PipelineAssumption DEF NextOf, HandleEntry
  <2>3. /\ c \in Running /\ UNCHANGED content
        /\ stream' = [stream EXCEPT ![c] = IF verdict'[e] = "panic" THEN "failed" ELSE @]
    BY <1>3, <2>1 DEF HandleNext, HandleEntry, OfServer
  <2>4. /\ \A f \in Entry \ {e} : verdict'[f] = verdict[f]
        /\ \/ verdict'[e] \in {"accepted", "full"}
           \/ d /\ verdict'[e] = "ctxDone"
           \/ verdict'[e] = "panic"
    BY <1>0, <2>2, SubmitAnswers
  <2>5. ASSUME NEW b \in Call, NEW k \in Line, <<k, b>> # e
        PROVE  verdict'[<<k, b>>] = verdict[<<k, b>>]
    <3>1. <<k, b>> \in Entry
      BY PipelineAssumption
    <3>. QED  BY <2>4, <2>5, <3>1
  <2>6. \A b \in Call \ {c} : stream'[b] = stream[b]
    BY <1>0, <2>3 DEF Call
  <2>7. stream[c] \in {"open", "broken"}
    BY <2>3 DEF Running
  <2>8. stream'[c] = IF verdict'[e] = "panic" THEN "failed" ELSE stream[c]
    BY <1>0, <2>3 DEF Call
  <2>9. ASSUME NEW b \in Call
        PROVE  /\ stream'[b] = "idle" => \A k \in Line : verdict'[<<k, b>>] = "unsent"
               /\ stream'[b] = "open" =>
                    \A k \in content[b] : verdict'[<<k, b>>] \in {"unsent", "accepted", "full"}
               /\ stream'[b] = "ended" =>
                    \A k \in content[b] : verdict'[<<k, b>>] \in {"accepted", "full"}
    <3>1. CASE b = c
      <4>1. stream'[c] = "open" => stream[c] = "open" /\ verdict'[e] \in {"accepted", "full"}
        BY <2>4, <2>7, <2>8
      <4>. QED  BY <1>0, <2>5, <2>7, <2>8, <3>1, <4>1
    <3>2. CASE b # c
      BY <1>0, <2>5, <2>6, <3>2
    <3>. QED  BY <3>1, <3>2
  <2>. QED  BY <1>0, <2>3, <2>9
<1>4. ASSUME NEW c \in Call, Answer(c) PROVE LinesHandled'
  <2>1. /\ UNCHANGED <<verdict, content>> /\ stream[c] = "open"
        /\ stream' = [stream EXCEPT ![c] = "ended"]
    BY <1>4 DEF Answer, EndStream, OfServer, ingesterVars, queueVars
  <2>2. \A l \in content[c] : verdict[<<l, c>>] # "unsent"
    BY <1>0, <1>4, AllHandledMeans DEF Answer
  <2>. QED  BY <1>0, <2>1, <2>2 DEF Call
<1>. QED  BY <1>1, <1>2, <1>3, <1>4, QuietSteps

LEMMA PositionSettledStep ==
  ASSUME PInv, [PipelineNext]_pipelineVars
  PROVE  PositionSettled'
<1>. USE DEF PositionSettled
<1>0. PositionSettled /\ AgentTypes /\ LinesHandled /\ stream \in [Stream -> Calls]
  BY DEF PInv, ServerInv, CallTypes
<1>1. LinesOf(Settled) \subseteq LinesOf(Settled')
  BY SettledStep DEF LinesOf
<1>2. /\ shipped \in Nat /\ read \in Nat /\ saved \in 0..shipped /\ shipped <= read
      /\ MaxLines \in Nat
  <2>1. MaxLines \in Nat
    BY PipelineAssumption
  <2>. QED  BY <1>0, <2>1 DEF AgentTypes
<1>3. CASE Gather
  BY <1>0, <1>1, <1>2, <1>3, PipelineAssumption DEF Gather
<1>4. CASE StartCall
  <2>1. PICK c \in Call : /\ OpenStream(c) /\ call' = c
                          /\ content' = [content EXCEPT ![c] = (shipped + 1)..read]
    BY <1>4 DEF StartCall
  <2>2. stream'[c] = "open" /\ content'[c] = (shipped + 1)..read
    BY <1>0, <2>1 DEF OpenStream, Call, LinesHandled
  <2>. QED  BY <1>0, <1>1, <1>4, <2>1, <2>2 DEF StartCall
<1>5. CASE CallOk
  <2>1. ASSUME NEW l \in 1..read PROVE l \in LinesOf(Settled)
    <3>1. CASE l <= shipped
      BY <1>0, <1>2, <3>1
    <3>2. CASE l > shipped
      <4>1. call \in Call /\ stream[call] = "ended" /\ l \in content[call]
        BY <1>0, <1>2, <1>5, <3>2 DEF CallOk, AgentTypes
      <4>2. <<l, call>> \in Entry
        BY <1>0, <4>1, PipelineAssumption DEF LinesHandled
      <4>3. <<l, call>> \in Settled
        BY <1>0, <4>1, <4>2 DEF LinesHandled, Settled, Accepted, Refused
      <4>. QED  BY <4>3 DEF LinesOf
    <3>. QED  BY <1>2, <3>1, <3>2
  <2>. QED  BY <1>1, <1>5, <2>1 DEF CallOk, CommitPosition
<1>6. CASE CallFails \/ CallTimesOut
  BY <1>0, <1>1, <1>6 DEF CallFails, CallTimesOut
<1>7. CASE AgentRestart
  BY <1>0, <1>1, <1>2, <1>7 DEF AgentRestart, ResumeFromSaved
<1>8. CASE (\E c \in Call : HandleNext(c) \/ Answer(c)) \/ ServerStep \/ Shutdown
           \/ ServerDies \/ ServerStarts \/ UNCHANGED pipelineVars
  <2>1. UNCHANGED <<at, shipped, read, call, content>>
    BY <1>8 DEF HandleNext, Answer, ServerStep, InServer, Shutdown, ServerDies,
                ServerStarts, OfServer, pipelineVars, agentVars
  <2>2. \A c \in Call : stream[c] # "idle" => stream'[c] # "idle"
    <3>1. CASE Quiet
      BY <3>1 DEF Quiet
    <3>2. ASSUME NEW c \in Call, HandleNext(c) \/ Answer(c)
          PROVE  \A b \in Call : stream[b] # "idle" => stream'[b] # "idle"
      BY <1>0, <3>2 DEF HandleNext, HandleEntry, Answer, EndStream, Call
    <3>3. CASE StartCall
      BY <1>0, <3>3 DEF StartCall, OpenStream, Call
    <3>. QED  BY <3>1, <3>2, <3>3, QuietSteps
  <2>3. at = "call" => call \in Call
    BY <1>0 DEF AgentTypes
  <2>. QED  BY <1>0, <1>1, <2>1, <2>2, <2>3
<1>. QED  BY <1>3, <1>4, <1>5, <1>6, <1>7, <1>8 DEF PipelineNext, AgentStep

LEMMA PipelineInvariance == PipelineSpec => []PInv
<1>1. ASSUME PipelineInit PROVE PInv
  <2>1. ServerInv
    <3>1. ServerInit
      BY <1>1 DEF PipelineInit
    <3>2. TypeOK
      BY <3>1, InitTypes DEF ServerInit
    <3>3. \A s \in Stream : AcceptedOn(s) = {} /\ counted[s] = 0 /\ stream[s] = "idle"
      BY <3>1 DEF ServerInit, Init, AcceptedOn, Accepted
    <3>. QED  BY <3>1, <3>2, <3>3, FS_EmptySet
              DEF ServerInv, ServerInit, CallTypes, CountsMatch, HandlersInTime, Phases, Calls
  <2>2. AgentTypes
    BY <1>1, PipelineAssumption DEF PipelineInit, AgentTypes
  <2>3. \A c \in Call : stream[c] = "idle" /\ \A l \in Line : verdict[<<l, c>>] = "unsent"
    BY <1>1, PipelineAssumption DEF PipelineInit, ServerInit, Init, Call
  <2>4. LinesHandled /\ PositionSettled
    BY <1>1, <2>3 DEF PipelineInit, LinesHandled, PositionSettled
  <2>5. Accepted = {}
    BY <1>1 DEF PipelineInit, ServerInit, Init, Accepted
  <2>. QED  BY <2>1, <2>2, <2>4, <2>5 DEF PInv, Traced
<1>2. PInv /\ [PipelineNext]_pipelineVars => PInv'
  BY ServerInvStep, AgentTypesStep, LinesHandledStep, PositionSettledStep, TracedStep
     DEF PInv
<1>. QED  BY <1>1, <1>2, PTL DEF PipelineSpec

\* Every reachable state of the pipeline is well typed, and the agent's positions
\* are in order: on disk, in memory, read.
THEOREM PipelineTypeCorrect == PipelineSpec => []PipelineTypeOK
<1>1. PInv => PipelineTypeOK
  BY DEF PInv, ServerInv, CallTypes, AgentTypes, PipelineTypeOK, ServerTypeOK
<1>. QED  BY <1>1, PipelineInvariance, PTL

\* "Only after that receipt is it safe to save the batch's file positions"
\* (Shipper): over timeouts, lost receipts, crashes and restarts of both sides, a
\* line behind the saved position is stored or held, or was refused by a full
\* buffer, or let go by a process that ended or was told to stop.
THEOREM NothingSkipped == PipelineSpec => []SavedLinesAccountedFor
<1>1. ASSUME PInv PROVE SavedLinesAccountedFor
  <2>1. 1..saved \subseteq LinesOf(Settled)
    BY <1>1 DEF PInv, AgentTypes, PositionSettled
  <2>2. Settled \subseteq Stored \cup Memory \cup Refused \cup Gone
    BY <1>1 DEF PInv, Traced, Whereabouts, Settled, Memory, Gone
  <2>. QED  BY <2>1, <2>2 DEF SavedLinesAccountedFor, LinesOf
<1>. QED  BY <1>1, PipelineInvariance, PTL

-----------------------------------------------------------------------------
(* Refinement: agent, server and table keep the promise of module Delivery. *)

DeliveryStep == [Promise!Next]_(Promise!deliveryVars)

\* What the promise does not see.
LEMMA Invisible ==
  ASSUME UNCHANGED <<verdict, Memory, Stored, Alive, cancelled, saved>>
  PROVE  DeliveryStep
<1>1. Accepted' = Accepted /\ Refused' = Refused
  BY DEF Accepted, Refused
<1>. QED  BY <1>1 DEF DeliveryStep, Promise!deliveryVars

\* A worker's step stores a batch, loses it after the signal, or moves entries
\* within the memory.
LEMMA WorkerDelivers ==
  ASSUME PInv, NEW w \in Worker, PoolStep(w), UNCHANGED saved
  PROVE  DeliveryStep
<1>. DEFINE S == Range(batch[w])
<1>0. TypeOK /\ Alive /\ WorkerStep(w) /\ UNCHANGED proc
  BY DEF PInv, ServerInv, PoolStep, InProcess
<1>1. Alive' /\ UNCHANGED <<verdict, cancelled>>
  BY <1>0 DEF Alive, WorkerStep, Receive, ReceiveClosed, CtxDone, FlushAndReturn, Tick,
              Attempt, Retry, GiveUp, queueVars
<1>2. /\ Accepted' = Accepted /\ Refused' = Refused
      /\ Memory = Range(ch) \cup InBatch /\ Memory' = Range(ch') \cup InBatch'
  BY <1>0, <1>1 DEF Accepted, Refused, Memory
<1>3. S \subseteq Memory
  BY <1>2 DEF InBatch
<1>4. ASSUME Memory' \subseteq Memory, Memory \subseteq Memory' \cup S,
             Stored' = Stored \cup S
      PROVE  DeliveryStep
  <2>. DEFINE H == LinesOf(S)
              T == LinesOf(Memory) \ LinesOf(Memory')
  <2>1. /\ H \in SUBSET LinesOf(Memory) /\ T \in SUBSET H
        /\ LinesOf(Memory') = LinesOf(Memory) \ T
        /\ LinesOf(Stored') = LinesOf(Stored) \cup H
    BY <1>3, <1>4 DEF LinesOf
  <2>2. Promise!Store(H)
    <3>. HIDE DEF H, T
    <3>. QED  BY <1>0, <1>1, <1>2, <2>1 DEF Promise!Store
  <2>. QED  BY <2>1, <2>2 DEF DeliveryStep, Promise!Next
<1>5. ASSUME Memory' = Memory, Stored' = Stored
      PROVE  DeliveryStep
  BY <1>0, <1>1, <1>5, Invisible
<1>6. CASE Receive(w)
  <2>1. Stored' = Stored
    BY <1>6 DEF Receive, dbVars, Stored
  <2>. QED  BY <1>0, <1>2, <1>5, <1>6, <2>1, ReceiveMoves
<1>7. CASE ReceiveClosed(w) \/ CtxDone(w) \/ Tick(w) \/ Retry(w)
  <2>1. UNCHANGED <<ch, batch, rows>>
    BY <1>7 DEF ReceiveClosed, CtxDone, FlushAndReturn, Tick, Retry, queueVars, dbVars
  <2>. QED  BY <1>2, <1>5, <2>1 DEF InBatch, Stored
<1>8. CASE Attempt(w)
  <2>1. UNCHANGED ch
    BY <1>8 DEF Attempt, queueVars
  <2>2. CASE InsertOk(w)
    <3>1. InBatch = InBatch' \cup S
      BY <1>0, <2>2, FlushDoneMoves DEF InsertOk
    <3>2. Stored' = Stored \cup S
      BY <1>0, <2>2, WriteMoves DEF InsertOk
    <3>. QED  BY <1>2, <1>4, <2>1, <3>1, <3>2
  <2>3. CASE InsertUnacknowledged(w)
    <3>1. InBatch' = InBatch
      BY <2>3 DEF InsertUnacknowledged, InBatch
    <3>2. Stored' = Stored \cup S
      BY <1>0, <2>3, WriteMoves DEF InsertUnacknowledged
    <3>. QED  BY <1>2, <1>4, <2>1, <3>1, <3>2
  <2>4. CASE InsertFails(w)
    BY <1>2, <1>5, <2>1, <2>4 DEF InsertFails, InBatch, Stored
  <2>. QED  BY <1>8, <2>2, <2>3, <2>4 DEF Attempt
<1>9. CASE GiveUp(w)
  <2>1. cancelled /\ UNCHANGED ch /\ Stored' = Stored
    BY <1>9 DEF GiveUp, MayGiveUp, queueVars, dbVars, Stored
  <2>2. InBatch = InBatch' \cup S
    BY <1>0, <1>9, FlushDoneMoves DEF GiveUp
  <2>. DEFINE T == LinesOf(Memory) \ LinesOf(Memory')
  <2>3. T \in SUBSET LinesOf(Memory) /\ LinesOf(Memory') = LinesOf(Memory) \ T
    BY <1>2, <2>1, <2>2 DEF LinesOf
  <2>4. Promise!Lose(T)
    <3>. HIDE DEF T
    <3>. QED  BY <1>0, <1>1, <1>2, <2>1, <2>3 DEF Promise!Lose
  <2>. QED  BY <2>3, <2>4 DEF DeliveryStep, Promise!Next
<1>. QED  BY <1>0, <1>6, <1>7, <1>8, <1>9 DEF WorkerStep

\* One more entry is one more line.
LEMMA LinesOfAdd ==
  ASSUME NEW E, NEW l, NEW c
  PROVE  LinesOf(E \cup {<<l, c>>}) = LinesOf(E) \cup {l}
<1>1. <<l, c>>[1] = l
  OBVIOUS
<1>2. ASSUME NEW x \in LinesOf(E \cup {<<l, c>>}) PROVE x \in LinesOf(E) \cup {l}
  <2>1. PICK f \in E \cup {<<l, c>>} : x = f[1]
    BY <1>2 DEF LinesOf
  <2>2. CASE f \in E
    BY <2>1, <2>2 DEF LinesOf
  <2>3. CASE f = <<l, c>>
    BY <1>1, <2>1, <2>3
  <2>. QED  BY <2>1, <2>2, <2>3
<1>3. ASSUME NEW x \in LinesOf(E) PROVE x \in LinesOf(E \cup {<<l, c>>})
  BY <1>3 DEF LinesOf
<1>4. l \in LinesOf(E \cup {<<l, c>>})
  BY <1>1, Zenon DEF LinesOf
<1>. QED  BY <1>2, <1>3, <1>4

\* A handled entry is handed over, or refused for the context's sake.
LEMMA HandlerDelivers ==
  ASSUME PInv, NEW c \in Call, HandleNext(c)
  PROVE  DeliveryStep
<1>1. PICK l \in NextOf(c) : HandleEntry(c, <<l, c>>)
  BY DEF HandleNext
<1>. DEFINE e == <<l, c>>
            d == stream[c] = "broken"
<1>2. /\ e \in Entry /\ l \in 1..MaxLines /\ d \in BOOLEAN /\ Submit(e, d) /\ TypeOK
      /\ Alive /\ Alive' /\ UNCHANGED <<saved, cancelled>>
  <2>1. l \in Line
    BY <1>1 DEF NextOf, PInv, LinesHandled
  <2>2. e \in Entry
    BY <2>1, PipelineAssumption
  <2>. QED  BY <1>1, <2>1, <2>2 DEF Line, HandleNext, HandleEntry, OfServer, agentVars, Alive,
                                    PInv, ServerInv, Submit
<1>3. UNCHANGED <<batch, rows>>
  BY <1>2 DEF Submit, workerVars, dbVars
<1>4. /\ Stored' = Stored /\ InBatch' = InBatch
      /\ Memory = Range(ch) \cup InBatch /\ Memory' = Range(ch') \cup InBatch'
  BY <1>2, <1>3 DEF Stored, InBatch, Memory
<1>5. e \notin Accepted /\ e \notin Refused
  BY <1>2 DEF Submit, Accepted, Refused
<1>6. CASE /\ Accepted' \cup Refused' = Accepted \cup Refused \cup {e}
           /\ Range(ch') \in {Range(ch), Range(ch) \cup {e}}
  <2>1. /\ LinesOf(Accepted' \cup Refused') = LinesOf(Accepted \cup Refused) \cup {l}
        /\ LinesOf(Memory') \in {LinesOf(Memory), LinesOf(Memory) \cup {l}}
    <3>1. \A E : LinesOf(E \cup {e}) = LinesOf(E) \cup {l}
      BY LinesOfAdd
    <3>. QED  BY <1>4, <1>6, <3>1
  <2>2. Promise!Hand(l)
    BY <1>2, <1>4, <2>1 DEF Promise!Hand
  <2>. QED  BY <1>2, <2>2 DEF DeliveryStep, Promise!Next
<1>7. CASE Accepted' = Accepted /\ Refused' = Refused /\ UNCHANGED ch
  BY <1>2, <1>4, <1>7 DEF DeliveryStep, Promise!deliveryVars
<1>8. CASE SubmitQueued(e)
  <2>1. ch \in Seq(Entry) /\ verdict \in [Entry -> Verdicts]
    BY <1>2 DEF TypeOK, QueueTypes
  <2>2. Range(ch') = Range(ch) \cup {e}
    BY <1>2, <1>8, <2>1, AppendSeq DEF SubmitQueued
  <2>3. Accepted' = Accepted \cup {e} /\ Refused' = Refused
    BY <1>2, <1>5, <1>8, <2>1 DEF SubmitQueued, Accepted, Refused
  <2>. QED  BY <1>6, <2>2, <2>3
<1>9. CASE SubmitFull(e)
  <2>1. verdict \in [Entry -> Verdicts]
    BY <1>2 DEF TypeOK, QueueTypes
  <2>2. Accepted' = Accepted /\ Refused' = Refused \cup {e}
    BY <1>2, <1>5, <1>9, <2>1 DEF SubmitFull, Accepted, Refused
  <2>. QED  BY <1>6, <1>9, <2>2 DEF SubmitFull
<1>10. CASE SubmitCtxDone(e) \/ SubmitPanics(e)
  <2>1. verdict \in [Entry -> Verdicts]
    BY <1>2 DEF TypeOK, QueueTypes
  <2>2. Accepted' = Accepted /\ Refused' = Refused
    BY <1>2, <1>5, <1>10, <2>1 DEF SubmitCtxDone, SubmitPanics, Accepted, Refused
  <2>. QED  BY <1>7, <1>10, <2>2 DEF SubmitCtxDone, SubmitPanics
<1>. QED  BY <1>2, <1>8, <1>9, <1>10 DEF Submit

\* The ends and the start of a process.
LEMMA ProcessDelivers ==
  ASSUME PInv, UNCHANGED saved,
         CloseReturns \/ ServeFails \/ Crash \/ ServerStarts
  PROVE  DeliveryStep
<1>1. CASE ServerStarts
  <2>1. /\ ~Alive /\ Alive' /\ ~cancelled' /\ Memory = {} /\ Memory' = {}
        /\ Accepted' = Accepted /\ Refused' = Refused /\ Stored' = Stored
    BY <1>1, StartMoves DEF PInv, ServerInv, Memory, Accepted, Refused, Stored
  <2>2. Promise!Start
    BY <2>1 DEF Promise!Start
  <2>. QED  BY <2>2 DEF DeliveryStep, Promise!Next
<1>2. CASE CloseReturns \/ ServeFails \/ Crash
  <2>1. Alive /\ ~Alive' /\ UNCHANGED ingesterVars
    BY <1>2 DEF CloseReturns, ServeFails, Crash, Alive
  <2>2. /\ Accepted' = Accepted /\ Refused' = Refused /\ Stored' = Stored
        /\ Memory' = {}
    BY <2>1 DEF ingesterVars, queueVars, dbVars, Accepted, Refused, Stored, Memory
  <2>3. Promise!Die
    BY <2>1, <2>2 DEF Promise!Die, LinesOf
  <2>. QED  BY <2>3 DEF DeliveryStep, Promise!Next
<1>. QED  BY <1>1, <1>2

LEMMA PipelineDelivers ==
  ASSUME PInv, [PipelineNext]_pipelineVars
  PROVE  DeliveryStep
<1>1. UNCHANGED <<ingesterVars, saved>> /\ Alive' = Alive => DeliveryStep
  BY Invisible DEF Memory, InBatch, Stored, ingesterVars, queueVars, workerVars, dbVars
<1>2. CASE Gather \/ StartCall \/ UNCHANGED pipelineVars
  BY <1>1, <1>2 DEF Gather, StartCall, OpenStream, pipelineVars, agentVars, serverVars, Alive
<1>3. CASE CallFails \/ CallTimesOut \/ AgentRestart
  BY <1>1, <1>3, HangupMoves DEF CallFails, CallTimesOut, AgentRestart, Alive
<1>4. CASE CallOk
  <2>1. UNCHANGED <<ingesterVars, proc>> /\ (saved' = saved \/ saved' = read)
    BY <1>4 DEF CallOk, serverVars
  <2>2. CASE saved' = saved
    BY <1>1, <2>1, <2>2 DEF Alive
  <2>3. CASE saved' = read
    <3>1. read > saved /\ read \in 1..MaxLines
      BY <1>4, PipelineAssumption DEF CallOk, PInv, AgentTypes, PositionSettled
    <3>2. 1..read \subseteq LinesOf(Accepted \cup Refused)
      <4>1. 1..shipped' \subseteq LinesOf(Settled') /\ shipped' = read
        BY <1>4, PositionSettledStep DEF PositionSettled, CallOk, CommitPosition
      <4>2. Settled' = Settled
        BY <2>1 DEF ingesterVars, queueVars, Settled, Accepted, Refused
      <4>. QED  BY <4>1, <4>2 DEF Settled
    <3>3. /\ Accepted' = Accepted /\ Refused' = Refused /\ Stored' = Stored
          /\ Memory' = Memory /\ Alive' = Alive /\ cancelled' = cancelled
      BY <2>1 DEF ingesterVars, queueVars, workerVars, dbVars, Accepted, Refused, Stored,
                  Memory, InBatch, Alive
    <3>4. Promise!Commit(read)
      BY <2>3, <3>1, <3>2, <3>3 DEF Promise!Commit
    <3>. QED  BY <3>1, <3>4 DEF DeliveryStep, Promise!Next
  <2>. QED  BY <2>1, <2>2, <2>3
<1>5. ASSUME NEW c \in Call, Answer(c) PROVE DeliveryStep
  BY <1>1, <1>5 DEF Answer, EndStream, OfServer, agentVars, Alive
<1>6. CASE ServerStep
  <2>1. UNCHANGED saved
    BY <1>6 DEF ServerStep, InServer, OfServer, agentVars
  <2>2. CASE CloseReturns
    BY <2>1, <2>2, ProcessDelivers
  <2>3. CASE (\E c \in Call : FailStream(c)) \/ BeginDrain \/ DrainTimeout \/ DrainDone
    BY <1>1, <2>1, <2>3 DEF FailStream, BeginDrain, DrainTimeout, DrainDone, Alive
  <2>4. CASE CloseIngester \/ Database
    <3>1. UNCHANGED <<verdict, ch, batch, rows, cancelled, proc>>
      BY <2>4 DEF CloseIngester, CloseQueue, StopReturns, Database, DbDown, DbUp,
                  queueVars, workerVars, dbVars
    <3>. QED  BY <2>1, <3>1, Invisible DEF Memory, InBatch, Stored, Alive
  <2>5. CASE \E w \in Worker : PoolStep(w)
    BY <2>1, <2>5, WorkerDelivers
  <2>. QED  BY <1>6, <2>2, <2>3, <2>4, <2>5 DEF ServerStep, InServer, ProcessStep
<1>7. CASE Shutdown
  <2>1. /\ Alive /\ Alive' /\ ~cancelled /\ cancelled'
        /\ UNCHANGED <<verdict, ch, batch, rows, saved>>
    BY <1>7 DEF Shutdown, Signal, Cancel, OfServer, agentVars, queueVars, workerVars, dbVars,
                Alive
  <2>2. /\ Accepted' = Accepted /\ Refused' = Refused /\ Stored' = Stored
        /\ Memory' = Memory
    BY <2>1 DEF Accepted, Refused, Stored, Memory, InBatch
  <2>3. Promise!Stop
    BY <2>1, <2>2 DEF Promise!Stop
  <2>. QED  BY <2>3 DEF DeliveryStep, Promise!Next
<1>8. CASE ServerDies \/ ServerStarts
  <2>1. UNCHANGED saved
    BY <1>8 DEF ServerDies, ServerStarts, OfServer, agentVars
  <2>. QED  BY <1>8, <2>1, ProcessDelivers DEF ServerDies, Crash
<1>. QED  BY <1>2, <1>3, <1>4, <1>5, <1>6, <1>7, <1>8, HandlerDelivers
          DEF PipelineNext, AgentStep

\* "Delivery is at-least-once" (Shipper), as one specification: the saved position
\* passes only lines that were handed over, what was kept is written unless the
\* server was told to stop or died, and what was written stays.
THEOREM PipelineRefinement == PipelineSpec => ImplementsDelivery
<1>1. ASSUME PipelineInit PROVE Promise!Init
  <2>1. /\ \A w \in Worker : Range(batch[w]) = {}
        /\ Range(ch) = {} /\ \A e \in Entry : verdict[e] = "unsent" /\ rows[e] = 0
        /\ proc = "serving" /\ ~cancelled /\ saved = 0
    BY <1>1, EmptySeq DEF PipelineInit, ServerInit, Init
  <2>2. Accepted \cup Refused = {} /\ Memory = {} /\ Stored = {} /\ Alive
    BY <2>1 DEF Accepted, Refused, Memory, InBatch, Stored, Alive
  <2>. QED  BY <2>1, <2>2 DEF Promise!Init, LinesOf
<1>2. PInv /\ [PipelineNext]_pipelineVars => [Promise!Next]_(Promise!deliveryVars)
  BY PipelineDelivers DEF DeliveryStep
<1>. QED  BY <1>1, <1>2, PipelineInvariance, PTL
          DEF PipelineSpec, ImplementsDelivery, Promise!Spec

-----------------------------------------------------------------------------
(* The shipper.                                                            *)

\* Whatever leaves the agent alone hands lines over, or none.
LEMMA OthersHand ==
  ASSUME PInv, [PipelineNext]_pipelineVars, UNCHANGED agentVars
  PROVE  \E S \in SUBSET (1..MaxLines) : Lines!Hand(S)
<1>. DEFINE S == LinesOf(Settled')
<1>1. LinesOf(Settled) \subseteq S
  BY SettledStep DEF LinesOf
<1>2. S \in SUBSET (1..MaxLines)
  BY PipelineAssumption DEF LinesOf, Settled, Accepted, Refused, Line
<1>3. LinesOf(Accepted \cup Refused)' = LinesOf(Accepted \cup Refused) \cup S
  BY <1>1 DEF Settled, LinesOf
<1>. HIDE DEF S
<1>4. Lines!Hand(S)
  BY <1>3 DEF Lines!Hand, agentVars
<1>. QED  BY <1>2, <1>4

LEMMA PipelineShips ==
  ASSUME PInv, [PipelineNext]_pipelineVars
  PROVE  [Lines!Next]_(Lines!shipperState)
<1>. USE DEF Lines!Next, Lines!shipperState
<1>0. AgentTypes /\ PositionSettled /\ MaxLines \in Nat
  BY PipelineAssumption DEF PInv
<1>1. UNCHANGED verdict => UNCHANGED LinesOf(Accepted \cup Refused)
  BY DEF Accepted, Refused, LinesOf
<1>2. CASE Gather
  <2>1. UNCHANGED verdict
    BY <1>2 DEF Gather, serverVars, ingesterVars, queueVars
  <2>. QED  BY <1>1, <1>2, <2>1 DEF Gather, Lines!Gather
<1>3. CASE StartCall
  BY <1>1, <1>3 DEF StartCall, OpenStream, ingesterVars, queueVars
<1>4. CASE CallFails \/ CallTimesOut
  <2>1. UNCHANGED verdict
    BY <1>4, HangupMoves DEF CallFails, CallTimesOut, ingesterVars, queueVars
  <2>. QED  BY <1>1, <1>4, <2>1 DEF CallFails, CallTimesOut
<1>5. CASE AgentRestart
  <2>1. UNCHANGED verdict
    BY <1>5, HangupMoves DEF AgentRestart, ingesterVars, queueVars
  <2>. QED  BY <1>1, <1>5, <2>1 DEF AgentRestart, ResumeFromSaved, Lines!Restart
<1>6. CASE CallOk
  <2>1. UNCHANGED verdict /\ shipped' = read
    BY <1>6 DEF CallOk, CommitPosition, serverVars, ingesterVars, queueVars
  <2>2. 1..read \subseteq LinesOf(Accepted \cup Refused)
    <3>1. 1..shipped' \subseteq LinesOf(Settled')
      BY PositionSettledStep DEF PositionSettled
    <3>2. Settled' = Accepted \cup Refused
      BY <2>1 DEF Settled, Accepted, Refused
    <3>. QED  BY <2>1, <3>1, <3>2
  <2>3. (shipped + 1)..read \subseteq 1..read
    BY <1>0 DEF AgentTypes
  <2>4. Lines!Commit
    BY <1>1, <1>6, <2>1, <2>2, <2>3 DEF CallOk, CommitPosition, Lines!Commit
  <2>. QED  BY <2>4
<1>7. CASE UNCHANGED agentVars
  BY <1>7, OthersHand
<1>8. UNCHANGED agentVars \/ Gather \/ StartCall \/ CallOk \/ CallFails \/ CallTimesOut \/ AgentRestart
  BY DEF PipelineNext, AgentStep, HandleNext, Answer, ServerStep, InServer, Shutdown, ServerDies,
         ServerStarts, OfServer, pipelineVars
<1>. QED  BY <1>2, <1>3, <1>4, <1>5, <1>6, <1>7, <1>8

\* "Only after that receipt is it safe to save the batch's file positions"
\* (Shipper), between agent and server: the shipper's position moves over a batch
\* when the server has handled each of its lines, whatever calls that timed out
\* still do, and a restart goes back to the saved position.
THEOREM ShipperRefinement == PipelineSpec => ImplementsShipper
<1>1. ASSUME PipelineInit PROVE Lines!Init
  <2>1. Accepted \cup Refused = {}
    BY <1>1 DEF PipelineInit, ServerInit, Init, Accepted, Refused
  <2>. QED  BY <1>1, <2>1 DEF PipelineInit, Lines!Init, LinesOf
<1>. QED  BY <1>1, PipelineShips, PipelineInvariance, PTL
          DEF PipelineSpec, ImplementsShipper, Lines!Spec

-----------------------------------------------------------------------------
(* Sums over finite sets.                                                  *)

\* The sums of r over the subsets of S, computed as MapThenSumSet does: take out a
\* member, add its value to the sum of the others.
Some(s) == CHOOSE x \in s : TRUE
SumOver(g, r, s) == IF s = {} THEN 0 ELSE r[Some(s)] + g[s \ {Some(s)}]
Sums(g, r, S) == g = [s \in SUBSET S |-> SumOver(g, r, s)]

\* What is left without some member.
LEMMA TakeOne ==
  ASSUME NEW S, IsFiniteSet(S), NEW s \in SUBSET S, s # {}
  PROVE  /\ Some(s) \in s /\ s \ {Some(s)} \in SUBSET S
         /\ Cardinality(s) \in Nat \ {0}
         /\ Cardinality(s \ {Some(s)}) = Cardinality(s) - 1
<1>1. Some(s) \in s
  BY DEF Some
<1>2. IsFiniteSet(s)
  BY FS_Subset
<1>. QED  BY <1>1, <1>2, FS_RemoveElement, FS_CardinalityType, FS_EmptySet

\* There are such sums: those of sets of n members from those of fewer.
LEMMA SumsExist ==
  ASSUME NEW S, IsFiniteSet(S), NEW r \in [S -> Nat]
  PROVE  \E g : Sums(g, r, S)
<1>. DEFINE Partial(g, n) == /\ g = [s \in SUBSET S |-> g[s]]
                             /\ \A s \in SUBSET S : Cardinality(s) <= n => g[s] = SumOver(g, r, s)
            Wrong == {n \in Nat : ~ \E g : Partial(g, n)}
<1>1. \A s \in SUBSET S : Cardinality(s) \in Nat /\ (Cardinality(s) = 0 <=> s = {})
  BY FS_Subset, FS_CardinalityType, FS_EmptySet
<1>2. Wrong = {}
  <2>. SUFFICES ASSUME Wrong # {} PROVE FALSE
    OBVIOUS
  <2>1. PICK m \in Wrong : \A n \in Wrong : m <= n
    <3>. HIDE DEF Wrong
    <3>1. Wrong \in SUBSET Nat
      BY DEF Wrong
    <3>. QED  BY <3>1, LeastOf
  <2>2. m # 0
    <3>. DEFINE z == [s \in SUBSET S |-> 0]
    <3>1. Partial(z, 0)
      BY <1>1 DEF SumOver
    <3>. QED  BY <3>1
  <2>3. PICK g : Partial(g, m - 1)
    <3>1. m \in Nat /\ m - 1 \in Nat /\ m - 1 \notin Wrong
      <4>1. m \in Nat /\ m - 1 \in Nat /\ ~(m <= m - 1)
        BY <2>1, <2>2
      <4>. QED  BY <2>1, <4>1
    <3>. QED  BY <3>1
  <2>. DEFINE h == [s \in SUBSET S |-> IF Cardinality(s) = m THEN SumOver(g, r, s) ELSE g[s]]
  <2>4. \A s \in SUBSET S : Cardinality(s) <= m => h[s] = SumOver(g, r, s)
    <3>1. m \in Nat /\ \A n \in Nat : n <= m => n = m \/ n <= m - 1
      BY <2>1, <2>2
    <3>2. \A s \in SUBSET S : Cardinality(s) <= m - 1 => g[s] = SumOver(g, r, s)
      BY <2>3
    <3>. HIDE DEF Wrong, Partial
    <3>. QED  BY <1>1, <3>1, <3>2
  <2>5. \A s \in SUBSET S : Cardinality(s) <= m => SumOver(h, r, s) = SumOver(g, r, s)
    <3>1. ASSUME NEW s \in SUBSET S, Cardinality(s) <= m, s # {}
          PROVE  h[s \ {Some(s)}] = g[s \ {Some(s)}]
      BY <1>1, <2>1, <3>1, TakeOne
    <3>. HIDE DEF h
    <3>. QED  BY <3>1 DEF SumOver
  <2>6. Partial(h, m)
    BY <2>4, <2>5
  <2>. QED  BY <2>1, <2>6
<1>3. PICK g : Partial(g, Cardinality(S))
  BY <1>1, <1>2
<1>4. \A s \in SUBSET S : Cardinality(s) <= Cardinality(S)
  BY FS_Subset
<1>. QED  BY <1>3, <1>4 DEF Sums

\* A sum of numbers up to k, of which those in t at most are not zero.
LEMMA SumsBounded ==
  ASSUME NEW S, IsFiniteSet(S), NEW r \in [S -> Nat], NEW g, Sums(g, r, S),
         NEW k \in Nat, \A x \in S : r[x] <= k
  PROVE  \A s \in SUBSET S : /\ g[s] \in Nat
                             /\ g[s] <= Cardinality({x \in s : r[x] # 0}) * k
<1>. DEFINE Count(s) == Cardinality({x \in s : r[x] # 0})
            Good(s)  == g[s] \in Nat /\ g[s] <= Count(s) * k
            Wrong    == {n \in Nat : \E s \in SUBSET S : Cardinality(s) = n /\ ~Good(s)}
<1>1. \A s \in SUBSET S : g[s] = SumOver(g, r, s)
  BY DEF Sums
<1>2. \A s \in SUBSET S : Cardinality(s) \in Nat /\ Count(s) \in Nat
  BY FS_Subset, FS_CardinalityType
<1>3. ASSUME NEW s \in SUBSET S, s # {}, Good(s \ {Some(s)})
      PROVE  Good(s)
  <2>. DEFINE x == Some(s)
              t == s \ {Some(s)}
              A == {y \in s : r[y] # 0}
              B == {y \in t : r[y] # 0}
  <2>1. x \in s /\ t \in SUBSET S
    BY <1>3, TakeOne
  <2>2. g[s] = r[x] + g[t] /\ r[x] \in Nat /\ r[x] <= k
    BY <1>1, <1>3, <2>1 DEF SumOver
  <2>3. CASE r[x] = 0
    <3>1. A = B
      BY <2>1, <2>3
    <3>2. Count(s) = Count(t)
      BY <3>1
    <3>3. g[s] = g[t]
      BY <1>3, <2>2, <2>3
    <3>. QED  BY <1>3, <3>2, <3>3
  <2>4. CASE r[x] # 0
    <3>1. A = B \cup {x} /\ x \notin B
      BY <2>1, <2>4
    <3>2. IsFiniteSet(B)
      BY <2>1, FS_Subset
    <3>3. Cardinality(A) = Cardinality(B) + 1 /\ Cardinality(B) \in Nat
      BY <3>1, <3>2, FS_AddElement, FS_CardinalityType
    <3>4. Cardinality(A) * k = Cardinality(B) * k + k
      BY <3>3
    <3>5. g[t] \in Nat /\ g[t] <= Cardinality(B) * k /\ Cardinality(B) * k \in Nat
      BY <1>3, <3>3
    <3>. HIDE DEF A, B, x, t
    <3>6. g[s] \in Nat /\ g[s] <= Cardinality(A) * k
      BY <2>2, <3>4, <3>5
    <3>. QED  BY <3>6 DEF A
  <2>. QED  BY <2>3, <2>4
<1>4. Good({})
  <2>1. {x \in {} : r[x] # 0} = {}
    OBVIOUS
  <2>2. g[{}] = 0
    BY <1>1 DEF SumOver
  <2>. QED  BY <2>1, <2>2, FS_EmptySet
<1>5. Wrong = {}
  <2>. SUFFICES ASSUME Wrong # {} PROVE FALSE
    OBVIOUS
  <2>1. PICK m \in Wrong : \A n \in Wrong : m <= n
    <3>1. Wrong \in SUBSET Nat
      OBVIOUS
    <3>. HIDE DEF Wrong
    <3>. QED  BY <3>1, LeastOf
  <2>2. PICK s \in SUBSET S : Cardinality(s) = m /\ ~Good(s)
    BY <2>1
  <2>. HIDE DEF Good
  <2>3. s # {} /\ ~Good(s \ {Some(s)})
    BY <1>3, <1>4, <2>2
  <2>4. m - 1 \in Wrong
    <3>1. /\ s \ {Some(s)} \in SUBSET S /\ m - 1 \in Nat
          /\ Cardinality(s \ {Some(s)}) = m - 1
      BY <2>2, <2>3, TakeOne
    <3>. QED  BY <2>3, <3>1
  <2>. QED  BY <2>1, <2>4
<1>. HIDE DEF Good
<1>6. \A s \in SUBSET S : Good(s)
  BY <1>2, <1>5
<1>. QED  BY <1>6 DEF Good

-----------------------------------------------------------------------------
(* How many rows a line has.                                               *)

\* The calls that carry a line.
Carriers(l) == {c \in Call : l \in content[c]}

\* The shipper waits for a call that can still end well.
Underway == proc = "serving" /\ stream[call] \in {"open", "ended"}

\* Line l is to be sent, for the first time or again: it is not behind the position
\* and not in a call that can still end well.
Due(l) == IF at # "call" THEN l > shipped ELSE l > read \/ (l > shipped /\ ~Underway)

\* The process was told to stop and takes calls until Run takes notice.
LastCalls == cancelled /\ proc = "serving"

\* Every call that carries a line was made because the one before it met a mishap:
\* one that has not led to another call yet is counted with the calls.
Bit(P) == IF P THEN 1 ELSE 0
CarriedBy(l) == Cardinality(Carriers(l)) + Bit(Due(l)) + Bit(LastCalls) <= 1 + mishaps
Carried == \A l \in Line : CarriedBy(l)

\* A call that was not made carries nothing, an entry that was submitted belongs to
\* the call it was sent in, and a process that serves has an open channel.
Labelled ==
  /\ closed => proc # "serving"
  /\ \A c \in Call : /\ stream[c] = "idle" => content[c] = {}
                     /\ \A l \in Line : verdict[<<l, c>>] # "unsent" => l \in content[c]

\* What module Ingester's invariant says of rows, as far as it holds over restarts of
\* the process.
Written == OnlyAccepted /\ NoSharing /\ RowsCounted

LEMMA WrittenStep ==
  ASSUME PInv, Written, [PipelineNext]_pipelineVars
  PROVE  Written'
<1>. USE DEF Written
<1>0. TypeOK
  BY DEF PInv, ServerInv
<1>1. CASE [ServerNext]_serverVars
  BY <1>0, <1>1, ServerStepIsPoolStep, OnlyAcceptedStep, NoSharingStep, RowsCountedStep
<1>2. CASE Crash
  BY <1>2 DEF Crash, ingesterVars, queueVars, workerVars, dbVars, OnlyAccepted, Accepted,
              InBatch, Stored, NoSharing, RowsCounted
<1>3. CASE ServerStarts
  <2>1. /\ Range(ch') = {} /\ InBatch' = {} /\ UNCHANGED <<verdict, rows, lostAcks>>
        /\ ch' = <<>> /\ batch' = [w \in Worker |-> <<>>]
    BY <1>0, <1>3, StartMoves DEF ServerStarts, dbVars
  <2>2. OnlyAccepted'
    BY <2>1 DEF OnlyAccepted, Accepted, Stored
  <2>3. NoSharing'
    BY <2>1, EmptySeq DEF NoSharing
  <2>. QED  BY <2>1, <2>2, <2>3 DEF RowsCounted
<1>. QED  BY <1>1, <1>2, <1>3, ServerSteps

\* Close closes the channel when Run has returned.
LEMMA ClosedStep ==
  ASSUME PInv, closed => proc # "serving", [PipelineNext]_pipelineVars
  PROVE  closed' => proc' # "serving"
<1>1. CASE [ServerNext]_serverVars
  <2>1. CASE \E w \in Worker : PoolStep(w)
    BY <2>1 DEF PoolStep, InProcess, WorkerStep, Receive, ReceiveClosed, CtxDone, Tick,
                FlushAndReturn, Attempt, Retry, GiveUp, queueVars
  <2>2. CASE \E s \in Stream : \/ OpenStream(s) \/ EndStream(s) \/ BreakStream(s) \/ FailStream(s)
                               \/ \E e \in Entry : HandleEntry(s, e)
    BY <2>2 DEF OpenStream, EndStream, BreakStream, FailStream, HandleEntry, Submit,
                ingesterVars, queueVars
  <2>3. CASE Signal \/ BeginDrain \/ ServeFails \/ DrainTimeout \/ DrainDone \/ CloseReturns
    BY <2>3 DEF Signal, Cancel, BeginDrain, ServeFails, DrainTimeout, DrainDone, CloseReturns,
                ingesterVars, queueVars
  <2>4. CASE CloseIngester \/ Database \/ UNCHANGED serverVars
    BY <2>4 DEF CloseIngester, CloseQueue, StopReturns, Database, DbDown, DbUp, serverVars,
                ingesterVars, queueVars
  <2>. QED  BY <1>1, <2>1, <2>2, <2>3, <2>4 DEF ServerNext
<1>2. CASE Crash \/ ServerStarts
  BY <1>2 DEF Crash, ServerStarts
<1>. QED  BY <1>1, <1>2, ServerSteps

LEMMA LabelledStep ==
  ASSUME PInv, Labelled, [PipelineNext]_pipelineVars
  PROVE  Labelled'
<1>. USE DEF Labelled
<1>0. /\ LinesHandled /\ stream \in [Stream -> Calls] /\ TypeOK
      /\ verdict \in [Entry -> Verdicts] /\ content \in [Call -> SUBSET Line]
  BY DEF PInv, ServerInv, CallTypes, TypeOK, QueueTypes, LinesHandled
<1>1. closed' => proc' # "serving"
  BY ClosedStep
<1>2. CASE Quiet
  BY <1>1, <1>2 DEF Quiet
<1>3. CASE StartCall
  <2>1. PICK c \in Call : /\ OpenStream(c)
                          /\ content' = [content EXCEPT ![c] = (shipped + 1)..read]
    BY <1>3 DEF StartCall
  <2>2. /\ UNCHANGED verdict /\ stream[c] = "idle"
        /\ stream' = [stream EXCEPT ![c] = "open"]
    BY <2>1 DEF OpenStream, ingesterVars, queueVars
  <2>. QED  BY <1>0, <1>1, <2>1, <2>2 DEF Call
<1>4. ASSUME NEW c \in Call, HandleNext(c) PROVE Labelled'
  <2>1. PICK l \in NextOf(c) : HandleEntry(c, <<l, c>>)
    BY <1>4 DEF HandleNext
  <2>. DEFINE e == <<l, c>>
              d == stream[c] = "broken"
  <2>2. e \in Entry /\ l \in content[c] /\ d \in BOOLEAN /\ Submit(e, d)
    BY <1>0, <2>1, PipelineAssumption DEF NextOf, HandleEntry
  <2>3. /\ c \in Running /\ UNCHANGED content
        /\ stream' = [stream EXCEPT ![c] = IF verdict'[e] = "panic" THEN "failed" ELSE @]
    BY <1>4, <2>1 DEF HandleNext, HandleEntry, OfServer
  <2>4. \A f \in Entry \ {e} : verdict'[f] = verdict[f]
    BY <1>0, <2>2, SubmitAnswers
  <2>5. ASSUME NEW b \in Call, NEW k \in Line, verdict'[<<k, b>>] # "unsent"
        PROVE  k \in content[b]
    <3>1. <<k, b>> \in Entry
      BY PipelineAssumption
    <3>2. CASE <<k, b>> = e
      BY <2>2, <3>2
    <3>3. CASE <<k, b>> # e
      BY <2>4, <2>5, <3>1, <3>3
    <3>. QED  BY <3>2, <3>3
  <2>6. ASSUME NEW b \in Call PROVE stream'[b] = "idle" => stream[b] = "idle"
    BY <1>0, <2>3 DEF Call, Running
  <2>. QED  BY <1>1, <2>3, <2>5, <2>6
<1>5. ASSUME NEW c \in Call, Answer(c) PROVE Labelled'
  <2>1. /\ UNCHANGED <<verdict, content>>
        /\ stream' = [stream EXCEPT ![c] = "ended"]
    BY <1>5 DEF Answer, EndStream, OfServer, ingesterVars, queueVars
  <2>. QED  BY <1>0, <1>1, <2>1 DEF Call
<1>. QED  BY <1>2, <1>3, <1>4, <1>5, QuietSteps

LEMMA CarriersType ==
  ASSUME PInv
  PROVE  /\ IsFiniteSet(Call) /\ mishaps \in Nat
         /\ \A l \in Line : IsFiniteSet(Carriers(l)) /\ Cardinality(Carriers(l)) \in Nat
<1>1. IsFiniteSet(Call)
  <2>1. 1 \in Int /\ MaxLines + MaxMishaps \in Int
    BY PipelineAssumption
  <2>. QED  BY <2>1, PipelineAssumption, FS_Interval DEF Call
<1>2. \A l \in Line : Carriers(l) \in SUBSET Call
  BY DEF Carriers
<1>. QED  BY <1>1, <1>2, FS_Subset, FS_CardinalityType, PipelineAssumption
          DEF PInv, AgentTypes

\* A step that makes no call keeps the count if it counts a mishap for what it breaks,
\* or breaks only what was given notice.
LEMMA NoCallMade ==
  ASSUME PInv, NEW l \in Line, CarriedBy(l), UNCHANGED content,
         \/ /\ mishaps' = mishaps
            /\ LastCalls' => LastCalls
            /\ Due(l)' => Due(l) \/ (LastCalls /\ ~LastCalls')
         \/ /\ mishaps' = mishaps + 1
            /\ (LastCalls' => LastCalls) \/ (Due(l)' => Due(l))
  PROVE  CarriedBy(l)'
<1>1. Carriers(l)' = Carriers(l)
  BY DEF Carriers
<1>2. Cardinality(Carriers(l)) \in Nat /\ mishaps \in Nat
  BY CarriersType
<1>. QED  BY <1>1, <1>2 DEF CarriedBy, Bit

\* A call is made for lines that are due, and then they are not.
LEMMA StartCallCarries ==
  ASSUME PInv, Labelled, NEW l \in Line, CarriedBy(l), StartCall
  PROVE  CarriedBy(l)'
<1>1. PICK c \in Call : /\ OpenStream(c) /\ call' = c
                        /\ content' = [content EXCEPT ![c] = (shipped + 1)..read]
  BY DEF StartCall
<1>2. /\ proc = "serving" /\ stream[c] = "idle"
      /\ stream' = [stream EXCEPT ![c] = "open"]
      /\ UNCHANGED <<proc, cancelled>>
  BY <1>1 DEF OpenStream, ingesterVars
<1>3. /\ at = "ready" /\ at' = "call" /\ UNCHANGED <<shipped, read, mishaps>>
      /\ shipped \in Nat /\ read \in Nat /\ l \in Nat
  BY PipelineAssumption DEF StartCall, PInv, AgentTypes, Line
<1>4. stream \in [Call -> Calls] /\ content \in [Call -> SUBSET Line]
  BY DEF PInv, ServerInv, CallTypes, LinesHandled, Call
<1>5. Underway' /\ LastCalls' = LastCalls
  BY <1>1, <1>2, <1>4 DEF Underway, LastCalls
<1>6. /\ Due(l) <=> l > shipped
      /\ Due(l)' <=> l > read
  BY <1>3, <1>5 DEF Due
<1>7. content[c] = {} /\ c \notin Carriers(l)
  BY <1>2 DEF Labelled, Carriers
<1>8. /\ content'[c] = (shipped + 1)..read
      /\ \A b \in Call \ {c} : content'[b] = content[b]
  BY <1>1, <1>4
<1>9. /\ IsFiniteSet(Carriers(l)) /\ Cardinality(Carriers(l)) \in Nat /\ mishaps \in Nat
      /\ shipped < read
  BY <1>3, CarriersType DEF PInv, PositionSettled
<1>10. CASE l \in (shipped + 1)..read
  <2>1. Carriers(l)' = Carriers(l) \cup {c}
    BY <1>8, <1>10 DEF Carriers
  <2>2. Cardinality(Carriers(l)') = Cardinality(Carriers(l)) + 1
    BY <1>7, <1>9, <2>1, FS_AddElement
  <2>3. Due(l) /\ ~Due(l)'
    BY <1>3, <1>6, <1>10
  <2>. QED  BY <1>3, <1>5, <1>9, <2>2, <2>3 DEF CarriedBy, Bit
<1>11. CASE l \notin (shipped + 1)..read
  <2>1. Carriers(l)' = Carriers(l)
    BY <1>7, <1>8, <1>11 DEF Carriers
  <2>2. Due(l)' => Due(l)
    BY <1>3, <1>6, <1>9
  <2>. QED  BY <1>3, <1>5, <1>9, <2>1, <2>2 DEF CarriedBy, Bit
<1>. QED  BY <1>10, <1>11

\* What the handlers, Run, Close and the pool do to a call that can end well.
LEMMA ServerKeepsCalls ==
  ASSUME PInv, Labelled,
         (\E c \in Call : HandleNext(c) \/ Answer(c)) \/ ServerStep
  PROVE  /\ UNCHANGED <<content, agentVars, mishaps>>
         /\ LastCalls' => LastCalls
         /\ Underway => Underway' \/ (LastCalls /\ ~LastCalls')
<1>. USE DEF Underway, LastCalls
<1>0. /\ stream \in [Call -> Calls] /\ content \in [Call -> SUBSET Line]
  BY DEF PInv, ServerInv, CallTypes, LinesHandled, Call
<1>1. UNCHANGED <<content, agentVars, mishaps>>
  BY DEF HandleNext, Answer, ServerStep, InServer, OfServer
<1>2. UNCHANGED call
  BY <1>1 DEF agentVars
<1>3. ASSUME NEW c \in Call, HandleNext(c)
      PROVE  /\ UNCHANGED <<proc, cancelled>>
             /\ Underway => Underway'
  <2>1. PICK l \in NextOf(c) : HandleEntry(c, <<l, c>>)
    BY <1>3 DEF HandleNext
  <2>2. UNCHANGED <<proc, cancelled>>
    BY <2>1 DEF HandleEntry, Submit
  <2>. DEFINE e == <<l, c>>
  <2>3. ASSUME Underway PROVE stream'[call] = stream[call]
    <3>1. ~closed
      BY <2>3 DEF Labelled
    <3>2. e \in Entry
      BY <1>0, <2>1, PipelineAssumption DEF NextOf
    <3>3. verdict'[e] # "panic"
      BY <2>1, <3>1, <3>2 DEF HandleEntry, Submit, SubmitQueued, SubmitCtxDone, SubmitFull,
                             SubmitPanics, PInv, ServerInv, TypeOK, QueueTypes
    <3>4. stream' = [stream EXCEPT ![c] = IF verdict'[e] = "panic" THEN "failed" ELSE @]
      BY <2>1 DEF HandleEntry
    <3>. QED  BY <1>0, <3>3, <3>4
  <2>. QED  BY <1>2, <2>2, <2>3
<1>4. ASSUME NEW c \in Call, Answer(c)
      PROVE  /\ UNCHANGED <<proc, cancelled>>
             /\ Underway => Underway'
  BY <1>0, <1>2, <1>4 DEF Answer, EndStream, ingesterVars
<1>5. CASE \E c \in Call : InServer(FailStream(c))
  BY <1>0, <1>1, <1>2, <1>5 DEF InServer, FailStream, ingesterVars
<1>6. CASE InServer(BeginDrain)
  BY <1>1, <1>2, <1>6 DEF InServer, BeginDrain, ingesterVars
<1>7. CASE \/ InServer(DrainTimeout) \/ InServer(DrainDone) \/ InServer(CloseIngester)
           \/ InServer(CloseReturns)
  BY <1>1, <1>7 DEF InServer, DrainTimeout, DrainDone, CloseIngester, CloseReturns
<1>8. CASE (\E w \in Worker : InServer(PoolStep(w))) \/ InServer(Database)
  <2>1. UNCHANGED <<proc, stream, cancelled>>
    BY <1>8 DEF InServer, PoolStep, InProcess, WorkerStep, Receive, ReceiveClosed, CtxDone,
                Tick, FlushAndReturn, Attempt, Retry, GiveUp, Database, DbDown, DbUp, streamVars
  <2>. QED  BY <1>1, <1>2, <2>1
<1>. QED  BY <1>1, <1>3, <1>4, <1>5, <1>6, <1>7, <1>8 DEF ServerStep, InServer, ProcessStep

LEMMA CarriedStep ==
  ASSUME PInv, Labelled, Carried, [PipelineNext]_pipelineVars
  PROVE  Carried'
<1>. SUFFICES ASSUME NEW l \in Line PROVE CarriedBy(l)'
  BY DEF Carried
<1>0. /\ CarriedBy(l) /\ l \in Nat /\ shipped \in Nat /\ read \in Nat /\ shipped <= read
  BY PipelineAssumption DEF Carried, PInv, AgentTypes, Line
<1>1. CASE StartCall
  BY <1>0, <1>1, StartCallCarries
<1>2. CASE Gather \/ CallOk
  <2>1. UNCHANGED <<content, proc, cancelled>> /\ (mishaps' = mishaps \/ mishaps' = mishaps + 1)
    BY <1>2 DEF Gather, CallOk, Mishap, serverVars, ingesterVars
  <2>2. Due(l)' => Due(l)
    BY <1>0, <1>2 DEF Gather, CallOk, CommitPosition, Due
  <2>. QED  BY <1>0, <2>1, <2>2, NoCallMade DEF LastCalls
<1>3. CASE CallFails
  <2>1. UNCHANGED <<content, mishaps, shipped, proc, cancelled>> /\ at = "call" /\ at' = "ready"
    BY <1>3, HangupMoves DEF CallFails, ingesterVars
  <2>2. ~Underway
    BY <1>3 DEF CallFails, Underway, Alive
  <2>3. Due(l)' => Due(l)
    BY <2>1, <2>2 DEF Due
  <2>. QED  BY <1>0, <2>1, <2>3, NoCallMade DEF LastCalls
<1>4. CASE CallTimesOut \/ AgentRestart
  <2>1. UNCHANGED <<content, proc, cancelled>> /\ mishaps' = mishaps + 1
    BY <1>4, HangupMoves DEF CallTimesOut, AgentRestart, Mishap, ingesterVars
  <2>. QED  BY <1>0, <2>1, NoCallMade DEF LastCalls
<1>5. CASE (\E c \in Call : HandleNext(c) \/ Answer(c)) \/ ServerStep
  <2>1. /\ UNCHANGED <<content, agentVars, mishaps>>
        /\ LastCalls' => LastCalls
        /\ Underway => Underway' \/ (LastCalls /\ ~LastCalls')
    BY <1>5, ServerKeepsCalls
  <2>2. Due(l)' => Due(l) \/ (LastCalls /\ ~LastCalls')
    BY <2>1 DEF Due, agentVars
  <2>. QED  BY <1>0, <2>1, <2>2, NoCallMade
<1>6. CASE Shutdown
  <2>1. UNCHANGED <<content, agentVars, proc, stream>> /\ mishaps' = mishaps + 1
    BY <1>6 DEF Shutdown, OfServer, Signal, Mishap, streamVars
  <2>2. Due(l)' => Due(l)
    BY <2>1 DEF Due, Underway, agentVars
  <2>. QED  BY <1>0, <2>1, <2>2, NoCallMade
<1>7. CASE ServerDies
  <2>1. UNCHANGED content /\ proc' = "fatal" /\ mishaps' = mishaps + 1
    BY <1>7 DEF ServerDies, OfServer, ServeFails, Mishap
  <2>. QED  BY <1>0, <2>1, NoCallMade DEF LastCalls
<1>8. CASE ServerStarts
  <2>1. UNCHANGED <<content, agentVars, mishaps>> /\ ~cancelled' /\ ~Underway
    BY <1>8 DEF ServerStarts, Alive, Underway
  <2>2. Due(l)' => Due(l)
    BY <2>1 DEF Due, agentVars
  <2>. QED  BY <1>0, <2>1, <2>2, NoCallMade DEF LastCalls
<1>9. CASE UNCHANGED pipelineVars
  <2>1. UNCHANGED <<content, agentVars, mishaps, proc, cancelled, stream>>
    BY <1>9 DEF pipelineVars, serverVars, ingesterVars, streamVars
  <2>2. Due(l)' => Due(l)
    BY <2>1 DEF Due, Underway, agentVars
  <2>. QED  BY <1>0, <2>1, <2>2, NoCallMade DEF LastCalls
<1>. QED  BY <1>1, <1>2, <1>3, <1>4, <1>5, <1>6, <1>7, <1>8, <1>9 DEF PipelineNext, AgentStep

LEMMA RowsInvariance == PipelineSpec => [](PInv /\ Written /\ Labelled /\ Carried)
<1>1. ASSUME PipelineInit PROVE Written /\ Labelled /\ Carried
  <2>1. /\ ch = <<>> /\ ~closed /\ ~cancelled /\ lostAcks = 0
        /\ \A w \in Worker : batch[w] = <<>>
        /\ \A e \in Entry : rows[e] = 0 /\ verdict[e] = "unsent"
    BY <1>1 DEF PipelineInit, ServerInit, Init
  <2>2. /\ at = "collect" /\ mishaps = 0
        /\ \A c \in Call : content[c] = {}
    BY <1>1 DEF PipelineInit
  <2>3. InBatch = {} /\ Range(ch) = {} /\ Stored = {}
    BY <2>1, EmptySeq DEF InBatch, Stored
  <2>4. Written
    BY <2>1, <2>3, EmptySeq DEF Written, OnlyAccepted, NoSharing, RowsCounted
  <2>5. Labelled
    BY <2>1, <2>2, PipelineAssumption DEF Labelled
  <2>6. ASSUME NEW l \in Line PROVE CarriedBy(l)
    <3>1. Carriers(l) = {}
      BY <2>2 DEF Carriers
    <3>. QED  BY <2>1, <2>2, <3>1, FS_EmptySet DEF CarriedBy, Bit, LastCalls
  <2>. QED  BY <2>4, <2>5, <2>6 DEF Carried
<1>2. PInv /\ Written /\ Labelled /\ Carried /\ [PipelineNext]_pipelineVars
        => (Written /\ Labelled /\ Carried)'
  BY WrittenStep, LabelledStep, CarriedStep
<1>. QED  BY <1>1, <1>2, PipelineInvariance, PTL DEF PipelineSpec

\* RowsOf is a sum over the calls.
LEMMA RowsOfIs ==
  ASSUME NEW l \in Line, IsFiniteSet(Call), rows \in [Entry -> Nat]
  PROVE  \E g : /\ Sums(g, [c \in Call |-> rows[<<l, c>>]], Call)
                /\ RowsOf(l) = g[Call]
<1>. DEFINE r == [c \in Call |-> rows[<<l, c>>]]
            sum == CHOOSE g : g = [s \in SUBSET Call |-> IF s = {} THEN 0
                                     ELSE rows[<<l, Some(s)>>] + g[s \ {Some(s)}]]
<1>1. PICK g : Sums(g, r, Call)
  <2>1. r \in [Call -> Nat]
    BY PipelineAssumption
  <2>. HIDE DEF r
  <2>. QED  BY <2>1, SumsExist
<1>2. g = [s \in SUBSET Call |-> IF s = {} THEN 0
                                 ELSE rows[<<l, Some(s)>>] + g[s \ {Some(s)}]]
  BY <1>1, TakeOne DEF Sums, SumOver
<1>3. sum = [s \in SUBSET Call |-> IF s = {} THEN 0
                                   ELSE rows[<<l, Some(s)>>] + sum[s \ {Some(s)}]]
  BY <1>2
<1>4. Sums(sum, r, Call)
  <2>. HIDE DEF sum
  <2>. QED  BY <1>3, TakeOne DEF Sums, SumOver
<1>5. RowsOf(l) = sum[Call]
  BY DEF RowsOf, MapThenSumSet, MapThenFoldSet, Some
<1>. QED  BY <1>4, <1>5

LEMMA Product ==
  ASSUME NEW a \in Nat, NEW b \in Nat, NEW k \in Nat, a <= b
  PROVE  a * k <= b * k
  OBVIOUS

\* "If a batch reaches the server but the receipt is lost, the batch is sent
\* again, and those lines are stored twice" (Shipper): over timeouts, crashes and
\* restarts of both sides, each mishap makes one more call with a line at most, and
\* each reply of the database that was lost one more row of it in each call.
THEOREM RowsLimited == PipelineSpec => []RowsNeedMishaps
<1>1. ASSUME PInv, Written, Labelled, Carried PROVE RowsNeedMishaps
  <2>. SUFFICES ASSUME NEW l \in Line
                PROVE  RowsOf(l) <= (1 + mishaps) * (1 + lostAcks)
    BY DEF RowsNeedMishaps
  <2>. DEFINE r == [c \in Call |-> rows[<<l, c>>]]
              k == 1 + lostAcks
              with == {c \in Call : r[c] # 0}
  <2>1. /\ rows \in [Entry -> Nat] /\ lostAcks \in Nat
        /\ \A c \in Call : <<l, c>> \in Entry
        /\ IsFiniteSet(Call) /\ mishaps \in Nat
        /\ IsFiniteSet(Carriers(l)) /\ Cardinality(Carriers(l)) \in Nat
    BY <1>1, CarriersType, PipelineAssumption DEF PInv, ServerInv, TypeOK, DbTypes
  <2>2. r \in [Call -> Nat] /\ k \in Nat /\ \A c \in Call : r[c] <= k
    BY <1>1, <2>1 DEF Written, RowsCounted
  <2>3. with \subseteq Carriers(l)
    <3>. SUFFICES ASSUME NEW c \in Call, rows[<<l, c>>] # 0 PROVE c \in Carriers(l)
      OBVIOUS
    <3>1. <<l, c>> \in Stored
      BY <2>1 DEF Stored
    <3>2. verdict[<<l, c>>] = "accepted"
      BY <1>1, <3>1 DEF Written, OnlyAccepted, Accepted
    <3>. QED  BY <1>1, <3>2 DEF Labelled, Carriers
  <2>4. Cardinality(with) <= 1 + mishaps /\ Cardinality(with) \in Nat
    <3>1. Cardinality(with) <= Cardinality(Carriers(l)) /\ Cardinality(with) \in Nat
      <4>. HIDE DEF with
      <4>. QED  BY <2>1, <2>3, FS_Subset, FS_CardinalityType
    <3>2. Cardinality(Carriers(l)) <= 1 + mishaps
      BY <1>1, <2>1 DEF Carried, CarriedBy, Bit
    <3>. HIDE DEF with
    <3>. QED  BY <2>1, <3>1, <3>2
  <2>5. PICK g : Sums(g, r, Call) /\ RowsOf(l) = g[Call]
    BY <2>1, RowsOfIs
  <2>. HIDE DEF r, k
  <2>6. g[Call] \in Nat /\ g[Call] <= Cardinality(with) * k
    BY <2>1, <2>2, <2>5, SumsBounded
  <2>. HIDE DEF with
  <2>7. Cardinality(with) * k <= (1 + mishaps) * k
    BY <2>1, <2>2, <2>4, Product
  <2>8. Cardinality(with) * k \in Nat /\ (1 + mishaps) * k \in Nat
    BY <2>1, <2>2, <2>4
  <2>9. RowsOf(l) <= (1 + mishaps) * k
    BY <2>5, <2>6, <2>7, <2>8
  <2>. QED  BY <2>9 DEF k
<1>. QED  BY <1>1, RowsInvariance, PTL

=============================================================================
