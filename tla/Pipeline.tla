------------------------------ MODULE Pipeline ------------------------------
(***************************************************************************)
(* One log file from the node's disk to the table: the agent's shipper     *)
(* (internal/logagent/shipper.go), the server process of module LogServer, *)
(* and the calls between them.  Either side may crash or be restarted at   *)
(* any step, and a call may time out at any step, while its handler is     *)
(* still at work or its receipt is on the way.                             *)
(*                                                                         *)
(* Of the agent this module keeps what decides when a line is sent and     *)
(* when its position is saved; tailing, rotation, the channel and the      *)
(* agent's own shutdown are module LogAgent's.  The file has all its lines *)
(* from the start: one that is written later is one that is gathered       *)
(* later.  An entry of LogServer is a line in a call.  One server process  *)
(* runs at a time.                                                         *)
(***************************************************************************)
EXTENDS LogServer, FiniteSetsExt

CONSTANTS
  MaxLines,    \* bound: lines of the file
  AgentBatch,  \* logagent Config.BatchSize
  MaxMishaps   \* bound: timeouts, failing saves, crashes, shutdowns, outages of
               \* the database and lost replies of it

Line == 1..MaxLines
Call == Stream

ASSUME PipelineAssumption ==
  /\ {MaxLines, MaxMishaps} \subseteq Nat /\ AgentBatch \in Nat \ {0}
  /\ Stream = 1..(MaxLines + MaxMishaps)
  /\ Entry = Line \X Call
  /\ Origin = [e \in Entry |-> e[2]]

VARIABLES
  at,        \* where the shipper is: "collect", "ready", "call"
  shipped,   \* the position in memory
  read,      \* the batch is the lines after shipped up to here
  saved,     \* the position on disk
  call,      \* the call the shipper waits for, 0 when none
  content,   \* the lines of each call
  vanished,  \* entries in the memory of server processes that are gone
  mishaps    \* those of agent, calls and processes, so far

agentVars    == <<at, shipped, read, saved, call>>
pipelineVars == <<serverVars, agentVars, content, vanished, mishaps>>

PipelineInit ==
  /\ ServerInit
  /\ at = "collect" /\ shipped = 0 /\ read = 0 /\ saved = 0 /\ call = 0
  /\ content = [c \in Call |-> {}]
  /\ vanished = {} /\ mishaps = 0

WithinBound == mishaps' + outages' + lostAcks' <= MaxMishaps
Mishap == mishaps' = mishaps + 1 /\ mishaps' + outages + lostAcks <= MaxMishaps

-----------------------------------------------------------------------------
(* The agent.                                                              *)

\* A batch is gathered, and is full or the ticker fires.
Gather ==
  /\ at = "collect"
  /\ at' = "ready"
  /\ \E n \in 1..AgentBatch :
       /\ shipped + n <= MaxLines
       /\ read' = shipped + n
  /\ UNCHANGED <<serverVars, shipped, saved, call, content, vanished, mishaps>>

\* One IngestLogs call for the batch, the first or one after a backoff.  Attempts
\* while no server takes calls fail and change nothing.
StartCall ==
  /\ at = "ready"
  /\ \E c \in Call :
       /\ \A d \in Call : d < c <=> stream[d] # "idle"
       /\ OpenStream(c)
       /\ call' = c
       /\ content' = [content EXCEPT ![c] = (shipped + 1)..read]
  /\ at' = "call"
  /\ UNCHANGED <<shipped, read, saved, vanished, mishaps>>

CommitButKeepBatch == UNCHANGED <<shipped, read>>  \* mutant

CommitPosition == shipped' = read /\ UNCHANGED read

\* The receipt has come: commit, which saves the position.  A crash between the
\* two is like one before them; a failing save is logged only.
CallOk ==
  /\ at = "call" /\ stream[call] = "ended"
  /\ at' = "collect" /\ call' = 0
  /\ CommitPosition
  /\ \/ saved' = read /\ UNCHANGED mishaps
     \/ Mishap /\ UNCHANGED saved
  /\ UNCHANGED <<serverVars, content, vanished>>

\* The shipper gives a call up; a handler that is still at work sees its context
\* done.
Hangup ==
  /\ call' = 0
  /\ IF call # 0 /\ stream[call] = "open" /\ Alive
     THEN BreakStream(call)
     ELSE UNCHANGED serverVars

\* sendTimeout passes, or the connection is lost: before, while or after the
\* handler is at work.
CallTimesOut ==
  /\ at = "call" /\ Mishap
  /\ at' = "ready" /\ Hangup
  /\ UNCHANGED <<shipped, read, saved, content, vanished>>

\* The server ended the stream with an error, or died.
CallFails ==
  /\ at = "call" /\ (stream[call] \in {"broken", "failed"} \/ ~Alive)
  /\ at' = "ready" /\ Hangup
  /\ UNCHANGED <<shipped, read, saved, content, vanished, mishaps>>

\* Mutant: the new process goes on where the old one was reading.
ResumeFromRead == shipped' = read /\ read' = read

ResumeFromSaved == shipped' = saved /\ read' = saved

\* Killed and started again: LoadPositions.
AgentRestart ==
  /\ Mishap
  /\ at' = "collect" /\ Hangup
  /\ ResumeFromSaved
  /\ UNCHANGED <<saved, content, vanished>>

AgentStep == Gather \/ StartCall \/ CallOk \/ CallFails

-----------------------------------------------------------------------------
(* The server.                                                             *)

OfServer == UNCHANGED <<agentVars, content, vanished>>

\* A call's entries are handled in the order they were sent.
NextOf(c) == {l \in content[c] : /\ verdict[<<l, c>>] = "unsent"
                                 /\ \A k \in content[c] : k < l => verdict[<<k, c>>] # "unsent"}

HandleNext(c) ==
  /\ \E l \in NextOf(c) : HandleEntry(c, <<l, c>>)
  /\ OfServer /\ UNCHANGED mishaps

\* Mutant: the receipt does not wait for the last entry.
AllHandledButOne(c) == Cardinality({l \in content[c] : verdict[<<l, c>>] = "unsent"}) <= 1

AllHandled(c) == NextOf(c) = {}

\* CloseSend has arrived after the last entry.
Answer(c) ==
  /\ AllHandled(c) /\ EndStream(c)
  /\ OfServer /\ UNCHANGED mishaps

InServer(A) == A /\ OfServer /\ UNCHANGED mishaps /\ WithinBound

\* What Run, Close and the handlers' errors do.
ProcessStep ==
  \/ \E c \in Call : FailStream(c)
  \/ BeginDrain \/ DrainTimeout \/ DrainDone \/ CloseIngester \/ CloseReturns

\* What goes on in the process by itself.
ServerStep == InServer(ProcessStep \/ (\E w \in Worker : PoolStep(w)) \/ Database)

\* SIGTERM, a serve error, or the kill of the process: out of memory, node gone.
Shutdown == Signal /\ Mishap /\ OfServer

ServerDies ==
  /\ Alive /\ Mishap
  /\ \/ ServeFails
     \/ proc' = "fatal" /\ UNCHANGED <<ingesterVars, streamVars>>
  /\ OfServer

\* Kubernetes starts a new process, which comes to serve when New has reached the
\* database (module Startup); it knows nothing of the old one's entries.
ServerStarts ==
  /\ ~Alive /\ dbUp
  /\ proc' = "serving"
  /\ vanished' = vanished \cup Range(ch) \cup InBatch
  /\ stream' = [c \in Call |-> IF c \in Running THEN "failed" ELSE stream[c]]
  /\ ch' = <<>> /\ closed' = FALSE /\ cancelled' = FALSE /\ stopped' = FALSE
  /\ pc' = [w \in Worker |-> "select"]
  /\ batch' = [w \in Worker |-> <<>>]
  /\ leaving' = [w \in Worker |-> FALSE]
  /\ UNCHANGED <<verdict, givenUp, dbVars, counted, receipt, agentVars,
                 content, mishaps>>

PipelineNext ==
  \/ AgentStep \/ CallTimesOut \/ AgentRestart
  \/ \E c \in Call : HandleNext(c) \/ Answer(c)
  \/ ServerStep \/ Shutdown \/ ServerDies \/ ServerStarts

PipelineSpec == PipelineInit /\ [][PipelineNext]_pipelineVars

\* The shipper, Run and the workers go on, the transport delivers what was sent,
\* and Kubernetes starts a new process for one that ended.  Calls have finitely
\* many entries, so it is enough that some handler goes on.
PipelineFairness ==
  /\ WF_pipelineVars(AgentStep)
  /\ WF_pipelineVars(\E c \in Call : HandleNext(c) \/ Answer(c))
  /\ WF_pipelineVars(InServer(ProcessStep))
  /\ \A w \in Worker : WF_pipelineVars(InServer(PoolStep(w)))
  /\ WF_pipelineVars(ServerStarts)

FairPipelineSpec == PipelineSpec /\ PipelineFairness

-----------------------------------------------------------------------------
(* Properties.                                                             *)

LinesOf(E) == {e[1] : e \in E}
Memory == IF Alive THEN Range(ch) \cup InBatch ELSE {}
Refused == {e \in Entry : verdict[e] = "full"}
Gone == vanished \cup givenUp \cup (IF Alive THEN {} ELSE Range(ch) \cup InBatch)

\* Types of both sides; the agent's position on disk is never ahead of the one in
\* memory, nor that of what was read.
PipelineTypeOK ==
  /\ ServerTypeOK
  /\ at \in {"collect", "ready", "call"}
  /\ saved \in 0..shipped /\ shipped \in 0..read /\ read \in 0..MaxLines
  /\ call \in Call \cup {0} /\ (call # 0 <=> at = "call")
  /\ mishaps \in 0..MaxMishaps

\* Agent, server and table together implement module Delivery.
Promise == INSTANCE Delivery WITH
  handed <- LinesOf(Accepted \cup Refused),
  held   <- LinesOf(Memory),
  stored <- LinesOf(Stored),
  server <- IF ~Alive THEN "down" ELSE IF cancelled THEN "stopping" ELSE "up"

ImplementsDelivery == Promise!Spec

\* The shipper of this module does what module OneFile shows of the agent.
Lines == INSTANCE Shipper WITH
           BatchSize <- AgentBatch,
           at        <- IF at = "call" THEN "ready" ELSE at,
           handed    <- LinesOf(Accepted \cup Refused)

\* "Only after that receipt is it safe to save the batch's file positions"
\* (Shipper): positions move over a batch only once the server has handled each of
\* its lines, though calls that were given up go on by themselves and their
\* lines still arrive.
ImplementsShipper == Lines!Spec

\* "Delivery is at-least-once" (Shipper), and where it is not the cause has a
\* name: a line behind the saved position is in the table, or in the memory of the
\* live server, or it was refused by a full buffer, or a process that ended or
\* was told to stop let it go.
SavedLinesAccountedFor ==
  1..saved \subseteq LinesOf(Stored \cup Memory \cup Refused \cup Gone)

RowsOf(l) == MapThenSumSet(LAMBDA c : rows[<<l, c>>], Call)

\* "If a batch reaches the server but the receipt is lost, the batch is sent
\* again, and those lines are stored twice" (Shipper), and an insert whose reply
\* was lost is repeated: the two multiply, and nothing else repeats a line.
RowsNeedMishaps == \A l \in Line : RowsOf(l) <= (1 + mishaps) * (1 + lostAcks)

\* "Losing lines is the worse failure" (Shipper): with a database that is back for
\* good all lines are eventually in the table, over timeouts, crashes and
\* restarts of both sides, but for those refused or let go by a process.
LinesGetStored == <>[]dbUp => <>(Line \subseteq LinesOf(Stored \cup Refused \cup Gone))

=============================================================================
