------------------------------ MODULE LogAgent ------------------------------
(***************************************************************************)
(* The node log agent, internal/logagent: the tailer goroutine polls the   *)
(* container log files and sends complete messages on a channel; the       *)
(* shipper goroutine gathers batches, delivers each as one IngestLogs call *)
(* and, once it has the receipt, saves how far each file was shipped.      *)
(*                                                                         *)
(* External: the container runtime that writes, rotates and removes files, *)
(* and the server, which accepts or drops (buffer full) each entry of a    *)
(* call, and whose receipt may be lost after any prefix has arrived.       *)
(*                                                                         *)
(* An offset counts lines.  A line is in a file once its newline is.  Glob *)
(* visits paths in name order; here any order is possible.                 *)
(*                                                                         *)
(* The agent knows a file by its inode number and its length.  What it     *)
(* cannot see is kept beside them: each content a file has had since it    *)
(* was created or last truncated is a life, and inode numbers are used     *)
(* again.  Lives are numbered in the order they began.                     *)
(***************************************************************************)
EXTENDS Naturals, Sequences, FiniteSets, FiniteSetsExt, Functions

CONSTANTS
  Path,         \* wanted log files (ParseFileName and wanted accept them)
  NoPath,       \* no file
  Stream,       \* "stdout", "stderr"
  Kind,         \* which kinds of lines the runtime writes, see Kinds
  BatchSize,    \* Config.BatchSize, also the capacity of the channel
  MaxLines,     \* bound: lines written in all
  MaxInodes,    \* bound: inode numbers
  MaxLives,     \* bound: files created, and truncations in place, in all
  Mishap,       \* which kinds of mishaps may happen, see Mishaps
  MaxMishaps,   \* bound: mishaps in all
  MayCancel     \* the agent may be told to shut down

\* "F": the last or only line of a message; "P": a partial line before it;
\* "malformed": ParseLine refuses it; "excluded": the message matches Exclude;
\* "unsendable": it ends a message that is not valid UTF-8.
Kinds == {"F", "P", "malformed", "excluded", "unsendable"}

\* "restart": a crash, or a start after a shutdown; "fault": a call that fails, or
\* a failing save of the positions; "drop": the server drops an entry; "unlisted":
\* Glob misses a file.
Mishaps == {"restart", "fault", "drop", "unlisted"}

ASSUME AgentAssumption ==
  /\ NoPath \notin Path
  /\ Kind \subseteq Kinds
  /\ BatchSize \in Nat \ {0}
  /\ Mishap \subseteq Mishaps
  /\ {MaxLines, MaxInodes, MaxLives, MaxMishaps} \subseteq Nat
  /\ MayCancel \in BOOLEAN

Inode == 1..MaxInodes
Line  == [id : 1..MaxLines, stream : Stream, kind : Kind]

\* Position; an absent one is inode 0, which no file has.  The agent does not
\* know the field life.
Position   == [inode : {0} \cup Inode, life : 0..MaxLives, offset : 0..MaxLines]
NoPosition == [inode |-> 0, life |-> 0, offset |-> 0]
NoState    == [inode |-> 0, life |-> 0, offset |-> 0, pending |-> <<>>]
NoEntry    == [file |-> NoPath, inode |-> 0, life |-> 0, offset |-> 0, message |-> <<>>]

VARIABLES
  names,     \* the directory: path -> inode, 0 when there is no such file
  home,      \* life -> inode
  data,      \* life -> its lines
  written,   \* lines written so far
  tpc,       \* where the tailer is
  seen,      \* Poll's seen
  todo,      \* paths of this pass not visited yet
  reading,   \* the path readFile has open
  files,     \* Tailer.files: path -> fileState
  buf,       \* what bufio.Reader has read ahead
  out,       \* the entry the tailer is sending
  ch,        \* the channel
  spc,       \* where the shipper is
  final,     \* the shipper is in final
  batch,     \* Shipper.Run's batch
  positions, \* Positions.m
  saved,     \* the positions file
  cancelled, \* the agent's context is done
  restarts, faults, drops, unlisted,  \* how often, so far
  copies,    \* how often the server accepted each line, by id
  dropped,   \* ids of lines the server dropped
  abandoned, \* ids of lines in batches flush abandoned
  missed     \* ids of lines of another life an offset was mistaken for

diskVars    == <<names, home, data, written>>
tailerVars  == <<tpc, seen, todo, reading, files, buf, out, unlisted, missed>>
shipperVars == <<spc, final, batch>>
serverVars  == <<faults, drops, copies, dropped, abandoned>>
agentVars   == <<diskVars, tailerVars, ch, shipperVars, positions, saved,
                 cancelled, restarts, serverVars>>

Ids(message) == {l.id : l \in Range(message)}
IdsOf(entries) == UNION {Ids(e.message) : e \in Range(entries)}
Accepted == {i \in 1..MaxLines : copies[i] > 0}

\* n more mishaps of kind k are within the bound.
May(k, n) ==
  n > 0 => k \in Mishap /\ restarts + faults + drops + unlisted + n <= MaxMishaps

\* The life inode i has now, and what can be read from it.
Life(i)    == Max({l \in DOMAIN home : home[l] = i})
Content(i) == data[Life(i)]

Init ==
  /\ names = [p \in Path |-> 0]
  /\ home = <<>> /\ data = <<>> /\ written = 0
  /\ saved = [p \in Path |-> NoPosition]
  /\ positions = saved
  /\ tpc = "idle" /\ seen = {} /\ todo = {} /\ reading = NoPath
  /\ files = [p \in Path |-> NoState] /\ buf = <<>> /\ out = NoEntry
  /\ ch = <<>>
  /\ spc = "collect" /\ final = FALSE /\ batch = <<>>
  /\ cancelled = FALSE
  /\ restarts = 0 /\ faults = 0 /\ drops = 0 /\ unlisted = 0
  /\ copies = [i \in 1..MaxLines |-> 0]
  /\ dropped = {} /\ abandoned = {} /\ missed = {}

-----------------------------------------------------------------------------
(* The files: what the container runtime and the kubelet do to them.       *)

\* Neither path nor open file leads to inode i: its number may be used again.
OpenInode == IF reading = NoPath THEN {} ELSE {files[reading].inode}
Unused(i) == i \notin Range(names) \cup OpenInode

BeginLife(i) ==
  /\ Len(home) < MaxLives
  /\ home' = Append(home, i)
  /\ data' = Append(data, <<>>)

\* A file appears under p: a container starts, or its log is rotated and the
\* path suddenly names a new, empty file.  Its inode is the next new one, or
\* that of a file deleted before.
NewFile(p) ==
  /\ \E i \in Inode :
       /\ Unused(i) /\ i <= Cardinality(Range(home)) + 1
       /\ BeginLife(i)
       /\ names' = [names EXCEPT ![p] = i]
  /\ UNCHANGED written

\* The container is gone, and its log with it.
RemoveFile(p) ==
  /\ names[p] # 0
  /\ names' = [names EXCEPT ![p] = 0]
  /\ UNCHANGED <<home, data, written>>

\* A stream's line is complete.  Partial lines of one stream are continued by
\* that stream; the other stream's lines may come in between.
WriteLine(p, s, k) ==
  /\ names[p] # 0 /\ written < MaxLines
  /\ written' = written + 1
  /\ data' = [data EXCEPT ![Life(names[p])] =
                Append(@, [id |-> written + 1, stream |-> s, kind |-> k])]
  /\ UNCHANGED <<names, home>>

Truncate(p) ==
  /\ names[p] # 0 /\ Content(names[p]) # <<>>
  /\ BeginLife(names[p])
  /\ UNCHANGED <<names, written>>

NodeStep ==
  /\ \E p \in Path :
       \/ NewFile(p) \/ RemoveFile(p) \/ Truncate(p)
       \/ \E s \in Stream, k \in Kind : WriteLine(p, s, k)
  /\ UNCHANGED <<tailerVars, ch, shipperVars, positions, saved, cancelled,
                 restarts, serverVars>>

-----------------------------------------------------------------------------
(* Tailer.Run, Poll and readFile.                                          *)

\* The ticker, or the first pass: Glob.  It reports no error when it cannot
\* read the directory, or not all of it: files are missing from its result.
PollStarts ==
  /\ tpc = "idle"
  /\ tpc' = "scan"
  /\ LET there == {p \in Path : names[p] # 0}
     IN  \/ seen' = there /\ UNCHANGED unlisted
         \/ /\ May("unlisted", 1)
            /\ seen' \in SUBSET there \ {there}
            /\ unlisted' = unlisted + 1
  /\ todo' = seen'
  /\ UNCHANGED <<reading, files, buf, out, missed, positions>>

\* Mutant: the saved position is not used.
ResumeFromTop(p) ==
  [inode |-> names[p], life |-> Life(names[p]), offset |-> 0, pending |-> <<>>]

\* The first visit: from the saved position, if it is of this same file.
Resume(p) ==
  LET same == positions[p].inode = names[p]
  IN  [inode   |-> names[p],
       life    |-> IF same THEN positions[p].life ELSE Life(names[p]),
       offset  |-> IF same THEN positions[p].offset ELSE 0,
       pending |-> <<>>]

\* Mutant: only the length is looked at.
ShrankOnly(st, p) == Len(Content(names[p])) < st.offset

\* Rotated or truncated.
Restarted(st, p) == st.inode # names[p] \/ Len(Content(names[p])) < st.offset

\* Mutant: the chunks of the old file are kept.
StartOverKeepingPending(st, p) ==
  [st EXCEPT !.inode = names[p], !.life = Life(names[p]), !.offset = 0]

StartOver(st, p) ==
  [inode |-> names[p], life |-> Life(names[p]), offset |-> 0, pending |-> <<>>]

\* The state readFile goes on with.
Current(p) ==
  LET st == IF files[p] = NoState THEN Resume(p) ELSE files[p]
  IN  IF Restarted(st, p) THEN StartOver(st, p) ELSE st

\* The offset was counted in an earlier life of the same inode, and the file is
\* long enough again: st goes on in the life of today, past lines never read,
\* with chunks of the old one.
Stale(st)  == st.life # Life(st.inode) /\ home[st.life] = st.inode
Jumped(st) == IF Stale(st) THEN Ids(SubSeq(Content(st.inode), 1, st.offset)) \cup Ids(st.pending)
                           ELSE {}
Today(st)  == [st EXCEPT !.life = Life(st.inode)]

\* os.Open fails: the file is skipped this pass.
OpenFails(p) ==
  /\ tpc = "scan" /\ p \in todo /\ names[p] = 0
  /\ todo' = todo \ {p}
  /\ UNCHANGED <<tpc, seen, reading, files, buf, out, unlisted, missed, positions>>

OpenFile(p) ==
  /\ tpc = "scan" /\ p \in todo /\ names[p] # 0
  /\ todo' = todo \ {p}
  /\ files' = [files EXCEPT ![p] = Today(Current(p))]
  /\ missed' = missed \cup Jumped(Current(p))
  /\ IF Current(p).offset = Len(Content(names[p]))
     THEN UNCHANGED <<tpc, reading>>
     ELSE tpc' = "read" /\ reading' = p
  /\ UNCHANGED <<seen, buf, out, unlisted, positions>>

\* The rest of the open file, the one its state names, whatever path leads to it
\* now: what was read ahead, then what is there.
InFile(st) == SubSeq(Content(st.inode), st.offset + 1, Len(Content(st.inode)))
Unread(p)  == IF buf # <<>> THEN buf ELSE InFile(files[p])

\* io.EOF: the rest, if any, waits for the next pass.
EndOfFile ==
  /\ tpc = "read" /\ Unread(reading) = <<>>
  /\ tpc' = "scan" /\ reading' = NoPath
  /\ UNCHANGED <<seen, todo, files, buf, out, unlisted, missed, positions>>

\* The state after a line whose chunks so far are pending.
Advance(st, pending) ==
  files' = [files EXCEPT ![reading] = [st EXCEPT !.offset = @ + 1, !.pending = pending]]

Completes(line) == line.kind \in {"F", "unsendable"}

\* One line: skipped (and the chunks kept) when malformed, kept when partial,
\* skipped with its chunks when excluded, else on its way into the channel.
ReadLine ==
  /\ tpc = "read" /\ Unread(reading) # <<>>
  /\ LET line == Head(Unread(reading))
         here == files[reading]
         st   == IF buf = <<>> THEN Today(here) ELSE here
     IN  /\ missed' = IF buf = <<>> THEN missed \cup Jumped(here) ELSE missed
         /\ \/ /\ line.kind = "malformed"
               /\ Advance(st, st.pending)
               /\ UNCHANGED <<tpc, out>>
            \/ /\ line.kind = "P"
               /\ Advance(st, Append(st.pending, line))
               /\ UNCHANGED <<tpc, out>>
            \/ /\ line.kind = "excluded"
               /\ Advance(st, <<>>)
               /\ UNCHANGED <<tpc, out>>
            \/ /\ Completes(line)
               /\ Advance(st, <<>>)
               /\ tpc' = "send"
               /\ out' = [file |-> reading, inode |-> st.inode, life |-> st.life,
                          offset |-> st.offset + 1, message |-> Append(st.pending, line)]
  /\ buf' = Tail(Unread(reading))
  /\ UNCHANGED <<seen, todo, reading, unlisted, positions>>

\* Poll's end: files not seen in this pass are forgotten.
PollEnds ==
  /\ tpc = "scan" /\ todo = {}
  /\ tpc' = "idle" /\ seen' = {}
  /\ files' = [p \in Path |-> IF p \in seen THEN files[p] ELSE NoState]
  /\ positions' = [p \in Path |-> IF p \in seen THEN positions[p] ELSE NoPosition]
  /\ UNCHANGED <<todo, reading, buf, out, unlisted, missed>>

\* ctx.Done between two passes.  Run returns and closes the channel.
TailerStops ==
  /\ tpc = "idle" /\ cancelled
  /\ tpc' = "stopped"
  /\ UNCHANGED <<seen, todo, reading, files, buf, out, unlisted, missed, positions>>

\* ctx.Done while sending: the entry is not sent, Poll and Run return.
SendCancelled ==
  /\ tpc = "send" /\ cancelled
  /\ tpc' = "stopped" /\ reading' = NoPath /\ buf' = <<>>
  /\ out' = NoEntry
  /\ UNCHANGED <<seen, todo, files, unlisted, missed, positions>>

TailerStep ==
  /\ \/ PollStarts \/ PollEnds \/ TailerStops \/ SendCancelled
     \/ EndOfFile \/ ReadLine
     \/ \E p \in Path : OpenFails(p) \/ OpenFile(p)
  /\ UNCHANGED <<diskVars, ch, shipperVars, saved, cancelled, restarts, serverVars>>

HasRoomOffByOne == Len(ch) <= BatchSize  \* mutant

HasRoom == Len(ch) < BatchSize

SendEntry ==
  /\ tpc = "send" /\ HasRoom
  /\ ch' = Append(ch, out)
  /\ tpc' = "read" /\ out' = NoEntry
  /\ UNCHANGED <<diskVars, seen, todo, reading, files, buf, unlisted, missed,
                 shipperVars, positions, saved, cancelled, restarts, serverVars>>

-----------------------------------------------------------------------------
(* Shipper.Run, flush, final, send and commit.                             *)

\* A full batch is flushed, unless the shutdown has begun.
Receive ==
  /\ spc = "collect" /\ ch # <<>>
  /\ ch' = Tail(ch)
  /\ batch' = Append(batch, Head(ch))
  /\ spc' = IF Len(batch') >= BatchSize /\ ~cancelled THEN "call" ELSE "collect"
  /\ UNCHANGED <<final, positions, saved, serverVars>>

\* The flush ticker.
Tick ==
  /\ spc = "collect" /\ batch # <<>> /\ ~cancelled
  /\ spc' = "call"
  /\ UNCHANGED <<ch, final, batch, positions, saved, serverVars>>

\* The channel is closed and empty: final, which does nothing without a batch.
ChannelClosed ==
  /\ spc = "collect" /\ tpc = "stopped" /\ ch = <<>>
  /\ final' = TRUE
  /\ spc' = IF batch = <<>> THEN "returned" ELSE "call"
  /\ UNCHANGED <<ch, batch, positions, saved, serverVars>>

\* The first n entries reach the server; it drops those numbered in D.
Deliver(n, D) ==
  LET kept == UNION {Ids(batch[k].message) : k \in (1..n) \ D}
  IN  /\ May("drop", Cardinality(D))
      /\ drops' = drops + Cardinality(D)
      /\ copies' = [i \in 1..MaxLines |-> IF i \in kept THEN copies[i] + 1 ELSE copies[i]]
      /\ dropped' = dropped \cup UNION {Ids(batch[k].message) : k \in D}

\* commit: every entry's position is set, in order, so the last one of each file
\* stays; entries the server dropped count as well.
Committed ==
  [p \in Path |->
     LET mine == {k \in DOMAIN batch : batch[k].file = p}
         last == CHOOSE k \in mine : \A j \in mine : j <= k
     IN  IF mine = {} THEN positions[p]
         ELSE [inode |-> batch[last].inode, life |-> batch[last].life,
               offset |-> batch[last].offset]]

\* The messages before the first one that cannot be marshalled.
Sendable ==
  LET poison == {k \in DOMAIN batch : \E l \in Range(batch[k].message) : l.kind = "unsendable"}
  IN  IF poison = {} THEN Len(batch) ELSE Min(poison) - 1

\* The whole batch and the receipt came through.  The Sets are one step: a Get or
\* Retain between two of them does no more than one before or after them all.
CallOk ==
  /\ spc = "call" /\ (final \/ ~cancelled) /\ Sendable = Len(batch)
  /\ \E D \in SUBSET DOMAIN batch : Deliver(Len(batch), D)
  /\ positions' = Committed
  /\ spc' = "save"
  /\ UNCHANGED <<ch, final, batch, saved, faults, abandoned>>

\* Mutant: a failed call is committed like a good one.
CallFailedButCommits == spc' = "save" /\ positions' = Committed

\* flush waits and tries again; final was the only attempt.
CallFailed ==
  /\ spc' = IF final THEN "returned" ELSE "backoff"
  /\ UNCHANGED positions

\* The call fails after any prefix of what can be sent, or all of it, has arrived.
CallBroken ==
  /\ spc = "call"
  /\ \E n \in 0..Sendable : \E D \in SUBSET (1..n) :
       May("fault", 1 + Cardinality(D)) /\ Deliver(n, D)
  /\ faults' = faults + 1
  /\ CallFailed
  /\ UNCHANGED <<ch, final, batch, saved, abandoned>>

\* flush's context is done: the call fails before it begins.
CallRefused ==
  /\ spc = "call" /\ ~final /\ cancelled
  /\ CallFailed
  /\ UNCHANGED <<ch, final, batch, saved, serverVars>>

\* Send reports a message that cannot be marshalled, at every attempt; whatever
\* arrived before it is CallBroken's.
CallUnsendable ==
  /\ spc = "call" /\ Sendable < Len(batch)
  /\ CallFailed
  /\ UNCHANGED <<ch, final, batch, saved, serverVars>>

Retry ==
  /\ spc = "backoff"
  /\ spc' = "call"
  /\ UNCHANGED <<ch, final, batch, positions, saved, serverVars>>

\* Mutant: the batch is flushed again and again.
FlushEndsKeepingBatch ==
  /\ spc' = IF final THEN "returned" ELSE "collect"
  /\ UNCHANGED batch

FlushEnds ==
  /\ spc' = IF final THEN "returned" ELSE "collect"
  /\ batch' = <<>>

MayNeverAbandon == FALSE  \* mutant

MayAbandon == cancelled

\* ctx.Done during the backoff wait: flush returns and Run empties its batch.
Abandon ==
  /\ spc = "backoff" /\ MayAbandon
  /\ abandoned' = abandoned \cup IdsOf(batch)
  /\ FlushEnds
  /\ UNCHANGED <<ch, final, positions, saved, faults, drops, copies, dropped>>

\* The positions file is replaced by rename, as a whole.
Save ==
  /\ spc = "save"
  /\ saved' = positions
  /\ FlushEnds
  /\ UNCHANGED <<ch, final, positions, serverVars>>

\* Logged only.
SaveFails ==
  /\ spc = "save" /\ May("fault", 1)
  /\ faults' = faults + 1
  /\ FlushEnds
  /\ UNCHANGED <<ch, final, positions, saved, drops, copies, dropped, abandoned>>

ShipperStep ==
  /\ \/ Receive \/ Tick \/ ChannelClosed
     \/ CallOk \/ CallBroken \/ CallRefused \/ CallUnsendable \/ Retry \/ Abandon
     \/ Save \/ SaveFails
  /\ UNCHANGED <<diskVars, tailerVars, cancelled, restarts>>

-----------------------------------------------------------------------------
(* The process.                                                            *)

Ended == spc = "returned"

\* SIGTERM.
Cancel ==
  /\ MayCancel /\ ~cancelled
  /\ cancelled' = TRUE
  /\ UNCHANGED <<diskVars, tailerVars, ch, shipperVars, positions, saved,
                 restarts, serverVars>>

\* A new process takes over: the old one has returned, or it was killed.  It
\* starts with what the positions file says and nothing else.
Restart ==
  /\ May("restart", 1)
  /\ restarts' = restarts + 1
  /\ positions' = saved
  /\ tpc' = "idle" /\ seen' = {} /\ todo' = {} /\ reading' = NoPath
  /\ files' = [p \in Path |-> NoState] /\ buf' = <<>> /\ out' = NoEntry
  /\ ch' = <<>>
  /\ spc' = "collect" /\ final' = FALSE /\ batch' = <<>>
  /\ cancelled' = FALSE
  /\ UNCHANGED <<diskVars, saved, unlisted, missed, serverVars>>

Next ==
  \/ NodeStep \/ TailerStep \/ SendEntry \/ ShipperStep \/ Cancel \/ Restart

Spec == Init /\ [][Next]_agentVars

\* Goroutines are scheduled, tickers and timers fire, a call ends within its
\* timeout.  A select picks at random among ready cases, so one that is ready
\* again and again is taken: strong fairness for the cases of ctx.Done.
FairSpec ==
  /\ Spec
  /\ WF_agentVars(TailerStep) /\ WF_agentVars(SendEntry)
  /\ SF_agentVars(TailerStops /\ TailerStep)
  /\ WF_agentVars(ShipperStep)
  /\ SF_agentVars(Abandon /\ ShipperStep)

-----------------------------------------------------------------------------
(* Properties.                                                             *)

InFlight == Range(ch) \cup Range(batch) \cup (IF out = NoEntry THEN {} ELSE {out})

\* Types, and the channel within the capacity Run makes it with.
TypeOK ==
  /\ names \in [Path -> {0} \cup Inode]
  /\ home \in Seq(Inode) /\ data \in Seq(Seq(Line)) /\ Len(data) = Len(home)
  /\ Len(home) <= MaxLives /\ written \in 0..MaxLines
  /\ tpc \in {"idle", "scan", "read", "send", "stopped"}
  /\ seen \subseteq Path /\ todo \subseteq seen /\ reading \in Path \cup {NoPath}
  /\ \A p \in Path : /\ files[p].inode \in {0} \cup Inode
                     /\ files[p].offset \in 0..MaxLines
                     /\ files[p].pending \in Seq(Line)
  /\ buf \in Seq(Line)
  /\ \A e \in InFlight :
       e.file \in Path /\ [inode |-> e.inode, life |-> e.life, offset |-> e.offset] \in Position
  /\ Len(ch) <= BatchSize
  /\ spc \in {"collect", "call", "backoff", "save", "returned"} /\ final \in BOOLEAN
  /\ positions \in [Path -> Position] /\ saved \in [Path -> Position]
  /\ cancelled \in BOOLEAN
  /\ {restarts, faults, drops, unlisted} \subseteq Nat
  /\ copies \in [1..MaxLines -> Nat]
  /\ dropped \cup abandoned \cup missed \subseteq 1..MaxLines

\* Lines at or before pos, in the content it was counted in, that end a message.
Behind(pos) ==
  IF pos.inode = 0 THEN {}
  ELSE {l.id : l \in {m \in Range(SubSeq(data[pos.life], 1, pos.offset)) : Completes(m)}}

BehindPositions == UNION {Behind(positions[p]) \cup Behind(saved[p]) : p \in Path}

\* "Only after that receipt is it safe to save the batch's file positions"
\* (Shipper): a line behind a position was handed to the server by some call,
\* unless it was in a batch flush abandoned, or in a file that had become another
\* one of the same inode and at least the old length.
OnlyAbandonedSkipped == BehindPositions \subseteq Accepted \cup dropped \cup abandoned \cup missed

\* "A batch abandoned at shutdown is not lost: its positions were never saved,
\* so its lines are read again on the next start" (flush).
AbandonedIsReadAgain == BehindPositions \subseteq Accepted \cup dropped

\* The lines of e's message as its stream wrote them: the line it ends at, and
\* that stream's partial lines since its last full one.
WholeMessage(e) ==
  LET lines  == data[e.life]
      mine   == {k \in 1..e.offset : lines[k].stream = lines[e.offset].stream}
      chunks == {k \in mine : /\ k = e.offset \/ lines[k].kind = "P"
                              /\ \A j \in mine : k <= j /\ j < e.offset
                                                   => lines[j].kind \in {"P", "malformed"}}
  IN  {lines[k].id : k \in chunks}

\* "The runtime splits one long line into several P lines followed by an F, so a
\* message is only complete once its F line has arrived" (Line): every entry on
\* its way holds its whole message and nothing else, also after a restart, a
\* rotation or a truncation, unless an offset was mistaken for one of another life.
MessagesAreWhole ==
  \A e \in InFlight :
    (Ids(e.message) \cup WholeMessage(e)) \cap missed = {} => Ids(e.message) = WholeMessage(e)

\* "Entries arrive in file order, so the last one for each file wins" (commit):
\* the positions file never goes back, neither within a content nor to one that
\* was rotated away or truncated, over crashes and restarts as well, as long as
\* Glob reports every file.
PositionsNeverGoBack ==
  [][\A p \in Path :
       \/ saved'[p] = NoPosition
       \/ saved'[p].life > saved[p].life
       \/ saved'[p].life = saved[p].life /\ saved'[p].offset >= saved[p].offset
       \/ unlisted > 0]_agentVars

\* "If a batch reaches the server but the receipt is lost, the batch is sent
\* again" (Shipper), and for no other reason than that, a restart, or a directory
\* that could not be read.
DuplicatesNeedFaults ==
  \A i \in 1..MaxLines : copies[i] <= 1 + faults + restarts + unlisted

Waiting(p, i) ==
  /\ names[p] # 0
  /\ \E l \in Range(Content(names[p])) : l.id = i /\ Completes(l)

Poisoned == spc \in {"call", "backoff"} /\ Sendable < Len(batch)

\* "during an outage unread lines wait on the node's disk" (Poll): every complete
\* message is eventually handed to the server while its file is there, over
\* failed calls, unreadable directories, crashes, rotations and truncations, as
\* long as no shutdown is asked for.  What can stop it is an offset that looks
\* valid in another life of the inode, and a message that can never be sent.
LinesAreShipped ==
  []~cancelled =>
    \A p \in Path, i \in 1..MaxLines :
      Waiting(p, i) ~> (i \in Accepted \cup dropped \cup missed \/ ~Waiting(p, i) \/ Poisoned)

\* "blocks until ctx is cancelled", then "sends what it still holds, saves the
\* positions, and only then does Run return" (Run): it does return, whatever the
\* server does, with the tailer blocked on a full channel or not.
ShutdownCompletes == cancelled ~> (Ended \/ ~cancelled)

=============================================================================
