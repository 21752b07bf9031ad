--------------------------- MODULE LogAgentProofs ---------------------------
(***************************************************************************)
(* Proofs about module LogAgent, for any number of files, lines, lives,    *)
(* mishaps and restarts and any batch size.                                *)
(***************************************************************************)
EXTENDS LogAgent, TLAPS, Extrema, FiniteSetTheorems, SequenceTheorems

-----------------------------------------------------------------------------
(* The invariant.                                                          *)

Entry     == [file : Path, inode : Inode, life : 1..MaxLives, offset : 0..MaxLines,
              message : Seq(Line)]
FileState == [inode : {0} \cup Inode, life : 0..MaxLives, offset : 0..MaxLines,
              pending : Seq(Line)]

\* s names a place in a content: h and d are the inodes and lines of the lives.
PlacedIn(h, d, s) ==
  /\ s.inode \in Inode /\ s.life \in 1..Len(h) /\ h[s.life] = s.inode
  /\ s.offset \in 0..Len(d[s.life])
Placed(s) == PlacedIn(home, data, s)

DiskTypes ==
  /\ names \in [Path -> {0} \cup Inode]
  /\ home \in Seq(Inode) /\ data \in Seq(Seq(Line)) /\ Len(data) = Len(home)
  /\ Len(home) <= MaxLives /\ written \in 0..MaxLines
  /\ \A l \in 1..Len(home) : Len(data[l]) <= written
  /\ \A p \in Path : names[p] # 0 => names[p] \in Range(home)

\* The reader is where its file's state says, and has read ahead from there.
TailerTypes ==
  /\ tpc \in {"idle", "scan", "read", "send", "stopped"}
  /\ seen \subseteq Path /\ todo \subseteq seen /\ reading \in seen \cup {NoPath}
  /\ reading # NoPath <=> tpc \in {"read", "send"}
  /\ files \in [Path -> FileState]
  /\ \A p \in Path : files[p] = NoState \/ Placed(files[p])
  /\ buf \in Seq(Line)
  /\ reading = NoPath => buf = <<>>
  /\ reading # NoPath => /\ files[reading] # NoState
                         /\ LET st == files[reading]
                            IN  /\ st.offset + Len(buf) <= Len(data[st.life])
                                /\ \A k \in 1..Len(buf) : buf[k] = data[st.life][st.offset + k]
  /\ unlisted \in Nat /\ missed \subseteq 1..MaxLines

FlowTypes ==
  /\ batch \in Seq(Entry) /\ ch \in Seq(Entry) /\ Len(ch) <= BatchSize
  /\ IF tpc = "send" THEN out \in Entry ELSE out = NoEntry
  /\ \A e \in InFlight : Placed(e)

ShipperTypes ==
  /\ spc \in {"collect", "call", "backoff", "save", "returned"} /\ final \in BOOLEAN
  /\ positions \in [Path -> Position] /\ saved \in [Path -> Position]
  /\ \A p \in Path : /\ positions[p] = NoPosition \/ Placed(positions[p])
                     /\ saved[p] = NoPosition \/ Placed(saved[p])
  /\ cancelled \in BOOLEAN /\ {restarts, faults, drops} \subseteq Nat
  /\ copies \in [1..MaxLines -> Nat] /\ dropped \cup abandoned \subseteq 1..MaxLines

AgentTypes == DiskTypes /\ TailerTypes /\ FlowTypes /\ ShipperTypes

\* What is on its way to the server, oldest first.
Flow == batch \o ch \o (IF out = NoEntry THEN <<>> ELSE <<out>>)

\* The lines of the first k entries, and those up to a place that end a message.
IdsTo(f, k)  == UNION {Ids(f[j].message) : j \in 1..k}
PastIn(d, s) == {d[s.life][k].id : k \in {j \in 1..s.offset : Completes(d[s.life][j])}}

Done == Accepted \cup dropped \cup abandoned \cup missed

\* A line that an entry, a position or the reader has gone past is done with, or in
\* an entry that is no later.
PositionsCovered ==
  \A p \in Path : PastIn(data, positions[p]) \subseteq Done /\ PastIn(data, saved[p]) \subseteq Done
FlowCovered ==
  \A k \in 1..Len(Flow) : PastIn(data, Flow[k]) \subseteq Done \cup IdsTo(Flow, k)
FilesCovered ==
  tpc # "stopped" =>
    \A p \in Path : PastIn(data, files[p]) \subseteq Done \cup IdsTo(Flow, Len(Flow))
SaveCovered == spc = "save" => IdsTo(batch, Len(batch)) \subseteq Done

Covered == PositionsCovered /\ FlowCovered /\ FilesCovered /\ SaveCovered

-----------------------------------------------------------------------------
(* The disk.                                                               *)

LEMMA Constants ==
  /\ NoPath \notin Path
  /\ BatchSize \in Nat /\ MaxLines \in Nat /\ MaxInodes \in Nat /\ MaxLives \in Nat
BY AgentAssumption

\* The latest life of i when h is the inodes of the lives.
LifeIn(h, i) == Max({l \in DOMAIN h : h[l] = i})

LEMMA LifeInIs ==
  ASSUME NEW h \in Seq(Inode), NEW i \in Range(h)
  PROVE  /\ i \in Inode /\ Len(h) \in Nat
         /\ LifeIn(h, i) \in 1..Len(h) /\ h[LifeIn(h, i)] = i
         /\ \A l \in 1..Len(h) : h[l] = i => l <= LifeIn(h, i)
<1>. DEFINE S == {l \in DOMAIN h : h[l] = i}
<1>0. Len(h) \in Nat /\ DOMAIN h = 1..Len(h)
  OBVIOUS
<1>1. S # {} /\ S \in SUBSET (0..Len(h))
  BY <1>0 DEF Range
<1>2. \E m \in S : \A k \in S : k <= m
  <2>. HIDE DEF S
  <2>. QED  BY <1>0, <1>1, GreatestOf
<1>3. \A k \in S : k \in Nat
  BY <1>0
<1>4. \E m \in S : \A k \in S : m >= k
  BY <1>2, <1>3
<1>5. LifeIn(h, i) \in S /\ \A k \in S : LifeIn(h, i) >= k
  <2>. HIDE DEF S
  <2>1. Max(S) \in S /\ \A k \in S : Max(S) >= k
    BY <1>4 DEF Max
  <2>. QED  BY <2>1 DEF LifeIn, S
<1>6. i \in Inode
  BY <1>1
<1>. QED  BY <1>0, <1>3, <1>5, <1>6

LEMMA LifeOf ==
  ASSUME DiskTypes, NEW i \in Range(home)
  PROVE  /\ i \in Inode /\ Life(i) = LifeIn(home, i)
         /\ Life(i) \in 1..Len(home) /\ home[Life(i)] = i
         /\ \A l \in 1..Len(home) : home[l] = i => l <= Life(i)
BY LifeInIs DEF Life, LifeIn, DiskTypes

\* Lives are added and lines appended, nothing is changed.
Grown ==
  /\ Len(home) <= Len(home')
  /\ \A l \in 1..Len(home) :
       /\ home'[l] = home[l]
       /\ Len(data[l]) <= Len(data'[l])
       /\ \A k \in 1..Len(data[l]) : data'[l][k] = data[l][k]

LEMMA NewLife ==
  ASSUME DiskTypes, NEW i \in Inode, BeginLife(i)
  PROVE  /\ Grown
         /\ home' \in Seq(Inode) /\ data' \in Seq(Seq(Line)) /\ Len(data') = Len(home')
         /\ Len(home') = Len(home) + 1 /\ Len(home') <= MaxLives
         /\ home'[Len(home')] = i /\ data'[Len(home')] = <<>>
         /\ \A l \in 1..Len(home) : home'[l] = home[l] /\ data'[l] = data[l]
         /\ Range(home') = Range(home) \cup {i}
<1>0. /\ home \in Seq(Inode) /\ data \in Seq(Seq(Line)) /\ Len(data) = Len(home)
      /\ Len(home) \in Nat /\ MaxLives \in Nat /\ <<>> \in Seq(Line)
  BY Constants DEF DiskTypes
<1>1. /\ home' = Append(home, i) /\ data' = Append(data, <<>>)
      /\ Len(home) < MaxLives
  BY DEF BeginLife
<1>2. /\ home' \in Seq(Inode) /\ Len(home') = Len(home) + 1
      /\ home'[Len(home')] = i /\ \A l \in 1..Len(home) : home'[l] = home[l]
  BY <1>0, <1>1
<1>3. /\ data' \in Seq(Seq(Line)) /\ Len(data') = Len(home')
      /\ data'[Len(home')] = <<>> /\ \A l \in 1..Len(home) : data'[l] = data[l]
  BY <1>0, <1>1
<1>4. Range(home') = Range(home) \cup {i}
  <2>1. /\ DOMAIN home = 1..Len(home) /\ DOMAIN home' = 1..(Len(home) + 1)
        /\ \A k \in 1..(Len(home) + 1) : k \in 1..Len(home) \/ k = Len(home) + 1
    BY <1>0, <1>2
  <2>. QED  BY <1>0, <1>2, <2>1 DEF Range
<1>5. \A l \in 1..Len(home) : data[l] \in Seq(Line)
  BY <1>0
<1>6. \A l \in 1..Len(home) : Len(data[l]) \in Nat
  BY <1>5
<1>. QED  BY <1>0, <1>1, <1>2, <1>3, <1>4, <1>6 DEF Grown

LEMMA LineSeqs ==
  ASSUME DiskTypes
  PROVE  /\ Len(home) \in Nat
         /\ \A l \in 1..Len(home) : data[l] \in Seq(Line) /\ Len(data[l]) \in 0..MaxLines
<1>1. \A l \in 1..Len(home) : data[l] \in Seq(Line)
  BY DEF DiskTypes
<1>2. Len(home) \in Nat /\ \A l \in 1..Len(home) : Len(data[l]) \in Nat /\ Len(data[l]) <= written
  BY <1>1 DEF DiskTypes
<1>. QED  BY <1>1, <1>2, Constants DEF DiskTypes

LEMMA NewFileTypes ==
  ASSUME DiskTypes, NEW p \in Path, NewFile(p)
  PROVE  DiskTypes' /\ Grown
<1>1. PICK i \in Inode : BeginLife(i) /\ names' = [names EXCEPT ![p] = i] /\ written' = written
  BY DEF NewFile
<1>2. /\ names \in [Path -> {0} \cup Inode] /\ written \in 0..MaxLines
      /\ \A l \in 1..Len(home) : Len(data[l]) <= written
      /\ \A q \in Path : names[q] # 0 => names[q] \in Range(home)
  BY DEF DiskTypes
<1>3. /\ names' \in [Path -> {0} \cup Inode]
      /\ \A q \in Path : names'[q] \in {names[q], i}
  BY <1>1, <1>2
<1>4. \A l \in 1..Len(home') : l \in 1..Len(home) \/ l = Len(home')
  BY <1>1, NewLife DEF DiskTypes
<1>5. \A l \in 1..Len(home') : Len(data'[l]) <= written'
  <2>1. \A l \in 1..Len(home) : Len(data'[l]) <= written'
    BY <1>1, <1>2, NewLife
  <2>2. Len(data'[Len(home')]) = 0
    BY <1>1, NewLife
  <2>. QED  BY <1>1, <1>2, <1>4, <2>1, <2>2, Constants
<1>. QED  BY <1>1, <1>2, <1>3, <1>5, NewLife DEF DiskTypes

LEMMA TruncateTypes ==
  ASSUME DiskTypes, NEW p \in Path, Truncate(p)
  PROVE  DiskTypes' /\ Grown
<1>1. names[p] \in Inode /\ BeginLife(names[p]) /\ UNCHANGED <<names, written>>
  BY DEF Truncate, DiskTypes
<1>2. \A l \in 1..Len(home') : l \in 1..Len(home) \/ l = Len(home')
  BY <1>1, NewLife DEF DiskTypes
<1>3. \A l \in 1..Len(home') : Len(data'[l]) <= written'
  <2>1. \A l \in 1..Len(home) : Len(data'[l]) <= written'
    BY <1>1, NewLife DEF DiskTypes
  <2>2. Len(data'[Len(home')]) = 0
    BY <1>1, NewLife
  <2>. QED  BY <1>1, <1>2, <2>1, <2>2, Constants DEF DiskTypes
<1>. QED  BY <1>1, <1>3, NewLife DEF DiskTypes

\* A line is written at the end of the latest life.
LEMMA WriteTypes ==
  ASSUME DiskTypes, NEW p \in Path, NEW s \in Stream, NEW k \in Kind, WriteLine(p, s, k)
  PROVE  DiskTypes' /\ Grown /\ UNCHANGED <<names, home>>
<1>. DEFINE L    == Life(names[p])
            line == [id |-> written + 1, stream |-> s, kind |-> k]
<1>1. L \in 1..Len(home)
  BY LifeOf DEF WriteLine, DiskTypes
<1>2. line \in Line /\ written' = written + 1 /\ written' \in 0..MaxLines
  BY Constants DEF WriteLine, DiskTypes, Line
<1>3. /\ data \in Seq(Seq(Line)) /\ Len(data) = Len(home) /\ data[L] \in Seq(Line)
      /\ data' = [data EXCEPT ![L] = Append(data[L], line)]
      /\ UNCHANGED <<names, home>>
  BY <1>1 DEF WriteLine, DiskTypes
<1>4. /\ Append(data[L], line) \in Seq(Line)
      /\ Len(Append(data[L], line)) = Len(data[L]) + 1
      /\ \A j \in 1..Len(data[L]) : Append(data[L], line)[j] = data[L][j]
  BY <1>2, <1>3
<1>5. /\ data' \in Seq(Seq(Line)) /\ Len(data') = Len(data)
      /\ \A l \in 1..Len(home) : data'[l] = IF l = L THEN Append(data[L], line) ELSE data[l]
  BY <1>1, <1>3, <1>4, ExceptSeq
<1>6. \A l \in 1..Len(home) : Len(data[l]) \in Nat /\ Len(data[l]) <= written
  BY LineSeqs DEF DiskTypes
<1>7. \A l \in 1..Len(home') : Len(data'[l]) <= written'
  <2>1. written \in Nat /\ Len(home') = Len(home)
    BY <1>3, Constants DEF DiskTypes
  <2>2. \A l \in 1..Len(home) : Len(data'[l]) = Len(data[l]) \/ Len(data'[l]) = Len(data[l]) + 1
    <3>. HIDE DEF L, line
    <3>. QED  BY <1>4, <1>5
  <2>. QED  BY <1>2, <1>6, <2>1, <2>2
<1>8. Grown
  <2>. HIDE DEF L
  <2>. QED  BY <1>3, <1>4, <1>5, <1>6 DEF Grown, DiskTypes
<1>. QED  BY <1>2, <1>3, <1>5, <1>7, <1>8 DEF DiskTypes

LEMMA DiskStep == DiskTypes /\ [Next]_agentVars => DiskTypes' /\ Grown
<1>. SUFFICES ASSUME DiskTypes, [Next]_agentVars PROVE DiskTypes' /\ Grown
  OBVIOUS
<1>1. CASE UNCHANGED diskVars
  BY <1>1, LineSeqs DEF diskVars, DiskTypes, Grown
<1>2. CASE NodeStep
  <2>1. PICK p \in Path : \/ NewFile(p) \/ Truncate(p) \/ RemoveFile(p)
                          \/ \E s \in Stream, k \in Kind : WriteLine(p, s, k)
    BY <1>2 DEF NodeStep
  <2>2. CASE RemoveFile(p)
    BY <2>2, LineSeqs DEF RemoveFile, DiskTypes, Grown
  <2>. QED  BY <2>1, <2>2, NewFileTypes, TruncateTypes, WriteTypes
<1>3. CASE TailerStep \/ SendEntry \/ ShipperStep \/ Cancel \/ Restart \/ UNCHANGED agentVars
  BY <1>1, <1>3 DEF TailerStep, SendEntry, ShipperStep, Cancel, Restart, agentVars
<1>. QED  BY <1>2, <1>3 DEF Next

-----------------------------------------------------------------------------
(* Places in the contents.                                                 *)

\* A place stays one, with the same lines before it.
LEMMA PlaceStays ==
  ASSUME DiskTypes, Grown, NEW s, Placed(s)
  PROVE  PlacedIn(home', data', s)
<1>1. /\ s.life \in 1..Len(home) /\ s.offset \in 0..Len(data[s.life])
      /\ home[s.life] = s.inode
  BY DEF Placed, PlacedIn
<1>2. Len(home) \in Nat /\ Len(data[s.life]) \in Nat
  BY <1>1, LineSeqs
<1>3. /\ Len(home) <= Len(home') /\ home'[s.life] = home[s.life]
      /\ Len(data[s.life]) <= Len(data'[s.life])
  BY <1>1 DEF Grown
<1>4. s.life \in 1..Len(home') /\ s.offset \in 0..Len(data'[s.life])
  BY <1>1, <1>2, <1>3
<1>5. s.inode \in Inode
  BY DEF Placed, PlacedIn
<1>. QED  BY <1>1, <1>3, <1>4, <1>5 DEF PlacedIn

\* The lines before a place are the same ones.
LEMMA LinesStay ==
  ASSUME DiskTypes, Grown, NEW s, Placed(s)
  PROVE  s.offset \in Nat /\ \A k \in 1..s.offset : data'[s.life][k] = data[s.life][k]
<1>1. s.life \in 1..Len(home) /\ s.offset \in 0..Len(data[s.life])
  BY DEF Placed, PlacedIn
<1>2. Len(data[s.life]) \in Nat
  BY <1>1, LineSeqs
<1>3. s.offset \in Nat /\ \A k \in 1..s.offset : k \in 1..Len(data[s.life])
  BY <1>1, <1>2
<1>4. \A k \in 1..Len(data[s.life]) : data'[s.life][k] = data[s.life][k]
  BY <1>1 DEF Grown
<1>. QED  BY <1>3, <1>4

\* The lines at or before a place that end a message.
LEMMA PastStays ==
  ASSUME DiskTypes, Grown, NEW s, Placed(s)
  PROVE  PastIn(data', s) = PastIn(data, s)
<1>1. \A k \in 1..s.offset : data'[s.life][k] = data[s.life][k]
  BY LinesStay
<1>. QED  BY <1>1 DEF PastIn

LEMMA PastNone ==
  /\ \A d, s : s.offset = 0 => PastIn(d, s) = {}
  /\ NoPosition.offset = 0 /\ NoState.offset = 0
BY DEF PastIn, NoPosition, NoState

LEMMA BehindIs ==
  ASSUME DiskTypes, NEW s, Placed(s)
  PROVE  Behind(s) = PastIn(data, s)
<1>. DEFINE D == data[s.life]
            S == SubSeq(D, 1, s.offset)
<1>1. /\ D \in Seq(Line) /\ Len(D) \in Nat /\ s.offset \in 0..Len(D) /\ s.inode # 0
  BY LineSeqs DEF Placed, PlacedIn, Inode
<1>2. DOMAIN S = 1..s.offset /\ \A k \in 1..s.offset : S[k] = D[k]
  <2>. HIDE DEF D
  <2>1. /\ S \in Seq(Line) /\ Len(S) = s.offset
        /\ \A k \in 1..s.offset : S[k] = D[k]
    BY <1>1, SubSeqProperties
  <2>. QED  BY <2>1
<1>3. Range(S) = {D[k] : k \in 1..s.offset}
  BY <1>2 DEF Range
<1>4. Behind(s) = {l.id : l \in {m \in Range(S) : Completes(m)}}
  BY <1>1 DEF Behind
<1>. QED  BY <1>3, <1>4 DEF PastIn

-----------------------------------------------------------------------------
(* The tailer's places.                                                    *)

LEMMA TodayPlaced ==
  ASSUME DiskTypes, NEW st \in FileState, st.inode \in Range(home),
         st.offset <= Len(Content(st.inode))
  PROVE  /\ Today(st) \in FileState /\ Placed(Today(st))
         /\ Today(st).inode = st.inode /\ Today(st).offset = st.offset
         /\ Today(st).pending = st.pending /\ Today(st).life = Life(st.inode)
<1>1. /\ Life(st.inode) \in 1..Len(home) /\ home[Life(st.inode)] = st.inode
      /\ st.inode \in Inode
  BY LifeOf
<1>2. Life(st.inode) \in 0..MaxLives
  BY <1>1, LineSeqs, Constants DEF DiskTypes
<1>3. Len(data[Life(st.inode)]) \in Nat
  BY <1>1, LineSeqs
<1>. QED  BY <1>1, <1>2, <1>3 DEF Today, FileState, Placed, PlacedIn, Content

\* A place whose offset is too large for the latest life of its inode is in an
\* earlier one.
LEMMA PlacedInode ==
  ASSUME DiskTypes, NEW s, Placed(s)
  PROVE  s.inode \in Range(home) /\ s.life <= Life(s.inode)
<1>1. s.inode \in Range(home)
  BY LineSeqs DEF Placed, PlacedIn, Range, DiskTypes
<1>. QED  BY <1>1, LifeOf DEF Placed, PlacedIn

LEMMA CurrentPlaced ==
  ASSUME AgentTypes, NEW p \in Path, names[p] # 0
  PROVE  /\ Current(p) \in FileState /\ Placed(Current(p))
         /\ Current(p).inode = names[p]
         /\ Current(p).offset <= Len(Content(names[p]))
<1>. USE DEF AgentTypes
<1>1. /\ names[p] \in Range(home) /\ names[p] \in Inode
      /\ Life(names[p]) \in 1..Len(home) /\ home[Life(names[p])] = names[p]
      /\ Life(names[p]) \in 0..MaxLives
      /\ Len(Content(names[p])) \in 0..MaxLines
  <2>1. /\ names[p] \in Range(home) /\ names[p] \in Inode
        /\ Life(names[p]) \in 1..Len(home) /\ home[Life(names[p])] = names[p]
    BY LifeOf DEF DiskTypes
  <2>. QED  BY <2>1, LineSeqs, Constants DEF DiskTypes, Content
<1>2. /\ StartOver(names, p) \in FileState /\ Placed(StartOver(names, p))
      /\ StartOver(names, p).inode = names[p] /\ StartOver(names, p).offset = 0
  BY <1>1, LineSeqs, Constants DEF StartOver, FileState, Placed, PlacedIn
<1>3. \A st : StartOver(st, p) = StartOver(names, p)
  BY DEF StartOver
<1>. DEFINE st == IF files[p] = NoState THEN Resume(p) ELSE files[p]
<1>4. st \in FileState /\ Placed(st)
  <2>1. CASE files[p] = NoState
    <3>1. positions[p] \in Position /\ (positions[p] = NoPosition \/ Placed(positions[p]))
      BY DEF ShipperTypes
    <3>2. CASE positions[p].inode = names[p]
      <4>1. Placed(positions[p])
        BY <1>1, <3>1, <3>2 DEF NoPosition, Inode
      <4>2. Resume(p) = [inode |-> names[p], life |-> positions[p].life,
                         offset |-> positions[p].offset, pending |-> <<>>]
        BY <3>2 DEF Resume
      <4>. QED  BY <1>1, <2>1, <3>1, <3>2, <4>1, <4>2 DEF Position, FileState, Placed, PlacedIn
    <3>3. CASE positions[p].inode # names[p]
      <4>1. Resume(p) = StartOver(names, p)
        BY <3>3 DEF Resume, StartOver
      <4>. QED  BY <1>2, <2>1, <4>1
    <3>. QED  BY <3>2, <3>3
  <2>2. CASE files[p] # NoState
    BY <2>2 DEF TailerTypes
  <2>. QED  BY <2>1, <2>2
<1>5. Current(p) = IF Restarted(st, p) THEN StartOver(st, p) ELSE st
  BY DEF Current
<1>6. CASE Restarted(st, p)
  BY <1>1, <1>2, <1>3, <1>5, <1>6
<1>7. CASE ~Restarted(st, p)
  <2>1. st.offset \in Nat
    BY <1>4, Constants DEF FileState
  <2>. HIDE DEF st
  <2>. QED  BY <1>1, <1>4, <1>5, <1>7, <2>1 DEF Restarted
<1>. QED  BY <1>6, <1>7

\* What is left of a sequence after its first n entries: its head, and its tail.
LEMMA HeadTailOfSuffix ==
  ASSUME NEW S, NEW s \in Seq(S), NEW n \in Nat, n < Len(s)
  PROVE  /\ Head(SubSeq(s, n + 1, Len(s))) = s[n + 1]
         /\ Tail(SubSeq(s, n + 1, Len(s))) \in Seq(S)
         /\ Len(Tail(SubSeq(s, n + 1, Len(s)))) = Len(s) - n - 1
         /\ \A k \in 1..(Len(s) - n - 1) : Tail(SubSeq(s, n + 1, Len(s)))[k] = s[n + 1 + k]
<1>. DEFINE m == Len(s)
            t == Tail(SubSeq(s, n + 1, m))
<1>1. m \in Nat /\ DOMAIN s = 1..m /\ \A i \in 1..m : s[i] \in S
  OBVIOUS
<1>2. n < m
  OBVIOUS
<1>. HIDE DEF m
<1>3. n + 1 \in 1..m /\ m \in (n + 1)..m
  BY <1>1, <1>2
<1>4. Head(SubSeq(s, n + 1, m)) = s[n + 1] /\ t = SubSeq(s, n + 1 + 1, m)
  BY <1>3, HeadTailOfSubSeq DEF m
<1>5. n + 2 \in Int /\ m \in Int /\ n + 1 + 1 = n + 2
  BY <1>1
<1>6. \A i \in (n + 2)..m : i \in 1..m
  BY <1>1
<1>7. /\ SubSeq(s, n + 2, m) \in Seq(S)
      /\ Len(SubSeq(s, n + 2, m)) = IF n + 2 <= m THEN m - (n + 2) + 1 ELSE 0
      /\ \A k \in 1..(m - (n + 2) + 1) : SubSeq(s, n + 2, m)[k] = s[n + 2 + k - 1]
  BY <1>1, <1>5, <1>6, SubSeqProperties
<1>8. (IF n + 2 <= m THEN m - (n + 2) + 1 ELSE 0) = m - n - 1
  BY <1>1, <1>2
<1>9. \A k \in 1..(m - n - 1) : k \in 1..(m - (n + 2) + 1) /\ n + 2 + k - 1 = n + 1 + k
  BY <1>1
<1>. QED  BY <1>4, <1>5, <1>7, <1>8, <1>9 DEF m

\* Where the reader is when it reads a line, and the line.
Reader == IF buf = <<>> THEN Today(files[reading]) ELSE files[reading]
NextLine == data[Reader.life][Reader.offset + 1]

LEMMA ReaderPlaced ==
  ASSUME AgentTypes, tpc = "read", Unread(reading) # <<>>
  PROVE  /\ reading \in Path /\ reading \in seen
         /\ Reader \in FileState /\ Placed(Reader)
         /\ Reader.inode = files[reading].inode /\ Reader.offset = files[reading].offset
         /\ Reader.pending = files[reading].pending
         /\ Placed(files[reading]) /\ files[reading] # NoState
         /\ Reader.offset < Len(data[Reader.life])
         /\ NextLine \in Line /\ Head(Unread(reading)) = NextLine
         /\ Tail(Unread(reading)) \in Seq(Line)
         /\ Reader.offset + 1 + Len(Tail(Unread(reading))) <= Len(data[Reader.life])
         /\ \A k \in 1..Len(Tail(Unread(reading))) :
              Tail(Unread(reading))[k] = data[Reader.life][Reader.offset + 1 + k]
<1>. USE DEF AgentTypes
<1>. DEFINE here == files[reading]
<1>1. /\ reading \in Path /\ reading \in seen /\ here \in FileState /\ here # NoState /\ Placed(here)
      /\ buf \in Seq(Line)
      /\ here.offset + Len(buf) <= Len(data[here.life])
      /\ \A k \in 1..Len(buf) : buf[k] = data[here.life][here.offset + k]
  BY DEF TailerTypes
<1>2. here.offset \in Nat
  BY <1>1, Constants DEF FileState
<1>3. CASE buf # <<>>
  <2>1. /\ Reader = here /\ Unread(reading) = buf
    BY <1>3 DEF Reader, Unread
  <2>2. /\ Head(buf) = buf[1] /\ Tail(buf) \in Seq(Line) /\ Len(Tail(buf)) = Len(buf) - 1
        /\ Len(buf) \in Nat /\ Len(buf) > 0 /\ buf[1] \in Line
        /\ \A k \in 1..(Len(buf) - 1) : Tail(buf)[k] = buf[k + 1]
    BY <1>1, <1>3
  <2>3. here.life \in 1..Len(home) /\ Len(data[here.life]) \in Nat
    BY <1>1, LineSeqs DEF Placed, PlacedIn
  <2>4. \A k \in 1..(Len(buf) - 1) : Tail(buf)[k] = data[here.life][here.offset + 1 + k]
    <3>1. \A k \in 1..(Len(buf) - 1) : k + 1 \in 1..Len(buf) /\ here.offset + (k + 1) = here.offset + 1 + k
      BY <1>2, <2>2
    <3>. QED  BY <1>1, <2>2, <3>1
  <2>5. Head(buf) = data[here.life][here.offset + 1]
    BY <1>1, <2>2
  <2>6. here.offset < Len(data[here.life])
    BY <1>1, <1>2, <2>2, <2>3
  <2>7. here.offset + 1 + Len(Tail(buf)) <= Len(data[here.life])
    BY <1>1, <1>2, <2>2, <2>3
  <2>. QED  BY <1>1, <2>1, <2>2, <2>4, <2>5, <2>6, <2>7 DEF NextLine
<1>4. CASE buf = <<>>
  <2>. DEFINE C == Content(here.inode)
  <2>1. /\ here.inode \in Range(home) /\ Life(here.inode) \in 1..Len(home)
        /\ C \in Seq(Line) /\ Len(C) \in Nat
    <3>1. here.inode \in Range(home) /\ Life(here.inode) \in 1..Len(home)
      BY <1>1, PlacedInode, LifeOf
    <3>. QED  BY <3>1, LineSeqs DEF Content
  <2>2. Unread(reading) = SubSeq(C, here.offset + 1, Len(C))
    BY <1>4 DEF Unread, InFile
  <2>3. here.offset + 1 <= Len(C)
    <3>1. CASE Len(C) < here.offset + 1
      <4>. HIDE DEF C
      <4>1. SubSeq(C, here.offset + 1, Len(C)) = <<>>
        BY <1>2, <2>1, <3>1, SubSeqEmpty
      <4>. QED  BY <2>2, <4>1
    <3>. QED  BY <1>2, <2>1, <3>1
  <2>4. /\ Reader = Today(here) /\ Today(here) \in FileState /\ Placed(Today(here))
        /\ Today(here).inode = here.inode /\ Today(here).offset = here.offset
        /\ Today(here).pending = here.pending /\ data[Today(here).life] = C
    <3>1. here.offset <= Len(C)
      <4>. HIDE DEF C
      <4>. QED  BY <1>2, <2>1, <2>3
    <3>. QED  BY <1>1, <1>4, <2>1, <3>1, TodayPlaced DEF Reader, Content
  <2>5. /\ Head(Unread(reading)) = C[here.offset + 1]
        /\ Tail(Unread(reading)) \in Seq(Line)
        /\ Len(Tail(Unread(reading))) = Len(C) - here.offset - 1
        /\ \A k \in 1..(Len(C) - here.offset - 1) : Tail(Unread(reading))[k] = C[here.offset + 1 + k]
    <3>. HIDE DEF C, here
    <3>1. here.offset < Len(C)
      BY <1>2, <2>1, <2>3
    <3>2. ASSUME NEW s \in Seq(Line), NEW n \in Nat, n < Len(s)
          PROVE  LET t == SubSeq(s, n + 1, Len(s))
                 IN  /\ Head(t) = s[n + 1] /\ Tail(t) \in Seq(Line)
                     /\ Len(Tail(t)) = Len(s) - n - 1
                     /\ \A k \in 1..(Len(s) - n - 1) : Tail(t)[k] = s[n + 1 + k]
      BY <3>2, HeadTailOfSuffix
    <3>3. LET t == SubSeq(C, here.offset + 1, Len(C))
          IN  /\ Head(t) = C[here.offset + 1] /\ Tail(t) \in Seq(Line)
              /\ Len(Tail(t)) = Len(C) - here.offset - 1
              /\ \A k \in 1..(Len(C) - here.offset - 1) : Tail(t)[k] = C[here.offset + 1 + k]
      BY <1>2, <2>1, <3>1, <3>2, Zenon
    <3>. QED  BY <2>2, <3>3, Zenon
  <2>7. C[here.offset + 1] \in Line
    <3>. HIDE DEF C
    <3>. QED  BY <1>2, <2>1, <2>3
  <2>8. here.offset < Len(C) /\ here.offset + 1 + (Len(C) - here.offset - 1) = Len(C)
    <3>. HIDE DEF C
    <3>. QED  BY <1>2, <2>1, <2>3
  <2>. HIDE DEF C, here
  <2>9. data[Reader.life] = C /\ Reader.offset = here.offset
    BY <2>4
  <2>10. NextLine = C[here.offset + 1]
    BY <2>9 DEF NextLine
  <2>12. Reader \in FileState /\ Placed(Reader) /\ Reader.inode = here.inode
         /\ Reader.pending = here.pending
    BY <2>4
  <2>13. Reader.offset + 1 + Len(Tail(Unread(reading))) <= Len(data[Reader.life])
    BY <1>2, <2>1, <2>5, <2>8, <2>9
  <2>14. Reader.offset < Len(data[Reader.life])
    BY <2>8, <2>9
  <2>. USE DEF here
  <2>. QED  BY <1>1, <2>5, <2>7, <2>9, <2>10, <2>12, <2>13, <2>14
<1>. QED  BY <1>3, <1>4

-----------------------------------------------------------------------------
(* Type correctness.                                                       *)

\* What the node does, and whatever leaves a part alone, keeps the types of that
\* part.
LEMMA TailerKept ==
  ASSUME AgentTypes, Grown, UNCHANGED tailerVars
  PROVE  TailerTypes'
<1>. USE DEF AgentTypes
<1>1. \A p \in Path : files[p] = NoState \/ PlacedIn(home', data', files[p])
  BY PlaceStays DEF TailerTypes
<1>2. reading # NoPath => LET st == files[reading]
                          IN  /\ st.offset + Len(buf) <= Len(data'[st.life])
                              /\ \A k \in 1..Len(buf) : buf[k] = data'[st.life][st.offset + k]
  <2>. SUFFICES ASSUME reading # NoPath
                PROVE  LET st == files[reading]
                       IN  /\ st.offset + Len(buf) <= Len(data'[st.life])
                           /\ \A k \in 1..Len(buf) : buf[k] = data'[st.life][st.offset + k]
    OBVIOUS
  <2>. DEFINE st == files[reading]
              D  == data[st.life]
              E  == data'[st.life]
  <2>1. /\ st \in FileState /\ Placed(st) /\ buf \in Seq(Line)
        /\ st.offset + Len(buf) <= Len(D) /\ \A k \in 1..Len(buf) : buf[k] = D[st.offset + k]
    BY DEF TailerTypes
  <2>2. /\ st.offset \in Nat /\ Len(buf) \in Nat /\ st.life \in 1..Len(home)
        /\ Len(D) \in Nat
    BY <2>1, Constants, LineSeqs DEF FileState, Placed, PlacedIn
  <2>3. /\ Len(D) <= Len(E) /\ \A k \in 1..Len(D) : E[k] = D[k]
    BY <2>2 DEF Grown
  <2>4. st.offset + Len(buf) <= Len(E)
    <3>. HIDE DEF st, D, E
    <3>1. Len(E) >= Len(D) => st.offset + Len(buf) <= Len(E)
      BY <2>1, <2>2
    <3>. QED  BY <2>3, <3>1
  <2>5. \A k \in 1..Len(buf) : st.offset + k \in 1..Len(D)
    <3>. HIDE DEF st, D, E
    <3>. QED  BY <2>1, <2>2
  <2>. QED  BY <2>1, <2>3, <2>4, <2>5
<1>. QED  BY <1>1, <1>2 DEF TailerTypes, tailerVars, Placed

LEMMA FlowKept ==
  ASSUME AgentTypes, Grown, UNCHANGED <<tpc, out, ch, batch>>
  PROVE  FlowTypes'
<1>1. \A e \in InFlight : PlacedIn(home', data', e)
  BY PlaceStays DEF AgentTypes, FlowTypes
<1>. QED  BY <1>1 DEF AgentTypes, FlowTypes, InFlight, Placed

LEMMA ShipperKept ==
  ASSUME AgentTypes, Grown,
         UNCHANGED <<spc, final, positions, saved, cancelled, restarts, faults, drops,
                     copies, dropped, abandoned>>
  PROVE  ShipperTypes'
<1>1. \A p \in Path : /\ positions[p] = NoPosition \/ PlacedIn(home', data', positions[p])
                      /\ saved[p] = NoPosition \/ PlacedIn(home', data', saved[p])
  BY PlaceStays DEF AgentTypes, ShipperTypes
<1>. QED  BY <1>1 DEF AgentTypes, ShipperTypes, Placed

LEMMA RangeAppend ==
  ASSUME NEW S, NEW s \in Seq(S), NEW e \in S
  PROVE  Append(s, e) \in Seq(S) /\ Range(Append(s, e)) = Range(s) \cup {e}
<1>1. /\ Append(s, e) \in Seq(S) /\ Len(s) \in Nat
      /\ DOMAIN s = 1..Len(s) /\ DOMAIN Append(s, e) = 1..(Len(s) + 1)
  OBVIOUS
<1>2. /\ \A k \in 1..Len(s) : k \in 1..(Len(s) + 1) /\ Append(s, e)[k] = s[k]
      /\ Len(s) + 1 \in 1..(Len(s) + 1) /\ Append(s, e)[Len(s) + 1] = e
  BY <1>1
<1>3. \A k \in 1..(Len(s) + 1) : k \in 1..Len(s) \/ k = Len(s) + 1
  BY <1>1
<1>4. Range(s) \cup {e} \subseteq Range(Append(s, e))
  BY <1>1, <1>2 DEF Range
<1>5. Range(Append(s, e)) \subseteq Range(s) \cup {e}
  BY <1>1, <1>2, <1>3 DEF Range
<1>. QED  BY <1>1, <1>4, <1>5

LEMMA RangeTail ==
  ASSUME NEW S, NEW s \in Seq(S), s # <<>>
  PROVE  Head(s) \in Range(s) /\ Range(Tail(s)) \subseteq Range(s)
<1>1. /\ DOMAIN s = 1..Len(s) /\ Len(s) \in Nat /\ Len(s) > 0 /\ Head(s) = s[1]
      /\ DOMAIN Tail(s) = 1..(Len(s) - 1)
      /\ \A k \in 1..(Len(s) - 1) : Tail(s)[k] = s[k + 1] /\ k + 1 \in 1..Len(s)
  OBVIOUS
<1>. QED  BY <1>1 DEF Range

LEMMA IdsInRange ==
  ASSUME NEW m \in Seq(Line)
  PROVE  Ids(m) \subseteq 1..MaxLines
<1>1. Range(m) \in SUBSET Line
  BY RangeOfSeq
<1>2. \A l \in Line : l.id \in 1..MaxLines
  BY DEF Line
<1>. QED  BY <1>1, <1>2 DEF Ids

\* A pass over the directory.
LEMMA PassTypes ==
  ASSUME AgentTypes, Grown, UNCHANGED diskVars,
         PollStarts \/ PollEnds \/ TailerStops \/ \E p \in Path : OpenFails(p)
  PROVE  TailerTypes' /\ UNCHANGED out /\ tpc # "send" /\ tpc' # "send"
<1>. USE DEF AgentTypes
<1>1. /\ UNCHANGED <<out, reading, buf, missed, home, data>> /\ tpc # "send" /\ tpc' # "send"
      /\ tpc' \in {"idle", "scan", "stopped"} /\ reading = NoPath /\ buf = <<>>
  BY DEF PollStarts, PollEnds, TailerStops, OpenFails, diskVars, TailerTypes
<1>2. unlisted' \in Nat
  BY DEF PollStarts, PollEnds, TailerStops, OpenFails, TailerTypes
<1>3. seen' \subseteq Path /\ todo' \subseteq seen'
  <2>1. CASE PollStarts
    BY <2>1 DEF PollStarts
  <2>. QED  BY <2>1 DEF PollEnds, TailerStops, OpenFails, TailerTypes
<1>4. files' \in [Path -> FileState] /\ \A p \in Path : files'[p] = NoState \/ files'[p] = files[p]
  <2>1. NoState \in FileState
    BY Constants DEF NoState, FileState
  <2>2. CASE PollEnds
    BY <2>1, <2>2 DEF PollEnds, TailerTypes
  <2>. QED  BY <2>2 DEF PollStarts, TailerStops, OpenFails, TailerTypes
<1>5. \A p \in Path : files'[p] = NoState \/ PlacedIn(home', data', files'[p])
  BY <1>1, <1>4 DEF TailerTypes, Placed, PlacedIn
<1>. QED  BY <1>1, <1>2, <1>3, <1>4, <1>5 DEF TailerTypes, Placed

\* The lines jumped over when the life has changed.
LEMMA JumpedIds ==
  ASSUME DiskTypes, NEW st \in FileState, st.inode \in Range(home),
         st.offset <= Len(Content(st.inode))
  PROVE  /\ Jumped(st) \subseteq 1..MaxLines
         /\ Content(st.inode) \in Seq(Line) /\ st.offset \in Nat
         /\ SubSeq(Content(st.inode), 1, st.offset) \in Seq(Line)
<1>. DEFINE C == Content(st.inode)
<1>1. st.pending \in Seq(Line) /\ st.offset \in Nat /\ C \in Seq(Line)
  BY Constants, LifeOf, LineSeqs DEF FileState, Content
<1>2. SubSeq(C, 1, st.offset) \in Seq(Line)
  <2>1. \A k \in 1..st.offset : C[k] \in Line
    <3>1. st.offset <= Len(C) /\ Len(C) \in Nat
      BY <1>1
    <3>. HIDE DEF C
    <3>. QED  BY <1>1, <3>1
  <2>. HIDE DEF C
  <2>. QED  BY <1>1, <2>1, SubSeqProperties
<1>. QED  BY <1>1, <1>2, IdsInRange DEF Jumped

LEMMA OpenTypes ==
  ASSUME AgentTypes, UNCHANGED diskVars, NEW p \in Path, OpenFile(p)
  PROVE  TailerTypes' /\ UNCHANGED out /\ tpc # "send" /\ tpc' # "send"
<1>. USE DEF AgentTypes
<1>. DEFINE st == Today(Current(p))
<1>1. /\ names[p] # 0 /\ tpc = "scan" /\ p \in todo /\ todo' = todo \ {p} /\ p \in seen
      /\ reading = NoPath /\ buf = <<>>
      /\ files' = [files EXCEPT ![p] = st] /\ missed' = missed \cup Jumped(Current(p))
      /\ UNCHANGED <<seen, buf, out, unlisted, home, data>>
      /\ \/ tpc' = "scan" /\ reading' = NoPath
         \/ tpc' = "read" /\ reading' = p
  BY DEF OpenFile, diskVars, TailerTypes
<1>2. st \in FileState /\ Placed(st) /\ st # NoState /\ st.inode = names[p]
  <2>1. /\ Current(p) \in FileState /\ Current(p).inode = names[p]
        /\ Current(p).offset <= Len(Content(names[p])) /\ names[p] \in Range(home)
    BY <1>1, CurrentPlaced DEF DiskTypes
  <2>. QED  BY <1>1, <2>1, TodayPlaced DEF NoState
<1>3. Jumped(Current(p)) \subseteq 1..MaxLines
  <2>1. /\ Current(p) \in FileState /\ Current(p).inode = names[p]
        /\ Current(p).offset <= Len(Content(names[p])) /\ names[p] \in Range(home)
    BY <1>1, CurrentPlaced DEF DiskTypes
  <2>. QED  BY <2>1, JumpedIds
<1>4. st.offset + Len(buf) <= Len(data[st.life]) /\ Len(buf) = 0
  <2>1. Len(buf) = 0
    BY <1>1
  <2>2. st.offset \in Nat /\ st.offset <= Len(data[st.life])
    BY <1>2, LineSeqs DEF Placed, PlacedIn
  <2>. HIDE DEF st
  <2>. QED  BY <2>1, <2>2
<1>5. /\ files' \in [Path -> FileState]
      /\ \A q \in Path : files'[q] = IF q = p THEN st ELSE files[q]
  BY <1>1, <1>2 DEF TailerTypes
<1>6. \A q \in Path : files'[q] = NoState \/ PlacedIn(home', data', files'[q])
  <2>. HIDE DEF st
  <2>. QED  BY <1>1, <1>2, <1>5 DEF TailerTypes, Placed
<1>7. /\ seen' \subseteq Path /\ todo' \subseteq seen' /\ reading' \in seen' \cup {NoPath}
      /\ reading' # NoPath <=> tpc' \in {"read", "send"}
      /\ tpc' \in {"idle", "scan", "read", "send", "stopped"} /\ tpc # "send" /\ tpc' # "send"
  BY <1>1, Constants DEF TailerTypes
<1>8. reading' # NoPath => /\ files'[reading'] # NoState
                           /\ files'[reading'] = st /\ data' = data /\ buf' = buf
  <2>. HIDE DEF st
  <2>. QED  BY <1>1, <1>2, <1>5
<1>9. /\ buf' \in Seq(Line) /\ (reading' = NoPath => buf' = <<>>)
      /\ unlisted' \in Nat /\ missed' \subseteq 1..MaxLines
  BY <1>1, <1>3 DEF TailerTypes
<1>. HIDE DEF st
<1>10. reading' # NoPath =>
         LET s == files'[reading']
         IN  /\ s.offset + Len(buf') <= Len(data'[s.life])
             /\ \A k \in 1..Len(buf') : buf'[k] = data'[s.life][s.offset + k]
  <2>1. Len(buf') = 0 /\ 1..0 = {}
    BY <1>1, <1>4
  <2>. QED  BY <1>1, <1>4, <1>8, <2>1
<1>. QED  BY <1>1, <1>5, <1>6, <1>7, <1>8, <1>9, <1>10 DEF TailerTypes, Placed

\* The entry the reader sends after the line it is at, and its state then.
NextState(pending) == [Reader EXCEPT !.offset = @ + 1, !.pending = pending]
NextEntry == [file |-> reading, inode |-> Reader.inode, life |-> Reader.life,
              offset |-> Reader.offset + 1, message |-> Append(Reader.pending, NextLine)]

LEMMA ReadMoves ==
  ASSUME AgentTypes, UNCHANGED diskVars, ReadLine
  PROVE  /\ tpc = "read" /\ Unread(reading) # <<>>
         /\ buf' = Tail(Unread(reading))
         /\ missed' = IF buf = <<>> THEN missed \cup Jumped(files[reading]) ELSE missed
         /\ UNCHANGED <<seen, todo, reading, unlisted, positions>>
         /\ \E pending \in {Reader.pending, Append(Reader.pending, NextLine), <<>>} :
              files' = [files EXCEPT ![reading] = NextState(pending)]
         /\ \/ /\ tpc' = "read" /\ out' = out /\ ~Completes(NextLine)
            \/ /\ tpc' = "send" /\ out' = NextEntry /\ Completes(NextLine)
               /\ files' = [files EXCEPT ![reading] = NextState(<<>>)]
<1>1. /\ tpc = "read" /\ Unread(reading) # <<>> /\ Head(Unread(reading)) = NextLine
  BY ReaderPlaced DEF ReadLine
<1>2. /\ buf' = Tail(Unread(reading))
      /\ UNCHANGED <<seen, todo, reading, unlisted, positions>>
      /\ missed' = IF buf = <<>> THEN missed \cup Jumped(files[reading]) ELSE missed
  BY DEF ReadLine
<1>3. \/ /\ NextLine.kind = "malformed" /\ Advance(Reader, Reader.pending)
         /\ UNCHANGED <<tpc, out>>
      \/ /\ NextLine.kind = "P" /\ Advance(Reader, Append(Reader.pending, NextLine))
         /\ UNCHANGED <<tpc, out>>
      \/ /\ NextLine.kind = "excluded" /\ Advance(Reader, <<>>)
         /\ UNCHANGED <<tpc, out>>
      \/ /\ Completes(NextLine) /\ Advance(Reader, <<>>)
         /\ tpc' = "send" /\ out' = NextEntry
  BY <1>1 DEF ReadLine, Reader, NextEntry
<1>4. \A pending : Advance(Reader, pending) =>
                     files' = [files EXCEPT ![reading] = NextState(pending)]
  BY DEF Advance, NextState
<1>. QED  BY <1>1, <1>2, <1>3, <1>4 DEF Completes

\* Both are in their types and at a place.
LEMMA NextPlaced ==
  ASSUME AgentTypes, tpc = "read", Unread(reading) # <<>>,
         NEW pending \in {Reader.pending, Append(Reader.pending, NextLine), <<>>}
  PROVE  /\ NextState(pending) \in FileState /\ Placed(NextState(pending))
         /\ NextState(pending) # NoState /\ NextState(pending).pending = pending
         /\ NextState(pending).inode = Reader.inode /\ NextState(pending).life = Reader.life
         /\ NextState(pending).offset = Reader.offset + 1
         /\ NextEntry \in Entry /\ Placed(NextEntry)
<1>1. /\ reading \in Path /\ Reader \in FileState /\ Placed(Reader) /\ NextLine \in Line
      /\ Reader.offset < Len(data[Reader.life])
  BY ReaderPlaced
<1>2. /\ Len(data[Reader.life]) \in 0..MaxLines /\ Reader.life \in 1..Len(home)
      /\ Reader.inode \in Inode /\ home[Reader.life] = Reader.inode
      /\ Reader.offset \in Nat /\ Reader.pending \in Seq(Line)
      /\ Len(home) \in Nat /\ Len(home) <= MaxLives
  <2>1. /\ Reader.life \in 1..Len(home) /\ Reader.inode \in Inode /\ home[Reader.life] = Reader.inode
    BY <1>1 DEF Placed, PlacedIn
  <2>2. Reader.offset \in Nat /\ Reader.pending \in Seq(Line)
    BY <1>1, Constants DEF FileState
  <2>3. Len(home) \in Nat /\ Len(home) <= MaxLives /\ Len(data[Reader.life]) \in 0..MaxLines
    BY <2>1, LineSeqs DEF AgentTypes, DiskTypes
  <2>. QED  BY <2>1, <2>2, <2>3
<1>3. /\ Reader.offset + 1 \in 0..MaxLines /\ Reader.offset + 1 \in 0..Len(data[Reader.life])
      /\ Reader.life \in 0..MaxLives /\ Reader.life \in 1..MaxLives /\ 0 \notin Inode
  <2>1. Reader.offset + 1 \in 0..MaxLines /\ Reader.offset + 1 \in 0..Len(data[Reader.life])
    BY <1>1, <1>2, Constants
  <2>2. Reader.life \in 0..MaxLives /\ Reader.life \in 1..MaxLives
    BY <1>2, Constants
  <2>3. 0 \notin Inode
    BY Constants DEF Inode
  <2>. QED  BY <2>1, <2>2, <2>3
<1>4. pending \in Seq(Line) /\ Append(Reader.pending, NextLine) \in Seq(Line)
  <2>1. <<>> \in Seq(Line) /\ Append(Reader.pending, NextLine) \in Seq(Line)
    BY <1>1, <1>2, AppendProperties
  <2>. QED  BY <1>2, <2>1
<1>5. /\ NextState(pending).pending = pending
      /\ NextState(pending).inode = Reader.inode /\ NextState(pending).life = Reader.life
      /\ NextState(pending).offset = Reader.offset + 1
      /\ NextState(pending) \in FileState
  BY <1>1, <1>2, <1>3, <1>4 DEF NextState, FileState
<1>6. Placed(NextState(pending)) /\ NextState(pending) # NoState
  BY <1>2, <1>3, <1>5 DEF Placed, PlacedIn, NoState
<1>7. /\ NextEntry.file = reading /\ NextEntry.inode = Reader.inode
      /\ NextEntry.life = Reader.life /\ NextEntry.offset = Reader.offset + 1
      /\ NextEntry \in Entry
  BY <1>1, <1>2, <1>3, <1>4 DEF NextEntry, Entry
<1>. QED  BY <1>2, <1>3, <1>5, <1>6, <1>7 DEF Placed, PlacedIn

LEMMA ReadTypes ==
  ASSUME AgentTypes, UNCHANGED diskVars, UNCHANGED <<ch, batch>>, ReadLine
  PROVE  TailerTypes' /\ FlowTypes'
<1>. USE DEF AgentTypes
<1>1. PICK pending \in {Reader.pending, Append(Reader.pending, NextLine), <<>>} :
        files' = [files EXCEPT ![reading] = NextState(pending)]
  BY ReadMoves
<1>. DEFINE st == NextState(pending)
            D  == data[Reader.life]
<1>2. /\ tpc = "read" /\ Unread(reading) # <<>> /\ buf' = Tail(Unread(reading))
      /\ UNCHANGED <<seen, todo, reading, unlisted>>
      /\ UNCHANGED <<home, data>>
      /\ missed' = IF buf = <<>> THEN missed \cup Jumped(files[reading]) ELSE missed
      /\ \/ tpc' = "read" /\ out' = out
         \/ tpc' = "send" /\ out' = NextEntry
  BY ReadMoves DEF diskVars
<1>3. /\ reading \in Path /\ reading \in seen /\ reading # NoPath
      /\ files[reading] \in FileState
      /\ buf' \in Seq(Line)
      /\ Reader.offset + 1 + Len(buf') <= Len(D)
      /\ \A k \in 1..Len(buf') : buf'[k] = D[Reader.offset + 1 + k]
  BY <1>2, ReaderPlaced, Constants DEF TailerTypes
<1>4. /\ st \in FileState /\ Placed(st) /\ st # NoState
      /\ st.offset = Reader.offset + 1 /\ data'[st.life] = D
      /\ NextEntry \in Entry /\ Placed(NextEntry)
  BY <1>2, NextPlaced
<1>5. /\ files' \in [Path -> FileState]
      /\ \A p \in Path : files'[p] = IF p = reading THEN st ELSE files[p]
  BY <1>1, <1>3, <1>4 DEF TailerTypes
<1>6. \A p \in Path : files'[p] = NoState \/ PlacedIn(home', data', files'[p])
  <2>. HIDE DEF st
  <2>. QED  BY <1>2, <1>4, <1>5 DEF TailerTypes, Placed
<1>7. missed' \subseteq 1..MaxLines
  <2>1. CASE buf # <<>>
    BY <1>2, <2>1 DEF TailerTypes
  <2>2. CASE buf = <<>>
    <3>1. Reader = Today(files[reading]) /\ Placed(Reader) /\ Placed(files[reading])
          /\ Reader.offset = files[reading].offset
      BY <1>2, <2>2, ReaderPlaced DEF Reader
    <3>2. files[reading].inode \in Range(home)
      BY <3>1, PlacedInode
    <3>3. Reader.life = Life(files[reading].inode)
      BY <1>3, <3>1 DEF Today, FileState
    <3>4. files[reading].offset <= Len(Content(files[reading].inode))
      BY <3>1, <3>3, LineSeqs DEF Placed, PlacedIn, Content
    <3>. QED  BY <1>2, <1>3, <2>2, <3>2, <3>4, JumpedIds DEF TailerTypes
  <2>. QED  BY <2>1, <2>2
<1>8. /\ files'[reading'] = st /\ st # NoState
      /\ st.offset + Len(buf') <= Len(data'[st.life])
      /\ \A k \in 1..Len(buf') : buf'[k] = data'[st.life][st.offset + k]
  <2>. HIDE DEF st, D
  <2>. QED  BY <1>2, <1>3, <1>4, <1>5
<1>9. TailerTypes'
  <2>1. /\ tpc' \in {"idle", "scan", "read", "send", "stopped"}
        /\ seen' \subseteq Path /\ todo' \subseteq seen' /\ reading' \in seen' \cup {NoPath}
        /\ reading' # NoPath /\ tpc' \in {"read", "send"} /\ unlisted' \in Nat
    BY <1>2, <1>3 DEF TailerTypes
  <2>. HIDE DEF st, D
  <2>. QED  BY <1>3, <1>5, <1>6, <1>7, <1>8, <2>1 DEF TailerTypes, Placed
<1>10. FlowTypes'
  <2>1. /\ batch' = batch /\ ch' = ch /\ out = NoEntry
    BY <1>2 DEF FlowTypes
  <2>2. IF tpc' = "send" THEN out' \in Entry ELSE out' = NoEntry
    BY <1>2, <1>4, <2>1
  <2>3. \A e \in InFlight' : e \in InFlight \/ e = NextEntry
    BY <1>2, <2>1 DEF InFlight
  <2>4. \A e \in InFlight' : PlacedIn(home', data', e)
    BY <1>2, <1>4, <2>3 DEF FlowTypes, Placed
  <2>. QED  BY <2>1, <2>2, <2>4 DEF FlowTypes, Placed
<1>. QED  BY <1>9, <1>10

\* The reader leaves the file: at its end, or for the shutdown.
LEMMA LeaveTypes ==
  ASSUME AgentTypes, UNCHANGED diskVars, UNCHANGED <<ch, batch>>, EndOfFile \/ SendCancelled
  PROVE  TailerTypes' /\ FlowTypes'
<1>1. /\ reading' = NoPath /\ buf' = <<>> /\ UNCHANGED <<seen, todo, files, unlisted, missed>>
      /\ tpc' \in {"scan", "stopped"} /\ out' = NoEntry
  BY DEF EndOfFile, SendCancelled, Unread, AgentTypes, FlowTypes, TailerTypes
<1>2. TailerTypes'
  BY <1>1 DEF AgentTypes, TailerTypes, diskVars, Placed, PlacedIn
<1>3. \A e \in InFlight' : e \in InFlight
  BY <1>1 DEF InFlight
<1>4. FlowTypes'
  BY <1>1, <1>3 DEF AgentTypes, FlowTypes, diskVars, Placed, PlacedIn
<1>. QED  BY <1>2, <1>4

LEMMA TailerStepTypes ==
  ASSUME AgentTypes, Grown, TailerStep
  PROVE  TailerTypes' /\ FlowTypes'
<1>1. UNCHANGED diskVars /\ UNCHANGED <<ch, batch>>
  BY DEF TailerStep, shipperVars
<1>2. CASE PollStarts \/ PollEnds \/ TailerStops \/ \E p \in Path : OpenFails(p) \/ OpenFile(p)
  <2>1. TailerTypes' /\ UNCHANGED out /\ tpc # "send" /\ tpc' # "send"
    BY <1>1, <1>2, PassTypes, OpenTypes
  <2>2. \A e \in InFlight' : e \in InFlight
    BY <1>1, <2>1 DEF InFlight
  <2>. QED  BY <1>1, <2>1, <2>2 DEF AgentTypes, FlowTypes, diskVars, Placed, PlacedIn
<1>. QED  BY <1>1, <1>2, ReadTypes, LeaveTypes DEF TailerStep

LEMMA SendTypes ==
  ASSUME AgentTypes, SendEntry
  PROVE  TailerTypes' /\ FlowTypes'
<1>1. /\ tpc = "send" /\ Len(ch) < BatchSize /\ ch' = Append(ch, out) /\ tpc' = "read"
      /\ out' = NoEntry
      /\ UNCHANGED <<home, data, seen, todo, reading, files, buf, unlisted, missed, batch>>
  BY DEF SendEntry, HasRoom, diskVars, shipperVars
<1>2. TailerTypes'
  BY <1>1 DEF AgentTypes, TailerTypes, Placed, PlacedIn
<1>3. /\ ch \in Seq(Entry) /\ out \in Entry /\ Placed(out) /\ out # NoEntry
  BY <1>1, Constants DEF AgentTypes, FlowTypes, InFlight, Entry, NoEntry
<1>4. /\ ch' \in Seq(Entry) /\ Len(ch') = Len(ch) + 1 /\ Len(ch') <= BatchSize
      /\ Range(ch') = Range(ch) \cup {out}
  BY <1>1, <1>3, RangeAppend, AppendProperties, Constants
<1>5. \A e \in InFlight' : e \in InFlight
  BY <1>1, <1>3, <1>4 DEF InFlight
<1>. QED  BY <1>1, <1>2, <1>4, <1>5 DEF AgentTypes, FlowTypes, Placed, PlacedIn

LEMMA ReceiveTypes ==
  ASSUME AgentTypes, UNCHANGED <<home, data, tpc, out>>, Receive
  PROVE  FlowTypes'
<1>1. /\ batch \in Seq(Entry) /\ ch \in Seq(Entry) /\ ch # <<>>
      /\ ch' = Tail(ch) /\ batch' = Append(batch, Head(ch))
  BY DEF Receive, AgentTypes, FlowTypes
<1>2. /\ Head(ch) \in Entry /\ Tail(ch) \in Seq(Entry) /\ Len(Tail(ch)) = Len(ch) - 1
      /\ Len(ch) \in Nat
  BY <1>1
<1>3. batch' \in Seq(Entry) /\ Range(batch') = Range(batch) \cup {Head(ch)}
  BY <1>1, <1>2, RangeAppend
<1>4. Head(ch) \in Range(ch) /\ Range(ch') \subseteq Range(ch)
  BY <1>1, RangeTail
<1>5. \A e \in InFlight' : e \in InFlight
  BY <1>3, <1>4 DEF InFlight
<1>6. Len(ch') <= BatchSize
  BY <1>1, <1>2, Constants DEF AgentTypes, FlowTypes
<1>. QED  BY <1>1, <1>2, <1>3, <1>5, <1>6 DEF AgentTypes, FlowTypes, Placed, PlacedIn

\* Of each file the last entry of the batch gives the position.
LEMMA CommittedIs ==
  ASSUME AgentTypes, NEW p \in Path
  PROVE  \/ /\ Committed[p] = positions[p]
            /\ \A k \in DOMAIN batch : batch[k].file # p
         \/ \E k \in DOMAIN batch :
              /\ batch[k].file = p /\ \A j \in DOMAIN batch : batch[j].file = p => j <= k
              /\ Committed[p] = [inode |-> batch[k].inode, life |-> batch[k].life,
                                 offset |-> batch[k].offset]
<1>. DEFINE mine == {k \in DOMAIN batch : batch[k].file = p}
            last == CHOOSE k \in mine : \A j \in mine : j <= k
<1>1. Committed[p] = IF mine = {} THEN positions[p]
                     ELSE [inode |-> batch[last].inode, life |-> batch[last].life,
                           offset |-> batch[last].offset]
  BY DEF Committed
<1>2. CASE mine = {}
  BY <1>1, <1>2
<1>3. CASE mine # {}
  <2>1. Len(batch) \in Nat /\ mine \in SUBSET (0..Len(batch))
    BY DEF AgentTypes, FlowTypes
  <2>2. \E m \in mine : \A k \in mine : k <= m
    <3>. HIDE DEF mine
    <3>. QED  BY <1>3, <2>1, GreatestOf
  <2>3. last \in mine /\ \A j \in mine : j <= last
    <3>. HIDE DEF mine
    <3>. QED  BY <2>2
  <2>. QED  BY <1>1, <1>3, <2>3
<1>. QED  BY <1>2, <1>3

LEMMA BatchEntry ==
  ASSUME AgentTypes, NEW k \in DOMAIN batch
  PROVE  batch[k] \in Entry /\ batch[k] \in InFlight /\ Placed(batch[k]) /\ k \in 1..Len(batch)
<1>1. batch \in Seq(Entry)
  BY DEF AgentTypes, FlowTypes
<1>2. batch[k] \in Entry /\ batch[k] \in Range(batch) /\ k \in 1..Len(batch)
  BY <1>1 DEF Range
<1>. QED  BY <1>2 DEF AgentTypes, FlowTypes, InFlight

LEMMA CommittedTypes ==
  ASSUME AgentTypes
  PROVE  /\ Committed \in [Path -> Position]
         /\ \A p \in Path : Committed[p] = NoPosition \/ Placed(Committed[p])
<1>1. ASSUME NEW p \in Path
      PROVE  Committed[p] \in Position /\ (Committed[p] = NoPosition \/ Placed(Committed[p]))
  <2>1. CASE Committed[p] = positions[p]
    BY <2>1 DEF AgentTypes, ShipperTypes
  <2>2. ASSUME NEW k \in DOMAIN batch,
               Committed[p] = [inode |-> batch[k].inode, life |-> batch[k].life,
                               offset |-> batch[k].offset]
        PROVE  Committed[p] \in Position /\ Placed(Committed[p])
    BY <2>2, BatchEntry, Constants DEF Entry, Position, Placed, PlacedIn
  <2>. QED  BY <2>1, <2>2, CommittedIs
<1>2. Committed = [p \in Path |-> Committed[p]]
  BY DEF Committed
<1>. QED  BY <1>1, <1>2

LEMMA SendableRange ==
  ASSUME AgentTypes
  PROVE  Sendable \in 0..Len(batch) /\ Len(batch) \in Nat /\ DOMAIN batch = 1..Len(batch)
<1>. DEFINE poison == {k \in DOMAIN batch : \E l \in Range(batch[k].message) : l.kind = "unsendable"}
<1>1. Len(batch) \in Nat /\ DOMAIN batch = 1..Len(batch) /\ poison \subseteq 1..Len(batch)
  BY DEF AgentTypes, FlowTypes
<1>2. Sendable = IF poison = {} THEN Len(batch) ELSE Min(poison) - 1
  BY DEF Sendable
<1>3. CASE poison # {}
  <2>. HIDE DEF poison
  <2>1. \E m \in poison : \A k \in poison : m <= k
    BY <1>1, <1>3, LeastOf
  <2>2. Min(poison) \in 1..Len(batch)
    BY <1>1, <2>1 DEF Min
  <2>3. Sendable = Min(poison) - 1
    BY <1>2, <1>3
  <2>. QED  BY <1>1, <2>2, <2>3
<1>4. CASE poison = {}
  <2>. HIDE DEF poison
  <2>. QED  BY <1>1, <1>2, <1>4
<1>. QED  BY <1>3, <1>4

LEMMA EntryIds ==
  ASSUME NEW e \in Entry
  PROVE  Ids(e.message) \subseteq 1..MaxLines
BY IdsInRange DEF Entry

LEMMA DeliverTypes ==
  ASSUME AgentTypes, NEW n \in 0..Len(batch), NEW D \in SUBSET (1..n), Deliver(n, D)
  PROVE  /\ drops' \in Nat /\ copies' \in [1..MaxLines -> Nat] /\ dropped' \subseteq 1..MaxLines
         /\ Cardinality(D) \in Nat
<1>1. Len(batch) \in Nat /\ DOMAIN batch = 1..Len(batch) /\ n \in Nat
  BY SendableRange
<1>2. Cardinality(D) \in Nat
  <2>1. IsFiniteSet(1..n)
    BY <1>1, FS_Interval
  <2>2. IsFiniteSet(D)
    BY <2>1, FS_Subset
  <2>. QED  BY <2>2, FS_CardinalityType
<1>3. \A k \in D : Ids(batch[k].message) \subseteq 1..MaxLines
  <2>1. \A k \in D : k \in DOMAIN batch
    BY <1>1
  <2>. QED  BY <2>1, BatchEntry, EntryIds
<1>4. drops' = drops + Cardinality(D) /\ drops \in Nat
  BY DEF Deliver, AgentTypes, ShipperTypes
<1>5. copies' \in [1..MaxLines -> Nat]
  <2>1. copies \in [1..MaxLines -> Nat]
    BY DEF AgentTypes, ShipperTypes
  <2>. QED  BY <2>1 DEF Deliver
<1>6. dropped' = dropped \cup UNION {Ids(batch[k].message) : k \in D}
  BY DEF Deliver
<1>. QED  BY <1>2, <1>3, <1>4, <1>5, <1>6 DEF AgentTypes, ShipperTypes

LEMMA ShipperStepTypes ==
  ASSUME AgentTypes, Grown, ShipperStep
  PROVE  TailerTypes' /\ FlowTypes' /\ ShipperTypes'
<1>. USE DEF AgentTypes
<1>1. /\ UNCHANGED <<home, data, tpc, out, restarts, cancelled>> /\ UNCHANGED tailerVars
  BY DEF ShipperStep, tailerVars, diskVars
<1>2. TailerTypes'
  BY <1>1, TailerKept
<1>3. ASSUME UNCHANGED ch, batch' = batch \/ batch' = <<>>
      PROVE  FlowTypes'
  <2>1. \A e \in InFlight' : e \in InFlight
    BY <1>1, <1>3 DEF InFlight, Range
  <2>2. batch' \in Seq(Entry)
    <3>1. <<>> \in Seq(Entry) /\ batch \in Seq(Entry)
      BY DEF FlowTypes
    <3>. QED  BY <1>3, <3>1
  <2>. QED  BY <1>1, <1>3, <2>1, <2>2 DEF FlowTypes, Placed, PlacedIn
<1>4. ASSUME spc' \in {"collect", "call", "backoff", "save", "returned"}, final' \in BOOLEAN,
             positions' = positions \/ positions' = Committed,
             saved' = saved \/ saved' = positions, {faults, drops}' \subseteq Nat,
             copies' \in [1..MaxLines -> Nat], dropped' \cup abandoned' \subseteq 1..MaxLines
      PROVE  ShipperTypes'
  <2>1. positions' \in [Path -> Position] /\ saved' \in [Path -> Position]
    BY <1>4, CommittedTypes DEF ShipperTypes
  <2>2. \A p \in Path : /\ positions'[p] = NoPosition \/ Placed(positions'[p])
                        /\ saved'[p] = NoPosition \/ Placed(saved'[p])
    BY <1>4, CommittedTypes DEF ShipperTypes
  <2>. QED  BY <1>1, <1>4, <2>1, <2>2 DEF ShipperTypes, Placed, PlacedIn
<1>5. CASE Receive
  BY <1>1, <1>2, <1>4, <1>5, ReceiveTypes DEF Receive, serverVars, ShipperTypes
<1>6. CASE Tick \/ ChannelClosed \/ CallRefused \/ CallUnsendable \/ Retry
  <2>1. UNCHANGED <<ch, batch, positions, saved, faults, drops, copies, dropped, abandoned>>
    BY <1>6 DEF Tick, ChannelClosed, CallRefused, CallUnsendable, Retry, serverVars, CallFailed
  <2>2. spc' \in {"collect", "call", "backoff", "save", "returned"} /\ final' \in BOOLEAN
    BY <1>6 DEF Tick, ChannelClosed, CallRefused, CallUnsendable, Retry, CallFailed, ShipperTypes
  <2>. QED  BY <1>2, <1>3, <1>4, <2>1, <2>2 DEF ShipperTypes
<1>7. CASE Abandon
  <2>1. IdsOf(batch) \subseteq 1..MaxLines
    <3>1. Range(batch) \in SUBSET Entry
      BY RangeOfSeq DEF FlowTypes
    <3>. QED  BY <3>1, EntryIds DEF IdsOf
  <2>. QED  BY <1>2, <1>3, <1>4, <1>7, <2>1 DEF Abandon, FlushEnds, ShipperTypes
<1>8. CASE Save \/ SaveFails
  BY <1>2, <1>3, <1>4, <1>8 DEF Save, SaveFails, FlushEnds, ShipperTypes, serverVars
<1>9. CASE CallOk
  <2>1. PICK D \in SUBSET DOMAIN batch : Deliver(Len(batch), D)
    BY <1>9 DEF CallOk
  <2>2. D \in SUBSET (1..Len(batch)) /\ Len(batch) \in 0..Len(batch)
    BY SendableRange
  <2>. QED  BY <1>2, <1>3, <1>4, <1>9, <2>1, <2>2, DeliverTypes DEF CallOk, ShipperTypes
<1>10. CASE CallBroken
  <2>1. PICK n \in 0..Sendable : \E D \in SUBSET (1..n) : Deliver(n, D)
    BY <1>10 DEF CallBroken
  <2>2. PICK D \in SUBSET (1..n) : Deliver(n, D)
    BY <2>1
  <2>3. n \in 0..Len(batch)
    BY SendableRange
  <2>. QED  BY <1>2, <1>3, <1>4, <1>10, <2>2, <2>3, DeliverTypes
            DEF CallBroken, CallFailed, ShipperTypes
<1>. QED  BY <1>5, <1>6, <1>7, <1>8, <1>9, <1>10 DEF ShipperStep

LEMMA RestartTypes ==
  ASSUME AgentTypes, Restart
  PROVE  TailerTypes' /\ FlowTypes' /\ ShipperTypes'
<1>. USE DEF AgentTypes, Restart
<1>1. NoState \in FileState /\ <<>> \in Seq(Line) /\ <<>> \in Seq(Entry)
  BY Constants DEF NoState, FileState
<1>2. UNCHANGED <<home, data>>
  BY DEF diskVars
<1>3. TailerTypes'
  <2>1. files' \in [Path -> FileState] /\ \A p \in Path : files'[p] = NoState
    BY <1>1
  <2>. QED  BY <1>1, <1>2, <2>1 DEF TailerTypes
<1>4. FlowTypes'
  <2>1. InFlight' = {} /\ Len(ch') <= BatchSize
    BY Constants DEF InFlight, Range
  <2>. QED  BY <1>1, <2>1 DEF FlowTypes
<1>5. ShipperTypes'
  <2>1. restarts' \in Nat
    BY DEF ShipperTypes
  <2>2. positions' = saved /\ UNCHANGED <<saved, faults, drops, copies, dropped, abandoned>>
    BY DEF serverVars
  <2>3. spc' = "collect" /\ final' = FALSE /\ cancelled' = FALSE
    OBVIOUS
  <2>. QED  BY <1>2, <2>1, <2>2, <2>3 DEF ShipperTypes, Placed, PlacedIn
<1>. QED  BY <1>3, <1>4, <1>5

LEMMA InitTypes == Init => AgentTypes
<1>. SUFFICES ASSUME Init PROVE AgentTypes
  OBVIOUS
<1>. USE DEF Init
<1>1. /\ NoState \in FileState /\ NoPosition \in Position
      /\ <<>> \in Seq(Line) /\ <<>> \in Seq(Entry) /\ Range(<<>>) = {} /\ Len(<<>>) = 0
      /\ \A S : <<>> \in Seq(S)
  BY Constants DEF NoState, FileState, NoPosition, Position, Range
<1>2. DiskTypes
  BY <1>1, Constants DEF DiskTypes
<1>3. TailerTypes
  BY <1>1, Constants DEF TailerTypes
<1>4. FlowTypes
  BY <1>1, Constants DEF FlowTypes, InFlight
<1>5. ShipperTypes
  <2>1. positions \in [Path -> Position] /\ saved \in [Path -> Position]
    BY <1>1
  <2>2. \A p \in Path : positions[p] = NoPosition /\ saved[p] = NoPosition
    BY <1>1
  <2>3. copies \in [1..MaxLines -> Nat]
    OBVIOUS
  <2>4. {restarts, faults, drops} \subseteq Nat /\ dropped \cup abandoned \subseteq 1..MaxLines
    OBVIOUS
  <2>5. spc = "collect" /\ final = FALSE /\ cancelled = FALSE
    OBVIOUS
  <2>. QED  BY ONLY <2>1, <2>2, <2>3, <2>4, <2>5 DEF ShipperTypes
<1>. QED  BY <1>2, <1>3, <1>4, <1>5 DEF AgentTypes

LEMMA TypeStep == AgentTypes /\ [Next]_agentVars => AgentTypes'
<1>. SUFFICES ASSUME AgentTypes, [Next]_agentVars PROVE AgentTypes'
  OBVIOUS
<1>1. DiskTypes' /\ Grown
  BY DiskStep DEF AgentTypes
<1>. SUFFICES TailerTypes' /\ FlowTypes' /\ ShipperTypes'
  BY <1>1 DEF AgentTypes
<1>2. CASE NodeStep \/ UNCHANGED agentVars
  <2>1. UNCHANGED <<tailerVars, ch, shipperVars, positions, saved, cancelled, restarts, serverVars>>
    BY <1>2 DEF NodeStep, agentVars
  <2>. QED  BY <1>1, <2>1, TailerKept, FlowKept, ShipperKept DEF tailerVars, shipperVars, serverVars
<1>3. CASE TailerStep
  <2>1. positions' = positions \/ \A p \in Path : positions'[p] \in {positions[p], NoPosition}
    BY <1>3 DEF TailerStep, PollStarts, PollEnds, TailerStops, SendCancelled, EndOfFile, ReadLine,
                OpenFails, OpenFile
  <2>2. positions' \in [Path -> Position] /\ \A p \in Path : positions'[p] \in {positions[p], NoPosition}
    <3>1. NoPosition \in Position
      BY Constants DEF NoPosition, Position
    <3>. QED  BY <1>3, <3>1
              DEF AgentTypes, ShipperTypes, TailerStep, PollStarts, PollEnds, TailerStops,
                  SendCancelled, EndOfFile, ReadLine, OpenFails, OpenFile
  <2>3. UNCHANGED <<home, data, spc, final, saved, cancelled, restarts, faults, drops, copies,
                    dropped, abandoned>>
    BY <1>3 DEF TailerStep, diskVars, shipperVars, serverVars
  <2>4. ShipperTypes'
    BY <2>2, <2>3 DEF AgentTypes, ShipperTypes, Placed, PlacedIn
  <2>. QED  BY <1>1, <1>3, <2>4, TailerStepTypes
<1>4. CASE SendEntry
  BY <1>1, <1>4, SendTypes, ShipperKept DEF SendEntry, shipperVars, serverVars
<1>5. CASE Cancel
  <2>1. UNCHANGED <<tailerVars, tpc, out, ch, batch>>
    BY <1>5 DEF Cancel, tailerVars, shipperVars
  <2>2. ShipperTypes'
    BY <1>5 DEF Cancel, AgentTypes, ShipperTypes, shipperVars, serverVars, diskVars, Placed, PlacedIn
  <2>. QED  BY <1>1, <2>1, <2>2, TailerKept, FlowKept
<1>. QED  BY <1>1, <1>2, <1>3, <1>4, <1>5, ShipperStepTypes, RestartTypes DEF Next

LEMMA TypeInvariance == Spec => []AgentTypes
BY InitTypes, TypeStep, PTL DEF Spec

\* Every variable has its type, and the channel is never over its capacity.
THEOREM TypeCorrect == Spec => []TypeOK
<1>1. AgentTypes => TypeOK
  <2>. SUFFICES ASSUME AgentTypes PROVE TypeOK
    OBVIOUS
  <2>1. \A p \in Path : /\ files[p].inode \in {0} \cup Inode
                        /\ files[p].offset \in 0..MaxLines /\ files[p].pending \in Seq(Line)
    BY DEF AgentTypes, TailerTypes, FileState
  <2>2. InFlight \subseteq Entry
    BY RangeOfSeq DEF AgentTypes, FlowTypes, InFlight
  <2>3. \A e \in Entry : /\ e.file \in Path
                         /\ [inode |-> e.inode, life |-> e.life, offset |-> e.offset] \in Position
    BY Constants DEF Entry, Position
  <2>4. reading \in Path \cup {NoPath}
    BY DEF AgentTypes, TailerTypes
  <2>. QED  BY <2>1, <2>2, <2>3, <2>4
            DEF TypeOK, AgentTypes, DiskTypes, TailerTypes, FlowTypes, ShipperTypes
<1>. QED  BY <1>1, TypeInvariance, PTL

-----------------------------------------------------------------------------
(* The flow of entries.                                                    *)

Sending == IF out = NoEntry THEN <<>> ELSE <<out>>

LEMMA FlowIs ==
  ASSUME AgentTypes
  PROVE  /\ Flow \in Seq(Entry) /\ Len(Flow) \in Nat /\ DOMAIN Flow = 1..Len(Flow)
         /\ batch \in Seq(Entry) /\ ch \in Seq(Entry) /\ Sending \in Seq(Entry)
         /\ Flow = (batch \o ch) \o Sending /\ Flow = batch \o (ch \o Sending)
         /\ \A k \in 1..Len(Flow) : Flow[k] \in Entry /\ Placed(Flow[k])
<1>1. batch \in Seq(Entry) /\ ch \in Seq(Entry) /\ (out = NoEntry \/ out \in Entry)
  BY DEF AgentTypes, FlowTypes
<1>2. Sending \in Seq(Entry) /\ Range(Sending) \subseteq InFlight
  BY <1>1 DEF Sending, Range, InFlight
<1>3. Flow = (batch \o ch) \o Sending
  BY DEF Flow, Sending
<1>4. (batch \o ch) \o Sending = batch \o (ch \o Sending)
  BY <1>1, <1>2, ConcatAssociative
<1>5. /\ batch \o ch \in Seq(Entry) /\ Range(batch \o ch) = Range(batch) \cup Range(ch)
      /\ Flow \in Seq(Entry) /\ Range(Flow) = Range(batch) \cup Range(ch) \cup Range(Sending)
  <2>1. batch \o ch \in Seq(Entry) /\ Range(batch \o ch) = Range(batch) \cup Range(ch)
    BY <1>1, ConcatProperties, RangeConcatenation
  <2>2. (batch \o ch) \o Sending \in Seq(Entry)
    BY <1>2, <2>1, ConcatProperties
  <2>3. \A s, t \in Seq(Entry) : Range(s \o t) = Range(s) \cup Range(t)
    BY RangeConcatenation
  <2>4. Range((batch \o ch) \o Sending) = Range(batch \o ch) \cup Range(Sending)
    BY <1>2, <2>1, <2>3, Zenon
  <2>. QED  BY <1>3, <2>1, <2>2, <2>4, Zenon
<1>6. Len(Flow) \in Nat /\ DOMAIN Flow = 1..Len(Flow) /\ \A k \in 1..Len(Flow) : Flow[k] \in Entry
  BY <1>5
<1>7. \A k \in 1..Len(Flow) : Flow[k] \in InFlight
  BY <1>2, <1>5, <1>6 DEF Range, InFlight
<1>. QED  BY <1>1, <1>2, <1>3, <1>4, <1>5, <1>6, <1>7 DEF AgentTypes, FlowTypes

\* Sending and receiving move an entry along.
LEMMA SendFlow ==
  ASSUME AgentTypes, SendEntry
  PROVE  Flow' = Flow
<1>1. /\ batch' = batch /\ ch' = Append(ch, out) /\ out \in Entry /\ Sending = <<out>>
      /\ Sending' = <<>>
  BY Constants DEF SendEntry, shipperVars, AgentTypes, FlowTypes, Sending, Entry, NoEntry
<1>2. batch \in Seq(Entry) /\ ch \in Seq(Entry) /\ Flow = batch \o (ch \o Sending)
  BY FlowIs
<1>3. ch' = ch \o <<out>> /\ ch' \in Seq(Entry)
  BY <1>1, <1>2, AppendProperties, AppendIsConcat
<1>4. Flow' = (batch \o ch') \o <<>>
  BY <1>1 DEF Flow, Sending
<1>5. batch \o ch' \in Seq(Entry)
  BY <1>2, <1>3, ConcatProperties
<1>6. Flow' = batch \o ch'
  BY <1>4, <1>5, ConcatEmptySeq
<1>. QED  BY <1>1, <1>2, <1>3, <1>6

LEMMA ReceiveFlow ==
  ASSUME AgentTypes, Receive, UNCHANGED out
  PROVE  Flow' = Flow
<1>1. /\ batch \in Seq(Entry) /\ ch \in Seq(Entry) /\ Flow = (batch \o ch) \o Sending
  BY FlowIs
<1>2. ch # <<>> /\ ch' = Tail(ch) /\ batch' = Append(batch, Head(ch)) /\ Sending' = Sending
  BY DEF Receive, Sending
<1>3. /\ Head(ch) \in Entry /\ Tail(ch) \in Seq(Entry) /\ <<Head(ch)>> \in Seq(Entry)
  BY <1>1, <1>2
<1>4. batch' = batch \o <<Head(ch)>>
  BY <1>1, <1>2, <1>3, AppendIsConcat
<1>5. <<Head(ch)>> \o Tail(ch) = ch
  BY <1>1, <1>2
<1>6. (batch \o <<Head(ch)>>) \o Tail(ch) = batch \o (<<Head(ch)>> \o Tail(ch))
  BY <1>1, <1>3, ConcatAssociative
<1>7. Flow' = (batch' \o ch') \o Sending
  BY <1>2 DEF Flow, Sending
<1>. QED  BY <1>1, <1>2, <1>4, <1>5, <1>6, <1>7

\* The end of a flush takes the batch off the front.
LEMMA FlushFlow ==
  ASSUME AgentTypes, UNCHANGED <<ch, out>>, FlushEnds
  PROVE  /\ Len(Flow) = Len(batch) + Len(Flow') /\ Len(batch) \in Nat /\ Len(Flow') \in Nat
         /\ \A k \in 1..Len(batch) : Flow[k] = batch[k]
         /\ \A k \in 1..Len(Flow') : Flow'[k] = Flow[Len(batch) + k]
<1>1. /\ batch \in Seq(Entry) /\ ch \in Seq(Entry) /\ Sending \in Seq(Entry)
      /\ Flow = batch \o (ch \o Sending)
  BY FlowIs
<1>2. /\ ch \o Sending \in Seq(Entry) /\ <<>> \o ch = ch
  BY <1>1, ConcatProperties, ConcatEmptySeq
<1>3. Flow' = ch \o Sending
  <2>1. Flow' = (<<>> \o ch) \o Sending
    BY DEF FlushEnds, Flow, Sending
  <2>. QED  BY <1>2, <2>1
<1>4. /\ Len(batch \o Flow') = Len(batch) + Len(Flow')
      /\ \A i \in 1..(Len(batch) + Len(Flow')) :
           (batch \o Flow')[i] = IF i <= Len(batch) THEN batch[i] ELSE Flow'[i - Len(batch)]
  BY <1>1, <1>2, <1>3, ConcatProperties
<1>5. Len(batch) \in Nat /\ Len(Flow') \in Nat
  BY <1>1, <1>2, <1>3
<1>6. \A k \in 1..Len(batch) : k \in 1..(Len(batch) + Len(Flow')) /\ k <= Len(batch)
  BY <1>5
<1>7. \A k \in 1..Len(Flow') : /\ Len(batch) + k \in 1..(Len(batch) + Len(Flow'))
                               /\ ~(Len(batch) + k <= Len(batch))
                               /\ Len(batch) + k - Len(batch) = k
  BY <1>5
<1>. QED  BY <1>1, <1>3, <1>4, <1>5, <1>6, <1>7

\* The batch is the front of the flow.
LEMMA BatchFlow ==
  ASSUME AgentTypes
  PROVE  /\ Len(batch) \in Nat /\ Len(batch) <= Len(Flow)
         /\ \A k \in 1..Len(batch) : Flow[k] = batch[k]
<1>1. /\ batch \in Seq(Entry) /\ ch \in Seq(Entry) /\ Sending \in Seq(Entry)
      /\ Flow = batch \o (ch \o Sending)
  BY FlowIs
<1>2. ch \o Sending \in Seq(Entry)
  BY <1>1, ConcatProperties
<1>3. /\ Len(Flow) = Len(batch) + Len(ch \o Sending)
      /\ \A i \in 1..(Len(batch) + Len(ch \o Sending)) :
           Flow[i] = IF i <= Len(batch) THEN batch[i] ELSE (ch \o Sending)[i - Len(batch)]
  BY <1>1, <1>2, ConcatProperties
<1>. QED  BY <1>1, <1>2, <1>3

\* A complete message joins the flow at its end, and leaves it there on shutdown.
LEMMA ReadFlow ==
  ASSUME AgentTypes, UNCHANGED <<ch, batch>>, out = NoEntry, out' = NextEntry, NextEntry \in Entry
  PROVE  /\ Len(Flow') = Len(Flow) + 1
         /\ \A k \in 1..Len(Flow) : Flow'[k] = Flow[k]
         /\ Flow'[Len(Flow) + 1] = NextEntry
<1>1. NextEntry # NoEntry
  BY Constants DEF Entry, NoEntry
<1>2. batch \o ch \in Seq(Entry)
  BY FlowIs, ConcatProperties
<1>3. Flow = (batch \o ch) \o <<>> /\ Flow' = (batch \o ch) \o <<NextEntry>>
  BY <1>1 DEF Flow
<1>4. Flow = batch \o ch
  BY <1>2, <1>3, ConcatEmptySeq
<1>5. Flow' = Append(Flow, NextEntry)
  BY <1>2, <1>3, <1>4, AppendIsConcat
<1>. QED  BY <1>2, <1>4, <1>5, AppendProperties

LEMMA CancelFlow ==
  ASSUME AgentTypes, UNCHANGED <<ch, batch>>, tpc = "send", out' = NoEntry
  PROVE  /\ Len(Flow') \in Nat /\ Len(Flow) = Len(Flow') + 1
         /\ \A k \in 1..Len(Flow') : Flow'[k] = Flow[k]
<1>1. out \in Entry /\ out # NoEntry
  BY Constants DEF AgentTypes, FlowTypes, Entry, NoEntry
<1>2. batch \o ch \in Seq(Entry)
  BY FlowIs, ConcatProperties
<1>3. Flow = (batch \o ch) \o <<out>> /\ Flow' = (batch \o ch) \o <<>>
  BY <1>1 DEF Flow
<1>4. Flow' = batch \o ch
  BY <1>2, <1>3, ConcatEmptySeq
<1>5. Flow = Append(Flow', out)
  BY <1>1, <1>2, <1>3, <1>4, AppendIsConcat
<1>. QED  BY <1>1, <1>2, <1>4, <1>5, AppendProperties

\* The shipper's steps between taking a batch and dropping it.
Calling == Tick \/ ChannelClosed \/ CallOk \/ CallBroken \/ CallRefused \/ CallUnsendable \/ Retry
Dropping == Abandon \/ Save \/ SaveFails

\* How a step changes the flow.
LEMMA FlowStep ==
  ASSUME AgentTypes, [Next]_agentVars
  PROVE  \/ Flow' = Flow
         \/ ReadLine /\ TailerStep /\ tpc' = "send" /\ out = NoEntry /\ out' = NextEntry
         \/ SendCancelled /\ TailerStep
         \/ Dropping /\ ShipperStep /\ FlushEnds
         \/ Restart /\ Flow' = <<>>
<1>1. CASE UNCHANGED <<batch, ch, out>>
  BY <1>1 DEF Flow
<1>2. CASE NodeStep \/ Cancel \/ UNCHANGED agentVars
  BY <1>1, <1>2 DEF NodeStep, Cancel, agentVars, shipperVars, tailerVars
<1>3. CASE TailerStep
  <2>1. UNCHANGED <<batch, ch>>
    BY <1>3 DEF TailerStep, shipperVars
  <2>2. CASE ReadLine
    <3>1. UNCHANGED diskVars /\ tpc = "read" /\ out = NoEntry
      BY <1>3, <2>2 DEF TailerStep, ReadLine, AgentTypes, FlowTypes
    <3>2. CASE tpc' = "read" /\ out' = out
      BY <1>1, <2>1, <3>2
    <3>. QED  BY <1>3, <2>2, <3>1, <3>2, ReadMoves
  <2>3. CASE SendCancelled
    BY <1>3, <2>3
  <2>4. CASE ~ReadLine /\ ~SendCancelled
    BY <1>1, <1>3, <2>1, <2>4 DEF TailerStep, PollStarts, PollEnds, TailerStops, EndOfFile,
                                  OpenFails, OpenFile
  <2>. QED  BY <2>2, <2>3, <2>4
<1>4. CASE SendEntry
  BY <1>4, SendFlow
<1>5. CASE ShipperStep
  <2>1. out' = out
    BY <1>5 DEF ShipperStep, tailerVars
  <2>2. CASE Receive
    BY <2>1, <2>2, ReceiveFlow
  <2>3. CASE Calling
    BY <1>1, <2>1, <2>3 DEF Calling, Tick, ChannelClosed, CallOk, CallBroken, CallRefused,
                            CallUnsendable, Retry
  <2>4. CASE Dropping
    BY <1>5, <2>4 DEF Dropping, Abandon, Save, SaveFails
  <2>. QED  BY <1>5, <2>2, <2>3, <2>4 DEF ShipperStep, Calling, Dropping
<1>6. CASE Restart
  <2>1. <<>> \in Seq(Entry)
    OBVIOUS
  <2>. QED  BY <1>6, <2>1, ConcatEmptySeq DEF Restart, Flow
<1>. QED  BY <1>2, <1>3, <1>4, <1>5, <1>6 DEF Next

-----------------------------------------------------------------------------
(* Only abandoned lines are skipped.                                       *)

\* What is done with stays done with.
LEMMA DeliverDone ==
  ASSUME AgentTypes, NEW n \in 0..Len(batch), NEW D \in SUBSET (1..n), Deliver(n, D)
  PROVE  /\ Accepted \subseteq Accepted' /\ dropped \subseteq dropped'
         /\ IdsTo(batch, n) \subseteq Accepted' \cup dropped'
<1>. DEFINE kept == UNION {Ids(batch[k].message) : k \in (1..n) \ D}
<1>1. /\ copies \in [1..MaxLines -> Nat]
      /\ copies' = [i \in 1..MaxLines |-> IF i \in kept THEN copies[i] + 1 ELSE copies[i]]
      /\ dropped' = dropped \cup UNION {Ids(batch[k].message) : k \in D}
  BY DEF Deliver, AgentTypes, ShipperTypes
<1>2. \A i \in 1..MaxLines : /\ copies[i] > 0 => copies'[i] > 0
                             /\ i \in kept => copies'[i] > 0
  <2>. HIDE DEF kept
  <2>. QED  BY <1>1
<1>3. kept \subseteq 1..MaxLines
  <2>1. Len(batch) \in Nat /\ DOMAIN batch = 1..Len(batch)
    BY SendableRange
  <2>2. \A k \in 1..n : k \in DOMAIN batch
    BY <2>1
  <2>3. \A k \in 1..n : Ids(batch[k].message) \subseteq 1..MaxLines
    BY <2>2, BatchEntry, EntryIds
  <2>. QED  BY <2>3
<1>4. kept \subseteq Accepted' /\ Accepted \subseteq Accepted'
  <2>. HIDE DEF kept
  <2>. QED  BY <1>2, <1>3 DEF Accepted
<1>5. IdsTo(batch, n) \subseteq kept \cup dropped'
  BY <1>1 DEF IdsTo
<1>. QED  BY <1>1, <1>4, <1>5

LEMMA DoneGrows ==
  ASSUME AgentTypes, [Next]_agentVars
  PROVE  Done \subseteq Done'
<1>1. CASE UNCHANGED <<copies, dropped, abandoned>> /\ missed \subseteq missed'
  BY <1>1 DEF Done, Accepted
<1>2. CASE TailerStep
  <2>1. missed \subseteq missed'
    BY <1>2 DEF TailerStep, PollStarts, PollEnds, TailerStops, SendCancelled, EndOfFile,
                ReadLine, OpenFails, OpenFile
  <2>. QED  BY <1>1, <1>2, <2>1 DEF TailerStep, serverVars
<1>3. CASE NodeStep \/ SendEntry \/ Cancel \/ Restart \/ UNCHANGED agentVars
  BY <1>1, <1>3 DEF NodeStep, SendEntry, Cancel, Restart, agentVars, serverVars, tailerVars
<1>4. CASE ShipperStep
  <2>1. missed' = missed
    BY <1>4 DEF ShipperStep, tailerVars
  <2>2. CASE CallOk
    <3>1. PICK D \in SUBSET DOMAIN batch : Deliver(Len(batch), D)
      BY <2>2 DEF CallOk
    <3>2. D \in SUBSET (1..Len(batch)) /\ Len(batch) \in 0..Len(batch)
      BY SendableRange
    <3>. QED  BY <2>1, <2>2, <3>1, <3>2, DeliverDone DEF CallOk, Done
  <2>3. CASE CallBroken
    <3>1. PICK n \in 0..Sendable : \E D \in SUBSET (1..n) : Deliver(n, D)
      BY <2>3 DEF CallBroken
    <3>2. PICK D \in SUBSET (1..n) : Deliver(n, D)
      BY <3>1
    <3>3. n \in 0..Len(batch)
      BY SendableRange
    <3>. QED  BY <2>1, <2>3, <3>2, <3>3, DeliverDone DEF CallBroken, Done
  <2>4. CASE Abandon
    BY <2>1, <2>4 DEF Abandon, Done, Accepted
  <2>5. CASE Receive \/ Tick \/ ChannelClosed \/ CallRefused \/ CallUnsendable \/ Retry
             \/ Save \/ SaveFails
    BY <1>1, <2>1, <2>5 DEF Receive, Tick, ChannelClosed, CallRefused, CallUnsendable, Retry,
                            Save, SaveFails, serverVars
  <2>. QED  BY <1>4, <2>2, <2>3, <2>4, <2>5 DEF ShipperStep
<1>. QED  BY <1>2, <1>3, <1>4 DEF Next

LEMMA PlacesStay ==
  ASSUME AgentTypes, Grown
  PROVE  /\ \A p \in Path : /\ PastIn(data', positions[p]) = PastIn(data, positions[p])
                            /\ PastIn(data', saved[p]) = PastIn(data, saved[p])
                            /\ PastIn(data', files[p]) = PastIn(data, files[p])
         /\ \A k \in 1..Len(Flow) : PastIn(data', Flow[k]) = PastIn(data, Flow[k])
<1>. USE DEF AgentTypes
<1>1. ASSUME NEW p \in Path
      PROVE  /\ PastIn(data', positions[p]) = PastIn(data, positions[p])
             /\ PastIn(data', saved[p]) = PastIn(data, saved[p])
             /\ PastIn(data', files[p]) = PastIn(data, files[p])
  <2>1. \A s : s = NoPosition \/ s = NoState \/ Placed(s) => PastIn(data', s) = PastIn(data, s)
    BY PastStays, PastNone
  <2>. QED  BY <2>1 DEF TailerTypes, ShipperTypes
<1>2. \A k \in 1..Len(Flow) : PastIn(data', Flow[k]) = PastIn(data, Flow[k])
  BY FlowIs, PastStays
<1>. QED  BY <1>1, <1>2

LEMMA IdsToGrows ==
  ASSUME NEW f, NEW m \in Nat, NEW k \in 0..m
  PROVE  IdsTo(f, k) \subseteq IdsTo(f, m)
BY DEF IdsTo

\* After a call that ended well the whole batch is done with.
LEMMA CallOkDone ==
  ASSUME AgentTypes, CallOk
  PROVE  IdsTo(batch, Len(batch)) \subseteq Accepted' \cup dropped'
<1>1. PICK D \in SUBSET DOMAIN batch : Deliver(Len(batch), D)
  BY DEF CallOk
<1>2. D \in SUBSET (1..Len(batch)) /\ Len(batch) \in 0..Len(batch)
  BY SendableRange
<1>. QED  BY <1>1, <1>2, DeliverDone

LEMMA PositionsCoveredStep ==
  ASSUME AgentTypes, Covered, [Next]_agentVars
  PROVE  PositionsCovered'
<1>1. Grown /\ Done \subseteq Done'
  BY DiskStep, DoneGrows DEF AgentTypes
<1>2. \A p \in Path : /\ PastIn(data', positions[p]) \subseteq Done'
                      /\ PastIn(data', saved[p]) \subseteq Done'
                      /\ PastIn(data', NoPosition) \subseteq Done'
  BY <1>1, PlacesStay, PastNone DEF Covered, PositionsCovered
<1>3. CASE CallOk /\ saved' = saved
  <2>. SUFFICES ASSUME NEW p \in Path PROVE PastIn(data', Committed[p]) \subseteq Done'
    BY <1>2, <1>3 DEF CallOk, PositionsCovered
  <2>1. ASSUME NEW k \in DOMAIN batch,
               Committed[p] = [inode |-> batch[k].inode, life |-> batch[k].life,
                               offset |-> batch[k].offset]
        PROVE  PastIn(data', Committed[p]) \subseteq Done'
    <3>1. k \in 1..Len(batch) /\ k \in 1..Len(Flow) /\ Flow[k] = batch[k] /\ Len(batch) \in Nat
      BY BatchEntry, BatchFlow, FlowIs
    <3>2. PastIn(data', Committed[p]) = PastIn(data', Flow[k])
      BY <2>1, <3>1 DEF PastIn
    <3>3. PastIn(data', Flow[k]) \subseteq Done \cup IdsTo(Flow, k)
      BY <1>1, <3>1, PlacesStay DEF Covered, FlowCovered
    <3>4. IdsTo(Flow, k) = IdsTo(batch, k) /\ IdsTo(batch, k) \subseteq IdsTo(batch, Len(batch))
      <4>1. \A j \in 1..k : Flow[j] = batch[j]
        BY <3>1, BatchFlow
      <4>. QED  BY <3>1, <4>1, IdsToGrows DEF IdsTo
    <3>. QED  BY <1>1, <1>3, <3>2, <3>3, <3>4, CallOkDone DEF Done
  <2>. QED  BY <1>2, <2>1, CommittedIs
<1>4. CASE /\ \A p \in Path : positions'[p] \in {positions[p], saved[p], NoPosition}
           /\ \A p \in Path : saved'[p] \in {positions[p], saved[p]}
  BY <1>2, <1>4 DEF PositionsCovered
<1>5. CASE NodeStep \/ SendEntry \/ Cancel \/ UNCHANGED agentVars
  BY <1>4, <1>5 DEF NodeStep, SendEntry, Cancel, agentVars
<1>6. CASE TailerStep
  BY <1>4, <1>6 DEF TailerStep, PollStarts, PollEnds, TailerStops, SendCancelled, EndOfFile,
                    ReadLine, OpenFails, OpenFile
<1>7. CASE ShipperStep
  BY <1>3, <1>4, <1>7 DEF ShipperStep, Receive, Tick, ChannelClosed, CallBroken, CallRefused,
                          CallUnsendable, Retry, Abandon, Save, SaveFails, CallOk, CallFailed
<1>8. CASE Restart
  BY <1>4, <1>8 DEF Restart
<1>. QED  BY <1>5, <1>6, <1>7, <1>8 DEF Next

LEMMA SaveCoveredStep ==
  ASSUME AgentTypes, Covered, [Next]_agentVars
  PROVE  SaveCovered'
<1>1. Done \subseteq Done'
  BY DoneGrows
<1>2. CASE UNCHANGED <<spc, batch>>
  BY <1>1, <1>2 DEF Covered, SaveCovered
<1>3. CASE spc' # "save"
  BY <1>3 DEF SaveCovered
<1>4. CASE CallOk
  BY <1>4, CallOkDone DEF CallOk, SaveCovered, Done
<1>5. CASE NodeStep \/ TailerStep \/ SendEntry \/ Cancel \/ UNCHANGED agentVars
  BY <1>2, <1>5 DEF NodeStep, TailerStep, SendEntry, Cancel, agentVars, shipperVars
<1>6. CASE ShipperStep
  BY <1>3, <1>4, <1>6 DEF ShipperStep, Receive, Tick, ChannelClosed, CallBroken, CallRefused,
                          CallUnsendable, Retry, Abandon, Save, SaveFails, CallFailed, FlushEnds
<1>. QED  BY <1>3, <1>5, <1>6 DEF Next, Restart

\* The reader's place is covered with the lines it has jumped over.
LEMMA TodayPast ==
  ASSUME DiskTypes, NEW st \in FileState, Placed(st),
         st.offset <= Len(Content(st.inode))
  PROVE  PastIn(data, Today(st)) \subseteq PastIn(data, st) \cup Jumped(st)
<1>1. st.inode \in Range(home)
  BY PlacedInode
<1>2. /\ Today(st).offset = st.offset /\ Today(st).life = Life(st.inode)
      /\ Life(st.inode) \in 1..Len(home)
  BY <1>1, TodayPlaced, LifeOf
<1>3. CASE st.life = Life(st.inode)
  BY <1>2, <1>3 DEF PastIn
<1>4. CASE st.life # Life(st.inode)
  <2>. DEFINE C == Content(st.inode)
              S == SubSeq(C, 1, st.offset)
  <2>1. Ids(S) \subseteq Jumped(st)
    BY <1>4 DEF Jumped, Stale, Placed, PlacedIn
  <2>2. C \in Seq(Line) /\ st.offset \in Nat /\ S \in Seq(Line)
    BY <1>1, JumpedIds
  <2>3. Len(S) = st.offset /\ \A k \in 1..st.offset : S[k] = C[k]
    <3>1. \A k \in 1..st.offset : C[k] \in Line
      BY <2>2
    <3>. HIDE DEF C
    <3>. QED  BY <2>2, <3>1, SubSeqProperties
  <2>4. \A k \in 1..st.offset : C[k].id \in Ids(S)
    <3>1. DOMAIN S = 1..st.offset
      <4>. HIDE DEF S
      <4>. QED  BY <2>2, <2>3
    <3>2. \A k \in 1..st.offset : C[k] \in Range(S)
      <4>. HIDE DEF S, C
      <4>. QED  BY <2>3, <3>1 DEF Range
    <3>. QED  BY <3>2 DEF Ids
  <2>5. C = data[Life(st.inode)]
    BY DEF Content
  <2>. QED  BY <1>2, <2>1, <2>4, <2>5 DEF PastIn
<1>. QED  BY <1>3, <1>4

LEMMA ReaderPast ==
  ASSUME AgentTypes, UNCHANGED diskVars, ReadLine, Covered
  PROVE  /\ PastIn(data, Reader) \subseteq Done \cup missed' \cup IdsTo(Flow, Len(Flow))
         /\ \A s : s.life = Reader.life /\ s.offset = Reader.offset + 1 =>
              PastIn(data, s) = PastIn(data, Reader)
                                \cup (IF Completes(NextLine) THEN {NextLine.id} ELSE {})
<1>1. /\ tpc = "read" /\ Unread(reading) # <<>>
      /\ missed' = IF buf = <<>> THEN missed \cup Jumped(files[reading]) ELSE missed
  BY ReadMoves
<1>2. /\ Placed(Reader) /\ Reader.offset = files[reading].offset /\ reading \in Path
      /\ Placed(files[reading]) /\ files[reading] \in FileState
      /\ Reader.offset < Len(data[Reader.life])
  BY <1>1, ReaderPlaced DEF AgentTypes, TailerTypes
<1>3. PastIn(data, files[reading]) \subseteq Done \cup IdsTo(Flow, Len(Flow))
  BY <1>1, <1>2 DEF Covered, FilesCovered
<1>4. PastIn(data, Reader) \subseteq Done \cup missed' \cup IdsTo(Flow, Len(Flow))
  <2>1. CASE buf = <<>>
    <3>1. Reader = Today(files[reading])
      BY <2>1 DEF Reader
    <3>2. files[reading].inode \in Range(home)
      BY <1>2, PlacedInode DEF AgentTypes
    <3>3. Reader.life = Life(files[reading].inode)
      BY <1>2, <3>1 DEF Today, FileState
    <3>4. files[reading].offset <= Len(Content(files[reading].inode))
      BY <1>2, <3>3, LineSeqs DEF Placed, PlacedIn, Content, AgentTypes
    <3>. QED  BY <1>1, <1>2, <1>3, <2>1, <3>1, <3>4, TodayPast DEF AgentTypes
  <2>2. CASE buf # <<>>
    BY <1>3, <2>2 DEF Reader
  <2>. QED  BY <2>1, <2>2
<1>6. ASSUME NEW s, s.life = Reader.life, s.offset = Reader.offset + 1
      PROVE  PastIn(data, s) = PastIn(data, Reader)
                               \cup (IF Completes(NextLine) THEN {NextLine.id} ELSE {})
  <2>1. Reader.offset \in Nat
    BY <1>2, LineSeqs DEF Placed, PlacedIn, AgentTypes
  <2>2. \A k : k \in 1..(Reader.offset + 1) <=> k \in 1..Reader.offset \/ k = Reader.offset + 1
    BY <2>1
  <2>. QED  BY <1>6, <2>2 DEF PastIn, NextLine
<1>. QED  BY <1>4, <1>6

\* A batch that is dropped is done with.
LEMMA DropFlow ==
  ASSUME AgentTypes, Covered, [Next]_agentVars, Dropping, ShipperStep, FlushEnds
  PROVE  /\ Len(Flow) = Len(batch) + Len(Flow') /\ Len(batch) \in Nat /\ Len(Flow') \in Nat
         /\ \A k \in 1..Len(Flow') : /\ Len(batch) + k \in 1..Len(Flow)
                                     /\ Flow'[k] = Flow[Len(batch) + k]
         /\ \A k \in 0..Len(Flow') :
              IdsTo(Flow, Len(batch) + k) \subseteq Done' \cup IdsTo(Flow', k)
<1>. DEFINE n == Len(batch)
<1>1. /\ Len(Flow) = n + Len(Flow') /\ n \in Nat /\ Len(Flow') \in Nat
      /\ \A k \in 1..n : Flow[k] = batch[k]
      /\ \A k \in 1..Len(Flow') : Flow'[k] = Flow[n + k]
  <2>1. UNCHANGED <<ch, out>>
    BY DEF Dropping, ShipperStep, Abandon, Save, SaveFails, tailerVars
  <2>. QED  BY <2>1, FlushFlow
<1>2. IdsTo(batch, n) \subseteq Done'
  <2>1. CASE Abandon
    <3>1. IdsTo(batch, n) \subseteq IdsOf(batch)
      BY SendableRange DEF IdsTo, IdsOf, Range
    <3>. QED  BY <2>1, <3>1 DEF Abandon, Done
  <2>2. CASE Save \/ SaveFails
    BY <2>2, DoneGrows DEF Save, SaveFails, Covered, SaveCovered
  <2>. QED  BY <2>1, <2>2 DEF Dropping
<1>3. ASSUME NEW k \in 0..Len(Flow')
      PROVE  IdsTo(Flow, n + k) \subseteq Done' \cup IdsTo(Flow', k)
  <2>1. ASSUME NEW j \in 1..(n + k)
        PROVE  Ids(Flow[j].message) \subseteq IdsTo(batch, n) \cup IdsTo(Flow', k)
    <3>1. CASE j \in 1..n
      BY <1>1, <3>1 DEF IdsTo
    <3>2. CASE j \notin 1..n
      <4>1. j - n \in 1..k /\ j - n \in 1..Len(Flow') /\ n + (j - n) = j
        <5>. HIDE DEF n
        <5>. QED  BY <1>1, <3>2
      <4>2. Flow[j] = Flow'[j - n]
        BY <1>1, <4>1
      <4>. QED  BY <4>1, <4>2 DEF IdsTo
    <3>. QED  BY <3>1, <3>2
  <2>2. IdsTo(Flow, n + k) \subseteq IdsTo(batch, n) \cup IdsTo(Flow', k)
    <3>. HIDE DEF n
    <3>. QED  BY <2>1 DEF IdsTo
  <2>. QED  BY <1>2, <2>2
<1>4. \A k \in 1..Len(Flow') : n + k \in 1..Len(Flow)
  <2>. HIDE DEF n
  <2>. QED  BY <1>1
<1>. QED  BY <1>1, <1>3, <1>4

\* A message that joins the flow brings the line it ends at.
LEMMA JoinFlow ==
  ASSUME AgentTypes, ReadLine, TailerStep, tpc' = "send", out = NoEntry, out' = NextEntry
  PROVE  /\ Len(Flow) \in Nat /\ Len(Flow') = Len(Flow) + 1
         /\ \A k \in 1..Len(Flow) : Flow'[k] = Flow[k]
         /\ Flow'[Len(Flow) + 1] = NextEntry
         /\ \A k \in 1..Len(Flow) : IdsTo(Flow', k) = IdsTo(Flow, k)
         /\ IdsTo(Flow', Len(Flow) + 1) = IdsTo(Flow, Len(Flow)) \cup Ids(NextEntry.message)
         /\ NextEntry.life = Reader.life /\ NextEntry.offset = Reader.offset + 1
         /\ NextLine.id \in Ids(NextEntry.message) /\ data' = data
<1>1. UNCHANGED diskVars /\ UNCHANGED <<data, ch, batch>> /\ Len(Flow) \in Nat
  BY FlowIs DEF TailerStep, diskVars, shipperVars
<1>2. tpc = "read" /\ Unread(reading) # <<>>
  BY <1>1, ReadMoves
<1>3. /\ NextEntry \in Entry /\ NextEntry.life = Reader.life
      /\ NextEntry.offset = Reader.offset + 1
      /\ NextEntry.message = Append(Reader.pending, NextLine)
      /\ Reader.pending \in Seq(Line) /\ NextLine \in Line
  <2>1. Reader.pending \in Seq(Line) /\ NextLine \in Line
    BY <1>2, ReaderPlaced DEF FileState
  <2>2. NextEntry \in Entry
    BY <1>2, NextPlaced
  <2>. QED  BY <2>1, <2>2 DEF NextEntry
<1>4. /\ Len(Flow') = Len(Flow) + 1 /\ \A k \in 1..Len(Flow) : Flow'[k] = Flow[k]
      /\ Flow'[Len(Flow) + 1] = NextEntry
  BY <1>1, <1>3, ReadFlow
<1>5. NextLine.id \in Ids(NextEntry.message)
  <2>1. NextLine \in Range(NextEntry.message)
    BY <1>3, RangeAppend
  <2>. QED  BY <2>1 DEF Ids
<1>6. ASSUME NEW k \in 1..Len(Flow) PROVE IdsTo(Flow', k) = IdsTo(Flow, k)
  <2>1. \A j \in 1..k : Flow'[j] = Flow[j]
    BY <1>1, <1>4
  <2>. QED  BY <2>1 DEF IdsTo
<1>7. IdsTo(Flow', Len(Flow) + 1) = IdsTo(Flow, Len(Flow)) \cup Ids(Flow'[Len(Flow) + 1].message)
  <2>1. \A j : j \in 1..(Len(Flow) + 1) <=> j \in 1..Len(Flow) \/ j = Len(Flow) + 1
    BY <1>1
  <2>2. \A x : x \in IdsTo(Flow', Len(Flow) + 1)
                 <=> \E j \in 1..(Len(Flow) + 1) : x \in Ids(Flow'[j].message)
    BY DEF IdsTo
  <2>3. \A x : x \in IdsTo(Flow, Len(Flow)) <=> \E j \in 1..Len(Flow) : x \in Ids(Flow'[j].message)
    BY <1>4 DEF IdsTo
  <2>4. \A x : x \in IdsTo(Flow', Len(Flow) + 1)
                 <=> x \in IdsTo(Flow, Len(Flow)) \/ x \in Ids(Flow'[Len(Flow) + 1].message)
    BY <2>1, <2>2, <2>3
  <2>. QED  BY <2>4
<1>. QED  BY <1>1, <1>3, <1>4, <1>5, <1>6, <1>7

LEMMA FlowCoveredStep ==
  ASSUME AgentTypes, Covered, [Next]_agentVars
  PROVE  FlowCovered'
<1>1. Grown /\ Done \subseteq Done'
  BY DiskStep, DoneGrows DEF AgentTypes
<1>2. \A k \in 1..Len(Flow) : PastIn(data', Flow[k]) \subseteq Done' \cup IdsTo(Flow, k)
  BY <1>1, PlacesStay DEF Covered, FlowCovered
<1>3. Len(Flow) \in Nat
  BY FlowIs
<1>4. CASE Flow' = Flow
  BY <1>2, <1>4 DEF FlowCovered
<1>5. CASE ReadLine /\ TailerStep /\ tpc' = "send" /\ out = NoEntry /\ out' = NextEntry
  <2>1. /\ Len(Flow') = Len(Flow) + 1 /\ \A k \in 1..Len(Flow) : Flow'[k] = Flow[k]
        /\ Flow'[Len(Flow) + 1] = NextEntry
        /\ \A k \in 1..Len(Flow) : IdsTo(Flow', k) = IdsTo(Flow, k)
        /\ IdsTo(Flow', Len(Flow) + 1) = IdsTo(Flow, Len(Flow)) \cup Ids(NextEntry.message)
        /\ NextEntry.life = Reader.life /\ NextEntry.offset = Reader.offset + 1
        /\ NextLine.id \in Ids(NextEntry.message) /\ data' = data
    BY <1>5, JoinFlow
  <2>2. PastIn(data', NextEntry) \subseteq Done' \cup IdsTo(Flow, Len(Flow)) \cup Ids(NextEntry.message)
    BY <1>1, <1>5, <2>1, ReaderPast DEF Done, TailerStep
  <2>3. ASSUME NEW k \in 1..Len(Flow')
        PROVE  PastIn(data', Flow'[k]) \subseteq Done' \cup IdsTo(Flow', k)
    <3>1. k \in 1..Len(Flow) \/ k = Len(Flow) + 1
      BY <1>3, <2>1
    <3>. QED  BY <1>2, <2>1, <2>2, <3>1
  <2>. QED  BY <2>3 DEF FlowCovered
<1>6. CASE SendCancelled /\ TailerStep
  <2>1. /\ Len(Flow') \in Nat /\ Len(Flow) = Len(Flow') + 1
        /\ \A k \in 1..Len(Flow') : Flow'[k] = Flow[k]
    <3>1. UNCHANGED <<ch, batch>> /\ tpc = "send" /\ out' = NoEntry
      BY <1>6 DEF TailerStep, SendCancelled, shipperVars
    <3>. QED  BY <3>1, CancelFlow
  <2>2. ASSUME NEW k \in 1..Len(Flow')
        PROVE  PastIn(data', Flow'[k]) \subseteq Done' \cup IdsTo(Flow', k)
    <3>1. k \in 1..Len(Flow) /\ Flow'[k] = Flow[k] /\ \A j \in 1..k : Flow'[j] = Flow[j]
      BY <2>1
    <3>2. IdsTo(Flow', k) = IdsTo(Flow, k)
      BY <3>1 DEF IdsTo
    <3>. QED  BY <1>2, <3>1, <3>2
  <2>. QED  BY <2>2 DEF FlowCovered
<1>7. CASE Dropping /\ ShipperStep /\ FlushEnds
  <2>1. ASSUME NEW k \in 1..Len(Flow')
        PROVE  PastIn(data', Flow'[k]) \subseteq Done' \cup IdsTo(Flow', k)
    <3>1. /\ Len(batch) + k \in 1..Len(Flow) /\ Flow'[k] = Flow[Len(batch) + k]
          /\ IdsTo(Flow, Len(batch) + k) \subseteq Done' \cup IdsTo(Flow', k)
      BY <1>7, DropFlow
    <3>. QED  BY <1>2, <3>1
  <2>. QED  BY <2>1 DEF FlowCovered
<1>8. CASE Flow' = <<>>
  <2>1. Len(Flow') = 0 /\ 1..0 = {}
    BY <1>8
  <2>. QED  BY <2>1 DEF FlowCovered
<1>. QED  BY <1>4, <1>5, <1>6, <1>7, <1>8, FlowStep

\* A file is opened where the reader, or the position, left it.
LEMMA OpenPast ==
  ASSUME AgentTypes, Covered, NEW p \in Path, OpenFile(p)
  PROVE  /\ files' = [files EXCEPT ![p] = Today(Current(p))]
         /\ PastIn(data, Today(Current(p))) \subseteq Done \cup missed' \cup IdsTo(Flow, Len(Flow))
<1>1. /\ files' = [files EXCEPT ![p] = Today(Current(p))] /\ names[p] # 0
      /\ missed' = missed \cup Jumped(Current(p)) /\ tpc # "stopped"
  BY DEF OpenFile
<1>2. /\ Current(p) \in FileState /\ Placed(Current(p))
      /\ Current(p).offset <= Len(Content(Current(p).inode))
  BY <1>1, CurrentPlaced
<1>. DEFINE st == IF files[p] = NoState THEN Resume(p) ELSE files[p]
<1>3. Current(p) = IF Restarted(st, p) THEN StartOver(st, p) ELSE st
  BY DEF Current
<1>4. PastIn(data, st) \subseteq Done \cup IdsTo(Flow, Len(Flow))
  <2>1. CASE files[p] # NoState
    BY <1>1, <2>1 DEF Covered, FilesCovered
  <2>2. CASE files[p] = NoState /\ positions[p].inode = names[p]
    <3>1. st.life = positions[p].life /\ st.offset = positions[p].offset
      BY <2>2 DEF Resume
    <3>2. PastIn(data, st) = PastIn(data, positions[p])
      BY <3>1 DEF PastIn
    <3>. QED  BY <3>2 DEF Covered, PositionsCovered
  <2>3. CASE files[p] = NoState /\ positions[p].inode # names[p]
    <3>1. st.offset = 0
      BY <2>3 DEF Resume
    <3>. QED  BY <3>1, PastNone
  <2>. QED  BY <2>1, <2>2, <2>3
<1>5. PastIn(data, Current(p)) \subseteq Done \cup IdsTo(Flow, Len(Flow))
  <2>1. StartOver(st, p).offset = 0
    BY DEF StartOver
  <2>. HIDE DEF st
  <2>. QED  BY <1>3, <1>4, <2>1, PastNone
<1>. QED  BY <1>1, <1>2, <1>5, TodayPast DEF AgentTypes, Done

LEMMA FilesCoveredStep ==
  ASSUME AgentTypes, Covered, [Next]_agentVars
  PROVE  FilesCovered'
<1>1. Grown /\ Done \subseteq Done' /\ Len(Flow) \in Nat
  BY DiskStep, DoneGrows, FlowIs DEF AgentTypes
<1>2. SUFFICES ASSUME tpc' # "stopped"
               PROVE  \A p \in Path : PastIn(data', files'[p]) \subseteq Done' \cup IdsTo(Flow', Len(Flow'))
  BY DEF FilesCovered
<1>3. CASE Restart
  <2>1. \A p \in Path : files'[p] = NoState
    BY <1>3 DEF Restart
  <2>. QED  BY <2>1, PastNone
<1>. SUFFICES ASSUME ~Restart
              PROVE  \A p \in Path : PastIn(data', files'[p]) \subseteq Done' \cup IdsTo(Flow', Len(Flow'))
  BY <1>3
<1>4. tpc # "stopped"
  BY <1>2 DEF Next, NodeStep, TailerStep, PollStarts, PollEnds, TailerStops, SendCancelled, EndOfFile,
              ReadLine, OpenFails, OpenFile, SendEntry, ShipperStep, Cancel, agentVars, tailerVars
<1>5. \A p \in Path : PastIn(data', files[p]) \subseteq Done' \cup IdsTo(Flow, Len(Flow))
  BY <1>1, <1>4, PlacesStay DEF Covered, FilesCovered
<1>6. CASE ReadLine /\ TailerStep
  <2>1. UNCHANGED diskVars /\ data' = data /\ tpc = "read" /\ Unread(reading) # <<>>
    BY <1>6 DEF TailerStep, diskVars, ReadLine
  <2>2. PICK pending \in {Reader.pending, Append(Reader.pending, NextLine), <<>>} :
          files' = [files EXCEPT ![reading] = NextState(pending)]
    BY <1>6, <2>1, ReadMoves
  <2>3. /\ reading \in Path /\ files \in [Path -> FileState]
        /\ NextState(pending).life = Reader.life /\ NextState(pending).offset = Reader.offset + 1
    BY <2>1, NextPlaced, ReaderPlaced DEF AgentTypes, TailerTypes
  <2>4. \A p \in Path : files'[p] = IF p = reading THEN NextState(pending) ELSE files[p]
    BY <2>2, <2>3
  <2>5. PastIn(data, Reader) \subseteq Done' \cup IdsTo(Flow, Len(Flow))
    BY <1>1, <1>6, <2>1, ReaderPast DEF Done
  <2>6. PastIn(data', NextState(pending))
          = PastIn(data, Reader) \cup (IF Completes(NextLine) THEN {NextLine.id} ELSE {})
    BY <1>6, <2>1, <2>3, ReaderPast
  <2>7. CASE tpc' = "read" /\ out' = out /\ ~Completes(NextLine)
    <3>1. Flow' = Flow
      BY <1>6, <2>7 DEF TailerStep, shipperVars, Flow
    <3>. QED  BY <1>5, <2>4, <2>5, <2>6, <2>7, <3>1
  <2>8. CASE tpc' = "send" /\ out' = NextEntry
    <3>1. out = NoEntry
      BY <2>1 DEF AgentTypes, FlowTypes
    <3>2. /\ IdsTo(Flow', Len(Flow')) = IdsTo(Flow, Len(Flow)) \cup Ids(NextEntry.message)
          /\ NextLine.id \in Ids(NextEntry.message)
      BY <1>6, <2>8, <3>1, JoinFlow
    <3>. QED  BY <1>5, <2>4, <2>5, <2>6, <3>2
  <2>. QED  BY <1>6, <2>1, <2>7, <2>8, ReadMoves
<1>7. CASE Dropping /\ ShipperStep /\ FlushEnds
  <2>1. IdsTo(Flow, Len(Flow)) \subseteq Done' \cup IdsTo(Flow', Len(Flow'))
    <3>1. Len(Flow) = Len(batch) + Len(Flow') /\ Len(Flow') \in 0..Len(Flow')
      BY <1>7, DropFlow
    <3>. QED  BY <1>7, <3>1, DropFlow
  <2>2. files' = files
    BY <1>7 DEF ShipperStep, tailerVars
  <2>. QED  BY <1>5, <2>1, <2>2
<1>8. CASE Flow' = Flow /\ ~(ReadLine /\ TailerStep)
  <2>1. CASE \A p \in Path : files'[p] \in {files[p], NoState}
    BY <1>5, <1>8, <2>1, PastNone
  <2>2. CASE TailerStep /\ \E p \in Path : OpenFile(p)
    <3>1. PICK p \in Path : OpenFile(p)
      BY <2>2
    <3>2. data' = data /\ Done \cup missed' \subseteq Done'
      BY <1>1, <2>2 DEF TailerStep, diskVars, Done
    <3>3. \A q \in Path : files'[q] = IF q = p THEN Today(Current(p)) ELSE files[q]
      BY <3>1, OpenPast DEF AgentTypes, TailerTypes
    <3>4. PastIn(data', Today(Current(p))) \subseteq Done' \cup IdsTo(Flow', Len(Flow'))
      BY <1>8, <3>1, <3>2, OpenPast
    <3>. QED  BY <1>5, <1>8, <3>3, <3>4
  <2>3. CASE TailerStep
    BY <1>8, <2>1, <2>2, <2>3 DEF TailerStep, PollStarts, PollEnds, TailerStops, SendCancelled,
                                  EndOfFile, OpenFails
  <2>4. CASE NodeStep \/ SendEntry \/ ShipperStep \/ Cancel \/ UNCHANGED agentVars
    BY <2>1, <2>4 DEF NodeStep, SendEntry, ShipperStep, Cancel, agentVars, tailerVars
  <2>. QED  BY <2>3, <2>4 DEF Next
<1>9. CASE SendCancelled
  BY <1>2, <1>9 DEF SendCancelled
<1>. QED  BY <1>6, <1>7, <1>8, <1>9, FlowStep

LEMMA CoveredInit == Init => Covered
<1>. SUFFICES ASSUME Init PROVE Covered
  OBVIOUS
<1>1. /\ \A p \in Path : positions[p] = NoPosition /\ saved[p] = NoPosition /\ files[p] = NoState
      /\ batch = <<>> /\ ch = <<>> /\ out = NoEntry /\ spc = "collect"
  BY DEF Init
<1>2. \A p \in Path : /\ PastIn(data, positions[p]) = {} /\ PastIn(data, saved[p]) = {}
                      /\ PastIn(data, files[p]) = {}
  BY <1>1, PastNone
<1>3. Len(Flow) = 0 /\ 1..0 = {}
  <2>1. <<>> \in Seq(Entry)
    OBVIOUS
  <2>2. Flow = <<>>
    BY <1>1, <2>1, ConcatEmptySeq DEF Flow
  <2>. QED  BY <2>2
<1>. QED  BY <1>1, <1>2, <1>3 DEF Covered, PositionsCovered, FlowCovered, FilesCovered, SaveCovered

LEMMA CoveredInvariance == Spec => [](AgentTypes /\ Covered)
<1>1. Init => AgentTypes /\ Covered
  BY InitTypes, CoveredInit
<1>2. AgentTypes /\ Covered /\ [Next]_agentVars => (AgentTypes /\ Covered)'
  BY TypeStep, PositionsCoveredStep, FlowCoveredStep, FilesCoveredStep, SaveCoveredStep DEF Covered
<1>. QED  BY <1>1, <1>2, PTL DEF Spec

\* A line that a position, in memory or on disk, has passed was handed to the
\* server by some call, abandoned at a shutdown, or in a content that was mistaken
\* for another: over rotation, truncation, lost receipts, crashes and restarts.
THEOREM NothingSkipped == Spec => []OnlyAbandonedSkipped
<1>1. AgentTypes /\ Covered => OnlyAbandonedSkipped
  <2>. SUFFICES ASSUME AgentTypes, Covered, NEW p \in Path
                PROVE  Behind(positions[p]) \cup Behind(saved[p]) \subseteq Done
    BY DEF OnlyAbandonedSkipped, BehindPositions, Done
  <2>1. \A s : s = NoPosition \/ Placed(s) => Behind(s) = PastIn(data, s)
    <3>1. Behind(NoPosition) = {}
      BY DEF Behind, NoPosition
    <3>. QED  BY <3>1, BehindIs, PastNone DEF AgentTypes
  <2>. QED  BY <2>1 DEF AgentTypes, ShipperTypes, Covered, PositionsCovered
<1>. QED  BY <1>1, CoveredInvariance, PTL

-----------------------------------------------------------------------------
(* Whole messages.                                                         *)

\* The chunks of the message that is not complete after n lines of content l, and
\* of one that its line n completes.
RunIn(d, l, n) ==
  {d[l][k].id : k \in {m \in 1..n : /\ d[l][m].kind = "P"
                                   /\ \A j \in m..n : d[l][j].kind \in {"P", "malformed"}}}
WholeIn(d, l, n) == RunIn(d, l, n - 1) \cup {d[l][n].id}

\* What is in hand is what the files say, but for what met chunks of another life.
Same(ids, lines, x) == (ids \cup lines) \cap x = {} => ids = lines

EndsIn(d, s)  == s.offset > 0 /\ Completes(d[s.life][s.offset])
EntryIn(d, x, e) == EndsIn(d, e) /\ Same(Ids(e.message), WholeIn(d, e.life, e.offset), x)
StateIn(d, x, st) == Same(Ids(st.pending), RunIn(d, st.life, st.offset), x)

\* Entries and positions are at the end of a message.
EntriesWhole  == \A k \in 1..Len(Flow) : EntryIn(data, missed, Flow[k])
PendingWhole  == \A p \in Path : files[p] # NoState => StateIn(data, missed, files[p])
PositionsEnd  == \A p \in Path : /\ positions[p] = NoPosition \/ EndsIn(data, positions[p])
                                 /\ saved[p] = NoPosition \/ EndsIn(data, saved[p])
Messages == EntriesWhole /\ PendingWhole /\ PositionsEnd

\* An entry in the flow after a step was there before, but for one the reader has
\* just completed.
LEMMA EntryStep ==
  ASSUME AgentTypes, [Next]_agentVars, NEW k \in 1..Len(Flow')
  PROVE  \/ \E j \in 1..Len(Flow) : Flow'[k] = Flow[j]
         \/ ReadLine /\ TailerStep /\ tpc' = "send" /\ Flow'[k] = NextEntry
<1>1. CASE Flow' = Flow
  BY <1>1
<1>2. CASE ReadLine /\ TailerStep /\ tpc' = "send" /\ out = NoEntry /\ out' = NextEntry
  <2>1. /\ Len(Flow) \in Nat /\ Len(Flow') = Len(Flow) + 1
        /\ \A j \in 1..Len(Flow) : Flow'[j] = Flow[j]
        /\ Flow'[Len(Flow) + 1] = NextEntry
    BY <1>2, JoinFlow
  <2>2. k \in 1..Len(Flow) \/ k = Len(Flow) + 1
    BY <2>1
  <2>. QED  BY <1>2, <2>1, <2>2
<1>3. CASE SendCancelled /\ TailerStep
  <2>1. UNCHANGED <<ch, batch>> /\ tpc = "send" /\ out' = NoEntry
    BY <1>3 DEF TailerStep, SendCancelled, shipperVars
  <2>2. k \in 1..Len(Flow) /\ Flow'[k] = Flow[k]
    BY <2>1, CancelFlow
  <2>. QED  BY <2>2
<1>4. CASE Dropping /\ ShipperStep /\ FlushEnds
  <2>1. UNCHANGED <<ch, out>>
    BY <1>4 DEF Dropping, ShipperStep, Abandon, Save, SaveFails, tailerVars
  <2>2. /\ Len(Flow) = Len(batch) + Len(Flow') /\ Len(batch) \in Nat /\ Len(Flow') \in Nat
        /\ Flow'[k] = Flow[Len(batch) + k]
    BY <1>4, <2>1, FlushFlow
  <2>3. Len(batch) + k \in 1..Len(Flow)
    BY <2>2
  <2>. QED  BY <2>2, <2>3
<1>5. CASE Flow' = <<>>
  <2>1. Len(Flow') = 0 /\ 1..0 = {}
    BY <1>5
  <2>. QED  BY <2>1
<1>. QED  BY <1>1, <1>2, <1>3, <1>4, <1>5, FlowStep

LEMMA PositionStep ==
  ASSUME AgentTypes, [Next]_agentVars, NEW p \in Path, NEW s \in {positions'[p], saved'[p]}
  PROVE  \/ s \in {positions[p], saved[p], NoPosition}
         \/ \E k \in 1..Len(Flow) :
              /\ Flow[k].file = p
              /\ s = [inode |-> Flow[k].inode, life |-> Flow[k].life, offset |-> Flow[k].offset]
<1>1. CASE CallOk /\ saved' = saved
  <2>1. ASSUME NEW k \in DOMAIN batch, batch[k].file = p
        PROVE  k \in 1..Len(Flow) /\ Flow[k] = batch[k]
    BY BatchEntry, BatchFlow, FlowIs
  <2>2. positions'[p] = Committed[p] /\ saved'[p] = saved[p]
    BY <1>1 DEF CallOk
  <2>3. CASE s = saved[p] \/ Committed[p] = positions[p]
    BY <2>2, <2>3
  <2>4. ASSUME s = Committed[p], NEW k \in DOMAIN batch, batch[k].file = p,
               Committed[p] = [inode |-> batch[k].inode, life |-> batch[k].life,
                               offset |-> batch[k].offset]
        PROVE  \E j \in 1..Len(Flow) :
                 /\ Flow[j].file = p
                 /\ s = [inode |-> Flow[j].inode, life |-> Flow[j].life, offset |-> Flow[j].offset]
    BY <2>1, <2>4
  <2>. QED  BY <2>2, <2>3, <2>4, CommittedIs
<1>2. CASE /\ positions'[p] \in {positions[p], saved[p], NoPosition}
           /\ saved'[p] \in {positions[p], saved[p]}
  BY <1>2
<1>3. CASE NodeStep \/ SendEntry \/ Cancel \/ Restart \/ UNCHANGED agentVars
  BY <1>2, <1>3 DEF NodeStep, SendEntry, Cancel, Restart, agentVars
<1>4. CASE TailerStep
  BY <1>2, <1>4 DEF TailerStep, PollStarts, PollEnds, TailerStops, SendCancelled, EndOfFile,
                    ReadLine, OpenFails, OpenFile
<1>5. CASE ShipperStep
  BY <1>1, <1>2, <1>5 DEF ShipperStep, Receive, Tick, ChannelClosed, CallBroken, CallRefused,
                          CallUnsendable, Retry, Abandon, Save, SaveFails, CallOk, CallFailed
<1>. QED  BY <1>3, <1>4, <1>5 DEF Next

\* Lines are only added.
LEMMA RunStays ==
  ASSUME DiskTypes, Grown, NEW s, Placed(s)
  PROVE  /\ RunIn(data', s.life, s.offset) = RunIn(data, s.life, s.offset)
         /\ EndsIn(data, s) => /\ EndsIn(data', s)
                               /\ WholeIn(data', s.life, s.offset) = WholeIn(data, s.life, s.offset)
<1>1. /\ \A k \in 1..s.offset : data'[s.life][k] = data[s.life][k]
      /\ s.offset \in Nat
  BY LinesStay
<1>2. \A n \in 0..s.offset : RunIn(data', s.life, n) = RunIn(data, s.life, n)
  <2>. SUFFICES ASSUME NEW n \in 0..s.offset
                PROVE  RunIn(data', s.life, n) = RunIn(data, s.life, n)
    OBVIOUS
  <2>1. \A m \in 1..n : /\ data'[s.life][m] = data[s.life][m]
                        /\ \A j \in m..n : data'[s.life][j] = data[s.life][j]
    BY <1>1
  <2>. QED  BY <2>1 DEF RunIn
<1>3. s.offset \in 0..s.offset /\ (s.offset > 0 => s.offset - 1 \in 0..s.offset /\ s.offset \in 1..s.offset)
  BY <1>1
<1>. QED  BY <1>1, <1>2, <1>3 DEF EndsIn, WholeIn

LEMMA SameStays ==
  ASSUME NEW ids, NEW lines, NEW x, NEW y, x \subseteq y, Same(ids, lines, x)
  PROVE  Same(ids, lines, y)
BY DEF Same

LEMMA MissedGrows ==
  ASSUME AgentTypes, [Next]_agentVars
  PROVE  missed \subseteq missed'
<1>1. CASE UNCHANGED missed
  BY <1>1
<1>2. CASE TailerStep
  BY <1>2 DEF TailerStep, PollStarts, PollEnds, TailerStops, SendCancelled, EndOfFile, ReadLine,
              OpenFails, OpenFile
<1>. QED  BY <1>1, <1>2 DEF Next, NodeStep, SendEntry, ShipperStep, Cancel, Restart, agentVars,
            tailerVars

\* One line more.
LEMMA RunNext ==
  ASSUME NEW d, NEW l, NEW n \in Nat
  PROVE  RunIn(d, l, n + 1) = IF d[l][n + 1].kind = "P"
                              THEN RunIn(d, l, n) \cup {d[l][n + 1].id}
                              ELSE IF d[l][n + 1].kind = "malformed" THEN RunIn(d, l, n) ELSE {}
<1>. DEFINE Pure(m, k) == /\ d[l][m].kind = "P"
                          /\ \A j \in m..k : d[l][j].kind \in {"P", "malformed"}
<1>1. \A m : m \in 1..(n + 1) <=> m \in 1..n \/ m = n + 1
  OBVIOUS
<1>2. \A m \in 1..(n + 1) : \A j : j \in m..(n + 1) <=> (j \in m..n \/ j = n + 1)
  OBVIOUS
<1>3. \A m \in 1..n : Pure(m, n + 1) <=> Pure(m, n) /\ d[l][n + 1].kind \in {"P", "malformed"}
  BY <1>1, <1>2
<1>4. Pure(n + 1, n + 1) <=> d[l][n + 1].kind = "P"
  OBVIOUS
<1>5. /\ RunIn(d, l, n + 1) = {d[l][k].id : k \in {m \in 1..(n + 1) : Pure(m, n + 1)}}
      /\ RunIn(d, l, n) = {d[l][k].id : k \in {m \in 1..n : Pure(m, n)}}
  BY DEF RunIn
<1>. HIDE DEF Pure
<1>6. CASE d[l][n + 1].kind = "P"
  <2>1. {m \in 1..(n + 1) : Pure(m, n + 1)} = {m \in 1..n : Pure(m, n)} \cup {n + 1}
    BY <1>1, <1>3, <1>4, <1>6
  <2>. QED  BY <1>5, <1>6, <2>1
<1>7. CASE d[l][n + 1].kind = "malformed"
  <2>1. {m \in 1..(n + 1) : Pure(m, n + 1)} = {m \in 1..n : Pure(m, n)}
    BY <1>1, <1>3, <1>4, <1>7
  <2>. QED  BY <1>5, <1>7, <2>1
<1>8. CASE d[l][n + 1].kind \notin {"P", "malformed"}
  <2>1. {m \in 1..(n + 1) : Pure(m, n + 1)} = {}
    BY <1>1, <1>3, <1>4, <1>8
  <2>. QED  BY <1>5, <1>8, <2>1
<1>. QED  BY <1>6, <1>7, <1>8

\* Nothing is pending at the end of a message, nor at the start of a content.
LEMMA RunNone ==
  ASSUME NEW d, NEW s, s.offset \in Nat, s.offset = 0 \/ EndsIn(d, s)
  PROVE  RunIn(d, s.life, s.offset) = {}
<1>1. CASE s.offset = 0
  <2>1. 1..0 = {}
    OBVIOUS
  <2>. QED  BY <1>1, <2>1 DEF RunIn
<1>2. CASE s.offset # 0
  <2>1. s.offset - 1 \in Nat /\ s.offset = (s.offset - 1) + 1
    BY <1>2
  <2>2. d[s.life][s.offset].kind \notin {"P", "malformed"}
    BY <1>2 DEF EndsIn, Completes
  <2>. QED  BY <2>1, <2>2, RunNext
<1>. QED  BY <1>1, <1>2

LEMMA NoIds == Ids(<<>>) = {}
<1>1. DOMAIN <<>> = {}
  OBVIOUS
<1>. QED  BY <1>1 DEF Ids, Range

LEMMA IdsAppend ==
  ASSUME NEW m \in Seq(Line), NEW l \in Line
  PROVE  Ids(Append(m, l)) = Ids(m) \cup {l.id}
<1>1. Range(Append(m, l)) = Range(m) \cup {l}
  BY RangeAppend
<1>. QED  BY <1>1 DEF Ids

\* An offset mistaken for one of another life: what it passes over, and what was in
\* hand, is counted as missed.
LEMMA TodayWhole ==
  ASSUME DiskTypes, NEW st \in FileState, Placed(st), st.offset <= Len(Content(st.inode)),
         NEW x, StateIn(data, x, st)
  PROVE  StateIn(data, x \cup Jumped(st), Today(st))
<1>1. st.inode \in Range(home)
  BY PlacedInode
<1>2. /\ Today(st).offset = st.offset /\ Today(st).life = Life(st.inode)
      /\ Today(st).pending = st.pending
  BY <1>1, TodayPlaced
<1>3. CASE st.life = Life(st.inode)
  BY <1>2, <1>3, SameStays DEF StateIn
<1>4. CASE st.life # Life(st.inode)
  <2>. DEFINE C == Content(st.inode)
              S == SubSeq(C, 1, st.offset)
  <2>1. Ids(S) \cup Ids(st.pending) = Jumped(st)
    BY <1>4 DEF Jumped, Stale, Placed, PlacedIn
  <2>2. C \in Seq(Line) /\ st.offset \in Nat /\ S \in Seq(Line)
    BY <1>1, JumpedIds
  <2>3. Len(S) = st.offset /\ \A k \in 1..st.offset : S[k] = C[k]
    <3>1. \A k \in 1..st.offset : C[k] \in Line
      BY <2>2
    <3>. HIDE DEF C
    <3>. QED  BY <2>2, <3>1, SubSeqProperties
  <2>4. \A k \in 1..st.offset : C[k].id \in Ids(S)
    <3>1. DOMAIN S = 1..st.offset
      <4>. HIDE DEF S
      <4>. QED  BY <2>2, <2>3
    <3>2. \A k \in 1..st.offset : C[k] \in Range(S)
      <4>. HIDE DEF S, C
      <4>. QED  BY <2>3, <3>1 DEF Range
    <3>. QED  BY <3>2 DEF Ids
  <2>5. C = data[Life(st.inode)]
    BY DEF Content
  <2>6. RunIn(data, Life(st.inode), st.offset) \subseteq Ids(S)
    <3>. HIDE DEF S, C
    <3>. QED  BY <2>4, <2>5 DEF RunIn
  <2>. HIDE DEF S, C
  <2>. QED  BY <1>2, <2>1, <2>6 DEF StateIn, Same
<1>. QED  BY <1>3, <1>4

\* readFile goes on with what it had, or with nothing at the end of a message.
LEMMA CurrentWhole ==
  ASSUME AgentTypes, Messages, NEW p \in Path, names[p] # 0
  PROVE  StateIn(data, missed, Current(p))
<1>1. \A st : /\ StartOver(st, p).pending = <<>> /\ StartOver(st, p).offset = 0
  BY DEF StartOver
<1>2. \A st : st.pending = <<>> /\ st.offset \in Nat /\ (st.offset = 0 \/ EndsIn(data, st))
              => StateIn(data, missed, st)
  BY NoIds, RunNone DEF StateIn, Same
<1>3. StateIn(data, missed, Resume(p))
  <2>1. positions[p].offset \in Nat
    BY Constants DEF AgentTypes, ShipperTypes, Position
  <2>2. Resume(p).pending = <<>>
    BY DEF Resume
  <2>3. CASE positions[p].inode = names[p]
    <3>1. Resume(p).offset = positions[p].offset /\ Resume(p).life = positions[p].life
      BY <2>3 DEF Resume
    <3>2. positions[p] # NoPosition
      BY <2>3 DEF NoPosition
    <3>3. EndsIn(data, Resume(p))
      BY <3>1, <3>2 DEF Messages, PositionsEnd, EndsIn
    <3>. QED  BY <1>2, <2>1, <2>2, <3>1, <3>3
  <2>4. CASE positions[p].inode # names[p]
    <3>1. Resume(p).offset = 0
      BY <2>4 DEF Resume
    <3>. QED  BY <1>2, <2>2, <3>1
  <2>. QED  BY <2>3, <2>4
<1>4. files[p] # NoState => StateIn(data, missed, files[p])
  BY DEF Messages, PendingWhole
<1>. DEFINE st == IF files[p] = NoState THEN Resume(p) ELSE files[p]
<1>5. Current(p) = IF Restarted(st, p) THEN StartOver(st, p) ELSE st
  BY DEF Current
<1>6. StateIn(data, missed, st)
  BY <1>3, <1>4
<1>7. StateIn(data, missed, StartOver(st, p))
  <2>. HIDE DEF st
  <2>. QED  BY <1>1, <1>2
<1>. HIDE DEF st
<1>. QED  BY <1>5, <1>6, <1>7

LEMMA ReaderWhole ==
  ASSUME AgentTypes, Messages, UNCHANGED diskVars, ReadLine
  PROVE  StateIn(data, missed', Reader)
<1>1. /\ tpc = "read" /\ Unread(reading) # <<>>
      /\ missed' = IF buf = <<>> THEN missed \cup Jumped(files[reading]) ELSE missed
  BY ReadMoves
<1>2. /\ Placed(Reader) /\ Reader.offset = files[reading].offset /\ reading \in Path
      /\ Placed(files[reading]) /\ files[reading] \in FileState /\ files[reading] # NoState
  BY <1>1, ReaderPlaced DEF AgentTypes, TailerTypes
<1>3. StateIn(data, missed, files[reading])
  BY <1>2 DEF Messages, PendingWhole
<1>4. CASE buf = <<>>
  <2>1. Reader = Today(files[reading])
    BY <1>4 DEF Reader
  <2>2. Reader.life = Life(files[reading].inode)
    BY <1>2, <2>1 DEF Today, FileState
  <2>3. files[reading].offset <= Len(Content(files[reading].inode))
    BY <1>2, <2>2, LineSeqs DEF Placed, PlacedIn, Content, AgentTypes
  <2>. QED  BY <1>1, <1>2, <1>3, <1>4, <2>1, <2>3, TodayWhole DEF AgentTypes
<1>5. CASE buf # <<>>
  BY <1>1, <1>3, <1>5 DEF Reader
<1>. QED  BY <1>4, <1>5

\* A line and what becomes of the chunks.
LEMMA ReadKinds ==
  ASSUME AgentTypes, UNCHANGED diskVars, ReadLine
  PROVE  \E pending \in {Reader.pending, Append(Reader.pending, NextLine), <<>>} :
           /\ files' = [files EXCEPT ![reading] = NextState(pending)]
           /\ pending = IF NextLine.kind = "malformed" THEN Reader.pending
                        ELSE IF NextLine.kind = "P" THEN Append(Reader.pending, NextLine) ELSE <<>>
<1>1. tpc = "read" /\ Unread(reading) # <<>> /\ Head(Unread(reading)) = NextLine
  BY ReaderPlaced DEF ReadLine
<1>2. \/ NextLine.kind = "malformed" /\ Advance(Reader, Reader.pending)
      \/ NextLine.kind = "P" /\ Advance(Reader, Append(Reader.pending, NextLine))
      \/ NextLine.kind = "excluded" /\ Advance(Reader, <<>>)
      \/ Completes(NextLine) /\ Advance(Reader, <<>>)
  BY <1>1 DEF ReadLine, Reader
<1>3. \A pending : Advance(Reader, pending) =>
                     files' = [files EXCEPT ![reading] = NextState(pending)]
  BY DEF Advance, NextState
<1>. QED  BY <1>2, <1>3 DEF Completes

LEMMA NextWhole ==
  ASSUME AgentTypes, Messages, UNCHANGED diskVars, ReadLine
  PROVE  /\ StateIn(data, missed', files'[reading])
         /\ \A p \in Path \ {reading} : files'[p] = files[p]
         /\ Completes(NextLine) => EntryIn(data, missed', NextEntry)
<1>1. /\ tpc = "read" /\ Unread(reading) # <<>>
  BY ReadMoves
<1>2. /\ reading \in Path /\ Reader.offset \in Nat /\ NextLine \in Line
      /\ Reader.pending \in Seq(Line)
  BY <1>1, ReaderPlaced, Constants DEF FileState
<1>3. PICK pending \in {Reader.pending, Append(Reader.pending, NextLine), <<>>} :
        /\ files' = [files EXCEPT ![reading] = NextState(pending)]
        /\ pending = IF NextLine.kind = "malformed" THEN Reader.pending
                     ELSE IF NextLine.kind = "P" THEN Append(Reader.pending, NextLine) ELSE <<>>
  BY ReadKinds
<1>4. /\ NextState(pending).pending = pending /\ NextState(pending).life = Reader.life
      /\ NextState(pending).offset = Reader.offset + 1 /\ NextState(pending) \in FileState
  BY <1>1, <1>3, NextPlaced
<1>5. files'[reading] = NextState(pending) /\ \A p \in Path \ {reading} : files'[p] = files[p]
  BY <1>2, <1>3 DEF AgentTypes, TailerTypes
<1>. DEFINE ids   == Ids(Reader.pending)
            lines == RunIn(data, Reader.life, Reader.offset)
<1>6. Same(ids, lines, missed')
  BY ReaderWhole DEF StateIn
<1>7. Ids(Append(Reader.pending, NextLine)) = ids \cup {NextLine.id}
  BY <1>2, IdsAppend
<1>8. RunIn(data, Reader.life, Reader.offset + 1) =
        IF NextLine.kind = "P" THEN lines \cup {NextLine.id}
        ELSE IF NextLine.kind = "malformed" THEN lines ELSE {}
  BY <1>2, RunNext DEF NextLine
<1>9. StateIn(data, missed', files'[reading])
  <2>1. Same(Ids(pending), RunIn(data, Reader.life, Reader.offset + 1), missed')
    <3>1. CASE NextLine.kind = "P"
      <4>. HIDE DEF ids, lines
      <4>. QED  BY <1>3, <1>6, <1>7, <1>8, <3>1 DEF Same
    <3>2. CASE NextLine.kind = "malformed"
      BY <1>3, <1>6, <1>8, <3>2
    <3>3. CASE NextLine.kind \notin {"P", "malformed"}
      BY <1>3, <1>8, <3>3, NoIds DEF Same
    <3>. QED  BY <3>1, <3>2, <3>3
  <2>. QED  BY <1>4, <1>5, <2>1 DEF StateIn
<1>10. ASSUME Completes(NextLine) PROVE EntryIn(data, missed', NextEntry)
  <2>1. /\ NextEntry.life = Reader.life /\ NextEntry.offset = Reader.offset + 1
        /\ NextEntry.message = Append(Reader.pending, NextLine)
    BY DEF NextEntry
  <2>2. EndsIn(data, NextEntry)
    BY <1>2, <1>10, <2>1 DEF EndsIn, NextLine
  <2>3. WholeIn(data, NextEntry.life, NextEntry.offset) = lines \cup {NextLine.id}
    <3>1. (Reader.offset + 1) - 1 = Reader.offset
      BY <1>2
    <3>. QED  BY <2>1, <3>1 DEF WholeIn, NextLine
  <2>4. Same(ids \cup {NextLine.id}, lines \cup {NextLine.id}, missed')
    <3>. HIDE DEF ids, lines
    <3>. QED  BY <1>6 DEF Same
  <2>. QED  BY <1>7, <2>1, <2>2, <2>3, <2>4 DEF EntryIn
<1>. QED  BY <1>5, <1>9, <1>10

LEMMA EntriesWholeStep ==
  ASSUME AgentTypes, Messages, [Next]_agentVars
  PROVE  EntriesWhole'
<1>. SUFFICES ASSUME NEW k \in 1..Len(Flow')
              PROVE  EntryIn(data', missed', Flow'[k])
  BY DEF EntriesWhole
<1>1. Grown /\ missed \subseteq missed'
  BY DiskStep, MissedGrows DEF AgentTypes
<1>2. CASE \E j \in 1..Len(Flow) : Flow'[k] = Flow[j]
  <2>1. PICK j \in 1..Len(Flow) : Flow'[k] = Flow[j]
    BY <1>2
  <2>2. EntryIn(data, missed, Flow[j]) /\ Placed(Flow[j])
    BY FlowIs DEF Messages, EntriesWhole
  <2>3. /\ EndsIn(data', Flow[j])
        /\ WholeIn(data', Flow[j].life, Flow[j].offset) = WholeIn(data, Flow[j].life, Flow[j].offset)
    BY <1>1, <2>2, RunStays DEF EntryIn, AgentTypes
  <2>. QED  BY <1>1, <2>1, <2>2, <2>3, SameStays DEF EntryIn
<1>3. CASE ReadLine /\ TailerStep /\ tpc' = "send" /\ Flow'[k] = NextEntry
  <2>1. UNCHANGED diskVars /\ data' = data
    BY <1>3 DEF TailerStep, diskVars
  <2>2. Completes(NextLine)
    BY <1>3, <2>1, ReadMoves
  <2>. QED  BY <1>3, <2>1, <2>2, NextWhole
<1>. QED  BY <1>2, <1>3, EntryStep

LEMMA PendingWholeStep ==
  ASSUME AgentTypes, Messages, [Next]_agentVars
  PROVE  PendingWhole'
<1>. SUFFICES ASSUME NEW p \in Path, files'[p] # NoState
              PROVE  StateIn(data', missed', files'[p])
  BY DEF PendingWhole
<1>1. Grown /\ missed \subseteq missed'
  BY DiskStep, MissedGrows DEF AgentTypes
<1>2. CASE files'[p] = files[p]
  <2>1. StateIn(data, missed, files[p]) /\ Placed(files[p])
    BY <1>2 DEF Messages, PendingWhole, AgentTypes, TailerTypes
  <2>2. RunIn(data', files[p].life, files[p].offset) = RunIn(data, files[p].life, files[p].offset)
    BY <1>1, <2>1, RunStays DEF AgentTypes
  <2>. QED  BY <1>1, <1>2, <2>1, <2>2, SameStays DEF StateIn
<1>3. CASE ReadLine /\ TailerStep
  <2>1. UNCHANGED diskVars /\ data' = data
    BY <1>3 DEF TailerStep, diskVars
  <2>. QED  BY <1>2, <1>3, <2>1, NextWhole
<1>4. ASSUME NEW q \in Path, OpenFile(q), TailerStep
      PROVE  StateIn(data', missed', files'[p])
  <2>1. /\ files' = [files EXCEPT ![q] = Today(Current(q))] /\ names[q] # 0
        /\ missed' = missed \cup Jumped(Current(q)) /\ data' = data
    BY <1>4 DEF OpenFile, TailerStep, diskVars
  <2>2. /\ Current(q) \in FileState /\ Placed(Current(q))
        /\ Current(q).offset <= Len(Content(Current(q).inode))
    BY <2>1, CurrentPlaced
  <2>3. StateIn(data', missed', Today(Current(q)))
    BY <2>1, <2>2, CurrentWhole, TodayWhole DEF AgentTypes
  <2>4. files'[p] = IF p = q THEN Today(Current(q)) ELSE files[p]
    BY <2>1 DEF AgentTypes, TailerTypes
  <2>. QED  BY <1>2, <2>3, <2>4
<1>5. CASE NodeStep \/ SendEntry \/ ShipperStep \/ Cancel \/ Restart \/ UNCHANGED agentVars
  BY <1>2, <1>5 DEF NodeStep, SendEntry, ShipperStep, Cancel, Restart, agentVars, tailerVars
<1>6. CASE TailerStep
  BY <1>2, <1>3, <1>4, <1>6 DEF TailerStep, PollStarts, PollEnds, TailerStops, SendCancelled,
                                EndOfFile, OpenFails
<1>. QED  BY <1>5, <1>6 DEF Next

LEMMA PositionsEndStep ==
  ASSUME AgentTypes, Messages, [Next]_agentVars
  PROVE  PositionsEnd'
<1>. SUFFICES ASSUME NEW p \in Path, NEW s \in {positions'[p], saved'[p]}
              PROVE  s = NoPosition \/ EndsIn(data', s)
  BY DEF PositionsEnd
<1>1. Grown
  BY DiskStep DEF AgentTypes
<1>2. \A t : Placed(t) /\ EndsIn(data, t) => EndsIn(data', t)
  BY <1>1, RunStays DEF AgentTypes
<1>3. CASE s \in {positions[p], saved[p], NoPosition}
  BY <1>2, <1>3 DEF Messages, PositionsEnd, AgentTypes, ShipperTypes
<1>4. ASSUME NEW k \in 1..Len(Flow),
             s = [inode |-> Flow[k].inode, life |-> Flow[k].life, offset |-> Flow[k].offset]
      PROVE  EndsIn(data', s)
  <2>1. Placed(Flow[k]) /\ EndsIn(data, Flow[k])
    BY FlowIs DEF Messages, EntriesWhole, EntryIn
  <2>2. EndsIn(data', Flow[k])
    BY <1>2, <2>1
  <2>. QED  BY <1>4, <2>2 DEF EndsIn
<1>5. \/ s \in {positions[p], saved[p], NoPosition}
      \/ \E k \in 1..Len(Flow) :
           /\ Flow[k].file = p
           /\ s = [inode |-> Flow[k].inode, life |-> Flow[k].life, offset |-> Flow[k].offset]
  BY PositionStep
<1>6. CASE \E k \in 1..Len(Flow) :
             s = [inode |-> Flow[k].inode, life |-> Flow[k].life, offset |-> Flow[k].offset]
  <2>1. EndsIn(data', s)
    BY <1>4, <1>6, Zenon
  <2>. QED  BY <2>1
<1>. QED  BY <1>3, <1>5, <1>6

LEMMA MessagesInit == Init => Messages
<1>. SUFFICES ASSUME Init PROVE Messages
  OBVIOUS
<1>1. /\ \A p \in Path : positions[p] = NoPosition /\ saved[p] = NoPosition /\ files[p] = NoState
      /\ batch = <<>> /\ ch = <<>> /\ out = NoEntry
  BY DEF Init
<1>2. Len(Flow) = 0 /\ 1..0 = {}
  <2>1. <<>> \in Seq(Entry)
    OBVIOUS
  <2>2. Flow = <<>>
    BY <1>1, <2>1, ConcatEmptySeq DEF Flow
  <2>. QED  BY <2>2
<1>. QED  BY <1>1, <1>2 DEF Messages, EntriesWhole, PendingWhole, PositionsEnd

LEMMA MessagesInvariance == Spec => [](AgentTypes /\ Messages)
<1>1. AgentTypes /\ Messages /\ [Next]_agentVars => (AgentTypes /\ Messages)'
  BY TypeStep, EntriesWholeStep, PendingWholeStep, PositionsEndStep DEF Messages
<1>. QED  BY <1>1, InitTypes, MessagesInit, PTL DEF Spec

\* All that is on its way is in the flow.
LEMMA InFlightIs ==
  ASSUME AgentTypes, NEW e \in InFlight
  PROVE  \E k \in 1..Len(Flow) : Flow[k] = e
<1>1. /\ batch \in Seq(Entry) /\ ch \in Seq(Entry) /\ Sending \in Seq(Entry)
      /\ Flow = (batch \o ch) \o Sending /\ DOMAIN Flow = 1..Len(Flow)
  BY FlowIs
<1>2. Range(Flow) = Range(batch) \cup Range(ch) \cup Range(Sending)
  <2>1. batch \o ch \in Seq(Entry) /\ Range(batch \o ch) = Range(batch) \cup Range(ch)
    BY <1>1, ConcatProperties, RangeConcatenation
  <2>2. \A s, t \in Seq(Entry) : Range(s \o t) = Range(s) \cup Range(t)
    BY RangeConcatenation
  <2>3. Range((batch \o ch) \o Sending) = Range(batch \o ch) \cup Range(Sending)
    BY <1>1, <2>1, <2>2, Zenon
  <2>. QED  BY <1>1, <2>1, <2>3, Zenon
<1>3. out # NoEntry => out \in Range(Sending)
  BY DEF Sending, Range
<1>4. e \in Range(Flow)
  BY <1>2, <1>3 DEF InFlight
<1>. QED  BY <1>1, <1>4 DEF Range

\* Every entry on its way holds the message that ends at its line, all of it and
\* nothing else, over rotations, truncations, shutdowns, crashes and restarts in the
\* middle of a message, and offsets mistaken for ones of another life aside.  It is
\* so when the container writes to one stream only: with two, their chunks share
\* one buffer (see the run agent_streams).
THEOREM WholeMessagesOnly ==
  ASSUME \A s, t \in Stream : s = t
  PROVE  Spec => []MessagesAreWhole
<1>1. AgentTypes /\ Messages => MessagesAreWhole
  <2>. SUFFICES ASSUME AgentTypes, Messages, NEW e \in InFlight
                PROVE  Same(Ids(e.message), WholeMessage(e), missed)
    BY DEF MessagesAreWhole, Same
  <2>1. PICK k \in 1..Len(Flow) : Flow[k] = e
    BY InFlightIs
  <2>2. EntryIn(data, missed, e) /\ Placed(e)
    BY <2>1, FlowIs DEF Messages, EntriesWhole
  <2>. DEFINE lines == data[e.life]
              n     == e.offset
  <2>3. lines \in Seq(Line) /\ n \in 1..Len(lines) /\ Len(lines) \in Nat /\ n \in Nat
    BY <2>2, LineSeqs DEF Placed, PlacedIn, EntryIn, EndsIn, AgentTypes
  <2>4. \A j \in 1..n : lines[j] \in Line
    <3>. HIDE DEF lines, n
    <3>. QED  BY <2>3
  <2>5. \A j \in 1..n : lines[j].stream = lines[n].stream
    BY <2>3, <2>4 DEF Line
  <2>. DEFINE mine   == {j \in 1..n : lines[j].stream = lines[n].stream}
              chunks == {j \in mine : /\ j = n \/ lines[j].kind = "P"
                                      /\ \A i \in mine : j <= i /\ i < n
                                                           => lines[i].kind \in {"P", "malformed"}}
              run    == {j \in 1..(n - 1) : /\ lines[j].kind = "P"
                                            /\ \A i \in j..(n - 1) : lines[i].kind \in {"P", "malformed"}}
  <2>6. WholeMessage(e) = {lines[j].id : j \in chunks}
    BY DEF WholeMessage
  <2>7. WholeIn(data, e.life, n) = {lines[j].id : j \in run} \cup {lines[n].id}
    BY DEF WholeIn, RunIn
  <2>8. mine = 1..n
    BY <2>5
  <2>9. chunks = run \cup {n}
    <3>. HIDE DEF lines, n
    <3>1. \A j \in 1..n : \A i : (i \in 1..n /\ j <= i /\ i < n) <=> i \in j..(n - 1)
      BY <2>3
    <3>2. \A j : j \in 1..n <=> j \in 1..(n - 1) \/ j = n
      BY <2>3
    <3>3. \A j \in 1..(n - 1) : j # n
      BY <2>3
    <3>4. n..(n - 1) = {}
      BY <2>3
    <3>. QED  BY <2>8, <3>1, <3>2, <3>3, <3>4
  <2>10. WholeMessage(e) = WholeIn(data, e.life, n)
    <3>. HIDE DEF lines, n, chunks, run
    <3>. QED  BY <2>6, <2>7, <2>9
  <2>. QED  BY <2>2, <2>10 DEF EntryIn
<1>. QED  BY <1>1, MessagesInvariance, PTL

=============================================================================
