------------------------ MODULE LogAgentOrderProofs -------------------------
(***************************************************************************)
(* Proofs that the positions file never goes back and that no line is sent *)
(* again without a cause, for any number of files, lines, lives, mishaps   *)
(* and restarts.                                                           *)
(*                                                                         *)
(* A position is compared by content and offset, and contents are numbered *)
(* in the order they began.  So the file a path names never is of an older *)
(* content than anything counted for that path; what is counted for it is  *)
(* in order; and a line is in one place, its file, the tailer's hands or   *)
(* the flow, unless one of the counted mishaps put it back.                *)
(*                                                                         *)
(* And, last, that the agent implements module Shipper for one file that   *)
(* is only appended to.                                                    *)
(***************************************************************************)
EXTENDS LogAgentProofs, OneFile

-----------------------------------------------------------------------------
(* The lives of a path's file.                                             *)

\* No life after l has begun, or l itself is over, as far as path p shows: its file
\* is of life l or a later one, of a later one.
ReachedIn(n, h, p, l) == n[p] # 0 => l <= LifeIn(h, n[p])
PassedIn(n, h, p, l)  == n[p] # 0 => l < LifeIn(h, n[p])

\* The places of path p in the flow, and the lives in which anything of p is counted.
Mine(p)  == {k \in 1..Len(Flow) : Flow[k].file = p}
Lives(p) == {saved[p].life, positions[p].life, files[p].life}
            \cup {Flow[k].life : k \in Mine(p)}

\* An inode has one name at most; the file of a path has reached every life in which
\* something of the path is counted; an open file keeps its name or loses it for good.
OneName  == \A p, q \in Path : names[p] = names[q] /\ names[p] # 0 => p = q
Reached  == \A p \in Path : \A l \in Lives(p) : ReachedIn(names, home, p, l)
OpenName ==
  reading # NoPath =>
    LET i == files[reading].inode
    IN  \/ i = names[reading]
        \/ /\ i \notin Range(names)
           /\ names[reading] # 0 => LifeIn(home, i) < LifeIn(home, names[reading])

Latest == OneName /\ Reached /\ OpenName

\* The lives of an inode when a new life begins, its own or another one's.
LEMMA LifeInNew ==
  ASSUME DiskTypes, NEW i \in Inode, BeginLife(i)
  PROVE  /\ LifeIn(home', i) = Len(home) + 1
         /\ \A j \in Range(home) \ {i} : LifeIn(home', j) = LifeIn(home, j)
<1>1. /\ home \in Seq(Inode) /\ home' \in Seq(Inode) /\ Len(home) \in Nat
      /\ Len(home') = Len(home) + 1 /\ home'[Len(home')] = i
      /\ \A l \in 1..Len(home) : home'[l] = home[l]
      /\ Range(home') = Range(home) \cup {i}
  BY NewLife, LineSeqs DEF DiskTypes
<1>2. LifeIn(home', i) = Len(home) + 1
  <2>1. /\ LifeIn(home', i) \in 1..Len(home')
        /\ \A l \in 1..Len(home') : home'[l] = i => l <= LifeIn(home', i)
    BY <1>1, LifeInIs
  <2>. QED  BY <1>1, <2>1
<1>3. ASSUME NEW j \in Range(home) \ {i} PROVE LifeIn(home', j) = LifeIn(home, j)
  <2>1. /\ LifeIn(home, j) \in 1..Len(home) /\ home[LifeIn(home, j)] = j
        /\ \A l \in 1..Len(home) : home[l] = j => l <= LifeIn(home, j)
    BY <1>1, LifeInIs
  <2>2. /\ LifeIn(home', j) \in 1..Len(home') /\ home'[LifeIn(home', j)] = j
        /\ \A l \in 1..Len(home') : home'[l] = j => l <= LifeIn(home', j)
    BY <1>1, LifeInIs
  <2>3. LifeIn(home', j) \in 1..Len(home) /\ LifeIn(home, j) \in 1..Len(home')
    BY <1>1, <2>1, <2>2
  <2>4. LifeIn(home', j) <= LifeIn(home, j) /\ LifeIn(home, j) <= LifeIn(home', j)
    BY <1>1, <2>1, <2>2, <2>3
  <2>. QED  BY <2>3, <2>4
<1>. QED  BY <1>2, <1>3

LEMMA NamedLife ==
  ASSUME DiskTypes, NEW p \in Path, names[p] # 0
  PROVE  /\ names[p] \in Range(home) /\ names[p] \in Inode
         /\ LifeIn(home, names[p]) \in 1..Len(home) /\ Len(home) \in Nat
BY LifeInIs DEF DiskTypes

\* What a path has reached or passed it keeps behind it.
LEMMA ReachedStays ==
  ASSUME AgentTypes, Latest, [Next]_agentVars, NEW p \in Path, NEW l \in 0..Len(home)
  PROVE  /\ ReachedIn(names, home, p, l) => ReachedIn(names', home', p, l)
         /\ PassedIn(names, home, p, l) => PassedIn(names', home', p, l)
<1>0. DiskTypes /\ DiskTypes' /\ Len(home) \in Nat /\ names \in [Path -> {0} \cup Inode]
  BY DiskStep, LineSeqs DEF AgentTypes, DiskTypes
<1>1. CASE UNCHANGED <<names, home>>
  BY <1>1 DEF ReachedIn, PassedIn
<1>2. ASSUME NEW q \in Path, RemoveFile(q)
      PROVE  /\ ReachedIn(names, home, p, l) => ReachedIn(names', home', p, l)
             /\ PassedIn(names, home, p, l) => PassedIn(names', home', p, l)
  BY <1>0, <1>2 DEF RemoveFile, ReachedIn, PassedIn
<1>3. ASSUME NEW q \in Path, NEW i \in Inode, BeginLife(i), names' = [names EXCEPT ![q] = i]
      PROVE  /\ ReachedIn(names, home, p, l) => ReachedIn(names', home', p, l)
             /\ PassedIn(names, home, p, l) => PassedIn(names', home', p, l)
  <2>1. LifeIn(home', i) = Len(home) + 1
    BY <1>0, <1>3, LifeInNew
  <2>2. CASE names'[p] = i
    BY <1>0, <2>1, <2>2 DEF ReachedIn, PassedIn
  <2>3. CASE names'[p] # i
    <3>1. names'[p] = names[p]
      BY <1>0, <1>3, <2>3
    <3>2. names[p] # 0 => LifeIn(home', names[p]) = LifeIn(home, names[p])
      BY <1>0, <1>3, <2>3, <3>1, NamedLife, LifeInNew
    <3>. QED  BY <3>1, <3>2 DEF ReachedIn, PassedIn
  <2>. QED  BY <2>2, <2>3
<1>4. ASSUME NEW q \in Path, NewFile(q)
      PROVE  /\ ReachedIn(names, home, p, l) => ReachedIn(names', home', p, l)
             /\ PassedIn(names, home, p, l) => PassedIn(names', home', p, l)
  <2>1. PICK i \in Inode : BeginLife(i) /\ names' = [names EXCEPT ![q] = i]
    BY <1>4 DEF NewFile
  <2>. QED  BY <1>3, <2>1
<1>5. ASSUME NEW q \in Path, Truncate(q)
      PROVE  /\ ReachedIn(names, home, p, l) => ReachedIn(names', home', p, l)
             /\ PassedIn(names, home, p, l) => PassedIn(names', home', p, l)
  <2>1. names[q] \in Inode /\ BeginLife(names[q]) /\ names' = [names EXCEPT ![q] = names[q]]
    BY <1>0, <1>5 DEF Truncate
  <2>. QED  BY <1>3, <2>1
<1>6. CASE NodeStep
  BY <1>1, <1>2, <1>4, <1>5, <1>6 DEF NodeStep, WriteLine
<1>7. CASE TailerStep \/ SendEntry \/ ShipperStep \/ Cancel \/ Restart \/ UNCHANGED agentVars
  BY <1>1, <1>7 DEF TailerStep, SendEntry, ShipperStep, Cancel, Restart, agentVars, diskVars
<1>. QED  BY <1>6, <1>7 DEF Next

LEMMA OneNameStep ==
  ASSUME AgentTypes, Latest, [Next]_agentVars
  PROVE  OneName'
<1>0. names \in [Path -> {0} \cup Inode] /\ OneName
  BY DEF AgentTypes, DiskTypes, Latest
<1>1. CASE names' = names
  BY <1>0, <1>1 DEF OneName
<1>2. ASSUME NEW q \in Path, NewFile(q) PROVE OneName'
  <2>1. PICK i \in Inode : i \notin Range(names) /\ names' = [names EXCEPT ![q] = i]
    BY <1>2 DEF NewFile, Unused
  <2>2. \A p \in Path : names[p] # i
    BY <1>0, <2>1 DEF Range
  <2>. QED  BY <1>0, <2>1, <2>2 DEF OneName
<1>3. ASSUME NEW q \in Path, RemoveFile(q) PROVE OneName'
  BY <1>0, <1>3 DEF RemoveFile, OneName
<1>4. CASE NodeStep
  BY <1>1, <1>2, <1>3, <1>4 DEF NodeStep, WriteLine, Truncate
<1>5. CASE TailerStep \/ SendEntry \/ ShipperStep \/ Cancel \/ Restart \/ UNCHANGED agentVars
  BY <1>1, <1>5 DEF TailerStep, SendEntry, ShipperStep, Cancel, Restart, agentVars, diskVars
<1>. QED  BY <1>4, <1>5 DEF Next

LEMMA OpenNameStep ==
  ASSUME AgentTypes, Latest, [Next]_agentVars
  PROVE  OpenName'
<1>. DEFINE i == files[reading].inode
<1>0. /\ DiskTypes /\ home \in Seq(Inode) /\ Len(home) \in Nat
      /\ names \in [Path -> {0} \cup Inode] /\ OneName /\ OpenName
  BY LineSeqs DEF AgentTypes, DiskTypes, Latest
<1>1. reading # NoPath => reading \in Path /\ files[reading] \in FileState /\ i \in Range(home) /\ i \in Inode
  <2>1. reading # NoPath => reading \in Path /\ files[reading] \in FileState /\ Placed(files[reading])
    BY DEF AgentTypes, TailerTypes
  <2>. QED  BY <1>0, <2>1, PlacedInode, LifeInIs
<1>2. CASE reading' = NoPath
  BY <1>2 DEF OpenName
<1>3. CASE UNCHANGED <<names, home, reading>> /\ files'[reading].inode = i
  <2>. HIDE DEF i
  <2>1. OpenName' = (reading # NoPath =>
                       \/ i = names[reading]
                       \/ /\ i \notin Range(names)
                          /\ names[reading] # 0 => LifeIn(home, i) < LifeIn(home, names[reading]))
    BY <1>3 DEF OpenName
  <2>. QED  BY <1>0, <2>1 DEF OpenName, i
<1>4. CASE UNCHANGED <<names, home, reading, files>>
  BY <1>3, <1>4
<1>. SUFFICES ASSUME reading' # NoPath PROVE OpenName'
  BY <1>2
<1>5. CASE NodeStep
  <2>1. UNCHANGED <<files, reading>> /\ reading \in Path /\ i \in Range(home) /\ i \in Inode
        /\ OpenInode = {i}
    BY <1>1, <1>5 DEF NodeStep, tailerVars, OpenInode
  <2>2. \/ i = names[reading]
        \/ /\ i \notin Range(names)
           /\ names[reading] # 0 => LifeIn(home, i) < LifeIn(home, names[reading])
    BY <1>0, <2>1 DEF OpenName
  <2>3. SUFFICES \/ i = names'[reading]
                 \/ /\ i \notin Range(names')
                    /\ names'[reading] # 0 => LifeIn(home', i) < LifeIn(home', names'[reading])
    BY <2>1 DEF OpenName
  <2>4. \A p \in Path : i = names[p] => i \notin {names[q] : q \in Path \ {p}}
    BY <1>0, <2>1 DEF OneName, Inode
  <2>5. Range(names) = {names[q] : q \in Path}
    BY <1>0 DEF Range
  <2>6. ASSUME NEW q \in Path, NewFile(q)
        PROVE  \/ i = names'[reading]
               \/ /\ i \notin Range(names')
                  /\ names'[reading] # 0 => LifeIn(home', i) < LifeIn(home', names'[reading])
    <3>1. PICK j \in Inode : j \notin Range(names) /\ j # i /\ BeginLife(j) /\ names' = [names EXCEPT ![q] = j]
      BY <2>1, <2>6 DEF NewFile, Unused
    <3>2. LifeIn(home', j) = Len(home) + 1 /\ LifeIn(home', i) = LifeIn(home, i)
          /\ LifeIn(home, i) \in 1..Len(home)
      BY <1>0, <2>1, <3>1, LifeInNew, LifeInIs
    <3>3. Range(names') = {names'[p] : p \in Path}
      BY <1>0, <3>1 DEF Range
    <3>4. CASE q = reading
      <4>1. names'[reading] = j /\ \A p \in Path : p # q => names'[p] = names[p] /\ names[p] # i
        BY <1>0, <2>1, <2>2, <2>4, <2>5, <3>1, <3>4
      <4>2. i \notin Range(names')
        BY <3>1, <3>3, <3>4, <4>1
      <4>. QED  BY <1>0, <3>2, <4>1, <4>2
    <3>5. CASE q # reading
      <4>1. names'[reading] = names[reading]
        BY <1>0, <3>1, <3>5
      <4>2. CASE i # names[reading]
        <5>1. i \notin Range(names')
          BY <1>0, <2>2, <2>5, <3>1, <3>3, <4>2
        <5>2. names[reading] # 0 => LifeIn(home', names[reading]) = LifeIn(home, names[reading])
          BY <1>0, <2>1, <2>5, <3>1, NamedLife, LifeInNew
        <5>. QED  BY <2>2, <3>2, <4>1, <4>2, <5>1, <5>2
      <4>. QED  BY <4>1, <4>2
    <3>. QED  BY <3>4, <3>5
  <2>7. ASSUME NEW q \in Path, RemoveFile(q)
        PROVE  \/ i = names'[reading]
               \/ /\ i \notin Range(names')
                  /\ names'[reading] # 0 => LifeIn(home', i) < LifeIn(home', names'[reading])
    <3>1. names' = [names EXCEPT ![q] = 0] /\ home' = home /\ i # 0
      BY <2>1, <2>7 DEF RemoveFile, Inode
    <3>2. Range(names') = {names'[p] : p \in Path}
      BY <1>0, <3>1 DEF Range
    <3>3. CASE q = reading
      <4>1. names'[reading] = 0 /\ \A p \in Path : p # q => names'[p] = names[p] /\ names[p] # i
        BY <1>0, <2>1, <2>2, <2>4, <2>5, <3>1, <3>3
      <4>. QED  BY <3>1, <3>2, <3>3, <4>1
    <3>4. CASE q # reading
      <4>1. names'[reading] = names[reading]
        BY <1>0, <3>1, <3>4
      <4>2. CASE i # names[reading]
        BY <1>0, <2>2, <2>5, <3>1, <3>2, <4>1, <4>2
      <4>. QED  BY <4>1, <4>2
    <3>. QED  BY <3>3, <3>4
  <2>8. ASSUME NEW q \in Path, Truncate(q)
        PROVE  \/ i = names'[reading]
               \/ /\ i \notin Range(names')
                  /\ names'[reading] # 0 => LifeIn(home', i) < LifeIn(home', names'[reading])
    <3>1. names' = names /\ names[q] \in Inode /\ BeginLife(names[q])
      BY <1>0, <2>8 DEF Truncate
    <3>2. CASE i # names[reading]
      <4>1. i # names[q]
        BY <2>2, <2>5, <3>2
      <4>2. LifeIn(home', i) = LifeIn(home, i) /\ LifeIn(home, i) \in 1..Len(home)
            /\ LifeIn(home', names[q]) = Len(home) + 1
        BY <1>0, <2>1, <3>1, <4>1, LifeInNew, LifeInIs
      <4>3. CASE names[reading] = names[q]
        BY <1>0, <2>2, <3>1, <3>2, <4>2, <4>3
      <4>4. CASE names[reading] # names[q] /\ names[reading] # 0
        <5>1. LifeIn(home', names[reading]) = LifeIn(home, names[reading])
          BY <1>0, <2>1, <3>1, <4>4, NamedLife, LifeInNew
        <5>. QED  BY <2>2, <3>1, <3>2, <4>2, <4>4, <5>1
      <4>. QED  BY <2>2, <3>1, <3>2, <4>3, <4>4
    <3>. QED  BY <3>1, <3>2
  <2>9. CASE \E q \in Path, s \in Stream, k \in Kind : WriteLine(q, s, k)
    <3>1. UNCHANGED <<names, home>>
      BY <2>9 DEF WriteLine
    <3>. QED  BY <2>2, <3>1
  <2>. QED  BY <1>5, <2>6, <2>7, <2>8, <2>9 DEF NodeStep
<1>6. CASE TailerStep
  <2>1. UNCHANGED diskVars /\ UNCHANGED <<names, home>>
    BY <1>6 DEF TailerStep, diskVars
  <2>2. ASSUME NEW p \in Path, OpenFile(p) PROVE OpenName'
    <3>1. reading' = p /\ files' = [files EXCEPT ![p] = Today(Current(p))] /\ names[p] # 0
      BY <2>2 DEF OpenFile, AgentTypes, TailerTypes
    <3>2. Today(Current(p)).inode = names[p]
      <4>1. Current(p) \in FileState /\ Current(p).inode = names[p]
        BY <3>1, CurrentPlaced
      <4>. QED  BY <4>1 DEF Today, FileState
    <3>3. files'[p] = Today(Current(p))
      BY <3>1 DEF AgentTypes, TailerTypes
    <3>. QED  BY <2>1, <3>1, <3>2, <3>3 DEF OpenName
  <2>3. CASE ReadLine
    <3>1. tpc = "read" /\ Unread(reading) # <<>> /\ reading' = reading
      BY <2>1, <2>3, ReadMoves
    <3>2. PICK pending \in {Reader.pending, Append(Reader.pending, NextLine), <<>>} :
            files' = [files EXCEPT ![reading] = NextState(pending)]
      BY <2>1, <2>3, ReadMoves
    <3>3. NextState(pending).inode = i
      BY <3>1, NextPlaced, ReaderPlaced
    <3>4. files'[reading].inode = i
      BY <1>1, <3>1, <3>2, <3>3 DEF AgentTypes, TailerTypes
    <3>. QED  BY <1>3, <2>1, <3>1, <3>4
  <2>. QED  BY <1>4, <1>6, <2>1, <2>2, <2>3 DEF TailerStep, PollStarts, PollEnds, TailerStops,
              SendCancelled, EndOfFile, OpenFails, AgentTypes, TailerTypes
<1>7. CASE SendEntry \/ ShipperStep \/ Cancel \/ UNCHANGED agentVars
  BY <1>4, <1>7 DEF SendEntry, ShipperStep, Cancel, agentVars, diskVars, tailerVars
<1>. QED  BY <1>5, <1>6, <1>7 DEF Next, Restart

LEMMA LivesRange ==
  ASSUME AgentTypes, NEW p \in Path
  PROVE  Lives(p) \subseteq 0..Len(home) /\ Len(home) \in Nat
<1>1. Len(home) \in Nat
  BY LineSeqs DEF AgentTypes
<1>2. \A s : Placed(s) => s.life \in 0..Len(home)
  BY <1>1 DEF Placed, PlacedIn
<1>3. saved[p].life \in 0..Len(home) /\ positions[p].life \in 0..Len(home) /\ files[p].life \in 0..Len(home)
  BY <1>1, <1>2 DEF AgentTypes, TailerTypes, ShipperTypes, NoPosition, NoState
<1>4. \A k \in Mine(p) : Flow[k].life \in 0..Len(home)
  BY <1>2, FlowIs DEF Mine
<1>. QED  BY <1>1, <1>3, <1>4 DEF Lives

\* What is of p after a step was of p before, but for an entry the reader has just
\* completed.
LEMMA MineStep ==
  ASSUME AgentTypes, [Next]_agentVars, NEW p \in Path, NEW k \in Mine(p)'
  PROVE  \/ \E j \in Mine(p) : Flow'[k] = Flow[j]
         \/ ReadLine /\ TailerStep /\ tpc' = "send" /\ reading = p /\ Flow'[k] = NextEntry
<1>1. k \in 1..Len(Flow') /\ Flow'[k].file = p
  BY DEF Mine
<1>2. NextEntry.file = reading
  BY DEF NextEntry
<1>. QED  BY <1>1, <1>2, EntryStep DEF Mine

\* An open file and a completed line are in a life the path has reached.
LEMMA ReaderReached ==
  ASSUME AgentTypes, Latest, tpc = "read", Unread(reading) # <<>>
  PROVE  ReachedIn(names, home, reading, Reader.life) /\ files[reading].life <= Reader.life
<1>1. /\ reading \in Path /\ Reader.inode = files[reading].inode /\ Placed(files[reading])
      /\ files[reading] \in FileState /\ reading # NoPath
  BY ReaderPlaced, Constants DEF AgentTypes, TailerTypes
<1>. DEFINE i == files[reading].inode
<1>2. /\ i \in Range(home) /\ LifeIn(home, i) = Life(i) /\ LifeIn(home, i) \in 1..Len(home)
      /\ files[reading].life <= LifeIn(home, i) /\ files[reading].life \in 1..Len(home)
      /\ Len(home) \in Nat
  BY <1>1, PlacedInode, LifeOf, LineSeqs DEF AgentTypes, Placed, PlacedIn
<1>3. ReachedIn(names, home, reading, files[reading].life)
  BY <1>1 DEF Latest, Reached, Lives
<1>4. CASE buf # <<>>
  BY <1>2, <1>3, <1>4 DEF Reader
<1>5. CASE buf = <<>>
  <2>1. Reader.life = LifeIn(home, i)
    BY <1>1, <1>2, <1>5 DEF Reader, Today, FileState
  <2>2. names[reading] # 0 => LifeIn(home, i) <= LifeIn(home, names[reading])
    <3>1. names[reading] # 0 => LifeIn(home, names[reading]) \in Nat
      BY <1>1, NamedLife DEF AgentTypes
    <3>. QED  BY <1>1, <1>2, <3>1 DEF Latest, OpenName
  <2>. QED  BY <1>2, <2>1, <2>2 DEF ReachedIn
<1>. QED  BY <1>4, <1>5

LEMMA LivesStep ==
  ASSUME AgentTypes, [Next]_agentVars, NEW p \in Path, NEW l \in Lives(p)'
  PROVE  \/ l \in Lives(p) \/ l = 0
         \/ ReadLine /\ TailerStep /\ reading = p /\ l = Reader.life
         \/ OpenFile(p) /\ TailerStep /\ l = Life(names[p])
<1>1. \A k \in Mine(p) : Flow[k].life \in Lives(p)
  BY DEF Lives
<1>2. CASE \E k \in Mine(p)' : l = Flow'[k].life
  BY <1>1, <1>2, MineStep DEF NextEntry
<1>3. CASE l \in {positions'[p].life, saved'[p].life}
  <2>1. CASE CallOk /\ saved' = saved
    <3>1. ASSUME NEW k \in DOMAIN batch, batch[k].file = p,
                 Committed[p] = [inode |-> batch[k].inode, life |-> batch[k].life,
                                 offset |-> batch[k].offset]
          PROVE  Committed[p].life \in Lives(p)
      <4>1. k \in 1..Len(Flow) /\ Flow[k] = batch[k]
        BY BatchEntry, BatchFlow, FlowIs
      <4>. QED  BY <1>1, <3>1, <4>1 DEF Mine
    <3>2. Committed[p].life \in Lives(p)
      BY <3>1, CommittedIs DEF Lives
    <3>. QED  BY <1>3, <2>1, <3>2 DEF CallOk, Lives
  <2>2. CASE /\ positions'[p] \in {positions[p], saved[p], NoPosition}
             /\ saved'[p] \in {positions[p], saved[p]}
    BY <1>3, <2>2 DEF Lives, NoPosition
  <2>3. CASE NodeStep \/ SendEntry \/ Cancel \/ Restart \/ UNCHANGED agentVars
    BY <2>2, <2>3 DEF NodeStep, SendEntry, Cancel, Restart, agentVars
  <2>4. CASE TailerStep
    BY <2>2, <2>4 DEF TailerStep, PollStarts, PollEnds, TailerStops, SendCancelled, EndOfFile,
                      ReadLine, OpenFails, OpenFile
  <2>5. CASE ShipperStep
    BY <2>1, <2>2, <2>5 DEF ShipperStep, Receive, Tick, ChannelClosed, CallBroken, CallRefused,
                            CallUnsendable, Retry, Abandon, Save, SaveFails, CallOk, CallFailed
  <2>. QED  BY <2>3, <2>4, <2>5 DEF Next
<1>4. CASE l = files'[p].life
  <2>1. CASE files'[p] \in {files[p], NoState}
    BY <1>4, <2>1 DEF Lives, NoState
  <2>2. CASE ReadLine /\ TailerStep
    <3>1. UNCHANGED diskVars /\ tpc = "read" /\ Unread(reading) # <<>>
      BY <2>2 DEF TailerStep, ReadLine
    <3>2. PICK pending \in {Reader.pending, Append(Reader.pending, NextLine), <<>>} :
            files' = [files EXCEPT ![reading] = NextState(pending)]
      BY <2>2, <3>1, ReadMoves
    <3>3. NextState(pending).life = Reader.life
      BY <3>1, NextPlaced
    <3>4. files'[p] = IF p = reading THEN NextState(pending) ELSE files[p]
      BY <3>2 DEF AgentTypes, TailerTypes
    <3>. QED  BY <1>4, <2>1, <2>2, <3>3, <3>4
  <2>3. ASSUME NEW q \in Path, OpenFile(q), TailerStep
        PROVE  l \in Lives(p) \/ l = 0 \/ (OpenFile(p) /\ TailerStep /\ l = Life(names[p]))
    <3>1. files' = [files EXCEPT ![q] = Today(Current(q))] /\ names[q] # 0
      BY <2>3 DEF OpenFile
    <3>2. Today(Current(q)).life = Life(names[q])
      <4>1. Current(q) \in FileState /\ Current(q).inode = names[q]
        BY <3>1, CurrentPlaced
      <4>. QED  BY <4>1 DEF Today, FileState
    <3>3. files'[p] = IF p = q THEN Today(Current(q)) ELSE files[p]
      BY <3>1 DEF AgentTypes, TailerTypes
    <3>4. CASE p = q
      <4>1. l = Life(names[p])
        BY <1>4, <3>2, <3>3, <3>4
      <4>2. OpenFile(p)
        BY <2>3, <3>4 DEF OpenFile
      <4>. QED  BY <2>3, <4>1, <4>2
    <3>5. CASE p # q
      BY <1>4, <3>3, <3>5 DEF Lives
    <3>. QED  BY <3>4, <3>5
  <2>4. CASE NodeStep \/ SendEntry \/ ShipperStep \/ Cancel \/ Restart \/ UNCHANGED agentVars
    BY <2>1, <2>4 DEF NodeStep, SendEntry, ShipperStep, Cancel, Restart, agentVars, tailerVars
  <2>5. CASE TailerStep
    BY <2>1, <2>2, <2>3, <2>5 DEF TailerStep, PollStarts, PollEnds, TailerStops, SendCancelled,
                                  EndOfFile, OpenFails
  <2>. QED  BY <2>4, <2>5 DEF Next
<1>. QED  BY <1>2, <1>3, <1>4 DEF Lives

LEMMA ReachedStep ==
  ASSUME AgentTypes, Latest, [Next]_agentVars
  PROVE  Reached'
<1>. SUFFICES ASSUME NEW p \in Path, NEW l \in Lives(p)'
              PROVE  ReachedIn(names', home', p, l)
  BY DEF Reached
<1>1. Len(home) \in Nat /\ DiskTypes /\ DiskTypes'
  BY LivesRange, DiskStep DEF AgentTypes
<1>2. CASE l \in Lives(p)
  BY <1>2, LivesRange, ReachedStays DEF Latest, Reached
<1>3. CASE l = 0
  <2>1. names'[p] # 0 => LifeIn(home', names'[p]) \in Nat
    <3>1. names'[p] # 0 => names'[p] \in Range(home') /\ home' \in Seq(Inode)
      BY <1>1 DEF DiskTypes
    <3>. QED  BY <3>1, LifeInIs
  <2>. QED  BY <1>3, <2>1 DEF ReachedIn
<1>4. CASE ReadLine /\ TailerStep /\ reading = p /\ l = Reader.life
  <2>1. UNCHANGED <<names, home>>
    BY <1>4 DEF TailerStep, diskVars
  <2>2. tpc = "read" /\ Unread(reading) # <<>>
    BY <1>4 DEF ReadLine
  <2>. QED  BY <1>4, <2>1, <2>2, ReaderReached
<1>5. CASE OpenFile(p) /\ TailerStep /\ l = Life(names[p])
  <2>1. UNCHANGED <<names, home>> /\ names[p] # 0
    BY <1>5 DEF TailerStep, diskVars, OpenFile
  <2>2. Life(names[p]) = LifeIn(home, names[p]) /\ LifeIn(home, names[p]) \in Nat
    BY <1>1, <2>1, NamedLife, LifeOf
  <2>. QED  BY <1>5, <2>1, <2>2 DEF ReachedIn
<1>. QED  BY <1>2, <1>3, <1>4, <1>5, LivesStep

LEMMA LatestInit == Init => Latest
<1>. SUFFICES ASSUME Init PROVE Latest
  OBVIOUS
<1>1. \A p \in Path : names[p] = 0
  BY DEF Init
<1>. QED  BY <1>1 DEF Init, Latest, OneName, Reached, ReachedIn, OpenName

LEMMA LatestInvariance == Spec => [](AgentTypes /\ Latest)
<1>1. AgentTypes /\ Latest /\ [Next]_agentVars => (AgentTypes /\ Latest)'
  BY TypeStep, OneNameStep, ReachedStep, OpenNameStep DEF Latest
<1>. QED  BY <1>1, InitTypes, LatestInit, PTL DEF Spec

-----------------------------------------------------------------------------
(* The order of the places counted for a path.                             *)

Before(s, t) == s.life < t.life \/ (s.life = t.life /\ s.offset <= t.offset)

\* The file path p leads to is newer than everything counted for p.
Renewed(p) == \A l \in Lives(p) : PassedIn(names, home, p, l)

\* All that was handed over for p is saved, and nothing is on its way.
Untouched(p) == positions[p] = saved[p] /\ Mine(p) = {}

\* How many entries of the flow are behind the positions already.
Sent == IF spc = "save" THEN Len(batch) ELSE 0

\* Saved, shipped, on the way, read: what is later in the flow is later in the files.
\* A file the tailer has forgotten, or missed in this pass, is a new one when it
\* appears again, or is read again from the position saved.
SavedOrder(p) == positions[p] = NoPosition \/ Before(saved[p], positions[p])
FlowOrder(p)  == \A j, k \in Mine(p) : j <= k => Before(Flow[j], Flow[k])
AheadOrder(p) == \A k \in Mine(p) :
                   k > Sent => Before(positions[p], Flow[k]) /\ Before(saved[p], Flow[k])
FileOrder(p)  == files[p] # NoState =>
                   /\ Before(positions[p], files[p]) /\ Before(saved[p], files[p])
                   /\ \A k \in Mine(p) : Before(Flow[k], files[p])
ForgottenOrder(p) == files[p] = NoState => Untouched(p) \/ Renewed(p)
MissingOrder(p)   == tpc \in {"scan", "read", "send"} /\ p \notin seen => Renewed(p)

InOrder(p) == /\ SavedOrder(p) /\ FlowOrder(p) /\ AheadOrder(p)
              /\ FileOrder(p) /\ ForgottenOrder(p) /\ MissingOrder(p)

\* As long as Glob has reported every file.
Ordered == unlisted = 0 => \A p \in Path : InOrder(p)

\* Everything counted has a life and an offset.
LEMMA Counted ==
  ASSUME AgentTypes, NEW p \in Path
  PROVE  /\ \A s \in {positions[p], saved[p], files[p]} : s.life \in Nat /\ s.offset \in Nat
         /\ \A k \in Mine(p) : /\ Flow[k].life \in Nat /\ Flow[k].life > 0
                               /\ Flow[k].offset \in Nat
                               /\ k \in 1..Len(Flow) /\ k \in Nat
         /\ NoPosition.life = 0 /\ NoPosition.offset = 0
<1>1. positions[p] \in Position /\ saved[p] \in Position /\ files[p] \in FileState
  BY DEF AgentTypes, TailerTypes, ShipperTypes
<1>2. \A s \in Position \cup FileState : s.life \in Nat /\ s.offset \in Nat
  BY Constants DEF Position, FileState
<1>3. \A k \in Mine(p) : Flow[k] \in Entry /\ k \in 1..Len(Flow) /\ k \in Nat
  BY FlowIs DEF Mine
<1>4. \A e \in Entry : e.life \in Nat /\ e.life > 0 /\ e.offset \in Nat
  BY Constants DEF Entry
<1>. QED  BY <1>1, <1>2, <1>3, <1>4 DEF NoPosition

LEMMA RenewedStep ==
  ASSUME AgentTypes, Latest, [Next]_agentVars, NEW p \in Path, Renewed(p),
         \A l \in Lives(p)' : l \in Lives(p) \/ l = 0
  PROVE  Renewed(p)'
<1>. SUFFICES ASSUME NEW l \in Lives(p)'
              PROVE  PassedIn(names', home', p, l)
  BY DEF Renewed
<1>1. CASE l \in Lives(p)
  BY <1>1, LivesRange, ReachedStays DEF Renewed
<1>2. CASE l = 0
  <2>1. DiskTypes'
    BY DiskStep DEF AgentTypes
  <2>2. names'[p] # 0 => LifeIn(home', names'[p]) \in 1..Len(home') /\ Len(home') \in Nat
    <3>1. names'[p] # 0 => names'[p] \in Range(home') /\ home' \in Seq(Inode)
      BY <2>1 DEF DiskTypes
    <3>. QED  BY <3>1, LifeInIs
  <2>. QED  BY <1>2, <2>2 DEF PassedIn
<1>. QED  BY <1>1, <1>2

\* A step that leaves the state and positions of p alone, and of its entries keeps
\* some that are next to each other.
LEMMA KeptInOrder ==
  ASSUME AgentTypes, Latest, [Next]_agentVars, NEW p \in Path, InOrder(p),
         files'[p] = files[p], positions'[p] = positions[p], saved'[p] = saved[p],
         NEW n \in Nat,
         \A k \in Mine(p)' : /\ n + k \in Mine(p) /\ Flow'[k] = Flow[n + k] /\ k \in Nat
                             /\ k > Sent' => n + k > Sent,
         tpc' \in {"scan", "read", "send"} /\ p \notin seen' =>
           names'[p] = 0 \/ (tpc \in {"scan", "read", "send"} /\ p \notin seen)
  PROVE  InOrder(p)'
<1>1. SavedOrder(p)'
  BY DEF InOrder, SavedOrder, Before
<1>2. FlowOrder(p)'
  <2>. SUFFICES ASSUME NEW j \in Mine(p)', NEW k \in Mine(p)', j <= k
                PROVE  Before(Flow[j], Flow[k])'
    BY DEF FlowOrder
  <2>1. n + j \in Mine(p) /\ n + k \in Mine(p) /\ n + j <= n + k
        /\ Flow'[j] = Flow[n + j] /\ Flow'[k] = Flow[n + k]
    OBVIOUS
  <2>. QED  BY <2>1 DEF InOrder, FlowOrder, Before
<1>3. AheadOrder(p)'
  <2>. SUFFICES ASSUME NEW k \in Mine(p)', k > Sent'
                PROVE  Before(positions[p], Flow[k])' /\ Before(saved[p], Flow[k])'
    BY DEF AheadOrder
  <2>1. n + k \in Mine(p) /\ Flow'[k] = Flow[n + k] /\ n + k > Sent
    OBVIOUS
  <2>. QED  BY <2>1 DEF InOrder, AheadOrder, Before
<1>4. FileOrder(p)'
  BY DEF InOrder, FileOrder, Before
<1>5. Renewed(p) => Renewed(p)'
  <2>1. \A l \in Lives(p)' : l \in Lives(p)
    BY DEF Lives
  <2>. QED  BY <2>1, RenewedStep
<1>6. ForgottenOrder(p)'
  <2>1. Untouched(p) => Untouched(p)'
    BY DEF Untouched
  <2>. QED  BY <1>5, <2>1 DEF InOrder, ForgottenOrder
<1>7. MissingOrder(p)'
  <2>1. names'[p] = 0 => Renewed(p)'
    BY DEF Renewed, PassedIn
  <2>. QED  BY <1>5, <2>1 DEF InOrder, MissingOrder
<1>. QED  BY <1>1, <1>2, <1>3, <1>4, <1>6, <1>7 DEF InOrder

\* The same, of a step that leaves the flow alone.
LEMMA StillInOrder ==
  ASSUME AgentTypes, Latest, [Next]_agentVars, NEW p \in Path, InOrder(p),
         files'[p] = files[p], positions'[p] = positions[p], saved'[p] = saved[p],
         Flow' = Flow, Sent' = Sent,
         tpc' \in {"scan", "read", "send"} /\ p \notin seen' =>
           names'[p] = 0 \/ (tpc \in {"scan", "read", "send"} /\ p \notin seen)
  PROVE  InOrder(p)'
<1>1. \A k \in Mine(p) : k \in Nat
  BY Counted
<1>2. Mine(p)' = Mine(p)
  BY DEF Mine
<1>3. \A k \in Mine(p)' : /\ 0 + k \in Mine(p) /\ Flow'[k] = Flow[0 + k] /\ k \in Nat
                          /\ k > Sent' => 0 + k > Sent
  BY <1>1, <1>2
<1>. QED  BY <1>3, KeptInOrder

\* readFile goes on no earlier than where the file's state, or the saved position,
\* left off.
LEMMA CurrentInOrder ==
  ASSUME AgentTypes, Latest, NEW p \in Path, names[p] # 0
  PROVE  LET st == Today(Current(p))
         IN  /\ st.life = Life(names[p]) /\ st.inode = names[p]
             /\ st.life \in Nat /\ st.offset \in Nat /\ st # NoState
             /\ Before(IF files[p] = NoState THEN positions[p] ELSE files[p], st)
<1>. DEFINE st   == Today(Current(p))
            from == IF files[p] = NoState THEN positions[p] ELSE files[p]
            L    == Life(names[p])
<1>1. /\ names[p] \in Range(home) /\ names[p] \in Inode /\ L = LifeIn(home, names[p])
      /\ L \in Nat /\ L > 0
  <2>1. DiskTypes
    BY DEF AgentTypes
  <2>2. names[p] \in Range(home) /\ names[p] \in Inode
    BY <2>1, NamedLife
  <2>3. L = LifeIn(home, names[p]) /\ L \in 1..Len(home)
    BY <2>1, <2>2, LifeOf
  <2>4. Len(home) \in Nat
    BY <2>1, LineSeqs
  <2>. QED  BY <2>2, <2>3, <2>4
<1>2. /\ Current(p) \in FileState /\ Current(p).inode = names[p]
  BY CurrentPlaced
<1>3. /\ st.life = L /\ st.inode = names[p] /\ st.offset = Current(p).offset
      /\ st.offset \in Nat
  BY <1>2, Constants DEF Today, FileState
<1>4. st # NoState
  BY <1>1, <1>3 DEF NoState
<1>5. /\ from.life \in 0..L /\ from.life \in Nat /\ from.offset \in Nat
      /\ from.life = L => from.inode = names[p]
      /\ from.life = L => from.offset <= Len(Content(names[p])) /\ Len(Content(names[p])) \in Nat
  <2>1. from.life \in Lives(p) /\ from.life \in Nat /\ from.offset \in Nat
    BY Counted DEF Lives
  <2>2. from.life <= L
    BY <1>1, <2>1 DEF Latest, Reached, ReachedIn
  <2>3. from = NoPosition \/ Placed(from)
    BY DEF AgentTypes, TailerTypes, ShipperTypes
  <2>4. from = NoPosition => from.life = 0
    BY DEF NoPosition
  <2>5. ASSUME from.life = L
        PROVE  /\ from.inode = names[p] /\ from.offset <= Len(Content(names[p]))
               /\ Len(Content(names[p])) \in Nat
    <3>1. Placed(from)
      BY <1>1, <2>3, <2>4, <2>5
    <3>2. from.inode = home[L] /\ from.offset \in 0..Len(data[L])
      BY <2>5, <3>1 DEF Placed, PlacedIn
    <3>3. L \in 1..Len(home) /\ home[L] = names[p]
      BY <1>1, LifeOf DEF AgentTypes
    <3>4. Len(data[L]) \in Nat
      BY <3>3, LineSeqs DEF AgentTypes
    <3>. QED  BY <3>2, <3>3, <3>4 DEF Content
  <2>. QED  BY <1>1, <2>1, <2>2, <2>5
<1>6. CASE from.life = L
  <2>1. from.inode = names[p] /\ ~(Len(Content(names[p])) < from.offset)
    BY <1>5, <1>6
  <2>2. CASE files[p] = NoState
    <3>1. Resume(p).inode = names[p] /\ Resume(p).offset = positions[p].offset
      BY <2>1, <2>2 DEF Resume
    <3>2. Current(p) = Resume(p)
      BY <2>1, <2>2, <3>1 DEF Current, Restarted
    <3>. QED  BY <1>1, <1>3, <1>4, <1>5, <1>6, <2>2, <3>1, <3>2 DEF Before
  <2>3. CASE files[p] # NoState
    <3>1. Current(p) = files[p]
      BY <2>1, <2>3 DEF Current, Restarted
    <3>. QED  BY <1>1, <1>3, <1>4, <1>5, <1>6, <2>3, <3>1 DEF Before
  <2>. QED  BY <2>2, <2>3
<1>7. CASE from.life # L
  <2>1. from.life < st.life
    BY <1>1, <1>3, <1>5, <1>7
  <2>. QED  BY <1>1, <1>3, <1>4, <2>1 DEF Before
<1>. QED  BY <1>6, <1>7

\* The same of a state made when nothing of p was known, or all is saved.
LEMMA OpenInOrder ==
  ASSUME AgentTypes, Latest, NEW p \in Path, names[p] # 0, InOrder(p)
  PROVE  LET st == Today(Current(p))
         IN  /\ Before(positions[p], st) /\ Before(saved[p], st)
             /\ \A k \in Mine(p) : Before(Flow[k], st)
<1>. DEFINE st == Today(Current(p))
<1>1. /\ st.life = Life(names[p]) /\ st.life \in Nat /\ st.offset \in Nat
      /\ Before(IF files[p] = NoState THEN positions[p] ELSE files[p], st)
  BY CurrentInOrder
<1>2. CASE files[p] # NoState
  BY <1>1, <1>2, Counted DEF InOrder, FileOrder, Before
<1>3. CASE files[p] = NoState /\ Untouched(p)
  BY <1>1, <1>3 DEF Untouched
<1>4. CASE Renewed(p)
  <2>1. Life(names[p]) = LifeIn(home, names[p])
    BY NamedLife, LifeOf DEF AgentTypes
  <2>2. \A l \in Lives(p) : l < st.life
    BY <1>1, <1>4, <2>1 DEF Renewed, PassedIn
  <2>. QED  BY <2>2 DEF Lives, Before
<1>. QED  BY <1>2, <1>3, <1>4 DEF InOrder, ForgottenOrder

LEMMA OpenFileInOrder ==
  ASSUME AgentTypes, Latest, [Next]_agentVars, TailerStep,
         NEW p \in Path, OpenFile(p), NEW q \in Path, InOrder(p), InOrder(q)
  PROVE  InOrder(q)'
<1>. DEFINE st == Today(Current(p))
<1>1. /\ names[p] # 0 /\ p \in seen /\ seen' = seen /\ tpc = "scan"
      /\ files' = [files EXCEPT ![p] = st]
      /\ UNCHANGED <<positions, saved, out, ch, batch, spc>>
  BY DEF OpenFile, TailerStep, shipperVars, AgentTypes, TailerTypes
<1>2. /\ files'[p] = st /\ st # NoState
      /\ q # p => files'[q] = files[q]
  BY <1>1, CurrentInOrder DEF AgentTypes, TailerTypes
<1>3. Flow' = Flow /\ Sent' = Sent /\ Mine(q)' = Mine(q) /\ Mine(p)' = Mine(p)
  BY <1>1 DEF Flow, Sent, Mine
<1>4. CASE q # p
  BY <1>1, <1>2, <1>3, <1>4, StillInOrder
<1>5. InOrder(p)'
  <2>1. SavedOrder(p)' /\ FlowOrder(p)' /\ AheadOrder(p)'
    BY <1>1, <1>3 DEF InOrder, SavedOrder, FlowOrder, AheadOrder, Before
  <2>2. FileOrder(p)'
    <3>1. /\ Before(positions[p], st) /\ Before(saved[p], st)
          /\ \A k \in Mine(p) : Before(Flow[k], st)
      BY <1>1, OpenInOrder
    <3>. QED  BY <1>1, <1>2, <1>3, <3>1 DEF FileOrder, Before
  <2>3. ForgottenOrder(p)' /\ MissingOrder(p)'
    BY <1>1, <1>2 DEF ForgottenOrder, MissingOrder
  <2>. QED  BY <2>1, <2>2, <2>3 DEF InOrder
<1>. QED  BY <1>4, <1>5

LEMMA ReadLineInOrder ==
  ASSUME AgentTypes, Latest, [Next]_agentVars, TailerStep, ReadLine,
         NEW q \in Path, InOrder(reading), InOrder(q)
  PROVE  InOrder(q)'
<1>. DEFINE p == reading
<1>1. /\ UNCHANGED diskVars /\ UNCHANGED <<saved, ch, batch, spc, names>>
  BY DEF TailerStep, shipperVars, diskVars
<1>2. /\ tpc = "read" /\ Unread(reading) # <<>> /\ UNCHANGED <<seen, positions, reading>>
      /\ out = NoEntry
  BY <1>1, ReadMoves DEF AgentTypes, FlowTypes
<1>3. PICK pending \in {Reader.pending, Append(Reader.pending, NextLine), <<>>} :
        files' = [files EXCEPT ![reading] = NextState(pending)]
  BY <1>1, ReadMoves
<1>4. /\ p \in Path /\ p \in seen /\ files[p] # NoState /\ Reader.offset = files[p].offset
      /\ Reader \in FileState
  BY <1>2, ReaderPlaced
<1>5. /\ NextState(pending) # NoState /\ NextState(pending).life = Reader.life
      /\ NextState(pending).offset = Reader.offset + 1
  BY <1>2, <1>3, NextPlaced
<1>6. /\ files'[p] = NextState(pending) /\ files' \in [Path -> FileState]
      /\ q # p => files'[q] = files[q]
  <2>1. NextState(pending) \in FileState
    BY <1>2, <1>3, NextPlaced
  <2>. QED  BY <1>3, <1>4, <2>1 DEF AgentTypes, TailerTypes
<1>7. /\ files[p].life <= Reader.life /\ Reader.life \in Nat /\ Reader.offset \in Nat
      /\ files[p].life \in Nat /\ files[p].offset \in Nat
  <2>1. files[p].life <= Reader.life
    BY <1>2, ReaderReached
  <2>2. files[p] \in FileState
    BY <1>4 DEF AgentTypes, TailerTypes
  <2>. QED  BY <1>4, <2>1, <2>2, Constants DEF FileState
<1>8. /\ NextEntry.file = p /\ NextEntry.life = Reader.life
      /\ NextEntry.offset = Reader.offset + 1
  BY DEF NextEntry
<1>9. Sent' = Sent
  BY <1>1 DEF Sent
<1>10. \/ Flow' = Flow /\ Mine(p)' = Mine(p) /\ Mine(q)' = Mine(q)
       \/ /\ Flow'[Len(Flow) + 1] = NextEntry /\ Len(Flow) \in Nat
          /\ \A k \in 1..Len(Flow) : Flow'[k] = Flow[k]
          /\ Mine(p)' = Mine(p) \cup {Len(Flow) + 1}
          /\ q # p => Mine(q)' = Mine(q)
  <2>1. CASE out' = out
    BY <1>1, <1>2, <2>1 DEF Flow, Mine
  <2>2. CASE tpc' = "send" /\ out' = NextEntry
    <3>1. /\ Len(Flow) \in Nat /\ Len(Flow') = Len(Flow) + 1
          /\ \A k \in 1..Len(Flow) : Flow'[k] = Flow[k]
          /\ Flow'[Len(Flow) + 1] = NextEntry
      BY <1>2, <2>2, JoinFlow
    <3>2. \A k : k \in 1..Len(Flow') <=> k \in 1..Len(Flow) \/ k = Len(Flow) + 1
      BY <3>1
    <3>. QED  BY <1>2, <1>8, <3>1, <3>2 DEF Mine
  <2>. QED  BY <1>1, <2>1, <2>2, ReadMoves
<1>11. CASE q # p
  <2>1. \A k \in Mine(q) : Flow'[k] = Flow[k] /\ k \in Nat
    BY <1>10, Counted
  <2>2. \A k \in Mine(q)' : /\ 0 + k \in Mine(q) /\ Flow'[k] = Flow[0 + k] /\ k \in Nat
                            /\ k > Sent' => 0 + k > Sent
    BY <1>9, <1>10, <1>11, <2>1
  <2>. QED  BY <1>1, <1>2, <1>6, <1>11, <2>2, KeptInOrder
<1>12. InOrder(p)'
  <2>1. \A s : s.life \in Nat /\ s.offset \in Nat /\ Before(s, files[p])
               => Before(s, NextState(pending)) /\ Before(s, NextEntry)
    BY <1>4, <1>5, <1>7, <1>8 DEF Before
  <2>2. \A k \in Mine(p) : /\ Before(Flow[k], NextState(pending)) /\ Before(Flow[k], NextEntry)
                           /\ k \in 1..Len(Flow) /\ k \in Nat
    BY <1>4, <2>1, Counted DEF InOrder, FileOrder
  <2>3. \A s \in {positions[p], saved[p]} : Before(s, NextState(pending)) /\ Before(s, NextEntry)
    BY <1>4, <2>1, Counted DEF InOrder, FileOrder
  <2>4. Before(NextEntry, NextState(pending)) /\ Before(NextEntry, NextEntry)
    BY <1>5, <1>7, <1>8 DEF Before
  <2>5. \A k \in Mine(p)' : \/ k \in Mine(p) /\ Flow'[k] = Flow[k]
                            \/ k = Len(Flow) + 1 /\ Flow'[k] = NextEntry /\ Len(Flow) \in Nat
    BY <1>10, <2>2
  <2>6. SavedOrder(p)'
    BY <1>1, <1>2, <1>4 DEF InOrder, SavedOrder, Before
  <2>7. FlowOrder(p)'
    <3>. SUFFICES ASSUME NEW j \in Mine(p)', NEW k \in Mine(p)', j <= k
                  PROVE  Before(Flow'[j], Flow'[k])
      BY <1>2 DEF FlowOrder, Before
    <3>. QED  BY <1>4, <2>2, <2>4, <2>5 DEF InOrder, FlowOrder
  <2>8. AheadOrder(p)'
    <3>. SUFFICES ASSUME NEW k \in Mine(p)', k > Sent'
                  PROVE  Before(positions[p], Flow'[k]) /\ Before(saved[p], Flow'[k])
      BY <1>1, <1>2 DEF AheadOrder, Before
    <3>. QED  BY <1>4, <1>9, <2>3, <2>5 DEF InOrder, AheadOrder
  <2>9. FileOrder(p)'
    BY <1>1, <1>2, <1>6, <2>2, <2>3, <2>4, <2>5 DEF FileOrder, Before
  <2>10. ForgottenOrder(p)' /\ MissingOrder(p)'
    BY <1>2, <1>4, <1>5, <1>6 DEF ForgottenOrder, MissingOrder
  <2>. QED  BY <1>2, <2>6, <2>7, <2>8, <2>9, <2>10 DEF InOrder
<1>. QED  BY <1>2, <1>4, <1>11, <1>12

\* A new pass misses what is not there; what it does not see is forgotten at its end.
LEMMA PassInOrder ==
  ASSUME AgentTypes, Latest, [Next]_agentVars, TailerStep, NEW p \in Path, InOrder(p),
         PollStarts \/ PollEnds, unlisted = 0, unlisted' = 0
  PROVE  InOrder(p)'
<1>1. UNCHANGED <<names, saved, ch, batch, spc>>
  BY DEF TailerStep, diskVars, shipperVars
<1>2. CASE PollStarts
  <2>1. /\ UNCHANGED <<files, positions, out>> /\ tpc = "idle"
        /\ seen' = {q \in Path : names[q] # 0}
    BY <1>2, Constants DEF PollStarts
  <2>2. Flow' = Flow /\ Sent' = Sent
    BY <1>1, <2>1 DEF Flow, Sent
  <2>. QED  BY <1>1, <2>1, <2>2, StillInOrder
<1>3. CASE PollEnds
  <2>1. /\ tpc = "scan" /\ tpc' = "idle" /\ UNCHANGED out
        /\ files' = [q \in Path |-> IF q \in seen THEN files[q] ELSE NoState]
        /\ positions' = [q \in Path |-> IF q \in seen THEN positions[q] ELSE NoPosition]
    BY <1>3 DEF PollEnds
  <2>2. Flow' = Flow /\ Sent' = Sent /\ Mine(p)' = Mine(p)
    BY <1>1, <2>1 DEF Flow, Sent, Mine
  <2>3. CASE p \in seen
    BY <1>1, <2>1, <2>2, <2>3, StillInOrder
  <2>4. CASE p \notin seen
    <3>1. files'[p] = NoState /\ positions'[p] = NoPosition
      BY <2>1, <2>4
    <3>2. Renewed(p)
      BY <2>1, <2>4 DEF InOrder, MissingOrder
    <3>3. \A l \in Lives(p)' : l \in Lives(p) \/ l = 0
      BY <1>1, <2>2, <3>1 DEF Lives, NoState, NoPosition
    <3>4. Renewed(p)'
      BY <3>2, <3>3, RenewedStep
    <3>5. \A k \in Mine(p) : Before(NoPosition, Flow[k])
      BY Counted DEF Before
    <3>6. SavedOrder(p)' /\ FileOrder(p)' /\ ForgottenOrder(p)' /\ MissingOrder(p)'
      BY <3>1, <3>4 DEF SavedOrder, FileOrder, ForgottenOrder, MissingOrder
    <3>7. FlowOrder(p)' /\ AheadOrder(p)'
      BY <1>1, <2>2, <3>1, <3>5 DEF InOrder, FlowOrder, AheadOrder, Before
    <3>. QED  BY <3>6, <3>7 DEF InOrder
  <2>. QED  BY <2>3, <2>4
<1>. QED  BY <1>2, <1>3

LEMMA TailerInOrder ==
  ASSUME AgentTypes, Latest, [Next]_agentVars, TailerStep, NEW p \in Path,
         \A q \in Path : InOrder(q), unlisted = 0, unlisted' = 0
  PROVE  InOrder(p)'
<1>1. UNCHANGED <<names, saved, ch, batch, spc>>
  BY DEF TailerStep, diskVars, shipperVars
<1>2. CASE PollStarts \/ PollEnds
  BY <1>2, PassInOrder
<1>3. CASE \E q \in Path : OpenFile(q)
  BY <1>3, OpenFileInOrder
<1>4. CASE ReadLine
  <2>1. reading \in Path
    BY <1>4, ReaderPlaced DEF ReadLine
  <2>. QED  BY <1>4, <2>1, ReadLineInOrder
<1>5. CASE TailerStops \/ EndOfFile \/ \E q \in Path : OpenFails(q)
  <2>1. /\ UNCHANGED <<files, positions, out, seen>>
        /\ tpc' \in {"scan", "read", "send"} => tpc \in {"scan", "read", "send"}
    BY <1>5 DEF TailerStops, EndOfFile, OpenFails
  <2>2. Flow' = Flow /\ Sent' = Sent
    BY <1>1, <2>1 DEF Flow, Sent
  <2>. QED  BY <1>1, <2>1, <2>2, StillInOrder
<1>6. CASE SendCancelled
  <2>1. /\ UNCHANGED <<files, positions>> /\ tpc = "send" /\ tpc' = "stopped" /\ out' = NoEntry
    BY <1>6 DEF SendCancelled
  <2>2. /\ Len(Flow') \in Nat /\ Len(Flow) = Len(Flow') + 1
        /\ \A k \in 1..Len(Flow') : Flow'[k] = Flow[k]
    BY <1>1, <2>1, CancelFlow
  <2>3. Sent' = Sent
    BY <1>1 DEF Sent
  <2>4. \A k \in Mine(p)' : /\ 0 + k \in Mine(p) /\ Flow'[k] = Flow[0 + k] /\ k \in Nat
                            /\ k > Sent' => 0 + k > Sent
    BY <2>2, <2>3 DEF Mine
  <2>. QED  BY <1>1, <2>1, <2>4, KeptInOrder
<1>. QED  BY <1>2, <1>3, <1>4, <1>5, <1>6 DEF TailerStep

\* commit: the last entry of p in the batch becomes its position.
LEMMA CommitInOrder ==
  ASSUME AgentTypes, Latest, [Next]_agentVars, ShipperStep, CallOk, NEW p \in Path, InOrder(p)
  PROVE  InOrder(p)'
<1>1. /\ UNCHANGED <<names, tpc, seen, files, out, saved, ch, batch>>
      /\ spc = "call" /\ spc' = "save" /\ positions' = Committed
  BY DEF ShipperStep, CallOk, diskVars, tailerVars
<1>2. /\ Flow' = Flow /\ Mine(p)' = Mine(p) /\ Sent = 0 /\ Sent' = Len(batch)
      /\ Len(batch) \in Nat /\ Len(batch) <= Len(Flow)
      /\ \A k \in 1..Len(batch) : Flow[k] = batch[k]
  BY <1>1, BatchFlow DEF Flow, Mine, Sent
<1>3. \A k \in Mine(p) : k \in 1..Len(Flow) /\ k \in Nat
  BY Counted
<1>4. DOMAIN batch = 1..Len(batch) /\ Len(Flow) \in Nat
  BY FlowIs, SendableRange
<1>5. CASE /\ positions'[p] = positions[p]
           /\ \A k \in DOMAIN batch : batch[k].file # p
  <2>1. \A k \in Mine(p) : k > Len(batch)
    BY <1>2, <1>3, <1>4, <1>5 DEF Mine
  <2>2. \A k \in Mine(p)' : /\ 0 + k \in Mine(p) /\ Flow'[k] = Flow[0 + k] /\ k \in Nat
                            /\ k > Sent' => 0 + k > Sent
    BY <1>2, <1>3
  <2>. QED  BY <1>1, <1>5, <2>2, KeptInOrder
<1>6. ASSUME NEW m \in DOMAIN batch, batch[m].file = p,
             positions'[p] = [inode |-> batch[m].inode, life |-> batch[m].life,
                              offset |-> batch[m].offset]
      PROVE  InOrder(p)'
  <2>1. /\ m \in Mine(p) /\ m <= Len(batch) /\ m > Sent /\ m \in Nat
        /\ positions'[p].life = Flow[m].life /\ positions'[p].offset = Flow[m].offset
    BY <1>2, <1>4, <1>6 DEF Mine
  <2>2. SavedOrder(p)'
    <3>1. Before(saved[p], Flow[m])
      BY <2>1 DEF InOrder, AheadOrder
    <3>. QED  BY <1>1, <2>1, <3>1 DEF SavedOrder, Before
  <2>3. FlowOrder(p)'
    BY <1>2 DEF InOrder, FlowOrder, Before
  <2>4. AheadOrder(p)'
    <3>. SUFFICES ASSUME NEW k \in Mine(p), k > Len(batch)
                  PROVE  Before(positions[p], Flow[k])' /\ Before(saved[p], Flow[k])'
      BY <1>2 DEF AheadOrder
    <3>1. k \in Nat /\ m <= k /\ k > Sent
      BY <1>2, <1>3, <2>1
    <3>2. Before(Flow[m], Flow[k]) /\ Before(saved[p], Flow[k])
      BY <2>1, <3>1 DEF InOrder, FlowOrder, AheadOrder
    <3>. QED  BY <1>1, <1>2, <2>1, <3>2 DEF Before
  <2>5. FileOrder(p)'
    BY <1>1, <1>2, <2>1 DEF InOrder, FileOrder, Before
  <2>6. Renewed(p) => Renewed(p)'
    <3>1. \A l \in Lives(p)' : l \in Lives(p)
      BY <1>1, <1>2, <2>1 DEF Lives
    <3>. QED  BY <3>1, RenewedStep
  <2>7. ForgottenOrder(p)' /\ MissingOrder(p)'
    BY <1>1, <2>1, <2>6 DEF InOrder, ForgottenOrder, MissingOrder, Untouched
  <2>. QED  BY <2>2, <2>3, <2>4, <2>5, <2>7 DEF InOrder
<1>. QED  BY <1>1, <1>5, <1>6, CommittedIs

\* The batch leaves the flow; after Save its positions are the saved ones.
LEMMA FlushInOrder ==
  ASSUME AgentTypes, Latest, [Next]_agentVars, ShipperStep, Dropping, NEW p \in Path, InOrder(p)
  PROVE  InOrder(p)'
<1>1. /\ UNCHANGED <<names, tpc, seen, files, out, ch, positions>> /\ FlushEnds
      /\ spc' # "save"
  BY DEF ShipperStep, Dropping, Abandon, Save, SaveFails, FlushEnds, diskVars, tailerVars
<1>2. /\ Len(Flow) = Len(batch) + Len(Flow') /\ Len(batch) \in Nat /\ Len(Flow') \in Nat
      /\ \A k \in 1..Len(Flow') : Flow'[k] = Flow[Len(batch) + k]
  BY <1>1, FlushFlow
<1>3. Sent' = 0 /\ Sent \in Nat /\ Sent <= Len(batch)
  BY <1>1, <1>2 DEF Sent
<1>4. \A k \in Mine(p)' : /\ Len(batch) + k \in Mine(p) /\ Flow'[k] = Flow[Len(batch) + k]
                          /\ k \in Nat /\ Len(batch) + k > Sent
  <2>. SUFFICES ASSUME NEW k \in Mine(p)'
                PROVE  /\ Len(batch) + k \in Mine(p) /\ Flow'[k] = Flow[Len(batch) + k]
                       /\ k \in Nat /\ Len(batch) + k > Sent
    OBVIOUS
  <2>1. k \in 1..Len(Flow') /\ Flow'[k].file = p
    BY DEF Mine
  <2>2. Len(batch) + k \in 1..Len(Flow) /\ k \in Nat /\ k > 0
    BY <1>2, <2>1
  <2>. QED  BY <1>2, <1>3, <2>1, <2>2 DEF Mine
<1>5. CASE saved' = saved
  BY <1>1, <1>2, <1>4, <1>5, KeptInOrder
<1>6. CASE Save
  <2>1. saved' = positions /\ Sent = Len(batch) /\ spc = "save"
    BY <1>6 DEF Save, Sent
  <2>2. SavedOrder(p)'
    BY <1>1, <2>1, Counted DEF SavedOrder, Before
  <2>3. FlowOrder(p)'
    <3>. SUFFICES ASSUME NEW j \in Mine(p)', NEW k \in Mine(p)', j <= k
                  PROVE  Before(Flow[j], Flow[k])'
      BY DEF FlowOrder
    <3>1. /\ Len(batch) + j \in Mine(p) /\ Len(batch) + k \in Mine(p)
          /\ Len(batch) + j <= Len(batch) + k
      BY <1>2, <1>4
    <3>. QED  BY <1>4, <3>1 DEF InOrder, FlowOrder, Before
  <2>4. AheadOrder(p)'
    BY <1>1, <1>4, <2>1 DEF InOrder, AheadOrder, Before
  <2>5. FileOrder(p)'
    BY <1>1, <1>4, <2>1 DEF InOrder, FileOrder, Before
  <2>6. Renewed(p) => Renewed(p)'
    <3>1. \A l \in Lives(p)' : l \in Lives(p)
      BY <1>1, <1>4, <2>1 DEF Lives
    <3>. QED  BY <3>1, RenewedStep
  <2>7. Untouched(p) => Untouched(p)'
    BY <1>1, <1>4, <2>1 DEF Untouched
  <2>8. ForgottenOrder(p)' /\ MissingOrder(p)'
    BY <1>1, <2>6, <2>7 DEF InOrder, ForgottenOrder, MissingOrder
  <2>. QED  BY <2>2, <2>3, <2>4, <2>5, <2>8 DEF InOrder
<1>. QED  BY <1>5, <1>6 DEF Dropping, Abandon, SaveFails

LEMMA ShipperInOrder ==
  ASSUME AgentTypes, Latest, [Next]_agentVars, ShipperStep, NEW p \in Path, InOrder(p)
  PROVE  InOrder(p)'
<1>1. UNCHANGED <<names, tpc, seen, files, out>>
  BY DEF ShipperStep, diskVars, tailerVars
<1>2. CASE CallOk
  BY <1>2, CommitInOrder
<1>3. CASE Dropping
  BY <1>3, FlushInOrder
<1>4. CASE Receive
  <2>1. Flow' = Flow /\ UNCHANGED <<positions, saved>> /\ spc = "collect" /\ spc' # "save"
    BY <1>1, <1>4, ReceiveFlow DEF Receive
  <2>. QED  BY <1>1, <2>1, StillInOrder DEF Sent
<1>5. CASE Tick \/ ChannelClosed \/ CallBroken \/ CallRefused \/ CallUnsendable \/ Retry
  <2>1. UNCHANGED <<ch, batch, positions, saved>> /\ spc # "save" /\ spc' # "save"
    BY <1>5 DEF Tick, ChannelClosed, CallBroken, CallRefused, CallUnsendable, Retry, CallFailed
  <2>2. Flow' = Flow /\ Sent' = Sent
    BY <1>1, <2>1 DEF Flow, Sent
  <2>. QED  BY <1>1, <2>1, <2>2, StillInOrder
<1>. QED  BY <1>2, <1>3, <1>4, <1>5 DEF ShipperStep, Dropping

LEMMA RestartInOrder ==
  ASSUME AgentTypes, Restart, NEW p \in Path
  PROVE  InOrder(p)'
<1>1. /\ positions'[p] = saved[p] /\ saved'[p] = saved[p] /\ files'[p] = NoState
      /\ tpc' = "idle" /\ batch' = <<>> /\ ch' = <<>> /\ out' = NoEntry
  BY DEF Restart
<1>2. Mine(p)' = {}
  <2>1. <<>> \in Seq(Entry)
    OBVIOUS
  <2>2. Flow' = <<>>
    BY <1>1, <2>1, ConcatEmptySeq DEF Flow
  <2>3. Len(Flow') = 0 /\ 1..0 = {}
    BY <2>2
  <2>. QED  BY <2>3 DEF Mine
<1>3. Before(saved[p], saved[p])
  BY Counted DEF Before
<1>. QED  BY <1>1, <1>2, <1>3 DEF InOrder, SavedOrder, FlowOrder, AheadOrder, FileOrder,
            ForgottenOrder, MissingOrder, Untouched, Before

LEMMA OrderedStep ==
  ASSUME AgentTypes, Latest, Ordered, [Next]_agentVars
  PROVE  Ordered'
<1>. SUFFICES ASSUME unlisted' = 0, NEW p \in Path
              PROVE  InOrder(p)'
  BY DEF Ordered
<1>1. unlisted = 0
  <2>1. unlisted \in Nat /\ (unlisted' = unlisted \/ unlisted' = unlisted + 1)
    BY DEF AgentTypes, TailerTypes, Next, NodeStep, TailerStep, SendEntry, ShipperStep, Cancel,
           Restart, PollStarts, PollEnds, TailerStops, SendCancelled, EndOfFile, ReadLine,
           OpenFails, OpenFile, agentVars, tailerVars
  <2>. QED  BY <2>1
<1>2. \A q \in Path : InOrder(q)
  BY <1>1 DEF Ordered
<1>3. CASE TailerStep
  BY <1>1, <1>2, <1>3, TailerInOrder
<1>4. CASE ShipperStep
  BY <1>2, <1>4, ShipperInOrder
<1>5. CASE Restart
  BY <1>5, RestartInOrder
<1>6. CASE NodeStep \/ Cancel \/ UNCHANGED agentVars
  <2>1. UNCHANGED <<tpc, seen, files, positions, saved, batch, ch, out, spc>>
    BY <1>6 DEF NodeStep, Cancel, agentVars, tailerVars, shipperVars
  <2>2. Flow' = Flow /\ Sent' = Sent
    BY <2>1 DEF Flow, Sent
  <2>. QED  BY <1>2, <2>1, <2>2, StillInOrder
<1>7. CASE SendEntry
  <2>1. /\ UNCHANGED <<seen, files, positions, saved, batch, spc>> /\ tpc = "send"
        /\ Flow' = Flow
    BY <1>7, SendFlow DEF SendEntry, shipperVars
  <2>2. Sent' = Sent
    BY <2>1 DEF Sent
  <2>. QED  BY <1>2, <2>1, <2>2, StillInOrder
<1>. QED  BY <1>3, <1>4, <1>5, <1>6, <1>7 DEF Next

LEMMA OrderedInit == Init => Ordered
<1>. SUFFICES ASSUME Init, NEW p \in Path PROVE InOrder(p)
  BY DEF Ordered
<1>1. /\ positions[p] = NoPosition /\ saved[p] = NoPosition /\ files[p] = NoState
      /\ tpc = "idle" /\ batch = <<>> /\ ch = <<>> /\ out = NoEntry
  BY DEF Init
<1>2. Mine(p) = {}
  <2>1. <<>> \in Seq(Entry)
    OBVIOUS
  <2>2. Flow = <<>>
    BY <1>1, <2>1, ConcatEmptySeq DEF Flow
  <2>3. Len(Flow) = 0 /\ 1..0 = {}
    BY <2>2
  <2>. QED  BY <2>3 DEF Mine
<1>. QED  BY <1>1, <1>2 DEF InOrder, SavedOrder, FlowOrder, AheadOrder, FileOrder,
            ForgottenOrder, MissingOrder, Untouched

LEMMA OrderInvariance == Spec => [](AgentTypes /\ Latest /\ Ordered)
<1>1. AgentTypes /\ Latest /\ Ordered /\ [Next]_agentVars => (AgentTypes /\ Latest /\ Ordered)'
  BY TypeStep, OneNameStep, ReachedStep, OpenNameStep, OrderedStep DEF Latest
<1>. QED  BY <1>1, InitTypes, LatestInit, OrderedInit, PTL DEF Spec

\* The positions file never goes back, neither within a content nor to an earlier
\* one, over rotations, truncations, lost receipts, failed saves, shutdowns, crashes
\* and restarts, as long as Glob reports every file.
THEOREM SavedOnlyForward == Spec => PositionsNeverGoBack
<1>. DEFINE Forward == \A p \in Path :
              \/ saved'[p] = NoPosition
              \/ saved'[p].life > saved[p].life
              \/ saved'[p].life = saved[p].life /\ saved'[p].offset >= saved[p].offset
              \/ unlisted > 0
<1>1. AgentTypes /\ Ordered /\ [Next]_agentVars => [Forward]_agentVars
  <2>. SUFFICES ASSUME AgentTypes, Ordered, Next, NEW p \in Path, unlisted = 0
                PROVE  \/ saved'[p] = NoPosition
                       \/ saved'[p].life > saved[p].life
                       \/ saved'[p].life = saved[p].life /\ saved'[p].offset >= saved[p].offset
    BY DEF AgentTypes, TailerTypes
  <2>1. /\ saved[p].life \in Nat /\ saved[p].offset \in Nat
        /\ positions[p].life \in Nat /\ positions[p].offset \in Nat
    BY Counted
  <2>2. CASE saved' = saved
    BY <2>1, <2>2
  <2>3. CASE saved' = positions
    BY <2>1, <2>3 DEF Ordered, InOrder, SavedOrder, Before
  <2>. QED  BY <2>2, <2>3 DEF Next, NodeStep, TailerStep, SendEntry, ShipperStep, Cancel, Restart,
              Receive, Tick, ChannelClosed, CallOk, CallBroken, CallRefused, CallUnsendable,
              Retry, Abandon, Save, SaveFails
<1>. QED  BY <1>1, OrderInvariance, PTL DEF Spec, PositionsNeverGoBack

-----------------------------------------------------------------------------
(* How often a line is handed to the server.                               *)

\* Lines are numbered as they are written, each once, and nothing in hand has a
\* number that is not given yet.
LinesNumbered ==
  \A l \in 1..Len(home) : \A k \in 1..Len(data[l]) :
    /\ data[l][k].id <= written
    /\ \A m \in 1..Len(home) : \A j \in 1..Len(data[m]) :
         data[l][k].id = data[m][j].id => l = m /\ k = j
HandsNumbered ==
  /\ \A k \in 1..Len(Flow) : Ids(Flow[k].message) \subseteq 1..written
  /\ \A p \in Path : Ids(files[p].pending) \subseteq 1..written
  /\ \A i \in 1..MaxLines : copies[i] > 0 => i <= written
Numbered == LinesNumbered /\ HandsNumbered

\* The contents path p can be read in from here on, unless new ones begin.
Reach(p) == (IF names[p] = 0 THEN {} ELSE {LifeIn(home, names[p])})
            \cup (IF reading = p THEN {files[p].life, LifeIn(home, files[p].inode)} ELSE {})

\* Whether line k of content l is still to be read for p: what is forgotten, or is
\* going to be at the end of the pass, begins again.
Missing(p) == tpc \in {"scan", "read", "send"} /\ p \notin seen
Ahead(p, l, k) == \/ files[p] = NoState \/ Missing(p)
                  \/ files[p].life < l \/ (files[p].life = l /\ files[p].offset < k)

\* Where line i may still come from: its file, chunks in the tailer's hands, and
\* entries in the flow that no call has delivered.
Readable(i) == \E p \in Path : \E l \in Reach(p) : \E k \in 1..Len(data[l]) :
                 data[l][k].id = i /\ Ahead(p, l, k)
Holding(i)  == {p \in Path : i \in Ids(files[p].pending)}
Queued(i)   == {k \in 1..Len(Flow) : k > Sent /\ i \in Ids(Flow[k].message)}

Owed(i) == Cardinality(Queued(i)) + Cardinality(Holding(i)) + (IF Readable(i) THEN 1 ELSE 0)
Times   == 1 + faults + restarts + unlisted

\* A line is accepted, and may still be, once, and once more for each fault, restart
\* and unreadable directory.
Within(i) == IsFiniteSet(Holding(i)) /\ copies[i] + Owed(i) <= Times
Limited == \A i \in 1..MaxLines : Within(i)

\* Line k of content l after a step was there before, or is the one just written.
OldLine(l, k) == l \in 1..Len(home) /\ k \in 1..Len(data[l]) /\ data'[l][k] = data[l][k]
NewLine(l, k) == data'[l][k].id = written' /\ written' = written + 1
OnlyNewAt(m, j) == \A l \in 1..Len(home') : \A k \in 1..Len(data'[l]) :
                     OldLine(l, k) \/ (l = m /\ k = j /\ NewLine(l, k))

LEMMA DataStep ==
  ASSUME DiskTypes, [Next]_agentVars
  PROVE  /\ written \in Nat /\ written' \in Nat /\ written <= written'
         /\ \E m, j : OnlyNewAt(m, j)
<1>0. written \in Nat /\ Len(home) \in Nat
  BY Constants, LineSeqs DEF DiskTypes
<1>1. CASE UNCHANGED diskVars
  <2>1. OnlyNewAt(0, 0) /\ written' = written
    BY <1>0, <1>1 DEF diskVars, OnlyNewAt, OldLine
  <2>. QED  BY <1>0, <2>1
<1>2. ASSUME NEW i \in Inode, BeginLife(i), written' = written
      PROVE  written' = written /\ \E m, j : OnlyNewAt(m, j)
  <2>2. /\ Len(home') = Len(home) + 1 /\ data'[Len(home')] = <<>>
        /\ \A l \in 1..Len(home) : data'[l] = data[l]
    BY <1>2, NewLife
  <2>3. \A l \in 1..Len(home') : l \in 1..Len(home) \/ l = Len(home')
    BY <1>0, <2>2
  <2>4. Len(<<>>) = 0 /\ 1..0 = {}
    OBVIOUS
  <2>5. OnlyNewAt(0, 0)
    BY <2>2, <2>3, <2>4 DEF OnlyNewAt, OldLine
  <2>. QED  BY <1>2, <2>5
<1>3. ASSUME NEW p \in Path, NEW s \in Stream, NEW kind \in Kind, WriteLine(p, s, kind)
      PROVE  written' = written + 1 /\ \E m, j : OnlyNewAt(m, j)
  <2>. DEFINE here == Life(names[p])
              line == [id |-> written + 1, stream |-> s, kind |-> kind]
  <2>1. here \in 1..Len(home)
    BY <1>3, LifeOf DEF WriteLine, DiskTypes
  <2>2. /\ written' = written + 1 /\ home' = home
        /\ data' = [data EXCEPT ![here] = Append(data[here], line)]
    BY <1>3, <2>1 DEF WriteLine, DiskTypes
  <2>3. data \in Seq(Seq(Line)) /\ Len(data) = Len(home) /\ DOMAIN data = 1..Len(home)
    BY DEF DiskTypes
  <2>4. data[here] \in Seq(Line) /\ Len(data[here]) \in Nat
    BY <2>1, LineSeqs
  <2>5. /\ Len(Append(data[here], line)) = Len(data[here]) + 1
        /\ Append(data[here], line)[Len(data[here]) + 1] = line
        /\ \A j \in 1..Len(data[here]) : Append(data[here], line)[j] = data[here][j]
    <3>. HIDE DEF here, line
    <3>. QED  BY <2>4
  <2>6. \A l \in 1..Len(home) :
          data'[l] = IF l = here THEN Append(data[here], line) ELSE data[l]
    BY <2>2, <2>3
  <2>7. line.id = written + 1
    OBVIOUS
  <2>8. ASSUME NEW l \in 1..Len(home'), NEW k \in 1..Len(data'[l])
        PROVE  OldLine(l, k) \/ (l = here /\ k = Len(data[here]) + 1 /\ NewLine(l, k))
    <3>1. CASE l # here
      BY <2>2, <2>6, <2>8, <3>1 DEF OldLine
    <3>2. CASE l = here
      <4>. HIDE DEF here, line
      <4>1. data'[l] = Append(data[here], line)
        BY <2>1, <2>6, <3>2
      <4>2. k \in 1..(Len(data[here]) + 1)
        BY <2>5, <2>8, <4>1
      <4>3. k \in 1..Len(data[here]) \/ k = Len(data[here]) + 1
        BY <2>4, <4>2
      <4>4. CASE k \in 1..Len(data[here])
        BY <2>1, <2>5, <3>2, <4>1, <4>4 DEF OldLine
      <4>5. CASE k = Len(data[here]) + 1
        BY <2>2, <2>5, <2>7, <3>2, <4>1, <4>5 DEF NewLine
      <4>. QED  BY <4>3, <4>4, <4>5
    <3>. QED  BY <3>1, <3>2
  <2>. HIDE DEF here, line
  <2>9. OnlyNewAt(here, Len(data[here]) + 1)
    BY <2>8 DEF OnlyNewAt
  <2>. QED  BY <2>2, <2>9
<1>4. CASE NodeStep
  <2>1. (written' = written \/ written' = written + 1) /\ \E m, j : OnlyNewAt(m, j)
    <3>1. PICK p \in Path : \/ NewFile(p) \/ Truncate(p) \/ RemoveFile(p)
                            \/ \E s \in Stream, k \in Kind : WriteLine(p, s, k)
      BY <1>4 DEF NodeStep
    <3>2. CASE NewFile(p)
      BY <1>2, <3>2 DEF NewFile
    <3>3. CASE Truncate(p)
      <4>1. names[p] \in Inode
        BY <3>3 DEF Truncate, DiskTypes
      <4>. QED  BY <1>2, <3>3, <4>1 DEF Truncate
    <3>4. CASE RemoveFile(p)
      <4>1. OnlyNewAt(0, 0)
        BY <3>4 DEF RemoveFile, OnlyNewAt, OldLine
      <4>. QED  BY <3>4, <4>1 DEF RemoveFile
    <3>5. CASE \E s \in Stream, k \in Kind : WriteLine(p, s, k)
      BY <1>3, <3>5
    <3>. QED  BY <3>1, <3>2, <3>3, <3>4, <3>5
  <2>. QED  BY <1>0, <2>1
<1>5. CASE TailerStep \/ SendEntry \/ ShipperStep \/ Cancel \/ Restart \/ UNCHANGED agentVars
  BY <1>1, <1>5 DEF TailerStep, SendEntry, ShipperStep, Cancel, Restart, agentVars
<1>. QED  BY <1>4, <1>5 DEF Next


LEMMA LinesNumberedStep ==
  ASSUME DiskTypes, LinesNumbered, [Next]_agentVars
  PROVE  LinesNumbered'
<1>1. written \in Nat /\ written' \in Nat /\ written <= written'
  BY DataStep
<1>2. PICK x, y : OnlyNewAt(x, y)
  BY DataStep
<1>3. \A l \in 1..Len(home) : \A k \in 1..Len(data[l]) : data[l][k].id \in Nat
  <2>1. \A l \in 1..Len(home) : \A k \in 1..Len(data[l]) : data[l][k] \in Line
    BY LineSeqs
  <2>. QED  BY <2>1, Constants DEF Line
<1>. SUFFICES ASSUME NEW l \in 1..Len(home'), NEW k \in 1..Len(data'[l]),
                     NEW m \in 1..Len(home'), NEW j \in 1..Len(data'[m])
              PROVE  /\ data'[l][k].id <= written'
                     /\ data'[l][k].id = data'[m][j].id => l = m /\ k = j
  BY DEF LinesNumbered
<1>4. OldLine(l, k) \/ (l = x /\ k = y /\ NewLine(l, k))
  BY <1>2 DEF OnlyNewAt
<1>5. OldLine(m, j) \/ (m = x /\ j = y /\ NewLine(m, j))
  BY <1>2 DEF OnlyNewAt
<1>6. OldLine(l, k) => data'[l][k].id <= written /\ data'[l][k].id \in Nat
  BY <1>3 DEF OldLine, LinesNumbered
<1>7. OldLine(m, j) => data'[m][j].id <= written /\ data'[m][j].id \in Nat
  BY <1>3 DEF OldLine, LinesNumbered
<1>8. OldLine(l, k) /\ OldLine(m, j) /\ data'[l][k].id = data'[m][j].id => l = m /\ k = j
  BY DEF OldLine, LinesNumbered
<1>9. NewLine(l, k) => data'[l][k].id = written'
  BY DEF NewLine
<1>10. NewLine(m, j) => data'[m][j].id = written'
  BY DEF NewLine
<1>11. written' = written + 1 \/ ~NewLine(l, k)
  BY DEF NewLine
<1>12. written' = written + 1 \/ ~NewLine(m, j)
  BY DEF NewLine
<1>. DEFINE a == data'[l][k].id
            b == data'[m][j].id
<1>. HIDE DEF a, b
<1>13. CASE OldLine(l, k) /\ OldLine(m, j)
  BY <1>1, <1>6, <1>8, <1>13 DEF a, b
<1>14. CASE OldLine(l, k) /\ m = x /\ j = y /\ NewLine(m, j)
  <2>0. written' = written + 1
    BY <1>12, <1>14
  <2>1. a <= written /\ a \in Nat /\ b = written + 1
    BY <1>6, <1>10, <1>12, <1>14 DEF a, b
  <2>2. a # b /\ a <= written'
    BY <1>1, <2>1, <2>0
  <2>. QED  BY <2>2 DEF a, b
<1>15. CASE l = x /\ k = y /\ NewLine(l, k) /\ OldLine(m, j)
  <2>0. written' = written + 1
    BY <1>11, <1>15
  <2>1. b <= written /\ b \in Nat /\ a = written + 1
    BY <1>7, <1>9, <1>11, <1>15 DEF a, b
  <2>2. a # b /\ a <= written'
    BY <1>1, <2>1, <2>0
  <2>. QED  BY <2>2 DEF a, b
<1>16. CASE l = x /\ k = y /\ NewLine(l, k) /\ m = x /\ j = y
  BY <1>1, <1>9, <1>16 DEF a, b
<1>. QED  BY <1>4, <1>5, <1>13, <1>14, <1>15, <1>16

\* Nothing gets a number by being read, sent or delivered.
LEMMA PendingStep ==
  ASSUME AgentTypes, [Next]_agentVars, NEW p \in Path
  PROVE  \/ Ids(files'[p].pending) \subseteq Ids(files[p].pending)
         \/ ReadLine /\ TailerStep /\ p = reading /\ tpc' # "send"
            /\ Ids(files'[p].pending) = Ids(files[p].pending) \cup {NextLine.id}
<1>1. files[p] \in FileState /\ files \in [Path -> FileState] /\ Ids(<<>>) = {} /\ NoState.pending = <<>>
  BY NoIds DEF AgentTypes, TailerTypes, NoState
<1>2. CASE files' = files
  BY <1>2
<1>3. CASE TailerStep /\ ReadLine
  <2>1. /\ UNCHANGED diskVars /\ tpc = "read" /\ Unread(reading) # <<>>
    BY <1>3 DEF TailerStep, ReadLine
  <2>2. /\ reading \in Path /\ Reader \in FileState /\ NextLine \in Line
        /\ Reader.pending = files[reading].pending
    BY <2>1, ReaderPlaced
  <2>3. Ids(Append(Reader.pending, NextLine)) = Ids(Reader.pending) \cup {NextLine.id}
    BY <2>2, IdsAppend DEF FileState
  <2>4. PICK pending \in {Reader.pending, Append(Reader.pending, NextLine), <<>>} :
          /\ files' = [files EXCEPT ![reading] = NextState(pending)]
          /\ tpc' = "send" => pending = <<>>
    <3>1. CASE tpc' = "send"
      BY <1>3, <2>1, <3>1, ReadMoves
    <3>2. CASE tpc' # "send"
      BY <1>3, <2>1, <3>2, ReadMoves
    <3>. QED  BY <3>1, <3>2
  <2>5. NextState(pending).pending = pending
    BY <2>1, NextPlaced
  <2>6. files'[p] = IF p = reading THEN NextState(pending) ELSE files[p]
    BY <1>1, <2>4
  <2>7. CASE pending = Append(Reader.pending, NextLine)
    <3>1. tpc' # "send"
      <4>1. Append(Reader.pending, NextLine) # <<>>
        BY <2>2, AppendProperties DEF FileState
      <4>. QED  BY <2>4, <2>7, <4>1
    <3>. QED  BY <1>3, <2>2, <2>3, <2>5, <2>6, <2>7, <3>1
  <2>8. CASE pending # Append(Reader.pending, NextLine)
    BY <1>1, <2>2, <2>4, <2>5, <2>6, <2>8
  <2>. QED  BY <2>7, <2>8
<1>4. CASE TailerStep /\ PollEnds
  BY <1>1, <1>4 DEF PollEnds
<1>5. CASE TailerStep /\ \E q \in Path : OpenFile(q)
  <2>1. PICK q \in Path : OpenFile(q)
    BY <1>5
  <2>2. files' = [files EXCEPT ![q] = Today(Current(q))]
    BY <2>1 DEF OpenFile
  <2>3. Today(Current(q)).pending = Current(q).pending
    <3>1. Current(q) \in FileState
      BY <2>1, CurrentPlaced DEF OpenFile
    <3>. QED  BY <3>1 DEF Today, FileState
  <2>4. Current(q).pending = <<>> \/ Current(q).pending = files[q].pending
    BY DEF Current, StartOver, Resume
  <2>. QED  BY <1>1, <2>2, <2>3, <2>4
<1>6. CASE Restart
  BY <1>1, <1>6 DEF Restart
<1>. QED  BY <1>2, <1>3, <1>4, <1>5, <1>6 DEF Next, NodeStep, TailerStep, SendEntry, ShipperStep,
            Cancel, agentVars, tailerVars, PollStarts, TailerStops, SendCancelled, EndOfFile, OpenFails


\* A call adds one to the count of lines in its batch and of no others.
LEMMA DeliverCopies ==
  ASSUME AgentTypes, NEW n \in 0..Len(batch), NEW D \in SUBSET (1..n), Deliver(n, D),
         NEW i \in 1..MaxLines
  PROVE  \/ copies'[i] = copies[i]
         \/ /\ copies'[i] = copies[i] + 1
            /\ \E k \in 1..Len(batch) : k \in 1..Len(Flow) /\ i \in Ids(Flow[k].message)
<1>. DEFINE kept == UNION {Ids(batch[k].message) : k \in (1..n) \ D}
<1>1. copies'[i] = IF i \in kept THEN copies[i] + 1 ELSE copies[i]
  BY DEF Deliver
<1>2. ASSUME i \in kept
      PROVE  \E k \in 1..Len(batch) : k \in 1..Len(Flow) /\ i \in Ids(Flow[k].message)
  <2>1. PICK k \in 1..n : i \in Ids(batch[k].message)
    BY <1>2
  <2>2. /\ Len(batch) \in Nat /\ Len(batch) <= Len(Flow) /\ Len(Flow) \in Nat
        /\ k \in 1..Len(batch) => Flow[k] = batch[k]
    BY BatchFlow, FlowIs
  <2>3. k \in 1..Len(batch) /\ k \in 1..Len(Flow)
    BY <2>2
  <2>. QED  BY <2>1, <2>2, <2>3
<1>. HIDE DEF kept
<1>. QED  BY <1>1, <1>2

LEMMA CopiesStep ==
  ASSUME AgentTypes, [Next]_agentVars, NEW i \in 1..MaxLines
  PROVE  \/ copies'[i] = copies[i]
         \/ /\ copies'[i] = copies[i] + 1 /\ ShipperStep
            /\ CallOk \/ CallBroken
            /\ \E k \in 1..Len(batch) : k \in 1..Len(Flow) /\ i \in Ids(Flow[k].message)
<1>1. Len(batch) \in Nat /\ DOMAIN batch = 1..Len(batch) /\ Sendable \in 0..Len(batch)
  BY SendableRange
<1>2. CASE ShipperStep /\ CallOk
  <2>1. PICK D \in SUBSET (1..Len(batch)) : Deliver(Len(batch), D)
    BY <1>1, <1>2 DEF CallOk
  <2>2. Len(batch) \in 0..Len(batch)
    BY <1>1
  <2>. QED  BY <1>2, <2>1, <2>2, DeliverCopies
<1>3. CASE ShipperStep /\ CallBroken
  <2>1. PICK n \in 0..Sendable : \E D \in SUBSET (1..n) : Deliver(n, D)
    BY <1>3 DEF CallBroken
  <2>2. n \in 0..Len(batch)
    BY <1>1
  <2>. QED  BY <1>3, <2>1, <2>2, DeliverCopies
<1>4. CASE copies' = copies
  BY <1>4
<1>. QED  BY <1>2, <1>3, <1>4 DEF Next, NodeStep, TailerStep, SendEntry, ShipperStep, Cancel, Restart,
            agentVars, serverVars, Receive, Tick, ChannelClosed, CallRefused, CallUnsendable, Retry,
            Abandon, Save, SaveFails

\* What is in hand after a step was written before it.
LEMMA HandsNumberedStep ==
  ASSUME AgentTypes, Numbered, [Next]_agentVars
  PROVE  /\ \A k \in 1..Len(Flow') : Ids(Flow'[k].message) \subseteq 1..written
         /\ \A p \in Path : Ids(files'[p].pending) \subseteq 1..written
         /\ \A i \in 1..MaxLines : copies'[i] > 0 => i <= written
         /\ HandsNumbered'
<1>1. written \in Nat /\ written' \in Nat /\ written <= written' /\ 1..written \subseteq 1..written'
  BY DataStep DEF AgentTypes
<1>2. HandsNumbered /\ LinesNumbered
  BY DEF Numbered
<1>3. ASSUME ReadLine, TailerStep
      PROVE  /\ {NextLine.id} \cup Ids(files[reading].pending) \subseteq 1..written
             /\ Ids(NextEntry.message) \subseteq 1..written
  <2>1. tpc = "read" /\ Unread(reading) # <<>>
    BY <1>3 DEF ReadLine
  <2>2. /\ reading \in Path /\ Reader \in FileState /\ Placed(Reader) /\ NextLine \in Line
        /\ Reader.offset < Len(data[Reader.life]) /\ Reader.pending = files[reading].pending
    BY <2>1, ReaderPlaced
  <2>3. Reader.life \in 1..Len(home) /\ Reader.offset + 1 \in 1..Len(data[Reader.life])
    BY <2>2, LineSeqs DEF Placed, PlacedIn, AgentTypes
  <2>4. NextLine.id \in 1..written
    <3>1. NextLine.id <= written
      BY <1>2, <2>3 DEF LinesNumbered, NextLine
    <3>2. NextLine.id \in 1..MaxLines
      BY <2>2 DEF Line
    <3>. QED  BY <1>1, <3>1, <3>2, Constants
  <2>5. Ids(NextEntry.message) = Ids(Reader.pending) \cup {NextLine.id}
    <3>1. NextEntry.message = Append(Reader.pending, NextLine)
      BY DEF NextEntry
    <3>. QED  BY <2>2, <3>1, IdsAppend DEF FileState
  <2>. QED  BY <1>2, <2>2, <2>4, <2>5 DEF HandsNumbered
<1>4. \A k \in 1..Len(Flow') : Ids(Flow'[k].message) \subseteq 1..written
  BY <1>1, <1>2, <1>3, EntryStep DEF HandsNumbered
<1>5. \A p \in Path : Ids(files'[p].pending) \subseteq 1..written
  <2>. SUFFICES ASSUME NEW p \in Path PROVE Ids(files'[p].pending) \subseteq 1..written
    OBVIOUS
  <2>1. Ids(files[p].pending) \subseteq 1..written
    BY <1>2 DEF HandsNumbered
  <2>. QED  BY <1>1, <1>3, <2>1, PendingStep
<1>6. \A i \in 1..MaxLines : copies'[i] > 0 => i <= written
  <2>. SUFFICES ASSUME NEW i \in 1..MaxLines, copies'[i] > 0 PROVE i <= written
    OBVIOUS
  <2>1. CASE copies'[i] = copies[i]
    BY <1>1, <1>2, <2>1, Constants DEF HandsNumbered
  <2>2. CASE \E k \in 1..Len(Flow) : i \in Ids(Flow[k].message)
    <3>1. PICK k \in 1..Len(Flow) : i \in Ids(Flow[k].message)
      BY <2>2
    <3>2. Ids(Flow[k].message) \subseteq 1..written
      BY <1>2, <3>1, Zenon DEF HandsNumbered
    <3>. QED  BY <1>1, <3>1, <3>2
  <2>. QED  BY <2>1, <2>2, CopiesStep
<1>7. HandsNumbered'
  <2>1. \A i \in 1..MaxLines : i <= written => i <= written'
    BY <1>1, Constants
  <2>. QED  BY <1>1, <1>4, <1>5, <1>6, <2>1 DEF HandsNumbered
<1>. QED  BY <1>4, <1>5, <1>6, <1>7


\* A file comes within a path's reach only when it is new.
LEMMA ReachStep ==
  ASSUME AgentTypes, Latest, [Next]_agentVars, NEW p \in Path, NEW l \in Reach(p)',
         l \in 1..Len(home), ~Restart
  PROVE  l \in Reach(p)
<1>0. /\ DiskTypes /\ DiskTypes' /\ Grown /\ home \in Seq(Inode) /\ home' \in Seq(Inode)
      /\ Len(home) \in Nat /\ p # NoPath
  BY DiskStep, LineSeqs, Constants DEF AgentTypes, DiskTypes
<1>1. ASSUME NEW j \in Range(home), l = LifeIn(home', j)
      PROVE  l = LifeIn(home, j)
  <2>1. /\ LifeIn(home, j) \in 1..Len(home) /\ home[LifeIn(home, j)] = j
        /\ \A m \in 1..Len(home) : home[m] = j => m <= LifeIn(home, j)
    BY <1>0, LifeInIs
  <2>2. Len(home) <= Len(home') /\ \A m \in 1..Len(home) : home'[m] = home[m] /\ m \in 1..Len(home')
    BY <1>0 DEF Grown
  <2>3. j \in Range(home')
    BY <1>0, <2>1, <2>2 DEF Range
  <2>4. home'[l] = j /\ \A m \in 1..Len(home') : home'[m] = j => m <= l
    BY <1>0, <1>1, <2>3, LifeInIs
  <2>5. home[l] = j /\ LifeIn(home, j) <= l
    BY <2>1, <2>2, <2>4
  <2>. QED  BY <1>0, <2>1, <2>5
<1>2. ASSUME names'[p] # 0, l = LifeIn(home', names'[p])
      PROVE  l \in Reach(p)
  <2>1. CASE names'[p] = names[p]
    <3>1. names[p] \in Range(home)
      BY <1>0, <1>2, <2>1, NamedLife
    <3>. QED  BY <1>1, <1>2, <2>1, <3>1 DEF Reach
  <2>2. CASE names'[p] # names[p]
    <3>1. PICK q \in Path : NewFile(q) \/ RemoveFile(q)
      BY <2>2 DEF Next, NodeStep, TailerStep, SendEntry, ShipperStep, Cancel, Restart, agentVars,
                  diskVars, Truncate, WriteLine
    <3>2. NewFile(q)
      BY <1>0, <1>2, <2>2, <3>1 DEF RemoveFile, DiskTypes
    <3>3. PICK i \in Inode : BeginLife(i) /\ names' = [names EXCEPT ![q] = i]
      BY <3>2 DEF NewFile
    <3>4. names'[p] = i
      BY <1>0, <2>2, <3>3 DEF DiskTypes
    <3>5. l = Len(home) + 1
      BY <1>0, <1>2, <3>3, <3>4, LifeInNew
    <3>. QED  BY <1>0, <3>5
  <2>. QED  BY <2>1, <2>2
<1>3. reading # NoPath => reading \in Path /\ files[reading].inode \in Range(home)
  <2>1. reading # NoPath => reading \in Path /\ Placed(files[reading])
    BY DEF AgentTypes, TailerTypes
  <2>. QED  BY <1>0, <2>1, PlacedInode
<1>4. ASSUME reading' = p, l \in {files'[p].life, LifeIn(home', files'[p].inode)}
      PROVE  l \in Reach(p)
  <2>1. CASE reading = p /\ files' = files
    BY <1>0, <1>1, <1>3, <1>4, <2>1 DEF Reach
  <2>2. CASE reading = p /\ TailerStep /\ ReadLine
    <3>1. UNCHANGED diskVars /\ tpc = "read" /\ Unread(reading) # <<>>
      BY <2>2 DEF TailerStep, ReadLine
    <3>2. PICK pending \in {Reader.pending, Append(Reader.pending, NextLine), <<>>} :
            files' = [files EXCEPT ![reading] = NextState(pending)]
      BY <2>2, <3>1, ReadMoves
    <3>3. /\ NextState(pending).inode = Reader.inode /\ NextState(pending).life = Reader.life
          /\ Reader.inode = files[reading].inode
      BY <3>1, NextPlaced, ReaderPlaced
    <3>4. files'[p] = NextState(pending)
      BY <2>2, <3>2 DEF AgentTypes, TailerTypes
    <3>5. Reader.life \in {files[p].life, LifeIn(home, files[p].inode)}
      <4>1. Life(files[reading].inode) = LifeIn(home, files[reading].inode)
        BY DEF Life, LifeIn
      <4>2. files[reading] \in FileState
        BY <1>3, <2>2 DEF AgentTypes, TailerTypes
      <4>3. Today(files[reading]).life = Life(files[reading].inode)
        BY <4>2 DEF Today, FileState
      <4>. QED  BY <2>2, <4>1, <4>3 DEF Reader
    <3>6. home' = home
      BY <3>1 DEF diskVars
    <3>. QED  BY <1>4, <2>2, <3>3, <3>4, <3>5, <3>6 DEF Reach
  <2>3. CASE TailerStep /\ OpenFile(p)
    <3>1. /\ names[p] # 0 /\ files' = [files EXCEPT ![p] = Today(Current(p))] /\ home' = home
      BY <2>3 DEF OpenFile, TailerStep, diskVars
    <3>2. files'[p] = Today(Current(p))
      BY <3>1 DEF AgentTypes, TailerTypes
    <3>3. files'[p].inode = names[p] /\ files'[p].life = Life(names[p])
      BY <3>1, <3>2, CurrentInOrder
    <3>4. Life(names[p]) = LifeIn(home, names[p])
      BY DEF Life, LifeIn
    <3>. QED  BY <1>4, <3>1, <3>3, <3>4 DEF Reach
  <2>4. ASSUME NEW q \in Path, TailerStep, OpenFile(q), q # p
        PROVE  FALSE
    BY <1>0, <1>4, <2>4 DEF OpenFile, AgentTypes, TailerTypes
  <2>5. CASE TailerStep /\ ~ReadLine /\ ~(\E q \in Path : OpenFile(q))
    <3>1. reading = p
      BY <1>0, <1>4, <2>5 DEF TailerStep, PollStarts, PollEnds, TailerStops, SendCancelled, EndOfFile,
              OpenFails
    <3>2. ~PollEnds
      BY <1>0, <3>1 DEF PollEnds, AgentTypes, TailerTypes
    <3>3. files' = files
      BY <2>5, <3>2 DEF TailerStep, PollStarts, TailerStops, SendCancelled, EndOfFile, OpenFails
    <3>. QED  BY <2>1, <3>1, <3>3
  <2>6. CASE NodeStep \/ SendEntry \/ ShipperStep \/ Cancel \/ UNCHANGED agentVars
    <3>1. reading' = reading /\ files' = files
      BY <2>6 DEF NodeStep, SendEntry, ShipperStep, Cancel, agentVars, tailerVars
    <3>. QED  BY <1>4, <2>1, <3>1
  <2>7. TailerStep /\ ReadLine => reading' = reading
    BY DEF ReadLine
  <2>. QED  BY <1>4, <2>2, <2>3, <2>4, <2>5, <2>6, <2>7 DEF Next
<1>5. \/ names'[p] # 0 /\ l = LifeIn(home', names'[p])
      \/ reading' = p /\ l \in {files'[p].life, LifeIn(home', files'[p].inode)}
  BY DEF Reach
<1>. QED  BY <1>2, <1>4, <1>5


\* What is still to be read was so before, unless Glob has missed a file.
LEMMA AheadStep ==
  ASSUME AgentTypes, Latest, [Next]_agentVars, NEW p \in Path, NEW l \in Reach(p)', NEW k \in Nat,
         l \in Nat, Ahead(p, l, k)', ~Restart, unlisted' = unlisted
  PROVE  Ahead(p, l, k)
<1>1. /\ seen \subseteq Path /\ files \in [Path -> FileState] /\ p # NoPath
      /\ tpc \in {"read", "send"} <=> reading # NoPath
      /\ todo \subseteq seen /\ reading \in seen \cup {NoPath}
  BY Constants DEF AgentTypes, TailerTypes
<1>2. CASE UNCHANGED <<files, seen>> /\ (tpc' \in {"idle", "stopped"} \/ tpc \in {"scan", "read", "send"})
  BY <1>2 DEF Ahead, Missing
<1>3. CASE TailerStep /\ PollStarts
  <2>1. /\ tpc = "idle" /\ files' = files /\ reading' = reading /\ reading = NoPath /\ names' = names
        /\ seen' = {q \in Path : names[q] # 0}
    <3>1. unlisted \in Nat /\ unlisted' # unlisted + 1
      BY DEF AgentTypes, TailerTypes
    <3>. QED  BY <1>1, <1>3, <3>1 DEF TailerStep, diskVars, PollStarts
  <2>2. names[p] # 0
    BY <1>1, <2>1 DEF Reach
  <2>3. p \in seen'
    BY <2>1, <2>2
  <2>. QED  BY <2>1, <2>3 DEF Ahead, Missing
<1>4. CASE TailerStep /\ PollEnds
  <2>1. /\ tpc = "scan" /\ tpc' = "idle" /\ files'[p] = IF p \in seen THEN files[p] ELSE NoState
    BY <1>4 DEF PollEnds
  <2>. QED  BY <2>1 DEF Ahead, Missing
<1>5. ASSUME NEW q \in Path, TailerStep, OpenFile(q)
      PROVE  Ahead(p, l, k)
  <2>1. /\ files' = [files EXCEPT ![q] = Today(Current(q))] /\ seen' = seen /\ tpc = "scan"
        /\ names[q] # 0 /\ q \in seen
    BY <1>1, <1>5 DEF OpenFile
  <2>2. CASE p # q
    <3>1. files'[p] = files[p]
      BY <1>1, <2>1, <2>2
    <3>. QED  BY <2>1, <3>1 DEF Ahead, Missing
  <2>3. CASE p = q
    <3>. DEFINE st == Today(Current(p))
    <3>1. /\ files'[p] = st /\ p \in seen'
      BY <1>1, <2>1, <2>3
    <3>2. /\ st.life \in Nat /\ st.offset \in Nat /\ st # NoState
          /\ files[p] # NoState => Before(files[p], st)
      BY <2>1, <2>3, CurrentInOrder
    <3>3. files[p].life \in Nat /\ files[p].offset \in Nat
      BY Counted
    <3>. HIDE DEF st
    <3>4. st.life < l \/ (st.life = l /\ st.offset < k)
      BY <3>1, <3>2 DEF Ahead, Missing
    <3>. QED  BY <3>2, <3>3, <3>4 DEF Ahead, Before
  <2>. QED  BY <2>2, <2>3
<1>6. CASE TailerStep /\ ReadLine
  <2>1. /\ UNCHANGED diskVars /\ tpc = "read" /\ Unread(reading) # <<>> /\ UNCHANGED <<seen, reading>>
    BY <1>6 DEF TailerStep, ReadLine
  <2>2. PICK pending \in {Reader.pending, Append(Reader.pending, NextLine), <<>>} :
          files' = [files EXCEPT ![reading] = NextState(pending)]
    BY <1>6, <2>1, ReadMoves
  <2>3. CASE p # reading
    <3>1. files'[p] = files[p]
      BY <1>1, <2>2, <2>3
    <3>. QED  BY <2>1, <3>1 DEF Ahead, Missing
  <2>4. CASE p = reading
    <3>1. files'[p] = NextState(pending) /\ p \in seen'
      BY <1>1, <2>1, <2>2, <2>4
    <3>2. /\ NextState(pending) # NoState /\ NextState(pending).life = Reader.life
          /\ NextState(pending).offset = files[p].offset + 1
          /\ files[p].life <= Reader.life /\ Reader.life \in Nat
      <4>1. files[p].life <= Reader.life /\ Reader \in FileState /\ Reader.offset = files[p].offset
        BY <2>1, <2>4, ReaderReached, ReaderPlaced
      <4>2. Reader.life \in Nat
        BY <4>1, Constants DEF FileState
      <4>. QED  BY <2>1, <4>1, <4>2, NextPlaced
    <3>3. files[p].life \in Nat /\ files[p].offset \in Nat
      BY Counted
    <3>4. Reader.life < l \/ (Reader.life = l /\ files[p].offset + 1 < k)
      BY <3>1, <3>2 DEF Ahead, Missing
    <3>. QED  BY <3>2, <3>3, <3>4 DEF Ahead
  <2>. QED  BY <2>3, <2>4
<1>7. CASE TailerStep /\ (TailerStops \/ SendCancelled \/ EndOfFile \/ \E q \in Path : OpenFails(q))
  BY <1>2, <1>7 DEF TailerStops, SendCancelled, EndOfFile, OpenFails
<1>8. CASE SendEntry
  BY <1>2, <1>8 DEF SendEntry
<1>9. CASE NodeStep \/ ShipperStep \/ Cancel \/ UNCHANGED agentVars
  <2>1. UNCHANGED <<files, seen, tpc>>
    BY <1>9 DEF NodeStep, ShipperStep, Cancel, agentVars, tailerVars
  <2>. QED  BY <2>1 DEF Ahead, Missing
<1>. QED  BY <1>3, <1>4, <1>5, <1>6, <1>7, <1>8, <1>9 DEF Next, TailerStep

\* A line written before is only readable if it was.
LEMMA ReadableStep ==
  ASSUME AgentTypes, Latest, [Next]_agentVars, NEW i \in 1..MaxLines, i <= written, Readable(i)',
         ~Restart, unlisted' = unlisted
  PROVE  Readable(i)
<1>1. PICK p \in Path : \E l \in Reach(p)' : \E k \in 1..Len(data'[l]) :
        data'[l][k].id = i /\ Ahead(p, l, k)'
  BY DEF Readable
<1>2. PICK l \in Reach(p)' : \E k \in 1..Len(data'[l]) : data'[l][k].id = i /\ Ahead(p, l, k)'
  BY <1>1
<1>3. PICK k \in 1..Len(data'[l]) : data'[l][k].id = i /\ Ahead(p, l, k)'
  BY <1>2
<1>4. l \in 1..Len(home')
  <2>1. /\ home' \in Seq(Inode) /\ (names'[p] # 0 => names'[p] \in Range(home'))
        /\ reading' = p => PlacedIn(home', data', files'[p])
    BY TypeStep, Constants DEF AgentTypes, DiskTypes, TailerTypes, Placed
  <2>2. ASSUME reading' = p
        PROVE  files'[p].life \in 1..Len(home') /\ files'[p].inode \in Range(home')
    BY <2>1, <2>2 DEF PlacedIn, Range
  <2>. QED  BY <2>1, <2>2, LifeInIs DEF Reach
<1>5. OldLine(l, k)
  <2>1. written \in Nat /\ i \in Nat /\ (OldLine(l, k) \/ NewLine(l, k))
    BY <1>4, DataStep, Constants DEF OnlyNewAt, AgentTypes
  <2>. QED  BY <1>3, <2>1 DEF NewLine
<1>6. /\ l \in 1..Len(home) /\ k \in 1..Len(data[l]) /\ data[l][k].id = i /\ l \in Nat /\ k \in Nat
  BY <1>3, <1>5 DEF OldLine
<1>7. l \in Reach(p) /\ Ahead(p, l, k)
  BY <1>3, <1>6, ReachStep, AheadStep
<1>. QED  BY <1>6, <1>7 DEF Readable

\* The line being read was readable, and is not any more.
LEMMA ReadOnce ==
  ASSUME AgentTypes, Latest, LinesNumbered, [Next]_agentVars, TailerStep, ReadLine,
         NEW i \in 1..MaxLines, i = NextLine.id
  PROVE  Readable(i) /\ ~Readable(i)'
<1>1. /\ UNCHANGED diskVars /\ tpc = "read" /\ Unread(reading) # <<>> /\ UNCHANGED <<seen, reading>>
  BY DEF TailerStep, ReadLine
<1>2. /\ reading \in Path /\ reading \in seen /\ Reader \in FileState /\ Placed(Reader)
      /\ Reader.offset < Len(data[Reader.life]) /\ NextLine \in Line
      /\ Reader.inode = files[reading].inode /\ Reader.offset = files[reading].offset
      /\ files[reading] \in FileState /\ Placed(files[reading])
  BY <1>1, ReaderPlaced DEF AgentTypes, TailerTypes
<1>3. /\ Reader.life \in 1..Len(home) /\ Reader.offset + 1 \in 1..Len(data[Reader.life])
      /\ home[Reader.life] = files[reading].inode /\ Reader.life \in Nat /\ Reader.offset \in Nat
      /\ files[reading].life \in Nat /\ files[reading].life <= Reader.life
  BY <1>1, <1>2, ReaderReached, LineSeqs, Constants DEF Placed, PlacedIn, AgentTypes, FileState
<1>4. Reader.life \in {files[reading].life, LifeIn(home, files[reading].inode)}
  <2>1. Today(files[reading]).life = Life(files[reading].inode)
    BY <1>2 DEF Today, FileState
  <2>2. Life(files[reading].inode) = LifeIn(home, files[reading].inode)
    BY DEF Life, LifeIn
  <2>. QED  BY <2>1, <2>2 DEF Reader
<1>5. Readable(i)
  <2>1. Reader.life \in Reach(reading)
    BY <1>4 DEF Reach
  <2>2. Ahead(reading, Reader.life, Reader.offset + 1)
    BY <1>2, <1>3 DEF Ahead
  <2>. QED  BY <1>2, <1>3, <2>1, <2>2 DEF Readable, NextLine
<1>6. PICK pending \in {Reader.pending, Append(Reader.pending, NextLine), <<>>} :
        files' = [files EXCEPT ![reading] = NextState(pending)]
  BY <1>1, ReadMoves
<1>7. /\ files'[reading] = NextState(pending) /\ NextState(pending) # NoState
      /\ NextState(pending).life = Reader.life /\ NextState(pending).offset = Reader.offset + 1
  BY <1>1, <1>2, <1>6, NextPlaced DEF AgentTypes, TailerTypes
<1>8. ASSUME NEW p \in Path, NEW l \in Reach(p)', NEW k \in 1..Len(data'[l]),
             data'[l][k].id = i, Ahead(p, l, k)'
      PROVE  FALSE
  <2>1. /\ data' = data /\ home' = home /\ names' = names /\ reading' = reading /\ seen' = seen
    BY <1>1 DEF diskVars
  <2>2. l = Reader.life /\ k = Reader.offset + 1
    <3>1. l \in 1..Len(home)
      <4>1. Placed(files'[reading])
        BY <1>1, <1>7, NextPlaced
      <4>2. files'[reading].life \in 1..Len(home) /\ files'[reading].inode \in Range(home)
        BY <4>1, PlacedInode DEF Placed, PlacedIn, AgentTypes
      <4>3. names[p] # 0 => LifeIn(home, names[p]) \in 1..Len(home)
        BY NamedLife DEF AgentTypes
      <4>. QED  BY <2>1, <4>2, <4>3, LifeInIs DEF Reach, AgentTypes, DiskTypes
    <3>2. k \in 1..Len(data[l]) /\ data[l][k].id = i
      BY <1>8, <2>1
    <3>3. data[Reader.life][Reader.offset + 1].id = i
      BY DEF NextLine
    <3>4. \A m \in 1..Len(home) : \A j \in 1..Len(data[m]) :
            data[l][k].id = data[m][j].id => l = m /\ k = j
      BY <3>1, <3>2, Zenon DEF LinesNumbered
    <3>5. data[l][k].id = data[Reader.life][Reader.offset + 1].id
      BY <3>2, <3>3
    <3>. QED  BY <1>3, <3>4, <3>5, Zenon
  <2>3. CASE p = reading
    BY <1>2, <1>3, <1>7, <1>8, <2>1, <2>2, <2>3 DEF Ahead, Missing
  <2>4. CASE p # reading
    <3>1. names[p] # 0 /\ Reader.life = LifeIn(home, names[p])
      BY <2>1, <2>2, <2>4 DEF Reach
    <3>2. names[p] = files[reading].inode
      <4>1. home[LifeIn(home, names[p])] = names[p]
        BY <3>1, NamedLife, LifeInIs DEF AgentTypes, DiskTypes
      <4>. QED  BY <1>3, <3>1, <4>1
    <3>3. names[p] \in Range(names)
      BY DEF Range, AgentTypes, DiskTypes
    <3>. QED  BY <1>2, <2>4, <3>1, <3>2, <3>3, Constants DEF Latest, OpenName, OneName
  <2>. QED  BY <2>3, <2>4
<1>. QED  BY <1>5, <1>8 DEF Readable


\* Counting: a part of a finite set, and one that is moved into it.
LEMMA PartOf ==
  ASSUME NEW T, IsFiniteSet(T), NEW S, S \subseteq T
  PROVE  /\ IsFiniteSet(S) /\ Cardinality(S) \in Nat /\ Cardinality(T) \in Nat
         /\ Cardinality(S) <= Cardinality(T)
BY FS_Subset, FS_CardinalityType

LEMMA PartButOne ==
  ASSUME NEW T, IsFiniteSet(T), NEW x \in T, NEW S, S \subseteq T \ {x}
  PROVE  /\ IsFiniteSet(S) /\ Cardinality(S) \in Nat /\ Cardinality(T) \in Nat
         /\ Cardinality(S) + 1 <= Cardinality(T)
<1>1. IsFiniteSet(T \ {x}) /\ Cardinality(T \ {x}) = Cardinality(T) - 1
  BY FS_RemoveElement
<1>2. /\ IsFiniteSet(S) /\ Cardinality(S) \in Nat /\ Cardinality(S) <= Cardinality(T \ {x})
  BY <1>1, PartOf
<1>. QED  BY <1>1, <1>2, FS_CardinalityType

LEMMA PartAndOne ==
  ASSUME NEW T, IsFiniteSet(T), NEW x, NEW S, S \subseteq T \cup {x}
  PROVE  /\ IsFiniteSet(S) /\ Cardinality(S) \in Nat /\ Cardinality(T) \in Nat
         /\ Cardinality(S) <= Cardinality(T) + 1
<1>1. /\ IsFiniteSet(T \cup {x}) /\ Cardinality(T) \in Nat
      /\ Cardinality(T \cup {x}) \in {Cardinality(T), Cardinality(T) + 1}
  BY FS_AddElement, FS_CardinalityType
<1>2. /\ IsFiniteSet(S) /\ Cardinality(S) \in Nat /\ Cardinality(S) <= Cardinality(T \cup {x})
  BY <1>1, PartOf
<1>. QED  BY <1>1, <1>2

LEMMA ShiftedInto ==
  ASSUME NEW T, IsFiniteSet(T), NEW n \in Nat, NEW S \in SUBSET Nat, \A k \in S : n + k \in T
  PROVE  /\ IsFiniteSet(S) /\ Cardinality(S) \in Nat /\ Cardinality(T) \in Nat
         /\ Cardinality(S) <= Cardinality(T)
<1>. DEFINE f == [k \in S |-> n + k]
<1>1. f \in [S -> T] /\ \A j, k \in S : f[j] = f[k] => j = k
  OBVIOUS
<1>2. f \in Injection(S, T)
  BY <1>1 DEF Injection, IsInjective
<1>. QED  BY <1>2, FS_Injection, FS_CardinalityType

LEMMA QueuedIs ==
  ASSUME AgentTypes, NEW i
  PROVE  /\ IsFiniteSet(Queued(i)) /\ Queued(i) \subseteq Nat /\ Sent \in Nat
         /\ Len(Flow) \in Nat
<1>1. Len(Flow) \in Nat
  BY FlowIs
<1>2. IsFiniteSet(1..Len(Flow)) /\ 1..Len(Flow) \subseteq Nat
  BY <1>1, FS_Interval
<1>3. Queued(i) \subseteq 1..Len(Flow)
  BY DEF Queued
<1>4. Sent \in Nat
  BY BatchFlow DEF Sent
<1>. QED  BY <1>1, <1>2, <1>3, <1>4, PartOf

\* A step that hands out nothing more.
LEMMA FewerOwed ==
  ASSUME AgentTypes, NEW i, IsFiniteSet(Holding(i)), Queued(i)' \subseteq Queued(i),
         Holding(i)' \subseteq Holding(i), Readable(i)' => Readable(i)
  PROVE  /\ IsFiniteSet(Holding(i)') /\ Owed(i)' \in Nat /\ Owed(i) \in Nat
         /\ Owed(i)' <= Owed(i)
<1>1. /\ Cardinality(Queued(i)') \in Nat /\ Cardinality(Queued(i)) \in Nat
      /\ Cardinality(Queued(i)') <= Cardinality(Queued(i))
  BY QueuedIs, PartOf
<1>2. /\ Cardinality(Holding(i)') \in Nat /\ Cardinality(Holding(i)) \in Nat
      /\ Cardinality(Holding(i)') <= Cardinality(Holding(i)) /\ IsFiniteSet(Holding(i)')
  BY PartOf
<1>. QED  BY <1>1, <1>2 DEF Owed

\* Counters do not go back.
LEMMA TimesStep ==
  ASSUME AgentTypes, [Next]_agentVars
  PROVE  /\ Times \in Nat /\ Times >= 1 /\ Times' \in Nat /\ Times' >= Times
         /\ Restart => Times' = Times + 1
         /\ ShipperStep /\ CallBroken => Times' = Times + 1
         /\ TailerStep /\ unlisted' # unlisted => Times' = Times + 1
<1>1. {faults, restarts, unlisted} \subseteq Nat
  BY DEF AgentTypes, TailerTypes, ShipperTypes
<1>2. \/ UNCHANGED <<faults, restarts, unlisted>>
      \/ Restart /\ restarts' = restarts + 1 /\ UNCHANGED <<faults, unlisted>>
      \/ ShipperStep /\ faults' = faults + 1 /\ UNCHANGED <<restarts, unlisted>>
      \/ TailerStep /\ unlisted' = unlisted + 1 /\ UNCHANGED <<restarts, faults>>
  BY DEF Next, NodeStep, TailerStep, SendEntry, ShipperStep, Cancel, Restart, agentVars, tailerVars,
         serverVars, PollStarts, PollEnds, TailerStops, SendCancelled, EndOfFile, OpenFails, OpenFile,
         ReadLine, Receive, Tick, ChannelClosed, CallOk, CallBroken, CallRefused, CallUnsendable,
         Retry, Abandon, Save, SaveFails
<1>3. /\ Restart => restarts' = restarts + 1 /\ UNCHANGED <<faults, unlisted>>
      /\ ShipperStep /\ CallBroken => faults' = faults + 1 /\ UNCHANGED <<restarts, unlisted>>
  BY DEF Restart, ShipperStep, CallBroken, serverVars, tailerVars
<1>4. ASSUME TailerStep, unlisted' # unlisted
      PROVE  unlisted' = unlisted + 1 /\ UNCHANGED <<restarts, faults>>
  BY <1>4 DEF TailerStep, serverVars, PollStarts, PollEnds, TailerStops, SendCancelled, EndOfFile,
              OpenFails, OpenFile, ReadLine
<1>. QED  BY <1>1, <1>2, <1>3, <1>4 DEF Times


\* A line not written yet.
LEMMA UnwrittenWithin ==
  ASSUME AgentTypes, Numbered, [Next]_agentVars, NEW i \in 1..MaxLines, ~(i <= written)
  PROVE  Within(i)'
<1>1. /\ i \notin 1..written /\ i \in Nat
  BY Constants DEF AgentTypes, DiskTypes
<1>2. Queued(i)' = {} /\ Holding(i)' = {}
  BY <1>1, HandsNumberedStep DEF Queued, Holding
<1>3. copies'[i] = 0
  <2>1. copies' \in [1..MaxLines -> Nat]
    BY TypeStep DEF AgentTypes, ShipperTypes
  <2>. QED  BY <2>1, HandsNumberedStep
<1>4. Owed(i)' <= 1 /\ Owed(i)' \in Nat
  BY <1>2, FS_EmptySet DEF Owed
<1>. QED  BY <1>2, <1>3, <1>4, TimesStep, FS_EmptySet DEF Within

LEMMA RestartWithin ==
  ASSUME AgentTypes, [Next]_agentVars, Restart, NEW i \in 1..MaxLines, Within(i)
  PROVE  Within(i)'
<1>1. Flow' = <<>> /\ copies' = copies /\ copies[i] \in Nat
  <2>1. <<>> \in Seq(Entry)
    OBVIOUS
  <2>. QED  BY <2>1, ConcatEmptySeq DEF Restart, Flow, serverVars, AgentTypes, ShipperTypes
<1>2. Queued(i)' = {}
  BY <1>1 DEF Queued
<1>3. Holding(i)' = {}
  BY NoIds DEF Holding, Restart, NoState
<1>4. Owed(i)' <= 1 /\ Owed(i)' \in Nat
  BY <1>2, <1>3, FS_EmptySet DEF Owed
<1>5. Owed(i) \in Nat /\ copies[i] <= Times
  <2>1. Owed(i) \in Nat
    BY QueuedIs, FS_CardinalityType DEF Owed, Within
  <2>. QED  BY <1>1, <2>1, TimesStep DEF Within
<1>. QED  BY <1>1, <1>3, <1>4, <1>5, TimesStep, FS_EmptySet DEF Within

\* The batch leaves the flow.
LEMMA DroppingWithin ==
  ASSUME AgentTypes, Latest, [Next]_agentVars, ShipperStep, Dropping, ~Restart,
         NEW i \in 1..MaxLines, i <= written, Within(i)
  PROVE  Within(i)'
<1>1. /\ UNCHANGED <<files, ch, out, copies, unlisted>> /\ FlushEnds /\ spc' # "save"
  BY DEF ShipperStep, Dropping, Abandon, Save, SaveFails, FlushEnds, tailerVars, serverVars
<1>2. /\ Len(Flow) = Len(batch) + Len(Flow') /\ Len(batch) \in Nat /\ Len(Flow') \in Nat
      /\ \A k \in 1..Len(Flow') : Flow'[k] = Flow[Len(batch) + k]
  BY <1>1, FlushFlow
<1>3. Sent' = 0 /\ Sent \in Nat /\ Sent <= Len(batch)
  BY <1>1, <1>2 DEF Sent
<1>4. \A k \in Queued(i)' : k \in Nat /\ Len(batch) + k \in Queued(i)
  <2>. SUFFICES ASSUME NEW k \in Queued(i)'
                PROVE  k \in Nat /\ Len(batch) + k \in Queued(i)
    OBVIOUS
  <2>1. k \in 1..Len(Flow') /\ i \in Ids(Flow'[k].message)
    BY DEF Queued
  <2>2. Len(batch) + k \in 1..Len(Flow) /\ Len(batch) + k > Sent /\ k \in Nat
    BY <1>2, <1>3, <2>1
  <2>. QED  BY <1>2, <2>1, <2>2 DEF Queued
<1>5. /\ Cardinality(Queued(i)') \in Nat /\ Cardinality(Queued(i)) \in Nat
      /\ Cardinality(Queued(i)') <= Cardinality(Queued(i))
  BY <1>2, <1>4, QueuedIs, ShiftedInto
<1>6. Holding(i)' = Holding(i) /\ Cardinality(Holding(i)) \in Nat
  BY <1>1, FS_CardinalityType DEF Holding, Within
<1>7. Readable(i)' => Readable(i)
  BY <1>1, ReadableStep
<1>8. Owed(i)' \in Nat /\ Owed(i) \in Nat /\ Owed(i)' <= Owed(i)
  BY <1>5, <1>6, <1>7 DEF Owed
<1>9. copies[i] \in Nat
  BY DEF AgentTypes, ShipperTypes
<1>. QED  BY <1>1, <1>6, <1>8, <1>9, TimesStep DEF Within

\* A good call delivers the batch, and its lines are not waiting for it any more.
LEMMA CallOkWithin ==
  ASSUME AgentTypes, Latest, [Next]_agentVars, ShipperStep, CallOk, ~Restart,
         NEW i \in 1..MaxLines, i <= written, Within(i)
  PROVE  Within(i)'
<1>1. /\ UNCHANGED <<files, ch, out, batch, unlisted>> /\ spc = "call" /\ spc' = "save"
  BY DEF ShipperStep, CallOk, tailerVars
<1>2. Flow' = Flow /\ Sent = 0 /\ Sent' = Len(batch) /\ Len(batch) \in Nat
  BY <1>1, BatchFlow DEF Flow, Sent
<1>3. Holding(i)' = Holding(i) /\ Cardinality(Holding(i)) \in Nat
  BY <1>1, FS_CardinalityType DEF Holding, Within
<1>4. Readable(i)' => Readable(i)
  BY <1>1, ReadableStep
<1>5. Queued(i)' \subseteq Queued(i)
  BY <1>2 DEF Queued
<1>6. copies[i] \in Nat
  BY DEF AgentTypes, ShipperTypes
<1>7. CASE copies'[i] = copies[i]
  <2>1. IsFiniteSet(Holding(i)') /\ Owed(i)' \in Nat /\ Owed(i) \in Nat /\ Owed(i)' <= Owed(i)
    BY <1>3, <1>4, <1>5, FewerOwed DEF Within
  <2>. QED  BY <1>6, <1>7, <2>1, TimesStep DEF Within
<1>8. CASE /\ copies'[i] = copies[i] + 1
           /\ \E k \in 1..Len(batch) : k \in 1..Len(Flow) /\ i \in Ids(Flow[k].message)
  <2>1. PICK k \in 1..Len(batch) : k \in 1..Len(Flow) /\ i \in Ids(Flow[k].message)
    BY <1>8
  <2>2. k \in Queued(i) /\ k \notin Queued(i)'
    BY <1>2, <2>1 DEF Queued
  <2>3. Queued(i)' \subseteq Queued(i) \ {k}
    BY <1>5, <2>2
  <2>4. /\ Cardinality(Queued(i)') \in Nat /\ Cardinality(Queued(i)) \in Nat
        /\ Cardinality(Queued(i)') + 1 <= Cardinality(Queued(i))
    BY <2>2, <2>3, QueuedIs, PartButOne
  <2>5. Owed(i)' \in Nat /\ Owed(i) \in Nat /\ Owed(i)' + 1 <= Owed(i)
    BY <1>3, <1>4, <2>4 DEF Owed
  <2>. QED  BY <1>3, <1>6, <1>8, <2>5, TimesStep DEF Within
<1>. QED  BY <1>7, <1>8, CopiesStep

\* A call that fails may have delivered the batch and leaves it to be sent again.
LEMMA CallBrokenWithin ==
  ASSUME AgentTypes, Latest, [Next]_agentVars, ShipperStep, CallBroken, ~Restart,
         NEW i \in 1..MaxLines, i <= written, Within(i)
  PROVE  Within(i)'
<1>1. /\ UNCHANGED <<files, ch, out, batch, unlisted>> /\ spc = "call" /\ spc' # "save"
  BY DEF ShipperStep, CallBroken, CallFailed, tailerVars
<1>2. Flow' = Flow /\ Sent' = Sent
  BY <1>1 DEF Flow, Sent
<1>3. Queued(i)' = Queued(i) /\ Holding(i)' = Holding(i)
  BY <1>1, <1>2 DEF Queued, Holding
<1>4. Readable(i)' => Readable(i)
  BY <1>1, ReadableStep
<1>5. IsFiniteSet(Holding(i)') /\ Owed(i)' \in Nat /\ Owed(i) \in Nat /\ Owed(i)' <= Owed(i)
  BY <1>3, <1>4, FewerOwed DEF Within
<1>6. copies[i] \in Nat /\ copies'[i] \in {copies[i], copies[i] + 1}
  BY CopiesStep DEF AgentTypes, ShipperTypes
<1>. QED  BY <1>5, <1>6, TimesStep DEF Within


\* A line that is read moves from the file to the tailer's hands or into the flow, with
\* the chunks in hand, or is skipped.
LEMMA ReadLineWithin ==
  ASSUME AgentTypes, Latest, Numbered, [Next]_agentVars, TailerStep, ReadLine, ~Restart,
         NEW i \in 1..MaxLines, i <= written, Within(i)
  PROVE  Within(i)'
<1>1. /\ UNCHANGED diskVars /\ UNCHANGED <<ch, batch, spc, copies, unlisted, reading>>
      /\ tpc = "read" /\ Unread(reading) # <<>>
  BY DEF TailerStep, ReadLine, shipperVars, serverVars
<1>2. /\ reading \in Path /\ Reader \in FileState /\ NextLine \in Line /\ Sent' = Sent
      /\ Reader.pending = files[reading].pending /\ files \in [Path -> FileState]
  BY <1>1, ReaderPlaced DEF AgentTypes, TailerTypes, Sent
<1>3. /\ IsFiniteSet(Holding(i)) /\ Cardinality(Holding(i)) \in Nat
      /\ IsFiniteSet(Queued(i)) /\ Cardinality(Queued(i)) \in Nat /\ copies[i] \in Nat
      /\ copies[i] + Owed(i) <= Times
  BY QueuedIs, FS_CardinalityType DEF Within, AgentTypes, ShipperTypes
<1>4. Readable(i)' => Readable(i)
  BY <1>1, ReadableStep
<1>5. i = NextLine.id => Readable(i) /\ ~Readable(i)'
  BY ReadOnce DEF Numbered
<1>6. \A p \in Path : p # reading => files'[p] = files[p]
  BY <1>1, <1>2, ReadMoves
<1>7. CASE tpc' # "send"
  <2>1. Flow' = Flow
    BY <1>1, <1>7, ReadMoves DEF Flow
  <2>2. Queued(i)' = Queued(i)
    BY <1>2, <2>1 DEF Queued
  <2>3. CASE i # NextLine.id
    <3>1. Holding(i)' \subseteq Holding(i)
      BY <1>2, <2>3, PendingStep DEF Holding
    <3>2. IsFiniteSet(Holding(i)') /\ Owed(i)' \in Nat /\ Owed(i) \in Nat /\ Owed(i)' <= Owed(i)
      BY <1>3, <1>4, <2>2, <3>1, FewerOwed
    <3>. QED  BY <1>1, <1>3, <3>2, TimesStep DEF Within
  <2>4. CASE i = NextLine.id
    <3>1. Holding(i)' \subseteq Holding(i) \cup {reading}
      BY <1>2, <1>6 DEF Holding
    <3>2. /\ IsFiniteSet(Holding(i)') /\ Cardinality(Holding(i)') \in Nat
          /\ Cardinality(Holding(i)') <= Cardinality(Holding(i)) + 1
      BY <1>3, <3>1, PartAndOne
    <3>3. Owed(i)' \in Nat /\ Owed(i) \in Nat /\ Owed(i)' <= Owed(i)
      BY <1>3, <1>5, <2>2, <2>4, <3>2 DEF Owed
    <3>. QED  BY <1>1, <1>3, <3>2, <3>3, TimesStep DEF Within
  <2>. QED  BY <2>3, <2>4
<1>8. CASE tpc' = "send"
  <2>1. /\ out' = NextEntry /\ files' = [files EXCEPT ![reading] = NextState(<<>>)]
        /\ out = NoEntry
    BY <1>1, <1>8, ReadMoves DEF AgentTypes, FlowTypes
  <2>2. /\ Len(Flow) \in Nat /\ Len(Flow') = Len(Flow) + 1
        /\ \A j \in 1..Len(Flow) : Flow'[j] = Flow[j]
        /\ Flow'[Len(Flow) + 1] = NextEntry
    BY <1>8, <2>1, JoinFlow
  <2>3. Ids(NextEntry.message) = Ids(files[reading].pending) \cup {NextLine.id}
    <3>1. NextEntry.message = Append(Reader.pending, NextLine)
      BY DEF NextEntry
    <3>. QED  BY <1>2, <3>1, IdsAppend DEF FileState
  <2>4. ASSUME NEW k \in Queued(i)'
        PROVE  k \in Queued(i) \/ (k = Len(Flow) + 1 /\ i \in Ids(NextEntry.message))
    <3>1. k \in 1..Len(Flow') /\ k > Sent /\ i \in Ids(Flow'[k].message)
      BY <1>2 DEF Queued
    <3>2. k \in 1..Len(Flow) \/ k = Len(Flow) + 1
      BY <2>2, <3>1
    <3>. QED  BY <2>2, <3>1, <3>2 DEF Queued
  <2>5. Holding(i)' \subseteq Holding(i) \ {reading}
    <3>1. NextState(<<>>).pending = <<>>
      BY <1>1, NextPlaced
    <3>2. files'[reading].pending = <<>>
      BY <1>2, <2>1, <3>1
    <3>. QED  BY <1>6, <3>2, NoIds DEF Holding
  <2>6. CASE i \notin Ids(NextEntry.message)
    <3>1. Queued(i)' \subseteq Queued(i) /\ Holding(i)' \subseteq Holding(i)
      BY <2>4, <2>5, <2>6
    <3>2. IsFiniteSet(Holding(i)') /\ Owed(i)' \in Nat /\ Owed(i) \in Nat /\ Owed(i)' <= Owed(i)
      BY <1>3, <1>4, <3>1, FewerOwed
    <3>. QED  BY <1>1, <1>3, <3>2, TimesStep DEF Within
  <2>7. ASSUME i \in Ids(NextEntry.message)
        PROVE  /\ Cardinality(Queued(i)') \in Nat
               /\ Cardinality(Queued(i)') <= Cardinality(Queued(i)) + 1
    <3>1. Queued(i)' \subseteq Queued(i) \cup {Len(Flow) + 1}
      BY <2>4
    <3>. QED  BY <1>3, <3>1, PartAndOne
  <2>8. CASE i \in Ids(files[reading].pending)
    <3>1. reading \in Holding(i)
      BY <1>2, <2>8 DEF Holding
    <3>2. /\ IsFiniteSet(Holding(i)') /\ Cardinality(Holding(i)') \in Nat
          /\ Cardinality(Holding(i)') + 1 <= Cardinality(Holding(i))
      BY <1>3, <2>5, <3>1, PartButOne
    <3>3. Owed(i)' \in Nat /\ Owed(i) \in Nat /\ Owed(i)' <= Owed(i)
      BY <1>3, <1>4, <2>3, <2>7, <2>8, <3>2 DEF Owed
    <3>. QED  BY <1>1, <1>3, <3>2, <3>3, TimesStep DEF Within
  <2>9. CASE i = NextLine.id
    <3>1. /\ IsFiniteSet(Holding(i)') /\ Cardinality(Holding(i)') \in Nat
          /\ Cardinality(Holding(i)') <= Cardinality(Holding(i))
      <4>1. Holding(i)' \subseteq Holding(i)
        BY <2>5
      <4>. QED  BY <1>3, <4>1, PartOf
    <3>2. Owed(i)' \in Nat /\ Owed(i) \in Nat /\ Owed(i)' <= Owed(i)
      BY <1>3, <1>5, <2>3, <2>7, <2>9, <3>1 DEF Owed
    <3>. QED  BY <1>1, <1>3, <3>1, <3>2, TimesStep DEF Within
  <2>. QED  BY <2>3, <2>6, <2>8, <2>9
<1>. QED  BY <1>7, <1>8

\* A pass that misses a file may read it once more.
LEMMA UnlistedWithin ==
  ASSUME AgentTypes, [Next]_agentVars, TailerStep, unlisted' # unlisted,
         NEW i \in 1..MaxLines, Within(i)
  PROVE  Within(i)'
<1>1. PollStarts
  BY DEF TailerStep, PollEnds, TailerStops, SendCancelled, EndOfFile, OpenFails, OpenFile, ReadLine
<1>2. UNCHANGED <<files, ch, batch, out, spc, copies>>
  BY <1>1 DEF TailerStep, PollStarts, shipperVars, serverVars
<1>3. Queued(i)' = Queued(i) /\ Holding(i)' = Holding(i)
  BY <1>2 DEF Queued, Holding, Flow, Sent
<1>4. Cardinality(Queued(i)) \in Nat /\ Cardinality(Holding(i)) \in Nat /\ copies[i] \in Nat
  BY QueuedIs, FS_CardinalityType DEF Within, AgentTypes, ShipperTypes
<1>5. Owed(i)' \in Nat /\ Owed(i) \in Nat /\ Owed(i)' <= Owed(i) + 1
  BY <1>3, <1>4 DEF Owed
<1>. QED  BY <1>2, <1>3, <1>4, <1>5, TimesStep DEF Within

\* The other steps take nothing in hand that was not, and deliver nothing.
LEMMA OtherWithin ==
  ASSUME AgentTypes, Latest, [Next]_agentVars, NEW i \in 1..MaxLines, i <= written, Within(i),
         ~Restart, unlisted' = unlisted, ~(TailerStep /\ ReadLine),
         ~(ShipperStep /\ (CallOk \/ CallBroken \/ Dropping))
  PROVE  Within(i)'
<1>1. copies'[i] = copies[i] /\ copies[i] \in Nat
  BY CopiesStep DEF AgentTypes, ShipperTypes
<1>2. Readable(i)' => Readable(i)
  BY ReadableStep
<1>3. Holding(i)' \subseteq Holding(i)
  BY PendingStep DEF Holding
<1>4. Sent' = Sent
  <2>1. CASE ShipperStep
    <3>1. spc # "save" /\ spc' # "save"
      BY <2>1 DEF ShipperStep, Dropping, Receive, Tick, ChannelClosed, CallRefused, CallUnsendable,
                  Retry, CallFailed
    <3>. QED  BY <3>1 DEF Sent
  <2>2. CASE ~ShipperStep
    <3>1. UNCHANGED <<spc, batch>>
      BY <2>2 DEF Next, NodeStep, TailerStep, SendEntry, Cancel, agentVars, shipperVars
    <3>. QED  BY <3>1 DEF Sent
  <2>. QED  BY <2>1, <2>2
<1>5. Queued(i)' \subseteq Queued(i)
  <2>1. CASE Flow' = Flow
    BY <1>4, <2>1 DEF Queued
  <2>2. CASE TailerStep /\ SendCancelled
    <3>1. UNCHANGED <<ch, batch>> /\ tpc = "send" /\ out' = NoEntry
      BY <2>2 DEF TailerStep, SendCancelled, shipperVars
    <3>2. /\ Len(Flow') \in Nat /\ Len(Flow) = Len(Flow') + 1
          /\ \A k \in 1..Len(Flow') : Flow'[k] = Flow[k]
      BY <3>1, CancelFlow
    <3>3. \A k \in 1..Len(Flow') : k \in 1..Len(Flow)
      BY <3>2
    <3>. QED  BY <1>4, <3>2, <3>3 DEF Queued
  <2>. QED  BY <2>1, <2>2, FlowStep
<1>6. IsFiniteSet(Holding(i)') /\ Owed(i)' \in Nat /\ Owed(i) \in Nat /\ Owed(i)' <= Owed(i)
  BY <1>2, <1>3, <1>5, FewerOwed DEF Within
<1>. QED  BY <1>1, <1>6, TimesStep DEF Within

LEMMA LimitedStep ==
  ASSUME AgentTypes, Latest, Numbered, Limited, [Next]_agentVars
  PROVE  Limited'
<1>. SUFFICES ASSUME NEW i \in 1..MaxLines PROVE Within(i)'
  BY DEF Limited
<1>1. Within(i)
  BY DEF Limited
<1>2. CASE ~(i <= written)
  BY <1>2, UnwrittenWithin
<1>3. CASE Restart
  BY <1>1, <1>3, RestartWithin
<1>4. CASE i <= written /\ ~Restart /\ unlisted' # unlisted
  <2>1. TailerStep
    BY <1>4 DEF Next, NodeStep, SendEntry, ShipperStep, Cancel, agentVars, tailerVars
  <2>. QED  BY <1>1, <1>4, <2>1, UnlistedWithin
<1>5. CASE i <= written /\ ~Restart /\ unlisted' = unlisted
  BY <1>1, <1>5, ReadLineWithin, DroppingWithin, CallOkWithin, CallBrokenWithin, OtherWithin
<1>. QED  BY <1>2, <1>3, <1>4, <1>5

LEMMA LimitedInit == Init => Numbered /\ Limited
<1>. SUFFICES ASSUME Init PROVE Numbered /\ Limited
  OBVIOUS
<1>1. /\ home = <<>> /\ written = 0 /\ Flow = <<>> /\ copies = [i \in 1..MaxLines |-> 0]
      /\ \A p \in Path : files[p] = NoState
  <2>1. <<>> \in Seq(Entry)
    OBVIOUS
  <2>. QED  BY <2>1, ConcatEmptySeq DEF Init, Flow
<1>2. Len(home) = 0 /\ Len(Flow) = 0 /\ 1..0 = {}
  BY <1>1
<1>3. \A p \in Path : Ids(files[p].pending) = {}
  BY <1>1, NoIds DEF NoState
<1>4. Numbered
  BY <1>1, <1>2, <1>3 DEF Numbered, LinesNumbered, HandsNumbered
<1>5. ASSUME NEW i \in 1..MaxLines PROVE Within(i)
  <2>1. Queued(i) = {} /\ Holding(i) = {}
    BY <1>2, <1>3 DEF Queued, Holding
  <2>2. Owed(i) <= 1 /\ Owed(i) \in Nat
    BY <2>1, FS_EmptySet DEF Owed
  <2>3. Times = 1
    BY DEF Times, Init
  <2>. QED  BY <1>1, <2>1, <2>2, <2>3, FS_EmptySet DEF Within
<1>. QED  BY <1>4, <1>5 DEF Limited

\* A line is accepted once, and once more at most for each call or save that failed, each
\* restart and each pass that missed a file: rotation, truncation, reused inodes, a
\* full channel or a shutdown never make the agent send a line again.
THEOREM RepeatsNeedFaults == Spec => []DuplicatesNeedFaults
<1>1. AgentTypes /\ Latest /\ Numbered /\ Limited /\ [Next]_agentVars
        => (AgentTypes /\ Latest /\ Numbered /\ Limited)'
  BY TypeStep, OneNameStep, ReachedStep, OpenNameStep, LinesNumberedStep, HandsNumberedStep,
     LimitedStep DEF Latest, Numbered, AgentTypes
<1>2. AgentTypes /\ Limited => DuplicatesNeedFaults
  <2>. SUFFICES ASSUME AgentTypes, Limited, NEW i \in 1..MaxLines
                PROVE  copies[i] <= 1 + faults + restarts + unlisted
    BY DEF DuplicatesNeedFaults
  <2>1. IsFiniteSet(Holding(i)) /\ copies[i] + Owed(i) <= Times
    BY DEF Limited, Within
  <2>2. Owed(i) \in Nat /\ copies[i] \in Nat /\ {faults, restarts, unlisted} \subseteq Nat
    BY <2>1, QueuedIs, FS_CardinalityType DEF Owed, AgentTypes, TailerTypes, ShipperTypes
  <2>. QED  BY <2>1, <2>2 DEF Times
<1>. QED  BY <1>1, <1>2, InitTypes, LatestInit, LimitedInit, PTL DEF Spec

-----------------------------------------------------------------------------
(* One file that is only appended to.                                      *)

\* Its lines are numbered as they stand in it; there is no other life.
WrittenOnce ==
  /\ names[TheFile] = 0 => home = <<>> /\ written = 0
  /\ names[TheFile] # 0 => Len(home) = 1 /\ home[1] = names[TheFile]
  /\ \A l \in 1..Len(home) :
       Len(data[l]) = written /\ \A k \in 1..Len(data[l]) : data[l][k].id = k

Undisturbed ==
  /\ ~cancelled /\ ~final /\ unlisted = 0
  /\ tpc # "stopped" /\ spc # "returned"

\* Position, flow and reader follow each other without a gap, a line an entry.  Base is
\* where the flow begins: entries the position is behind already may still be in it.
Base == positions[TheFile].offset - Sent
InFlow ==
  \A k \in 1..Len(Flow) : /\ Flow[k].offset = Base + k
                          /\ Ids(Flow[k].message) = {Flow[k].offset}
AtEnd ==
  IF files[TheFile] = NoState
  THEN Len(Flow) = 0
  ELSE /\ files[TheFile].offset = Base + Len(Flow)
       /\ files[TheFile].pending = <<>>
Unseen ==
  tpc \in {"scan", "read", "send"} /\ TheFile \notin seen =>
    files[TheFile] = NoState /\ positions[TheFile] = NoPosition

Contiguous == InFlow /\ AtEnd /\ Unseen

\* What is not collected any more is a batch, and what is to be saved was handed over.
Batched ==
  /\ IF spc = "collect" THEN Len(batch) < BatchSize ELSE Len(batch) \in 1..BatchSize
  /\ spc = "save" => \A k \in 1..Len(batch) : batch[k].offset \in Accepted \cup dropped

OneFileInv == AgentTypes /\ WrittenOnce /\ Undisturbed /\ Contiguous /\ Batched

LEMMA OnePath ==
  ASSUME SingleFile
  PROVE  TheFile \in Path /\ \A p \in Path : p = TheFile
BY DEF SingleFile

LEMMA WrittenOnceStep ==
  ASSUME SingleFile, DiskTypes, WrittenOnce, [Next /\ OnlyAppended]_agentVars
  PROVE  WrittenOnce'
<1>0. /\ home \in Seq(Inode) /\ Len(home) \in Nat /\ data \in Seq(Seq(Line)) /\ Len(data) = Len(home)
      /\ names \in [Path -> {0} \cup Inode] /\ written \in Nat /\ 0 \notin Inode /\ TheFile \in Path
  BY Constants, LineSeqs, OnePath DEF DiskTypes, Inode
<1>1. CASE UNCHANGED diskVars
  BY <1>1 DEF WrittenOnce, diskVars
<1>2. CASE NewFile(TheFile) /\ OnlyAppended
  <2>1. PICK i \in Inode : BeginLife(i) /\ names' = [names EXCEPT ![TheFile] = i]
    BY <1>2 DEF NewFile
  <2>2. Len(home') = Len(home) + 1 /\ home'[Len(home')] = i /\ data'[Len(home')] = <<>>
    BY <2>1, NewLife
  <2>3. names[TheFile] = 0
    BY <1>0, <1>2, <2>2 DEF OnlyAppended
  <2>4. Len(home) = 0 /\ written' = 0
    BY <1>2, <2>3 DEF WrittenOnce, NewFile
  <2>5. Len(home') = 1 /\ home'[1] = i /\ data'[1] = <<>> /\ names'[TheFile] = i
    BY <1>0, <2>1, <2>2, <2>4
  <2>. QED  BY <1>0, <2>4, <2>5 DEF WrittenOnce
<1>3. CASE (RemoveFile(TheFile) \/ Truncate(TheFile)) /\ OnlyAppended
  <2>1. CASE RemoveFile(TheFile)
    BY <1>0, <1>3, <2>1 DEF RemoveFile, OnlyAppended
  <2>2. CASE Truncate(TheFile)
    <3>1. names[TheFile] \in Inode /\ BeginLife(names[TheFile]) /\ home' = home
      BY <1>0, <1>3, <2>2 DEF Truncate, OnlyAppended
    <3>2. Len(home') = Len(home) + 1
      BY <3>1, NewLife
    <3>. QED  BY <1>0, <3>1, <3>2
  <2>. QED  BY <1>3, <2>1, <2>2
<1>4. ASSUME NEW s \in Stream, NEW k \in Kind, WriteLine(TheFile, s, k)
      PROVE  WrittenOnce'
  <2>1. Life(names[TheFile]) = 1 /\ Len(home) = 1
    <3>1. Len(home) = 1 /\ names[TheFile] \in Range(home)
      BY <1>0, <1>4 DEF WriteLine, WrittenOnce, DiskTypes
    <3>2. Life(names[TheFile]) \in 1..Len(home)
      BY <3>1, LifeOf
    <3>. QED  BY <3>1, <3>2
  <2>. DEFINE new == [id |-> written + 1, stream |-> s, kind |-> k]
  <2>2. data' = [data EXCEPT ![1] = Append(data[1], new)] /\ written' = written + 1
        /\ names' = names /\ home' = home
    BY <1>4, <2>1 DEF WriteLine
  <2>3. data[1] \in Seq(Line) /\ Len(data[1]) = written /\ \A j \in 1..written : data[1][j].id = j
    BY <1>0, <2>1, LineSeqs DEF WrittenOnce
  <2>4. data'[1] = Append(data[1], new)
    BY <1>0, <2>1, <2>2
  <2>5. /\ Len(data'[1]) = written' /\ data'[1][written + 1] = new
        /\ \A j \in 1..written : data'[1][j] = data[1][j]
    BY <2>2, <2>3, <2>4
  <2>6. \A j \in 1..written' : data'[1][j].id = j
    BY <1>0, <2>2, <2>3, <2>5
  <2>7. Len(home') = 1 /\ \A l \in 1..1 : l = 1
    BY <2>1, <2>2
  <2>. QED  BY <1>4, <2>2, <2>5, <2>6, <2>7 DEF WrittenOnce, WriteLine
<1>5. CASE NodeStep /\ OnlyAppended
  BY <1>2, <1>3, <1>4, <1>5, OnePath DEF NodeStep
<1>6. CASE ~NodeStep
  <2>1. UNCHANGED diskVars
    BY <1>6 DEF Next, TailerStep, SendEntry, ShipperStep, Cancel, Restart, agentVars
  <2>. QED  BY <1>1, <2>1
<1>. QED  BY <1>1, <1>5, <1>6 DEF agentVars

LEMMA UndisturbedStep ==
  ASSUME SingleFile, AgentTypes, Undisturbed, [Next]_agentVars
  PROVE  Undisturbed'
<1>. USE DEF Undisturbed
<1>0. ~May("unlisted", 1)
  BY DEF SingleFile, May
<1>1. CASE NodeStep \/ SendEntry \/ UNCHANGED agentVars
  BY <1>1 DEF NodeStep, SendEntry, agentVars, tailerVars, shipperVars
<1>2. CASE TailerStep
  <2>1. UNCHANGED <<cancelled, shipperVars>>
    BY <1>2 DEF TailerStep
  <2>2. unlisted' = 0 /\ tpc' # "stopped"
    <3>1. CASE PollStarts
      BY <1>0, <3>1 DEF PollStarts
    <3>2. CASE ReadLine
      BY <1>2, <3>2, ReadMoves DEF TailerStep
    <3>3. CASE ~PollStarts /\ ~ReadLine
      BY <1>2, <3>3 DEF TailerStep, PollEnds, TailerStops, SendCancelled, EndOfFile, OpenFails, OpenFile
    <3>. QED  BY <3>1, <3>2, <3>3
  <2>. QED  BY <2>1, <2>2 DEF shipperVars
<1>3. CASE ShipperStep
  <2>1. UNCHANGED <<cancelled, tpc, unlisted>>
    BY <1>3 DEF ShipperStep, tailerVars
  <2>2. ~final' /\ spc' # "returned"
    BY <1>3 DEF ShipperStep, Receive, Tick, ChannelClosed, CallOk, CallBroken, CallRefused, CallFailed,
                CallUnsendable, Retry, Abandon, MayAbandon, Save, SaveFails, FlushEnds
  <2>. QED  BY <2>1, <2>2
<1>4. CASE Cancel
  BY <1>4 DEF Cancel, SingleFile
<1>5. CASE Restart
  BY <1>5 DEF Restart
<1>. QED  BY <1>1, <1>2, <1>3, <1>4, <1>5 DEF Next

\* Whatever is placed anywhere is placed in the one life there is.
LEMMA OneLife ==
  ASSUME SingleFile, AgentTypes, WrittenOnce, NEW s, Placed(s)
  PROVE  /\ s.life = 1 /\ Len(home) = 1 /\ names[TheFile] # 0 /\ s.inode = names[TheFile]
         /\ Life(s.inode) = 1 /\ Content(s.inode) = data[1]
         /\ Len(data[1]) = written /\ written \in Nat /\ s.offset \in 0..written
         /\ \A k \in 1..written : data[1][k].id = k
<1>1. /\ s.life \in 1..Len(home) /\ home[s.life] = s.inode
      /\ s.offset \in 0..Len(data[s.life])
  BY DEF Placed, PlacedIn
<1>2. /\ names[TheFile] # 0 /\ Len(home) = 1 /\ home[1] = names[TheFile]
  <2>1. Len(home) # 0
    BY <1>1
  <2>. QED  BY <2>1 DEF WrittenOnce
<1>3. s.life = 1
  BY <1>1, <1>2
<1>4. s.inode \in Range(home)
  BY PlacedInode DEF AgentTypes
<1>5. Life(s.inode) = 1
  <2>1. Life(s.inode) \in 1..Len(home)
    BY <1>4, LifeOf DEF AgentTypes
  <2>. QED  BY <1>2, <2>1
<1>6. /\ Len(data[1]) = written /\ written \in Nat
      /\ \A k \in 1..written : data[1][k].id = k
  BY <1>2, Constants DEF WrittenOnce, AgentTypes, DiskTypes
<1>. QED  BY <1>1, <1>2, <1>3, <1>5, <1>6 DEF Content

LEMMA PlacesOfFile ==
  ASSUME SingleFile, AgentTypes
  PROVE  /\ positions[TheFile] \in Position /\ files[TheFile] \in FileState
         /\ positions[TheFile].offset \in Nat /\ files[TheFile].offset \in Nat
         /\ positions[TheFile] = NoPosition \/ Placed(positions[TheFile])
         /\ files[TheFile] = NoState \/ Placed(files[TheFile])
         /\ NoPosition.offset = 0 /\ NoState.offset = 0
         /\ \A k \in 1..Len(Flow) : Flow[k].file = TheFile /\ Flow[k].offset \in Nat
         /\ Sent \in Nat /\ Base \in Int /\ positions[TheFile].offset = Base + Sent
<1>1. positions[TheFile] \in Position /\ files[TheFile] \in FileState
  BY OnePath DEF AgentTypes, ShipperTypes, TailerTypes
<1>2. /\ positions[TheFile] = NoPosition \/ Placed(positions[TheFile])
      /\ files[TheFile] = NoState \/ Placed(files[TheFile])
  BY OnePath DEF AgentTypes, ShipperTypes, TailerTypes
<1>3. \A k \in 1..Len(Flow) : Flow[k].file = TheFile /\ Flow[k].offset \in Nat
  <2>1. \A k \in 1..Len(Flow) : Flow[k] \in Entry
    BY FlowIs
  <2>. QED  BY <2>1, OnePath, Constants DEF Entry
<1>4. positions[TheFile].offset \in Nat /\ files[TheFile].offset \in Nat
  BY <1>1, Constants DEF Position, FileState
<1>5. Sent \in Nat /\ Base \in Int /\ positions[TheFile].offset = Base + Sent
  <2>1. Sent \in Nat
    BY BatchFlow DEF Sent
  <2>. QED  BY <1>4, <2>1 DEF Base
<1>. QED  BY <1>1, <1>2, <1>3, <1>4, <1>5 DEF NoPosition, NoState

LEMMA ContiguousKept ==
  ASSUME Contiguous, Flow' = Flow, Sent' = Sent,
         files'[TheFile] = files[TheFile], positions'[TheFile] = positions[TheFile], Unseen'
  PROVE  Contiguous'
BY DEF Contiguous, InFlow, AtEnd, Base

\* A visit goes on where the reader was, or at the position.
LEMMA CurrentIs ==
  ASSUME SingleFile, AgentTypes, WrittenOnce, Contiguous, names[TheFile] # 0
  PROVE  LET st == Today(Current(TheFile))
         IN  /\ st # NoState /\ st.pending = <<>>
             /\ st.offset = Base + Len(Flow)
<1>. DEFINE p == TheFile
<1>1. Today(Current(p)).offset = Current(p).offset /\ Today(Current(p)).pending = Current(p).pending
      /\ Today(Current(p)).inode = Current(p).inode
  <2>1. /\ Current(p) \in FileState /\ Current(p).inode = names[p]
        /\ Current(p).offset <= Len(Content(names[p]))
    BY OnePath, CurrentPlaced
  <2>2. Current(p).inode \in Range(home)
    BY <2>1, OnePath, NamedLife DEF AgentTypes
  <2>. QED  BY <2>1, <2>2, TodayPlaced DEF AgentTypes
<1>2. CASE files[p] # NoState
  <2>1. /\ Placed(files[p]) /\ files[p].offset = Base + Len(Flow)
        /\ files[p].pending = <<>>
    BY <1>2, PlacesOfFile DEF Contiguous, AtEnd
  <2>2. /\ files[p].inode = names[p] /\ Content(names[p]) = data[1]
        /\ Len(data[1]) = written /\ written \in Nat /\ files[p].offset \in 0..written
    BY <2>1, OneLife
  <2>3. ~Restarted(files[p], p)
    BY <2>2 DEF Restarted
  <2>4. Current(p) = files[p]
    BY <1>2, <2>3 DEF Current
  <2>. QED  BY <1>1, <2>1, <2>2, <2>4 DEF NoState
<1>3. CASE files[p] = NoState
  <2>1. Len(Flow) = 0 /\ Sent = 0
    <3>1. Len(Flow) = 0
      BY <1>3 DEF Contiguous, AtEnd
    <3>. QED  BY <3>1, BatchFlow DEF Sent
  <2>2. /\ Resume(p).inode = names[p] /\ Resume(p).pending = <<>>
        /\ Resume(p).offset = positions[p].offset
        /\ ~Restarted(Resume(p), p)
    <3>1. CASE Placed(positions[p])
      <4>1. /\ positions[p].inode = names[p] /\ Content(names[p]) = data[1]
            /\ Len(data[1]) = written /\ written \in Nat /\ positions[p].offset \in 0..written
        BY <3>1, OneLife
      <4>2. Resume(p).inode = names[p] /\ Resume(p).offset = positions[p].offset
            /\ Resume(p).pending = <<>>
        BY <4>1 DEF Resume
      <4>. QED  BY <4>1, <4>2 DEF Restarted
    <3>2. CASE positions[p] = NoPosition
      <4>1. Resume(p).inode = names[p] /\ Resume(p).offset = 0 /\ Resume(p).pending = <<>>
        BY <3>2 DEF Resume, NoPosition
      <4>2. Len(Content(names[p])) \in Nat
        <5>1. Life(names[p]) \in 1..Len(home)
          BY OnePath, NamedLife, LifeOf DEF AgentTypes
        <5>. QED  BY <5>1, LineSeqs DEF AgentTypes, Content
      <4>. QED  BY <3>2, <4>1, <4>2 DEF Restarted, NoPosition
    <3>. QED  BY <3>1, <3>2, PlacesOfFile
  <2>3. Current(p) = Resume(p)
    BY <1>3, <2>2 DEF Current
  <2>4. positions[p].offset = Base + Len(Flow)
    BY <2>1, PlacesOfFile
  <2>. QED  BY <1>1, <2>2, <2>3, <2>4 DEF NoState
<1>. QED  BY <1>2, <1>3

LEMMA OpenContiguous ==
  ASSUME SingleFile, AgentTypes, WrittenOnce, Contiguous, TailerStep, OpenFile(TheFile)
  PROVE  Contiguous'
<1>1. /\ UNCHANGED <<batch, ch, out, spc, positions, seen>> /\ TheFile \in seen
      /\ names[TheFile] # 0 /\ files' = [files EXCEPT ![TheFile] = Today(Current(TheFile))]
  BY DEF TailerStep, OpenFile, shipperVars, AgentTypes, TailerTypes
<1>2. Flow' = Flow /\ Sent' = Sent
  BY <1>1 DEF Flow, Sent
<1>3. files'[TheFile] = Today(Current(TheFile))
  BY <1>1, OnePath DEF AgentTypes, TailerTypes
<1>4. Base' = Base
  BY <1>1, <1>2 DEF Base
<1>5. AtEnd'
  BY <1>1, <1>2, <1>3, <1>4, CurrentIs DEF AtEnd
<1>. QED  BY <1>1, <1>2, <1>4, <1>5 DEF Contiguous, InFlow, Unseen

\* Every line the reader passes is an entry.
LEMMA ReadContiguous ==
  ASSUME SingleFile, AgentTypes, WrittenOnce, Contiguous, TailerStep, ReadLine
  PROVE  Contiguous'
<1>1. /\ UNCHANGED diskVars /\ UNCHANGED <<batch, ch, spc, positions, seen>>
      /\ tpc = "read" /\ Unread(reading) # <<>> /\ out = NoEntry
  BY ReadMoves DEF TailerStep, shipperVars, AgentTypes, FlowTypes
<1>2. /\ reading = TheFile /\ TheFile \in seen /\ Placed(Reader) /\ Reader \in FileState
      /\ files[TheFile] # NoState /\ NextLine \in Line
      /\ Reader.offset = files[TheFile].offset /\ Reader.pending = files[TheFile].pending
      /\ Reader.offset < Len(data[Reader.life])
  BY <1>1, OnePath, ReaderPlaced
<1>3. Reader.pending = <<>> /\ Reader.offset = Base + Len(Flow)
  BY <1>2 DEF Contiguous, AtEnd
<1>4. Reader.offset \in Nat /\ NextLine.id = Reader.offset + 1
  <2>1. /\ Reader.life = 1 /\ Len(data[1]) = written /\ written \in Nat
        /\ Reader.offset \in 0..written /\ \A k \in 1..written : data[1][k].id = k
    BY <1>2, OneLife
  <2>2. Reader.offset + 1 \in 1..written
    BY <1>2, <2>1
  <2>. QED  BY <2>1, <2>2 DEF NextLine
<1>5. Completes(NextLine)
  BY <1>2 DEF Completes, Line, SingleFile
<1>6. tpc' = "send" /\ out' = NextEntry /\ files' = [files EXCEPT ![reading] = NextState(<<>>)]
  BY <1>1, <1>5, ReadMoves
<1>7. /\ Len(Flow) \in Nat /\ Len(Flow') = Len(Flow) + 1
      /\ \A k \in 1..Len(Flow) : Flow'[k] = Flow[k]
      /\ Flow'[Len(Flow) + 1] = NextEntry
  BY <1>1, <1>6, JoinFlow
<1>8. NextEntry.offset = Reader.offset + 1 /\ Ids(NextEntry.message) = {Reader.offset + 1}
  <2>1. NextEntry.message = Append(<<>>, NextLine) /\ <<>> \in Seq(Line)
    BY <1>3 DEF NextEntry
  <2>2. Ids(NextEntry.message) = {} \cup {NextLine.id}
    BY <1>2, <2>1, IdsAppend, NoIds
  <2>. QED  BY <1>4, <2>2 DEF NextEntry
<1>9. Base' = Base /\ Base \in Int
  BY <1>1, PlacesOfFile DEF Base, Sent
<1>10. Reader.offset + 1 = Base + (Len(Flow) + 1)
  BY <1>3, <1>4, <1>7, <1>9
<1>11. InFlow'
  <2>. SUFFICES ASSUME NEW k \in 1..Len(Flow')
                PROVE  /\ Flow'[k].offset = Base + k
                       /\ Ids(Flow'[k].message) = {Flow'[k].offset}
    BY <1>9 DEF InFlow
  <2>1. CASE k \in 1..Len(Flow)
    BY <1>7, <2>1 DEF Contiguous, InFlow
  <2>2. CASE k = Len(Flow) + 1
    <3>1. Flow'[k] = NextEntry
      BY <1>7, <2>2
    <3>. QED  BY <1>8, <1>10, <2>2, <3>1
  <2>. QED  BY <1>7, <2>1, <2>2
<1>12. AtEnd'
  <2>1. /\ NextState(<<>>) # NoState /\ NextState(<<>>).pending = <<>>
        /\ NextState(<<>>).offset = Reader.offset + 1
    BY <1>1, NextPlaced
  <2>2. files'[TheFile] = NextState(<<>>)
    BY <1>2, <1>6, OnePath DEF AgentTypes, TailerTypes
  <2>. QED  BY <1>7, <1>9, <1>10, <2>1, <2>2 DEF AtEnd
<1>. QED  BY <1>1, <1>2, <1>11, <1>12 DEF Contiguous, Unseen

LEMMA TailerContiguous ==
  ASSUME SingleFile, AgentTypes, WrittenOnce, Undisturbed, Contiguous, TailerStep
  PROVE  Contiguous'
<1>1. UNCHANGED <<batch, ch, spc>> /\ ~cancelled
  BY DEF TailerStep, shipperVars, Undisturbed
<1>2. CASE PollStarts
  <2>1. /\ UNCHANGED <<files, positions, out>> /\ seen' = {q \in Path : names[q] # 0}
    BY <1>2 DEF PollStarts, May, SingleFile
  <2>2. names[TheFile] = 0 => files[TheFile] = NoState /\ positions[TheFile] = NoPosition
    BY PlacesOfFile, OneLife
  <2>3. Flow' = Flow /\ Sent' = Sent /\ Unseen'
    BY <1>1, <2>1, <2>2, OnePath DEF Flow, Sent, Unseen
  <2>. QED  BY <2>1, <2>3, ContiguousKept
<1>3. CASE PollEnds
  <2>1. /\ tpc = "scan" /\ tpc' = "idle" /\ UNCHANGED out
        /\ files' = [q \in Path |-> IF q \in seen THEN files[q] ELSE NoState]
        /\ positions' = [q \in Path |-> IF q \in seen THEN positions[q] ELSE NoPosition]
    BY <1>3 DEF PollEnds
  <2>2. files'[TheFile] = files[TheFile] /\ positions'[TheFile] = positions[TheFile]
    BY <2>1, OnePath DEF Contiguous, Unseen
  <2>3. Flow' = Flow /\ Sent' = Sent /\ Unseen'
    BY <1>1, <2>1 DEF Flow, Sent, Unseen
  <2>. QED  BY <2>2, <2>3, ContiguousKept
<1>4. CASE EndOfFile \/ OpenFails(TheFile)
  <2>1. /\ UNCHANGED <<files, positions, out, seen>>
        /\ tpc' \in {"scan", "read", "send"} => tpc \in {"scan", "read", "send"}
    BY <1>4 DEF EndOfFile, OpenFails
  <2>2. Flow' = Flow /\ Sent' = Sent /\ Unseen'
    BY <1>1, <2>1 DEF Flow, Sent, Contiguous, Unseen
  <2>. QED  BY <2>1, <2>2, ContiguousKept
<1>5. CASE ReadLine
  BY <1>5, ReadContiguous
<1>6. CASE OpenFile(TheFile)
  BY <1>6, OpenContiguous
<1>7. ~TailerStops /\ ~SendCancelled
  BY <1>1 DEF TailerStops, SendCancelled
<1>. QED  BY <1>2, <1>3, <1>4, <1>5, <1>6, <1>7, OnePath DEF TailerStep

\* commit moves the position behind the batch, which counts as sent until it is gone.
LEMMA ShipperContiguous ==
  ASSUME SingleFile, AgentTypes, Undisturbed, Contiguous, Batched, ShipperStep
  PROVE  Contiguous'
<1>1. UNCHANGED <<tpc, seen, files, out>> /\ ~cancelled /\ tpc # "stopped"
  BY DEF ShipperStep, tailerVars, Undisturbed
<1>2. CASE Receive \/ Tick \/ CallBroken \/ CallUnsendable \/ Retry
  <2>1. UNCHANGED positions /\ spc # "save" /\ spc' # "save"
    BY <1>2 DEF Receive, Tick, CallBroken, CallUnsendable, Retry, CallFailed
  <2>2. Sent' = Sent /\ Unseen'
    BY <1>1, <2>1 DEF Sent, Contiguous, Unseen
  <2>3. Flow' = Flow
    BY <1>1, <1>2, ReceiveFlow DEF Flow, Tick, CallBroken, CallUnsendable, Retry
  <2>. QED  BY <1>1, <2>1, <2>2, <2>3, ContiguousKept
<1>3. CASE CallOk
  <2>1. /\ UNCHANGED <<batch, ch>> /\ positions' = Committed /\ spc = "call" /\ spc' = "save"
    BY <1>3 DEF CallOk
  <2>2. /\ Len(batch) \in Nat /\ Len(batch) >= 1 /\ Len(batch) <= Len(Flow) /\ Len(Flow) \in Nat
        /\ Flow[Len(batch)] = batch[Len(batch)] /\ DOMAIN batch = 1..Len(batch)
    BY <2>1, BatchFlow, FlowIs, SendableRange, Constants DEF Batched
  <2>3. Flow' = Flow /\ Sent = 0 /\ Sent' = Len(batch)
    BY <1>1, <2>1 DEF Flow, Sent
  <2>4. positions'[TheFile].offset = Base + Len(batch)
    <3>1. \A k \in DOMAIN batch : batch[k].file = TheFile
      BY BatchEntry, OnePath DEF Entry
    <3>2. PICK k \in DOMAIN batch :
            /\ \A j \in DOMAIN batch : j <= k
            /\ Committed[TheFile].offset = batch[k].offset
      <4>1. 1 \in DOMAIN batch /\ TheFile \in Path
        BY <2>2, OnePath
      <4>2. PICK k \in DOMAIN batch :
              /\ \A j \in DOMAIN batch : batch[j].file = TheFile => j <= k
              /\ Committed[TheFile] = [inode |-> batch[k].inode, life |-> batch[k].life,
                                       offset |-> batch[k].offset]
        BY <3>1, <4>1, CommittedIs
      <4>. QED  BY <3>1, <4>2
    <3>3. k = Len(batch)
      BY <2>2, <3>2
    <3>4. Len(batch) \in 1..Len(Flow)
      BY <2>2
    <3>5. Flow[Len(batch)].offset = Base + Len(batch)
      BY <3>4 DEF Contiguous, InFlow
    <3>. QED  BY <2>1, <2>2, <3>2, <3>3, <3>5
  <2>5. files[TheFile] # NoState
    BY <2>2 DEF Contiguous, AtEnd
  <2>6. Base' = Base
    <3>1. Base \in Int
      BY PlacesOfFile
    <3>. QED  BY <2>2, <2>3, <2>4, <3>1 DEF Base
  <2>7. InFlow' /\ AtEnd'
    BY <1>1, <2>3, <2>6 DEF Contiguous, InFlow, AtEnd
  <2>8. Unseen'
    BY <1>1, <2>5 DEF Contiguous, Unseen
  <2>. QED  BY <2>7, <2>8 DEF Contiguous
<1>4. CASE Save \/ SaveFails
  <2>1. /\ UNCHANGED <<ch, positions>> /\ spc = "save" /\ spc' # "save" /\ FlushEnds
    BY <1>4 DEF Save, SaveFails, FlushEnds
  <2>2. /\ Len(Flow) = Len(batch) + Len(Flow') /\ Len(batch) \in Nat /\ Len(Flow') \in Nat
        /\ Len(batch) >= 1 /\ \A k \in 1..Len(Flow') : Flow'[k] = Flow[Len(batch) + k]
    BY <1>1, <2>1, FlushFlow, Constants DEF Batched
  <2>3. Sent = Len(batch) /\ Sent' = 0
    BY <2>1 DEF Sent
  <2>4. files[TheFile] # NoState
    BY <2>2 DEF Contiguous, AtEnd
  <2>5. Base \in Int /\ Base' = Base + Len(batch)
    <3>1. Base \in Int /\ positions[TheFile].offset = Base + Sent
      BY PlacesOfFile
    <3>2. Base' = positions[TheFile].offset - 0
      BY <2>1, <2>3 DEF Base
    <3>. QED  BY <2>2, <2>3, <3>1, <3>2
  <2>6. InFlow'
    <3>. SUFFICES ASSUME NEW k \in 1..Len(Flow')
                  PROVE  /\ Flow'[k].offset = (Base + Len(batch)) + k
                         /\ Ids(Flow'[k].message) = {Flow'[k].offset}
      BY <2>5 DEF InFlow
    <3>1. Len(batch) + k \in 1..Len(Flow) /\ Flow'[k] = Flow[Len(batch) + k] /\ k \in Nat
      BY <2>2
    <3>2. /\ Flow[Len(batch) + k].offset = Base + (Len(batch) + k)
          /\ Ids(Flow[Len(batch) + k].message) = {Flow[Len(batch) + k].offset}
      BY <3>1 DEF Contiguous, InFlow
    <3>3. Base + (Len(batch) + k) = (Base + Len(batch)) + k
      BY <2>2, <2>5, <3>1
    <3>. QED  BY <3>1, <3>2, <3>3
  <2>7. AtEnd'
    <3>1. files[TheFile].offset = Base + Len(Flow) /\ files[TheFile].pending = <<>>
      BY <2>4 DEF Contiguous, AtEnd
    <3>2. Base + Len(Flow) = (Base + Len(batch)) + Len(Flow')
      BY <2>2, <2>5
    <3>. QED  BY <1>1, <2>4, <2>5, <3>1, <3>2 DEF AtEnd
  <2>8. Unseen'
    BY <1>1, <2>1 DEF Contiguous, Unseen
  <2>. QED  BY <2>6, <2>7, <2>8 DEF Contiguous
<1>5. ~ChannelClosed /\ ~CallRefused /\ ~Abandon
  BY <1>1 DEF ChannelClosed, CallRefused, Abandon, MayAbandon
<1>. QED  BY <1>2, <1>3, <1>4, <1>5 DEF ShipperStep

LEMMA ContiguousStep ==
  ASSUME SingleFile, OneFileInv, [Next]_agentVars
  PROVE  Contiguous'
<1>. USE DEF OneFileInv
<1>1. CASE TailerStep
  BY <1>1, TailerContiguous
<1>2. CASE ShipperStep
  BY <1>2, ShipperContiguous
<1>3. CASE NodeStep \/ UNCHANGED agentVars
  <2>1. UNCHANGED <<tpc, seen, files, positions, batch, ch, out, spc>>
    BY <1>3 DEF NodeStep, agentVars, tailerVars, shipperVars
  <2>2. Flow' = Flow /\ Sent' = Sent /\ Unseen'
    BY <2>1 DEF Flow, Sent, Contiguous, Unseen
  <2>. QED  BY <2>1, <2>2, ContiguousKept
<1>4. CASE SendEntry
  <2>1. /\ UNCHANGED <<seen, files, positions, batch, spc>> /\ tpc = "send" /\ tpc' = "read"
        /\ Flow' = Flow
    BY <1>4, SendFlow DEF SendEntry, shipperVars
  <2>2. Sent' = Sent /\ Unseen'
    BY <2>1 DEF Sent, Contiguous, Unseen
  <2>. QED  BY <2>1, <2>2, ContiguousKept
<1>5. CASE Restart
  <2>1. /\ files'[TheFile] = NoState /\ tpc' = "idle" /\ spc' = "collect"
        /\ batch' = <<>> /\ ch' = <<>> /\ out' = NoEntry
    BY <1>5, OnePath DEF Restart
  <2>2. <<>> \in Seq(Entry)
    OBVIOUS
  <2>3. Flow' = <<>>
    BY <2>1, <2>2, ConcatEmptySeq DEF Flow
  <2>4. Len(Flow') = 0 /\ 1..0 = {}
    BY <2>3
  <2>. QED  BY <2>1, <2>4 DEF Contiguous, InFlow, AtEnd, Unseen
<1>6. ~Cancel
  BY DEF Cancel, SingleFile
<1>. QED  BY <1>1, <1>2, <1>3, <1>4, <1>5, <1>6 DEF Next

LEMMA BatchedStep ==
  ASSUME SingleFile, OneFileInv, [Next]_agentVars
  PROVE  Batched'
<1>. USE DEF OneFileInv
<1>0. /\ BatchSize \in Nat \ {0} /\ Len(batch) \in Nat /\ batch \in Seq(Entry)
      /\ Len(<<>>) = 0
  BY AgentAssumption, BatchFlow DEF AgentTypes, FlowTypes
<1>1. CASE UNCHANGED <<batch, spc, copies, dropped>>
  BY <1>1 DEF Batched, Accepted
<1>2. CASE NodeStep \/ TailerStep \/ SendEntry \/ UNCHANGED agentVars
  BY <1>1, <1>2 DEF NodeStep, TailerStep, SendEntry, agentVars, shipperVars, serverVars
<1>3. CASE ShipperStep
  <2>0. ~cancelled /\ ~final /\ tpc # "stopped"
    BY DEF Undisturbed
  <2>1. CASE Receive
    <3>1. /\ spc = "collect" /\ Len(batch') = Len(batch) + 1
          /\ spc' = IF Len(batch') >= BatchSize THEN "call" ELSE "collect"
      <4>1. Head(ch) \in Entry /\ batch' = Append(batch, Head(ch))
        BY <2>1 DEF Receive, AgentTypes, FlowTypes
      <4>. QED  BY <1>0, <2>0, <2>1, <4>1 DEF Receive
    <3>. QED  BY <1>0, <3>1 DEF Batched
  <2>2. CASE Tick
    <3>1. Len(batch) # 0
      BY <1>0, <2>2 DEF Tick
    <3>. QED  BY <1>0, <2>2, <3>1 DEF Tick, Batched
  <2>3. CASE CallOk
    <3>1. PICK D \in SUBSET DOMAIN batch : Deliver(Len(batch), D)
      BY <2>3 DEF CallOk
    <3>2. D \in SUBSET (1..Len(batch)) /\ Len(batch) \in 0..Len(batch)
      BY SendableRange
    <3>3. IdsTo(batch, Len(batch)) \subseteq Accepted' \cup dropped'
      BY <3>1, <3>2, DeliverDone
    <3>4. Sent = 0 /\ spc = "call" /\ spc' = "save" /\ batch' = batch
      BY <2>3 DEF CallOk, Sent
    <3>5. \A k \in 1..Len(batch) : batch[k].offset \in Ids(batch[k].message)
      <4>1. \A k \in 1..Len(batch) : k \in 1..Len(Flow) /\ Flow[k] = batch[k]
        BY BatchFlow, FlowIs
      <4>. QED  BY <4>1 DEF Contiguous, InFlow
    <3>6. \A k \in 1..Len(batch) : batch[k].offset \in Accepted' \cup dropped'
      BY <3>3, <3>5 DEF IdsTo
    <3>. QED  BY <3>4, <3>6 DEF Batched
  <2>4. CASE CallBroken \/ CallUnsendable \/ Retry
    BY <2>4 DEF CallBroken, CallUnsendable, Retry, CallFailed, Batched
  <2>5. CASE Save \/ SaveFails
    BY <1>0, <2>0, <2>5 DEF Save, SaveFails, FlushEnds, Batched
  <2>6. ~ChannelClosed /\ ~CallRefused /\ ~Abandon
    BY <2>0 DEF ChannelClosed, CallRefused, Abandon, MayAbandon
  <2>. QED  BY <1>3, <2>1, <2>2, <2>3, <2>4, <2>5, <2>6 DEF ShipperStep
<1>4. CASE Restart
  BY <1>0, <1>4 DEF Restart, Batched
<1>5. ~Cancel
  BY DEF Cancel, SingleFile
<1>. QED  BY <1>2, <1>3, <1>4, <1>5 DEF Next

LEMMA OneFileInit ==
  ASSUME SingleFile, Init
  PROVE  OneFileInv
<1>1. /\ names[TheFile] = 0 /\ home = <<>> /\ written = 0
      /\ positions[TheFile] = NoPosition /\ files[TheFile] = NoState
      /\ tpc = "idle" /\ spc = "collect" /\ ~final /\ ~cancelled /\ unlisted = 0
      /\ batch = <<>> /\ ch = <<>> /\ out = NoEntry
  BY OnePath DEF Init
<1>2. Len(batch) = 0 /\ Len(home) = 0 /\ 1..0 = {} /\ BatchSize \in Nat \ {0}
  BY <1>1, AgentAssumption
<1>3. Len(Flow) = 0
  <2>1. <<>> \in Seq(Entry)
    OBVIOUS
  <2>2. Flow = <<>>
    BY <1>1, <2>1, ConcatEmptySeq DEF Flow
  <2>. QED  BY <2>2
<1>4. WrittenOnce /\ Undisturbed
  BY <1>1, <1>2 DEF WrittenOnce, Undisturbed
<1>5. Contiguous
  BY <1>1, <1>2, <1>3 DEF Contiguous, InFlow, AtEnd, Unseen
<1>6. Batched
  BY <1>1, <1>2 DEF Batched
<1>. QED  BY <1>4, <1>5, <1>6, InitTypes DEF OneFileInv

LEMMA OneFileStep ==
  ASSUME SingleFile, OneFileInv, [Next /\ OnlyAppended]_agentVars
  PROVE  OneFileInv'
<1>1. [Next]_agentVars
  OBVIOUS
<1>2. AgentTypes' /\ WrittenOnce' /\ Undisturbed'
  BY <1>1, TypeStep, WrittenOnceStep, UndisturbedStep DEF OneFileInv, AgentTypes
<1>3. Contiguous' /\ Batched'
  BY <1>1, ContiguousStep, BatchedStep
<1>. QED  BY <1>2, <1>3 DEF OneFileInv

\* What module Shipper calls shipped and read, in terms of the batch and the position.
Gathered ==
  /\ Len(batch) \in Nat /\ DOMAIN batch = 1..Len(batch)
  /\ \A k \in 1..Len(batch) : batch[k].offset \in 0..MaxLines /\ batch[k].offset = Base + k
  /\ Base \in Int /\ ShippedTo = Base
  /\ Shipping => Len(batch) \in 1..BatchSize /\ ReadTo = Base + Len(batch)
  /\ ~Shipping => ReadTo = Base

LEMMA BatchEnds ==
  ASSUME SingleFile, OneFileInv
  PROVE  Gathered
<1>. USE DEF OneFileInv
<1>1. /\ Len(batch) \in Nat /\ DOMAIN batch = 1..Len(batch) /\ BatchSize \in Nat
      /\ Base \in Int /\ positions[TheFile].offset = Base + Sent
  BY BatchFlow, SendableRange, PlacesOfFile, Constants
<1>2. \A k \in 1..Len(batch) : batch[k].offset \in 0..MaxLines /\ batch[k].offset = Base + k
  <2>. SUFFICES ASSUME NEW k \in 1..Len(batch)
                PROVE  batch[k].offset \in 0..MaxLines /\ batch[k].offset = Base + k
    OBVIOUS
  <2>1. k \in 1..Len(Flow) /\ Flow[k] = batch[k]
    BY BatchFlow, FlowIs
  <2>2. Flow[k].offset = Base + k /\ Flow[k] \in Entry
    BY <2>1, FlowIs DEF Contiguous, InFlow
  <2>. QED  BY <2>1, <2>2 DEF Entry
<1>3. Shipping => Len(batch) \in 1..BatchSize
  BY DEF Shipping, Batched
<1>4. ShippedTo = Base
  <2>1. CASE spc = "save"
    <3>1. 1 \in 1..Len(batch)
      BY <1>1, <1>3, <2>1 DEF Shipping
    <3>2. Head(batch) = batch[1]
      BY <1>1, <3>1 DEF AgentTypes, FlowTypes
    <3>3. ShippedTo = (Base + 1) - 1
      BY <1>2, <2>1, <3>1, <3>2 DEF ShippedTo
    <3>. QED  BY <1>1, <3>3
  <2>2. CASE spc # "save"
    BY <1>1, <2>2 DEF ShippedTo, Sent
  <2>. QED  BY <2>1, <2>2
<1>5. Shipping => ReadTo = Base + Len(batch)
  <2>. SUFFICES ASSUME Shipping PROVE ReadTo = Base + Len(batch)
    OBVIOUS
  <2>1. Len(batch) \in 1..Len(batch)
    BY <1>1, <1>3
  <2>. QED  BY <1>2, <2>1 DEF ReadTo
<1>. QED  BY <1>1, <1>2, <1>3, <1>4, <1>5 DEF Gathered, ReadTo

\* What the server has taken or refused stays so.
LEMMA HandedGrows ==
  ASSUME SingleFile, AgentTypes, AgentTypes', [Next]_agentVars
  PROVE  /\ Accepted \cup dropped \subseteq Accepted' \cup dropped'
         /\ (Accepted \cup dropped)' \in SUBSET (1..MaxLines)
         /\ (~CallOk /\ ~CallBroken) \/ ~ShipperStep => UNCHANGED (Accepted \cup dropped)
<1>1. (Accepted \cup dropped)' \in SUBSET (1..MaxLines)
  BY DEF Accepted, AgentTypes, ShipperTypes
<1>2. CASE UNCHANGED <<copies, dropped>>
  BY <1>1, <1>2 DEF Accepted
<1>3. CASE ShipperStep /\ (CallOk \/ CallBroken)
  <2>1. \E n \in 0..Len(batch) : \E D \in SUBSET (1..n) : Deliver(n, D)
    <3>1. CASE CallOk
      <4>1. Len(batch) \in 0..Len(batch) /\ DOMAIN batch = 1..Len(batch)
        BY SendableRange
      <4>. QED  BY <3>1, <4>1 DEF CallOk
    <3>2. CASE CallBroken
      <4>1. \A n \in 0..Sendable : n \in 0..Len(batch)
        BY SendableRange
      <4>. QED  BY <3>2, <4>1 DEF CallBroken
    <3>. QED  BY <1>3, <3>1, <3>2
  <2>2. Accepted \subseteq Accepted' /\ dropped \subseteq dropped'
    BY <2>1, DeliverDone
  <2>. QED  BY <1>1, <1>3, <2>2
<1>4. CASE ShipperStep /\ ~CallOk /\ ~CallBroken
  <2>1. UNCHANGED <<copies, dropped>>
    BY <1>4 DEF ShipperStep, Receive, Tick, ChannelClosed, CallRefused, CallUnsendable, Retry,
                Abandon, Save, SaveFails, serverVars
  <2>. QED  BY <1>2, <2>1
<1>5. CASE NodeStep \/ TailerStep \/ SendEntry \/ Cancel \/ Restart \/ UNCHANGED agentVars
  <2>1. UNCHANGED <<copies, dropped>>
    BY <1>5 DEF NodeStep, TailerStep, SendEntry, Cancel, Restart, agentVars, serverVars
  <2>. QED  BY <1>2, <2>1
<1>. QED  BY <1>3, <1>4, <1>5 DEF Next

LEMMA ShipperShips ==
  ASSUME SingleFile, OneFileInv, OneFileInv', Gathered, Gathered', ShipperStep
  PROVE  [Lines!Next]_(Lines!shipperState)
<1>. USE DEF OneFileInv, Lines!Next, Lines!shipperState
<1>0. /\ ~cancelled /\ ~final /\ tpc # "stopped" /\ MaxLines \in Nat /\ TheFile \in Path
      /\ [Next]_agentVars
  BY Constants, OnePath DEF Undisturbed, Next
<1>1. CASE Receive
  <2>1. /\ UNCHANGED <<positions, saved>> /\ spc = "collect" /\ spc' \in {"collect", "call"}
        /\ UNCHANGED (Accepted \cup dropped)
    BY <1>0, <1>1, HandedGrows DEF Receive, CallOk, CallBroken
  <2>2. ~Shipping /\ ReadTo = ShippedTo /\ UNCHANGED ShippedTo
    BY <2>1 DEF Shipping, ShippedTo, Gathered
  <2>3. CASE spc' = "collect"
    <3>1. ~Shipping' /\ ReadTo' = ShippedTo'
      BY <2>3 DEF Shipping, Gathered
    <3>. QED  BY <2>1, <2>2, <3>1
  <2>4. CASE spc' = "call"
    <3>1. /\ Shipping' /\ Len(batch') \in 1..BatchSize /\ ReadTo' = ShippedTo' + Len(batch')
          /\ ReadTo' = batch'[Len(batch')].offset
      BY <2>4 DEF Shipping, Gathered, ReadTo
    <3>2. ReadTo' <= MaxLines
      <4>1. Len(batch') \in 1..Len(batch')
        BY <3>1, Constants
      <4>. QED  BY <1>0, <3>1, <4>1 DEF Gathered
    <3>. QED  BY <2>1, <2>2, <3>1, <3>2 DEF Lines!Gather
  <2>. QED  BY <2>1, <2>3, <2>4
<1>2. CASE Tick
  <2>1. /\ UNCHANGED <<positions, saved>> /\ spc = "collect" /\ spc' = "call"
        /\ UNCHANGED (Accepted \cup dropped)
    BY <1>0, <1>2, HandedGrows DEF Tick, CallOk, CallBroken
  <2>2. ~Shipping /\ ReadTo = ShippedTo /\ UNCHANGED ShippedTo
    BY <2>1 DEF Shipping, ShippedTo, Gathered
  <2>3. /\ Shipping' /\ Len(batch') \in 1..BatchSize /\ ReadTo' = ShippedTo' + Len(batch')
        /\ ReadTo' = batch'[Len(batch')].offset
    BY <2>1 DEF Shipping, Gathered, ReadTo
  <2>4. ReadTo' <= MaxLines
    <3>1. Len(batch') \in 1..Len(batch')
      BY <2>3, Constants
    <3>. QED  BY <1>0, <2>3, <3>1 DEF Gathered
  <2>. QED  BY <2>1, <2>2, <2>3, <2>4 DEF Lines!Gather
<1>3. CASE CallOk \/ CallBroken
  <2>1. UNCHANGED <<batch, saved>> /\ Shipping /\ Shipping'
    BY <1>0, <1>3 DEF CallOk, CallBroken, CallFailed, Shipping
  <2>2. UNCHANGED ReadTo
    BY <2>1 DEF ReadTo
  <2>3. /\ ReadTo = ShippedTo + Len(batch) /\ ReadTo' = ShippedTo' + Len(batch)
        /\ Len(batch) \in Nat /\ ShippedTo \in Int /\ ShippedTo' \in Int
    BY <2>1 DEF Gathered
  <2>4. UNCHANGED ShippedTo
    BY <2>2, <2>3
  <2>5. Lines!Hand((Accepted \cup dropped)')
    BY <1>0, <2>1, <2>2, <2>4, HandedGrows DEF Lines!Hand
  <2>. QED  BY <1>0, <2>5, HandedGrows
<1>4. CASE CallUnsendable \/ Retry
  <2>1. /\ UNCHANGED <<batch, positions, saved>> /\ Shipping /\ Shipping'
        /\ spc # "save" /\ spc' # "save" /\ UNCHANGED (Accepted \cup dropped)
    BY <1>0, <1>4, HandedGrows DEF CallUnsendable, Retry, CallFailed, Shipping, serverVars, Accepted
  <2>. QED  BY <2>1 DEF ReadTo, ShippedTo
<1>5. CASE Save \/ SaveFails
  <2>1. /\ UNCHANGED positions /\ spc = "save" /\ spc' = "collect" /\ saved' \in {saved, positions}
        /\ UNCHANGED (Accepted \cup dropped)
    BY <1>0, <1>5 DEF Save, SaveFails, FlushEnds, serverVars, Accepted
  <2>2. /\ Shipping /\ ~Shipping' /\ Sent = Len(batch)
    BY <2>1 DEF Shipping, Sent
  <2>3. /\ ReadTo = ShippedTo + Len(batch) /\ ReadTo = positions[TheFile].offset
        /\ ReadTo' = ShippedTo' /\ ShippedTo' = positions[TheFile].offset
    BY <2>1, <2>2, PlacesOfFile DEF Gathered, ShippedTo
  <2>4. (ShippedTo + 1)..ReadTo \subseteq Accepted \cup dropped
    <3>. SUFFICES ASSUME NEW i \in (ShippedTo + 1)..ReadTo PROVE i \in Accepted \cup dropped
      OBVIOUS
    <3>1. Len(batch) \in Nat /\ ShippedTo \in Int /\ ReadTo = ShippedTo + Len(batch)
      BY <2>3 DEF Gathered
    <3>2. i - ShippedTo \in 1..Len(batch)
      BY <3>1
    <3>3. PICK k \in 1..Len(batch) : i = ShippedTo + k
      BY <3>1, <3>2
    <3>4. batch[k].offset = i
      BY <3>3 DEF Gathered
    <3>. QED  BY <2>1, <3>4 DEF Batched
  <2>5. saved'[TheFile].offset \in {saved[TheFile].offset, ReadTo}
    BY <2>1, <2>3
  <2>6. ShippedTo' = ReadTo /\ UNCHANGED ReadTo
    BY <2>3
  <2>. QED  BY <2>1, <2>2, <2>4, <2>5, <2>6 DEF Lines!Commit
<1>6. ~ChannelClosed /\ ~CallRefused /\ ~Abandon
  BY <1>0 DEF ChannelClosed, CallRefused, Abandon, MayAbandon
<1>. QED  BY <1>1, <1>2, <1>3, <1>4, <1>5, <1>6 DEF ShipperStep

LEMMA OneFileShips ==
  ASSUME SingleFile, OneFileInv, OneFileInv', Gathered, Gathered', [Next]_agentVars
  PROVE  [Lines!Next]_(Lines!shipperState)
<1>. USE DEF OneFileInv
<1>1. CASE ShipperStep
  BY <1>1, ShipperShips
<1>2. CASE Restart
  <2>1. /\ positions' = saved /\ saved' = saved /\ spc' = "collect"
        /\ UNCHANGED (Accepted \cup dropped)
    BY <1>2 DEF Restart, serverVars, Accepted
  <2>2. ~Shipping' /\ ShippedTo' = saved[TheFile].offset
    BY <2>1 DEF Shipping, ShippedTo
  <2>3. ReadTo' = ShippedTo'
    BY <2>2 DEF Gathered
  <2>. QED  BY <2>1, <2>2, <2>3 DEF Lines!Restart, Lines!Next
<1>3. CASE NodeStep \/ SendEntry \/ TailerStep \/ UNCHANGED agentVars
  <2>1. /\ UNCHANGED <<spc, batch, saved>> /\ UNCHANGED (Accepted \cup dropped)
    BY <1>3 DEF NodeStep, SendEntry, TailerStep, agentVars, shipperVars, serverVars, Accepted
  <2>2. positions'[TheFile] = positions[TheFile]
    <3>1. CASE PollEnds
      <4>1. /\ tpc = "scan"
            /\ positions' = [q \in Path |-> IF q \in seen THEN positions[q] ELSE NoPosition]
        BY <3>1 DEF PollEnds
      <4>. QED  BY <4>1, OnePath DEF Contiguous, Unseen
    <3>2. CASE ~PollEnds
      BY <1>3, <3>2 DEF NodeStep, SendEntry, TailerStep, PollStarts, TailerStops, SendCancelled,
                        EndOfFile, ReadLine, OpenFails, OpenFile, agentVars
    <3>. QED  BY <3>1, <3>2
  <2>. QED  BY <2>1, <2>2 DEF Lines!shipperState, Shipping, ShippedTo, ReadTo
<1>4. ~Cancel
  BY DEF Cancel, SingleFile
<1>. QED  BY <1>1, <1>2, <1>3, <1>4 DEF Next

\* "Only after that receipt is it safe to save the batch's file positions"
\* (Shipper), in the agent: of a file that is only appended to, batches are the next
\* lines without a gap, and the position moves from one end of a batch to the other,
\* when all its lines were handed over, or back to the saved one.
THEOREM OneFileRefinement ==
  ASSUME SingleFile
  PROVE  OneFileSpec => ImplementsShipper
<1>1. ASSUME Init PROVE Lines!Init
  <2>1. /\ spc = "collect" /\ saved[TheFile] = NoPosition /\ positions[TheFile] = NoPosition
        /\ dropped = {} /\ copies = [i \in 1..MaxLines |-> 0]
    BY <1>1, OnePath DEF Init
  <2>2. Accepted = {}
    BY <2>1 DEF Accepted
  <2>. QED  BY <2>1, <2>2 DEF Lines!Init, Shipping, ShippedTo, ReadTo, NoPosition
<1>2. Init => OneFileInv
  BY OneFileInit
<1>3. OneFileInv /\ [Next /\ OnlyAppended]_agentVars => OneFileInv'
  BY OneFileStep
<1>4. OneFileInv => Gathered
  BY BatchEnds
<1>5. OneFileInv /\ OneFileInv' /\ Gathered /\ Gathered' /\ [Next /\ OnlyAppended]_agentVars
        => [Lines!Next]_(Lines!shipperState)
  BY OneFileShips
<1>. QED  BY <1>1, <1>2, <1>3, <1>4, <1>5, PTL DEF OneFileSpec, ImplementsShipper, Lines!Spec

=============================================================================
