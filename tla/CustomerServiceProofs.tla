------------------------ MODULE CustomerServiceProofs -----------------------
(***************************************************************************)
(* Proofs about module CustomerService, for any number of clients, any set *)
(* of addresses and any bounds on writes and failures.                     *)
(***************************************************************************)
EXTENDS CustomerService, TLAPS

USE DEF Maybe, TypeOK

-----------------------------------------------------------------------------
(* Type correctness, part by part.                                         *)

\* What proceeding and replying do to the calls.
LEMMA ProceedTypes ==
  ASSUME CallTypes, NEW c \in Client, NEW p \in Places, NEW i \in Id,
         NEW r \in Maybe(Row), Proceed(c, p, i, r)
  PROVE  CallTypes'
<1>1. i \in 0 .. MaxId
  BY CustomerAssumption DEF Id
<1>. QED  BY <1>1 DEF CallTypes, Proceed

LEMMA ReplyTypes ==
  ASSUME CallTypes, NEW c \in Client, NEW code \in Codes, Reply(c, code)
  PROVE  CallTypes'
<1>1. 0 \in 0 .. MaxId
  BY CustomerAssumption
<1>. QED  BY <1>1 DEF CallTypes, Reply, Places

\* The steps of a call that end it without a write.
LEMMA FailureTypes ==
  ASSUME TypeOK, NEW c \in Client,
         StatementFails(c) \/ CommittedButFailed(c) \/ Refuse(c)
  PROVE  CallTypes' /\ FaultTypes'
<1>1. CallTypes'
  <2>1. "Internal" \in Codes /\ "InvalidArgument" \in Codes
    BY DEF Codes
  <2>2. Reply(c, "Internal") \/ Reply(c, "InvalidArgument")
    BY DEF StatementFails, CommittedButFailed, Refuse
  <2>. QED  BY <2>1, <2>2, ReplyTypes
<1>2. CASE StatementFails(c)
  BY <1>1, <1>2 DEF FaultTypes, StatementFails
<1>3. CASE CommittedButFailed(c)
  <2>1. /\ lostReplies' = lostReplies + 1 /\ dbFailed' = TRUE
        /\ UNCHANGED <<redisFaults, lostDels, staleFills>>
    BY <1>3 DEF CommittedButFailed
  <2>. QED  BY <1>1, <2>1 DEF FaultTypes
<1>4. CASE Refuse(c)
  BY <1>1, <1>4 DEF FaultTypes, Refuse, faultVars
<1>. QED  BY <1>2, <1>3, <1>4

\* A failed Redis command is counted.
LEMMA RedisFaultTypes ==
  ASSUME FaultTypes, RedisFails, UNCHANGED <<lostReplies, dbFailed>>,
         lostDels' \in {lostDels, lostDels + 1}, UNCHANGED staleFills
  PROVE  FaultTypes'
  BY DEF FaultTypes, RedisFails

LEMMA UnchangedTypes ==
  ASSUME TypeOK
  PROVE  /\ UNCHANGED dbVars => DbTypes'
         /\ UNCHANGED cache => CacheTypes'
         /\ UNCHANGED callVars => CallTypes'
         /\ UNCHANGED faultVars => FaultTypes'
<1>1. UNCHANGED dbVars => DbTypes'
  BY DEF dbVars, DbTypes
<1>2. UNCHANGED cache => CacheTypes'
  BY DEF CacheTypes
<1>3. UNCHANGED callVars => CallTypes'
  BY DEF callVars, CallTypes
<1>4. UNCHANGED faultVars => FaultTypes'
  BY DEF faultVars, FaultTypes
<1>. QED  BY <1>1, <1>2, <1>3, <1>4

\* A stored address is one of Raw.
LEMMA NewRow ==
  ASSUME NEW raw \in Raw, NEW v \in Nat
  PROVE  [email |-> NewEmail(raw), version |-> v] \in Row
  BY CustomerAssumption DEF NewEmail, Row

\* The codes a call replies with, and the places it goes to.
LEMMA CodesAndPlaces ==
  /\ {"OK", "NotFound", "AlreadyExists", "InvalidArgument", "Internal"} \subseteq Codes
  /\ {"select", "set", "del"} \subseteq Places
  BY DEF Codes, Places

LEMMA CreateTypes ==
  ASSUME TypeOK, NEW c \in Client, NEW raw \in Raw, NEW validName \in BOOLEAN,
         Create(c, raw, validName)
  PROVE  TypeOK'
<1>1. CASE Refuse(c)
  BY <1>1, FailureTypes, UnchangedTypes DEF Refuse
<1>2. CASE StatementFails(c)
  BY <1>2, FailureTypes, UnchangedTypes DEF StatementFails
<1>3. CASE InsertRow(c, raw)
  <2>1. CallTypes' /\ FaultTypes'
    <3>1. CASE CommittedButFailed(c)
      BY <3>1, FailureTypes
    <3>2. CASE (Reply(c, "OK") \/ Reply(c, "AlreadyExists")) /\ UNCHANGED faultVars
      BY <3>2, ReplyTypes, UnchangedTypes, CodesAndPlaces
    <3>. QED  BY <1>3, <3>1, <3>2 DEF InsertRow
  <2>2. nextId' \in 1 .. MaxId + 1
    BY <1>3, CustomerAssumption DEF InsertRow, Id
  <2>3. table' \in [Id -> Maybe(Row)]
    <3>1. writes \in Nat /\ table \in [Id -> Maybe(Row)]
      BY DEF DbTypes
    <3>2. [email |-> NewEmail(raw), version |-> writes] \in Row
      BY <3>1, NewRow
    <3>3. \/ table' = table
          \/ table' = [table EXCEPT ![nextId] = [email |-> NewEmail(raw), version |-> writes]]
      BY <1>3 DEF InsertRow
    <3>. QED  BY <3>1, <3>2, <3>3
  <2>4. UNCHANGED <<writes, cache>>
    BY <1>3 DEF InsertRow
  <2>5. DbTypes' /\ CacheTypes'
    BY <2>2, <2>3, <2>4, UnchangedTypes DEF DbTypes
  <2>. QED  BY <2>1, <2>5
<1>. QED  BY <1>1, <1>2, <1>3 DEF Create

LEMMA GetTypes ==
  ASSUME TypeOK, NEW c \in Client, NEW i \in Id, Get(c, i)
  PROVE  TypeOK'
<1>1. DbTypes' /\ CacheTypes'
  BY UnchangedTypes DEF Get, MissOnRedisFault
<1>2. CallTypes'
  <2>1. Reply(c, "OK") \/ Proceed(c, "select", i, NoRow)
    BY DEF Get, MissOnRedisFault
  <2>. QED  BY <2>1, ReplyTypes, ProceedTypes, CodesAndPlaces
<1>3. FaultTypes'
  <2>1. CASE UNCHANGED faultVars
    BY <2>1, UnchangedTypes
  <2>2. CASE MissOnRedisFault(c, i)
    BY <2>2, RedisFaultTypes DEF MissOnRedisFault
  <2>. QED  BY <2>1, <2>2 DEF Get
<1>. QED  BY <1>1, <1>2, <1>3

LEMMA SelectTypes ==
  ASSUME TypeOK, NEW c \in Client, Select(c)
  PROVE  TypeOK'
<1>1. target[c] \in Id /\ table[target[c]] \in Maybe(Row)
  BY DEF CallTypes, DbTypes, Select
<1>2. CASE StatementFails(c)
  BY <1>2, FailureTypes, UnchangedTypes DEF StatementFails
<1>3. CASE /\ Proceed(c, "set", target[c], table[target[c]]) \/ Reply(c, "NotFound")
           /\ UNCHANGED <<dbVars, cache, faultVars>>
  <2>1. CallTypes'
    BY <1>1, <1>3, ReplyTypes, ProceedTypes, CodesAndPlaces
  <2>. QED  BY <1>3, <2>1, UnchangedTypes
<1>. QED  BY <1>2, <1>3 DEF Select

LEMMA SetTypes ==
  ASSUME TypeOK, NEW c \in Client, Set(c)
  PROVE  TypeOK'
<1>1. target[c] \in Id /\ held[c] \in Maybe(Row) /\ FaultTypes
  BY DEF CallTypes, Set
<1>2. CallTypes' /\ DbTypes'
  BY ReplyTypes, CodesAndPlaces, UnchangedTypes DEF Set
<1>3. CacheTypes'
  BY <1>1 DEF Set, CacheTypes
<1>4. FaultTypes'
  <2>1. CASE RedisFails /\ UNCHANGED staleFills
    BY <1>1, <2>1, RedisFaultTypes DEF Set
  <2>2. CASE UNCHANGED redisFaults /\ staleFills' \in {staleFills, staleFills + 1}
    <3>1. UNCHANGED <<lostReplies, lostDels, dbFailed>>
      BY DEF Set
    <3>. QED  BY <1>1, <2>2, <3>1 DEF FaultTypes
  <2>. QED  BY <2>1, <2>2 DEF Set
<1>. QED  BY <1>2, <1>3, <1>4

\* Update and Delete leave a well-typed table behind, or the table as it was.
LEMMA WriteTypes ==
  ASSUME TypeOK, NEW c \in Client, NEW i \in Id, NEW r \in Maybe(Row),
         UNCHANGED <<nextId, cache>>,
         writes' = writes + 1, table' = [table EXCEPT ![i] = r],
         \/ (Proceed(c, "del", i, r) \/ Reply(c, "OK")) /\ UNCHANGED faultVars
         \/ CommittedButFailed(c)
  PROVE  TypeOK'
<1>1. DbTypes' /\ CacheTypes'
  BY DEF DbTypes, CacheTypes
<1>2. CallTypes' /\ FaultTypes'
  BY FailureTypes, ProceedTypes, ReplyTypes, CodesAndPlaces, UnchangedTypes
<1>. QED  BY <1>1, <1>2

LEMMA UpdateTypes ==
  ASSUME TypeOK, NEW c \in Client, NEW i \in Id, NEW raw \in Raw, NEW validName \in BOOLEAN,
         Update(c, i, raw, validName)
  PROVE  TypeOK'
<1>1. CASE Refuse(c)
  BY <1>1, FailureTypes, UnchangedTypes DEF Refuse
<1>2. CASE StatementFails(c)
  BY <1>2, FailureTypes, UnchangedTypes DEF StatementFails
<1>3. CASE UpdateRow(c, i, raw)
  <2>1. CASE /\ Reply(c, "NotFound") \/ Reply(c, "AlreadyExists")
             /\ UNCHANGED <<table, writes, faultVars>>
    <3>1. UNCHANGED <<dbVars, cache, faultVars>>
      BY <1>3, <2>1 DEF UpdateRow, dbVars
    <3>. QED  BY <2>1, <3>1, ReplyTypes, CodesAndPlaces, UnchangedTypes
  <2>2. CASE /\ writes' = writes + 1
             /\ table' = [table EXCEPT ![i] = [email |-> NewEmail(raw), version |-> writes']]
             /\ \/ Proceed(c, "del", i, table'[i]) /\ UNCHANGED faultVars
                \/ CommittedButFailed(c)
    <3>1. writes' \in Nat /\ table \in [Id -> Maybe(Row)]
      BY <2>2 DEF DbTypes
    <3>2. [email |-> NewEmail(raw), version |-> writes'] \in Maybe(Row)
      BY <3>1, NewRow
    <3>3. table'[i] = [email |-> NewEmail(raw), version |-> writes']
      BY <2>2, <3>1
    <3>4. UNCHANGED <<nextId, cache>>
      BY <1>3 DEF UpdateRow
    <3>. QED  BY <2>2, <3>2, <3>3, <3>4, WriteTypes
  <2>. QED  BY <1>3, <2>1, <2>2 DEF UpdateRow
<1>. QED  BY <1>1, <1>2, <1>3 DEF Update

LEMMA DeleteTypes ==
  ASSUME TypeOK, NEW c \in Client, NEW i \in Id, Delete(c, i)
  PROVE  TypeOK'
<1>1. CASE StatementFails(c)
  BY <1>1, FailureTypes, UnchangedTypes DEF StatementFails
<1>2. CASE DeleteRow(c, i)
  <2>1. CASE Reply(c, "NotFound") /\ UNCHANGED <<table, writes, faultVars>>
    <3>1. UNCHANGED <<dbVars, cache, faultVars>>
      BY <1>2, <2>1 DEF DeleteRow, dbVars
    <3>. QED  BY <2>1, <3>1, ReplyTypes, CodesAndPlaces, UnchangedTypes
  <2>2. CASE table[i] # NoRow
    <3>1. /\ UNCHANGED <<nextId, cache>>
          /\ writes' = writes + 1 /\ table' = [table EXCEPT ![i] = NoRow]
          /\ \/ Proceed(c, "del", i, NoRow) /\ UNCHANGED faultVars
             \/ CommittedButFailed(c)
      BY <1>2, <2>2 DEF DeleteRow, DeletedThen
    <3>. QED  BY <3>1, WriteTypes
  <2>. QED  BY <1>2, <2>1, <2>2 DEF DeleteRow
<1>. QED  BY <1>1, <1>2 DEF Delete

LEMMA InvalidateTypes ==
  ASSUME TypeOK, NEW c \in Client, Invalidate(c)
  PROVE  TypeOK'
<1>1. target[c] \in Id /\ FaultTypes
  BY DEF CallTypes, Invalidate
<1>2. CallTypes' /\ DbTypes'
  BY ReplyTypes, CodesAndPlaces, UnchangedTypes DEF Invalidate
<1>3. CacheTypes'
  BY <1>1 DEF Invalidate, CacheTypes
<1>4. FaultTypes'
  <2>1. CASE RedisFails /\ lostDels' = lostDels + 1
    BY <1>1, <2>1, RedisFaultTypes DEF Invalidate
  <2>2. CASE UNCHANGED <<redisFaults, lostDels>>
    BY <1>1, <2>2 DEF Invalidate, FaultTypes
  <2>. QED  BY <2>1, <2>2 DEF Invalidate
<1>. QED  BY <1>2, <1>3, <1>4

LEMMA ExpireTypes ==
  ASSUME TypeOK, NEW i \in Id, Expire(i)
  PROVE  TypeOK'
<1>1. CacheTypes'
  BY DEF Expire, CacheTypes
<1>. QED  BY <1>1, UnchangedTypes DEF Expire

LEMMA TypeStep == TypeOK /\ [Next]_customerVars => TypeOK'
<1>. SUFFICES ASSUME TypeOK, [Next]_customerVars PROVE TypeOK'
  OBVIOUS
<1>1. CASE UNCHANGED customerVars
  BY <1>1, UnchangedTypes DEF customerVars
<1>. QED  BY <1>1, CreateTypes, GetTypes, SelectTypes, SetTypes, UpdateTypes,
             DeleteTypes, InvalidateTypes, ExpireTypes DEF Next, Finish

LEMMA InitTypes == Init => TypeOK
<1>. SUFFICES ASSUME Init PROVE TypeOK
  OBVIOUS
<1>1. DbTypes /\ CacheTypes
  BY CustomerAssumption DEF Init, DbTypes, CacheTypes
<1>2. CallTypes
  <2>. 0 \in 0 .. MaxId
    BY CustomerAssumption
  <2>. QED  BY DEF Init, CallTypes, Places, Codes
<1>3. FaultTypes
  BY DEF Init, FaultTypes
<1>. QED  BY <1>1, <1>2, <1>3

\* Every reachable state is well typed: in particular a call past its first
\* step is about an id the sequence can hand out.
THEOREM TypeCorrect == Spec => []TypeOK
  BY InitTypes, TypeStep, PTL DEF Spec

-----------------------------------------------------------------------------
(* Addresses are unique.                                                   *)

\* Rows hold normalised addresses, so the UNIQUE constraint on the text is a
\* constraint on the address.
Addresses ==
  /\ \A i \in Id : table[i] # NoRow => table[i] \in Row /\ Lower[table[i].email] = table[i].email
  /\ EmailsUnique

\* What one statement may do to the table.
LEMMA TableStep ==
  ASSUME TypeOK, [Next]_customerVars
  PROVE  \/ UNCHANGED table
         \/ \E i \in Id : table' = [table EXCEPT ![i] = NoRow]
         \/ \E i \in Id, raw \in Raw, v \in Nat :
              /\ ~Taken(NewEmail(raw), i)
              /\ table' = [table EXCEPT ![i] = [email |-> NewEmail(raw), version |-> v]]
<1>1. CASE UNCHANGED customerVars
  BY <1>1 DEF customerVars, dbVars
<1>2. ASSUME NEW c \in Client, Finish(c) PROVE UNCHANGED table
  BY <1>2 DEF Finish, Select, Set, Invalidate, StatementFails, dbVars
<1>3. ASSUME NEW i \in Id, Expire(i) PROVE UNCHANGED table
  BY <1>3 DEF Expire, dbVars
<1>4. ASSUME NEW c \in Client, NEW i \in Id, Get(c, i) PROVE UNCHANGED table
  BY <1>4 DEF Get, MissOnRedisFault, dbVars
<1>5. ASSUME NEW c \in Client, NEW i \in Id, Delete(c, i)
      PROVE  UNCHANGED table \/ table' = [table EXCEPT ![i] = NoRow]
  BY <1>5 DEF Delete, DeleteRow, StatementFails, dbVars
<1>6. ASSUME NEW c \in Client, NEW raw \in Raw, NEW validName \in BOOLEAN,
             Create(c, raw, validName)
      PROVE  \/ UNCHANGED table
             \/ /\ nextId \in Id /\ ~Taken(NewEmail(raw), nextId) /\ writes \in Nat
                /\ table' = [table EXCEPT ![nextId] = [email |-> NewEmail(raw), version |-> writes]]
  BY <1>6 DEF Create, InsertRow, Refuse, StatementFails, dbVars, DbTypes
<1>7. ASSUME NEW c \in Client, NEW i \in Id, NEW raw \in Raw, NEW validName \in BOOLEAN,
             Update(c, i, raw, validName)
      PROVE  \/ UNCHANGED table
             \/ /\ ~Taken(NewEmail(raw), i) /\ writes' \in Nat
                /\ table' = [table EXCEPT ![i] = [email |-> NewEmail(raw), version |-> writes']]
  BY <1>7 DEF Update, UpdateRow, Refuse, StatementFails, dbVars, DbTypes
<1>. QED  BY <1>1, <1>2, <1>3, <1>4, <1>5, <1>6, <1>7 DEF Next

LEMMA AddressesStep ==
  ASSUME TypeOK, Addresses, [Next]_customerVars
  PROVE  Addresses'
<1>0. table \in [Id -> Maybe(Row)]
  BY DEF DbTypes
<1>1. CASE UNCHANGED table
  BY <1>1 DEF Addresses, EmailsUnique
<1>2. CASE \E i \in Id : table' = [table EXCEPT ![i] = NoRow]
  BY <1>0, <1>2 DEF Addresses, EmailsUnique
<1>3. ASSUME NEW i \in Id, NEW raw \in Raw, NEW v \in Nat, ~Taken(NewEmail(raw), i),
             table' = [table EXCEPT ![i] = [email |-> NewEmail(raw), version |-> v]]
      PROVE  Addresses'
  <2>1. Lower[NewEmail(raw)] = NewEmail(raw)
    BY CustomerAssumption DEF NewEmail
  <2>2. /\ table'[i] \in Row /\ table'[i].email = NewEmail(raw)
        /\ \A j \in Id \ {i} : table'[j] = table[j]
    BY <1>0, <1>3, NewRow
  <2>3. \A j \in Id \ {i} : table[j] # NoRow => Lower[table[j].email] # NewEmail(raw)
    BY <1>3 DEF Taken, Addresses
  <2>4. \A j \in Id : table'[j] # NoRow =>
          table'[j] \in Row /\ Lower[table'[j].email] = table'[j].email
    BY <2>1, <2>2 DEF Addresses
  <2>5. ASSUME NEW j \in Id, NEW k \in Id, table'[j] # NoRow, table'[k] # NoRow,
               Lower[table'[j].email] = Lower[table'[k].email]
        PROVE  j = k
    BY <2>1, <2>2, <2>3, <2>5 DEF Addresses, EmailsUnique
  <2>. QED  BY <2>4, <2>5 DEF Addresses, EmailsUnique
<1>. QED  BY <1>1, <1>2, <1>3, TableStep

\* Normalising in NewEmail makes addresses that differ only in case or blanks
\* collide: no interleaving of Create and Update calls stores two of them.
THEOREM AddressesUnique == Spec => []EmailsUnique
<1>1. Init => Addresses
  BY DEF Init, Addresses, EmailsUnique
<1>2. Addresses => EmailsUnique
  BY DEF Addresses
<1>. QED  BY <1>1, <1>2, AddressesStep, TypeCorrect, PTL DEF Spec

-----------------------------------------------------------------------------
(* Where stale cache entries come from.                                    *)

\* An id the sequence has not handed out yet is nowhere.
Sequence ==
  /\ \A i \in Id : i >= nextId => table[i] = NoRow /\ cache[i] = NoRow
  /\ \A c \in Client : pc[c] = "set" => target[c] < nextId

CacheInv == Sequence /\ StaleNeedsRaceOrFault

NoFault == lostDels = 0 /\ lostReplies = 0 /\ staleFills = 0
Invalidating(i) == \E c \in Client : pc[c] = "del" /\ target[c] = i

\* A step of one call leaves the others where they are.
LEMMA ReplyMoves ==
  ASSUME TypeOK, NEW c \in Client, NEW code, Reply(c, code)
  PROVE  /\ pc'[c] = "idle"
         /\ \A d \in Client \ {c} : pc'[d] = pc[d] /\ target'[d] = target[d]
         /\ pc[c] # "del" => \A i \in Id : Invalidating(i) => Invalidating(i)'
<1>1. /\ pc'[c] = "idle"
      /\ \A d \in Client \ {c} : pc'[d] = pc[d] /\ target'[d] = target[d]
  BY DEF Reply, CallTypes
<1>. QED  BY <1>1 DEF Invalidating

LEMMA ProceedMoves ==
  ASSUME TypeOK, NEW c \in Client, NEW p, NEW i, NEW r, Proceed(c, p, i, r)
  PROVE  /\ pc'[c] = p /\ target'[c] = i /\ held'[c] = r
         /\ \A d \in Client \ {c} : pc'[d] = pc[d] /\ target'[d] = target[d]
         /\ pc[c] # "del" => \A j \in Id : Invalidating(j) => Invalidating(j)'
<1>1. /\ pc'[c] = p /\ target'[c] = i /\ held'[c] = r
      /\ \A d \in Client \ {c} : pc'[d] = pc[d] /\ target'[d] = target[d]
  BY DEF Proceed, CallTypes
<1>. QED  BY <1>1 DEF Invalidating

\* A step that leaves table and cache alone and starts no Set keeps the
\* invariant, and so does a failure.
LEMMA QuietReply ==
  ASSUME TypeOK, CacheInv, NEW c \in Client, NEW code, Reply(c, code), pc[c] # "del",
         UNCHANGED <<table, nextId, cache>>, NoFault' => NoFault
  PROVE  CacheInv'
<1>1. Sequence'
  BY ReplyMoves DEF CacheInv, Sequence
<1>2. StaleNeedsRaceOrFault'
  <2>. SUFFICES ASSUME NoFault', NEW i \in Id
                PROVE  Fresh(i)' \/ Invalidating(i)'
    BY DEF StaleNeedsRaceOrFault, NoFault, Invalidating
  <2>. QED  BY ReplyMoves DEF CacheInv, StaleNeedsRaceOrFault, NoFault, Fresh, Invalidating
<1>. QED  BY <1>1, <1>2 DEF CacheInv

LEMMA QuietProceed ==
  ASSUME TypeOK, CacheInv, NEW c \in Client, NEW p, NEW i \in Id, NEW r,
         Proceed(c, p, i, r), pc[c] # "del", p = "set" => i < nextId,
         UNCHANGED <<table, nextId, cache>>, NoFault' => NoFault
  PROVE  CacheInv'
<1>1. Sequence'
  BY ProceedMoves DEF CacheInv, Sequence
<1>2. StaleNeedsRaceOrFault'
  <2>. SUFFICES ASSUME NoFault', NEW j \in Id
                PROVE  Fresh(j)' \/ Invalidating(j)'
    BY DEF StaleNeedsRaceOrFault, NoFault, Invalidating
  <2>. QED  BY ProceedMoves DEF CacheInv, StaleNeedsRaceOrFault, NoFault, Fresh, Invalidating
<1>. QED  BY <1>1, <1>2 DEF CacheInv

\* A committed update or delete of row i: the writer is on its way to
\* Invalidate, or its reply was lost.
LEMMA CommittedWrite ==
  ASSUME TypeOK, CacheInv, NEW c \in Client, NEW i \in Id, NEW r,
         pc[c] = "idle", table[i] # NoRow, UNCHANGED <<nextId, cache>>,
         table' = [table EXCEPT ![i] = r],
         \/ Proceed(c, "del", i, r) /\ UNCHANGED faultVars
         \/ CommittedButFailed(c)
  PROVE  CacheInv'
<1>1. i < nextId
  BY DEF CacheInv, Sequence, DbTypes, Id
<1>2. table'[i] = r /\ \A j \in Id \ {i} : table'[j] = table[j]
  BY DEF DbTypes
<1>3. CASE Proceed(c, "del", i, r) /\ UNCHANGED faultVars
  <2>1. Sequence'
    BY <1>1, <1>2, <1>3, ProceedMoves DEF CacheInv, Sequence, DbTypes, Id
  <2>2. StaleNeedsRaceOrFault'
    <3>. SUFFICES ASSUME NoFault', NEW j \in Id
                  PROVE  Fresh(j)' \/ Invalidating(j)'
      BY DEF StaleNeedsRaceOrFault, NoFault, Invalidating
    <3>1. NoFault
      BY <1>3 DEF NoFault, faultVars
    <3>2. CASE j = i
      BY <1>3, <3>2, ProceedMoves DEF Invalidating
    <3>3. CASE j # i
      <4>1. Fresh(j) \/ Invalidating(j)
        BY <3>1 DEF CacheInv, StaleNeedsRaceOrFault, NoFault, Invalidating
      <4>2. Fresh(j) => Fresh(j)'
        BY <1>2, <3>3 DEF Fresh
      <4>. QED  BY <1>3, <4>1, <4>2, ProceedMoves
    <3>. QED  BY <3>2, <3>3
  <2>. QED  BY <2>1, <2>2 DEF CacheInv
<1>4. CASE CommittedButFailed(c)
  <2>1. Sequence'
    BY <1>1, <1>2, <1>4, ReplyMoves DEF CommittedButFailed, CacheInv, Sequence, DbTypes, Id
  <2>2. lostReplies' # 0
    BY <1>4 DEF CommittedButFailed, FaultTypes
  <2>. QED  BY <2>1, <2>2 DEF CacheInv, StaleNeedsRaceOrFault
<1>. QED  BY <1>3, <1>4

LEMMA CreateStep ==
  ASSUME TypeOK, CacheInv, NEW c \in Client, NEW raw \in Raw, NEW validName \in BOOLEAN,
         Create(c, raw, validName)
  PROVE  CacheInv'
<1>0. pc[c] = "idle"
  BY DEF Create
<1>1. CASE Refuse(c) \/ StatementFails(c)
  BY <1>0, <1>1, QuietReply DEF Refuse, StatementFails, NoFault, faultVars, dbVars
<1>2. CASE InsertRow(c, raw)
  <2>1. /\ nextId \in Id /\ nextId' = nextId + 1 /\ UNCHANGED cache
        /\ table[nextId] = NoRow /\ cache[nextId] = NoRow
        /\ \A i \in Id \ {nextId} : table'[i] = table[i]
    <3>1. nextId \in Id /\ nextId' = nextId + 1 /\ UNCHANGED cache
      BY <1>2 DEF InsertRow
    <3>2. nextId >= nextId
      BY <3>1 DEF Id
    <3>3. table[nextId] = NoRow /\ cache[nextId] = NoRow
      BY <3>1, <3>2 DEF CacheInv, Sequence
    <3>4. \A i \in Id \ {nextId} : table'[i] = table[i]
      BY <1>2 DEF InsertRow, DbTypes
    <3>. QED  BY <3>1, <3>3, <3>4
  <2>2. PICK code : Reply(c, code)
    BY <1>2 DEF InsertRow, CommittedButFailed
  <2>3. NoFault' => NoFault
    BY <1>2 DEF InsertRow, CommittedButFailed, NoFault, faultVars, FaultTypes
  <2>4. Sequence'
    BY <2>1, <2>2, ReplyMoves DEF CacheInv, Sequence, DbTypes, CallTypes, Id
  <2>5. StaleNeedsRaceOrFault'
    <3>. SUFFICES ASSUME NoFault', NEW i \in Id
                  PROVE  Fresh(i)' \/ Invalidating(i)'
      BY DEF StaleNeedsRaceOrFault, NoFault, Invalidating
    <3>1. Fresh(i) \/ Invalidating(i)
      BY <2>3 DEF CacheInv, StaleNeedsRaceOrFault, NoFault, Invalidating
    <3>2. Fresh(i) => Fresh(i)'
      BY <2>1 DEF Fresh
    <3>. QED  BY <1>0, <2>2, <3>1, <3>2, ReplyMoves
  <2>. QED  BY <2>4, <2>5 DEF CacheInv
<1>. QED  BY <1>1, <1>2 DEF Create

LEMMA GetSelectStep ==
  ASSUME TypeOK, CacheInv, NEW c \in Client,
         Select(c) \/ \E i \in Id : Get(c, i)
  PROVE  CacheInv'
<1>1. ASSUME NEW i \in Id, Get(c, i) PROVE CacheInv'
  <2>1. UNCHANGED <<table, nextId, cache>> /\ pc[c] = "idle" /\ (NoFault' => NoFault)
    BY <1>1 DEF Get, MissOnRedisFault, dbVars, faultVars, NoFault
  <2>2. Reply(c, "OK") \/ Proceed(c, "select", i, NoRow)
    BY <1>1 DEF Get, MissOnRedisFault
  <2>. QED  BY <2>1, <2>2, QuietReply, QuietProceed
<1>2. ASSUME Select(c) PROVE CacheInv'
  <2>1. UNCHANGED <<table, nextId, cache>> /\ pc[c] = "select" /\ (NoFault' => NoFault)
    BY <1>2 DEF Select, StatementFails, dbVars, faultVars, NoFault
  <2>2. target[c] \in Id
    BY <2>1 DEF CallTypes
  <2>3. CASE Reply(c, "NotFound") \/ Reply(c, "Internal")
    BY <2>1, <2>3, QuietReply
  <2>4. CASE table[target[c]] # NoRow /\ Proceed(c, "set", target[c], table[target[c]])
    <3>1. target[c] < nextId
      BY <2>2, <2>4 DEF CacheInv, Sequence, DbTypes, Id
    <3>. QED  BY <2>1, <2>2, <2>4, <3>1, QuietProceed
  <2>. QED  BY <1>2, <2>3, <2>4 DEF Select, StatementFails
<1>. QED  BY <1>1, <1>2

LEMMA SetStep ==
  ASSUME TypeOK, CacheInv, NEW c \in Client, Set(c)
  PROVE  CacheInv'
<1>1. /\ pc[c] = "set" /\ target[c] \in Id /\ target[c] < nextId /\ nextId \in Nat
      /\ Reply(c, "OK") /\ UNCHANGED <<table, nextId, lostReplies, lostDels>>
  BY DEF Set, CallTypes, CacheInv, Sequence, dbVars, DbTypes
<1>2. CASE UNCHANGED <<cache, staleFills>>
  BY <1>1, <1>2, QuietReply DEF NoFault
<1>3. CASE /\ cache' = [cache EXCEPT ![target[c]] = held[c]]
           /\ staleFills' = IF held[c] = table[target[c]] THEN staleFills ELSE staleFills + 1
  <2>1. /\ cache'[target[c]] = held[c]
        /\ \A i \in Id \ {target[c]} : cache'[i] = cache[i]
    BY <1>1, <1>3 DEF CacheTypes
  <2>2. Sequence'
    BY <1>1, <2>1, ReplyMoves DEF CacheInv, Sequence, Id
  <2>3. StaleNeedsRaceOrFault'
    <3>. SUFFICES ASSUME NoFault', NEW i \in Id
                  PROVE  Fresh(i)' \/ Invalidating(i)'
      BY DEF StaleNeedsRaceOrFault, NoFault, Invalidating
    <3>1. held[c] = table[target[c]] /\ NoFault
      BY <1>1, <1>3 DEF NoFault, FaultTypes
    <3>2. CASE i = target[c]
      BY <1>1, <2>1, <3>1, <3>2 DEF Fresh
    <3>3. CASE i # target[c]
      <4>1. Fresh(i) \/ Invalidating(i)
        BY <3>1 DEF CacheInv, StaleNeedsRaceOrFault, NoFault, Invalidating
      <4>2. Fresh(i) => Fresh(i)'
        BY <1>1, <2>1, <3>3 DEF Fresh
      <4>. QED  BY <1>1, <4>1, <4>2, ReplyMoves
    <3>. QED  BY <3>2, <3>3
  <2>. QED  BY <2>2, <2>3 DEF CacheInv
<1>. QED  BY <1>2, <1>3 DEF Set

LEMMA UpdateDeleteStep ==
  ASSUME TypeOK, CacheInv, NEW c \in Client, NEW i \in Id,
         \/ Delete(c, i)
         \/ \E raw \in Raw, validName \in BOOLEAN : Update(c, i, raw, validName)
  PROVE  CacheInv'
<1>0. pc[c] = "idle"
  BY DEF Delete, Update
<1>1. CASE /\ \E code : Reply(c, code)
           /\ UNCHANGED <<table, nextId, cache>> /\ (NoFault' => NoFault)
  BY <1>0, <1>1, QuietReply
<1>2. CASE /\ table[i] # NoRow /\ UNCHANGED <<nextId, cache>>
           /\ \E r : /\ table' = [table EXCEPT ![i] = r]
                     /\ \/ Proceed(c, "del", i, r) /\ UNCHANGED faultVars
                        \/ CommittedButFailed(c)
  BY <1>0, <1>2, CommittedWrite
<1>3. CASE Delete(c, i)
  <2>1. CASE StatementFails(c)
    BY <1>1, <2>1 DEF StatementFails, dbVars, NoFault
  <2>2. CASE DeleteRow(c, i)
    BY <1>1, <1>2, <2>2 DEF DeleteRow, DeletedThen, NoFault, faultVars
  <2>. QED  BY <1>3, <2>1, <2>2 DEF Delete
<1>4. ASSUME NEW raw \in Raw, NEW validName \in BOOLEAN, Update(c, i, raw, validName)
      PROVE  CacheInv'
  <2>1. CASE StatementFails(c) \/ Refuse(c)
    BY <1>1, <2>1 DEF StatementFails, Refuse, dbVars, faultVars, NoFault
  <2>2. CASE UpdateRow(c, i, raw)
    <3>1. CASE /\ Reply(c, "NotFound") \/ Reply(c, "AlreadyExists")
               /\ UNCHANGED <<table, writes, faultVars>>
      BY <1>1, <2>2, <3>1 DEF UpdateRow, NoFault, faultVars
    <3>2. CASE /\ table[i] # NoRow
               /\ table' = [table EXCEPT ![i] = [email |-> NewEmail(raw), version |-> writes']]
               /\ \/ Proceed(c, "del", i, table'[i]) /\ UNCHANGED faultVars
                  \/ CommittedButFailed(c)
      <4>1. table'[i] = [email |-> NewEmail(raw), version |-> writes']
        BY <3>2 DEF DbTypes
      <4>. QED  BY <1>2, <2>2, <3>2, <4>1 DEF UpdateRow
    <3>. QED  BY <2>2, <3>1, <3>2 DEF UpdateRow
  <2>. QED  BY <1>4, <2>1, <2>2 DEF Update
<1>. QED  BY <1>3, <1>4

\* Invalidate and the TTL only ever make the cache fresh.
LEMMA InvalidateStep ==
  ASSUME TypeOK, CacheInv, NEW c \in Client, Invalidate(c)
  PROVE  CacheInv'
<1>1. /\ pc[c] = "del" /\ target[c] \in Id /\ Reply(c, "OK")
      /\ UNCHANGED <<table, nextId, lostReplies, staleFills>>
  BY DEF Invalidate, CallTypes, dbVars
<1>2. CASE lostDels' = lostDels + 1 /\ UNCHANGED cache
  <2>1. Sequence'
    BY <1>1, <1>2, ReplyMoves DEF CacheInv, Sequence
  <2>2. lostDels' # 0
    BY <1>2 DEF FaultTypes
  <2>. QED  BY <2>1, <2>2 DEF CacheInv, StaleNeedsRaceOrFault
<1>3. CASE cache' = [cache EXCEPT ![target[c]] = NoRow] /\ UNCHANGED lostDels
  <2>1. /\ cache'[target[c]] = NoRow
        /\ \A i \in Id \ {target[c]} : cache'[i] = cache[i]
    BY <1>1, <1>3 DEF CacheTypes
  <2>2. Sequence'
    BY <1>1, <2>1, ReplyMoves DEF CacheInv, Sequence
  <2>3. StaleNeedsRaceOrFault'
    <3>. SUFFICES ASSUME NoFault', NEW i \in Id
                  PROVE  Fresh(i)' \/ Invalidating(i)'
      BY DEF StaleNeedsRaceOrFault, NoFault, Invalidating
    <3>1. CASE i = target[c]
      BY <2>1, <3>1 DEF Fresh
    <3>2. CASE i # target[c]
      <4>1. Fresh(i) \/ Invalidating(i)
        BY <1>1, <1>3 DEF CacheInv, StaleNeedsRaceOrFault, NoFault, Invalidating
      <4>2. Fresh(i) => Fresh(i)'
        BY <1>1, <2>1, <3>2 DEF Fresh
      <4>3. Invalidating(i) => Invalidating(i)'
        BY <1>1, <3>2, ReplyMoves DEF Invalidating
      <4>. QED  BY <4>1, <4>2, <4>3
    <3>. QED  BY <3>1, <3>2
  <2>. QED  BY <2>2, <2>3 DEF CacheInv
<1>. QED  BY <1>2, <1>3 DEF Invalidate

LEMMA ExpireStep ==
  ASSUME TypeOK, CacheInv, NEW i \in Id, Expire(i)
  PROVE  CacheInv'
<1>1. /\ UNCHANGED <<table, nextId, pc, target, lostDels, lostReplies, staleFills>>
      /\ cache'[i] = NoRow /\ \A j \in Id \ {i} : cache'[j] = cache[j]
  BY DEF Expire, dbVars, callVars, faultVars, CacheTypes
<1>2. Sequence'
  BY <1>1 DEF CacheInv, Sequence
<1>3. StaleNeedsRaceOrFault'
  BY <1>1 DEF CacheInv, StaleNeedsRaceOrFault, Fresh
<1>. QED  BY <1>2, <1>3 DEF CacheInv

\* "This MUST be called after every write" (Invalidate), made precise: a stale
\* cache entry needs a writer that has not invalidated yet, a lost DEL, a lost
\* reply, or a reader that stored what it had read before a write.
THEOREM StaleEntriesExplained == Spec => []StaleNeedsRaceOrFault
<1>1. Init => CacheInv
  BY DEF Init, CacheInv, Sequence, StaleNeedsRaceOrFault, Fresh
<1>2. ASSUME TypeOK, CacheInv, [Next]_customerVars PROVE CacheInv'
  <2>1. CASE UNCHANGED customerVars
    BY <1>2, <2>1 DEF customerVars, dbVars, callVars, faultVars, CacheInv, Sequence,
                      StaleNeedsRaceOrFault, Fresh
  <2>. QED  BY <1>2, <2>1, CreateStep, GetSelectStep, SetStep, UpdateDeleteStep,
               InvalidateStep, ExpireStep DEF Next, Finish
<1>3. CacheInv => StaleNeedsRaceOrFault
  BY DEF CacheInv
<1>. QED  BY <1>1, <1>2, <1>3, TypeCorrect, PTL DEF Spec

-----------------------------------------------------------------------------
(* Redis faults.                                                           *)

\* A call that returns changes its own answer and no other.
LEMMA ReplyAnswers ==
  ASSUME TypeOK, NEW c \in Client, NEW code, Reply(c, code)
  PROVE  /\ answer'[c] = code
         /\ \A d \in Client \ {c} : answer'[d] = answer[d]
  BY DEF Reply, CallTypes

\* Every step either keeps the answers, or returns some other code than Internal
\* to one call, or follows a statement that failed; and no statement's failure is
\* forgotten.
LEMMA AnswerStep ==
  ASSUME TypeOK, [Next]_customerVars
  PROVE  /\ dbFailed => dbFailed'
         /\ \/ UNCHANGED answer
            \/ \E c \in Client, code \in Codes \ {"Internal"} : Reply(c, code)
            \/ dbFailed'
<1>. DEFINE Goal == /\ dbFailed => dbFailed'
                   /\ \/ UNCHANGED answer
                      \/ \E c \in Client, code \in Codes \ {"Internal"} : Reply(c, code)
                      \/ dbFailed'
<1>0. {"OK", "NotFound", "AlreadyExists", "InvalidArgument"} \subseteq Codes \ {"Internal"}
  BY DEF Codes
<1>1. ASSUME NEW c \in Client, NEW raw \in Raw, NEW validName \in BOOLEAN,
             Create(c, raw, validName)
      PROVE  Goal
  BY <1>0, <1>1 DEF Create, Refuse, InsertRow, StatementFails, CommittedButFailed, faultVars
<1>2. ASSUME NEW c \in Client, NEW i \in Id, Get(c, i)
      PROVE  Goal
  BY <1>0, <1>2 DEF Get, MissOnRedisFault, Proceed, faultVars
<1>3. ASSUME NEW c \in Client, NEW i \in Id, Delete(c, i)
      PROVE  Goal
  BY <1>0, <1>3 DEF Delete, DeleteRow, DeletedThen, Proceed, StatementFails,
                    CommittedButFailed, faultVars
<1>4. ASSUME NEW c \in Client, NEW i \in Id, NEW raw \in Raw, NEW validName \in BOOLEAN,
             Update(c, i, raw, validName)
      PROVE  Goal
  <2>1. CASE Refuse(c) \/ StatementFails(c)
    BY <1>0, <2>1 DEF Refuse, StatementFails, faultVars
  <2>2. CASE UpdateRow(c, i, raw)
    BY <1>0, <2>2 DEF UpdateRow, Proceed, CommittedButFailed, faultVars
  <2>. QED  BY <1>4, <2>1, <2>2 DEF Update
<1>5. ASSUME NEW c \in Client, Finish(c)
      PROVE  Goal
  <2>1. CASE Select(c)
    BY <1>0, <2>1 DEF Select, Proceed, StatementFails, faultVars
  <2>2. CASE Set(c) \/ Invalidate(c)
    BY <1>0, <2>2 DEF Set, Invalidate
  <2>. QED  BY <1>5, <2>1, <2>2 DEF Finish
<1>6. ASSUME NEW i \in Id, Expire(i)
      PROVE  Goal
  BY <1>6 DEF Expire, callVars, faultVars
<1>7. CASE UNCHANGED customerVars
  BY <1>7 DEF customerVars, callVars, faultVars
<1>. QED  BY <1>1, <1>2, <1>3, <1>4, <1>5, <1>6, <1>7 DEF Next

\* "Redis being down must never turn into a failed request" (Get): whichever Redis
\* commands fail, and in whatever order, a call ends with Internal only after a
\* statement failed.
THEOREM RedisFaultsInvisible == Spec => []RedisNeverFailsACall
<1>1. Init => RedisNeverFailsACall
  BY DEF Init, RedisNeverFailsACall
<1>2. ASSUME TypeOK, RedisNeverFailsACall, [Next]_customerVars
      PROVE  RedisNeverFailsACall'
  BY <1>2, AnswerStep, ReplyAnswers DEF RedisNeverFailsACall
<1>. QED  BY <1>1, <1>2, TypeCorrect, PTL DEF Spec

=============================================================================
