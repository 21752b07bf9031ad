--------------------------- MODULE CustomerService --------------------------
(***************************************************************************)
(* The customer RPCs: handlers, internal/service/customer.go, the Postgres *)
(* repository and the Redis cache used cache-aside.  A call is split where *)
(* it leaves the process: each SQL statement and each Redis command is one *)
(* atomic step, and calls of other clients run in between.  Postgres and   *)
(* Redis are external; a Redis command may fail (the service never learns  *)
(* of it), a statement may fail, and it may fail after it was committed.   *)
(* List reads the table only and is left out.                              *)
(***************************************************************************)
EXTENDS Naturals, FiniteSets

CONSTANTS
  Client,          \* each makes one call after the other
  MaxId,           \* bound: ids the sequence hands out
  Raw,             \* e-mail addresses as clients write them
  Lower,           \* what trimming and lowercasing makes of them
  Malformed,       \* addresses without a proper shape
  NoRow,           \* no such row, or no such key
  MaxWrites,       \* bound: committed updates and deletes
  MaxRedisFaults,  \* bound: failed Redis commands
  MaxLostReplies   \* bound: committed statements that report an error

ASSUME CustomerAssumption ==
  /\ MaxId \in Nat /\ MaxWrites \in Nat
  /\ MaxRedisFaults \in Nat /\ MaxLostReplies \in Nat
  /\ Lower \in [Raw -> Raw] /\ \A r \in Raw : Lower[Lower[r]] = Lower[r]
  /\ Malformed \subseteq Raw

Id == 1 .. MaxId
\* A row's contents: its address, and the count of writes when it was written,
\* which stands for the name and the timestamps.
Row == [email : Raw, version : Nat]
Maybe(S) == S \cup {NoRow}

ASSUME NoRowAssumption == NoRow \notin Row

VARIABLES
  table,       \* the customers table
  nextId,      \* its BIGSERIAL sequence
  writes,      \* committed writes so far
  cache,       \* Redis: the value of key customer:<id>
  pc,          \* where each call is
  target,      \* the id each call is about
  held,        \* the row each call has in its hands
  answer,      \* the status code of each client's last call
  redisFaults, \* failed Redis commands so far
  lostReplies, \* lost replies so far
  lostDels,    \* how many of the failed commands were Invalidate's DEL
  dbFailed,    \* some statement has failed
  staleFills   \* how often Set stored a row that was no longer current

dbVars     == <<table, nextId, writes>>
callVars   == <<pc, target, held, answer>>
faultVars  == <<redisFaults, lostReplies, lostDels, dbFailed, staleFills>>
customerVars == <<dbVars, cache, callVars, faultVars>>

Places == {"idle", "select", "set", "del"}
Codes  == {"none", "OK", "NotFound", "AlreadyExists", "InvalidArgument", "Internal"}

Init ==
  /\ table = [i \in Id |-> NoRow] /\ nextId = 1 /\ writes = 0
  /\ cache = [i \in Id |-> NoRow]
  /\ pc = [c \in Client |-> "idle"]
  /\ target = [c \in Client |-> 0]
  /\ held = [c \in Client |-> NoRow]
  /\ answer = [c \in Client |-> "none"]
  /\ redisFaults = 0 /\ lostReplies = 0 /\ lostDels = 0
  /\ dbFailed = FALSE /\ staleFills = 0

-----------------------------------------------------------------------------
(* Helpers.                                                                *)

\* Mutant: the cache is asked about a customer whose ID was never filled in.
ProceedWithZeroId(c, p, i, r) ==
  /\ pc' = [pc EXCEPT ![c] = p]
  /\ held' = [held EXCEPT ![c] = r]
  /\ UNCHANGED <<target, answer>>

\* The call goes on at place p about customer i, with row r in hand.
Proceed(c, p, i, r) ==
  /\ pc' = [pc EXCEPT ![c] = p]
  /\ target' = [target EXCEPT ![c] = i]
  /\ held' = [held EXCEPT ![c] = r]
  /\ UNCHANGED answer

\* The call returns: toGRPCError's code, or OK.
Reply(c, code) ==
  /\ pc' = [pc EXCEPT ![c] = "idle"]
  /\ target' = [target EXCEPT ![c] = 0]
  /\ held' = [held EXCEPT ![c] = NoRow]
  /\ answer' = [answer EXCEPT ![c] = code]

NewEmailAsWritten(raw) == raw  \* mutant: no normalisation

\* NewEmail: the stored form of an address that has a proper shape.
NewEmail(raw) == Lower[raw]
ValidEmail(raw) == NewEmail(raw) \notin Malformed

\* The UNIQUE constraint, as seen by a write to row i.
Taken(email, i) == \E j \in Id \ {i} : table[j] # NoRow /\ table[j].email = email

\* A statement fails and nothing was committed.
StatementFails(c) ==
  /\ Reply(c, "Internal")
  /\ dbFailed' = TRUE
  /\ UNCHANGED <<dbVars, cache, redisFaults, lostReplies, lostDels, staleFills>>

\* The statement was committed and its reply lost: the service returns an error
\* and goes no further.
CommittedButFailed(c) ==
  /\ lostReplies < MaxLostReplies
  /\ Reply(c, "Internal")
  /\ lostReplies' = lostReplies + 1
  /\ dbFailed' = TRUE
  /\ UNCHANGED <<redisFaults, lostDels, staleFills>>

\* A Redis command fails: Redis is down, or the request's context is done.
RedisFails ==
  /\ redisFaults < MaxRedisFaults
  /\ redisFaults' = redisFaults + 1

-----------------------------------------------------------------------------
(* Create, Get, Update, Delete.                                            *)

\* Validation comes before any I/O.
Refuse(c) ==
  /\ Reply(c, "InvalidArgument")
  /\ UNCHANGED <<dbVars, cache, faultVars>>

\* INSERT: the sequence moves on even if the address is taken.
InsertRow(c, raw) ==
  /\ nextId \in Id
  /\ nextId' = nextId + 1
  /\ UNCHANGED <<writes, cache>>
  /\ \/ /\ Taken(NewEmail(raw), nextId)
        /\ Reply(c, "AlreadyExists")
        /\ UNCHANGED <<table, faultVars>>
     \/ /\ ~Taken(NewEmail(raw), nextId)
        /\ table' = [table EXCEPT ![nextId] = [email |-> NewEmail(raw), version |-> writes]]
        /\ \/ Reply(c, "OK") /\ UNCHANGED faultVars
           \/ CommittedButFailed(c)

Create(c, raw, validName) ==
  /\ pc[c] = "idle"
  /\ \/ ~(validName /\ ValidEmail(raw)) /\ Refuse(c)
     \/ validName /\ ValidEmail(raw) /\ (InsertRow(c, raw) \/ StatementFails(c))

\* Mutant: a Redis failure fails the request.
FailOnRedisFault(c, i) ==
  /\ RedisFails
  /\ Reply(c, "Internal")
  /\ UNCHANGED <<dbVars, cache, lostReplies, lostDels, dbFailed, staleFills>>

\* A Redis failure is a miss.
MissOnRedisFault(c, i) ==
  /\ RedisFails
  /\ Proceed(c, "select", i, NoRow)
  /\ UNCHANGED <<dbVars, cache, lostReplies, lostDels, dbFailed, staleFills>>

\* GetByID, cache.Get: a hit is the answer.
Get(c, i) ==
  /\ pc[c] = "idle"
  /\ \/ /\ cache[i] # NoRow
        /\ Reply(c, "OK")
        /\ UNCHANGED <<dbVars, cache, faultVars>>
     \/ /\ cache[i] = NoRow
        /\ Proceed(c, "select", i, NoRow)
        /\ UNCHANGED <<dbVars, cache, faultVars>>
     \/ MissOnRedisFault(c, i)

\* GetByID, repo.GetByID: "not found" is not cached.
Select(c) ==
  /\ pc[c] = "select"
  /\ \/ /\ table[target[c]] # NoRow
        /\ Proceed(c, "set", target[c], table[target[c]])
        /\ UNCHANGED <<dbVars, cache, faultVars>>
     \/ /\ table[target[c]] = NoRow
        /\ Reply(c, "NotFound")
        /\ UNCHANGED <<dbVars, cache, faultVars>>
     \/ StatementFails(c)

\* GetByID, cache.Set: whatever happened to the row since it was read.
Set(c) ==
  /\ pc[c] = "set"
  /\ Reply(c, "OK")
  /\ \/ /\ cache' = [cache EXCEPT ![target[c]] = held[c]]
        /\ staleFills' = IF held[c] = table[target[c]] THEN staleFills ELSE staleFills + 1
        /\ UNCHANGED redisFaults
     \/ RedisFails /\ UNCHANGED <<cache, staleFills>>
  /\ UNCHANGED <<dbVars, lostReplies, lostDels, dbFailed>>

\* UPDATE ... RETURNING, then on to Invalidate.
UpdateRow(c, i, raw) ==
  /\ UNCHANGED <<nextId, cache>>
  /\ \/ /\ table[i] = NoRow
        /\ Reply(c, "NotFound")
        /\ UNCHANGED <<table, writes, faultVars>>
     \/ /\ table[i] # NoRow /\ Taken(NewEmail(raw), i)
        /\ Reply(c, "AlreadyExists")
        /\ UNCHANGED <<table, writes, faultVars>>
     \/ /\ table[i] # NoRow /\ ~Taken(NewEmail(raw), i)
        /\ writes < MaxWrites
        /\ writes' = writes + 1
        /\ table' = [table EXCEPT ![i] = [email |-> NewEmail(raw), version |-> writes']]
        /\ \/ Proceed(c, "del", i, table'[i]) /\ UNCHANGED faultVars
           \/ CommittedButFailed(c)

Update(c, i, raw, validName) ==
  /\ pc[c] = "idle"
  /\ \/ ~(validName /\ ValidEmail(raw)) /\ Refuse(c)
     \/ validName /\ ValidEmail(raw) /\ (UpdateRow(c, i, raw) \/ StatementFails(c))

\* Mutant: Delete returns without Invalidate.
DeletedAndDone(c, i) == Reply(c, "OK")

DeletedThen(c, i) == Proceed(c, "del", i, NoRow)

\* DELETE, then on to Invalidate.
DeleteRow(c, i) ==
  /\ UNCHANGED <<nextId, cache>>
  /\ \/ /\ table[i] = NoRow
        /\ Reply(c, "NotFound")
        /\ UNCHANGED <<table, writes, faultVars>>
     \/ /\ table[i] # NoRow
        /\ writes < MaxWrites
        /\ writes' = writes + 1
        /\ table' = [table EXCEPT ![i] = NoRow]
        /\ \/ DeletedThen(c, i) /\ UNCHANGED faultVars
           \/ CommittedButFailed(c)

Delete(c, i) ==
  /\ pc[c] = "idle"
  /\ DeleteRow(c, i) \/ StatementFails(c)

\* cache.Invalidate after the write; its failure is not noticed.
Invalidate(c) ==
  /\ pc[c] = "del"
  /\ Reply(c, "OK")
  /\ \/ /\ cache' = [cache EXCEPT ![target[c]] = NoRow]
        /\ UNCHANGED <<redisFaults, lostDels>>
     \/ RedisFails /\ lostDels' = lostDels + 1 /\ UNCHANGED cache
  /\ UNCHANGED <<dbVars, lostReplies, dbFailed, staleFills>>

-----------------------------------------------------------------------------
(* Redis drops a key when its TTL is over.                                 *)

NeverExpire(i) == FALSE /\ UNCHANGED customerVars  \* mutant: no TTL

Expire(i) ==
  /\ cache[i] # NoRow
  /\ cache' = [cache EXCEPT ![i] = NoRow]
  /\ UNCHANGED <<dbVars, callVars, faultVars>>

Finish(c) == Select(c) \/ Set(c) \/ Invalidate(c)

Next ==
  \/ \E c \in Client :
       \/ Finish(c)
       \/ \E raw \in Raw, validName \in BOOLEAN : Create(c, raw, validName)
       \/ \E i \in Id :
            \/ Get(c, i) \/ Delete(c, i)
            \/ \E raw \in Raw, validName \in BOOLEAN : Update(c, i, raw, validName)
  \/ \E i \in Id : Expire(i)

Spec == Init /\ [][Next]_customerVars

\* A call that was started is carried on, and a key's time runs out.
FairSpec ==
  /\ Spec
  /\ \A c \in Client : WF_customerVars(Finish(c))
  /\ \A i \in Id : WF_customerVars(Expire(i))

-----------------------------------------------------------------------------
(* Properties.                                                             *)

DbTypes    == table \in [Id -> Maybe(Row)] /\ nextId \in 1 .. MaxId + 1 /\ writes \in Nat
CacheTypes == cache \in [Id -> Maybe(Row)]
CallTypes  ==
  /\ pc \in [Client -> Places]
  /\ target \in [Client -> 0 .. MaxId]
  /\ \A c \in Client : pc[c] # "idle" => target[c] \in Id
  /\ held \in [Client -> Maybe(Row)]
  /\ answer \in [Client -> Codes]
FaultTypes ==
  /\ redisFaults \in Nat /\ lostReplies \in Nat /\ lostDels \in Nat
  /\ dbFailed \in BOOLEAN /\ staleFills \in Nat

\* Types, and a call past its first step is about an id the sequence hands out.
TypeOK == DbTypes /\ CacheTypes /\ CallTypes /\ FaultTypes

\* "Normalising here is what makes Ali@Example.COM and ali@example.com collide"
\* (NewEmail): no two customers have addresses that differ only in case or
\* surrounding blanks, whatever concurrent Create and Update calls do.
EmailsUnique ==
  \A i, j \in Id :
    table[i] # NoRow /\ table[j] # NoRow /\ Lower[table[i].email] = Lower[table[j].email]
      => i = j

Fresh(i) == cache[i] \in {NoRow, table[i]}

\* "This MUST be called after every write - update and delete" (Invalidate): a
\* cached row differs from the table only while a writer of that customer is on
\* its way to Invalidate, or after an Invalidate or a write's reply was lost, or
\* after a reader stored a row that had been overwritten since it read it.
StaleNeedsRaceOrFault ==
  lostDels = 0 /\ lostReplies = 0 /\ staleFills = 0 =>
    \A i \in Id : Fresh(i) \/ \E c \in Client : pc[c] = "del" /\ target[c] = i

\* "Redis being down must never turn into a failed request" (Get): a call ends
\* with Internal only if some statement failed.
RedisNeverFailsACall ==
  ~dbFailed => \A c \in Client : answer[c] # "Internal"

\* "a stale entry disappears on its own within this window" (CustomerCache.ttl):
\* once writes have stopped, the cache is eventually coherent for good, whatever
\* races and failures came before.
EventuallyCoherent == <>[](\A i \in Id : Fresh(i))

\* "Invalidate AFTER the write succeeds. Invalidating first would leave a window
\* where a concurrent reader could re-populate the cache with the old row"
\* (Update): when no call is in progress, the cache agrees with the table.
CoherentAtRest ==
  (\A c \in Client : pc[c] = "idle") => \A i \in Id : Fresh(i)

=============================================================================
