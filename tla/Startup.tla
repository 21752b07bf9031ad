------------------------------ MODULE Startup -------------------------------
(***************************************************************************)
(* The server process from main to Run and out again (cmd/server/main.go,  *)
(* internal/app/app.go): Load reads the environment (internal/config), New *)
(* opens the Postgres pool and the Redis client, starts the ingestion      *)
(* workers and listens, and Close undoes it, after Run or when New fails   *)
(* half-way.  What Run and the workers do in between is module LogServer.  *)
(*                                                                         *)
(* External: Postgres and Redis, which answer, refuse, or do not answer at *)
(* all; the port; SIGTERM.  An int32 has 2 * Half values here.             *)
(***************************************************************************)
EXTENDS Integers

CONSTANTS
  Environment,  \* the environments the process may be started in
  Default,      \* the default of each number setting
  PgxDefault,   \* the limit pgx chooses by itself
  Half,         \* an int32 ranges over -Half..Half-1
  MaxFlaps      \* bound: changes of Postgres and Redis

\* Settings that are numbers: integers and durations.
Number == {"DB_MAX_CONNS", "STARTUP_TIMEOUT", "CACHE_TTL", "LOG_WORKERS",
           "LOG_BATCH_SIZE", "LOG_FLUSH_INTERVAL", "LOG_BUFFER_SIZE"}
Url    == {"DATABASE_URL", "REDIS_URL"}

\* What the operator wrote: nothing, only blanks, something that does not parse,
\* or a value; the value of a URL does not matter.
Raw == [kind : {"unset", "blank", "garbage", "value"}, n : Int]

ASSUME StartupAssumption ==
  /\ \A env \in Environment : DOMAIN env = Number \cup Url
  /\ \A env \in Environment, s \in Number \cup Url : env[s] \in Raw
  /\ \A s \in Number : Default[s] \in Nat \ {0}
  /\ Half \in Nat \ {0} /\ PgxDefault \in 1..(Half - 1) /\ MaxFlaps \in Nat

VARIABLES
  env,        \* the environment of this process
  pc,         \* where main, New or Close is
  failed,     \* New has failed
  pool,       \* the Postgres pool: "none", "open", "closed"
  limit,      \* its MaxConns
  rdb,        \* the Redis client, likewise
  workers,    \* the ingestion workers: "none", "running", "exited"
  queue,      \* their channel: "none", "open", "closed"
  fields,     \* the fields of App that are set: "pool", "cache", "ingester"
  cancelled,  \* SIGTERM: the context of the whole process
  expired,    \* StartupTimeout has passed
  net,        \* how Postgres and Redis behave
  flaps       \* changes of net, so far

resourceVars == <<pool, limit, rdb, workers, queue, fields>>
outsideVars  == <<env, cancelled, expired, net, flaps>>
startupVars  == <<pc, failed, resourceVars, outsideVars>>

Init ==
  /\ env \in Environment
  /\ pc = "load" /\ failed = FALSE
  /\ pool = "none" /\ limit = 0 /\ rdb = "none"
  /\ workers = "none" /\ queue = "none" /\ fields = {}
  /\ cancelled = FALSE /\ expired = FALSE
  /\ net \in [Url -> {"answers", "refuses", "hangs"}] /\ flaps = 0

-----------------------------------------------------------------------------
(* config.Load.                                                            *)

Blank(s) == env[s].kind \in {"unset", "blank"}

\* getEnvInt and getEnvDuration: a default for nothing, an error for garbage.
Parses(s)  == Blank(s) \/ env[s].kind = "value"
Setting(s) == IF Blank(s) THEN Default[s] ELSE env[s].n

\* validate; the database URL and the address have defaults and are never empty.
Valid == \A s \in Number : Setting(s) > 0

CacheEnabled == ~Blank("REDIS_URL")

Fatal == pc' = "fatal"

Load ==
  /\ pc = "load"
  /\ IF (\A s \in Number : Parses(s)) /\ Valid THEN pc' = "pool" ELSE Fatal
  /\ UNCHANGED <<failed, resourceVars>>

-----------------------------------------------------------------------------
(* app.New.                                                                *)

\* int32(n).
Int32(n) == ((n + Half) % (2 * Half)) - Half
MaxInt32 == Half - 1

LimitUnguarded(n) == n                                  \* mutant
LimitFromZero(n) == IF n >= 0 THEN n ELSE PgxDefault    \* mutant

\* NewPool sets a positive limit only.
Limit(n) == IF n > 0 THEN n ELSE PgxDefault

NeverDone == FALSE  \* mutant: the pings run on a context of their own

\* startCtx has a deadline and is cancelled with the process's context.
StartCtxDone == cancelled \/ expired

Answers(u) == net[u] = "answers"
Fails(u)   == net[u] = "refuses" \/ StartCtxDone

\* New returns an error; Close runs first, except after NewPool.
Abort == failed' = TRUE /\ pc' = "stop"

OpenPool ==
  /\ pc = "pool"
  /\ IF env["DATABASE_URL"].kind = "garbage"
     THEN Fatal /\ UNCHANGED <<pool, limit>>
     ELSE /\ pool' = "open" /\ limit' = Limit(Int32(Setting("DB_MAX_CONNS")))
          /\ pc' = "pingPool"
  /\ UNCHANGED <<failed, rdb, workers, queue, fields>>

PingPool ==
  /\ pc = "pingPool"
  /\ \/ /\ Answers("DATABASE_URL")
        /\ pc' = IF CacheEnabled THEN "cache" ELSE "workers"
        /\ fields' = {"pool"} /\ UNCHANGED pool
     \/ /\ Fails("DATABASE_URL")
        /\ pool' = "closed" /\ Fatal /\ UNCHANGED fields
  /\ UNCHANGED <<failed, limit, rdb, workers, queue>>

OpenCache ==
  /\ pc = "cache"
  /\ IF env["REDIS_URL"].kind = "garbage"
     THEN Abort /\ UNCHANGED rdb
     ELSE rdb' = "open" /\ pc' = "pingCache" /\ UNCHANGED failed
  /\ UNCHANGED <<pool, limit, workers, queue, fields>>

AbortKeepingClient == Abort /\ UNCHANGED rdb  \* mutant: rdb.Close is missing

AbortWithoutClient == Abort /\ rdb' = "closed"

PingCache ==
  /\ pc = "pingCache"
  /\ \/ /\ Answers("REDIS_URL")
        /\ fields' = fields \cup {"cache"} /\ pc' = "workers"
        /\ UNCHANGED <<failed, rdb>>
     \/ Fails("REDIS_URL") /\ AbortWithoutClient /\ UNCHANGED fields
  /\ UNCHANGED <<pool, limit, workers, queue>>

\* ingest.New and Start, on the long-lived context; then the gRPC server.
StartWorkers ==
  /\ pc = "workers"
  /\ workers' = "running" /\ queue' = "open" /\ fields' = fields \cup {"ingester"}
  /\ pc' = "listen"
  /\ UNCHANGED <<failed, pool, limit, rdb>>

\* net.Listen.
Listen ==
  /\ pc = "listen"
  /\ \/ pc' = "run" /\ UNCHANGED failed
     \/ Abort
  /\ UNCHANGED resourceVars

-----------------------------------------------------------------------------
(* Run, as far as main can see, and Close.                                 *)

\* Run drains and returns nil; or Serve fails and log.Fatalf skips Close.
RunEnds ==
  /\ pc = "run"
  /\ \/ cancelled /\ pc' = "stop"
     \/ pc' = "serveFailed"
  /\ UNCHANGED <<failed, resourceVars>>

StopUntold == UNCHANGED queue  \* mutant: Stop waits without telling the workers

StopTells == queue' = IF "ingester" \in fields THEN "closed" ELSE queue

\* Ingester.Stop, if there is an ingester: close the channel ...
StopIngester ==
  /\ pc = "stop"
  /\ StopTells
  /\ pc' = "wait"
  /\ UNCHANGED <<failed, pool, limit, rdb, workers, fields>>

NobodyToWaitFor == TRUE  \* mutant: Close does not wait for the last flushes

WorkersGone == "ingester" \in fields => workers = "exited"

\* ... and wait.
WaitForWorkers ==
  /\ pc = "wait" /\ WorkersGone
  /\ pc' = "closeCache"
  /\ UNCHANGED <<failed, resourceVars>>

\* Close closes what App knows of.
CloseCache ==
  /\ pc = "closeCache"
  /\ rdb' = IF "cache" \in fields THEN "closed" ELSE rdb
  /\ pc' = "closePool"
  /\ UNCHANGED <<failed, pool, limit, workers, queue, fields>>

ClosePool ==
  /\ pc = "closePool"
  /\ pool' = IF "pool" \in fields THEN "closed" ELSE pool
  /\ pc' = IF failed THEN "fatal" ELSE "exited"
  /\ UNCHANGED <<failed, limit, rdb, workers, queue, fields>>

MainStep ==
  /\ \/ Load \/ OpenPool \/ PingPool \/ OpenCache \/ PingCache
     \/ StartWorkers \/ Listen \/ RunEnds
     \/ StopIngester \/ WaitForWorkers \/ CloseCache \/ ClosePool
  /\ UNCHANGED outsideVars

\* The workers return when the channel is closed or the context is done, after a
\* last flush that ends with it (module Ingester).
WorkersExit ==
  /\ workers = "running" /\ (queue = "closed" \/ cancelled)
  /\ workers' = "exited"
  /\ UNCHANGED <<pc, failed, pool, limit, rdb, queue, fields, outsideVars>>

-----------------------------------------------------------------------------
(* Outside.                                                                *)

Ended == pc \in {"fatal", "serveFailed", "exited"}

Signal ==
  /\ ~cancelled /\ ~Ended
  /\ cancelled' = TRUE
  /\ UNCHANGED <<pc, failed, resourceVars, env, expired, net, flaps>>

\* The timer of startCtx, which New stops when it returns.
Expire ==
  /\ ~expired /\ pc \in {"pool", "pingPool", "cache", "pingCache", "workers", "listen"}
  /\ expired' = TRUE
  /\ UNCHANGED <<pc, failed, resourceVars, env, cancelled, net, flaps>>

Flap ==
  /\ flaps < MaxFlaps /\ ~Ended
  /\ flaps' = flaps + 1
  /\ \E u \in Url, how \in {"answers", "refuses", "hangs"} :
       net[u] # how /\ net' = [net EXCEPT ![u] = how]
  /\ UNCHANGED <<pc, failed, resourceVars, env, cancelled, expired>>

Next == MainStep \/ WorkersExit \/ Signal \/ Expire \/ Flap

Spec == Init /\ [][Next]_startupVars

\* main and the workers run and the timer fires; nothing is assumed of Postgres,
\* Redis or SIGTERM.
FairSpec ==
  Spec /\ WF_startupVars(MainStep /\ pc # "run") /\ WF_startupVars(WorkersExit)
       /\ WF_startupVars(Expire)

-----------------------------------------------------------------------------
(* Properties.                                                             *)

\* Types; an open pool has a positive limit.
TypeOK ==
  /\ env \in Environment
  /\ pc \in {"load", "pool", "pingPool", "cache", "pingCache", "workers", "listen", "run",
             "stop", "wait", "closeCache", "closePool", "fatal", "serveFailed", "exited"}
  /\ {failed, cancelled, expired} \subseteq BOOLEAN
  /\ {pool, rdb} \subseteq {"none", "open", "closed"}
  /\ limit \in 0..MaxInt32 /\ (pool = "none" <=> limit = 0)
  /\ workers \in {"none", "running", "exited"} /\ queue \in {"none", "open", "closed"}
  /\ fields \subseteq {"pool", "cache", "ingester"}
  /\ net \in [Url -> {"answers", "refuses", "hangs"}] /\ flaps \in 0..MaxFlaps

\* "On any failure it closes whatever it has already opened, so a partially
\* constructed App never leaks a connection" (New): when New has failed, wherever
\* that was and whatever happened meanwhile, nothing is open or running.
NothingLeaks ==
  pc \in {"fatal", "exited"} => pool # "open" /\ rdb # "open" /\ workers # "running"

\* "closing the pool first would make the final flush fail every time" (Close):
\* no worker runs when the pool is closed, on every way that leads there.
PoolOutlivesWorkers == pool = "closed" => workers # "running"

\* "this is the total connection budget for the whole service" (DBMaxConns): the
\* pool never gets more than what was configured, and at least one connection, also
\* when int32 in New wraps the number to a negative one, to zero or to another
\* positive one; and it gets all of it when the number fits an int32.
PoolWithinBudget ==
  pool = "open" => /\ limit \in 1..Setting("DB_MAX_CONNS")
                   /\ Setting("DB_MAX_CONNS") <= MaxInt32 => limit = Setting("DB_MAX_CONNS")

\* "Bound the startup connections so a wedged dependency fails fast" (New): the
\* process comes to serve or ends, whatever Postgres and Redis do.
StartupEnds == <>(pc = "run" \/ Ended)

=============================================================================
