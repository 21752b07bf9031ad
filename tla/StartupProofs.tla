---------------------------- MODULE StartupProofs ---------------------------
(***************************************************************************)
(* Proofs about module Startup: for every set of environments, every width *)
(* of an int32 and every behaviour of Postgres and Redis.                  *)
(***************************************************************************)
EXTENDS Startup, TLAPS

Place == {"load", "pool", "pingPool", "cache", "pingCache", "workers", "listen", "run",
          "stop", "wait", "closeCache", "closePool", "fatal", "serveFailed", "exited"}

\* What is open, and whether Close knows of it: the pool from NewPool on, the
\* client from its creation until Close or the failed ping, the workers from
\* Start; and the workers are gone before Close touches what they use.
Known ==
  /\ pc \in {"load", "pool", "pingPool"} => fields = {}
  /\ pc \in {"cache", "pingCache"} => fields = {"pool"}
  /\ pool = "open" <=> pc \notin {"load", "pool", "fatal", "exited"}
  /\ pool = "open" /\ pc # "pingPool" => "pool" \in fields
  /\ pc \in {"closePool", "fatal", "exited"} => rdb # "open"
  /\ pc \notin {"closePool", "fatal", "exited"} =>
       (rdb = "open" <=> "cache" \in fields \/ pc = "pingCache")
  /\ workers = "none" <=> "ingester" \notin fields
  /\ pc \in {"load", "pool", "pingPool", "cache", "pingCache", "workers"} => workers = "none"
  /\ pc \in {"closeCache", "closePool", "fatal", "exited"} => workers # "running"

\* Load lets only a positive size pass.
Configured ==
  /\ pc = "pool" => Setting("DB_MAX_CONNS") > 0
  /\ PoolWithinBudget

IInv == TypeOK /\ Known /\ Configured

-----------------------------------------------------------------------------
(* Numbers.                                                                *)

\* A setting is an integer, whatever was written.
LEMMA SettingInt == env \in Environment => \A s \in Number : Setting(s) \in Int
  BY StartupAssumption DEF Setting, Raw, Blank

\* The conversion stays within an int32 and keeps what fits.
LEMMA Int32Range ==
  ASSUME NEW n \in Int
  PROVE  /\ Int32(n) \in Int /\ Int32(n) <= MaxInt32
         /\ n \in 1..MaxInt32 => Int32(n) = n
<1>. DEFINE m == 2 * Half
<1>1. Half \in Nat \ {0} /\ m \in Nat \ {0}
  BY StartupAssumption
<1>2. \A x \in Int : x % m \in 0..(m - 1)
  BY <1>1
<1>3. \A x \in 0..(m - 1) : x % m = x
  BY <1>1
<1>. QED  BY <1>1, <1>2, <1>3 DEF Int32, MaxInt32

\* So the limit NewPool sets is a positive int32, which is the configured number if
\* that is one, and smaller if that is none.
LEMMA LimitRange ==
  ASSUME NEW n \in Int
  PROVE  /\ Limit(Int32(n)) \in 1..MaxInt32
         /\ n > 0 => Limit(Int32(n)) \in 1..n /\ (n <= MaxInt32 => Limit(Int32(n)) = n)
  BY Int32Range, StartupAssumption DEF Limit, MaxInt32

-----------------------------------------------------------------------------
(* The invariant.                                                          *)

LEMMA InitInv == Init => IInv
<1>. SUFFICES ASSUME Init PROVE IInv
  OBVIOUS
<1>1. TypeOK
  <2>1. 0 \in 0..MaxInt32 /\ 0 \in 0..MaxFlaps
    BY StartupAssumption DEF MaxInt32
  <2>2. {FALSE} \subseteq BOOLEAN /\ {"none"} \subseteq {"none", "open", "closed"}
    OBVIOUS
  <2>. QED  BY <2>1, <2>2 DEF Init, TypeOK
<1>. QED  BY <1>1 DEF Init, IInv, Known, Configured, PoolWithinBudget

\* The types of what main does not touch.
LEMMA OutsideTypes ==
  ASSUME TypeOK, [Next]_startupVars
  PROVE  /\ env' = env /\ {cancelled, expired}' \subseteq BOOLEAN
         /\ net' \in [Url -> {"answers", "refuses", "hangs"}] /\ flaps' \in 0..MaxFlaps
<1>. USE DEF TypeOK
<1>1. CASE MainStep \/ WorkersExit \/ UNCHANGED startupVars
  BY <1>1 DEF MainStep, WorkersExit, startupVars, outsideVars
<1>2. CASE Signal \/ Expire
  BY <1>2 DEF Signal, Expire
<1>3. CASE Flap
  BY <1>3, StartupAssumption DEF Flap
<1>. QED  BY <1>1, <1>2, <1>3 DEF Next

\* The steps of Load and New.
LEMMA NewStep ==
  ASSUME IInv, UNCHANGED env,
         Load \/ OpenPool \/ PingPool \/ OpenCache \/ PingCache \/ StartWorkers \/ Listen
  PROVE  Known' /\ Configured'
<1>. USE DEF IInv, Known, Configured, PoolWithinBudget, Setting, Blank
<1>1. CASE Load
  <2>1. pc = "load" /\ UNCHANGED resourceVars /\ pc' \in {"pool", "fatal"}
    BY <1>1 DEF Load, Fatal
  <2>2. pc' = "pool" => Setting("DB_MAX_CONNS") > 0
    BY <1>1 DEF Load, Fatal, Valid, Number
  <2>3. Known'
    BY <2>1 DEF resourceVars
  <2>4. Configured'
    BY <2>1, <2>2 DEF resourceVars
  <2>. QED  BY <2>3, <2>4
<1>2. CASE OpenPool
  <2>1. pool' = "open" =>
          /\ limit' \in 1..Setting("DB_MAX_CONNS")
          /\ Setting("DB_MAX_CONNS") <= MaxInt32 => limit' = Setting("DB_MAX_CONNS")
    BY <1>2, SettingInt, LimitRange DEF OpenPool, Fatal, Number, TypeOK
  <2>. QED  BY <1>2, <2>1 DEF OpenPool, Fatal
<1>3. CASE PingPool
  BY <1>3 DEF PingPool, Fatal, CacheEnabled
<1>4. CASE OpenCache
  BY <1>4 DEF OpenCache, Abort
<1>5. CASE PingCache
  BY <1>5 DEF PingCache, Abort, AbortWithoutClient
<1>6. CASE StartWorkers
  BY <1>6 DEF StartWorkers
<1>7. CASE Listen
  BY <1>7 DEF Listen, Abort, resourceVars
<1>. QED  BY <1>1, <1>2, <1>3, <1>4, <1>5, <1>6, <1>7

\* The steps of Run and Close.
LEMMA CloseStep ==
  ASSUME IInv, UNCHANGED env,
         RunEnds \/ StopIngester \/ WaitForWorkers \/ CloseCache \/ ClosePool
  PROVE  Known' /\ Configured'
<1>. USE DEF IInv, Known, Configured, PoolWithinBudget, Setting, Blank
<1>1. CASE RunEnds
  BY <1>1 DEF RunEnds, resourceVars
<1>2. CASE StopIngester
  BY <1>2 DEF StopIngester
<1>3. CASE WaitForWorkers
  BY <1>3 DEF WaitForWorkers, WorkersGone, resourceVars
<1>4. CASE CloseCache
  BY <1>4 DEF CloseCache
<1>5. CASE ClosePool
  BY <1>5 DEF ClosePool
<1>. QED  BY <1>1, <1>2, <1>3, <1>4, <1>5

\* The types of what main works with.
LEMMA MainTypes ==
  ASSUME IInv, MainStep, UNCHANGED env
  PROVE  /\ pc' \in Place /\ failed' \in BOOLEAN
         /\ {pool, rdb}' \subseteq {"none", "open", "closed"}
         /\ limit' \in 0..MaxInt32 /\ (pool' = "none" <=> limit' = 0)
         /\ workers' \in {"none", "running", "exited"}
         /\ queue' \in {"none", "open", "closed"}
         /\ fields' \subseteq {"pool", "cache", "ingester"}
<1>. USE DEF IInv, TypeOK, Place
<1>1. CASE Load \/ Listen \/ RunEnds \/ WaitForWorkers
  BY <1>1 DEF Load, Fatal, Listen, Abort, RunEnds, WaitForWorkers, resourceVars
<1>2. CASE OpenPool
  BY <1>2, SettingInt, LimitRange DEF OpenPool, Fatal, Number, Known
<1>3. CASE PingPool
  BY <1>3 DEF PingPool, Fatal, Known
<1>4. CASE OpenCache \/ PingCache
  BY <1>4 DEF OpenCache, PingCache, Abort, AbortWithoutClient
<1>5. CASE StartWorkers \/ StopIngester \/ CloseCache
  BY <1>5 DEF StartWorkers, StopIngester, StopTells, CloseCache
<1>6. CASE ClosePool
  BY <1>6 DEF ClosePool, Known
<1>. QED  BY <1>1, <1>2, <1>3, <1>4, <1>5, <1>6 DEF MainStep

LEMMA InvStep == IInv /\ [Next]_startupVars => IInv'
<1>. SUFFICES ASSUME IInv, [Next]_startupVars PROVE IInv'
  OBVIOUS
<1>1. /\ env' = env /\ {cancelled, expired}' \subseteq BOOLEAN
      /\ net' \in [Url -> {"answers", "refuses", "hangs"}] /\ flaps' \in 0..MaxFlaps
  BY OutsideTypes DEF IInv
<1>2. CASE MainStep
  <2>1. Known' /\ Configured'
    BY <1>1, <1>2, NewStep, CloseStep DEF MainStep
  <2>2. TypeOK'
    BY <1>1, <1>2, MainTypes DEF TypeOK, IInv, Place
  <2>. QED  BY <2>1, <2>2 DEF IInv
<1>3. CASE WorkersExit
  <2>1. TypeOK'
    BY <1>1, <1>3 DEF WorkersExit, TypeOK, IInv
  <2>. QED  BY <1>1, <1>3, <2>1 DEF WorkersExit, IInv, Known, Configured,
                                    PoolWithinBudget, Setting, Blank
<1>4. CASE Signal \/ Expire \/ Flap \/ UNCHANGED startupVars
  <2>1. UNCHANGED <<pc, failed, resourceVars>>
    BY <1>4 DEF Signal, Expire, Flap, startupVars
  <2>2. TypeOK'
    BY <1>1, <2>1 DEF TypeOK, IInv, resourceVars
  <2>. QED  BY <1>1, <2>1, <2>2 DEF IInv, Known, Configured, PoolWithinBudget,
                                    Setting, Blank, resourceVars
<1>. QED  BY <1>2, <1>3, <1>4 DEF Next

LEMMA Invariance == Spec => []IInv
  BY InitInv, InvStep, PTL DEF Spec

\* Every reachable state is well typed; the limit of an open pool is positive.
THEOREM TypeCorrect == Spec => []TypeOK
<1>1. IInv => TypeOK
  BY DEF IInv
<1>. QED  BY <1>1, Invariance, PTL

\* "On any failure it closes whatever it has already opened" (New): in whatever
\* environment the process starts, wherever New or Run fails and whatever Postgres,
\* Redis and SIGTERM do meanwhile.
THEOREM NewNeverLeaks == Spec => []NothingLeaks
<1>1. IInv => NothingLeaks
  BY DEF IInv, Known, NothingLeaks
<1>. QED  BY <1>1, Invariance, PTL

\* "closing the pool first would make the final flush fail every time" (Close).
THEOREM WorkersLeaveFirst == Spec => []PoolOutlivesWorkers
<1>1. IInv => PoolOutlivesWorkers
  BY DEF IInv, Known, PoolOutlivesWorkers
<1>. QED  BY <1>1, Invariance, PTL

\* "this is the total connection budget for the whole service" (DBMaxConns): for
\* every width of the int32 it is converted to and every number, those that wrap
\* included.
THEOREM BudgetKept == Spec => []PoolWithinBudget
<1>1. IInv => PoolWithinBudget
  BY DEF IInv, Configured
<1>. QED  BY <1>1, Invariance, PTL

=============================================================================
