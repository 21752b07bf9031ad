# TLA+ models of the CRM service

The repository is a small CRM backend in Go: a gRPC server with a customer
service (PostgreSQL, Redis as a cache) and a log-ingestion service, and a log
agent that runs on every Kubernetes node and ships container logs to it. This
directory models the parts whose correctness depends on the order of steps:
worker pool, server start-up and shutdown, cache-aside, log agent, and the way
of a log line through all of them.

## Inventory

| Part | Source | State it keeps | Operations |
|---|---|---|---|
| Worker pool | `internal/ingest/ingester.go` | channel, one batch per worker | `Submit`, worker loop, `flush` (retry with backoff), `Stop` |
| Log repository | `internal/adapter/postgres/log_repository.go` | table `logs` (external) | `BulkInsert`, one COPY |
| IngestLogs handler | `internal/adapter/grpc/log_handler.go`, `interceptor.go` | per stream: number accepted | receive, submit, receipt; panics become errors |
| Server lifecycle | `internal/app/app.go`, `cmd/server/main.go` | lifecycle context, phase | `New`, `Run`, `stopGracefully`, `Close`, `log.Fatalf` |
| Customer service | `internal/service/customer.go`, `adapter/grpc/customer_handler.go`, `errors.go`, `domain/email.go` | none between calls | Create, GetByID, Update, Delete, List |
| Customer table | `internal/adapter/postgres/customer_repository.go`, migrations | rows, BIGSERIAL sequence, UNIQUE(email) | one statement per operation |
| Cache | `internal/adapter/redis/customer_cache.go` | key per customer, TTL | `Get`, `Set`, `Invalidate` |
| Tailer | `internal/logagent/tailer.go` | per file: inode, offset read, pending chunks | `Run`, `Poll`, `readFile` |
| Shipper | `internal/logagent/shipper.go` | current batch | `Run`, `flush`, `final`, `send`, `commit` |
| Positions | `internal/logagent/positions.go` | offsets in memory and in a file | `LoadPositions`, `Get`, `Set`, `Retain`, `Save` |
| Agent | `internal/logagent/agent.go`, `cmd/log-agent/main.go` | channel between the two | start, ordered shutdown |
| Line and name parsing | `internal/logagent/cri.go` | none | `ParseLine`, `ParseFileName`, `GuessLevel` |
| Configuration | `internal/config/config.go`, `logagent/config.go` | none | read and validate the environment |
| Rest | `adapter/postgres/pool.go`, `mapper.go`, `proto/`, `cmd/client`, `k8s/`, `scripts/` | | wiring, generated code, a demo client, deployment |

How they interact. The agent's tailer goroutine sends entries over a channel to
its shipper goroutine, which makes one `IngestLogs` call per batch; positions
are shared between the two under a mutex. The server's handler submits each
entry to the pool without blocking and answers with the number accepted; the
pool's workers share nothing but the channel and write to PostgreSQL. One
context, cancelled by SIGTERM, reaches both the workers and `App.Run`, at the
same moment. Customer calls share only the table and Redis.

What is hard: selects that choose at random among ready cases; the two uses of
the one lifecycle context; retries of inserts and calls whose reply was lost;
shutdown that waits for streams, streams for clients, workers for the database;
a cache filled by a reader from a row that is no longer current; file rotation
under an open file; crashes between delivery and the saved position. The list,
by source line, is `hazards` in `PROJECT.json`.

What makes each part correct:

* pool: an accepted entry is never lost while the process is meant to run, is
  held in one place only, is stored once unless a reply was lost; the backlog
  drains; `Stop` returns;
* server: no `Submit` after the channel was closed, honest receipts, batches
  are written before exit, the process ends after SIGTERM;
* customers: no two rows with the same normalised address; a stale cache entry
  has a nameable cause and goes away; Redis never fails a request;
* start-up: a `New` that fails leaves nothing open, whatever the database and
  Redis do; it comes to an end; `Close` waits for the workers before the pool goes;
* agent: a position passes a line only when the line was handed over; positions
  never go back; messages are whole; everything is shipped eventually; `Run`
  returns after SIGTERM;
* agent and server together: a saved position passes a line only when the line
  was handed over; lines reach the table; a row is repeated only for a crash, a
  timeout or a lost reply.

## Modules

**`DurableLog`** is the abstract promise of the pipeline: an entry is accepted,
stays pending until written, and is let go unwritten only after shutdown.

**`Ingester`** is the worker pool. Each case of the worker's `select` is an
action (`Receive`, `ReceiveClosed`, `Tick`, `CtxDone`), and so is each turn of
`flush`'s loop: `Attempt` (the insert succeeds, fails, or commits without a
reply), `Retry` (the backoff timer) and `GiveUp` (`ctx.Done` during the wait).
`Submit` has one disjunct per case of its select, and the panic of a send on a
closed channel. Entries are values submitted once; `rows[e]` counts the rows of
an entry, so duplicates are visible. `Unstorable` entries stand for rows
PostgreSQL always refuses.

**`LogServer`** extends `Ingester` with the handlers, `Run`, `Close` and `main`:
the pool's `Submit`, `Cancel`, `CloseQueue` and `StopReturns` happen only where
this code calls them. `proc` follows `Run` (serving, draining, forced), `Close`
(closing), and the two ways out (`exited`, or `fatal` through `log.Fatalf`).

**`CustomerService`** splits a call at each SQL statement and Redis command.
`pc[c]` says what the call does next: `select` and `set` after a cache miss,
`del` after a write. A row is its address and the count of writes when it was
written, which stands for the other columns. `List` only reads the table.

**`LogAgent`** has the files (inode → lines), the tailer (`tpc`), the channel,
the shipper (`spc`), positions in memory and on disk, and what the server
accepted or dropped. `OpenFile`, `ReadLine` and `EndOfFile` follow `readFile`: resume from
the saved position if the inode matches, start over when rotated or truncated,
join partial lines, skip what is malformed or excluded. `buf` is what
`bufio.Reader` has read ahead: a file may be truncated and written again while
it is open. A call is delivered, breaks after any prefix, is refused by a
cancelled context, or holds a message that cannot be marshalled and fails at
every attempt (`CallUnsendable`). `PollStarts` may miss files, as `Glob` does
without an error. `Restart` is both a crash at any step and a start after `Run`
returned. Offsets count lines; a line is there once its newline is. Directory
order is arbitrary.

The code knows a file by inode number and length. A number is used again for a
new file, and a truncated file keeps its own; what the code cannot see, the model
keeps beside it: every content a file has had since it was created or truncated
is a *life*, and states, positions and entries carry the life they were counted
in. When the code goes on with an offset of another life, the lines it never
read go to `missed`, and the properties say what then still holds.

**`Delivery`** is the abstract promise about the lines of one file: handed over,
kept or refused, written or let go by a server that stops or dies; the saved
position passes only what was handed over.

**`Pipeline`** extends `LogServer` with the agent's shipper and the calls
between them, so that the steps are those of the two components. An entry of
`LogServer` is a line in a call. A batch is sent in a call (`StartCall`), whose
entries the handler submits one by one (`HandleNext`) and answers (`Answer`).
The shipper gives a call up on its timeout (`CallTimesOut`) while the handler may
still be at work, then retries. `AgentRestart` and `ServerDies`/`ServerStarts` are
crashes and restarts at any step; `vanished` remembers what was in the memory of
a server that is gone. `ImplementsDelivery` maps this to `Delivery`.

**`Shipper`** is the abstract promise of the agent about the lines of one file: it
gathers the next few lines, hands them over until a receipt comes, and only then
moves its position, in memory and, if the save succeeds, on disk; a new process
starts from the disk. `Pipeline` has no tailer and no positions file, and takes
the agent to be this; `ImplementsShipper` says that it adds nothing else.

**`OneFile`** is `LogAgent` with one file of full lines that is created once and then
only appended to, with an agent that is not asked to stop and can read its
directory. `ImplementsShipper` maps it to `Shipper`: the batch is what lies between
the position and the offset of its last entry. A receipt counts once `commit` runs,
so a crash between receipt and save is, to `Shipper`, one before the receipt.
Together with `Pipeline`'s mapping to the same module it justifies the summary.

**`Startup`** is `main` around `Run`: `config.Load` with each setting unset,
blank, garbage, out of range or valid; `New` with each way to fail; `Close`
with its nil checks (`fields` are the fields of `App` that are set). The
database and Redis answer, refuse or hang, and change their mind; SIGTERM and
the start-up deadline come at any step. An `int32` ranges over `-Half .. Half - 1`, so that
its wrap-around happens within small numbers. `Run` itself is one step here.

The `*Proofs` modules hold the theorems, `Extrema` two lemmas about sets of
naturals that they share. `MC*` modules instantiate the specifications for TLC. Operators whose
comment begins with "mutant" are deliberate bugs, not used by any
specification: each shows that a property would notice that bug.

## Runs

All runs use small sets: two workers and two clients are enough for any race
between two, and a third adds only symmetric copies. `server` has one worker,
because races between workers are `ingester`'s subject and the lemma `ServerHasPool`
carries its results over. `BatchSize = 2` has a
partial, a full and an empty batch; queues of one or two can be full with entries left
over. Every outage, lost reply, crash or fault is bounded by a constant named in
the cfg; one of each already occurs at every possible point of a run. `LogAgent`
and `Pipeline` have one budget for all kinds of mishaps (`MaxMishaps`).
`agent_safety` allows one, and three lives: two files, or one file rotated, its
inode used again, or truncated, at any point; two lines are enough for a message
of two chunks, or for a line on each side of an offset. `pipeline` allows two, so
that every kind meets every other, a crash during the recovery from a crash
among them. `Entry`, `Worker` and `Client` are not reduced by symmetry in runs
with liveness properties; `agent_safety` exchanges its two paths.

| Run | Instance | Shows |
|---|---|---|
| `ingester` | 3 entries, 2 workers, batch and queue of 2, an outage, a lost reply | `NoSharing`, `Bounded`, `NoLossWhileLive`, `Conservation`, `DuplicatesNeedLostAcks`; the pool implements `DurableLog`; the backlog drains; `Stop` returns |
| `ingester_poison` | ... and a row PostgreSQL refuses | **`BacklogDrains` violated**: the batch is retried for ever, with the storable entries in it |
| `server` | 3 entries on 2 streams, 1 worker, a channel of 1, signal and serve error at any point, an outage | no send on the closed channel, no handler after `Run` returned, honest receipts, batches written at exit, the channel bounds what an exit loses, the process ends |
| `server_drain` | a healthy database | **`DrainLosesNothing` violated**: workers leave the channel on `ctx.Done` while streams still submit |
| `customer` | 2 clients, 2 ids, a failing Redis command, a lost reply | unique addresses; staleness always explained; Redis never fails a call; the TTL repairs |
| `customer_race` | 2 clients, no faults | **`CoherentAtRest` violated**: a late `Set` stores the old row |
| `agent_safety` | 2 files sharing batches, 2 lines (partial, full, malformed), 2 inodes, 3 lives, one mishap | `MessagesAreWhole`, `DuplicatesNeedFaults`, `PositionsNeverGoBack` |
| `agent_liveness` | 1 file, 2 lives, rotated, truncated or with a reused inode, excluded and unsendable messages, one mishap, shutdown | `OnlyAbandonedSkipped`; every complete message of a file that stays is handed over; `Run` returns after SIGTERM |
| `pipeline` | 2 lines, 1 worker, a channel of 1, at most 4 calls, two mishaps of any kind | the whole implements `Delivery`, its agent `Shipper`; `SavedLinesAccountedFor`; rows repeat only for mishaps; lines get stored |
| `startup` | every form of one setting at a time, both URLs in every form, one change of the database or Redis | nothing leaks, the pool outlives the workers and stays within the configured budget, start-up ends |
| `agent_abandoned` | shutdown during a flush | **`AbandonedIsReadAgain` violated**: `final` commits past the abandoned batch |
| `agent_streams` | stdout and stderr in one file | **`MessagesAreWhole` violated**: one pending buffer for both |

A violated run checks one sentence of a comment or document, quoted under
`findings` in `PROJECT.json`; the run beside it shows what does hold.

What the passing runs say of the weak spots:

* `commit` counts entries the server refused as shipped. It is deliberate and
  logged, so no property forbids it; `SavedLinesAccountedFor` names it (`Refused`)
  beside the other two ways for a position to pass a line that is not in the
  table: a process that died, or let a batch go while it was stopping.
* `server_drain` shows that an orderly exit can leave entries in the channel.
  `LossFitsTheChannel` says how many: beyond the batches given up, never more than
  the channel holds, however long handlers go on submitting during the drain.
* A pool size that no `int32` holds wraps. `PoolWithinBudget` says that the pool is
  then smaller than configured, or pgx's default, but never larger.
* Duplicates multiply: a call that is repeated and an insert that is repeated
  make up to `(1 + mishaps) * (1 + lostAcks)` rows of a line. The run also shows
  that nothing else repeats one.
* `ServeFails` and a kill are one case for the agent: what it was told is kept may
  be gone, and `Delivery` says so in `Die`.
* A file that is truncated and grows past the old offset before the next look,
  or a new file with the inode and at least the length of the old one, is taken
  for the old one. `missed` holds what is lost then; without it `LinesAreShipped`
  and `MessagesAreWhole` would not hold.
* One message that is not valid UTF-8 stops the agent for good (`Poisoned`);
  shutdown still gets through.

Two more ways to lose or stale data are visible in the models and excluded by the
premises of the properties: a `Serve` error ends the process through
`log.Fatalf` without `Close` (`ServeFails`; `BatchesWrittenAtExit` speaks of
orderly exits only), and a write whose reply was lost is not followed by
`Invalidate` (`CommittedButFailed`; see the premise of `StaleNeedsRaceOrFault`).
`CHECK_DEADLOCK FALSE` is set where the modelled process may end and nothing is
left to do.

## Fairness

* Weak fairness for every goroutine's steps: goroutines are scheduled, tickers
  and `time.After` fire, attempts and calls end within their 10 s timeouts.
* Strong fairness where a `select` has two cases that can stay ready: `GiveUp`
  against `Retry`, the agent's `TailerStops` against the next pass and `Abandon`
  against the next attempt. Go picks among ready cases at random, so a case that
  is ready again and again is taken.
* `Pipeline`: the transport delivers what was sent, and a process that ended is
  started again when the database answers (Kubernetes).
* `Startup`: the deadline passes (`Expire`); main and the workers run.
* None for clients, SIGTERM, the database, Redis commands, or the container
  runtime. `BacklogDrains` and `StopReturnsOnceRecovered` assume the database is
  eventually back for good; `LinesAreShipped` that failed calls are finitely many
  (their bound).
* Redis expires keys (`CACHE_TTL` is positive).

## Proofs

TLAPS checks these for every value of the constants that satisfies the named
assumptions (non-empty set of workers, positive sizes, normalisation that is
idempotent, ...).

* `IngesterProofs`. The inductive invariant `IInv` is the type invariant plus
  the run's safety invariants plus what each place of a worker implies. No part
  is inductive alone: `NoSharing` needs that an entry still to be submitted is
  held nowhere; `NoLossWhileLive` needs that a worker leaves only when the
  channel is closed and empty or the context is cancelled;
  `DuplicatesNeedLostAcks` needs that an entry still in a batch was written only
  by unacknowledged inserts. From `IInv` follow `TypeCorrect`, `NoSilentDrop`,
  `SafetyInvariants`, `NoEntryShared`, `BatchesBounded`, `RowsNeedLostAcks` and,
  step by step, `Refinement` (the pool implements `DurableLog`).
* `LogServerProofs`. Every server step is a pool step or leaves the pool alone (the
  lemma `ServerHasPool`, which holds by the way the modules are composed), so the
  pool's theorems hold in the server (`ServerNoSilentDrop`). `SubmitNeverPanics`: no
  handler runs once the channel may be closed; `HandlersInTime`, the same for a
  process that closes or has exited, is part of the type invariant. `ReceiptsAreHonest` needs `CountsMatch`: while a handler
  runs, its local count is already the number of its entries the pool took.
  `ExitWritesBatches` needs that the process exits only after `Stop` returned,
  which the pool allows only when every worker has left with an empty batch; it
  says nothing of entries still in the channel. `LossBounded` counts those, for any
  number of outages: what is neither stored nor given up is in the channel.
* `CustomerServiceProofs`. `TypeCorrect`; `AddressesUnique`, from "every stored
  address is normalised" and the UNIQUE constraint; `StaleEntriesExplained`, an
  invariant about the row each reader holds; `RedisFaultsInvisible`.
* `StartupProofs`. `Known` says for each place of `New` and `Close` what is open and
  whether `fields` knows of it. `NewNeverLeaks`, `WorkersLeaveFirst` and
  `BudgetKept` follow, the last for every width of an int32 and every setting, those
  that wrap included.
* `PipelineProofs`. `NothingSkipped` rests on three parts: a call that ended well
  has seen each of its lines accepted or refused (`LinesHandled`), so the shipper
  moves its position over such lines only (`PositionSettled`); and what was
  accepted is in the table, in a live process or in `givenUp` or `vanished`
  (`Traced`). The same invariant carries `PipelineRefinement`: every step, those
  of `LogServer` and its pool included, is a step of `Delivery` or a stutter.
  `RowsLimited` needs how a mishap leads to another call (`Carried`): the calls
  with a line, one more if the line is due again, and one more while a process
  that was told to stop still takes calls, are no more than `1 + mishaps`. The rows
  of an entry in one call are those of the pool, over restarts (`Written`), and
  the sum over the calls is bounded by `SumsBounded`. `ShipperRefinement` is
  that every step is one of `Shipper` or a stutter: `CallOk` commits lines that are
  handed over, by `PositionSettled`, and no step of the server takes a line back
  that was (`OthersHand`).
* `LogAgentProofs`. Type correctness needs `Placed`: every offset the agent keeps,
  on disk, in memory or in an entry, is a place in a life that began, and no
  longer than that life; TLC's type invariant does not say so and is not inductive.
  `NothingSkipped` needs `Covered`: what lies behind a file's state, an entry or a
  position is done, in the flow before it, or still in the tailer's pending
  buffer. `WholeMessagesOnly` needs `Messages`: the pending buffer is the lines
  since the last complete message, whichever life they are read in, and saved
  positions end at a message. Its hypothesis is that the container writes to one
  stream; for two it is false, as `agent_streams` shows.
* `LogAgentOrderProofs`. `SavedOnlyForward` needs two invariants. `Latest`: an inode
  has one name, and the file a path names is of no older life than anything
  counted for that path. `Ordered`: for each path saved position, position, flow
  and reader are in that order; when the path was forgotten, its file is of a
  later life than all of them. `RepeatsNeedFaults` needs that a message is in one
  place: copies the server accepted, queued entries that hold it, tailers
  that hold a part of it and one more if it can still be read add up to no more
  than the mishaps allow (`Limited`). A count of the copies alone is not inductive.
* `OneFileRefinement`, in the same module, proves that the agent implements
  `Shipper` for any number of lines, mishaps and lives and every batch size. Its
  hypothesis `SingleFile` is the scope of the statement. `agent_one_file.cfg` is an
  instance, not among the runs: one file of three lines, batches of two, two mishaps
  (12360 states; `tlc -config agent_one_file.cfg OneFile`). `OneFileInv` adds four parts to the type invariant. `WrittenOnce`:
  lines are numbered as they stand in the file. `Undisturbed`: nobody has stopped.
  `Contiguous`: the batch, the channel, the entry in the tailer's hands and the
  reader's offset follow each other without a gap, a line an entry; so a batch is
  always the next lines, and a save never skips one. `Batched`: no entry is added
  to a batch once it is being shipped, and a batch to be saved was handed over.
  The subtle step is `commit`: after it the batch's entries lie behind the position
  and are still in `batch` until the save is done, so the flow is counted from
  `Base`, not from the position.

The provers cannot instantiate the library's induction theorems. Where an argument
needs induction (the next line of a call, the latest life of an inode, a sum over
the calls), it takes a least counterexample: `Extrema`'s `LeastOf` says that a set
of naturals with a member has a least one.

Every invariant, action property and refinement of a passing run is a theorem.
Only model-checked is liveness under fairness, as TLAPS does not reason about
ENABLED: `BacklogDrains`, the `StopReturns` properties, `ShutdownCompletes`,
`EventuallyCoherent`, `LinesAreShipped`, `LinesGetStored`, `StartupEnds`.

## Not modelled

* Logging, message text, file names and levels (`ParseFileName`, `GuessLevel`),
  mapper, generated code, the demo client: no state, or one call after the other.
* The feedback loop that `defaultExclude` breaks (the server logs a line per
  batch, which the agent would ship): it hangs on the wording of log lines.
* gRPC flow control, the inside of the connection pools, health probes.
* Wall-clock budgets: the 30 s grace period against 10 s drain plus 10 s attempts.
* The manifests: three replicas and rolling updates. `Pipeline` has one server
  process at a time; calls to different replicas share nothing but the table.
* A file system that loses a rename or a write at power loss (`Save` does not
  sync), and a positions file that does not parse, after which the agent
  refuses to start.
* `List` of customers, which only reads the table, and the agent's `LoadConfig`,
  which does what `Startup` shows for the server's.

Two simplifications inside the modelled parts: `Pipeline` ends the server's stream in
the step in which the agent gives the call up or dies, although the server learns
of it later (a handler may go on submitting either way); and `LogAgent` takes an error
of stat or seek as a pass that skips the file, and one of read as the end of the
file. No property depends on either.

Each of the points above that can go wrong is a hazard in `PROJECT.json` with a note.

## What could come next

All components of the inventory that change state are modelled, and everything the
runs check apart from liveness is proved.

* What liveness rests on can be proved without ENABLED: for each fair action the
  state in which it makes progress, for instance that a worker with a batch
  always has a step, or that every phase of `Run` and `Close` has a next one.
* `OneFile` leaves out the agent's shutdown, since `final` may commit past a batch
  that was abandoned (`agent_abandoned`) and `Shipper` has no such step. If `final`
  were changed to keep the order, shutdown could join it.
