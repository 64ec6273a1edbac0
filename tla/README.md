# Yamata in TLA+

Yamata runs simulation jobs on one machine: a job document is simulated into a
recording (a "bag"), the recording is analysed into a scored result, and every
transition is announced by an event file. All of it is exchanged through
immutable files in one directory. This directory models the parts of the program
that coordinate that work, checks them with TLC on small instances, and proves
their most important safety properties with TLAPS for every instance.

## The system

| Component | Code | State | Operations |
|---|---|---|---|
| Job intake | `internal/queue/store.go`, `analysis.go` | tables `jobs`, `outbox` | `Import` |
| Leases, retries, armed failures | `lease.go`, `retry.go`, `fault.go` | columns `token`, `generation`, `lease_ms`, `attempt`, `stage`; tables `retries`, `faults`, `dispatches` | `claim`, `renew`, `acceptBag`, `acceptResult`, `retry`, `release`, `InjectFailure` |
| Worker pools | `workers.go` | one goroutine per worker, one renewal goroutine per claimed stage | `work`, `repeat`, `perform`, `calculate`, drain |
| Outbox publisher | `outbox.go` | column `outbox.delivered` | `Flush` |
| Immutable publication | `internal/publication` | files of the exchange directory | `File`, `Document`, `SyncDirectory` |
| Exchange ownership and locks | `internal/ownership`, `internal/filelock`, `internal/standalone/lock.go` | `.queue` or `.standalone`, lock files | `Select`, `Acquire` |
| Standalone execution | `internal/standalone/run.go`, `internal/execution` | the files of one job | `Run`, `finish` |
| Contract | `internal/contract` | none | parsing, hashing, cross-document relations |
| Simulator and recording | `internal/simulator`, `internal/bag`, `internal/geometry` | none | `Run`, `Record`, `Publish` |
| Metrics | `internal/metrics` | none | `Evaluate` |
| Reference reader | `examples/reader` | its own index database | `consume`, `sync`, `rebuild`, queries |
| Queue opening and migration | `store.go` (`Open`), `migrate.go` | `open.lock`, schema version, journal mode, tables | `Open`, `migrate`, `upgradeV2` to `upgradeV4` |
| Inspection and command line | `inspect.go`, `cmd/yamata` | none | read-only reports, flag parsing |

How they interact. `Import` commits a job, its file and its first event in one
SQLite transaction. Workers of any number of processes poll `claim`, which
leases the best eligible row of their stage for some duration under a new token
and a new generation; `perform` renews the lease from a second goroutine while
`calculate` runs without holding any transaction. The output comes back through
`accept`, a transaction that first fences on token, stage, generation and expiry
and then writes the row, the output file and its event. Files are not written by
workers: they are rows of the `outbox`, which publishers copy to the exchange
oldest first and acknowledge afterwards. A stage is not claimable while a row of
its job is unacknowledged, so a stage never starts before its inputs are
readable. Standalone execution does the same work for one job without the queue,
in an exchange reserved for that mode.

What is hard about it: processes die between any two steps; a lease can expire
under a healthy worker and the worker then finishes late; two publishers work on
one row; the wall clock jumps; armed failures, retries and crashes combine; a
process that drains must not leave while work it saw is unfinished; a single
file that cannot be validated would block every file behind it, so what the
producers write must always pass their own validation; two independently written
validators must agree; and databases of older versions are upgraded while other
processes start.

## Modules

Each group has its component modules, their properties (`...Properties`), their
proofs (`...Proofs`) and instances for TLC (`MC...` with one `.cfg` per run).

- `Queue` - the tables, worker pools and publishers. One action per SQL
  transaction or per step a goroutine takes between transactions. `Lifecycle` is
  what a reader of the files is promised about a job, without leases, crashes
  and clocks; `Queue` implements it (`FollowsLifecycle`). `Dispatch` adds a
  history variable to `Queue` that counts how often the lowest class was passed
  over.
- `Pool` - the processes that run `Work` over one queue: every action is a step
  of `Queue` under a guard of the process, or a change of the process alone.
- `Upgrade` - `Open` and `migrate` by any number of processes, over every
  database that this or an older version may have left.
- `Publication` - `File` and `Document` system call by system call, on a file
  system whose power can fail. `WriteOnce` is what it promises: names that are
  written at most once and only confirmed when they are safe. `Publication`
  implements `WriteOnce`.
- `Standalone` - `Run` and `finish` of standalone execution with the locks and
  the choice of mode, on top of `WriteOnce` instead of single system calls.
- `Exchange` - the content of every document the producers write, and files that
  are changed by hand afterwards. `Documents` are the four kinds of document,
  `Contract` is the producer's validation of them (`internal/contract`) and
  `ReaderRelations` the reference reader's, which shares no code with it.
- `Reader` - the example reader's `sync`, `watch` and `rebuild` on one index.
- `Simulator` - one run of the one-lane model, tick by tick, and `Metrics`, the
  scores of a recording as operators, both over the integer arithmetic of
  `Geometry`. Their properties and proofs (`Scoring...`) are about the two
  together. `ScoreDocuments` joins them with `Contract` and `ReaderRelations`:
  the score of every run as a result document, through both validators.

### State and actions of `Queue`

| Model | Code |
|---|---|
| `jobs[d]` | the row of the job, `id = 0` when there is none; `live` is `lease_ms > now`, `bagged` says that `bag_hash`, `bag_path` and `analysis_id` are set |
| `retries[d]`, `faults[d][s]`, `dispatches[s]` | the tables of those names |
| `outbox`, `delivered` | the table `outbox` in id order, and the ids with `delivered=1` |
| `disk` | the ids whose file is present in the exchange |
| `lease[w]`, `out[w]` | the `lease` value of a worker goroutine, and what it is doing: `idle`, `calculating`, an output it will offer, or `failed` on its way to `release` |
| `flushing[p]` | the row a `Flush` loop has read, and whether it has published it |
| `disruptions` | how many crashes, cancellations and clock faults there have been |

| Action | Code |
|---|---|
| `Import` | `Import`: duplicate and conflict rules, `originalRun`, `ReadBag`, the analysis identity rule, row, file and event |
| `InjectFailure` | `InjectFailure` |
| `Claim` / `ClaimJob` | `claim`, including the order of candidates, the dispatch position and the event of a first claim |
| `Calculate` | `calculate` and its classification in `perform` |
| `AcceptBag`, `AcceptRetry`, `AcceptResult` | `acceptBag`, and `acceptResult` in the case that `retry` spends the retry and in the case that the result is final |
| `LoseLease` | `renew` or `accept` returning `ErrLease` |
| `Release` | the deferred `release` of `perform` |
| `FlushRead`, `FlushPublish`, `FlushAcknowledge` | the three statements of `Flush` |
| `Cancel` | a cancelled stage context: shutdown or a storage error anywhere in the pool |
| `Crash`, `CrashPublisher` | death of the process |
| `Lapse`, `Stall`, `Regress` | time: expiry of a lease nobody renews; expiry under its holder (missed renewals, clock forward); the clock going back behind an expired lease |

### What is abstracted

- A document is a model value; `Job` gives the identities `Import` compares
  (job, execution, recording, analysis template), its kind and its priority,
  and `Path` the path it is offered at.
- A token is random and never repeats, so it is named by the generation of the
  claim that drew it. Attempt identifiers are numbered per job.
- Wall-clock time is reduced to live and expired leases. Renewal is therefore
  the absence of an expiry: `Lapse` is disabled while the lease is held.
- A recording is a function of its run job (the simulator has no clock, random
  source or storage), so two attempts of a simulation have equal bags.
- Publication is one step that adds a file; `References` is its validation
  against other files.

The environment is assumed to leave the exchange directory alone except for
adding job documents: nobody rewrites a published file or puts a foreign one at
a path the queue will use.

### State and actions of `Pool`

| Model | Code |
|---|---|
| `phase[p]` | a process: `absent`, `serving`, `stopping` (its context is cancelled), `stopped` (`Work` returned) or `killed` |
| `erring` | workers whose stage met a storage error, for which `perform` will end the process |
| `served[p]` | the jobs there were when `p` found itself drained (history) |
| `left` | the leases that were left to expire: their worker died, or could not write the release (history) |

| Action | Code |
|---|---|
| `Start`, `Stop`, `Return` | `Work` up to its goroutines; a signal or an error of `claim`, `Flush` or the drain query; `group.Wait` |
| `Serve` | a worker goroutine's `claim` and `perform`, while its process serves |
| `StageError`, `Interrupt` | a stage under way that meets a storage error, or a cancelled context |
| `GiveBack` | the deferred `release` under its own two-second context, which frees the row or fails and leaves it leased (`FailRelease`); its error or the stage's stops the process, unless a lost lease is joined to it |
| `Publish`, `StopPublishing` | the publisher goroutine, which a cancelled process lets finish a file but not acknowledge it |
| `Drain` | the query of the drain loop over enabled stages and undelivered files |
| `Kill`, `Forget`, `Passes` | death of a process and of each of its goroutines; expiry of what they held |

Workers of one process may serve both stages or one (`Members`). Clock faults
and missed renewals are left to `Queue`.

### State and actions of `Upgrade`

| Model | Code |
|---|---|
| `db` | `user_version` and the tables: each row with the columns its version has, `retries`, `dispatches`, `faults` |
| `created`, `wal` | whether the database file exists and is on disk; the journal mode |
| `guard` | the holder of `open.lock` |
| `at[p]`, `seen[p]` | where `Open` is in a process, and the version `migrate` read before its transaction |

| Action | Code |
|---|---|
| `Open`, `TakeGuard`, `Unlock` | `Open` up to the lock, `filelock.Acquire`, its deferred release |
| `Create`, `Sync` | the file with `O_EXCL`, and the synchronisation of its directories |
| `Journal`, `Switch` | the query of the journal mode and its change, which needs the only connection |
| `ReadVersion`, `Migrate` | `migrate`: `Second`, `Third` and `Fourth` are `upgradeV2` to `upgradeV4` |
| `Arm` | `InjectFailure` of one stage by a process that has the queue open; the rows are run jobs, so its check of the kind never refuses |
| `Kill`, `PowerLoss` | death of a process anywhere, or an I/O error or a cancelled context inside `Open`, which has the same effect; loss of power, with the file if it was not synchronised |

SQLite is trusted: a transaction commits entirely and durably or not at all. A
row keeps the columns an upgrade reads or must keep; `Saved` and `Possible` say
which rows an older binary can have left, and `Invalid` are snapshots that do
not parse.

### State and actions of `Publication`

| Model | Code |
|---|---|
| `pc[c]` | the next system call of a call of `Document`, or how it ended |
| `data[c]`, `synced` | the bytes of the file object a call creates, and the objects whose bytes are on disk |
| `entry`, `saved` | the directory entries processes see, and those on disk |
| `folders`, `kept` | the subdirectories that exist, and those whose existence is on disk |

| Action | Code |
|---|---|
| `Validate`, `MakeFolder`, `SyncRoot` | `Document` up to the call of `File` |
| `Create`, `Write`, `Verify`, `SyncFile`, `Link` | `File`: the staged file, its bytes, its verification, its synchronisation, the link |
| `Compare` | the existing file of a failed link is accepted if it has the same bytes, and is a conflict if not |
| `Unstage`, `SyncFolder` | removal of the staged file and synchronisation of the directory |
| `Fail`, `Cleanup`, `Kill` | an error from any system call with the deferred clean-up (a failed comparison ends as a conflict too), and the death of the process |
| `PowerLoss` | every call ends; an entry that was not synchronised survives or not, and so do bytes |

A call names a document and the documents it refers to; it starts when those
were published, as its callers do. Job documents are put into the exchange by
their producer, who makes them durable first (docs/contract.md, "File
publication rules"); `Given` names the files that are there from the start.
Contents are model values; a temporary file's name is drawn at random and is the
call's own. Hashing and validation are left out.

### State and actions of `Standalone`

| Model | Code |
|---|---|
| `files`, `settled` | bags, results and events by path (`WriteOnce`), and the paths reported durable |
| `marks`, `kept` | `.standalone` and `.queue` as processes see them, and on disk |
| `guard`, `locks` | who holds `.execution.lock` (`Select`) and the lock of each execution (`Run`) |
| `at[p]`, `draft[p]` | where a call of `Run` is, and the result it has built or adopted |
| `reported` | the outcomes `Run` has returned, per execution (history) |

| Action | Code |
|---|---|
| `Begin` | `Run` up to the first lock, with the attempt and the time it draws |
| `TakeGuard`, `Choose`, `SyncMark` | `ownership.Select`: lock, look for the other mode, create the directory, synchronise it |
| `TakeLock` | `lock` of the execution |
| `Look`, `Failure`, `Refuse` | the search for an earlier run failure, and the refusal of one that is not of this job |
| `Simulate`, `PublishBag` | `bag.Record`: a recording, or a classified failure (a timeout at will) |
| `Reconcile`, `Adopted` | the search for an earlier score at the path of this one, whose attempt is adopted |
| `PublishResult`, `PublishEvent`, `Return` | `finish` |
| `Stop`, `PowerLoss` | death of the process anywhere; loss of power |

Abstractions: the timing fields of a result are folded into the moment the call
started; an execution is known by its `execution_id`, and an event, as in
`EventID`, by its `job_id` and attempt; a job's inputs are known
by the recording they simulate to; the validation of references is left out. A
process in queue mode only selects its mode. A locked file is never removed in
the code, so a lock is a variable. The command `record`, which publishes a bag
without a result, is not modelled.

### State and actions of `Exchange`

| Model | Code |
|---|---|
| `files` | the exchange: documents, as records of the fields the relations read, by path |
| `rows` | what a row of `jobs` contributes to documents: stage, state, attempt, sequence, bag, analysis, retries |
| `mode` | the owner that `ownership.Select` recorded |

| Action | Code |
|---|---|
| `Submit` | a user's run job, or an analysis of a recording in the exchange (external) |
| `Import`, `Claim`, `AcceptBag`, `AcceptResult` | the documents these handlers build: `addEvent`, `lease.result`, `encode`, `execution.Analysis`, `retry` |
| `Execute` | `standalone.Run` and `finish`, from an exchange without an outcome |
| `Edit`, `Rename` | a change by hand (external): one field takes a value from elsewhere or from nowhere, or a file gets the extension of the other format with all references to it; derived hashes and identities are then put right one file at a time |

| Operators | Code |
|---|---|
| `Contract`: `Accepts`, `Parsed`, `Referred`, `CheckJob`, `CheckEvent`, ... | `load`, `check`, `relations`, `ParseBag`, `checkMetrics` |
| `ReaderRelations`: `Reads`, `Loaded`, `Referenced`, `...Relations` | the same decisions in `examples/reader` |

A hash is injective. Both validators first check a document against the same
schema, so only schema-valid documents occur. The schema does not tie the
extension to the folder (`schema.json:18`): the producer chooses the parser of a
file by its extension, the reader by the kind it asks for. The commands that
execute or import jobs and recordings insist on the usual extension, so only
files renamed by hand have the other one. Limits on size, depth and number of files are
left out: a graph has one shape of at most four levels. A handler publishes its
documents at once, because their order and the crashes between them are the
subject of `Queue`, `Publication` and `Standalone`. Producers stop at the first
change by hand, and changes wait for queue rows to be done; the documents of an
exchange that is still being written are a subset of those.

### State and actions of `Reader`

| Model | Code |
|---|---|
| `identities`, `seen`, `results` | the tables of those names: an identity with the document it stands for, accepted events, indexed results |
| `at[c]`, `role[c]` | a command and what it does; `given` is a sync of named events |
| `paths[c]`, `todo[c]`, `reading[c]`, `failed[c]` | the local variables of `sync` and `rebuild` |

| Action | Code |
|---|---|
| `Publish` | the producer: a document after those it refers to (external) |
| `Start`, `List` | `run`, and `candidates` or the paths on the command line |
| `Read`, `Commit`, `Bad` | `consume` outside and inside its transaction, and its error collected by `sync` |
| `Busy` | a transaction that gives up after `busy_timeout` |
| `Finish` | the end of a scan; `watch` scans again after a second unless it failed |
| `Rebuild` | the transaction of `rebuild`, over the listing made before it |
| `Stop` | kill, interrupt, or the deadline of 30 seconds |

A document is known by its bytes, so a hash mismatch of a reference is a
reference to a document that is not there. `Malformed` stands for everything
`load` and `relations` reject; which documents that are is `ReaderRelations`. Files are read in any order (their names are
hashes). A repeated path on the command line is not modelled: it is a second
scan of one event.

### State and actions of `Simulator`, operators of `Metrics`

| Model | Code |
|---|---|
| `world`, `kind` | `Config.Scenario` and `Config.Controller` |
| `records` | the trace of `Run` so far, its ticks counted from one |
| `braking` | `controller.braking` |
| `reason` | how the run ended: a `StopReason`, or the name of the error |

| Action | Code |
|---|---|
| `Begin` | `Run` up to its loop: `validate` and the first record |
| `Step` | one pass through the loop: `acceleration`, `advance`, `terminal` |
| `Exhausted`, `Cancel` | `ErrTickLimit`, and the context looked at before every tick |

| Operator of `Metrics` | Code |
|---|---|
| `Accepts` | the checks of `Evaluate` on the first record and on the obstacles |
| `Episodes`, `CollisionCount`, `ContactTick` | the collision count with `active`, and its evidence |
| `Distance`, `MinimumGap` | the gap between centres (version 1) and between edges (version 2) |
| `Progress`, `Status` | progress towards the goal, and the status over the three pass flags |

Division is Go's, toward zero. Tick and time of a record are its place in the
trace; the command of a record is left out. A trace of a run that ended in an
error is not returned by the code; the model keeps it as the run's past. Metric
versions other than those supported and malformed recordings that `Accepts` refuses
are not explored. Integers are unbounded; `NoOverflow` shows that those of the
machine would do. The evidence ticks are in `ScoreDocuments`.

## Runs

Twelve runs. Nine pass and three show a finding. Runs that disable TLC's deadlock
check do so because the system really stops: calls return, jobs are done, files
are delivered, databases are open and the budget of disruptions is used. In
`Reader` and `Standalone` a command can always be started again.

| Run | Instance | Shows |
|---|---|---|
| `leases` | one run job, two workers per stage, two racing publishers, a failure armed twice on either stage, two disruptions of any kind | `FollowsLifecycle`, `FaultsHappen`, `InsertionOrder`, `InputsPublished`, `SupersededIsHarmless`, `LiveLeaseStays` |
| `intake` | a run, a rival run of the same execution, two analyses of its recording, one of them at the run's own path, in the highest and the lowest class; one worker per stage, one disruption | `Unique`, `HeadPublishable`, `LowestServed`, and `Completion` under fairness |
| `pool` | one job; a process with both stages and one with analysis only, each draining, two upsets (kills or storage errors); any release may fail | `GracefulRelease`, `DrainedDelivered`, and `Stops` under fairness |
| `upgrade` | two processes open every database of versions 0 to 5 over a good row and one that cannot be read; one kill, error or power loss | `Opened`, `OpensForCause`, and `Opens` under fairness |
| `upgrade_faults` | one process, one good row, no outage | violates `ArmsUnstarted` (see Findings) |
| `publication` | a recording offered by two calls with equal bytes and one with others, a result that refers to it and to a job file that was there before; any call fails or is killed, power is lost at any time | `Survives`, `Closed`, `SameBytesAgree`, `ImplementsWriteOnce` |
| `standalone` | two commands that execute one job again and again, one for a rival that claims its execution, and one that selects the queue, in a fresh exchange; kills, power loss and timeouts without bound | `OneMode`, `Repaired`, `OutcomeStable`, `OneScore`, `FailureIsFinal`, `RefusedForCause` |
| `standalone_retry` | one command that repeats | violates `RetryKeepsOutcome` (see Findings) |
| `contract` | one run of one tick, a stricter analysis of its recording, recordings of one or two ticks (one too many), three measurements; up to four changes by hand, a renaming among them | `Published`, `ValidatorsAgree`, `PassIsBacked`, `MeaningStays` |
| `reader` | a sync (of a listing or of named events) beside a watch or rebuild; two attempts at one job and a malformed event; one fault | `Remembered`, `ScanComplete`, `IndexKept`, and `CaughtUp` under fairness |
| `reader_race` | the instance of `reader` without faults | violates `SeenIndexed` (see Findings) |
| `scoring` | both controllers in 3500 worlds: a vehicle standing, rolling, fast or above the limit of speed; a machine integer that just holds what the limits multiply to; goals behind, near, at a stopping point and out of reach; up to two obstacles behind, around and ahead, standing, slower or faster | `NoOverflow` (with `WithinLimits`), `BaselineStops`, `ScoreAgrees`, `PassMeansGoal`, `GapMeansClear`, `ScorePublishable` |

The type invariants and the inductive invariants (`QueueInvariant`,
`PublicationInvariant`, ...) are proved; they are operators of the property
modules and can be added to a configuration.

Why the bounds are enough. Two workers of a stage are the smallest pool in which
a lease is superseded while its old holder still works, and two disruptions allow
both a first holder to be superseded and the clock to go back, or a second holder
to be lost. A third worker only repeats the second's role: the row remembers one
token. Workers, and publishers, are interchangeable, so symmetry is sound in the
safety runs; the liveness runs use none. `Cycle` is 2 in the runs (10 in the
code), so that positions wrap; the theorems hold for every `Cycle`. Two armed
failures are more than one retry absorbs; a single one is what `Calculate` does
at will. In `pool`, analysis is served by both processes and simulation by one,
so a process may drain while the other still works; `MaxDisruptions` there leaves
room for every worker to be cancelled and to lose its lease to a death or a
failed release once more than `Upsets` bounds what goes wrong by itself, so that
liveness is not bought by an exhausted budget. In `upgrade`, two processes are every race for a lock that is held from
the first step on the database to the last.

For `Publication`, two calls with equal bytes and one with others are every way a
name can be contested, and a fourth call refers to the name; power may be lost
any number of times. For `Standalone`, two processes are the smallest number that
contends for a lock, and each repeats its call without bound; the third brings a
rival that is scored or times out. A job that can never be simulated is not in the
run, because its failure takes the name a timeout takes; the theorems hold for any
set `Broken` and for copies of a job. Two readings of the clock are enough to tell
an attempt's own time from an adopted one. For `Exchange`, a document that changes invalidates the three that may refer to it,
directly or not, and four changes are enough to put all their hashes right again;
`Agreement` holds for any exchange. For
`Reader`, two rival results with their events are the smallest conflict in which
each of the documents is valid by itself, and one malformed event is enough to
fail a scan; the number of scans is not bounded. For `Simulator`, the worlds put
each comparison at its boundary: speeds and ticks whose products are truncated,
goals at the exact millimetre where the baseline stops, obstacles that touch, one
millimetre on either side of touching, and swept through within one tick; twelve
ticks of half a second suffice for every world to end or to run out of budget,
and a position limit of 55 m makes the coast path of a fast far obstacle invalid.

### Fairness

- `intake`: weak fairness of each worker and publisher taken as a whole
  (`repeat` polls every 25 ms for ever, and a pool that was killed is started
  again) and of `Lapse` (time passes over an abandoned lease). Nothing is assumed
  of `Import`, `InjectFailure`, or of any disruption. `Completion` says that every
  accepted job then ends and that all its files are delivered. It holds for the
  finite set of jobs of a run; that the classes between the highest and the
  lowest may wait while urgent work keeps arriving is documented
  (docs/recovery.md:39) and no property denies it.
- `pool`: weak fairness of each goroutine of a process, of its main loop and of
  the expiry of unrenewed leases. Nobody has to start a process, and a killed one
  is not restarted. `Stops` says that a stopping process returns, and that a
  draining one stops by itself.
- `reader`: weak fairness of the steps of each command that was started: a
  process runs, and `watch` rescans on a timer. Nothing makes a command start.
  `CaughtUp` lets a watch stop after a fault or a bad event, as `run` does.
- `upgrade`: weak fairness of the steps of each process between calling `Open`
  and its return, which includes trying `open.lock` again and again
  (`filelock.Acquire` polls).

## Findings

- `standalone_retry`: a repetition of a standalone command simulates again under
  the wall-clock limit before it looks for the accepted score. If it exceeds the
  limit this time, it publishes an `ERROR` result and event beside the score that
  was already returned, and every later repetition returns the `ERROR`. Tests and
  `docs/metrics.md` say that a repetition keeps the outcome. The two events of
  the job carry the same sequence number, so the example reader rejects one.
- `reader_race`: `rebuild` lists the results directory before its transaction
  starts. A result that is published and committed by a concurrent `sync` in
  between is deleted from the index while its event stays processed. The next
  complete scan puts it back. `examples/reader/README.md` promises a replacement
  by all published results in one transaction.

- `upgrade_faults`: `InjectFailure` takes generation 0 to mean that a job was
  never claimed, but the upgrade of a version 1 database gives generation 0 to
  every row, those that were already claimed included. Such a job can be armed
  and fails a stage it had begun. `docs/operations.md` says that arming an
  already started job is rejected.

## Proofs

### Queue

`QueueProofs` proves, for every finite set of documents, every set of workers and
publishers, every cycle and disruption bound:

| Theorem | Statement |
|---|---|
| `TypeCorrect` | `Spec => []TypeOK` |
| `Invariant` | `Spec => []QueueInvariant` |
| `OneOwnerCorrect` | at most one holder of a lease on a job can have it accepted |
| `InsertionOrderCorrect` | files are published and acknowledged in row order |
| `InputsPublishedCorrect` | a worker that owns its lease finds its inputs in the exchange |
| `DoneIsFinalCorrect` | no step touches a finished job |
| `SupersededIsHarmlessCorrect` | a superseded lease ends without changing any table |
| `LiveLeaseStaysCorrect` | a live held lease is ended only by its holder |
| `FollowsLifecycleCorrect` | `Spec => Life!Spec`: the queue implements `Lifecycle` |
| `HeadPublishableCorrect` | the oldest undelivered file never waits for a later one |
| `FaultsHappenCorrect` | no job leaves a stage with armed failures unspent |
| `UniqueCorrect` | no two rows share a unique column, no two files a path |

Assumptions: those named in `Queue` (`DocsAssumption`, ..., `LeaseAssumption`),
which TLC evaluates in every run.

The argument. None of the properties is inductive by itself. `QueueInvariant`
adds what the code relies on without saying it: `RowsCoherent` (a row's token is
empty or that of its last claim, a live lease has a token, a finished row has
none), `LeasesIssued` (a worker's generation is one the row has issued, and no
two workers hold the same one), `FlushingInOrder` (the predecessors of the row a
publisher works on are acknowledged) and `InputsFiled` (the files a stage reads
are in the outbox when the stage becomes runnable and in the exchange from its
first claim). The proof that a step preserves it is organised by what the step
does to one row: `RowCases` shows that a row is left alone, imported, leased,
given up by its holder, or touched by the clock, and `FilesGrow` that files are
only ever added. `SettledOnDisk` is where the outbox condition of `claim` is
used. The action properties follow from the invariant and the same case split.

Four more invariants stand on this one. `LifeInvariant` says that a row tells
what its job has been through (`RowsTold`), that workers offer what their stage
can produce (`OffersFit`) and that the holder of a lease knows the attempt of the
row (`AttemptsMatch`); with it each step maps to a step of one job's lifecycle,
or shows nothing, which is the refinement. Without `AttemptsMatch` a worker could
announce an attempt that is not the row's. `ReferencesFiled` follows every
reference of a file to an earlier row of the outbox or to the exchange; the
oldest undelivered file has only delivered ones before it, which
`InsertionOrder` puts in the exchange. `FaultsSpent` says that a worker with
anything but a failure to offer has no armed failure left, so handing it over
leaves none behind. `Unique` needs `RowsDiffer` (in particular that an analysis
has the run of its recording in the queue, which is why a handoff cannot collide
with an imported analysis) and `FilesOnce` (the events of a job count its
sequence column, its other documents are filed by stages it leaves for good).

### Pool and dispatch order

`PoolProofs` proves `PoolImplementsQueue` (`PoolSpec => Spec` of `Queue`): however
processes start, drain, stop, fail and die, they take steps of the queue, so the
theorems above hold for them. `GracefulReleaseCorrect` says that every leased row
has a worker behind it, or carries the very lease of one that died or could not
write its release: stopping, draining and failing leave nothing else behind. Its
core is `OnlyCrashesLeave`: a worker that still holds the row's token and goes
idle either frees the row or takes the step `Crash` of `Queue`; and
`ForgottenRecorded`: in a pool that step is a death or a failed release, which
records the lease. `LowestServedCorrect` bounds, for every length of the cycle, how
often waiting work of the lowest class is passed over by the position of its
stage in the cycle. It is inductive together with the types: a claim that passes
the lowest class over is not the last of its cycle (`Rank`), and moves the
position with the count. `DrainedDeliveredCorrect` rests on `EndsFiled`: a row is
done only with its result and a terminal event in the outbox. `DrainFinds` shows
what a draining process may conclude from its one query: nothing is pending, so
by `InsertionOrder` everything in the outbox is in the exchange, and a row in no
stage of its own is done or, with its recording filed, waits for analysis.

### Upgrade

`UpgradeProofs` proves, for any processes, saved jobs and outages, `Opened`,
`OpensForCause` and `UpgradeKeeps` (`OpenedCorrect`, `OpensForCauseCorrect`,
`UpgradeKeepsCorrect`) from the inductive `UpgradeInvariant`: `Exclusive` (one
holder of `open.lock`, and only inside it), `Built` (what each step of `Open` has
achieved, in particular that the version read before the transaction is still
that of the database) and `Legacy` (what the file and its version say of the
tables). The lemmas `SecondUpgrade`, `ThirdUpgrade`, `FourthUpgrade` and `Upgrade`
say what each part makes of any database, and `SwitchAlone` why the change of
the journal mode never finds another process in its way.

### Publication

`PublicationProofs` proves `PublicationInvariant`, `NeverTorn`, `Survives`,
`Closed` and `SameBytesAgree` for any number of calls, names and folders, and
`Implements`: `Spec => Register!Spec`, the refinement of `WriteOnce`. The
invariant consists of `Bound` (only complete, synchronised objects are bound to a
name, and a binding on disk is not replaced), `Progress` (what a call has
achieved by each step: the reason why success means safety) and `Founded` (the
references of everything that is or may again be visible are on disk), together
with `Survives` and `NothingStaged` (no temporary file of a call that returned
success comes back with the next boot). `SameBytesAgree` says when a call is
refused: a complete file holds its name, and a comparison that was carried out
found other bytes; one that failed is refused too, whatever the bytes
(docs/contract.md:167). `Founded` is where the order of calls matters: a call starts after its references were
acknowledged, and by `Survives` they are then on disk.

### Standalone

`StandaloneProofs` proves `StandaloneInvariant`, `OneMode`, `Grounded`,
`OneScore`, `Repaired`, `OutcomeStable`, `FailureIsFinal` and `RefusedForCause`
for any number of processes, jobs and clock readings. `RefusedForCause` is about
what `Run` decides; that a comparison inside `File` that fails reads as a
conflict as well is in `Publication`. The invariant adds `Guarded` (who may hold which lock at which step), `Achieved` (what a
process has secured by each step) and `Founded` (what each file in the exchange
rests on, on disk where it was reported). `OneMode` is inductive only together
with `Achieved`: a process works in a mode only after its directory is on disk,
and the directory excludes the other. `StandaloneWritesOnce` closes the chain to
`Publication`: `Spec => Exchange!Spec`, every step of a command is one of `WriteOnce`
or leaves the exchange alone, because by `Achieved` a name that is reported
durable is bound.

The last four need `OutcomeInvariant`: the lock of an execution excludes
(`Exclusive`), a run fails for its job or not at all (`Candid`), no failure
appears beside a score that is being prepared and the result about to be
published was reconciled with what is there (`Pending`), an event is found by the
attempt it announces (`Titled`), and what was returned is announced and on disk
(`Returned`). Two results of one execution are then the same or one of them is a
timeout or the failure of another job (`ScoresAgree`, `FailuresAgree`).
`OutcomeStable` and `Repaired` hold only with those exceptions: when a second job
claims the execution of the first and fails, its failure shuts the first job out,
and a score whose event is missing then stays without one.

### Exchange

`ExchangeProofs` proves where the producer's and the reader's validation agree:
the producer accepts exactly the documents that the reader accepts and that lead
only to names with the extension of their format (`Agreement` for every exchange
of schema-typed documents, and `ValidatorsAgreeOnExchange` as the property of the
run). They do disagree on the rest: JSON Lines at `bags/x.json`, or a job at
`jobs/x.jsonl`, with everything that refers to them, is read by the reader and
refused by the producer. It also proves that the documents an accepted event leads
to never change while it is accepted (`MeaningKept`, because references pin exact
bytes). These need no invariant of the producers: they are facts about validation.

That the producers' own documents pass it (`EverythingPublishedIsAccepted`:
`Spec => []Published`) needs one, `ExchangeInvariant`. `Published` alone is not
inductive: whether the next result is accepted depends on what the row says of
its attempt, recording and analysis, and whether it gets an identity of its own
on what the row has published before. Until a file is changed by hand the
invariant says:

- `AllRight`: each document is at the path its content gives it, has the fields of
  its kind and is accepted, and what it refers to is there.
- `Numbered`: no two events of a job have the same sequence number, so that event
  ids, which hash job, attempt and number, differ.
- `RowsRight`: stage, state and analysis of a row fit together, a row that has a
  recording names one of its execution (for a run, with its inputs) that is in
  the exchange, and no two rows have the same analysis: a result is published at the
  name of its analysis, or of its execution, once.
- `ModeRight`: a directory without owner holds only jobs; in one the queue owns
  each recording, result and event belongs to a row that accounts for it
  (`AllOwned`: a result to a row that is done, an event to a row that counted as
  far), so that a name a handler is about to use is free; in a standalone one there is
  already a result, and the next command refuses it.

The proof has one lemma per action (`SubmitWrites`, `ImportWrites`, `ClaimWrites`,
`AcceptBagWrites`, `RetryWrites`, `FinishWrites`, `ExecuteWrites`) over three
lemmas for what a step adds: an event of a row (`EventStep`), a document with an
event (`QueueStep`), the outcome of a standalone run (`AloneStep`). Documents that are in
the exchange stay accepted because it only grows (`Extends`); that a new result is
accepted is shown from the arithmetic of its metrics (`ReportFits`). By `Agreement`
the reader accepts it too.

`PassIsAlwaysBacked` says what an accepted PASS is worth, and what it is not.
Whatever was changed by hand, its metrics are within the limits of the job it
leads to, and that job, the result and a complete recording are of one execution.
That the metrics were measured on that recording is shown only while nothing was
changed (`Evaluated` in `AllRight`): neither validator measures again, and a
value forged within the limits, with flags, status and hashes to match, is
accepted, as a test of the contract does (`contract_test.go:235`). The run reaches
such exchanges.

Its assumptions are those of the module: the inputs hash of a submitted run is
that of its inputs and its limits are whole numbers, as the schema and `ParseJob` demand before a job is
imported; no two runs share an execution id (docs/contract.md:107, "Callers supply
unique job and execution IDs"); and `Evaluate` counts collisions and clamps
progress to its scale, both of which `ScoringProofs` shows of the metrics
(`ScoresPublish`). One hypothesis is added, `NullIsNoObject`: the JSON null is not
a record, which TLC cannot evaluate of a model value.

### Reader

`ReaderProofs` proves type correctness and `Remembered` for any documents, any
number of commands and any faults. The invariant adds `Prepared`: the graph of
the event a command is about to commit was read completely, and files are never
withdrawn. `ClaimsBind` is the fact about `remember` it rests on.
`ScanCompleteCorrect` adds `ScanInvariant`: documents come after those they refer
to and identities stand for documents that claim them (`WellFounded`), a scan
deals only with what it listed and sets an event aside without a fault only if
the event fails (`Underway`), and the property holds while an event is being
dealt with (`Complete`). An event that failed once keeps failing because tables
only gain identities and files are not rewritten. `IndexKeptCorrect` follows from
`Underway`: a rebuild replaces the index by what it listed.

### Scoring

`ScoringProofs` proves, for any worlds, tick length, step budget and limits, type
correctness, `WithinLimits`, `NoOverflow`, `BaselineStops`, `ScoreAgrees`,
`PassMeansGoal`, `GapMeansClear` and `ScorePublishable` (`ScoringTypes`,
`LimitsHold`, `NothingOverflows`, `BaselineIsSafe`, `ScoresAgree`,
`PassIsGoal`, `GapIsClear`).
`WithinLimits` is not inductive: a position within the limits says nothing of the
next one. `Planned` adds what is left of the coast path, 1000 times the position
plus speed times tick length times the ticks to come, which truncated motion
never exceeds and braking only shortens. `BaselineStops` needs `FarEnough`: at
every record 8000 times the gap exceeds the square of the speed, that is, the
vehicle could stop short by braking now. Under the brake this is preserved
because a tick takes exactly 4 mm/s per millisecond off the speed
(`BrakingKeeps`); while coasting it is what the threshold adds one step for
(`CoastingKeeps`). The margin of 2,000 mm is not needed. `ScoreAgrees` rests on
`EndsAtContact` and `ContactAtEnd`: contact is seen in the last record or not at
all, so the episodes of the metrics are the obstacles of that record.
`GapIsClear` takes the least gap over the records (`LeastExists`), which is zero
exactly where bodies overlap (`ZeroIsOverlap`).

`ScorePublishable` asks `checkMetrics` and `metricsConsistent` of the document
that the score of a run becomes. `MeasuredFits` and `ReportFits` show each metric
within its range with the flag both validators compute from the limits,
`GapTickExists` and `ContactAtEnd` that its evidence is within the recording, and
`StatusIsOverall` that the status of `Evaluate` is the one the flags imply.

`NoOverflow` lists what `validateBody`, the controller, `advance`, `terminal` and
`Evaluate` compute before they divide. It needs, besides `WithinLimits`, that the
vehicle is never faster than it started (`Slowed`, inductive relative to
`ScoringInvariant`) and that obstacles keep their speed and length (`LengthsStay`).
Its assumption `MaxIntAssumption` says that a machine integer holds what the limits
multiply to; `CodeLimitsFit` proves this of the limits of the code (10^9 mm,
10^6 mm/s, 1000 ms, 10^5 ticks), whose greatest product is 2 * 10^15, in the
progress of the metrics. The bound on the coast path is computed only of a body
that passed the other checks, so it does not overflow itself (`CoastFits`).

Assumptions: the named `ASSUME`s of each component module, evaluated by TLC in
every run of the component.

## Only model-checked

Every safety invariant and action property that a passing run checks is also
proved. Liveness under fairness is outside what the prover supports: `Completion`,
`Stops`, `CaughtUp` and `Opens`.

## Not modelled

- `record` of the command line, which publishes a recording without a result; the
  other commands are the operations above, and their flags and output are left
  out. The data directory (permission checks), inspection (read-only reports,
  page by page) and the scripts and tests keep no state of their own.
- The JSON schema and its generator, canonical JSON, and the limits on file size,
  graph depth and number of files. A recording larger than the 16 MiB a file may
  have is therefore outside the models: in the code it fails the stage with an
  error that is no outcome, so the pool stops and the job is claimed again after
  the next start.
- A reader that indexes a result which is visible but not yet on disk, when power
  is then lost and another attempt publishes other bytes at the name. It needs
  the volatile and durable files of `Publication` under the commands of `Reader`,
  whose product TLC cannot explore. `Survives` bounds it: a name whose publication
  was reported is durable, so only files of an unfinished publication are
  concerned.
- Clock faults inside `Pool` (they are in `Queue`, which it implements), and
  several paths on one reader command line that name the same event.
- Starvation of the middle classes, see Fairness.
