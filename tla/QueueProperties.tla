-------------------------- MODULE QueueProperties --------------------------
(***************************************************************************)
(* What the queue promises: the properties TLC checks on small instances   *)
(* and the inductive invariant from which QueueProofs derives some of them *)
(* for every instance.                                                     *)
(***************************************************************************)
EXTENDS Queue

\* Every variable keeps the type its table, lease or goroutine gives it.
TypeOK ==
    /\ jobs \in [Docs -> Row]
    /\ retries \in [Docs -> SUBSET Stages]
    /\ faults \in [Docs -> [Stages -> 0..2]]
    /\ dispatches \in [Stages -> 0..(Cycle - 1)]
    /\ outbox \in Seq(File)
    /\ delivered \subseteq DOMAIN outbox
    /\ disk \subseteq DOMAIN outbox
    /\ out \in [Workers -> Outputs]
    /\ lease \in [Workers -> Lease \cup {NoLease}]
    /\ \A w \in Workers : out[w] = "idle" <=> lease[w] = NoLease
    /\ flushing \in [Publishers -> [row : DOMAIN outbox, done : BOOLEAN]
                                     \cup {Resting}]
    /\ disruptions \in 0..MaxDisruptions

\* Publishers race on the oldest row and may die between the file and its
\* acknowledgment, yet acknowledgments, files and rows stay initial segments
\* of the outbox, files at most one row ahead (outbox.go, "in insertion
\* order").
InsertionOrder ==
    /\ \A n \in disk : 1..(n - 1) \subseteq delivered
    /\ delivered \subseteq disk

\* The oldest undelivered file always refers to files already published, so
\* no interleaving of intake, workers and publishers blocks the whole outbox
\* behind a file that cannot be validated (publication.Document).
HeadPublishable == \A n \in Oldest(Pending) : References(outbox[n])

\* A worker that still owns its lease finds the files it needs: the job its
\* result refers to and, for analysis, the recording. Otherwise it would stop
\* its pool with a storage error (claim's outbox condition, calculate,
\* acceptResult).
InputsPublished ==
    \A w \in Workers : out[w] # "idle" /\ Owns(w) =>
        /\ OnDisk("job", lease[w].job)
        /\ StageOf(w) = "analysis" => BagOnDisk(lease[w].job)

\* At most one of the workers that hold a lease on a job can have it accepted,
\* however many claimed it after crashes, expiries and clock faults.
OneOwner ==
    \A v, w \in Workers :
        (/\ v # w
         /\ out[v] # "idle" /\ out[w] # "idle"
         /\ lease[v].job = lease[w].job) => ~(Current(v) /\ Current(w))

\* The lifecycle that the tables and the outbox show of a job.
FilesOf(d, kind) ==
    {f \in {outbox[n] : n \in DOMAIN outbox} : f.job = d /\ f.kind = kind}
Shown(d) ==
    [state |-> IF jobs[d].id = 0 THEN "none" ELSE jobs[d].state,
     attempt |-> jobs[d].attempt, events |-> jobs[d].sequence,
     retried |-> {Running(s) : s \in retries[d]}]
Told(d) ==
    {[sequence |-> f.sequence, state |-> f.state, attempt |-> f.attempt] :
       f \in FilesOf(d, "event")}
Concluded(d) ==
    {[attempt |-> f.attempt, result |-> f.state] : f \in FilesOf(d, "result")}
Life == INSTANCE Lifecycle WITH
    Simulated <- {d \in Docs : Job[d].kind = "run"},
    job <- [d \in Docs |-> Shown(d)],
    story <- [d \in Docs |-> Told(d)],
    recorded <- {d \in Docs : FilesOf(d, "bag") # {}},
    outcome <- [d \in Docs |-> Concluded(d)]

\* Whatever workers come and go, crash, stall or answer late, the tables and the
\* files of every job follow its lifecycle: one story in order without gaps, one
\* retry per stage, one recording, one outcome of the attempt that its terminal
\* event names (lease.go, retry.go, addEvent).
FollowsLifecycle == Life!Spec

\* The job ran stage s and is past it.
Left(d, s) == IF s = "analysis"
              THEN jobs[d].bagged /\ jobs[d].stage = "done"
              ELSE Job[d].kind = "run" /\ jobs[d].stage # "simulation"

\* Armed failures all happen, on the stage they were armed for: a job never
\* leaves a stage with one unused, and two of them end it (fault.go).
FaultsHappen ==
    \A d \in Rows, s \in Stages :
        faults[d][s] > 0 /\ Left(d, s) =>
          /\ s \in retries[d]
          /\ faults[d][s] = 2 =>
               /\ jobs[d].stage = "done"
               /\ \A f \in FilesOf(d, "result") : f.state = "worker_failure"

\* Rows never collide on a column Import and acceptBag must keep unique, nor
\* files on a path: a collision would fail the transaction and stop the pool
\* (store.go and migrate.go, UNIQUE).
FilePath(f) ==
    CASE f.kind = "job" -> Path[f.job]
      [] f.kind = "bag" -> <<"bags", Job[f.job].execution>>
      [] f.kind = "result" ->
           IF jobs[f.job].bagged
           THEN <<"results", Job[f.job].execution, Job[f.job].bag,
                  Job[f.job].template>>
           ELSE <<"results", Job[f.job].execution>>
      [] f.kind = "event" ->
           <<"events", Job[f.job].job_id, f.attempt, f.sequence>>
Unique ==
    /\ \A d, e \in Rows : d # e =>
         /\ Job[d].job_id # Job[e].job_id
         /\ jobs[d].id # jobs[e].id
         /\ jobs[d].bagged /\ jobs[e].bagged => ~SameAnalysis(d, e)
    /\ \A m, n \in DOMAIN outbox :
         m # n /\ outbox[m].kind = outbox[n].kind =>
           FilePath(outbox[m]) # FilePath(outbox[n])

\* Nothing a worker does under a lease that another claim or a release has
\* superseded reaches the tables: late bags, results, retries and releases are
\* all refused (docs/workers.md, "An expired worker cannot publish files
\* directly or replace a newer acceptance").
SupersededIsHarmless ==
    [][\A w \in Workers :
         (/\ out[w] # "idle"
          /\ lease[w].generation # jobs[lease[w].job].token
          /\ lease'[w] # lease[w]) => UNCHANGED tables]_vars

\* No stage is calculated twice at once while its lease is alive: a live lease
\* changes hands only through its holder, even if the clock jumps.
LiveLeaseStays ==
    [][\A d \in Docs :
         jobs[d].live /\ Held(d) /\ jobs'[d].token # jobs[d].token =>
           \E w \in Workers : /\ out[w] # "idle" /\ lease[w].job = d
                             /\ Current(w) /\ lease'[w] = NoLease]_vars

\* A finished job stays as it is: no late worker, clock fault or operator
\* changes its row, retries or faults, or adds a file to it (docs/workers.md,
\* "Completed outcomes remain terminal").
DoneIsFinal ==
    [][\A d \in Docs : jobs[d].stage = "done" =>
         /\ UNCHANGED <<jobs[d], retries[d], faults[d]>>
         /\ \A n \in DOMAIN outbox' \ DOMAIN outbox : outbox'[n].job # d]_vars

\* Once the disruptions are over every accepted job ends and its files are all
\* delivered: neither leases left behind by crashes nor the outbox condition of
\* claim can strand it.
Completion ==
    \A d \in Docs : (jobs[d].id # 0) ~> (jobs[d].stage = "done" /\ Settled(d))

-----------------------------------------------------------------------------
(* The inductive invariant.                                                *)

\* A row's lease columns agree with each other and with its stage; a finished
\* row is one that was claimed and carries no lease.
RowsCoherent ==
    \A d \in Docs :
        /\ jobs[d].token \in {0, jobs[d].generation}
        /\ jobs[d].live => jobs[d].token # 0
        /\ jobs[d].generation # 0 => jobs[d].id # 0
        /\ jobs[d].stage = "done" => jobs[d].token = 0 /\ jobs[d].generation # 0

\* A worker's lease is one the row has issued, and no two workers hold the
\* same one.
LeasesIssued ==
    /\ \A w \in Workers : out[w] # "idle" =>
         lease[w].generation \in 1..jobs[lease[w].job].generation
    /\ \A v, w \in Workers :
         v # w /\ out[v] # "idle" /\ out[w] # "idle" =>
           lease[v].job # lease[w].job \/ lease[v].generation # lease[w].generation

\* A publisher works on a row whose predecessors are all acknowledged.
FlushingInOrder ==
    \A p \in Publishers : flushing[p].row # 0 =>
        /\ 1..(flushing[p].row - 1) \subseteq delivered
        /\ flushing[p].done => flushing[p].row \in disk

\* The files a stage reads are in the outbox from the transaction that makes
\* the stage runnable, and in the exchange from its first claim.
Filed(kind, d) ==
    \E n \in DOMAIN outbox : outbox[n].kind = kind /\ outbox[n].job = d
InputsFiled ==
    \A d \in Docs :
        /\ jobs[d].id # 0 => Filed("job", d)
        /\ jobs[d].generation # 0 => OnDisk("job", d)
        /\ jobs[d].stage = "analysis" => Filed("bag", d) \/ BagOnDisk(d)
        /\ jobs[d].stage = "analysis" /\ jobs[d].token # 0 => BagOnDisk(d)

\* Together with the types and the order of the outbox these are preserved by
\* every step (they relate the tables of store.go to the goroutines' leases).
QueueInvariant ==
    /\ RowsCoherent
    /\ LeasesIssued
    /\ FlushingInOrder
    /\ InsertionOrder
    /\ InputsFiled

\* A row says what its job has been through: nothing before it exists, its
\* receipt until the first claim, then the stage it is in.
FirstStage(d) == IF Job[d].kind = "run" THEN "simulation" ELSE "analysis"
RowsTold ==
    \A d \in Docs :
        /\ jobs[d].id = 0 => jobs[d].sequence = 0 /\ jobs[d].attempt = 0
        /\ jobs[d].generation = 0 =>
             /\ jobs[d].state = "PENDING" /\ retries[d] = {}
             /\ jobs[d].id # 0 => jobs[d].stage = FirstStage(d)
        /\ jobs[d].generation # 0 /\ jobs[d].stage # "done" =>
             jobs[d].state = Running(jobs[d].stage)

\* Workers offer what their stage can produce, for the attempt of the row.
Offers(w) ==
    IF StageOf(w) = "simulation" THEN {"bag", "worker_failure"} \cup RunFailures
    ELSE {"analysis_failure", "worker_failure"} \cup Verdicts
OffersFit == \A w \in Workers : out[w] \in {"idle", "calculating", "failed"} \cup Offers(w)
AttemptsMatch ==
    \A w \in Workers : out[w] # "idle" /\ Current(w) =>
        lease[w].attempt = jobs[lease[w].job].attempt

\* With QueueInvariant, what the lifecycle of a job rests on.
LifeInvariant == RowsTold /\ OffersFit /\ AttemptsMatch

\* From the transaction that files it, whatever a file refers to is in the
\* exchange, or is an earlier file of the outbox.
ReferenceFiled(n) ==
    LET f == outbox[n] IN
    /\ f.kind = "job" /\ Job[f.job].kind = "analysis" => BagOnDisk(f.job)
    /\ f.kind = "result" => /\ jobs[f.job].stage = "done"
                            /\ OnDisk("job", f.job)
                            /\ jobs[f.job].bagged => BagOnDisk(f.job)
    /\ f.kind = "event" /\ f.state \in Terminal =>
         \E m \in 1..(n - 1) : /\ outbox[m].kind = "result"
                               /\ outbox[m].job = f.job
                               /\ outbox[m].attempt = f.attempt
                               /\ Status(outbox[m].state) = f.state
ReferencesFiled == \A n \in DOMAIN outbox : ReferenceFiled(n)

\* A worker offers anything but a worker failure only for a stage without armed
\* failures left, and a job has a recording only once its simulation is over.
FaultsSpent ==
    /\ \A w \in Workers :
         (/\ out[w] \notin {"idle", "calculating", "failed", "worker_failure"}
          /\ Current(w)) => ~Injected(lease[w].job, StageOf(w))
    /\ \A d \in Rows : jobs[d].stage = "simulation" =>
         Job[d].kind = "run" /\ ~jobs[d].bagged
FaultsInvariant == FaultsSpent /\ FaultsHappen

\* Rows are numbered as they are inserted and differ wherever Import requires
\* it, and an analysis of a recording has the run that made it in the queue.
RowsDiffer ==
    /\ \A d \in Rows :
         /\ jobs[d].id \in 1..Cardinality(Rows)
         /\ Job[d].kind = "analysis" =>
              /\ jobs[d].bagged
              /\ \E r \in Rows : /\ Job[r].kind = "run" /\ jobs[r].bagged
                                 /\ SameRecording(d, r)
    /\ \A d, e \in Rows : d # e =>
         /\ Job[d].job_id # Job[e].job_id /\ Path[d] # Path[e]
         /\ jobs[d].id # jobs[e].id
         /\ Job[d].kind = "run" /\ Job[e].kind = "run" =>
              Job[d].execution # Job[e].execution
         /\ jobs[d].bagged /\ jobs[e].bagged => ~SameAnalysis(d, e)

\* A job files each of its documents once, and its events in sequence.
FilesOnce ==
    /\ \A n \in DOMAIN outbox :
         /\ outbox[n].job \in Rows
         /\ outbox[n].kind = "bag" =>
              Job[outbox[n].job].kind = "run" /\ jobs[outbox[n].job].bagged
         /\ outbox[n].sequence <= jobs[outbox[n].job].sequence
    /\ \A m, n \in DOMAIN outbox :
         (/\ m # n
          /\ outbox[m].kind = outbox[n].kind
          /\ outbox[m].job = outbox[n].job) =>
            outbox[m].kind = "event" /\ outbox[m].sequence # outbox[n].sequence
UniqueInvariant == RowsDiffer /\ FilesOnce
=============================================================================
