------------------------------- MODULE Queue -------------------------------
(***************************************************************************)
(* The durable queue of internal/queue: the SQLite tables, the worker      *)
(* pools that lease job stages from them, and the publishers that copy the *)
(* committed outbox to the exchange directory.                             *)
(*                                                                         *)
(* One action is one SQL transaction (immediate write transactions, so     *)
(* they serialise), or one step a goroutine takes between transactions.    *)
(* Workers and publishers fail independently of each other, which includes *)
(* the failure of a whole process.                                         *)
(***************************************************************************)
EXTENDS Naturals, Sequences, FiniteSets

CONSTANTS
    Docs,               \* job documents that may be offered to Import
    Path,               \* the path each document is offered at
    Job,                \* the parsed bytes of each document
    SimulationWorkers,  \* goroutines of the simulation pools
    AnalysisWorkers,    \* goroutines of the analysis pools
    Publishers,         \* goroutines running Flush
    Verdicts,           \* statuses of a scored result (PASS, FAIL, WARN)
    RunFailures,        \* failure classes of a rejected simulation
    Failures,           \* failure counts InjectFailure is asked to arm
    Cycle,              \* dispatches per scheduling cycle (10 in the code)
    MaxDisruptions,     \* bound on crashes, cancellations and clock faults
    NoLease             \* what a worker between claims holds

ASSUME DocsAssumption == IsFiniteSet(Docs)
ASSUME JobAssumption ==
    \A d \in Docs : /\ Job[d].kind \in {"run", "analysis"}
                    /\ Job[d].priority \in 0..3
ASSUME PoolAssumption == SimulationWorkers \cap AnalysisWorkers = {}
ASSUME CycleAssumption == Cycle \in Nat \ {0}
ASSUME BoundAssumption == MaxDisruptions \in Nat
ASSUME OutcomeAssumption ==
    /\ Verdicts \subseteq {"PASS", "FAIL", "WARN"}
    /\ RunFailures \subseteq {"simulation_timeout", "controller_failure"}
    /\ Failures \subseteq 1..2
ASSUME LeaseAssumption ==
    NoLease \notin [job : Docs, generation : Nat, attempt : Nat]

VARIABLES
    jobs,         \* table jobs: a row per document, id 0 meaning no row
    retries,      \* table retries: the stages each job has retried
    faults,       \* table faults: armed failures of each job and stage
    dispatches,   \* table dispatches: position of each stage in its cycle
    outbox,       \* table outbox, in id order
    delivered,    \* ids of the outbox rows acknowledged with delivered=1
    disk,         \* ids of the outbox rows whose file is in the exchange
    lease,        \* the lease each worker believes it holds
    out,          \* what each worker is doing, or has calculated
    flushing,     \* the outbox row each publisher works on, 0 for none
    disruptions   \* disruptions so far

tables == <<jobs, retries, faults, dispatches, outbox, delivered>>
workers == <<lease, out>>
vars == <<tables, disk, workers, flushing, disruptions>>

-----------------------------------------------------------------------------
Stages == {"simulation", "analysis"}
Terminal == {"PASS", "FAIL", "WARN", "ERROR"}
States == {"PENDING", "RUNNING", "ANALYZING"} \cup Terminal
Workers == SimulationWorkers \cup AnalysisWorkers
StageOf(w) == IF w \in SimulationWorkers THEN "simulation" ELSE "analysis"

Results == {"PASS", "FAIL", "WARN", "simulation_timeout", "controller_failure",
            "worker_failure", "analysis_failure"}
\* ERROR carries a failure class; the other results are their own status.
Status(r) == IF r \in Terminal THEN r ELSE "ERROR"
\* The state announced by the first claim and by a retry of a stage.
Running(s) == IF s = "simulation" THEN "RUNNING" ELSE "ANALYZING"

(***************************************************************************)
(* A token is random and a generation counts claims, so the claim that     *)
(* drew a token is named by its generation: 0 stands for token=''. Attempt *)
(* identifiers, random too, are numbered per job. "live" says lease_ms>now *)
(* and "bagged" that bag_hash, bag_path and analysis_id are set.           *)
(***************************************************************************)
Row == [id : Nat, stage : Stages \cup {"done"}, state : States,
        attempt : Nat, sequence : Nat, generation : Nat, token : Nat,
        live : BOOLEAN, bagged : BOOLEAN]
NoRow == [id |-> 0, stage |-> "simulation", state |-> "PENDING",
          attempt |-> 0, sequence |-> 0, generation |-> 0, token |-> 0,
          live |-> FALSE, bagged |-> FALSE]
Rows == {d \in Docs : jobs[d].id # 0}

File == [job : Docs, kind : {"job", "bag", "result", "event"},
         attempt : Nat, sequence : Nat,
         state : States \cup Results \cup {"none"}]
Lease == [job : Docs, generation : Nat, attempt : Nat]
Outputs == {"idle", "calculating", "failed", "bag"} \cup Results

\* addFile: an immutable file that is not an event.
Document(d, kind, a, r) ==
    [job |-> d, kind |-> kind, attempt |-> a, sequence |-> 0, state |-> r]
\* addEvent: the row advances one sequence number to a state, and the event
\* saying so names the attempt its caller passes.
Advance(row, s) == [row EXCEPT !.sequence = @ + 1, !.state = s]
Event(d, row, a, s) ==
    [job |-> d, kind |-> "event", attempt |-> a,
     sequence |-> row.sequence + 1, state |-> s]

\* Two files one transaction adds, in this order.
SwappedFiles(f, g) == Append(Append(outbox, g), f)
Added(f, g) == Append(Append(outbox, f), g)

Pending == DOMAIN outbox \ delivered
\* No earlier file of the job awaits its acknowledgment.
Settled(d) == \A n \in Pending : outbox[n].job # d

-----------------------------------------------------------------------------
(* What the exchange directory holds.                                      *)

OnDisk(kind, d) == \E n \in disk : outbox[n].kind = kind /\ outbox[n].job = d
SameRecording(d, e) == /\ Job[d].execution = Job[e].execution
                       /\ Job[d].bag = Job[e].bag
BagOnDisk(d) == \E e \in Docs : SameRecording(d, e) /\ OnDisk("bag", e)

\* publication.Document: every file a document refers to is already there.
References(f) ==
    /\ f.kind = "job" /\ Job[f.job].kind = "analysis" => BagOnDisk(f.job)
    /\ f.kind = "result" => /\ OnDisk("job", f.job)
                            /\ jobs[f.job].bagged => BagOnDisk(f.job)
    /\ f.kind = "event" /\ f.state \in Terminal =>
         \E n \in disk : /\ outbox[n].kind = "result"
                         /\ outbox[n].job = f.job
                         /\ outbox[n].attempt = f.attempt
                         /\ Status(outbox[n].state) = f.state

-----------------------------------------------------------------------------
(* Intake.                                                                 *)

\* A row the document would duplicate or conflict with; either way Import
\* changes nothing.
Matches(d) ==
    {e \in Rows : \/ Job[e].job_id = Job[d].job_id
                  \/ /\ Job[e].kind = "run" /\ Job[d].kind = "run"
                     /\ Job[e].execution = Job[d].execution
                  \/ Path[e] = Path[d]}
\* originalRun: the run of this queue that produced the pinned recording.
OriginalRun(d) == \E e \in Rows : /\ Job[e].kind = "run"
                                  /\ jobs[e].bagged
                                  /\ SameRecording(d, e)
SameAnalysis(d, e) == SameRecording(d, e) /\ Job[d].template = Job[e].template
NeverOwned(d) == FALSE
AnalysisOwned(d) == \E e \in Rows : jobs[e].bagged /\ SameAnalysis(d, e)

NewRow(d) ==
    [NoRow EXCEPT !.id = Cardinality(Rows) + 1,
                  !.attempt = 1,
                  !.stage = IF Job[d].kind = "run" THEN "simulation"
                                                   ELSE "analysis",
                  !.bagged = (Job[d].kind = "analysis")]

\* Import: one transaction inserts the job, its file and its receipt event.
Import(d) ==
    /\ Matches(d) = {}
    /\ Job[d].kind = "analysis" =>
         OriginalRun(d) /\ BagOnDisk(d) /\ ~AnalysisOwned(d)
    /\ jobs' = [jobs EXCEPT ![d] = Advance(NewRow(d), "PENDING")]
    /\ outbox' = Added(Document(d, "job", 0, "none"),
                       Event(d, NewRow(d), 1, "PENDING"))
    /\ UNCHANGED <<retries, faults, dispatches, delivered, disk, workers,
                   flushing, disruptions>>

\* InjectFailure: arm one or two failures of a stage before the first claim.
AnyTime(d) == d \in Docs
Unclaimed(d) == jobs[d].generation = 0
InjectFailure(d, s, n) ==
    /\ d \in Rows
    /\ Job[d].kind = "analysis" => s = "analysis"
    /\ faults[d][s] = 0
    /\ Unclaimed(d)
    /\ faults' = [faults EXCEPT ![d][s] = n]
    /\ UNCHANGED <<jobs, retries, dispatches, outbox, delivered, disk, workers,
                   flushing, disruptions>>

-----------------------------------------------------------------------------
(* Leases.                                                                 *)

UnsettledReady(d, s) == jobs[d].stage = s /\ ~jobs[d].live
LiveReady(d, s) == jobs[d].stage = s /\ Settled(d)
ReleasedReady(d, s) == jobs[d].stage = s /\ jobs[d].token = 0 /\ Settled(d)
Ready(d, s) == jobs[d].stage = s /\ ~jobs[d].live /\ Settled(d)
Candidates(s) == {d \in Rows : Ready(d, s)}
PlainRank(d, s) == Job[d].priority + 1
\* The last dispatch of a cycle goes to the lowest class when it has work.
Rank(d, s) == IF dispatches[s] = Cycle - 1 /\ Job[d].priority = 3
              THEN 0 ELSE Job[d].priority + 1
Precedes(d, e, s) == \/ Rank(d, s) < Rank(e, s)
                     \/ Rank(d, s) = Rank(e, s) /\ jobs[d].id < jobs[e].id

NextPosition(s) == (dispatches[s] + 1) % Cycle
NextGeneration(d) == jobs[d].generation + 1

Claimed(d) == [jobs[d] EXCEPT !.generation = NextGeneration(d),
                              !.token = NextGeneration(d),
                              !.live = TRUE]
FirstClaim(d) == jobs[d].state = "PENDING"

\* claim: lease the first candidate under a new token; a first claim is
\* announced by an event in the same transaction.
ClaimJob(w, d) ==
    LET s == StageOf(w) IN
    /\ out[w] = "idle"
    /\ d \in Candidates(s)
    /\ \A e \in Candidates(s) \ {d} : Precedes(d, e, s)
    /\ IF FirstClaim(d)
       THEN /\ jobs' = [jobs EXCEPT ![d] = Advance(Claimed(d), Running(s))]
            /\ outbox' = Append(outbox, Event(d, jobs[d], jobs[d].attempt,
                                              Running(s)))
       ELSE /\ jobs' = [jobs EXCEPT ![d] = Claimed(d)]
            /\ UNCHANGED outbox
    /\ lease' = [lease EXCEPT ![w] = [job |-> d,
                                      generation |-> NextGeneration(d),
                                      attempt |-> jobs[d].attempt]]
    /\ out' = [out EXCEPT ![w] = "calculating"]
    /\ dispatches' = [dispatches EXCEPT ![s] = NextPosition(s)]
    /\ UNCHANGED <<retries, faults, delivered, disk, flushing, disruptions>>
Claim(w) == \E d \in Docs : ClaimJob(w, d)

\* The row still carries the token of this lease.
Current(w) == LET row == jobs[lease[w].job]
              IN row.token = lease[w].generation /\ row.stage = StageOf(w)
\* The fence of renew and accept: current and not expired.
Owns(w) == Current(w) /\ jobs[lease[w].job].live

\* accept: the transaction that takes an output gives the lease up.
Accepted(row) == [row EXCEPT !.token = 0, !.live = FALSE]

\* retry: whether this worker failure still has a retry to spend.
AlwaysRetryable(w) == out[w] = "worker_failure"
Retryable(w) == /\ out[w] = "worker_failure"
                /\ StageOf(w) \notin retries[lease[w].job]

\* acceptResult validates the result against the files it refers to first.
Validated(w) == References(Document(lease[w].job, "result",
                                    lease[w].attempt, out[w]))

\* Every accepted output ends the lease and returns the worker to its pool.
EndLease(w) == /\ lease' = [lease EXCEPT ![w] = NoLease]
               /\ out' = [out EXCEPT ![w] = "idle"]

\* acceptBag: the recording and the handoff to analysis in one transaction.
HandedOff(d) == [Accepted(jobs[d]) EXCEPT !.stage = "analysis",
                                          !.bagged = TRUE]
AcceptBag(w) ==
    LET d == lease[w].job
        a == lease[w].attempt
    IN /\ out[w] = "bag"
       /\ Owns(w)
       /\ jobs' = [jobs EXCEPT ![d] = Advance(HandedOff(d), "ANALYZING")]
       /\ outbox' = Added(Document(d, "bag", a, "none"),
                          Event(d, jobs[d], a, "ANALYZING"))
       /\ EndLease(w)
       /\ UNCHANGED <<retries, faults, dispatches, delivered, disk, flushing,
                      disruptions>>

\* acceptResult, when the failure is retried: a new attempt of the stage.
Retried(d) == [Accepted(jobs[d]) EXCEPT !.attempt = @ + 1]
AcceptRetry(w) ==
    LET d == lease[w].job
        s == Running(StageOf(w))
    IN /\ Retryable(w)
       /\ Validated(w)
       /\ Owns(w)
       /\ retries' = [retries EXCEPT ![d] = @ \cup {StageOf(w)}]
       /\ jobs' = [jobs EXCEPT ![d] = Advance(Retried(d), s)]
       /\ outbox' = Append(outbox, Event(d, jobs[d], jobs[d].attempt + 1, s))
       /\ EndLease(w)
       /\ UNCHANGED <<faults, dispatches, delivered, disk, flushing,
                      disruptions>>

\* acceptResult, when the result ends the job: result file, terminal event.
Finished(d) == [Accepted(jobs[d]) EXCEPT !.stage = "done"]
AcceptResult(w) ==
    LET d == lease[w].job
        a == lease[w].attempt
        s == Status(out[w])
    IN /\ out[w] \in Results
       /\ ~Retryable(w)
       /\ Validated(w)
       /\ Owns(w)
       /\ jobs' = [jobs EXCEPT ![d] = Advance(Finished(d), s)]
       /\ outbox' = Added(Document(d, "result", a, out[w]),
                          Event(d, jobs[d], a, s))
       /\ EndLease(w)
       /\ UNCHANGED <<retries, faults, dispatches, delivered, disk, flushing,
                      disruptions>>

\* renew or accept meets ErrLease: the stage is abandoned.
LoseLease(w) ==
    /\ out[w] \notin {"idle", "failed"}
    /\ ~Owns(w)
    /\ out' = [out EXCEPT ![w] = "failed"]
    /\ UNCHANGED <<tables, disk, lease, flushing, disruptions>>

\* The row a release leaves behind.
FreedNothing(w) == jobs
FreedUnfenced(w) == [jobs EXCEPT ![lease[w].job] = Accepted(@)]
Freed(w) == IF Current(w)
            THEN [jobs EXCEPT ![lease[w].job] = Accepted(@)]
            ELSE jobs

\* release: on any error perform gives back the lease if it is still its own,
\* expired or not.
Release(w) ==
    /\ out[w] = "failed"
    /\ jobs' = Freed(w)
    /\ EndLease(w)
    /\ UNCHANGED <<retries, faults, dispatches, outbox, delivered, disk,
                   flushing, disruptions>>

-----------------------------------------------------------------------------
(* Calculation.                                                            *)

\* injectedFailure: armed failures not yet used up by retries of the stage.
Injected(d, s) == faults[d][s] > Cardinality(retries[d] \cap {s})
\* What calculate may return. A panic may lose any calculation; a recording
\* that cannot be read is a storage error and spends nothing.
Calculations(d, s) ==
    IF Injected(d, s) THEN {"worker_failure"}
    ELSE IF s = "simulation" THEN {"bag", "worker_failure"} \cup RunFailures
    ELSE IF BagOnDisk(d)
         THEN Verdicts \cup {"analysis_failure", "worker_failure"}
         ELSE {"failed"}

Calculate(w) ==
    /\ out[w] = "calculating"
    /\ \E o \in Calculations(lease[w].job, StageOf(w)) :
         out' = [out EXCEPT ![w] = o]
    /\ UNCHANGED <<tables, disk, lease, flushing, disruptions>>

-----------------------------------------------------------------------------
(* Publication.                                                            *)

Newest(S) == {n \in S : \A m \in S : n >= m}
Oldest(S) == {n \in S : \A m \in S : n <= m}

\* A publisher between two rows.
Resting == [row |-> 0, done |-> FALSE]

\* Flush reads the oldest undelivered row,
FlushRead(p) ==
    /\ flushing[p] = Resting
    /\ \E n \in Oldest(Pending) :
         flushing' = [flushing EXCEPT ![p] = [row |-> n, done |-> FALSE]]
    /\ UNCHANGED <<tables, disk, workers, disruptions>>

\* publishes its file without replacing one that is already there,
FlushPublish(p) ==
    /\ flushing[p].row # 0
    /\ ~flushing[p].done
    /\ References(outbox[flushing[p].row])
    /\ disk' = disk \cup {flushing[p].row}
    /\ flushing' = [flushing EXCEPT ![p].done = TRUE]
    /\ UNCHANGED <<tables, workers, disruptions>>

\* and acknowledges it in a later statement.
FlushAcknowledge(p) ==
    /\ flushing[p].done
    /\ delivered' = delivered \cup {flushing[p].row}
    /\ flushing' = [flushing EXCEPT ![p] = Resting]
    /\ UNCHANGED <<jobs, retries, faults, dispatches, outbox, disk, workers,
                   disruptions>>

-----------------------------------------------------------------------------
(* Disruptions.                                                            *)

Disrupt == /\ disruptions < MaxDisruptions
           /\ disruptions' = disruptions + 1

\* A storage error or a shutdown cancels the stage; release comes next.
Cancel(w) ==
    /\ out[w] \notin {"idle", "failed"}
    /\ Disrupt
    /\ out' = [out EXCEPT ![w] = "failed"]
    /\ UNCHANGED <<tables, disk, lease, flushing>>

\* The process dies at any point and a new one takes its place.
Crash(w) ==
    /\ out[w] # "idle"
    /\ Disrupt
    /\ EndLease(w)
    /\ UNCHANGED <<tables, disk, flushing>>

CrashPublisher(p) ==
    /\ flushing[p].row # 0
    /\ Disrupt
    /\ flushing' = [flushing EXCEPT ![p] = Resting]
    /\ UNCHANGED <<tables, disk, workers>>

Held(d) == \E w \in Workers : /\ out[w] # "idle"
                              /\ lease[w].job = d
                              /\ Current(w)
Expire(d) == /\ jobs[d].live
             /\ jobs' = [jobs EXCEPT ![d].live = FALSE]
             /\ UNCHANGED <<retries, faults, dispatches, outbox, delivered,
                            disk, workers, flushing>>

\* Time passes over a lease that nobody renews any more.
Lapse(d) == ~Held(d) /\ Expire(d) /\ UNCHANGED disruptions

\* A holder misses its renewals, or the wall clock jumps forward.
Stall(d) == Held(d) /\ Disrupt /\ Expire(d)

\* The wall clock jumps back behind the lease of a row not yet claimed again.
Regress(d) ==
    /\ jobs[d].token # 0
    /\ ~jobs[d].live
    /\ Disrupt
    /\ jobs' = [jobs EXCEPT ![d].live = TRUE]
    /\ UNCHANGED <<retries, faults, dispatches, outbox, delivered, disk,
                   workers, flushing>>

-----------------------------------------------------------------------------
Init ==
    /\ jobs = [d \in Docs |-> NoRow]
    /\ retries = [d \in Docs |-> {}]
    /\ faults = [d \in Docs |-> [s \in Stages |-> 0]]
    /\ dispatches = [s \in Stages |-> 0]
    /\ outbox = <<>>
    /\ delivered = {}
    /\ disk = {}
    /\ lease = [w \in Workers |-> NoLease]
    /\ out = [w \in Workers |-> "idle"]
    /\ flushing = [p \in Publishers |-> Resting]
    /\ disruptions = 0

Operate == \E d \in Docs :
    \/ Import(d)
    \/ \E s \in Stages, n \in Failures : InjectFailure(d, s, n)
Work(w) ==
    \/ Claim(w) \/ Calculate(w)
    \/ AcceptBag(w) \/ AcceptRetry(w) \/ AcceptResult(w)
    \/ LoseLease(w) \/ Release(w)
Flush(p) == FlushRead(p) \/ FlushPublish(p) \/ FlushAcknowledge(p)
Environment ==
    \/ \E w \in Workers : Cancel(w) \/ Crash(w)
    \/ \E p \in Publishers : CrashPublisher(p)
    \/ \E d \in Docs : Lapse(d) \/ Stall(d) \/ Regress(d)

Next ==
    \/ Operate
    \/ \E w \in Workers : Work(w)
    \/ \E p \in Publishers : Flush(p)
    \/ Environment

Spec == Init /\ [][Next]_vars

\* Every pool keeps polling (repeat ticks forever) and a killed pool is
\* restarted; a lease nobody renews expires because time passes.
Fairness ==
    /\ \A w \in Workers : WF_vars(Work(w))
    /\ \A p \in Publishers : WF_vars(Flush(p))
    /\ \A d \in Docs : WF_vars(Lapse(d))
FairSpec == Spec /\ Fairness
=============================================================================
