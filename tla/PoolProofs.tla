----------------------------- MODULE PoolProofs -----------------------------
(***************************************************************************)
(* Proofs about the users of the queue: worker processes implement it and  *)
(* give back their leases, and its dispatch order serves the lowest class, *)
(* for any number of documents, processes, goroutines and disruptions.     *)
(***************************************************************************)
EXTENDS PoolProperties, Dispatch, QueueProofs

-----------------------------------------------------------------------------
(* Processes take steps of the queue.                                      *)

LEMMA PoolStepIsQueueStep ==
    ASSUME [PoolNext]_poolvars PROVE [Next]_vars
<1>1. ASSUME NEW w \in Workers, Worker(w) \/ StageError(w) PROVE Next
  BY <1>1 DEF Worker, Serve, Interrupt, GiveBack, FailRelease, Leave, StageError, Next, Work,
              Environment
<1>2. ASSUME NEW p \in Processes, Publisher(p) PROVE Next
  <2>1. Flusher[p] \in Publishers
    BY FlusherAssumption
  <2>. QED
    BY <1>2, <2>1 DEF Publisher, Publish, StopPublishing, Flush, Next, Environment
<1>3. ASSUME NEW p \in Processes, Forget(p) PROVE Next
  <2>1. Members[p] \subseteq Workers /\ Flusher[p] \in Publishers
    BY MembersAssumption, FlusherAssumption
  <2>. QED
    BY <1>3, <2>1 DEF Forget, Leave, Next, Environment
<1>4. ASSUME NEW p \in Processes, Start(p) \/ Drain(p) \/ Return(p) \/ Stop(p) \/ Kill(p)
      PROVE  UNCHANGED vars
  BY <1>4 DEF Start, Drain, Return, Stop, Kill
<1>5. ASSUME NEW d \in Docs, Passes(d) PROVE Next
  BY <1>5 DEF Passes, Next, Environment
<1>6. Operate => Next
  BY DEF Next
<1>7. UNCHANGED poolvars => UNCHANGED vars
  BY DEF poolvars
<1>. QED
  BY <1>1, <1>2, <1>3, <1>4, <1>5, <1>6, <1>7 DEF PoolNext, Loop

\* Worker processes that start, drain, stop, fail and die at will do nothing to
\* the queue but what its transactions and goroutine steps allow, so every
\* theorem about the queue holds for them.
THEOREM PoolImplementsQueue == PoolSpec => ImplementsQueue
<1>1. PoolInit => Init
  BY DEF PoolInit
<1>2. [PoolNext]_poolvars => [Next]_vars
  BY PoolStepIsQueueStep
<1>. QED
  BY <1>1, <1>2, PTL DEF PoolSpec, Spec, ImplementsQueue

-----------------------------------------------------------------------------
(* Leases are given back.                                                  *)

\* A worker leaves its lease behind only by forgetting it: every other way out
\* of a stage frees the row.
LEMMA OnlyCrashesLeave ==
    ASSUME TypeOK, [Next]_vars, NEW v \in Workers,
           out[v] # "idle", Current(v), out'[v] = "idle",
           jobs'[lease[v].job].token # 0
    PROVE  disruptions' # disruptions /\ lease' # lease
<1>1. lease[v] # NoLease /\ lease[v].job \in Docs /\ jobs[lease[v].job] \in Row
  BY HolderType DEF TypeOK
<1>2. ASSUME NEW w \in Workers, AcceptBag(w) \/ AcceptRetry(w) \/ AcceptResult(w) \/ Release(w)
      PROVE  FALSE
  <2>1. EndLease(w)
    BY <1>2 DEF AcceptBag, AcceptRetry, AcceptResult, Release
  <2>2. w = v
    BY <2>1 DEF EndLease, TypeOK
  <2>3. CASE Release(v)
    BY <1>1, <2>3 DEF Release, Freed, Accepted, TypeOK, Row
  <2>4. CASE AcceptBag(v)
    BY <1>1, <2>4 DEF AcceptBag, HandedOff, Accepted, Advance, TypeOK, Row
  <2>5. CASE AcceptRetry(v)
    BY <1>1, <2>5 DEF AcceptRetry, Retried, Accepted, Advance, TypeOK, Row
  <2>6. CASE AcceptResult(v)
    BY <1>1, <2>6 DEF AcceptResult, Finished, Accepted, Advance, TypeOK, Row
  <2>. QED
    BY <1>2, <2>2, <2>3, <2>4, <2>5, <2>6
<1>3. ASSUME NEW w \in Workers, Crash(w)
      PROVE  disruptions' # disruptions /\ lease' # lease
  <2>1. w = v
    BY <1>3 DEF Crash, EndLease, TypeOK
  <2>2. lease'[v] = NoLease
    BY <1>3, <2>1 DEF Crash, EndLease, TypeOK
  <2>3. disruptions \in Nat /\ disruptions' = disruptions + 1
    BY <1>3, BoundAssumption DEF Crash, Disrupt, TypeOK
  <2>. QED
    BY <1>1, <2>2, <2>3
<1>4. ASSUME NEW w \in Workers, \/ \E d \in Docs : ClaimJob(w, d)
                                \/ Calculate(w) \/ LoseLease(w) \/ Cancel(w)
      PROVE  FALSE
  <2>1. ASSUME NEW d \in Docs, ClaimJob(w, d) PROVE FALSE
    BY <2>1 DEF ClaimJob, TypeOK
  <2>2. CASE Calculate(w)
    <3>1. StageOf(w) \in Stages
      BY DEF StageOf, Stages
    <3>2. \A o \in Calculations(lease[w].job, StageOf(w)) : o # "idle"
      BY <3>1, OutcomeAssumption DEF Calculations
    <3>. QED
      BY <2>2, <3>2 DEF Calculate, TypeOK
  <2>3. CASE LoseLease(w) \/ Cancel(w)
    BY <2>3 DEF LoseLease, Cancel, TypeOK
  <2>. QED
    BY <1>4, <2>1, <2>2, <2>3
<1>5. out' # out
  OBVIOUS
<1>. QED
  BY <1>2, <1>3, <1>4, <1>5, StepCases
     DEF Import, InjectFailure, Lapse, Stall, Regress, Expire, Flush, FlushRead,
         FlushPublish, FlushAcknowledge, CrashPublisher, vars, workers

\* Every lease forgotten by a worker is recorded, and none is dropped.
LEMMA ForgottenRecorded ==
    ASSUME [PoolNext]_poolvars
    PROVE  /\ left \subseteq left'
           /\ \/ disruptions' = disruptions
              \/ lease' = lease
              \/ \E w \in Workers : Crash(w) /\ lease[w] \in left'
<1>. USE DEF processes
<1>. DEFINE Goal == /\ left \subseteq left'
                    /\ \/ disruptions' = disruptions
                       \/ lease' = lease
                       \/ \E w \in Workers : Crash(w) /\ lease[w] \in left'
<1>1. ASSUME NEW w \in Workers, Serve(w) PROVE Goal
  BY <1>1 DEF Serve, Claim, ClaimJob, Calculate, LoseLease, AcceptBag, AcceptRetry,
              AcceptResult
<1>2. ASSUME NEW w \in Workers, StageError(w) \/ Interrupt(w) PROVE Goal
  BY <1>2 DEF StageError, Interrupt, Cancel
<1>3. ASSUME NEW w \in Workers, Leave(w) PROVE Goal
  BY <1>3 DEF Leave
<1>4. ASSUME NEW w \in Workers, GiveBack(w) PROVE Goal
  BY <1>3, <1>4 DEF GiveBack, FailRelease, Release
<1>5. ASSUME NEW p \in Processes, Publish(p) PROVE Goal
  BY <1>5 DEF Publish, Flush, FlushRead, FlushPublish, FlushAcknowledge
<1>6. ASSUME NEW p \in Processes, StopPublishing(p) PROVE Goal
  BY <1>6 DEF StopPublishing, CrashPublisher, workers
<1>7. ASSUME NEW p \in Processes, Forget(p) PROVE Goal
  <2>1. Members[p] \subseteq Workers
    BY MembersAssumption
  <2>. QED
    BY <1>3, <1>7, <2>1 DEF Forget, CrashPublisher, workers
<1>8. ASSUME NEW p \in Processes, Start(p) \/ Drain(p) \/ Return(p) \/ Stop(p) \/ Kill(p)
      PROVE  Goal
  BY <1>8 DEF Start, Drain, Return, Stop, Kill, vars
<1>9. ASSUME NEW d \in Docs, Passes(d) PROVE Goal
  BY <1>9 DEF Passes, Lapse
<1>10. ASSUME Operate /\ UNCHANGED processes PROVE Goal
  BY <1>10 DEF Operate, Import, InjectFailure
<1>11. ASSUME UNCHANGED poolvars PROVE Goal
  BY <1>11 DEF poolvars, vars
<1>. QED
  BY <1>1, <1>2, <1>4, <1>5, <1>6, <1>7, <1>8, <1>9, <1>10, <1>11
     DEF PoolNext, Worker, Loop, Publisher

LEMMA GracefulStep ==
    ASSUME TypeOK, TypeOK', GracefulRelease, [PoolNext]_poolvars
    PROVE  GracefulRelease'
<1>. SUFFICES ASSUME NEW d \in Docs, jobs'[d].id # 0, jobs'[d].token # 0
              PROVE  Held(d)' \/ LeftBehind(d)'
  BY DEF GracefulRelease, Rows
<1>1. [Next]_vars
  BY PoolStepIsQueueStep
<1>2. ASSUME SameRow(d) \/ Clocked(d) PROVE Held(d)' \/ LeftBehind(d)'
  <2>1. /\ jobs[d].id # 0 /\ jobs[d].token # 0
        /\ jobs'[d].token = jobs[d].token /\ jobs'[d].stage = jobs[d].stage
    BY <1>2 DEF SameRow, Clocked
  <2>2. CASE LeftBehind(d)
    BY <2>1, <2>2, ForgottenRecorded DEF LeftBehind
  <2>3. CASE Held(d)
    <3>1. PICK v \in Workers : out[v] # "idle" /\ lease[v].job = d /\ Current(v)
      BY <2>3 DEF Held
    <3>2. CASE out'[v] # "idle"
      <4>1. lease'[v] = lease[v]
        BY <1>1, <3>1, <3>2, LeaseCases
      <4>. QED
        BY <2>1, <3>1, <3>2, <4>1 DEF Held, Current
    <3>3. CASE out'[v] = "idle"
      <4>1. disruptions' # disruptions /\ lease' # lease
        BY <1>1, <2>1, <3>1, <3>3, OnlyCrashesLeave
      <4>2. PICK w \in Workers : Crash(w) /\ lease[w] \in left'
        BY <4>1, ForgottenRecorded
      <4>3. w = v
        BY <3>1, <3>3, <4>2 DEF Crash, EndLease, TypeOK
      <4>4. lease[v].generation = jobs'[d].token
        BY <2>1, <3>1 DEF Current
      <4>. QED
        BY <3>1, <4>2, <4>3, <4>4 DEF LeftBehind
    <3>. QED
      BY <3>2, <3>3
  <2>. QED
    BY <2>1, <2>2, <2>3 DEF GracefulRelease, Rows
<1>3. ASSUME NEW w \in Workers, Leased(w, d) PROVE Held(d)'
  <2>1. /\ out'[w] = "calculating"
        /\ lease'[w].job = d /\ lease'[w].generation = jobs[d].generation + 1
        /\ jobs[d].stage = StageOf(w)
    BY <1>3 DEF Leased, ClaimJob, NextGeneration, Candidates, Ready, TypeOK
  <2>. QED
    BY <1>3, <2>1 DEF Leased, Held, Current
<1>. QED
  BY <1>1, <1>2, <1>3, RowCases DEF Imported, GivenUp

\* Every leased row has a worker behind it, or carries a lease that died with
\* its process or whose release failed: draining, stopping and failing
\* processes leave no other lease to expire.
THEOREM GracefulReleaseCorrect == PoolSpec => []GracefulRelease
<1>1. PoolInit => GracefulRelease
  BY DEF PoolInit, Init, NoRow, GracefulRelease, Rows
<1>2. TypeOK /\ TypeOK' /\ GracefulRelease /\ [PoolNext]_poolvars => GracefulRelease'
  BY GracefulStep
<1>3. PoolSpec => []TypeOK
  BY PoolImplementsQueue, TypeCorrect, PTL DEF ImplementsQueue
<1>. QED
  BY <1>1, <1>2, <1>3, PTL DEF PoolSpec

-----------------------------------------------------------------------------
(* The dispatch order.                                                     *)

PassedOK == passed \in [Stages -> Nat]

\* Generations grow by claims only.
LEMMA DispatchedByClaim ==
    ASSUME TypeOK, [Next]_vars, NEW d \in Rows, Dispatched(d)
    PROVE  \E w \in Workers : ClaimJob(w, d)
<1>1. d \in Docs /\ ~SameRow(d) /\ ~Clocked(d) /\ \A w \in Workers : ~GivenUp(w, d)
  BY DEF Rows, Dispatched, SameRow, Clocked, GivenUp
<1>2. ~Imported(d)
  BY DEF Rows, Imported, Import, Matches
<1>. QED
  BY <1>1, <1>2, RowCases DEF Leased

\* A claim takes a job of its worker's stage and moves that stage's position.
LEMMA ClaimMoves ==
    ASSUME TypeOK, NEW w \in Workers, NEW d \in Docs, ClaimJob(w, d)
    PROVE  /\ d \in Candidates(StageOf(w)) /\ Dispatched(d)
           /\ jobs[d].stage = StageOf(w)
           /\ dispatches' = [dispatches EXCEPT ![StageOf(w)] = NextPosition(StageOf(w))]
<1>1. jobs[d].generation \in Nat
  BY DEF TypeOK, Row
<1>2. d \in Candidates(StageOf(w))
  BY DEF ClaimJob
<1>3. jobs[d].stage = StageOf(w)
  BY <1>2 DEF Candidates, Ready
<1>4. jobs'[d].generation = jobs[d].generation + 1
  BY ClaimLeases DEF Leased
<1>5. Dispatched(d)
  BY <1>1, <1>4 DEF Dispatched
<1>6. dispatches' = [dispatches EXCEPT ![StageOf(w)] = NextPosition(StageOf(w))]
  BY DEF ClaimJob
<1>. QED
  BY <1>2, <1>3, <1>5, <1>6

LEMMA LowestStep ==
    ASSUME TypeOK, TypeOK', PassedOK, LowestServed, [DispatchNext]_<<vars, passed>>
    PROVE  PassedOK' /\ LowestServed'
<1>1. ASSUME UNCHANGED <<vars, passed>> PROVE PassedOK' /\ LowestServed'
  BY <1>1 DEF vars, tables, PassedOK, LowestServed
<1>2. ASSUME Next, Watch PROVE PassedOK' /\ LowestServed'
  <2>0. PassedOK'
    BY <1>2 DEF Watch, PassedOK
  <2>. SUFFICES ASSUME NEW s \in Stages PROVE passed'[s] <= dispatches'[s]
    BY <2>0 DEF LowestServed
  <2>1. /\ dispatches[s] \in 0..(Cycle - 1) /\ dispatches'[s] \in 0..(Cycle - 1)
        /\ passed[s] \in Nat /\ passed[s] <= dispatches[s]
    BY DEF TypeOK, PassedOK, LowestServed
  <2>2. ASSUME Lowest(s) # {}, ~ServesLowest(s), Dispatches(s)
        PROVE  passed[s] + 1 <= dispatches'[s]
    <3>1. PICK d \in Candidates(s) : Dispatched(d)
      BY <2>2 DEF Dispatches
    <3>2. d \in Rows /\ d \in Docs /\ jobs[d].stage = s
      BY DEF Candidates, Ready, Rows
    <3>3. PICK w \in Workers : ClaimJob(w, d)
      BY <1>2, <3>1, <3>2, DispatchedByClaim
    <3>4. StageOf(w) = s /\ dispatches' = [dispatches EXCEPT ![s] = NextPosition(s)]
      BY <3>2, <3>3, ClaimMoves
    <3>5. PICK e \in Candidates(s) : Job[e].priority = 3
      BY <2>2 DEF Lowest
    <3>6. Job[d].priority # 3 /\ d # e
      BY <2>2, <3>1, <3>5 DEF ServesLowest, Lowest
    <3>7. Precedes(d, e, s)
      BY <3>3, <3>4, <3>5, <3>6 DEF ClaimJob
    <3>8. dispatches[s] # Cycle - 1
      <4>. SUFFICES ASSUME dispatches[s] = Cycle - 1 PROVE FALSE
        OBVIOUS
      <4>1. Rank(e, s) = 0 /\ Rank(d, s) = Job[d].priority + 1
        BY <3>5, <3>6 DEF Rank
      <4>2. Job[d].priority \in 0..3
        BY <3>2, JobAssumption
      <4>. QED
        BY <3>7, <4>1, <4>2 DEF Precedes
    <3>9. NextPosition(s) = dispatches[s] + 1
      BY <2>1, <3>8, CycleAssumption DEF NextPosition
    <3>10. dispatches'[s] = dispatches[s] + 1
      BY <3>4, <3>9 DEF TypeOK
    <3>. QED
      BY <2>1, <3>10
  <2>3. ASSUME ~Dispatches(s) PROVE dispatches'[s] = dispatches[s]
    <3>1. ASSUME NEW w \in Workers, NEW d \in Docs, ClaimJob(w, d)
          PROVE  dispatches'[s] = dispatches[s]
      <4>1. StageOf(w) # s
        BY <2>3, <3>1, ClaimMoves DEF Dispatches
      <4>. QED
        BY <3>1, <4>1, ClaimMoves DEF TypeOK
    <3>2. \/ dispatches' = dispatches
          \/ \E w \in Workers, d \in Docs : ClaimJob(w, d)
      BY <1>2, StepCases
         DEF Import, InjectFailure, Lapse, Stall, Regress, Expire, AcceptBag, AcceptRetry,
             AcceptResult, Release, Crash, Calculate, LoseLease, Cancel, Flush, FlushRead,
             FlushPublish, FlushAcknowledge, CrashPublisher, vars, tables
    <3>. QED
      BY <3>1, <3>2
  <2>4. passed'[s] \in {0, passed[s]} \/ passed'[s] = passed[s] + 1
    BY <1>2 DEF Watch
  <2>5. CASE passed'[s] = 0
    BY <2>1, <2>5
  <2>6. CASE Lowest(s) # {} /\ ~ServesLowest(s) /\ Dispatches(s) /\ passed'[s] # 0
    <3>1. passed'[s] = passed[s] + 1
      BY <1>2, <2>6 DEF Watch
    <3>. QED
      BY <2>2, <2>6, <3>1
  <2>7. CASE ~Dispatches(s) /\ passed'[s] # 0
    <3>1. passed'[s] = passed[s]
      BY <1>2, <2>7 DEF Watch
    <3>. QED
      BY <2>1, <2>3, <2>7, <3>1
  <2>8. Lowest(s) = {} \/ ServesLowest(s) => passed'[s] = 0
    BY <1>2 DEF Watch
  <2>. QED
    BY <2>5, <2>6, <2>7, <2>8
<1>. QED
  BY <1>1, <1>2 DEF DispatchNext

\* Whatever work arrives, retries or expires, waiting work of the lowest class
\* is passed over at most as often as the cycle has dispatched, so at least one
\* dispatch in every cycle is its own.
THEOREM LowestServedCorrect == DispatchSpec => []LowestServed
<1>1. DispatchInit => PassedOK /\ LowestServed
  BY DEF DispatchInit, Init, PassedOK, LowestServed
<1>2. TypeOK /\ TypeOK' /\ PassedOK /\ LowestServed /\ [DispatchNext]_<<vars, passed>>
        => PassedOK' /\ LowestServed'
  BY LowestStep
<1>3. DispatchInit => Init
  BY DEF DispatchInit
<1>4. [DispatchNext]_<<vars, passed>> => [Next]_vars
  BY DEF DispatchNext
<1>5. DispatchSpec => []TypeOK
  BY <1>3, <1>4, TypeCorrect, PTL DEF DispatchSpec, Spec
<1>. QED
  BY <1>1, <1>2, <1>5, PTL DEF DispatchSpec

-----------------------------------------------------------------------------
(* What a drained process leaves behind.                                   *)

\* The transaction that ends a job files its result and its terminal event.
EndTold(d, S) ==
    \E n \in S : /\ outbox[n].job = d
                 /\ outbox[n].kind = "event"
                 /\ outbox[n].state \in Terminal
Owed(d) == jobs[d].stage = "done" => Filed("result", d) /\ EndTold(d, DOMAIN outbox)
EndsFiled == \A d \in Docs : Owed(d)

LEMMA ResultFiles ==
    ASSUME TypeOK, NEW w \in Workers, AcceptResult(w), NEW d, d = lease[w].job
    PROVE  Filed("result", d)' /\ EndTold(d, DOMAIN outbox)'
<1>. DEFINE f == Document(d, "result", lease[w].attempt, out[w])
            g == Event(d, jobs[d], lease[w].attempt, Status(out[w]))
<1>1. out[w] # "idle" /\ Status(out[w]) \in Terminal
  BY DEF AcceptResult, Results, Status, Terminal
<1>2. d \in Docs /\ lease[w].attempt \in Nat
  BY <1>1, HolderType DEF Lease
<1>3. jobs[d] \in Row
  BY <1>2 DEF TypeOK
<1>4. f \in File /\ g \in File
  BY <1>1, <1>2, <1>3, FileType DEF AcceptResult, States
<1>5. outbox \in Seq(File) /\ outbox' = Added(f, g)
  BY DEF AcceptResult, TypeOK
<1>. HIDE DEF f, g
<1>6. PICK n : n = Len(outbox) + 1
  OBVIOUS
<1>7. /\ Len(outbox) \in Nat /\ DOMAIN outbox' = 1..(Len(outbox) + 2)
      /\ outbox'[n] = f /\ outbox'[Len(outbox) + 2] = g
  BY <1>4, <1>5, <1>6, AddedRows
<1>8. PICK m : m = Len(outbox) + 2
  OBVIOUS
<1>9. n \in DOMAIN outbox' /\ m \in DOMAIN outbox' /\ outbox'[m] = g
  BY <1>6, <1>7, <1>8
<1>10. f.kind = "result" /\ f.job = d
  BY DEF f, Document
<1>11. g.kind = "event" /\ g.job = d /\ g.state \in Terminal
  BY <1>1 DEF g, Event
<1>. QED
  BY <1>7, <1>9, <1>10, <1>11 DEF Filed, EndTold

LEMMA EndsFiledStep ==
    ASSUME TypeOK, EndsFiled, [Next]_vars
    PROVE  EndsFiled'
<1>. SUFFICES ASSUME NEW d \in Docs, jobs'[d].stage = "done"
              PROVE  Filed("result", d)' /\ EndTold(d, DOMAIN outbox)'
  BY DEF EndsFiled, Owed
<1>1. CASE jobs[d].stage = "done"
  <2>1. Filed("result", d) /\ EndTold(d, DOMAIN outbox)
    BY <1>1 DEF EndsFiled, Owed
  <2>. QED
    BY <2>1, DiskGrows, FilesGrow DEF EndTold
<1>2. CASE jobs[d].stage # "done"
  <2>0. jobs \in [Docs -> Row]
    BY DEF TypeOK
  <2>1. ASSUME NEW w \in Workers, AcceptResult(w)
        PROVE  lease[w].job = d
    BY <1>2, <2>0, <2>1 DEF AcceptResult
  <2>2. ASSUME NEW w \in Workers, AcceptBag(w) \/ AcceptRetry(w) \/ Release(w)
        PROVE  FALSE
    <3>1. CASE AcceptBag(w)
      BY <1>2, <2>0, <3>1, HolderType
         DEF AcceptBag, HandedOff, Accepted, Advance, Row
    <3>2. CASE AcceptRetry(w)
      BY <1>2, <2>0, <3>2, HolderType
         DEF AcceptRetry, Retryable, Retried, Accepted, Advance, Row
    <3>3. CASE Release(w)
      BY <1>2, <2>0, <3>3, HolderType DEF Release, Freed, Accepted, Row
    <3>. QED
      BY <2>2, <3>1, <3>2, <3>3
  <2>3. \E w \in Workers : AcceptResult(w)
    <3>1. PICK w \in Workers : GivenUp(w, d)
      BY <1>2, RowCases DEF SameRow, Imported, Clocked, Leased
    <3>2. jobs' # jobs /\ lease' # lease
      BY <1>2, <3>1, HolderType DEF GivenUp, TypeOK
    <3>3. \A v \in Workers, e \in Docs : ~ClaimJob(v, e)
      BY <1>2, <3>1, HolderType DEF ClaimJob, GivenUp, TypeOK
    <3>. QED
      BY <2>2, <3>2, <3>3, StepCases
         DEF Import, InjectFailure, Lapse, Stall, Regress, Expire, Crash, Calculate,
             LoseLease, Cancel, Flush, FlushRead, FlushPublish, FlushAcknowledge,
             CrashPublisher, vars, tables, workers
  <2>. QED
    BY <2>1, <2>3, ResultFiles
<1>. QED
  BY <1>1, <1>2

ServedOK == served \in [Processes -> SUBSET Docs]

LEMMA DrainFinds ==
    ASSUME TypeOK, QueueInvariant, EndsFiled, NEW p \in Processes, Drained(p), NEW d \in Rows
    PROVE  /\ Enabled(p) = Stages => Answered(d)
           /\ "simulation" \in Enabled(p) => BagOnDisk(d) \/ Answered(d)
<1>1. jobs[d].stage \in Stages \cup {"done"} /\ jobs[d].stage \notin Enabled(p)
  BY DEF Drained, TypeOK, Row, Rows
<1>2. d \in Docs /\ DOMAIN outbox \subseteq disk
  BY DEF Drained, Pending, Rows, QueueInvariant, InsertionOrder
<1>3. CASE jobs[d].stage = "done"
  <2>1. Filed("result", d) /\ EndTold(d, DOMAIN outbox)
    BY <1>2, <1>3 DEF EndsFiled, Owed
  <2>. QED
    BY <1>2, <2>1 DEF Filed, EndTold, Answered, OnDisk
<1>4. CASE jobs[d].stage = "analysis"
  <2>1. Filed("bag", d) \/ BagOnDisk(d)
    BY <1>2, <1>4 DEF QueueInvariant, InputsFiled
  <2>2. Filed("bag", d) => OnDisk("bag", d)
    BY <1>2 DEF Filed, OnDisk
  <2>3. BagOnDisk(d)
    BY <1>2, <2>1, <2>2 DEF BagOnDisk, SameRecording
  <2>. QED
    BY <1>1, <1>4, <2>3 DEF Stages
<1>. QED
  BY <1>1, <1>3, <1>4 DEF Stages

LEMMA DrainedStep ==
    ASSUME TypeOK, QueueInvariant, EndsFiled, ServedOK, DrainedDelivered,
           [PoolNext]_poolvars
    PROVE  ServedOK' /\ DrainedDelivered'
<1>0. [Next]_vars
  BY PoolStepIsQueueStep
<1>1. \A d \in Docs : (Answered(d) => Answered(d)') /\ (BagOnDisk(d) => BagOnDisk(d)')
  <2>. SUFFICES ASSUME NEW d \in Docs
                PROVE  (Answered(d) => Answered(d)') /\ (BagOnDisk(d) => BagOnDisk(d)')
    OBVIOUS
  <2>1. disk \subseteq DOMAIN outbox
    BY DEF TypeOK
  <2>. QED
    BY <1>0, <2>1, DiskGrows, FilesGrow DEF Answered
<1>2. ASSUME NEW q \in Processes, Drain(q)
      PROVE  ServedOK' /\ DrainedDelivered'
  <2>1. Drained(q) /\ UNCHANGED vars /\ served' = [served EXCEPT ![q] = Rows]
    BY <1>2 DEF Drain
  <2>2. ServedOK'
    BY <2>1 DEF ServedOK, Rows
  <2>3. ASSUME NEW p \in Processes, NEW d \in served'[p]
        PROVE  /\ Enabled(p) = Stages => Answered(d)
               /\ "simulation" \in Enabled(p) => BagOnDisk(d) \/ Answered(d)
    <3>1. CASE p = q
      BY <2>1, <2>3, <3>1, DrainFinds DEF ServedOK
    <3>2. CASE p # q
      BY <2>1, <2>3, <3>2 DEF ServedOK, DrainedDelivered
    <3>. QED
      BY <3>1, <3>2
  <2>4. \A d : (Answered(d)' <=> Answered(d)) /\ (BagOnDisk(d)' <=> BagOnDisk(d))
    BY <2>1 DEF vars, tables, Answered, OnDisk, BagOnDisk
  <2>5. ASSUME NEW p \in Processes, NEW d \in served'[p]
        PROVE  /\ Enabled(p) = Stages => Answered(d)'
               /\ "simulation" \in Enabled(p) => BagOnDisk(d)' \/ Answered(d)'
    BY <2>3, <2>4, <2>5
  <2>. QED
    BY <2>2, <2>5 DEF DrainedDelivered, Enabled
<1>3. CASE served' = served
  <2>1. ASSUME NEW p \in Processes, NEW d \in served'[p]
        PROVE  /\ Enabled(p) = Stages => Answered(d)'
               /\ "simulation" \in Enabled(p) => BagOnDisk(d)' \/ Answered(d)'
    BY <1>1, <1>3, <2>1 DEF ServedOK, DrainedDelivered
  <2>. QED
    BY <1>3, <2>1 DEF ServedOK, DrainedDelivered, Enabled
<1>4. served' = served \/ \E q \in Processes : Drain(q)
  BY DEF PoolNext, poolvars, processes, Worker, Serve, Interrupt, GiveBack, StageError,
         Start, Loop, Return, Forget, Publisher, Publish, StopPublishing, Stop, Kill,
         Move, Passes
<1>. QED
  BY <1>2, <1>3, <1>4

\* Work, the drain loop: whatever other processes do meanwhile and however they
\* end, the jobs a process found when it had drained have the files its stages
\* owe them, published.
THEOREM DrainedDeliveredCorrect == PoolSpec => []DrainedDelivered
<1>1. PoolInit => EndsFiled /\ ServedOK /\ DrainedDelivered
  BY DEF PoolInit, Init, NoRow, EndsFiled, Owed, ServedOK, DrainedDelivered
<1>2. TypeOK /\ QueueInvariant /\ EndsFiled /\ ServedOK /\ DrainedDelivered
        /\ [PoolNext]_poolvars => EndsFiled' /\ ServedOK' /\ DrainedDelivered'
  BY PoolStepIsQueueStep, EndsFiledStep, DrainedStep
<1>3. PoolSpec => [](TypeOK /\ QueueInvariant)
  BY PoolImplementsQueue, TypeCorrect, Invariant, PTL DEF ImplementsQueue
<1>. QED
  BY <1>1, <1>2, <1>3, PTL DEF PoolSpec
=============================================================================
