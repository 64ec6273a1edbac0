---------------------------- MODULE QueueProofs ----------------------------
(***************************************************************************)
(* What TLAPS proves of Queue, for every set of documents, workers and     *)
(* publishers and every bound.                                             *)
(***************************************************************************)
EXTENDS QueueProperties, FiniteSetTheorems, TLAPS

\* A row with one column changed is a row.
LEMMA RowUpdate ==
    ASSUME NEW row \in Row
    PROVE  /\ \A n \in Nat : /\ [row EXCEPT !.id = n] \in Row
                             /\ [row EXCEPT !.attempt = n] \in Row
                             /\ [row EXCEPT !.sequence = n] \in Row
                             /\ [row EXCEPT !.generation = n] \in Row
                             /\ [row EXCEPT !.token = n] \in Row
           /\ \A s \in Stages \cup {"done"} : [row EXCEPT !.stage = s] \in Row
           /\ \A s \in States : [row EXCEPT !.state = s] \in Row
           /\ \A b \in BOOLEAN : /\ [row EXCEPT !.live = b] \in Row
                                 /\ [row EXCEPT !.bagged = b] \in Row
BY DEF Row

LEMMA AdvanceType ==
    ASSUME NEW row \in Row, NEW s \in States
    PROVE  Advance(row, s) \in Row
<1>1. row.sequence + 1 \in Nat
  BY DEF Row
<1>2. [[row EXCEPT !.sequence = row.sequence + 1] EXCEPT !.state = s] \in Row
  BY <1>1, RowUpdate
<1>. QED
  BY <1>2 DEF Advance

LEMMA AcceptedType ==
    ASSUME NEW row \in Row
    PROVE  Accepted(row) \in Row
<1>1. [[row EXCEPT !.token = 0] EXCEPT !.live = FALSE] \in Row
  BY RowUpdate
<1>. QED
  BY <1>1 DEF Accepted

\* Files keep their type.
LEMMA FileType ==
    ASSUME NEW d \in Docs, NEW row \in Row, NEW a \in Nat,
           NEW r \in States \cup Results \cup {"none"}, NEW s \in States,
           NEW kind \in {"job", "bag", "result"}
    PROVE  /\ Document(d, kind, a, r) \in File
           /\ Event(d, row, a, s) \in File
BY DEF Document, Event, File, Row

\* Adding files to the outbox keeps its rows and their ids.
LEMMA AddedType ==
    ASSUME NEW f \in File, NEW g \in File, outbox \in Seq(File)
    PROVE  /\ Append(outbox, f) \in Seq(File)
           /\ Added(f, g) \in Seq(File)
           /\ DOMAIN outbox \subseteq DOMAIN Append(outbox, f)
           /\ DOMAIN outbox \subseteq DOMAIN Added(f, g)
BY DEF Added

LEMMA InitType == Init => TypeOK
<1>1. NoRow \in Row
  BY DEF NoRow, Row, Stages, States
<1>. QED
  BY <1>1, CycleAssumption, BoundAssumption
     DEF Init, TypeOK, Stages, Outputs

LEMMA IdType == Cardinality(Rows) \in Nat
BY DocsAssumption, FS_Subset, FS_CardinalityType DEF Rows

LEMMA NewRowType ==
    ASSUME NEW d \in Docs
    PROVE  NewRow(d) \in Row
<1>. DEFINE s == IF Job[d].kind = "run" THEN "simulation" ELSE "analysis"
            b == Job[d].kind = "analysis"
            r1 == [NoRow EXCEPT !.id = Cardinality(Rows) + 1]
            r2 == [r1 EXCEPT !.attempt = 1]
            r3 == [r2 EXCEPT !.stage = s]
            r4 == [r3 EXCEPT !.bagged = b]
<1>1. NoRow \in Row
  BY DEF NoRow, Row, Stages, States
<1>2. Cardinality(Rows) + 1 \in Nat
  BY IdType
<1>3. s \in Stages \cup {"done"} /\ b \in BOOLEAN
  BY DEF Stages
<1>4. r1 \in Row
  BY <1>1, <1>2, RowUpdate
<1>5. r2 \in Row
  <2>. HIDE DEF r1
  <2>. QED BY <1>4, RowUpdate
<1>6. r3 \in Row
  <2>. HIDE DEF r2, s
  <2>. QED BY <1>3, <1>5, RowUpdate
<1>7. r4 \in Row
  <2>. HIDE DEF r3, b
  <2>. QED BY <1>3, <1>6, RowUpdate
<1>. QED
  BY <1>7 DEF NewRow

LEMMA ClaimedType ==
    ASSUME NEW d \in Docs, jobs[d] \in Row
    PROVE  /\ NextGeneration(d) \in Nat
           /\ Claimed(d) \in Row
<1>1. NextGeneration(d) \in Nat
  BY DEF NextGeneration, Row
<1>. DEFINE g == NextGeneration(d)
<1>. HIDE DEF g
<1>2. [[[jobs[d] EXCEPT !.generation = g] EXCEPT !.token = g]
          EXCEPT !.live = TRUE] \in Row
  BY <1>1, RowUpdate DEF g
<1>. QED
  BY <1>1, <1>2 DEF Claimed, g

LEMMA OutcomeRowType ==
    ASSUME NEW d \in Docs, jobs[d] \in Row
    PROVE  /\ HandedOff(d) \in Row
           /\ Retried(d) \in Row
           /\ Finished(d) \in Row
<1>. DEFINE r == Accepted(jobs[d])
<1>1. r \in Row
  BY AcceptedType
<1>. HIDE DEF r
<1>2. r.attempt + 1 \in Nat
  BY <1>1 DEF Row
<1>3. [[r EXCEPT !.stage = "analysis"] EXCEPT !.bagged = TRUE] \in Row
  BY <1>1, RowUpdate DEF Stages
<1>4. [r EXCEPT !.attempt = r.attempt + 1] \in Row
  BY <1>1, <1>2, RowUpdate
<1>5. [r EXCEPT !.stage = "done"] \in Row
  BY <1>1, RowUpdate
<1>. QED
  BY <1>3, <1>4, <1>5 DEF HandedOff, Retried, Finished, r

-----------------------------------------------------------------------------
(* Every action keeps the types.                                           *)

LEMMA ImportType ==
    ASSUME TypeOK, NEW d \in Docs, Import(d)
    PROVE  TypeOK'
<1>1. Advance(NewRow(d), "PENDING") \in Row
  BY NewRowType, AdvanceType DEF States
<1>2. /\ Document(d, "job", 0, "none") \in File
      /\ Event(d, NewRow(d), 1, "PENDING") \in File
  BY NewRowType, FileType DEF States
<1>3. /\ outbox' \in Seq(File)
      /\ DOMAIN outbox \subseteq DOMAIN outbox'
  BY <1>2, AddedType DEF TypeOK, Import
<1>. QED
  BY <1>1, <1>3 DEF TypeOK, Import, workers

LEMMA ClaimType ==
    ASSUME TypeOK, NEW w \in Workers, NEW d \in Docs, ClaimJob(w, d)
    PROVE  TypeOK'
<1>. DEFINE s == StageOf(w)
<1>1. s \in Stages /\ Running(s) \in States
  BY DEF StageOf, Stages, Running, States
<1>2. /\ jobs[d] \in Row /\ jobs[d].attempt \in Nat
      /\ Claimed(d) \in Row
      /\ NextGeneration(d) \in Nat
  BY ClaimedType DEF TypeOK, Row
<1>3. jobs' \in [Docs -> Row]
  <2>1. Advance(Claimed(d), Running(s)) \in Row
    BY <1>1, <1>2, AdvanceType
  <2>2. \/ jobs' = [jobs EXCEPT ![d] = Advance(Claimed(d), Running(s))]
        \/ jobs' = [jobs EXCEPT ![d] = Claimed(d)]
    BY DEF ClaimJob
  <2>. QED
    BY <1>2, <2>1, <2>2 DEF TypeOK
<1>4. /\ outbox' \in Seq(File)
      /\ DOMAIN outbox \subseteq DOMAIN outbox'
  <2>1. Event(d, jobs[d], jobs[d].attempt, Running(s)) \in File
    BY <1>1, <1>2, FileType
  <2>. QED
    BY <2>1, AddedType DEF ClaimJob, TypeOK
<1>5. dispatches' \in [Stages -> 0..(Cycle - 1)]
  <2>1. NextPosition(s) \in 0..(Cycle - 1)
    BY <1>1, CycleAssumption DEF NextPosition, TypeOK
  <2>. QED
    BY <1>1, <2>1 DEF ClaimJob, TypeOK
<1>6. /\ out' \in [Workers -> Outputs]
      /\ lease' \in [Workers -> Lease \cup {NoLease}]
      /\ \A v \in Workers : out'[v] = "idle" <=> lease'[v] = NoLease
  <2>. DEFINE l == [job |-> d, generation |-> NextGeneration(d),
                    attempt |-> jobs[d].attempt]
  <2>1. l \in Lease /\ l # NoLease
    BY <1>2, LeaseAssumption DEF Lease
  <2>2. /\ lease' = [lease EXCEPT ![w] = l]
        /\ out' = [out EXCEPT ![w] = "calculating"]
    BY DEF ClaimJob
  <2>. HIDE DEF l
  <2>. QED
    BY <2>1, <2>2 DEF TypeOK, Outputs
<1>. QED
  BY <1>3, <1>4, <1>5, <1>6 DEF ClaimJob, TypeOK

\* What a worker with a lease knows about it.
LEMMA HolderType ==
    ASSUME TypeOK, NEW w \in Workers, out[w] # "idle"
    PROVE  /\ lease[w].job \in Docs
           /\ lease[w].attempt \in Nat
           /\ lease[w].generation \in Nat
           /\ jobs[lease[w].job] \in Row
           /\ jobs[lease[w].job].attempt + 1 \in Nat
<1>1. lease[w] \in Lease
  BY DEF TypeOK
<1>. QED
  BY <1>1 DEF TypeOK, Lease, Row

\* A worker that ends its lease leaves well-typed pools behind.
LEMMA EndLeaseType ==
    ASSUME TypeOK, NEW w \in Workers, EndLease(w)
    PROVE  /\ out' \in [Workers -> Outputs]
           /\ lease' \in [Workers -> Lease \cup {NoLease}]
           /\ \A v \in Workers : out'[v] = "idle" <=> lease'[v] = NoLease
BY DEF EndLease, TypeOK, Outputs

LEMMA AcceptBagType ==
    ASSUME TypeOK, NEW w \in Workers, AcceptBag(w)
    PROVE  TypeOK'
<1>. DEFINE d == lease[w].job
            a == lease[w].attempt
<1>1. d \in Docs /\ a \in Nat /\ jobs[d] \in Row
  BY HolderType DEF AcceptBag
<1>2. Advance(HandedOff(d), "ANALYZING") \in Row
  BY <1>1, OutcomeRowType, AdvanceType DEF States
<1>3. /\ Document(d, "bag", a, "none") \in File
      /\ Event(d, jobs[d], a, "ANALYZING") \in File
  BY <1>1, FileType DEF States
<1>4. /\ outbox' \in Seq(File)
      /\ DOMAIN outbox \subseteq DOMAIN outbox'
  BY <1>3, AddedType DEF AcceptBag, TypeOK
<1>5. jobs' \in [Docs -> Row]
  BY <1>1, <1>2 DEF AcceptBag, TypeOK
<1>6. EndLease(w)
  BY DEF AcceptBag
<1>. QED
  BY <1>4, <1>5, <1>6, EndLeaseType DEF AcceptBag, TypeOK

LEMMA AcceptRetryType ==
    ASSUME TypeOK, NEW w \in Workers, AcceptRetry(w)
    PROVE  TypeOK'
<1>. DEFINE d == lease[w].job
            s == Running(StageOf(w))
<1>1. /\ d \in Docs /\ jobs[d] \in Row
      /\ jobs[d].attempt + 1 \in Nat
  BY HolderType DEF AcceptRetry, Retryable
<1>2. StageOf(w) \in Stages /\ s \in States
  BY DEF StageOf, Stages, Running, States
<1>3. Advance(Retried(d), s) \in Row
  BY <1>1, <1>2, OutcomeRowType, AdvanceType
<1>4. Event(d, jobs[d], jobs[d].attempt + 1, s) \in File
  BY <1>1, <1>2, FileType
<1>5. /\ outbox' \in Seq(File)
      /\ DOMAIN outbox \subseteq DOMAIN outbox'
  BY <1>4, AddedType DEF AcceptRetry, TypeOK
<1>6. jobs' \in [Docs -> Row]
  BY <1>1, <1>3 DEF AcceptRetry, TypeOK
<1>7. retries' \in [Docs -> SUBSET Stages]
  BY <1>1, <1>2 DEF AcceptRetry, TypeOK
<1>8. EndLease(w)
  BY DEF AcceptRetry
<1>. QED
  BY <1>5, <1>6, <1>7, <1>8, EndLeaseType DEF AcceptRetry, TypeOK

LEMMA AcceptResultType ==
    ASSUME TypeOK, NEW w \in Workers, AcceptResult(w)
    PROVE  TypeOK'
<1>. DEFINE d == lease[w].job
            a == lease[w].attempt
            s == Status(out[w])
<1>1. d \in Docs /\ a \in Nat /\ jobs[d] \in Row
  BY HolderType DEF AcceptResult, Results
<1>2. s \in States
  BY DEF Status, Terminal, States
<1>3. Advance(Finished(d), s) \in Row
  BY <1>1, <1>2, OutcomeRowType, AdvanceType
<1>4. out[w] \in Results
  BY DEF AcceptResult
<1>5. /\ Document(d, "result", a, out[w]) \in File
      /\ Event(d, jobs[d], a, s) \in File
  BY <1>1, <1>2, <1>4, FileType
<1>6. /\ outbox' \in Seq(File)
      /\ DOMAIN outbox \subseteq DOMAIN outbox'
  BY <1>5, AddedType DEF AcceptResult, TypeOK
<1>7. jobs' \in [Docs -> Row]
  BY <1>1, <1>3 DEF AcceptResult, TypeOK
<1>8. EndLease(w)
  BY DEF AcceptResult
<1>. QED
  BY <1>6, <1>7, <1>8, EndLeaseType DEF AcceptResult, TypeOK

LEMMA ReleaseType ==
    ASSUME TypeOK, NEW w \in Workers, Release(w)
    PROVE  TypeOK'
<1>1. lease[w].job \in Docs /\ jobs[lease[w].job] \in Row
  BY HolderType DEF Release
<1>2. jobs' \in [Docs -> Row]
  BY <1>1, AcceptedType DEF Release, Freed, TypeOK
<1>3. EndLease(w)
  BY DEF Release
<1>. QED
  BY <1>2, <1>3, EndLeaseType DEF Release, TypeOK

LEMMA CalculateType ==
    ASSUME TypeOK, NEW w \in Workers,
           Calculate(w) \/ LoseLease(w) \/ Cancel(w)
    PROVE  TypeOK'
<1>1. \A d \in Docs, s \in Stages : Calculations(d, s) \subseteq Outputs \ {"idle"}
  BY OutcomeAssumption DEF Calculations, Outputs, Results
<1>2. StageOf(w) \in Stages
  BY DEF StageOf, Stages
<1>3. out[w] # "idle" /\ lease[w] \in Lease
  BY DEF Calculate, LoseLease, Cancel, TypeOK
<1>4. \E o \in Outputs \ {"idle"} : out' = [out EXCEPT ![w] = o]
  BY <1>1, <1>2, <1>3, HolderType DEF Calculate, LoseLease, Cancel, Outputs
<1>5. /\ UNCHANGED <<tables, disk, lease, flushing>>
      /\ disruptions' \in 0..MaxDisruptions
  BY BoundAssumption DEF Calculate, LoseLease, Cancel, Disrupt, TypeOK
<1>. QED
  BY <1>3, <1>4, <1>5 DEF TypeOK, tables

LEMMA FlushType ==
    ASSUME TypeOK, NEW p \in Publishers, Flush(p) \/ CrashPublisher(p)
    PROVE  TypeOK'
<1>. DEFINE Flushing == [row : DOMAIN outbox, done : BOOLEAN]
<1>1. flushing[p] \in Flushing \cup {Resting}
  BY DEF TypeOK
<1>2. ASSUME NEW f \in Flushing \cup {Resting},
             flushing' = [flushing EXCEPT ![p] = f]
      PROVE  flushing' \in [Publishers -> Flushing \cup {Resting}]
  <2>. HIDE DEF Flushing
  <2>. QED BY <1>2 DEF TypeOK, Flushing
<1>3. CASE FlushRead(p)
  <2>1. PICK n \in Oldest(Pending) :
               flushing' = [flushing EXCEPT ![p] = [row |-> n, done |-> FALSE]]
    BY <1>3 DEF FlushRead
  <2>2. [row |-> n, done |-> FALSE] \in Flushing
    BY DEF Oldest, Pending
  <2>3. flushing' \in [Publishers -> Flushing \cup {Resting}]
    BY <1>2, <2>1, <2>2
  <2>. QED
    BY <1>3, <2>3 DEF FlushRead, TypeOK, tables, workers
<1>4. CASE FlushPublish(p)
  <2>1. flushing[p] \in Flushing /\ flushing[p].row \in DOMAIN outbox
    BY <1>1, <1>4 DEF FlushPublish, Resting
  <2>2. [flushing[p] EXCEPT !.done = TRUE] \in Flushing
    BY <2>1
  <2>3. flushing' = [flushing EXCEPT ![p] = [flushing[p] EXCEPT !.done = TRUE]]
    BY <1>4 DEF FlushPublish
  <2>4. flushing' \in [Publishers -> Flushing \cup {Resting}]
    BY <1>2, <2>2, <2>3
  <2>. QED
    BY <1>4, <2>1, <2>4 DEF FlushPublish, TypeOK, tables, workers
<1>5. CASE FlushAcknowledge(p)
  <2>1. flushing[p].row \in DOMAIN outbox
    BY <1>1, <1>5 DEF FlushAcknowledge, Resting
  <2>2. flushing' \in [Publishers -> Flushing \cup {Resting}]
    BY <1>2, <1>5 DEF FlushAcknowledge
  <2>. QED
    BY <1>5, <2>1, <2>2 DEF FlushAcknowledge, TypeOK, workers
<1>6. CASE CrashPublisher(p)
  <2>1. disruptions' \in 0..MaxDisruptions
    BY <1>6, BoundAssumption DEF CrashPublisher, Disrupt, TypeOK
  <2>2. flushing' \in [Publishers -> Flushing \cup {Resting}]
    BY <1>2, <1>6 DEF CrashPublisher
  <2>. QED
    BY <1>6, <2>1, <2>2 DEF CrashPublisher, TypeOK, tables, workers
<1>. QED
  BY <1>3, <1>4, <1>5, <1>6 DEF Flush

LEMMA ClockType ==
    ASSUME TypeOK, NEW d \in Docs, Lapse(d) \/ Stall(d) \/ Regress(d)
    PROVE  TypeOK'
<1>1. PICK b \in BOOLEAN : jobs' = [jobs EXCEPT ![d] = [jobs[d] EXCEPT !.live = b]]
  BY DEF Lapse, Stall, Regress, Expire
<1>2. jobs' \in [Docs -> Row]
  <2>1. jobs[d] \in Row
    BY DEF TypeOK
  <2>2. [jobs[d] EXCEPT !.live = b] \in Row
    BY <2>1, RowUpdate
  <2>. QED
    BY <1>1, <2>2 DEF TypeOK
<1>3. /\ UNCHANGED <<retries, faults, dispatches, outbox, delivered, disk,
                     workers, flushing>>
      /\ disruptions' \in 0..MaxDisruptions
  BY BoundAssumption DEF Lapse, Stall, Regress, Expire, Disrupt, TypeOK
<1>. QED
  BY <1>2, <1>3 DEF TypeOK, workers

LEMMA CrashType ==
    ASSUME TypeOK, NEW w \in Workers, Crash(w)
    PROVE  TypeOK'
<1>1. EndLease(w) /\ disruptions' \in 0..MaxDisruptions
  BY BoundAssumption DEF Crash, Disrupt, TypeOK
<1>. QED
  BY <1>1, EndLeaseType DEF Crash, TypeOK, tables

LEMMA InjectFailureType ==
    ASSUME TypeOK, NEW d \in Docs, NEW s \in Stages, NEW n \in Failures,
           InjectFailure(d, s, n)
    PROVE  TypeOK'
<1>1. n \in 0..2
  BY OutcomeAssumption
<1>2. faults' \in [Docs -> [Stages -> 0..2]]
  BY <1>1 DEF InjectFailure, TypeOK
<1>. QED
  BY <1>2 DEF InjectFailure, TypeOK, workers

-----------------------------------------------------------------------------
(* Each step is one of the code's transactions or goroutine steps; the     *)
(* proofs below go through them by this case analysis.                     *)

LEMMA StepCases ==
    ASSUME [Next]_vars
    PROVE  \/ \E d \in Docs :
                \/ Import(d)
                \/ \E s \in Stages, n \in Failures : InjectFailure(d, s, n)
                \/ Lapse(d) \/ Stall(d) \/ Regress(d)
           \/ \E w \in Workers :
                \/ \E d \in Docs : ClaimJob(w, d)
                \/ AcceptBag(w) \/ AcceptRetry(w) \/ AcceptResult(w)
                \/ Release(w) \/ Crash(w)
                \/ Calculate(w) \/ LoseLease(w) \/ Cancel(w)
           \/ \E p \in Publishers : Flush(p) \/ CrashPublisher(p)
           \/ UNCHANGED vars
BY DEF Next, Operate, Work, Environment, Claim

LEMMA NextType == TypeOK /\ [Next]_vars => TypeOK'
<1>. SUFFICES ASSUME TypeOK, [Next]_vars
              PROVE  TypeOK'
  OBVIOUS
<1>1. CASE UNCHANGED vars
  BY <1>1 DEF TypeOK, vars, tables, workers
<1>. QED
  BY <1>1, StepCases, ImportType, InjectFailureType, ClockType, ClaimType,
     AcceptBagType, AcceptRetryType, AcceptResultType, ReleaseType, CrashType,
     CalculateType, FlushType

\* Type correctness of the queue's tables, leases and goroutines.
THEOREM TypeCorrect == Spec => []TypeOK
<1>. QED
  BY InitType, NextType, PTL DEF Spec

-----------------------------------------------------------------------------
(* What a step does to one row, and to the files.                          *)

SameRow(d) == jobs'[d] = jobs[d]
Imported(d) ==
    /\ Import(d)
    /\ jobs'[d].id # 0 /\ jobs'[d].generation = 0
    /\ jobs'[d].token = 0 /\ jobs'[d].live = FALSE
    /\ jobs'[d].stage = IF Job[d].kind = "run" THEN "simulation" ELSE "analysis"
Leased(w, d) ==
    /\ ClaimJob(w, d)
    /\ jobs'[d].id = jobs[d].id /\ jobs'[d].stage = jobs[d].stage
    /\ jobs'[d].generation = jobs[d].generation + 1
    /\ jobs'[d].token = jobs[d].generation + 1
    /\ jobs'[d].live = TRUE
    /\ jobs'[d].attempt = jobs[d].attempt
GivenUp(w, d) ==
    /\ out[w] # "idle" /\ lease[w].job = d /\ Current(w)
    /\ lease'[w] = NoLease
    /\ jobs'[d].id = jobs[d].id
    /\ jobs'[d].generation = jobs[d].generation
    /\ jobs'[d].token = 0 /\ jobs'[d].live = FALSE
    /\ \/ jobs'[d].stage = jobs[d].stage
       \/ AcceptBag(w) /\ jobs'[d].stage = "analysis"
       \/ jobs'[d].stage = "done"
Clocked(d) ==
    /\ jobs'[d].id = jobs[d].id /\ jobs'[d].stage = jobs[d].stage
    /\ jobs'[d].generation = jobs[d].generation
    /\ jobs'[d].token = jobs[d].token
    /\ jobs'[d].attempt = jobs[d].attempt
    /\ \/ jobs[d].live
       \/ jobs[d].token # 0

LEMMA ClaimLeases ==
    ASSUME TypeOK, NEW w \in Workers, NEW d \in Docs, ClaimJob(w, d)
    PROVE  Leased(w, d)
<1>. DEFINE r == Claimed(d)
<1>0. jobs \in [Docs -> Row] /\ jobs[d] \in Row
  BY DEF TypeOK
<1>1. /\ r.id = jobs[d].id /\ r.stage = jobs[d].stage
      /\ r.generation = jobs[d].generation + 1
      /\ r.token = jobs[d].generation + 1 /\ r.live = TRUE
      /\ r.attempt = jobs[d].attempt
  BY <1>0 DEF Claimed, NextGeneration, Row
<1>2. r \in Row
  BY <1>0, ClaimedType
<1>3. \/ jobs' = [jobs EXCEPT ![d] = r]
      \/ jobs' = [jobs EXCEPT ![d] = Advance(r, Running(StageOf(w)))]
  BY DEF ClaimJob
<1>. HIDE DEF r
<1>4. jobs'[d] = r \/ jobs'[d] = Advance(r, Running(StageOf(w)))
  BY <1>0, <1>3
<1>. QED
  BY <1>1, <1>2, <1>4 DEF Leased, Advance, Row

LEMMA RowCases ==
    ASSUME TypeOK, [Next]_vars, NEW d \in Docs
    PROVE  \/ SameRow(d) \/ Imported(d) \/ Clocked(d)
           \/ \E w \in Workers : Leased(w, d) \/ GivenUp(w, d)
<1>. USE DEF SameRow, Imported, GivenUp, Clocked
<1>0. /\ jobs \in [Docs -> Row]
      /\ jobs[d] \in Row
      /\ lease \in [Workers -> Lease \cup {NoLease}]
      /\ Cardinality(Rows) + 1 # 0
  BY IdType DEF TypeOK
<1>1. ASSUME NEW e \in Docs, Import(e)
      PROVE  SameRow(d) \/ Imported(d)
  BY <1>0, <1>1 DEF Import, NewRow, Advance, NoRow
<1>2. ASSUME NEW e \in Docs, NEW s \in Stages, NEW n \in Failures,
             InjectFailure(e, s, n)
      PROVE  SameRow(d)
  BY <1>2 DEF InjectFailure
<1>3. ASSUME NEW e \in Docs, Lapse(e) \/ Stall(e) \/ Regress(e)
      PROVE  SameRow(d) \/ Clocked(d)
  BY <1>0, <1>3 DEF Lapse, Stall, Regress, Expire, Row
<1>4. ASSUME NEW w \in Workers, NEW e \in Docs, ClaimJob(w, e)
      PROVE  SameRow(d) \/ Leased(w, d)
  <2>1. CASE e = d
    BY <1>4, <2>1, ClaimLeases
  <2>2. CASE e # d
    BY <1>0, <1>4, <2>2 DEF ClaimJob
  <2>. QED
    BY <2>1, <2>2
<1>5. ASSUME NEW w \in Workers, AcceptBag(w)
      PROVE  SameRow(d) \/ GivenUp(w, d)
  BY <1>0, <1>5, HolderType
     DEF AcceptBag, HandedOff, EndLease, Accepted, Advance, Owns, Row
<1>6. ASSUME NEW w \in Workers, AcceptRetry(w)
      PROVE  SameRow(d) \/ GivenUp(w, d)
  BY <1>0, <1>6, HolderType
     DEF AcceptRetry, Retryable, Retried, EndLease, Accepted, Advance, Owns, Row
<1>7. ASSUME NEW w \in Workers, AcceptResult(w)
      PROVE  SameRow(d) \/ GivenUp(w, d)
  BY <1>0, <1>7, HolderType
     DEF AcceptResult, Results, Finished, EndLease, Accepted, Advance, Owns, Row
<1>8. ASSUME NEW w \in Workers, Release(w)
      PROVE  SameRow(d) \/ GivenUp(w, d)
  BY <1>0, <1>8, HolderType DEF Release, Freed, EndLease, Accepted, Row
<1>9. ASSUME NEW w \in Workers,
             Crash(w) \/ Calculate(w) \/ LoseLease(w) \/ Cancel(w)
      PROVE  SameRow(d)
  BY <1>9 DEF Crash, Calculate, LoseLease, Cancel, tables
<1>10. ASSUME NEW p \in Publishers, Flush(p) \/ CrashPublisher(p)
       PROVE  SameRow(d)
  BY <1>10 DEF Flush, FlushRead, FlushPublish, FlushAcknowledge,
               CrashPublisher, tables
<1>11. UNCHANGED vars => SameRow(d)
  BY DEF vars, tables
<1>. QED
  BY <1>1, <1>2, <1>3, <1>4, <1>5, <1>6, <1>7, <1>8, <1>9, <1>10, <1>11,
     StepCases

LEMMA FilesGrow ==
    ASSUME TypeOK, [Next]_vars
    PROVE  /\ DOMAIN outbox \subseteq DOMAIN outbox'
           /\ \A n \in DOMAIN outbox : outbox'[n] = outbox[n]
           /\ delivered \subseteq delivered' /\ disk \subseteq disk'
<1>1. ASSUME NEW f, NEW g
      PROVE  /\ DOMAIN outbox \subseteq DOMAIN Append(outbox, f)
             /\ DOMAIN outbox \subseteq DOMAIN Added(f, g)
             /\ \A n \in DOMAIN outbox : /\ Append(outbox, f)[n] = outbox[n]
                                         /\ Added(f, g)[n] = outbox[n]
  BY DEF TypeOK, Added
<1>2. \/ UNCHANGED outbox
      \/ \E f, g : outbox' = Append(outbox, f) \/ outbox' = Added(f, g)
  BY StepCases
     DEF Import, InjectFailure, Lapse, Stall, Regress, Expire, ClaimJob,
         AcceptBag, AcceptRetry, AcceptResult, Release, Crash, Calculate,
         LoseLease, Cancel, Flush, FlushRead, FlushPublish, FlushAcknowledge,
         CrashPublisher, vars, tables
<1>3. delivered \subseteq delivered' /\ disk \subseteq disk'
  BY StepCases
     DEF Import, InjectFailure, Lapse, Stall, Regress, Expire, ClaimJob,
         AcceptBag, AcceptRetry, AcceptResult, Release, Crash, Calculate,
         LoseLease, Cancel, Flush, FlushRead, FlushPublish, FlushAcknowledge,
         CrashPublisher, vars, tables
<1>. QED
  BY <1>1, <1>2, <1>3

LEMMA DiskGrows ==
    ASSUME TypeOK, [Next]_vars, NEW d \in Docs, NEW kind
    PROVE  /\ Filed(kind, d) => Filed(kind, d)'
           /\ OnDisk(kind, d) => OnDisk(kind, d)'
           /\ BagOnDisk(d) => BagOnDisk(d)'
<1>1. \A k : \A e \in Docs : OnDisk(k, e) => OnDisk(k, e)'
  BY FilesGrow DEF TypeOK, OnDisk
<1>. QED
  BY <1>1, FilesGrow DEF Filed, BagOnDisk

-----------------------------------------------------------------------------
(* The invariant holds initially and is preserved.                         *)

LEMMA InitInvariant == Init => QueueInvariant
BY DEF Init, NoRow, QueueInvariant, RowsCoherent, LeasesIssued,
       FlushingInOrder, Resting, InsertionOrder, InputsFiled

LEMMA RowsCoherentStep ==
    ASSUME TypeOK, TypeOK', QueueInvariant, [Next]_vars
    PROVE  RowsCoherent'
<1>. SUFFICES ASSUME NEW d \in Docs
              PROVE  /\ jobs'[d].token \in {0, jobs'[d].generation}
                     /\ jobs'[d].live => jobs'[d].token # 0
                     /\ jobs'[d].generation # 0 => jobs'[d].id # 0
                     /\ jobs'[d].stage = "done" => /\ jobs'[d].token = 0
                                                  /\ jobs'[d].generation # 0
  BY DEF RowsCoherent
<1>. USE DEF QueueInvariant, RowsCoherent
<1>0. /\ jobs[d].generation \in Nat /\ jobs[d].token \in Nat
      /\ jobs[d].live \in BOOLEAN
  BY DEF TypeOK, Row
<1>1. CASE SameRow(d) \/ Clocked(d)
  BY <1>0, <1>1 DEF SameRow, Clocked
<1>2. CASE Imported(d)
  BY <1>2 DEF Imported
<1>3. ASSUME NEW w \in Workers, Leased(w, d)
      PROVE  /\ jobs'[d].generation # 0 /\ jobs'[d].id # 0
             /\ jobs'[d].token = jobs'[d].generation
             /\ jobs'[d].stage # "done"
  BY <1>0, <1>3 DEF Leased, ClaimJob, Candidates, Rows, Ready, StageOf
<1>4. ASSUME NEW w \in Workers, GivenUp(w, d)
      PROVE  /\ jobs'[d].generation # 0 /\ jobs'[d].id # 0
             /\ jobs'[d].token = 0 /\ ~jobs'[d].live
  <2>1. jobs[d].generation # 0
    BY <1>0, <1>4, HolderType DEF GivenUp, LeasesIssued
  <2>. QED
    BY <1>4, <2>1 DEF GivenUp
<1>. QED
  BY <1>0, <1>1, <1>2, <1>3, <1>4, RowCases

\* A worker's lease changes only by its own claim or by its end.
LEMMA LeaseCases ==
    ASSUME TypeOK, [Next]_vars, NEW w \in Workers
    PROVE  \/ lease'[w] = lease[w] /\ (out'[w] = "idle" <=> out[w] = "idle")
           \/ out'[w] = "idle"
           \/ \E d \in Docs :
                /\ ClaimJob(w, d) /\ out[w] = "idle"
                /\ lease'[w] = [job |-> d, generation |-> jobs[d].generation + 1,
                                attempt |-> jobs[d].attempt]
<1>. DEFINE Same(v) == /\ lease'[v] = lease[v]
                       /\ out'[v] = "idle" <=> out[v] = "idle"
            Taken(v, d) == /\ ClaimJob(v, d) /\ out[v] = "idle"
                           /\ lease'[v] = [job |-> d,
                                  generation |-> jobs[d].generation + 1,
                                  attempt |-> jobs[d].attempt]
<1>1. ASSUME NEW v \in Workers, NEW d \in Docs, ClaimJob(v, d)
      PROVE  Same(w) \/ Taken(w, d)
  BY <1>1 DEF ClaimJob, NextGeneration, TypeOK
<1>2. ASSUME NEW v \in Workers,
             AcceptBag(v) \/ AcceptRetry(v) \/ AcceptResult(v) \/ Release(v)
             \/ Crash(v)
      PROVE  Same(w) \/ out'[w] = "idle"
  <2>1. EndLease(v)
    BY <1>2 DEF AcceptBag, AcceptRetry, AcceptResult, Release, Crash
  <2>. QED
    BY <2>1 DEF EndLease, TypeOK
<1>3. ASSUME NEW v \in Workers, Calculate(v)
      PROVE  Same(w)
  <2>1. StageOf(v) \in Stages /\ lease[v].job \in Docs
    BY <1>3, HolderType DEF StageOf, Stages, Calculate
  <2>2. \A o \in Calculations(lease[v].job, StageOf(v)) : o # "idle"
    BY <2>1, OutcomeAssumption DEF Calculations
  <2>. QED
    BY <1>3, <2>2 DEF Calculate, TypeOK
<1>4. ASSUME NEW v \in Workers, LoseLease(v) \/ Cancel(v)
      PROVE  Same(w)
  BY <1>4 DEF LoseLease, Cancel, TypeOK
<1>5. ASSUME NEW d \in Docs,
             \/ Import(d) \/ Lapse(d) \/ Stall(d) \/ Regress(d)
             \/ \E s \in Stages, n \in Failures : InjectFailure(d, s, n)
      PROVE  Same(w)
  BY <1>5 DEF Import, InjectFailure, Lapse, Stall, Regress, Expire, workers
<1>6. ASSUME NEW p \in Publishers, Flush(p) \/ CrashPublisher(p)
      PROVE  Same(w)
  BY <1>6 DEF Flush, FlushRead, FlushPublish, FlushAcknowledge,
              CrashPublisher, workers
<1>7. UNCHANGED vars => Same(w)
  BY DEF vars, workers
<1>. QED
  BY <1>1, <1>2, <1>3, <1>4, <1>5, <1>6, <1>7, StepCases

\* Generations of a row never decrease while a worker may hold its lease.
LEMMA GenerationGrows ==
    ASSUME TypeOK, [Next]_vars, NEW d \in Docs, QueueInvariant,
           jobs[d].generation # 0
    PROVE  /\ jobs'[d].generation \in Nat
           /\ jobs[d].generation <= jobs'[d].generation
<1>1. jobs[d] \in Row /\ jobs[d].generation \in Nat
  BY DEF TypeOK, Row
<1>2. ~Imported(d)
  <2>1. jobs[d].id # 0
    BY DEF QueueInvariant, RowsCoherent
  <2>. QED
    BY <2>1 DEF Imported, Import, Matches, Rows
<1>3. CASE SameRow(d) \/ Clocked(d)
  BY <1>1, <1>3 DEF SameRow, Clocked
<1>4. ASSUME NEW w \in Workers, Leased(w, d) \/ GivenUp(w, d)
      PROVE  /\ jobs'[d].generation \in Nat
             /\ jobs[d].generation <= jobs'[d].generation
  BY <1>1, <1>4 DEF Leased, GivenUp
<1>. QED
  BY <1>2, <1>3, <1>4, RowCases

LEMMA LeasesIssuedStep ==
    ASSUME TypeOK, TypeOK', QueueInvariant, [Next]_vars
    PROVE  LeasesIssued'
<1>. USE DEF QueueInvariant, LeasesIssued
<1>. DEFINE Same(w) == lease'[w] = lease[w] /\ out[w] # "idle"
            Taken(w, d) == /\ ClaimJob(w, d)
                           /\ lease'[w].job = d
                           /\ lease'[w].generation = jobs[d].generation + 1
                           /\ lease'[w].generation = jobs'[d].generation
            Issued(l) == l.generation \in 1..jobs[l.job].generation
<1>0. \A d \in Docs : jobs[d].generation \in Nat /\ jobs'[d].generation \in Nat
  BY DEF TypeOK, Row
<1>1. ASSUME NEW w \in Workers, out'[w] # "idle"
      PROVE  Same(w) \/ \E d \in Docs : Taken(w, d)
  <2>1. ASSUME NEW d \in Docs, ClaimJob(w, d),
               lease'[w] = [job |-> d, generation |-> jobs[d].generation + 1,
                            attempt |-> jobs[d].attempt]
        PROVE  Taken(w, d)
    <3>1. jobs'[d].generation = jobs[d].generation + 1
      BY <2>1, ClaimLeases DEF Leased
    <3>. QED
      BY <2>1, <3>1
  <2>. QED
    BY <1>1, <2>1, LeaseCases
<1>2. ASSUME NEW w \in Workers, Same(w)
      PROVE  /\ lease[w].job \in Docs
             /\ lease[w].generation \in 1..jobs[lease[w].job].generation
             /\ lease[w].generation \in 1..jobs'[lease[w].job].generation
  <2>1. lease[w].job \in Docs /\ lease[w].generation \in Nat
    BY <1>2, HolderType
  <2>2. lease[w].generation \in 1..jobs[lease[w].job].generation
    BY <1>2
  <2>3. jobs[lease[w].job].generation <= jobs'[lease[w].job].generation
    BY <1>0, <2>1, <2>2, GenerationGrows
  <2>. QED
    BY <1>0, <2>1, <2>2, <2>3
<1>3. ASSUME NEW w \in Workers, out'[w] # "idle"
      PROVE  lease'[w].generation \in 1..jobs'[lease'[w].job].generation
  BY <1>0, <1>1, <1>2, <1>3
<1>4. ASSUME NEW v \in Workers, NEW w \in Workers, v # w,
             out'[v] # "idle", out'[w] # "idle",
             lease'[v].job = lease'[w].job
      PROVE  lease'[v].generation # lease'[w].generation
  <2>1. CASE Same(v) /\ Same(w)
    BY <1>4, <2>1
  <2>2. ASSUME NEW x \in Workers, NEW y \in Workers, NEW d \in Docs,
               Taken(x, d), Same(y), lease'[y].job = d
        PROVE  lease'[x].generation # lease'[y].generation
    BY <1>0, <1>2, <2>2
  <2>3. ASSUME NEW d \in Docs, Taken(v, d)
        PROVE  Same(w)
    <3>1. out'[w] = out[w]
      BY <1>4, <2>3 DEF ClaimJob, TypeOK
    <3>. QED
      BY <1>1, <1>4, <3>1 DEF ClaimJob
  <2>. QED
    BY <1>1, <1>4, <2>1, <2>2, <2>3
<1>. QED
  BY <1>3, <1>4

LEMMA FlushingInOrderStep ==
    ASSUME TypeOK, QueueInvariant, [Next]_vars
    PROVE  FlushingInOrder' /\ InsertionOrder'
<1>. USE DEF QueueInvariant, FlushingInOrder, InsertionOrder
<1>0. /\ outbox \in Seq(File)
      /\ DOMAIN outbox = 1..Len(outbox) /\ Len(outbox) \in Nat
      /\ delivered \subseteq DOMAIN outbox
      /\ \A p \in Publishers : flushing[p].row # 0 =>
           flushing[p].row \in DOMAIN outbox
  BY DEF TypeOK, Resting
<1>1. CASE UNCHANGED <<delivered, disk, flushing>>
  BY <1>1
<1>2. ASSUME NEW p \in Publishers, FlushRead(p)
      PROVE  FlushingInOrder' /\ InsertionOrder'
  <2>1. PICK n \in Oldest(Pending) :
               flushing' = [flushing EXCEPT ![p] = [row |-> n, done |-> FALSE]]
    BY <1>2 DEF FlushRead
  <2>2. n \in DOMAIN outbox /\ 1..(n - 1) \subseteq delivered
    BY <1>0 DEF Oldest, Pending
  <2>3. UNCHANGED <<delivered, disk>>
    BY <1>2 DEF FlushRead, tables
  <2>. QED
    BY <2>1, <2>2, <2>3 DEF TypeOK
<1>3. ASSUME NEW p \in Publishers, FlushPublish(p)
      PROVE  FlushingInOrder' /\ InsertionOrder'
  BY <1>0, <1>3 DEF FlushPublish, TypeOK, tables
<1>4. ASSUME NEW p \in Publishers, FlushAcknowledge(p)
      PROVE  FlushingInOrder' /\ InsertionOrder'
  <2>1. flushing[p].done /\ flushing[p].row # 0
    BY <1>0, <1>4 DEF FlushAcknowledge, TypeOK, Resting
  <2>. QED
    BY <1>0, <1>4, <2>1 DEF FlushAcknowledge, TypeOK, Resting
<1>5. ASSUME NEW p \in Publishers, CrashPublisher(p)
      PROVE  FlushingInOrder' /\ InsertionOrder'
  BY <1>5 DEF CrashPublisher, TypeOK, Resting, tables
<1>6. \/ UNCHANGED <<delivered, disk, flushing>>
      \/ \E p \in Publishers : Flush(p) \/ CrashPublisher(p)
  BY StepCases
     DEF Import, InjectFailure, Lapse, Stall, Regress, Expire, ClaimJob,
         AcceptBag, AcceptRetry, AcceptResult, Release, Crash, Calculate,
         LoseLease, Cancel, vars, tables
<1>. QED
  BY <1>1, <1>2, <1>3, <1>4, <1>5, <1>6 DEF Flush

\* What the outbox condition of claim is for: a job's own files are published
\* once none of its rows is pending.
LEMMA SettledOnDisk ==
    ASSUME TypeOK, InsertionOrder, NEW d \in Docs, NEW kind,
           Settled(d), Filed(kind, d)
    PROVE  /\ OnDisk(kind, d)
           /\ kind = "bag" => BagOnDisk(d)
<1>1. OnDisk(kind, d)
  BY DEF Filed, Settled, Pending, InsertionOrder, OnDisk
<1>. QED
  BY <1>1 DEF BagOnDisk, SameRecording

\* The files added together are in the outbox afterwards.
LEMMA AddedFiled ==
    ASSUME TypeOK, NEW d \in Docs, NEW kind, NEW a, NEW r, NEW g,
           outbox' = Added(Document(d, kind, a, r), g)
    PROVE  Filed(kind, d)'
<1>. DEFINE n == Len(outbox) + 1
<1>1. n \in DOMAIN outbox' /\ outbox'[n] = Document(d, kind, a, r)
  BY DEF Added, TypeOK
<1>. QED
  BY <1>1 DEF Filed, Document

LEMMA InputsFiledStep ==
    ASSUME TypeOK, TypeOK', QueueInvariant, [Next]_vars
    PROVE  InputsFiled'
<1>. DEFINE Inputs(d) ==
              /\ jobs[d].id # 0 => Filed("job", d)
              /\ jobs[d].generation # 0 => OnDisk("job", d)
              /\ jobs[d].stage = "analysis" => Filed("bag", d) \/ BagOnDisk(d)
              /\ jobs[d].stage = "analysis" /\ jobs[d].token # 0 => BagOnDisk(d)
<1>. SUFFICES ASSUME NEW d \in Docs
              PROVE  Inputs(d)'
  BY DEF InputsFiled
<1>0. Inputs(d)
  BY DEF QueueInvariant, InputsFiled
<1>1. /\ Filed("job", d) => Filed("job", d)'
      /\ Filed("bag", d) => Filed("bag", d)'
      /\ OnDisk("job", d) => OnDisk("job", d)'
      /\ BagOnDisk(d) => BagOnDisk(d)'
  <2>1. ASSUME NEW kind
        PROVE  /\ Filed(kind, d) => Filed(kind, d)'
               /\ OnDisk(kind, d) => OnDisk(kind, d)'
               /\ BagOnDisk(d) => BagOnDisk(d)'
    BY DiskGrows
  <2>. QED
    BY <2>1
<1>2. CASE SameRow(d) \/ Clocked(d)
  BY <1>0, <1>1, <1>2 DEF SameRow, Clocked
<1>3. CASE Imported(d)
  <2>1. Filed("job", d)'
    BY <1>3, AddedFiled DEF Imported, Import
  <2>2. jobs'[d].stage = "analysis" => BagOnDisk(d)'
    BY <1>1, <1>3, JobAssumption DEF Imported, Import
  <2>. QED
    BY <1>3, <2>1, <2>2 DEF Imported
<1>4. ASSUME NEW w \in Workers, Leased(w, d)
      PROVE  Inputs(d)'
  <2>1. jobs[d].id # 0 /\ Settled(d)
    BY <1>4 DEF Leased, ClaimJob, Candidates, Rows, Ready
  <2>2. OnDisk("job", d)
    BY <1>0, <2>1, SettledOnDisk DEF QueueInvariant
  <2>3. jobs[d].stage = "analysis" => BagOnDisk(d)
    BY <1>0, <2>1, SettledOnDisk DEF QueueInvariant
  <2>. QED
    BY <1>0, <1>1, <1>4, <2>2, <2>3 DEF Leased
<1>5. ASSUME NEW w \in Workers, GivenUp(w, d)
      PROVE  Inputs(d)'
  <2>1. CASE jobs'[d].stage = jobs[d].stage \/ jobs'[d].stage = "done"
    BY <1>0, <1>1, <1>5, <2>1 DEF GivenUp
  <2>2. CASE AcceptBag(w)
    <3>1. Filed("bag", d)'
      BY <1>5, <2>2, AddedFiled DEF GivenUp, AcceptBag
    <3>. QED
      BY <1>0, <1>1, <1>5, <3>1 DEF GivenUp
  <2>. QED
    BY <1>5, <2>1, <2>2 DEF GivenUp
<1>. QED
  BY <1>2, <1>3, <1>4, <1>5, RowCases

LEMMA InvariantStep ==
    TypeOK /\ TypeOK' /\ QueueInvariant /\ [Next]_vars => QueueInvariant'
BY RowsCoherentStep, LeasesIssuedStep, FlushingInOrderStep, InputsFiledStep
   DEF QueueInvariant

\* The inductive invariant holds in every reachable state.
THEOREM Invariant == Spec => []QueueInvariant
<1>. QED
  BY InitInvariant, InvariantStep, TypeCorrect, PTL DEF Spec

-----------------------------------------------------------------------------
(* What it implies.                                                        *)

\* Two workers never both hold a lease on one job that its row still carries:
\* tokens of equal generation belong to one claim.
THEOREM OneOwnerCorrect == Spec => []OneOwner
<1>1. LeasesIssued => OneOwner
  BY DEF LeasesIssued, OneOwner, Current
<1>. QED
  BY <1>1, Invariant, PTL DEF QueueInvariant

\* Files are published and acknowledged in the order of their rows, whatever
\* publishers race and die.
THEOREM InsertionOrderCorrect == Spec => []InsertionOrder
<1>. QED
  BY Invariant, PTL DEF QueueInvariant

\* Whoever still owns a lease finds the job file and, for analysis, the
\* recording in the exchange directory.
THEOREM InputsPublishedCorrect == Spec => []InputsPublished
<1>1. TypeOK /\ QueueInvariant => InputsPublished
  <2>. SUFFICES ASSUME TypeOK, QueueInvariant,
                       NEW w \in Workers, out[w] # "idle", Owns(w)
                PROVE  /\ OnDisk("job", lease[w].job)
                       /\ StageOf(w) = "analysis" => BagOnDisk(lease[w].job)
    BY DEF InputsPublished
  <2>1. lease[w].job \in Docs /\ lease[w].generation \in Nat
    BY HolderType
  <2>2. jobs[lease[w].job].token # 0 /\ jobs[lease[w].job].stage = StageOf(w)
    BY <2>1 DEF Owns, Current, QueueInvariant, RowsCoherent
  <2>3. jobs[lease[w].job].generation # 0
    BY <2>1, <2>2 DEF QueueInvariant, RowsCoherent
  <2>. QED
    BY <2>1, <2>2, <2>3 DEF QueueInvariant, InputsFiled
<1>. QED
  BY <1>1, Invariant, TypeCorrect, PTL

LEMMA NewFiles ==
    ASSUME TypeOK, NEW d \in Docs, NEW f \in File, NEW g \in File,
           f.job # d, g.job # d,
           outbox' = Append(outbox, f) \/ outbox' = Added(f, g)
    PROVE  \A n \in DOMAIN outbox' \ DOMAIN outbox : outbox'[n].job # d
<1>. SUFFICES ASSUME NEW n \in DOMAIN outbox' \ DOMAIN outbox
              PROVE  outbox'[n] \in {f, g}
  OBVIOUS
<1>1. /\ outbox \in Seq(File) /\ Len(outbox) \in Nat
      /\ Append(outbox, f) \in Seq(File)
      /\ Append(outbox, g) \in Seq(File)
  BY DEF TypeOK
<1>2. CASE outbox' = Append(outbox, f)
  BY <1>1, <1>2
<1>3. CASE outbox' = Added(f, g)
  <2>. DEFINE o == Append(outbox, f)
  <2>1. /\ o \in Seq(File) /\ Len(o) = Len(outbox) + 1
        /\ o[Len(outbox) + 1] = f
    BY <1>1
  <2>2. outbox' = Append(o, g)
    BY <1>3 DEF Added
  <2>3. n = Len(outbox) + 1 \/ n = Len(outbox) + 2
    BY <1>1, <2>1, <2>2
  <2>. HIDE DEF o
  <2>. QED
    BY <1>1, <2>1, <2>2, <2>3
<1>. QED
  BY <1>2, <1>3

LEMMA DoneStep ==
    ASSUME TypeOK, TypeOK', QueueInvariant, [Next]_vars,
           NEW d \in Docs, jobs[d].stage = "done"
    PROVE  /\ UNCHANGED <<jobs[d], retries[d], faults[d]>>
           /\ \A n \in DOMAIN outbox' \ DOMAIN outbox : outbox'[n].job # d
<1>. DEFINE NoFile == \A n \in DOMAIN outbox' \ DOMAIN outbox : outbox'[n].job # d
<1>0. /\ jobs[d].id # 0 /\ jobs[d].generation # 0
      /\ jobs[d].token = 0 /\ ~jobs[d].live
  BY DEF QueueInvariant, RowsCoherent
<1>1. ASSUME NEW w \in Workers, out[w] # "idle", Current(w)
      PROVE  lease[w].job # d
  BY <1>0, <1>1, HolderType DEF Current, QueueInvariant, LeasesIssued
<1>2. SameRow(d)
  <2>1. ~Imported(d)
    BY <1>0 DEF Imported, Import, Matches, Rows
  <2>2. ~Clocked(d)
    BY <1>0 DEF Clocked
  <2>3. \A w \in Workers : ~Leased(w, d) /\ ~GivenUp(w, d)
    BY <1>0, <1>1
       DEF Leased, ClaimJob, Candidates, Ready, StageOf, GivenUp
  <2>. QED
    BY <2>1, <2>2, <2>3, RowCases
<1>3. ASSUME NEW e \in Docs, Import(e)
      PROVE  UNCHANGED <<retries, faults>> /\ NoFile
  <2>1. e # d
    BY <1>0, <1>3 DEF Import, Matches, Rows
  <2>2. NewRow(e) \in Row
    BY NewRowType
  <2>3. /\ Document(e, "job", 0, "none").job = e
        /\ Event(e, NewRow(e), 1, "PENDING").job = e
    BY DEF Document, Event
  <2>4. /\ Document(e, "job", 0, "none") \in File
        /\ Event(e, NewRow(e), 1, "PENDING") \in File
    BY <2>2, FileType DEF States
  <2>. QED
    BY <1>3, <2>1, <2>3, <2>4, NewFiles DEF Import
<1>4. ASSUME NEW e \in Docs, NEW s \in Stages, NEW n \in Failures,
             InjectFailure(e, s, n)
      PROVE  retries' = retries /\ faults'[d] = faults[d] /\ NoFile
  BY <1>0, <1>4 DEF InjectFailure, Unclaimed, TypeOK
<1>5. ASSUME NEW w \in Workers, NEW e \in Docs, ClaimJob(w, e)
      PROVE  UNCHANGED <<retries, faults>> /\ NoFile
  <2>1. e # d
    BY <1>5 DEF ClaimJob, Candidates, Ready, StageOf
  <2>2. Running(StageOf(w)) \in States
    BY DEF Running, States
  <2>3. jobs[e] \in Row /\ jobs[e].attempt \in Nat
    BY DEF TypeOK, Row
  <2>. DEFINE f == Event(e, jobs[e], jobs[e].attempt, Running(StageOf(w)))
  <2>4. f \in File /\ f.job # d
    BY <2>1, <2>2, <2>3, FileType DEF Event
  <2>5. outbox' = outbox \/ outbox' = Append(outbox, f)
    BY <1>5 DEF ClaimJob
  <2>6. NoFile
    <3>. HIDE DEF f
    <3>. QED
      BY <2>4, <2>5, NewFiles
  <2>. QED
    BY <1>5, <2>6 DEF ClaimJob
<1>6. ASSUME NEW w \in Workers,
             AcceptBag(w) \/ AcceptRetry(w) \/ AcceptResult(w)
      PROVE  retries'[d] = retries[d] /\ faults' = faults /\ NoFile
  <2>1. out[w] # "idle"
    BY <1>6 DEF AcceptBag, AcceptRetry, AcceptResult, Retryable, Results
  <2>2. lease[w].job # d
    BY <1>1, <1>6, <2>1 DEF AcceptBag, AcceptRetry, AcceptResult, Owns
  <2>3. retries'[d] = retries[d] /\ faults' = faults
    BY <1>6, <2>2 DEF AcceptBag, AcceptRetry, AcceptResult, TypeOK
  <2>4. \/ \E f \in File : f.job # d /\ outbox' = Append(outbox, f)
        \/ \E f, g \in File : f.job # d /\ g.job # d /\ outbox' = Added(f, g)
    <3>1. /\ lease[w].job \in Docs /\ lease[w].attempt \in Nat
          /\ jobs[lease[w].job] \in Row /\ jobs[lease[w].job].attempt + 1 \in Nat
      BY <2>1, HolderType
    <3>2. \A row \in Row, a \in Nat, s \in States,
             r \in States \cup Results \cup {"none"},
             kind \in {"job", "bag", "result"} :
            /\ Document(lease[w].job, kind, a, r) \in File
            /\ Document(lease[w].job, kind, a, r).job # d
            /\ Event(lease[w].job, row, a, s) \in File
            /\ Event(lease[w].job, row, a, s).job # d
      BY <2>2, <3>1, FileType DEF Document, Event
    <3>3. /\ "ANALYZING" \in States
          /\ Running(StageOf(w)) \in States
          /\ out[w] \in Results => Status(out[w]) \in States
      BY DEF Running, Status, States, Terminal
    <3>. QED
      BY <1>6, <3>1, <3>2, <3>3 DEF AcceptBag, AcceptRetry, AcceptResult
  <2>. QED
    BY <2>3, <2>4, NewFiles
<1>7. ASSUME UNCHANGED <<retries, faults, outbox>>
      PROVE  UNCHANGED <<retries, faults>> /\ NoFile
  BY <1>7
<1>8. \/ UNCHANGED <<retries, faults, outbox>>
      \/ \E e \in Docs :
           \/ Import(e)
           \/ \E s \in Stages, n \in Failures : InjectFailure(e, s, n)
           \/ \E w \in Workers : ClaimJob(w, e)
      \/ \E w \in Workers : AcceptBag(w) \/ AcceptRetry(w) \/ AcceptResult(w)
  BY StepCases
     DEF Lapse, Stall, Regress, Expire, Release, Crash, Calculate, LoseLease,
         Cancel, Flush, FlushRead, FlushPublish, FlushAcknowledge,
         CrashPublisher, vars, tables
<1>. QED
  BY <1>2, <1>3, <1>4, <1>5, <1>6, <1>7, <1>8 DEF SameRow

\* No late worker, clock fault or operator touches a finished job.
THEOREM DoneIsFinalCorrect == Spec => DoneIsFinal
<1>. DEFINE Kept == \A d \in Docs : jobs[d].stage = "done" =>
                /\ UNCHANGED <<jobs[d], retries[d], faults[d]>>
                /\ \A n \in DOMAIN outbox' \ DOMAIN outbox : outbox'[n].job # d
<1>1. TypeOK /\ TypeOK' /\ QueueInvariant /\ [Next]_vars => [Kept]_vars
  BY DoneStep
<1>. QED
  BY <1>1, Invariant, TypeCorrect, PTL DEF Spec, DoneIsFinal

\* A lease another claim or a release has superseded ends without a trace.
THEOREM SupersededIsHarmlessCorrect == Spec => SupersededIsHarmless
<1>. DEFINE Superseded(w) == /\ out[w] # "idle"
                             /\ lease[w].generation # jobs[lease[w].job].token
                             /\ lease'[w] # lease[w]
<1>1. ASSUME TypeOK, [Next]_vars, NEW w \in Workers, Superseded(w)
      PROVE  UNCHANGED tables
  <2>1. ~Current(w) /\ ~Owns(w)
    BY <1>1 DEF Current, Owns
  <2>2. Release(w) \/ Crash(w)
    <3>1. \A v \in Workers, d \in Docs : ~ClaimJob(v, d)
      BY <1>1 DEF ClaimJob, TypeOK
    <3>2. \A v \in Workers :
             AcceptBag(v) \/ AcceptRetry(v) \/ AcceptResult(v) => v = w
      BY <1>1 DEF AcceptBag, AcceptRetry, AcceptResult, EndLease, TypeOK
    <3>3. \A v \in Workers : Release(v) \/ Crash(v) => v = w
      BY <1>1 DEF Release, Crash, EndLease, TypeOK
    <3>4. ~AcceptBag(w) /\ ~AcceptRetry(w) /\ ~AcceptResult(w)
      BY <2>1 DEF AcceptBag, AcceptRetry, AcceptResult
    <3>5. lease' = lease \/ \E v \in Workers :
            \/ \E d \in Docs : ClaimJob(v, d)
            \/ AcceptBag(v) \/ AcceptRetry(v) \/ AcceptResult(v)
            \/ Release(v) \/ Crash(v)
      BY <1>1, StepCases
         DEF Import, InjectFailure, Lapse, Stall, Regress, Expire, Calculate,
             LoseLease, Cancel, Flush, FlushRead, FlushPublish,
             FlushAcknowledge, CrashPublisher, vars, workers
    <3>. QED
      BY <1>1, <3>1, <3>2, <3>3, <3>4, <3>5
  <2>. QED
    BY <2>1, <2>2 DEF Release, Freed, Crash, tables
<1>2. TypeOK /\ [Next]_vars =>
        [\A w \in Workers : Superseded(w) => UNCHANGED tables]_vars
  BY <1>1
<1>. QED
  BY <1>2, TypeCorrect, PTL DEF Spec, SupersededIsHarmless

\* A lease that is alive and held changes hands only through its holder.
THEOREM LiveLeaseStaysCorrect == Spec => LiveLeaseStays
<1>. DEFINE Ended(d) == \E w \in Workers : /\ out[w] # "idle" /\ lease[w].job = d
                                         /\ Current(w) /\ lease'[w] = NoLease
            Taken(d) == jobs[d].live /\ Held(d) /\ jobs'[d].token # jobs[d].token
<1>1. ASSUME TypeOK, QueueInvariant, [Next]_vars, NEW d \in Docs, Taken(d)
      PROVE  Ended(d)
  <2>1. /\ ~SameRow(d) /\ ~Clocked(d)
        /\ \A w \in Workers : ~Leased(w, d)
    BY <1>1 DEF SameRow, Clocked, Leased, ClaimJob, Candidates, Ready
  <2>2. jobs[d].id # 0
    BY <1>1 DEF QueueInvariant, RowsCoherent
  <2>3. ~Imported(d)
    BY <2>2 DEF Imported, Import, Matches, Rows
  <2>. QED
    BY <2>1, <2>3, <1>1, RowCases DEF GivenUp
<1>2. TypeOK /\ QueueInvariant /\ [Next]_vars =>
        [\A d \in Docs : Taken(d) => Ended(d)]_vars
  BY <1>1
<1>. QED
  BY <1>2, Invariant, TypeCorrect, PTL DEF Spec, LiveLeaseStays

-----------------------------------------------------------------------------
(* What a reader of the tables and files can tell from a step.             *)

Columns(d) == <<jobs[d].id, jobs[d].stage, jobs[d].state, jobs[d].attempt,
                jobs[d].sequence, jobs[d].bagged>>
\* The row tells the same of its job, which may be claimed again.
SilentRow(d) ==
    /\ UNCHANGED <<Columns(d), retries[d]>>
    /\ \/ jobs'[d].generation = jobs[d].generation
       \/ /\ jobs[d].id # 0 /\ jobs[d].state # "PENDING"
          /\ jobs'[d].generation = jobs[d].generation + 1
Silent == outbox' = outbox /\ \A d \in Docs : SilentRow(d)
\* A row changes; all others stay as they are.
Only(d) == \A e \in Docs \ {d} : jobs'[e] = jobs[e] /\ retries'[e] = retries[e]
FirstClaimed(w, d) == ClaimJob(w, d) /\ FirstClaim(d)

LEMMA StoryCases ==
    ASSUME TypeOK, [Next]_vars
    PROVE  \/ Silent
           \/ \E d \in Docs : Import(d) \/ \E w \in Workers : FirstClaimed(w, d)
           \/ \E w \in Workers : AcceptBag(w) \/ AcceptRetry(w) \/ AcceptResult(w)
<1>. USE DEF Silent, SilentRow, Columns
<1>0. jobs \in [Docs -> Row]
  BY DEF TypeOK
<1>1. ASSUME NEW w \in Workers, NEW d \in Docs, ClaimJob(w, d), ~FirstClaim(d)
      PROVE  Silent
  <2>1. /\ outbox' = outbox /\ retries' = retries /\ d \in Rows
        /\ jobs' = [jobs EXCEPT ![d] = Claimed(d)]
    BY <1>1 DEF ClaimJob, Candidates
  <2>2. /\ Columns(d)' = Columns(d)
        /\ jobs'[d].generation = jobs[d].generation + 1
    BY <1>0, <2>1 DEF Claimed, NextGeneration, Row
  <2>3. jobs[d].id # 0 /\ jobs[d].state # "PENDING"
    BY <1>1, <2>1 DEF Rows, FirstClaim
  <2>4. \A e \in Docs \ {d} : jobs'[e] = jobs[e]
    BY <1>0, <2>1
  <2>. QED
    BY <2>1, <2>2, <2>3, <2>4
<1>2. ASSUME NEW d \in Docs, NEW s \in Stages, NEW n \in Failures, InjectFailure(d, s, n)
      PROVE  Silent
  BY <1>2 DEF InjectFailure
<1>3. ASSUME NEW d \in Docs, Lapse(d) \/ Stall(d) \/ Regress(d)
      PROVE  Silent
  BY <1>0, <1>3 DEF Lapse, Stall, Regress, Expire, Row
<1>4. ASSUME NEW w \in Workers, Release(w)
      PROVE  Silent
  <2>1. lease[w].job \in Docs
    BY <1>4, HolderType DEF Release
  <2>. QED
    BY <1>0, <1>4, <2>1 DEF Release, Freed, Accepted, Row
<1>5. ASSUME NEW w \in Workers, Crash(w) \/ Calculate(w) \/ LoseLease(w) \/ Cancel(w)
      PROVE  Silent
  BY <1>5 DEF Crash, Calculate, LoseLease, Cancel, tables
<1>6. ASSUME NEW p \in Publishers, Flush(p) \/ CrashPublisher(p)
      PROVE  Silent
  BY <1>6 DEF Flush, FlushRead, FlushPublish, FlushAcknowledge, CrashPublisher, tables
<1>7. UNCHANGED vars => Silent
  BY DEF vars, tables
<1>. QED
  BY <1>1, <1>2, <1>3, <1>4, <1>5, <1>6, <1>7, StepCases DEF FirstClaimed

\* addEvent changes nothing but the sequence number and the state.
LEMMA AdvanceTells ==
    ASSUME NEW row \in Row, NEW s
    PROVE  LET next == Advance(row, s) IN
           /\ next.id = row.id /\ next.stage = row.stage /\ next.state = s
           /\ next.attempt = row.attempt /\ next.generation = row.generation
           /\ next.bagged = row.bagged
           /\ next.sequence = row.sequence + 1
BY DEF Advance, Row

\* What each of the telling steps makes of the row it changes.
LEMMA ImportTells ==
    ASSUME TypeOK, NEW d \in Docs, Import(d)
    PROVE  /\ jobs[d].id = 0 /\ jobs'[d].id # 0 /\ jobs'[d].stage = FirstStage(d)
           /\ jobs'[d].state = "PENDING" /\ jobs'[d].attempt = 1
           /\ jobs'[d].sequence = 1 /\ jobs'[d].generation = 0
           /\ Job[d].kind = "run" => ~jobs'[d].bagged
           /\ Only(d) /\ retries' = retries
<1>1. jobs \in [Docs -> Row] /\ Cardinality(Rows) + 1 # 0
  BY IdType DEF TypeOK
<1>2. jobs[d].id = 0
  BY DEF Import, Matches, Rows
<1>3. /\ NewRow(d) \in Row /\ NewRow(d).id = Cardinality(Rows) + 1
      /\ NewRow(d).stage = FirstStage(d) /\ NewRow(d).attempt = 1
      /\ NewRow(d).sequence = 0 /\ NewRow(d).generation = 0
      /\ Job[d].kind = "run" => ~NewRow(d).bagged
  BY NewRowType DEF NewRow, NoRow, FirstStage
<1>4. jobs' = [jobs EXCEPT ![d] = Advance(NewRow(d), "PENDING")] /\ retries' = retries
  BY DEF Import
<1>5. jobs'[d] = Advance(NewRow(d), "PENDING")
  BY <1>1, <1>4
<1>6. Only(d)
  BY <1>1, <1>4 DEF Only
<1>. QED
  BY <1>1, <1>2, <1>3, <1>4, <1>5, <1>6, AdvanceTells

LEMMA FirstClaimTells ==
    ASSUME TypeOK, NEW w \in Workers, NEW d \in Docs, FirstClaimed(w, d)
    PROVE  /\ jobs[d].id # 0 /\ jobs'[d].id = jobs[d].id /\ jobs'[d].stage = jobs[d].stage
           /\ jobs[d].state = "PENDING" /\ jobs'[d].state = Running(jobs[d].stage)
           /\ jobs'[d].attempt = jobs[d].attempt
           /\ jobs'[d].sequence = jobs[d].sequence + 1
           /\ jobs'[d].generation = jobs[d].generation + 1
           /\ jobs'[d].bagged = jobs[d].bagged
           /\ Only(d) /\ retries' = retries
<1>1. jobs \in [Docs -> Row] /\ jobs[d] \in Row /\ Claimed(d) \in Row
  BY ClaimedType DEF TypeOK
<1>2. d \in Rows /\ jobs[d].stage = StageOf(w) /\ jobs[d].state = "PENDING"
  BY DEF FirstClaimed, ClaimJob, Candidates, Ready, FirstClaim
<1>3. jobs' = [jobs EXCEPT ![d] = Advance(Claimed(d), Running(StageOf(w)))] /\ retries' = retries
  BY DEF FirstClaimed, ClaimJob
<1>4. jobs'[d] = Advance(Claimed(d), Running(StageOf(w)))
  BY <1>1, <1>3
<1>5. /\ Claimed(d).id = jobs[d].id /\ Claimed(d).stage = jobs[d].stage
      /\ Claimed(d).attempt = jobs[d].attempt /\ Claimed(d).sequence = jobs[d].sequence
      /\ Claimed(d).generation = jobs[d].generation + 1
      /\ Claimed(d).bagged = jobs[d].bagged
  BY <1>1 DEF Claimed, NextGeneration, Row
<1>. QED
  BY <1>1, <1>2, <1>3, <1>4, <1>5 DEF Advance, Only, Row, Rows

\* Who has an output accepted holds the row at its own stage.
Holds(w, d) ==
    /\ d \in Docs /\ d = lease[w].job /\ out[w] # "idle" /\ Current(w)
    /\ jobs[d].stage = StageOf(w) /\ jobs[d].id # 0 /\ jobs[d].generation # 0
LEMMA OwnerHolds ==
    ASSUME TypeOK, QueueInvariant, NEW w \in Workers, out[w] # "idle", Owns(w)
    PROVE  Holds(w, lease[w].job)
<1>1. lease[w].job \in Docs /\ lease[w].generation \in Nat /\ jobs[lease[w].job] \in Row
  BY HolderType
<1>2. Current(w)
  BY DEF Owns
<1>3. jobs[lease[w].job].generation # 0
  BY <1>1 DEF QueueInvariant, LeasesIssued, Row
<1>. QED
  BY <1>1, <1>2, <1>3 DEF Holds, Current, QueueInvariant, RowsCoherent

LEMMA AcceptTells ==
    ASSUME TypeOK, QueueInvariant, NEW w \in Workers,
           NEW d, d = lease[w].job,
           AcceptBag(w) \/ AcceptRetry(w) \/ AcceptResult(w)
    PROVE  /\ Holds(w, d)
           /\ jobs'[d].id = jobs[d].id /\ jobs'[d].sequence = jobs[d].sequence + 1
           /\ jobs'[d].generation = jobs[d].generation
           /\ Only(d)
           /\ AcceptBag(w) =>
                /\ jobs'[d].stage = "analysis" /\ jobs'[d].state = "ANALYZING"
                /\ jobs'[d].bagged
                /\ jobs'[d].attempt = jobs[d].attempt /\ retries'[d] = retries[d]
           /\ AcceptRetry(w) =>
                /\ jobs'[d].stage = jobs[d].stage
                /\ jobs'[d].state = Running(jobs[d].stage)
                /\ jobs'[d].attempt = jobs[d].attempt + 1
                /\ retries'[d] = retries[d] \cup {jobs[d].stage}
                /\ jobs'[d].bagged = jobs[d].bagged
           /\ AcceptResult(w) =>
                /\ jobs'[d].stage = "done" /\ jobs'[d].state = Status(out[w])
                /\ jobs'[d].attempt = jobs[d].attempt /\ retries'[d] = retries[d]
                /\ jobs'[d].bagged = jobs[d].bagged
<1>1. Holds(w, d)
  BY OwnerHolds DEF AcceptBag, AcceptRetry, AcceptResult, Retryable, Results
<1>2. d \in Docs /\ jobs[d].stage = StageOf(w)
  BY <1>1 DEF Holds
<1>3. jobs \in [Docs -> Row] /\ jobs[d] \in Row /\ retries \in [Docs -> SUBSET Stages]
  BY <1>2 DEF TypeOK
<1>4. HandedOff(d) \in Row /\ Retried(d) \in Row /\ Finished(d) \in Row
  BY <1>2, <1>3, OutcomeRowType
<1>5. /\ HandedOff(d).id = jobs[d].id /\ Retried(d).id = jobs[d].id
      /\ Finished(d).id = jobs[d].id
      /\ HandedOff(d).sequence = jobs[d].sequence /\ Retried(d).sequence = jobs[d].sequence
      /\ Finished(d).sequence = jobs[d].sequence
      /\ HandedOff(d).generation = jobs[d].generation
      /\ Retried(d).generation = jobs[d].generation
      /\ Finished(d).generation = jobs[d].generation
      /\ HandedOff(d).stage = "analysis" /\ Retried(d).stage = jobs[d].stage
      /\ Finished(d).stage = "done"
      /\ HandedOff(d).attempt = jobs[d].attempt /\ Retried(d).attempt = jobs[d].attempt + 1
      /\ Finished(d).attempt = jobs[d].attempt
      /\ HandedOff(d).bagged
      /\ Retried(d).bagged = jobs[d].bagged /\ Finished(d).bagged = jobs[d].bagged
  BY <1>3 DEF HandedOff, Retried, Finished, Accepted, Row
<1>6. CASE AcceptBag(w)
  <2>1. /\ jobs' = [jobs EXCEPT ![d] = Advance(HandedOff(d), "ANALYZING")]
        /\ retries' = retries
        /\ ~AcceptRetry(w) /\ ~AcceptResult(w)
    BY <1>6 DEF AcceptBag, AcceptRetry, AcceptResult, Retryable, Results
  <2>2. jobs'[d] = Advance(HandedOff(d), "ANALYZING") /\ Only(d)
    BY <1>2, <1>3, <2>1 DEF Only
  <2>. QED
    BY <1>1, <1>4, <1>5, <2>1, <2>2, AdvanceTells
<1>7. CASE AcceptRetry(w)
  <2>1. /\ jobs' = [jobs EXCEPT ![d] = Advance(Retried(d), Running(StageOf(w)))]
        /\ retries' = [retries EXCEPT ![d] = retries[d] \cup {StageOf(w)}]
        /\ ~AcceptBag(w) /\ ~AcceptResult(w)
    BY <1>7 DEF AcceptBag, AcceptRetry, AcceptResult, Retryable, Results
  <2>2. /\ jobs'[d] = Advance(Retried(d), Running(StageOf(w)))
        /\ retries'[d] = retries[d] \cup {StageOf(w)} /\ Only(d)
    BY <1>2, <1>3, <2>1 DEF Only
  <2>. QED
    BY <1>1, <1>2, <1>4, <1>5, <2>1, <2>2, AdvanceTells
<1>8. CASE AcceptResult(w)
  <2>1. /\ jobs' = [jobs EXCEPT ![d] = Advance(Finished(d), Status(out[w]))]
        /\ retries' = retries
        /\ ~AcceptBag(w) /\ ~AcceptRetry(w)
    BY <1>8 DEF AcceptBag, AcceptRetry, AcceptResult, Retryable, Results
  <2>2. jobs'[d] = Advance(Finished(d), Status(out[w])) /\ Only(d)
    BY <1>2, <1>3, <2>1 DEF Only
  <2>. QED
    BY <1>1, <1>4, <1>5, <2>1, <2>2, AdvanceTells
<1>. QED
  BY <1>6, <1>7, <1>8

-----------------------------------------------------------------------------
(* What a row says of its job, and what workers may offer for it.          *)

LEMMA InitLife == Init => LifeInvariant
BY DEF Init, NoRow, LifeInvariant, RowsTold, OffersFit, AttemptsMatch

LEMMA RowsToldStep ==
    ASSUME TypeOK, TypeOK', QueueInvariant, LifeInvariant, [Next]_vars
    PROVE  RowsTold'
<1>. DEFINE Told1(d) ==
              /\ jobs[d].id = 0 => jobs[d].sequence = 0 /\ jobs[d].attempt = 0
              /\ jobs[d].generation = 0 =>
                   /\ jobs[d].state = "PENDING" /\ retries[d] = {}
                   /\ jobs[d].id # 0 => jobs[d].stage = FirstStage(d)
              /\ jobs[d].generation # 0 /\ jobs[d].stage # "done" =>
                   jobs[d].state = Running(jobs[d].stage)
<1>. SUFFICES ASSUME NEW e \in Docs
              PROVE  Told1(e)'
  BY DEF RowsTold
<1>0. /\ Told1(e) /\ jobs[e].generation \in Nat
      /\ jobs[e].id = 0 => jobs[e].generation = 0
  BY DEF LifeInvariant, RowsTold, TypeOK, Row, QueueInvariant, RowsCoherent
<1>1. CASE Silent
  <2>1. SilentRow(e)
    BY <1>1 DEF Silent
  <2>. QED
    BY <1>0, <2>1 DEF SilentRow, Columns
<1>2. ASSUME NEW d \in Docs, Only(d), d # e
      PROVE  Told1(e)'
  BY <1>0, <1>2 DEF Only
<1>3. ASSUME NEW d \in Docs, Import(d)
      PROVE  Told1(e)'
  <2>1. CASE d # e
    BY <1>2, <1>3, <2>1, ImportTells
  <2>2. CASE d = e
    <3>1. jobs[e].generation = 0
      BY <1>0, <1>3, <2>2, ImportTells
    <3>. QED
      BY <1>0, <1>3, <2>2, <3>1, ImportTells
  <2>. QED
    BY <2>1, <2>2
<1>4. ASSUME NEW w \in Workers, NEW d \in Docs, FirstClaimed(w, d)
      PROVE  Told1(e)'
  BY <1>0, <1>2, <1>4, FirstClaimTells
<1>5. ASSUME NEW w \in Workers, AcceptBag(w) \/ AcceptRetry(w) \/ AcceptResult(w)
      PROVE  Told1(e)'
  <2>. DEFINE d == lease[w].job
  <2>1. Holds(w, d) /\ Only(d) /\ jobs'[d].id = jobs[d].id
        /\ jobs'[d].generation = jobs[d].generation
    BY <1>5, AcceptTells
  <2>2. CASE d # e
    BY <1>2, <2>1, <2>2 DEF Holds
  <2>3. CASE d = e
    BY <1>5, <2>1, <2>3, AcceptTells DEF Holds, Running
  <2>. QED
    BY <2>2, <2>3
<1>. QED
  BY <1>1, <1>3, <1>4, <1>5, StoryCases

LEMMA OffersFitStep ==
    ASSUME TypeOK, LifeInvariant, [Next]_vars
    PROVE  OffersFit'
<1>. DEFINE Fits(w, o) == o \in {"idle", "calculating", "failed"} \cup Offers(w)
<1>. SUFFICES ASSUME NEW w \in Workers
              PROVE  Fits(w, out'[w])
  BY DEF OffersFit, Offers, StageOf
<1>0. out \in [Workers -> Outputs] /\ Fits(w, out[w])
  BY DEF TypeOK, LifeInvariant, OffersFit
<1>1. ASSUME NEW v \in Workers, NEW o, Fits(v, o), out' = [out EXCEPT ![v] = o]
      PROVE  Fits(w, out'[w])
  BY <1>0, <1>1
<1>2. ASSUME NEW v \in Workers,
             \/ \E d \in Docs : ClaimJob(v, d)
             \/ AcceptBag(v) \/ AcceptRetry(v) \/ AcceptResult(v) \/ Release(v)
             \/ Crash(v) \/ LoseLease(v) \/ Cancel(v)
      PROVE  Fits(w, out'[w])
  <2>1. PICK o \in {"idle", "calculating", "failed"} : out' = [out EXCEPT ![v] = o]
    BY <1>2 DEF ClaimJob, AcceptBag, AcceptRetry, AcceptResult, Release, Crash,
                LoseLease, Cancel, EndLease
  <2>. QED
    BY <1>1, <2>1
<1>3. ASSUME NEW v \in Workers, Calculate(v)
      PROVE  Fits(w, out'[w])
  <2>1. \A o \in Calculations(lease[v].job, StageOf(v)) : Fits(v, o)
    BY DEF Calculations, Offers
  <2>. QED
    BY <1>1, <1>3, <2>1 DEF Calculate
<1>4. out' = out \/ \E v \in Workers :
           \/ \E d \in Docs : ClaimJob(v, d)
           \/ AcceptBag(v) \/ AcceptRetry(v) \/ AcceptResult(v) \/ Release(v)
           \/ Crash(v) \/ LoseLease(v) \/ Cancel(v) \/ Calculate(v)
  BY StepCases
     DEF Import, InjectFailure, Lapse, Stall, Regress, Expire, Flush,
         FlushRead, FlushPublish, FlushAcknowledge, CrashPublisher, vars,
         workers
<1>. QED
  BY <1>0, <1>2, <1>3, <1>4

LEMMA AttemptsMatchStep ==
    ASSUME TypeOK, TypeOK', QueueInvariant, LifeInvariant, [Next]_vars
    PROVE  AttemptsMatch'
<1>. SUFFICES ASSUME NEW w \in Workers, out'[w] # "idle", Current(w)'
              PROVE  lease'[w].attempt = jobs'[lease'[w].job].attempt
  BY DEF AttemptsMatch
<1>1. CASE lease'[w] = lease[w] /\ out[w] # "idle"
  <2>. DEFINE d == lease[w].job
  <2>1. /\ d \in Docs /\ lease[w].generation \in Nat /\ jobs[d].generation \in Nat
        /\ jobs[d].generation \in Nat
        /\ lease[w].generation \in 1..jobs[d].generation
        /\ jobs'[d].token = lease[w].generation
        /\ jobs'[d].stage = StageOf(w)
    BY <1>1, HolderType DEF QueueInvariant, LeasesIssued, Current, Row
  <2>2. SameRow(d) \/ Clocked(d)
    <3>1. jobs'[d].token # 0 /\ jobs'[d].token # jobs[d].generation + 1
      BY <2>1
    <3>2. ~Imported(d) /\ \A v \in Workers : ~Leased(v, d) /\ ~GivenUp(v, d)
      BY <3>1 DEF Imported, Leased, GivenUp
    <3>. QED
      BY <2>1, <3>2, RowCases
  <2>3. Current(w) /\ jobs'[d].attempt = jobs[d].attempt
    BY <2>1, <2>2 DEF SameRow, Clocked, Current
  <2>. QED
    BY <1>1, <2>3 DEF LifeInvariant, AttemptsMatch
<1>2. ASSUME NEW d \in Docs, ClaimJob(w, d),
             lease'[w] = [job |-> d, generation |-> jobs[d].generation + 1,
                          attempt |-> jobs[d].attempt]
      PROVE  lease'[w].attempt = jobs'[lease'[w].job].attempt
  <2>1. jobs'[d].attempt = jobs[d].attempt
    BY <1>2, ClaimLeases DEF Leased
  <2>2. lease'[w].job = d /\ lease'[w].attempt = jobs[d].attempt
    BY <1>2
  <2>. QED
    BY <2>1, <2>2
<1>3. CASE ~(lease'[w] = lease[w] /\ out[w] # "idle")
  <2>1. PICK d \in Docs :
           /\ ClaimJob(w, d)
           /\ lease'[w] = [job |-> d, generation |-> jobs[d].generation + 1,
                           attempt |-> jobs[d].attempt]
    BY <1>3, LeaseCases
  <2>. QED
    BY <1>2, <2>1
<1>. QED
  BY <1>1, <1>3

LEMMA LifeStep ==
    TypeOK /\ TypeOK' /\ QueueInvariant /\ LifeInvariant /\ [Next]_vars => LifeInvariant'
BY RowsToldStep, OffersFitStep, AttemptsMatchStep DEF LifeInvariant

\* Rows and workers say what the lifecycle of their job has come to.
THEOREM LifeCorrect == Spec => []LifeInvariant
<1>. QED
  BY InitLife, LifeStep, TypeCorrect, Invariant, PTL DEF Spec

-----------------------------------------------------------------------------
(* What a step adds to the files of a job.                                 *)

Written == {outbox[n] : n \in DOMAIN outbox}

LEMMA AppendWrites ==
    ASSUME outbox \in Seq(File), NEW f \in File, outbox' = Append(outbox, f)
    PROVE  Written' = Written \cup {f}
<1>1. /\ Len(outbox) \in Nat /\ DOMAIN outbox = 1..Len(outbox)
      /\ DOMAIN outbox' = 1..(Len(outbox) + 1)
      /\ \A n \in 1..Len(outbox) : outbox'[n] = outbox[n]
      /\ outbox'[Len(outbox) + 1] = f
  OBVIOUS
<1>2. Written' \subseteq Written \cup {f}
  BY <1>1 DEF Written
<1>3. Written \subseteq Written' /\ f \in Written'
  BY <1>1 DEF Written
<1>. QED
  BY <1>2, <1>3

LEMMA AddedWrites ==
    ASSUME outbox \in Seq(File), NEW f \in File, NEW g \in File,
           outbox' = Added(f, g)
    PROVE  Written' = Written \cup {f, g}
<1>. DEFINE o == Append(outbox, f)
<1>1. /\ Len(outbox) \in Nat /\ DOMAIN outbox = 1..Len(outbox)
      /\ o \in Seq(File) /\ Len(o) = Len(outbox) + 1
      /\ \A n \in 1..Len(outbox) : o[n] = outbox[n]
      /\ o[Len(outbox) + 1] = f
  OBVIOUS
<1>2. outbox' = Append(o, g)
  BY DEF Added
<1>. HIDE DEF o
<1>3. /\ DOMAIN outbox' = 1..(Len(outbox) + 2)
      /\ \A n \in 1..Len(outbox) : outbox'[n] = outbox[n]
      /\ outbox'[Len(outbox) + 1] = f /\ outbox'[Len(outbox) + 2] = g
  BY <1>1, <1>2
<1>4. Written' \subseteq Written \cup {f, g}
  BY <1>1, <1>3 DEF Written
<1>5. Written \subseteq Written' /\ f \in Written' /\ g \in Written'
  BY <1>1, <1>3 DEF Written
<1>. QED
  BY <1>4, <1>5

\* A step writes the event e about d, and other files S of d.
Writes(d, e, S) ==
    /\ Written' = Written \cup S \cup {e}
    /\ e.kind = "event" /\ e.job = d
    /\ \A f \in S : f.kind # "event" /\ f.job = d

\* The other jobs keep their story; d's gets the event, and the rest of what
\* is written.
LEMMA WritesTell ==
    ASSUME NEW d \in Docs, NEW e, NEW S, Writes(d, e, S)
    PROVE  /\ \A c \in Docs \ {d} : /\ Told(c)' = Told(c)
                                    /\ Concluded(c)' = Concluded(c)
                                    /\ FilesOf(c, "bag")' = FilesOf(c, "bag")
           /\ Told(d)' = Told(d) \cup {[sequence |-> e.sequence, state |-> e.state,
                                        attempt |-> e.attempt]}
           /\ Concluded(d)' = Concluded(d) \cup
                {[attempt |-> f.attempt, result |-> f.state] :
                   f \in {g \in S : g.kind = "result"}}
           /\ FilesOf(d, "bag")' = FilesOf(d, "bag") \cup {f \in S : f.kind = "bag"}
<1>1. \A c, k : FilesOf(c, k) = {f \in Written : f.job = c /\ f.kind = k}
  BY DEF FilesOf, Written
<1>2. \A c, k : FilesOf(c, k)' = {f \in Written' : f.job = c /\ f.kind = k}
  BY DEF FilesOf, Written
<1>3. \A c \in Docs \ {d} : \A k : FilesOf(c, k)' = FilesOf(c, k)
  BY <1>1, <1>2 DEF Writes
<1>4. FilesOf(d, "event")' = FilesOf(d, "event") \cup {e}
  BY <1>1, <1>2 DEF Writes
<1>5. \A k \in {"bag", "result"} :
        FilesOf(d, k)' = FilesOf(d, k) \cup {f \in S : f.kind = k}
  BY <1>1, <1>2 DEF Writes
<1>6. \A c \in Docs \ {d} : /\ Told(c)' = Told(c)
                            /\ Concluded(c)' = Concluded(c)
  BY <1>3 DEF Told, Concluded
<1>7. Told(d)' = Told(d) \cup {[sequence |-> e.sequence, state |-> e.state,
                                attempt |-> e.attempt]}
  BY <1>4 DEF Told
<1>8. Concluded(d)' = Concluded(d) \cup
        {[attempt |-> f.attempt, result |-> f.state] :
           f \in {g \in S : g.kind = "result"}}
  BY <1>5 DEF Concluded
<1>. QED
  BY <1>3, <1>5, <1>6, <1>7, <1>8

-----------------------------------------------------------------------------
(* Each step is one of the lifecycle, or shows nothing.                    *)

Spent(d) == {Running(s) : s \in retries[d]}

LEMMA Tells ==
    ASSUME NEW d \in Docs, NEW e, NEW S, Writes(d, e, S), Only(d),
           jobs'[d].id # 0, jobs'[d].sequence = jobs[d].sequence + 1,
           e.sequence = jobs'[d].sequence, e.state = jobs'[d].state,
           e.attempt = jobs'[d].attempt,
           NEW s, s = jobs'[d].state, NEW a, a = jobs'[d].attempt,
           NEW R, R = {Running(x) : x \in retries'[d]}
    PROVE  Life!Tell(d, s, a, R)
<1>. DEFINE job == [c \in Docs |-> Shown(c)]
            story == [c \in Docs |-> Told(c)]
            new == [state |-> s, attempt |-> a, events |-> job[d].events + 1,
                    retried |-> R]
            line == [sequence |-> job[d].events + 1, state |-> s, attempt |-> a]
<1>1. job[d].events = jobs[d].sequence
  BY DEF Shown
<1>2. Shown(d)' = new
  BY <1>1 DEF Shown
<1>3. \A c \in Docs \ {d} : Shown(c)' = Shown(c)
  BY DEF Only, Shown
<1>4. job' = [job EXCEPT ![d] = new]
  <2>. HIDE DEF new
  <2>. QED
    BY <1>2, <1>3
<1>5. /\ Told(d)' = Told(d) \cup {line}
      /\ \A c \in Docs \ {d} : Told(c)' = Told(c)
  BY <1>1, WritesTell
<1>6. story' = [story EXCEPT ![d] = story[d] \cup {line}]
  <2>. HIDE DEF line
  <2>. QED
    BY <1>5
<1>. QED
  BY <1>4, <1>6 DEF Life!Tell

\* The recordings and results a step does not write stay as they are.
Recorded == {d \in Docs : FilesOf(d, "bag") # {}}
Outcome == [d \in Docs |-> Concluded(d)]

LEMMA Keeps ==
    ASSUME NEW d \in Docs, NEW e, NEW S, Writes(d, e, S)
    PROVE  /\ (\A f \in S : f.kind # "bag") => Recorded' = Recorded
           /\ (\E f \in S : f.kind = "bag") => Recorded' = Recorded \cup {d}
           /\ (\A f \in S : f.kind # "result") => Outcome' = Outcome
           /\ \A r : r.kind = "result" /\ S = {r} =>
                          Outcome' = [Outcome EXCEPT ![d] =
                             Outcome[d] \cup {[attempt |-> r.attempt,
                                               result |-> r.state]}]
<1>1. /\ \A c \in Docs \ {d} : /\ Concluded(c)' = Concluded(c)
                               /\ FilesOf(c, "bag")' = FilesOf(c, "bag")
      /\ FilesOf(d, "bag")' = FilesOf(d, "bag") \cup {f \in S : f.kind = "bag"}
  BY WritesTell
<1>2. Concluded(d)' = Concluded(d) \cup
        {[attempt |-> f.attempt, result |-> f.state] :
           f \in {g \in S : g.kind = "result"}}
  BY WritesTell
<1>3. (\A f \in S : f.kind # "bag") => Recorded' = Recorded
  BY <1>1 DEF Recorded
<1>4. (\E f \in S : f.kind = "bag") => Recorded' = Recorded \cup {d}
  BY <1>1 DEF Recorded
<1>5. (\A f \in S : f.kind # "result") => Outcome' = Outcome
  BY <1>1, <1>2 DEF Outcome
<1>6. ASSUME NEW r, r.kind = "result", S = {r}
      PROVE  Outcome' = [Outcome EXCEPT ![d] =
                Outcome[d] \cup {[attempt |-> r.attempt, result |-> r.state]}]
  <2>1. Concluded(d)' = Concluded(d) \cup {[attempt |-> r.attempt, result |-> r.state]}
    BY <1>2, <1>6
  <2>. QED
    BY <1>1, <2>1 DEF Outcome
<1>. QED
  BY <1>3, <1>4, <1>5, <1>6

\* Files and events of one transaction are about one job.
LEMMA TransactionWrites ==
    ASSUME TypeOK, NEW d \in Docs, NEW row \in Row, NEW a \in Nat, NEW s \in States
    PROVE  /\ outbox' = Append(outbox, Event(d, row, a, s)) =>
                Writes(d, Event(d, row, a, s), {})
           /\ \A kind \in {"job", "bag", "result"}, b \in Nat,
                 r \in States \cup Results \cup {"none"} :
                outbox' = Added(Document(d, kind, b, r), Event(d, row, a, s)) =>
                  Writes(d, Event(d, row, a, s), {Document(d, kind, b, r)})
<1>. DEFINE e == Event(d, row, a, s)
<1>0. outbox \in Seq(File)
  BY DEF TypeOK
<1>1. e \in File /\ e.kind = "event" /\ e.job = d
  <2>1. e \in File
    BY FileType
  <2>. QED
    BY <2>1 DEF Event
<1>. HIDE DEF e
<1>2. ASSUME outbox' = Append(outbox, e)
      PROVE  Writes(d, e, {})
  BY <1>0, <1>1, <1>2, AppendWrites DEF Writes
<1>3. ASSUME NEW kind \in {"job", "bag", "result"}, NEW b \in Nat,
             NEW r \in States \cup Results \cup {"none"},
             outbox' = Added(Document(d, kind, b, r), e)
      PROVE  Writes(d, e, {Document(d, kind, b, r)})
  <2>. DEFINE f == Document(d, kind, b, r)
  <2>1. f \in File /\ f.kind # "event" /\ f.job = d
    <3>1. f \in File
      BY FileType DEF States
    <3>. QED
      BY <3>1 DEF Document
  <2>. HIDE DEF f
  <2>2. Written' = Written \cup {f, e}
    BY <1>0, <1>1, <1>3, <2>1, AddedWrites DEF f
  <2>. QED
    BY <1>1, <2>1, <2>2 DEF Writes, f
<1>. QED
  BY <1>2, <1>3 DEF e

LEMMA ReceiveStep ==
    ASSUME TypeOK, QueueInvariant, LifeInvariant, NEW d \in Docs, Import(d)
    PROVE  Life!Receive(d)
<1>. DEFINE f == Document(d, "job", 0, "none")
            e == Event(d, NewRow(d), 1, "PENDING")
<1>1. /\ jobs[d].id = 0 /\ jobs'[d].id # 0 /\ jobs'[d].state = "PENDING"
      /\ jobs'[d].attempt = 1 /\ jobs'[d].sequence = 1
      /\ Only(d) /\ retries' = retries
  BY ImportTells
<1>2. jobs[d].sequence = 0 /\ jobs[d].generation = 0 /\ retries[d] = {}
  BY <1>1 DEF LifeInvariant, RowsTold, QueueInvariant, RowsCoherent
<1>3. NewRow(d) \in Row /\ NewRow(d).sequence = 0
  BY NewRowType DEF NewRow, NoRow
<1>4. Writes(d, e, {f})
  <2>1. outbox' = Added(f, e)
    BY DEF Import
  <2>. QED
    BY <1>3, <2>1, TransactionWrites DEF States
<1>5. e.sequence = 1 /\ e.state = "PENDING" /\ e.attempt = 1
  BY <1>3 DEF Event
<1>6. f.kind # "bag" /\ f.kind # "result"
  BY DEF Document
<1>. HIDE DEF e, f
<1>7. {Running(x) : x \in retries'[d]} = {}
  BY <1>1, <1>2
<1>8. Life!Tell(d, "PENDING", 1, {})
  BY <1>1, <1>2, <1>4, <1>5, <1>7, Tells
<1>9. Recorded' = Recorded /\ Outcome' = Outcome
  BY <1>4, <1>6, Keeps
<1>10. [c \in Docs |-> Shown(c)][d].state = "none"
  BY <1>1 DEF Shown
<1>. QED
  BY <1>8, <1>9, <1>10 DEF Life!Receive, Recorded, Outcome

LEMMA BeginStep ==
    ASSUME TypeOK, QueueInvariant, LifeInvariant,
           NEW w \in Workers, NEW d \in Docs, FirstClaimed(w, d)
    PROVE  Life!Begin(d)
<1>. DEFINE s == Running(StageOf(w))
            e == Event(d, jobs[d], jobs[d].attempt, s)
<1>0. jobs[d] \in Row /\ jobs[d].attempt \in Nat /\ s \in States
  BY DEF TypeOK, Row, Running, States
<1>1. /\ jobs[d].id # 0 /\ jobs'[d].id # 0 /\ jobs[d].state = "PENDING"
      /\ jobs'[d].state = Running(jobs[d].stage)
      /\ jobs'[d].attempt = jobs[d].attempt
      /\ jobs'[d].sequence = jobs[d].sequence + 1
      /\ Only(d) /\ retries' = retries
  BY FirstClaimTells
<1>2. jobs[d].stage = StageOf(w)
  BY DEF FirstClaimed, ClaimJob, Candidates, Ready
<1>3. jobs[d].generation = 0 /\ jobs[d].stage = FirstStage(d) /\ retries[d] = {}
  <2>1. jobs[d].generation # 0 => jobs[d].state # "PENDING"
    BY <1>2 DEF LifeInvariant, RowsTold, Running, StageOf
  <2>. QED
    BY <1>1, <2>1 DEF LifeInvariant, RowsTold
<1>4. Writes(d, e, {})
  <2>1. outbox' = Append(outbox, e)
    BY DEF FirstClaimed, ClaimJob
  <2>. QED
    BY <1>0, <2>1, TransactionWrites
<1>5. /\ e.sequence = jobs[d].sequence + 1 /\ e.state = s
      /\ e.attempt = jobs[d].attempt
  BY DEF Event
<1>6. jobs'[d].state = s
  BY <1>1, <1>2
<1>7. s = IF d \in {c \in Docs : Job[c].kind = "run"} THEN "RUNNING" ELSE "ANALYZING"
  BY <1>2, <1>3 DEF FirstStage, Running
<1>. HIDE DEF e, s
<1>8. {Running(x) : x \in retries'[d]} = {}
  BY <1>1, <1>3
<1>9. Life!Tell(d, s, jobs[d].attempt, {})
  BY <1>1, <1>4, <1>5, <1>6, <1>8, Tells
<1>10. Recorded' = Recorded /\ Outcome' = Outcome
  BY <1>4, Keeps
<1>11. /\ [c \in Docs |-> Shown(c)][d].state = "PENDING"
       /\ [c \in Docs |-> Shown(c)][d].attempt = jobs[d].attempt
  BY <1>1 DEF Shown
<1>. QED
  BY <1>7, <1>9, <1>10, <1>11 DEF Life!Begin, Life!FirstState, Recorded, Outcome

\* What the lifecycle shows of a job whose stage a worker holds.
LEMMA HeldShown ==
    ASSUME TypeOK, QueueInvariant, LifeInvariant, NEW w \in Workers,
           NEW d, Holds(w, d)
    PROVE  LET row == [c \in Docs |-> Shown(c)][d] IN
           /\ row.state = jobs[d].state /\ row.state = Running(StageOf(w))
           /\ row.attempt = jobs[d].attempt /\ row.attempt = lease[w].attempt
           /\ row.retried = Spent(d)
           /\ row.state \in row.retried <=> StageOf(w) \in retries[d]
           /\ jobs[d] \in Row /\ jobs[d].attempt \in Nat
           /\ out[w] \in {"calculating", "failed"} \cup Offers(w)
<1>1. /\ jobs[d] \in Row /\ jobs[d].attempt \in Nat
      /\ retries[d] \subseteq Stages
  BY DEF TypeOK, Row, Holds
<1>2. jobs[d].state = Running(StageOf(w))
  <2>1. jobs[d].stage # "done"
    BY DEF Holds, StageOf
  <2>. QED
    BY <2>1 DEF Holds, LifeInvariant, RowsTold
<1>3. lease[w].attempt = jobs[d].attempt
  BY DEF Holds, LifeInvariant, AttemptsMatch
<1>4. out[w] \in {"calculating", "failed"} \cup Offers(w)
  BY DEF Holds, LifeInvariant, OffersFit
<1>5. Running(StageOf(w)) \in Spent(d) <=> StageOf(w) \in retries[d]
  BY <1>1 DEF Spent, Running, Stages, StageOf
<1>6. /\ [c \in Docs |-> Shown(c)][d].state = jobs[d].state
      /\ [c \in Docs |-> Shown(c)][d].attempt = jobs[d].attempt
      /\ [c \in Docs |-> Shown(c)][d].retried = Spent(d)
  BY DEF Shown, Spent, Holds
<1>. QED
  BY <1>1, <1>2, <1>3, <1>4, <1>5, <1>6

LEMMA HandOverStep ==
    ASSUME TypeOK, QueueInvariant, LifeInvariant, NEW w \in Workers, AcceptBag(w)
    PROVE  \E d \in Docs : Life!HandOver(d)
<1>. DEFINE d == lease[w].job
            a == lease[w].attempt
            f == Document(d, "bag", a, "none")
            e == Event(d, jobs[d], a, "ANALYZING")
            row == [c \in Docs |-> Shown(c)][d]
<1>1. /\ Holds(w, d) /\ Only(d)
      /\ jobs'[d].id = jobs[d].id /\ jobs'[d].sequence = jobs[d].sequence + 1
      /\ jobs'[d].state = "ANALYZING" /\ jobs'[d].attempt = jobs[d].attempt
      /\ retries'[d] = retries[d]
  BY AcceptTells
<1>2. /\ row.state = Running(StageOf(w)) /\ row.attempt = jobs[d].attempt
      /\ row.attempt = a /\ row.retried = Spent(d)
      /\ jobs[d] \in Row /\ jobs[d].attempt \in Nat
      /\ out[w] \in {"calculating", "failed"} \cup Offers(w)
  BY <1>1, HeldShown
<1>3. StageOf(w) = "simulation"
  BY <1>2, OutcomeAssumption DEF Offers, AcceptBag, StageOf
<1>4. Writes(d, e, {f})
  <2>1. outbox' = Added(f, e)
    BY DEF AcceptBag
  <2>. QED
    BY <1>1, <1>2, <2>1, TransactionWrites DEF States, Holds
<1>5. /\ e.sequence = jobs[d].sequence + 1 /\ e.state = "ANALYZING" /\ e.attempt = a
      /\ f.kind = "bag"
  BY DEF Event, Document
<1>. HIDE DEF e, f, row
<1>6. Spent(d) = {Running(x) : x \in retries'[d]}
  BY <1>1 DEF Spent
<1>7. d \in Docs /\ jobs'[d].id # 0
  BY <1>1 DEF Holds
<1>8. Life!Tell(d, "ANALYZING", a, Spent(d))
  BY <1>1, <1>2, <1>4, <1>5, <1>6, <1>7, Tells
<1>9. Recorded' = Recorded \cup {d} /\ Outcome' = Outcome
  BY <1>4, <1>5, <1>7, Keeps
<1>10. Life!HandOver(d)
  BY <1>2, <1>3, <1>8, <1>9 DEF Life!HandOver, Recorded, Outcome, Running, row
<1>. QED
  BY <1>7, <1>10

LEMMA RetryStep ==
    ASSUME TypeOK, QueueInvariant, LifeInvariant, NEW w \in Workers, AcceptRetry(w)
    PROVE  \E d \in Docs : Life!Retry(d)
<1>. DEFINE d == lease[w].job
            s == Running(StageOf(w))
            a == jobs[d].attempt + 1
            e == Event(d, jobs[d], a, s)
            row == [c \in Docs |-> Shown(c)][d]
<1>1. /\ Holds(w, d) /\ Only(d)
      /\ jobs'[d].id = jobs[d].id /\ jobs'[d].sequence = jobs[d].sequence + 1
      /\ jobs'[d].state = s /\ jobs'[d].attempt = a
      /\ retries'[d] = retries[d] \cup {StageOf(w)}
  BY AcceptTells DEF Holds
<1>2. /\ row.state = s /\ row.attempt = jobs[d].attempt /\ row.retried = Spent(d)
      /\ row.state \in row.retried <=> StageOf(w) \in retries[d]
      /\ jobs[d] \in Row /\ jobs[d].attempt \in Nat
  BY <1>1, HeldShown
<1>3. s \in {"RUNNING", "ANALYZING"} /\ s \in States /\ StageOf(w) \notin retries[d]
  BY DEF Running, States, AcceptRetry, Retryable
<1>4. Writes(d, e, {})
  <2>1. outbox' = Append(outbox, e)
    BY DEF AcceptRetry
  <2>2. a \in Nat /\ d \in Docs
    BY <1>1, <1>2 DEF Holds
  <2>. QED
    BY <1>2, <1>3, <2>1, <2>2, TransactionWrites
<1>5. e.sequence = jobs[d].sequence + 1 /\ e.state = s /\ e.attempt = a
  BY DEF Event
<1>. HIDE DEF e, row
<1>6. Spent(d) \cup {s} = {Running(x) : x \in retries'[d]}
  BY <1>1 DEF Spent
<1>7. d \in Docs /\ jobs'[d].id # 0
  BY <1>1 DEF Holds
<1>. HIDE DEF s, a
<1>8. Life!Tell(d, s, a, Spent(d) \cup {s})
  BY <1>1, <1>4, <1>5, <1>6, <1>7, Tells
<1>9. Recorded' = Recorded /\ Outcome' = Outcome
  BY <1>4, <1>7, Keeps
<1>10. Life!Retry(d)
  BY <1>2, <1>3, <1>8, <1>9 DEF Life!Retry, Recorded, Outcome, row, a
<1>. QED
  BY <1>7, <1>10

LEMMA EndStep ==
    ASSUME TypeOK, QueueInvariant, LifeInvariant, NEW w \in Workers, AcceptResult(w)
    PROVE  \E d \in Docs :
             \E r \in Verdicts \cup RunFailures \cup {"analysis_failure", "worker_failure"} :
               Life!End(d, r)
<1>. DEFINE d == lease[w].job
            a == lease[w].attempt
            r == out[w]
            s == Status(r)
            f == Document(d, "result", a, r)
            e == Event(d, jobs[d], a, s)
            row == [c \in Docs |-> Shown(c)][d]
<1>1. /\ Holds(w, d) /\ Only(d)
      /\ jobs'[d].id = jobs[d].id /\ jobs'[d].sequence = jobs[d].sequence + 1
      /\ jobs'[d].state = s /\ jobs'[d].attempt = jobs[d].attempt
      /\ retries'[d] = retries[d]
  BY AcceptTells
<1>2. /\ row.state = Running(StageOf(w)) /\ row.attempt = jobs[d].attempt
      /\ row.attempt = a /\ row.retried = Spent(d)
      /\ row.state \in row.retried <=> StageOf(w) \in retries[d]
      /\ jobs[d] \in Row /\ jobs[d].attempt \in Nat
      /\ r \in {"calculating", "failed"} \cup Offers(w)
  BY <1>1, HeldShown
<1>3. /\ r \in Results /\ s \in States
      /\ r = "worker_failure" => StageOf(w) \in retries[d]
  BY DEF AcceptResult, Retryable, Results, Status, States, Terminal
<1>4. Writes(d, e, {f})
  <2>1. outbox' = Added(f, e)
    BY DEF AcceptResult
  <2>2. a \in Nat /\ d \in Docs
    BY <1>1, <1>2 DEF Holds
  <2>. QED
    BY <1>2, <1>3, <2>1, <2>2, TransactionWrites
<1>5. /\ e.sequence = jobs[d].sequence + 1 /\ e.state = s /\ e.attempt = a
      /\ f.kind = "result" /\ f.attempt = a /\ f.state = r
  BY DEF Event, Document
<1>. HIDE DEF e, f, row
<1>6. Spent(d) = {Running(x) : x \in retries'[d]}
  BY <1>1 DEF Spent
<1>7. d \in Docs /\ jobs'[d].id # 0
  BY <1>1 DEF Holds
<1>8. r \in Offers(w) \ {"bag"}
  BY <1>2, <1>3 DEF Results
<1>9. s = IF r \in Verdicts THEN r ELSE "ERROR"
  BY <1>8, OutcomeAssumption DEF Status, Terminal, Offers
<1>. HIDE DEF s
<1>10. Life!Tell(d, s, a, Spent(d))
  BY <1>1, <1>2, <1>4, <1>5, <1>6, <1>7, Tells
<1>11. /\ Recorded' = Recorded
       /\ Outcome' = [Outcome EXCEPT ![d] = Outcome[d] \cup {[attempt |-> a, result |-> r]}]
  BY <1>4, <1>5, <1>7, Keeps
<1>12. r \in Life!Endings(d)
  <2>1. CASE r = "worker_failure"
    BY <1>2, <1>3, <2>1 DEF Life!Endings, row
  <2>2. CASE r # "worker_failure"
    BY <1>2, <1>8, <2>2 DEF Life!Endings, row, Offers, Running
  <2>. QED
    BY <2>1, <2>2
<1>13. Life!End(d, r)
  BY <1>2, <1>9, <1>10, <1>11, <1>12 DEF Life!End, Recorded, Outcome, row
<1>14. r \in Verdicts \cup RunFailures \cup {"analysis_failure", "worker_failure"}
  BY <1>8 DEF Offers
<1>. QED
  BY <1>7, <1>13, <1>14

LEMMA SilentStep ==
    ASSUME Silent
    PROVE  UNCHANGED Life!vars
<1>1. \A d \in Docs : Shown(d)' = Shown(d)
  BY DEF Silent, SilentRow, Columns, Shown
<1>2. \A d, k : FilesOf(d, k)' = FilesOf(d, k)
  BY DEF Silent, FilesOf
<1>3. \A d : Told(d)' = Told(d) /\ Concluded(d)' = Concluded(d)
  BY <1>2 DEF Told, Concluded
<1>. QED
  BY <1>1, <1>2, <1>3 DEF Life!vars

\* The tables and files of the queue, whatever happens to its workers and
\* publishers, are those of jobs that follow the lifecycle of docs/workers.md.
THEOREM FollowsLifecycleCorrect == Spec => FollowsLifecycle
<1>1. Init => Life!Init
  <2>. SUFFICES ASSUME Init
                PROVE  Life!Init
    OBVIOUS
  <2>1. \A d, k : FilesOf(d, k) = {}
    BY DEF Init, FilesOf
  <2>2. \A d : Told(d) = {} /\ Concluded(d) = {}
    BY <2>1 DEF Told, Concluded
  <2>3. \A d \in Docs : Shown(d) = [state |-> "none", attempt |-> 0,
                                    events |-> 0, retried |-> {}]
    BY DEF Init, Shown, NoRow
  <2>. QED
    BY <2>1, <2>2, <2>3 DEF Life!Init, Life!Unknown
<1>2. TypeOK /\ QueueInvariant /\ LifeInvariant /\ [Next]_vars =>
        [Life!Next]_(Life!vars)
  <2>. SUFFICES ASSUME TypeOK, QueueInvariant, LifeInvariant, [Next]_vars
                PROVE  [Life!Next]_(Life!vars)
    OBVIOUS
  <2>1. Silent => UNCHANGED Life!vars
    BY SilentStep
  <2>2. ASSUME NEW d \in Docs, Import(d) \/ \E w \in Workers : FirstClaimed(w, d)
        PROVE  Life!Next
    BY <2>2, ReceiveStep, BeginStep DEF Life!Next
  <2>3. ASSUME NEW w \in Workers, AcceptBag(w) \/ AcceptRetry(w) \/ AcceptResult(w)
        PROVE  Life!Next
    BY <2>3, HandOverStep, RetryStep, EndStep DEF Life!Next
  <2>. QED
    BY <2>1, <2>2, <2>3, StoryCases
<1>. QED
  BY <1>1, <1>2, TypeCorrect, Invariant, LifeCorrect, PTL
     DEF Spec, FollowsLifecycle, Life!Spec

-----------------------------------------------------------------------------
(* Why the oldest file can always be published.                            *)

\* The rows a transaction adds.
LEMMA AppendedRows ==
    ASSUME outbox \in Seq(File), NEW f \in File, outbox' = Append(outbox, f)
    PROVE  /\ Len(outbox) \in Nat /\ DOMAIN outbox = 1..Len(outbox)
           /\ DOMAIN outbox' = 1..(Len(outbox) + 1)
           /\ outbox'[Len(outbox) + 1] = f
OBVIOUS

LEMMA AddedRows ==
    ASSUME outbox \in Seq(File), NEW f \in File, NEW g \in File,
           outbox' = Added(f, g)
    PROVE  /\ Len(outbox) \in Nat /\ DOMAIN outbox = 1..Len(outbox)
           /\ DOMAIN outbox' = 1..(Len(outbox) + 2)
           /\ outbox'[Len(outbox) + 1] = f /\ outbox'[Len(outbox) + 2] = g
<1>. DEFINE o == Append(outbox, f)
<1>1. /\ Len(outbox) \in Nat /\ DOMAIN outbox = 1..Len(outbox)
      /\ o \in Seq(File) /\ Len(o) = Len(outbox) + 1
      /\ o[Len(outbox) + 1] = f
  OBVIOUS
<1>2. outbox' = Append(o, g)
  BY DEF Added
<1>. HIDE DEF o
<1>. QED
  BY <1>1, <1>2

LEMMA OldReferences ==
    ASSUME TypeOK, TypeOK', QueueInvariant, ReferencesFiled, [Next]_vars,
           NEW n \in DOMAIN outbox
    PROVE  ReferenceFiled(n)'
<1>0. PICK f \in File : f = outbox[n]
  BY DEF TypeOK
<1>1. /\ f.job \in Docs /\ n \in Nat /\ DOMAIN outbox = 1..Len(outbox)
      /\ Len(outbox) \in Nat
  BY DEF TypeOK, File
<1>2. \A m \in 1..n : outbox'[m] = outbox[m]
  BY <1>1, FilesGrow
<1>3. ASSUME NEW d \in Docs
      PROVE  /\ BagOnDisk(d) => BagOnDisk(d)'
             /\ OnDisk("job", d) => OnDisk("job", d)'
             /\ jobs[d].stage = "done" => jobs'[d] = jobs[d]
  BY DiskGrows, DoneStep
<1>4. ReferenceFiled(n)
  BY DEF ReferencesFiled
<1>5. outbox'[n] = f
  BY <1>0, <1>1, <1>2
<1>6. f.kind = "event" /\ f.state \in Terminal =>
        \E m \in 1..(n - 1) : /\ outbox'[m].kind = "result"
                              /\ outbox'[m].job = f.job
                              /\ outbox'[m].attempt = f.attempt
                              /\ Status(outbox'[m].state) = f.state
  BY <1>0, <1>1, <1>2, <1>4 DEF ReferenceFiled
<1>. QED
  BY <1>0, <1>1, <1>3, <1>4, <1>5, <1>6 DEF ReferenceFiled

LEMMA NewReferences ==
    ASSUME TypeOK, TypeOK', QueueInvariant, [Next]_vars,
           NEW n \in DOMAIN outbox' \ DOMAIN outbox
    PROVE  ReferenceFiled(n)'
<1>0. outbox \in Seq(File) /\ outbox' \in Seq(File)
  BY DEF TypeOK
<1>. DEFINE Plain(f) == /\ f.kind # "job" \/ Job[f.job].kind # "analysis"
                        /\ f.kind # "result"
                        /\ f.kind # "event" \/ f.state \notin Terminal
<1>1. ASSUME Plain(outbox'[n])
      PROVE  ReferenceFiled(n)'
  BY <1>1 DEF ReferenceFiled
<1>2. ASSUME NEW d \in Docs, Import(d)
      PROVE  ReferenceFiled(n)'
  <2>. DEFINE f == Document(d, "job", 0, "none")
              e == Event(d, NewRow(d), 1, "PENDING")
  <2>1. f \in File /\ e \in File
    BY NewRowType, FileType DEF States
  <2>2. outbox' = Added(f, e) /\ disk' = disk
    BY <1>2 DEF Import
  <2>3. f.kind = "job" /\ f.job = d /\ Plain(e)
    BY DEF Document, Event, Terminal
  <2>. HIDE DEF f, e
  <2>4. (n = Len(outbox) + 1 /\ outbox'[n] = f) \/ outbox'[n] = e
    BY <1>0, <2>1, <2>2, AddedRows
  <2>5. Job[d].kind = "analysis" => BagOnDisk(d)'
    BY <1>2, DiskGrows DEF Import
  <2>. QED
    BY <1>1, <2>3, <2>4, <2>5 DEF ReferenceFiled
<1>3. ASSUME NEW w \in Workers, NEW d \in Docs, ClaimJob(w, d)
      PROVE  ReferenceFiled(n)'
  <2>. DEFINE e == Event(d, jobs[d], jobs[d].attempt, Running(StageOf(w)))
  <2>1. e \in File /\ Plain(e)
    <3>1. /\ jobs[d] \in Row /\ jobs[d].attempt \in Nat
          /\ Running(StageOf(w)) \in States \ Terminal
      BY DEF TypeOK, Row, Running, States, Terminal
    <3>2. e.kind = "event" /\ e.state = Running(StageOf(w))
      BY DEF Event
    <3>. QED
      BY <3>1, <3>2, FileType
  <2>2. outbox' = Append(outbox, e) \/ outbox' = outbox
    BY <1>3 DEF ClaimJob
  <2>. HIDE DEF e
  <2>3. outbox'[n] = e
    BY <1>0, <2>1, <2>2, AppendedRows
  <2>. QED
    BY <1>1, <2>1, <2>3
<1>4. ASSUME NEW w \in Workers, AcceptBag(w)
      PROVE  ReferenceFiled(n)'
  <2>. DEFINE d == lease[w].job
              a == lease[w].attempt
              f == Document(d, "bag", a, "none")
              e == Event(d, jobs[d], a, "ANALYZING")
  <2>0. d \in Docs /\ a \in Nat /\ jobs[d] \in Row
    BY <1>4, HolderType DEF AcceptBag
  <2>1. f \in File /\ e \in File
    BY <2>0, FileType DEF States
  <2>2. outbox' = Added(f, e)
    BY <1>4 DEF AcceptBag
  <2>3. Plain(f) /\ Plain(e)
    BY DEF Document, Event, Terminal
  <2>. HIDE DEF f, e
  <2>4. outbox'[n] = f \/ outbox'[n] = e
    BY <1>0, <2>1, <2>2, AddedRows
  <2>. QED
    BY <1>1, <2>3, <2>4
<1>5. ASSUME NEW w \in Workers, AcceptRetry(w)
      PROVE  ReferenceFiled(n)'
  <2>. DEFINE d == lease[w].job
              e == Event(d, jobs[d], jobs[d].attempt + 1, Running(StageOf(w)))
  <2>0. d \in Docs /\ jobs[d].attempt + 1 \in Nat /\ jobs[d] \in Row
    BY <1>5, HolderType DEF AcceptRetry, Retryable
  <2>1. e \in File /\ Plain(e)
    <3>1. Running(StageOf(w)) \in States \ Terminal
      BY DEF Running, States, Terminal
    <3>2. e.kind = "event" /\ e.state = Running(StageOf(w))
      BY DEF Event
    <3>. QED
      BY <2>0, <3>1, <3>2, FileType
  <2>2. outbox' = Append(outbox, e)
    BY <1>5 DEF AcceptRetry
  <2>. HIDE DEF e
  <2>3. outbox'[n] = e
    BY <1>0, <2>1, <2>2, AppendedRows
  <2>. QED
    BY <1>1, <2>1, <2>3
<1>6. ASSUME NEW w \in Workers, AcceptResult(w)
      PROVE  ReferenceFiled(n)'
  <2>a. PICK d \in Docs, a \in Nat : d = lease[w].job /\ a = lease[w].attempt
    BY <1>6, HolderType DEF AcceptResult, Results
  <2>. DEFINE s == Status(out[w])
              f == Document(d, "result", a, out[w])
              e == Event(d, jobs[d], a, s)
  <2>0. jobs[d] \in Row /\ s \in States /\ out[w] \in Results
    BY <1>6 DEF TypeOK, AcceptResult, Results, Status, States, Terminal
  <2>1. f \in File /\ e \in File
    BY <2>0, FileType
  <2>2. outbox' = Added(f, e)
    BY <1>6, <2>a DEF AcceptResult
  <2>3. /\ f.kind = "result" /\ f.job = d /\ f.attempt = a /\ f.state = out[w]
        /\ e.kind = "event" /\ e.job = d /\ e.attempt = a /\ e.state = s
    BY DEF Document, Event
  <2>4. jobs'[d].stage = "done" /\ jobs'[d].bagged = jobs[d].bagged
    <3>1. jobs'[d] = Advance(Finished(d), s)
      BY <1>6, <2>a DEF AcceptResult, TypeOK
    <3>2. Finished(d) \in Row /\ Finished(d).stage = "done"
          /\ Finished(d).bagged = jobs[d].bagged
      BY <2>0, OutcomeRowType DEF Finished, Accepted, Row
    <3>. QED
      BY <3>1, <3>2 DEF Advance, Row
  <2>5. OnDisk("job", d)' /\ (jobs[d].bagged => BagOnDisk(d)')
    <3>1. References(f)
      BY <1>6, <2>a DEF AcceptResult, Validated
    <3>. HIDE DEF f
    <3>2. OnDisk("job", d) /\ (jobs[d].bagged => BagOnDisk(d))
      BY <2>3, <3>1 DEF References
    <3>. QED
      BY <3>2, DiskGrows
  <2>. HIDE DEF f, e
  <2>6. /\ Len(outbox) \in Nat
        /\ outbox'[Len(outbox) + 1] = f
        /\ \/ n = Len(outbox) + 1
           \/ n = Len(outbox) + 2 /\ outbox'[n] = e
    BY <1>0, <2>1, <2>2, AddedRows
  <2>7. CASE n = Len(outbox) + 1
    BY <2>3, <2>4, <2>5, <2>6, <2>7 DEF ReferenceFiled
  <2>8. CASE n = Len(outbox) + 2 /\ outbox'[n] = e
    <3>1. Len(outbox) + 1 \in 1..(n - 1)
      BY <2>6, <2>8
    <3>2. Status(f.state) = s
      BY <2>3
    <3>. HIDE DEF s
    <3>. QED
      BY <2>3, <2>6, <2>8, <3>1, <3>2 DEF ReferenceFiled
  <2>. QED
    BY <2>6, <2>7, <2>8
<1>7. outbox' = outbox => ReferenceFiled(n)'
  OBVIOUS
<1>. QED
  BY <1>2, <1>3, <1>4, <1>5, <1>6, <1>7, StepCases
     DEF InjectFailure, Lapse, Stall, Regress, Expire, Release, Crash,
         Calculate, LoseLease, Cancel, Flush, FlushRead, FlushPublish,
         FlushAcknowledge, CrashPublisher, vars, tables

\* No file is filed before what it refers to.
THEOREM ReferencesFiledCorrect == Spec => []ReferencesFiled
<1>1. Init => ReferencesFiled
  BY DEF Init, ReferencesFiled
<1>2. TypeOK /\ TypeOK' /\ QueueInvariant /\ ReferencesFiled /\ [Next]_vars
        => ReferencesFiled'
  BY OldReferences, NewReferences DEF ReferencesFiled
<1>. QED
  BY <1>1, <1>2, TypeCorrect, Invariant, PTL DEF Spec

\* No interleaving of intake, workers and publishers leaves a file at the head
\* of the outbox that publication.Document would refuse.
THEOREM HeadPublishableCorrect == Spec => []HeadPublishable
<1>1. TypeOK /\ QueueInvariant /\ ReferencesFiled => HeadPublishable
  <2>. SUFFICES ASSUME TypeOK, QueueInvariant, ReferencesFiled,
                       NEW n \in Oldest(Pending)
                PROVE  References(outbox[n])
    BY DEF HeadPublishable
  <2>1. /\ n \in DOMAIN outbox /\ DOMAIN outbox = 1..Len(outbox)
        /\ Len(outbox) \in Nat
    BY DEF Oldest, Pending, TypeOK
  <2>2. \A m \in 1..(n - 1) : m \in delivered
    BY <2>1 DEF Oldest, Pending
  <2>3. \A m \in 1..(n - 1) : m \in disk
    BY <2>2 DEF QueueInvariant, InsertionOrder
  <2>4. ReferenceFiled(n)
    BY <2>1 DEF ReferencesFiled
  <2>. QED
    BY <2>3, <2>4 DEF References, ReferenceFiled
<1>. QED
  BY <1>1, TypeCorrect, Invariant, ReferencesFiledCorrect, PTL

-----------------------------------------------------------------------------
(* Why every armed failure happens.                                        *)

\* A stage is retried once or never.
LEMMA SpentOnce ==
    ASSUME NEW R, NEW s
    PROVE  Cardinality(R \cap {s}) = IF s \in R THEN 1 ELSE 0
<1>1. CASE s \in R
  <2>1. R \cap {s} = {s}
    BY <1>1
  <2>. QED
    BY <1>1, <2>1, FS_Singleton
<1>2. CASE s \notin R
  <2>1. R \cap {s} = {}
    BY <1>2
  <2>. QED
    BY <1>2, <2>1, FS_EmptySet
<1>. QED
  BY <1>1, <1>2

\* Retries are only added, and failures are armed only before the first claim.
LEMMA FaultsKept ==
    ASSUME TypeOK, [Next]_vars, NEW d \in Docs
    PROVE  /\ retries[d] \subseteq retries'[d]
           /\ jobs[d].generation # 0 => faults'[d] = faults[d]
<1>1. ASSUME NEW w \in Workers, AcceptRetry(w)
      PROVE  retries[d] \subseteq retries'[d] /\ faults' = faults
  BY <1>1 DEF AcceptRetry, TypeOK
<1>2. ASSUME NEW e \in Docs, NEW s \in Stages, NEW n \in Failures,
             InjectFailure(e, s, n)
      PROVE  /\ retries' = retries
             /\ jobs[d].generation # 0 => faults'[d] = faults[d]
  BY <1>2 DEF InjectFailure, Unclaimed, TypeOK
<1>. QED
  BY <1>1, <1>2, StepCases
     DEF Import, Lapse, Stall, Regress, Expire, ClaimJob, AcceptBag,
         AcceptResult, Release, Crash, Calculate, LoseLease, Cancel, Flush,
         FlushRead, FlushPublish, FlushAcknowledge, CrashPublisher, vars, tables

\* A worker that still holds its stage after a step held it before.
LEMMA StillCurrent ==
    ASSUME TypeOK, TypeOK', QueueInvariant, [Next]_vars, NEW w \in Workers,
           out[w] # "idle", lease'[w] = lease[w], Current(w)'
    PROVE  Current(w) /\ jobs[lease[w].job].generation # 0 /\ lease[w].job \in Docs
<1>1. PICK d \in Docs : d = lease[w].job
  BY HolderType
<1>2. /\ lease[w].generation \in Nat /\ jobs[d].generation \in Nat
      /\ lease[w].generation \in 1..jobs[d].generation
      /\ jobs'[d].token = lease[w].generation
      /\ jobs'[d].stage = StageOf(w)
  BY <1>1, HolderType DEF QueueInvariant, LeasesIssued, Current, Row
<1>3. SameRow(d) \/ Clocked(d)
  <2>1. jobs'[d].token # 0 /\ jobs'[d].token # jobs[d].generation + 1
    BY <1>2
  <2>2. ~Imported(d) /\ \A v \in Workers : ~Leased(v, d) /\ ~GivenUp(v, d)
    BY <2>1 DEF Imported, Leased, GivenUp
  <2>. QED
    BY <2>2, RowCases
<1>. QED
  BY <1>1, <1>2, <1>3 DEF SameRow, Clocked, Current

\* An output comes out of the calculation of the lease it is offered under.
LEMMA OutputCases ==
    ASSUME TypeOK, [Next]_vars, NEW w \in Workers,
           out'[w] \notin {"idle", "calculating", "failed", "worker_failure"}
    PROVE  /\ out[w] # "idle" /\ lease'[w] = lease[w]
           /\ \/ out'[w] = out[w]
              \/ /\ ~Injected(lease[w].job, StageOf(w))
                 /\ UNCHANGED <<retries, faults, jobs>>
<1>. DEFINE Same == out'[w] = out[w] /\ lease'[w] = lease[w]
<1>0. out \in [Workers -> Outputs] /\ lease \in [Workers -> Lease \cup {NoLease}]
  BY DEF TypeOK
<1>1. ASSUME NEW v \in Workers, NEW d \in Docs, ClaimJob(v, d)
      PROVE  Same
  BY <1>0, <1>1 DEF ClaimJob
<1>2. ASSUME NEW v \in Workers,
             AcceptBag(v) \/ AcceptRetry(v) \/ AcceptResult(v) \/ Release(v)
             \/ Crash(v)
      PROVE  Same
  <2>1. EndLease(v)
    BY <1>2 DEF AcceptBag, AcceptRetry, AcceptResult, Release, Crash
  <2>. QED
    BY <1>0, <2>1 DEF EndLease
<1>3. ASSUME NEW v \in Workers, Calculate(v)
      PROVE  \/ Same
             \/ /\ out[w] # "idle" /\ lease'[w] = lease[w]
                /\ ~Injected(lease[w].job, StageOf(w))
                /\ UNCHANGED <<retries, faults, jobs>>
  <2>1. PICK o \in Calculations(lease[v].job, StageOf(v)) : out' = [out EXCEPT ![v] = o]
    BY <1>3 DEF Calculate
  <2>2. UNCHANGED <<retries, faults, jobs, lease>> /\ out[v] = "calculating"
    BY <1>3 DEF Calculate, tables
  <2>3. CASE v = w
    <3>1. o # "worker_failure"
      BY <1>0, <2>1, <2>3
    <3>2. ~Injected(lease[w].job, StageOf(w))
      BY <2>1, <2>3, <3>1 DEF Calculations
    <3>. QED
      BY <2>2, <2>3, <3>2
  <2>4. CASE v # w
    BY <1>0, <2>1, <2>2, <2>4
  <2>. QED
    BY <2>3, <2>4
<1>4. ASSUME NEW v \in Workers, LoseLease(v) \/ Cancel(v)
      PROVE  Same
  BY <1>0, <1>4 DEF LoseLease, Cancel
<1>5. UNCHANGED workers => Same
  BY DEF workers
<1>6. \/ Same
      \/ /\ out[w] # "idle" /\ lease'[w] = lease[w]
         /\ ~Injected(lease[w].job, StageOf(w))
         /\ UNCHANGED <<retries, faults, jobs>>
  BY <1>1, <1>2, <1>3, <1>4, <1>5, StepCases
     DEF Import, InjectFailure, Lapse, Stall, Regress, Expire, Flush,
         FlushRead, FlushPublish, FlushAcknowledge, CrashPublisher, vars,
         workers
<1>. QED
  BY <1>6

LEMMA FaultsSpentStep ==
    ASSUME TypeOK, TypeOK', QueueInvariant, FaultsSpent, [Next]_vars
    PROVE  FaultsSpent'
<1>1. ASSUME NEW w \in Workers, Current(w)',
             out'[w] \notin {"idle", "calculating", "failed", "worker_failure"}
      PROVE  ~Injected(lease[w].job, StageOf(w))'
  <2>1. /\ out[w] # "idle" /\ lease'[w] = lease[w]
        /\ \/ out'[w] = out[w]
           \/ /\ ~Injected(lease[w].job, StageOf(w))
              /\ UNCHANGED <<retries, faults, jobs>>
    BY <1>1, OutputCases
  <2>2. PICK d \in Docs : d = lease[w].job
    BY <2>1, HolderType
  <2>3. Current(w) /\ jobs[d].generation # 0
    BY <1>1, <2>1, <2>2, StillCurrent
  <2>4. ~Injected(d, StageOf(w))
    BY <1>1, <2>1, <2>2, <2>3 DEF FaultsSpent
  <2>5. retries[d] \subseteq retries'[d] /\ faults'[d] = faults[d]
    BY <2>3, FaultsKept
  <2>6. StageOf(w) \in Stages /\ faults[d][StageOf(w)] \in Nat
    <3>1. StageOf(w) \in Stages
      BY DEF StageOf, Stages
    <3>2. faults[d] \in [Stages -> 0..2]
      BY DEF TypeOK
    <3>. QED
      BY <3>1, <3>2
  <2>7. ~Injected(d, StageOf(w))'
    <3>1. ~(faults'[d][StageOf(w)] > IF StageOf(w) \in retries'[d] THEN 1 ELSE 0)
      BY <2>4, <2>5, <2>6, SpentOnce DEF Injected
    <3>. QED
      BY <3>1, SpentOnce DEF Injected
  <2>. QED
    BY <2>1, <2>2, <2>7
<1>2. ASSUME NEW e \in Docs, jobs'[e].id # 0, jobs'[e].stage = "simulation"
      PROVE  Job[e].kind = "run" /\ ~jobs'[e].bagged
  <2>0. jobs[e].id # 0 /\ jobs[e].stage = "simulation" =>
          Job[e].kind = "run" /\ ~jobs[e].bagged
    BY DEF FaultsSpent, Rows
  <2>. SUFFICES \/ jobs'[e] = jobs[e]
                \/ /\ jobs'[e].id = jobs[e].id /\ jobs'[e].stage = jobs[e].stage
                   /\ jobs'[e].bagged = jobs[e].bagged
                \/ Job[e].kind = "run" /\ ~jobs'[e].bagged
    BY <1>2, <2>0
  <2>1. Silent => /\ jobs'[e].id = jobs[e].id /\ jobs'[e].stage = jobs[e].stage
                  /\ jobs'[e].bagged = jobs[e].bagged
    BY DEF Silent, SilentRow, Columns
  <2>2. ASSUME NEW d \in Docs, Only(d), d # e
        PROVE  jobs'[e] = jobs[e]
    BY <2>2 DEF Only
  <2>3. ASSUME NEW d \in Docs, Import(d)
        PROVE  jobs'[e] = jobs[e] \/ (Job[e].kind = "run" /\ ~jobs'[e].bagged)
    <3>1. CASE d = e
      BY <1>2, <2>3, <3>1, ImportTells, JobAssumption DEF FirstStage
    <3>. QED
      BY <2>2, <2>3, <3>1, ImportTells
  <2>4. ASSUME NEW w \in Workers, NEW d \in Docs, FirstClaimed(w, d)
        PROVE  \/ jobs'[e] = jobs[e]
               \/ /\ jobs'[e].id = jobs[e].id /\ jobs'[e].stage = jobs[e].stage
                  /\ jobs'[e].bagged = jobs[e].bagged
    BY <2>2, <2>4, FirstClaimTells
  <2>5. ASSUME NEW w \in Workers, AcceptBag(w) \/ AcceptRetry(w) \/ AcceptResult(w)
        PROVE  \/ jobs'[e] = jobs[e]
               \/ /\ jobs'[e].id = jobs[e].id /\ jobs'[e].stage = jobs[e].stage
                  /\ jobs'[e].bagged = jobs[e].bagged
    <3>1. PICK d \in Docs : d = lease[w].job
      BY <2>5, AcceptTells DEF Holds
    <3>2. CASE d = e
      BY <1>2, <2>5, <3>1, <3>2, AcceptTells
    <3>. QED
      BY <2>2, <2>5, <3>1, <3>2, AcceptTells
  <2>. QED
    BY <2>1, <2>3, <2>4, <2>5, StoryCases
<1>3. \A w \in Workers : /\ Current(w)'
                         /\ out'[w] \notin {"idle", "calculating", "failed", "worker_failure"}
                         => ~Injected(lease[w].job, StageOf(w))'
  BY <1>1
<1>. QED
  BY <1>2, <1>3 DEF FaultsSpent, Rows

\* The part of FaultsHappen about one job and stage.
Happened(d, s) ==
    faults[d][s] > 0 /\ Left(d, s) =>
      /\ s \in retries[d]
      /\ faults[d][s] = 2 =>
           /\ jobs[d].stage = "done"
           /\ \A f \in FilesOf(d, "result") : f.state = "worker_failure"

\* Whoever has already left the stage keeps what was said of it.
LEMMA HappenedStays ==
    ASSUME TypeOK, TypeOK', QueueInvariant, LifeInvariant, [Next]_vars,
           NEW d \in Docs, NEW s \in Stages, jobs[d].id # 0,
           Left(d, s), Happened(d, s)
    PROVE  Happened(d, s)'
<1>1. jobs[d].generation # 0
  BY DEF LifeInvariant, RowsTold, Left, FirstStage, Stages, QueueInvariant, RowsCoherent
<1>2. retries[d] \subseteq retries'[d] /\ faults'[d] = faults[d]
  BY <1>1, FaultsKept
<1>3. CASE jobs[d].stage = "done"
  <2>1. jobs'[d] = jobs[d] /\ \A n \in DOMAIN outbox' \ DOMAIN outbox : outbox'[n].job # d
    BY <1>3, DoneStep
  <2>2. FilesOf(d, "result")' \subseteq FilesOf(d, "result")
    BY <2>1, FilesGrow DEF FilesOf
  <2>. QED
    BY <1>2, <1>3, <2>1, <2>2 DEF Happened
<1>4. CASE jobs[d].stage # "done"
  <2>1. faults[d][s] > 0 => s \in retries[d] /\ faults[d][s] # 2
    BY <1>4 DEF Happened
  <2>. QED
    BY <1>2, <2>1 DEF Happened
<1>. QED
  BY <1>3, <1>4

\* A held stage whose output is not a worker failure has used up its faults.
LEMMA Exhausted ==
    ASSUME TypeOK, FaultsSpent, NEW w \in Workers, NEW d, Holds(w, d),
           out[w] \notin {"idle", "calculating", "failed", "worker_failure"}
    PROVE  /\ faults[d][StageOf(w)] # 2
           /\ faults[d][StageOf(w)] > 0 => StageOf(w) \in retries[d]
<1>1. ~Injected(d, StageOf(w))
  BY DEF FaultsSpent, Holds
<1>2. StageOf(w) \in Stages
  BY DEF StageOf, Stages
<1>3. faults[d] \in [Stages -> 0..2]
  BY DEF TypeOK, Holds
<1>. QED
  BY <1>1, <1>2, <1>3, SpentOnce DEF Injected

LEMMA NewlyLeft ==
    ASSUME TypeOK, TypeOK', QueueInvariant, LifeInvariant, ReferencesFiled,
           FaultsSpent, [Next]_vars,
           NEW d \in Docs, NEW s \in Stages, jobs'[d].id # 0,
           ~(jobs[d].id # 0 /\ Left(d, s)), Left(d, s)'
    PROVE  Happened(d, s)'
<1>0. /\ Left(d, s) <=> IF s = "analysis"
                        THEN jobs[d].bagged /\ jobs[d].stage = "done"
                        ELSE Job[d].kind = "run" /\ jobs[d].stage # "simulation"
      /\ Left(d, s)' <=> IF s = "analysis"
                         THEN jobs'[d].bagged /\ jobs'[d].stage = "done"
                         ELSE Job[d].kind = "run" /\ jobs'[d].stage # "simulation"
  BY DEF Left
<1>1. ~(/\ jobs'[d].id = jobs[d].id /\ jobs'[d].stage = jobs[d].stage
        /\ jobs'[d].bagged = jobs[d].bagged)
  BY <1>0
<1>2. ~Silent /\ \A e \in Docs : Only(e) => e = d
  BY <1>1 DEF Silent, SilentRow, Columns, Only
<1>3. ~Import(d)
  BY <1>0, ImportTells DEF FirstStage, Stages
<1>4. \A w \in Workers, e \in Docs : ~FirstClaimed(w, e)
  BY <1>1, <1>2, FirstClaimTells
<1>5. PICK w \in Workers : /\ AcceptBag(w) \/ AcceptRetry(w) \/ AcceptResult(w)
                           /\ lease[w].job = d
  <2>1. \A e \in Docs : ~Import(e)
    BY <1>2, <1>3, ImportTells
  <2>. QED
    BY <1>2, <1>4, <2>1, StoryCases, AcceptTells DEF Holds
<1>6. /\ Holds(w, d) /\ jobs[d].stage = StageOf(w) /\ jobs[d].generation # 0
      /\ jobs[d].id # 0
  BY <1>5, AcceptTells DEF Holds
<1>7. retries[d] \subseteq retries'[d] /\ faults'[d] = faults[d]
  BY <1>6, FaultsKept
<1>8. ~AcceptRetry(w)
  BY <1>1, <1>5, AcceptTells
<1>9. CASE AcceptBag(w)
  <2>1. jobs'[d].stage = "analysis" /\ out[w] = "bag"
    <3>1. out[w] = "bag"
      BY <1>9 DEF AcceptBag
    <3>2. jobs'[d].stage = "analysis"
      BY <1>5, <1>9, AcceptTells
    <3>. QED
      BY <3>1, <3>2
  <2>2. s = "simulation" /\ StageOf(w) = "simulation"
    BY <1>0, <1>6, <2>1 DEF Stages, StageOf
  <2>. QED
    BY <1>6, <1>7, <2>1, <2>2, Exhausted DEF Happened
<1>10. CASE AcceptResult(w)
  <2>1. /\ jobs'[d].stage = "done" /\ jobs'[d].bagged = jobs[d].bagged
        /\ out[w] \in Results /\ ~Retryable(w)
    <3>1. out[w] \in Results /\ ~Retryable(w)
      BY <1>10 DEF AcceptResult
    <3>2. jobs'[d].stage = "done" /\ jobs'[d].bagged = jobs[d].bagged
      BY <1>5, <1>10, AcceptTells
    <3>. QED
      BY <3>1, <3>2
  <2>2. s = StageOf(w)
    BY <1>0, <1>6, <2>1 DEF FaultsSpent, Rows, Stages, StageOf
  <2>3. CASE out[w] = "worker_failure"
    <3>1. s \in retries'[d]
      BY <1>5, <1>7, <2>1, <2>2, <2>3 DEF Retryable
    <3>2. \A f \in FilesOf(d, "result")' : f.state = "worker_failure"
      <4>. DEFINE r == Document(d, "result", lease[w].attempt, out[w])
                  e == Event(d, jobs[d], lease[w].attempt, Status(out[w]))
      <4>1. FilesOf(d, "result") = {}
        BY <1>6 DEF FilesOf, ReferencesFiled, ReferenceFiled, StageOf
      <4>2. Writes(d, e, {r})
        <5>1. outbox' = Added(r, e)
          BY <1>5, <1>10 DEF AcceptResult
        <5>2. lease[w].attempt \in Nat /\ jobs[d] \in Row /\ Status(out[w]) \in States
          BY <1>5, <1>6, HolderType DEF Holds, Status, States, Terminal
        <5>. QED
          BY <2>1, <5>1, <5>2, TransactionWrites
      <4>3. r.state = "worker_failure"
        BY <2>3 DEF Document
      <4>. HIDE DEF r, e
      <4>4. FilesOf(d, "result")' \subseteq {r}
        BY <4>1, <4>2 DEF FilesOf, Writes, Written
      <4>. QED
        BY <4>3, <4>4
    <3>. QED
      BY <2>1, <3>1, <3>2 DEF Happened
  <2>4. CASE out[w] # "worker_failure"
    BY <1>6, <1>7, <2>1, <2>2, <2>4, Exhausted DEF Happened, Results
  <2>. QED
    BY <2>3, <2>4
<1>. QED
  BY <1>5, <1>8, <1>9, <1>10

\* Armed failures are used up before a stage can succeed or end otherwise.
THEOREM FaultsCorrect == Spec => []FaultsInvariant
<1>1. Init => FaultsInvariant
  BY DEF Init, NoRow, FaultsInvariant, FaultsSpent, FaultsHappen, Rows
<1>2. TypeOK /\ TypeOK' /\ QueueInvariant /\ LifeInvariant /\ ReferencesFiled
        /\ FaultsInvariant /\ [Next]_vars => FaultsInvariant'
  <2>. SUFFICES ASSUME TypeOK, TypeOK', QueueInvariant, LifeInvariant,
                       ReferencesFiled, FaultsInvariant, [Next]_vars
                PROVE  FaultsInvariant'
    OBVIOUS
  <2>1. FaultsSpent'
    BY FaultsSpentStep DEF FaultsInvariant
  <2>2. ASSUME NEW d \in Docs, NEW s \in Stages, jobs'[d].id # 0
        PROVE  Happened(d, s)'
    <3>1. CASE jobs[d].id # 0 /\ Left(d, s)
      <4>1. Happened(d, s)
        BY <3>1 DEF FaultsInvariant, FaultsHappen, Happened, Rows
      <4>. QED
        BY <3>1, <4>1, HappenedStays
    <3>2. CASE ~(jobs[d].id # 0 /\ Left(d, s)) /\ Left(d, s)'
      BY <2>2, <3>2, NewlyLeft DEF FaultsInvariant
    <3>3. CASE ~Left(d, s)'
      BY <3>3 DEF Happened
    <3>. QED
      BY <3>1, <3>2, <3>3
  <2>3. FaultsHappen'
    BY <2>2 DEF FaultsHappen, Happened, Rows
  <2>. QED
    BY <2>1, <2>3 DEF FaultsInvariant
<1>. QED
  BY <1>1, <1>2, TypeCorrect, Invariant, LifeCorrect, ReferencesFiledCorrect, PTL
     DEF Spec

\* An armed failure is never skipped: a job leaves a stage only with its armed
\* failures spent, and two of them are what ends it.
THEOREM FaultsHappenCorrect == Spec => []FaultsHappen
<1>. QED
  BY FaultsCorrect, PTL DEF FaultsInvariant

-----------------------------------------------------------------------------
(* Why no transaction meets a UNIQUE constraint.                           *)

\* Rows and recordings stay, and the sequence of a row does not go back.
LEMMA RowsGrow ==
    ASSUME TypeOK, TypeOK', QueueInvariant, [Next]_vars, NEW d \in Docs, jobs[d].id # 0
    PROVE  /\ jobs'[d].id = jobs[d].id
           /\ jobs[d].bagged => jobs'[d].bagged
           /\ jobs[d].sequence <= jobs'[d].sequence
<1>. DEFINE Grows == /\ jobs'[d].id = jobs[d].id
                     /\ jobs[d].bagged => jobs'[d].bagged
                     /\ jobs[d].sequence <= jobs'[d].sequence
<1>0. jobs[d].sequence \in Nat
  BY DEF TypeOK, Row
<1>1. Silent => Grows
  BY <1>0 DEF Silent, SilentRow, Columns
<1>2. ASSUME NEW e \in Docs, Only(e), e # d
      PROVE  Grows
  BY <1>0, <1>2 DEF Only
<1>3. ASSUME NEW e \in Docs, Import(e)
      PROVE  Grows
  BY <1>2, <1>3, ImportTells
<1>4. ASSUME NEW w \in Workers, NEW e \in Docs, FirstClaimed(w, e)
      PROVE  Grows
  BY <1>0, <1>2, <1>4, FirstClaimTells
<1>5. ASSUME NEW w \in Workers, AcceptBag(w) \/ AcceptRetry(w) \/ AcceptResult(w)
      PROVE  Grows
  <2>1. PICK e \in Docs : e = lease[w].job
    BY <1>5, AcceptTells DEF Holds
  <2>2. CASE d = lease[w].job
    <3>1. jobs'[d].id = jobs[d].id /\ jobs'[d].sequence = jobs[d].sequence + 1
      BY <1>5, <2>2, AcceptTells
    <3>2. jobs[d].bagged => jobs'[d].bagged
      BY <1>5, <2>2, AcceptTells
    <3>. QED
      BY <1>0, <3>1, <3>2
  <2>3. CASE e # d
    BY <1>2, <1>5, <2>1, <2>3, AcceptTells
  <2>. QED
    BY <2>1, <2>2, <2>3
<1>. QED
  BY <1>1, <1>3, <1>4, <1>5, StoryCases

LEMMA RowsStay ==
    ASSUME TypeOK, TypeOK', QueueInvariant, [Next]_vars
    PROVE  Rows \subseteq Rows'
BY RowsGrow DEF Rows

\* Only intake adds rows, and only it and an accepted recording set the
\* recording of a row.
Quiet == /\ Rows' = Rows
         /\ \A d \in Rows : jobs'[d].id = jobs[d].id /\ jobs'[d].bagged = jobs[d].bagged
LEMMA QuietCases ==
    ASSUME TypeOK, TypeOK', QueueInvariant, [Next]_vars
    PROVE  \/ Quiet
           \/ \E d \in Docs : Import(d)
           \/ \E w \in Workers : AcceptBag(w)
<1>1. ASSUME \A d \in Docs : jobs'[d].id = jobs[d].id /\ jobs'[d].bagged = jobs[d].bagged
      PROVE  Quiet
  BY <1>1 DEF Quiet, Rows
<1>2. ASSUME NEW d \in Docs, Only(d), jobs'[d].id = jobs[d].id,
             jobs'[d].bagged = jobs[d].bagged
      PROVE  Quiet
  BY <1>1, <1>2 DEF Only
<1>3. Silent => Quiet
  BY <1>1 DEF Silent, SilentRow, Columns
<1>4. ASSUME NEW w \in Workers, NEW d \in Docs, FirstClaimed(w, d)
      PROVE  Quiet
  BY <1>2, <1>4, FirstClaimTells
<1>5. ASSUME NEW w \in Workers, AcceptRetry(w) \/ AcceptResult(w)
      PROVE  Quiet
  <2>1. PICK d \in Docs : d = lease[w].job
    BY <1>5, AcceptTells DEF Holds
  <2>. QED
    BY <1>2, <1>5, <2>1, AcceptTells
<1>. QED
  BY <1>3, <1>4, <1>5, StoryCases

\* What keeps two rows apart.
Apart(d, e) ==
    /\ Job[d].job_id # Job[e].job_id /\ Path[d] # Path[e]
    /\ jobs[d].id # jobs[e].id
    /\ Job[d].kind = "run" /\ Job[e].kind = "run" =>
         Job[d].execution # Job[e].execution
    /\ jobs[d].bagged /\ jobs[e].bagged => ~SameAnalysis(d, e)
Numbered(d) ==
    /\ jobs[d].id \in 1..Cardinality(Rows)
    /\ Job[d].kind = "analysis" =>
         /\ jobs[d].bagged
         /\ \E r \in Rows : /\ Job[r].kind = "run" /\ jobs[r].bagged
                            /\ SameRecording(d, r)

LEMMA RowsDifferMeans ==
    RowsDiffer <=> /\ \A d \in Rows : Numbered(d)
                   /\ \A d, e \in Rows : d # e => Apart(d, e)
BY DEF RowsDiffer, Numbered, Apart

LEMMA ImportApart ==
    ASSUME TypeOK, TypeOK', QueueInvariant, RowsDiffer, [Next]_vars,
           NEW d \in Docs, Import(d)
    PROVE  RowsDiffer'
<1>. DEFINE N == Cardinality(Rows)
<1>1. d \notin Rows /\ Rows' = Rows \cup {d} /\ \A e \in Rows : jobs'[e] = jobs[e] /\ e # d
  BY ImportTells DEF Rows, Only
<1>2. N \in Nat /\ Cardinality(Rows)' = N + 1
  <2>1. IsFiniteSet(Rows)
    BY DocsAssumption, FS_Subset DEF Rows
  <2>. QED
    BY <1>1, <2>1, FS_AddElement, FS_CardinalityType
<1>3. jobs'[d].id = N + 1 /\ (Job[d].kind = "analysis" => jobs'[d].bagged)
  <2>1. NewRow(d) \in Row /\ NewRow(d).id = N + 1
        /\ (Job[d].kind = "analysis" => NewRow(d).bagged)
    BY NewRowType DEF NewRow, NoRow
  <2>2. jobs'[d] = Advance(NewRow(d), "PENDING")
    BY DEF Import, TypeOK
  <2>. QED
    BY <2>1, <2>2, AdvanceTells
<1>4. \A e \in Rows : Numbered(e) /\ jobs[e].id \in 1..N
  BY DEF RowsDiffer, Numbered
<1>5. \A e \in Rows : Numbered(e)'
  BY <1>1, <1>2, <1>4 DEF Numbered
<1>6. Numbered(d)'
  <2>1. Job[d].kind = "analysis" =>
          \E r \in Rows : /\ Job[r].kind = "run" /\ jobs[r].bagged
                          /\ SameRecording(d, r)
    BY DEF Import, OriginalRun, SameRecording
  <2>. QED
    BY <1>1, <1>2, <1>3, <2>1 DEF Numbered
<1>7. ASSUME NEW e \in Rows
      PROVE  /\ Job[d].job_id # Job[e].job_id /\ Path[d] # Path[e]
             /\ Job[d].kind = "run" /\ Job[e].kind = "run" =>
                  Job[d].execution # Job[e].execution
  BY DEF Import, Matches
<1>8. ASSUME NEW e \in Rows, jobs'[d].bagged, jobs'[e].bagged
      PROVE  ~SameAnalysis(d, e) /\ ~SameAnalysis(e, d)
  <2>1. Job[d].kind = "analysis"
    BY <1>8, ImportTells, JobAssumption
  <2>2. jobs[e].bagged
    BY <1>1, <1>8
  <2>. QED
    BY <2>1, <2>2 DEF Import, AnalysisOwned, SameAnalysis, SameRecording
<1>9. ASSUME NEW e \in Rows
      PROVE  Apart(d, e)' /\ Apart(e, d)'
  <2>1. jobs'[e].id # jobs'[d].id
    BY <1>1, <1>2, <1>3, <1>4
  <2>. QED
    BY <1>7, <1>8, <2>1 DEF Apart
<1>10. \A e, f \in Rows : e # f => Apart(e, f)'
  BY <1>1, RowsDifferMeans DEF Apart
<1>11. /\ \A e \in Rows' : Numbered(e)'
       /\ \A e, f \in Rows' : e # f => Apart(e, f)'
  BY <1>1, <1>5, <1>6, <1>9, <1>10
<1>. QED
  BY <1>11 DEF RowsDiffer, Numbered, Apart

LEMMA AcceptBagApart ==
    ASSUME TypeOK, TypeOK', QueueInvariant, LifeInvariant, FaultsSpent,
           RowsDiffer, [Next]_vars, NEW w \in Workers, AcceptBag(w)
    PROVE  RowsDiffer'
<1>1. PICK d \in Docs : d = lease[w].job /\ Holds(w, d)
  BY AcceptTells DEF Holds
<1>2. /\ Only(d) /\ jobs'[d].id = jobs[d].id /\ jobs[d].id # 0 /\ jobs'[d].bagged
  BY <1>1, AcceptTells DEF Holds
<1>3. Rows' = Rows /\ d \in Rows /\ \A e \in Rows \ {d} : jobs'[e] = jobs[e]
  BY <1>2 DEF Rows, Only
<1>4. jobs[d].stage = "simulation"
  <2>1. out[w] = "bag"
    BY DEF AcceptBag
  <2>. QED
    BY <1>1, <2>1, OutcomeAssumption
       DEF LifeInvariant, OffersFit, Offers, Holds, StageOf
<1>5. Job[d].kind = "run" /\ ~jobs[d].bagged
  BY <1>3, <1>4 DEF FaultsSpent
<1>6. ASSUME NEW e \in Rows, e # d, jobs[e].bagged
      PROVE  ~SameRecording(d, e) /\ ~SameRecording(e, d)
  <2>1. \A r \in Rows : r # d /\ Job[r].kind = "run" => Job[r].execution # Job[d].execution
    BY <1>3, <1>5 DEF RowsDiffer
  <2>2. CASE Job[e].kind = "run"
    BY <1>6, <2>1, <2>2 DEF SameRecording
  <2>3. CASE Job[e].kind = "analysis"
    <3>1. PICK r \in Rows : Job[r].kind = "run" /\ jobs[r].bagged /\ SameRecording(e, r)
      BY <2>3 DEF RowsDiffer
    <3>. QED
      BY <1>5, <2>1, <3>1 DEF SameRecording
  <2>. QED
    BY <2>2, <2>3, JobAssumption DEF Rows
<1>7. \A e \in Rows : Numbered(e)'
  <2>1. \A e \in Rows : jobs'[e].id = jobs[e].id /\ (jobs[e].bagged => jobs'[e].bagged)
    BY <1>2, <1>3
  <2>. QED
    BY <1>3, <2>1 DEF RowsDiffer, Numbered
<1>8. ASSUME NEW e \in Rows, NEW f \in Rows, e # f
      PROVE  Apart(e, f)'
  <2>1. Apart(e, f)
    BY <1>8 DEF RowsDiffer, Apart
  <2>2. jobs'[e].id = jobs[e].id /\ jobs'[f].id = jobs[f].id
    BY <1>2, <1>3
  <2>3. jobs'[e].bagged /\ jobs'[f].bagged => ~SameAnalysis(e, f)
    BY <1>3, <1>6, <1>8, <2>1 DEF Apart, SameAnalysis
  <2>. QED
    BY <2>1, <2>2, <2>3 DEF Apart
<1>. QED
  BY <1>3, <1>7, <1>8 DEF RowsDiffer, Numbered, Apart

LEMMA RowsDifferStep ==
    ASSUME TypeOK, TypeOK', QueueInvariant, LifeInvariant, FaultsSpent,
           RowsDiffer, [Next]_vars
    PROVE  RowsDiffer'
<1>1. Quiet => RowsDiffer'
  BY DEF Quiet, RowsDiffer
<1>. QED
  BY <1>1, QuietCases, ImportApart, AcceptBagApart

\* What a transaction files: an event of a job with its next sequence number,
\* after at most one other file of the job, which is its first of that kind.
First(d, f) ==
    /\ f.job = d /\ f.sequence = 0
    /\ \/ f.kind = "job" /\ jobs[d].id = 0
       \/ /\ f.kind = "bag" /\ jobs[d].id # 0
          /\ Job[d].kind = "run" /\ ~jobs[d].bagged /\ jobs'[d].bagged
       \/ f.kind = "result" /\ jobs[d].id # 0 /\ jobs[d].stage # "done"
Filing(d, e) ==
    /\ jobs'[d].id # 0 /\ e.kind = "event" /\ e.job = d
    /\ e.sequence = jobs[d].sequence + 1 /\ jobs'[d].sequence = jobs[d].sequence + 1
    /\ \/ outbox' = Append(outbox, e)
       \/ \E f \in File : First(d, f) /\ outbox' = Added(f, e)

LEMMA FilingCases ==
    ASSUME TypeOK, TypeOK', QueueInvariant, LifeInvariant, FaultsSpent, [Next]_vars
    PROVE  \/ outbox' = outbox
           \/ \E d \in Docs, e \in File : Filing(d, e)
<1>1. Silent => outbox' = outbox
  BY DEF Silent
<1>2. ASSUME NEW d \in Docs, Import(d)
      PROVE  \E e \in File : Filing(d, e)
  <2>. DEFINE f == Document(d, "job", 0, "none")
              e == Event(d, NewRow(d), 1, "PENDING")
  <2>1. /\ NewRow(d) \in Row /\ NewRow(d).sequence = 0
        /\ jobs[d].id = 0 /\ jobs[d].sequence = 0
        /\ jobs'[d].id # 0 /\ jobs'[d].sequence = 1
    BY <1>2, NewRowType, ImportTells DEF NewRow, NoRow, LifeInvariant, RowsTold
  <2>2. f \in File /\ e \in File
    BY <2>1, FileType DEF States
  <2>3. outbox' = Added(f, e)
    BY <1>2 DEF Import
  <2>4. First(d, f) /\ e.kind = "event" /\ e.job = d /\ e.sequence = 1
    BY <2>1 DEF First, Document, Event
  <2>. HIDE DEF f, e
  <2>. QED
    BY <2>1, <2>2, <2>3, <2>4 DEF Filing
<1>3. ASSUME NEW w \in Workers, NEW d \in Docs, FirstClaimed(w, d)
      PROVE  \E e \in File : Filing(d, e)
  <2>. DEFINE e == Event(d, jobs[d], jobs[d].attempt, Running(StageOf(w)))
  <2>1. jobs'[d].id # 0 /\ jobs'[d].sequence = jobs[d].sequence + 1
    BY <1>3, FirstClaimTells
  <2>2. e \in File
    <3>1. jobs[d] \in Row /\ jobs[d].attempt \in Nat /\ Running(StageOf(w)) \in States
      BY DEF TypeOK, Row, Running, States
    <3>. QED
      BY <3>1, FileType
  <2>3. outbox' = Append(outbox, e)
    BY <1>3 DEF FirstClaimed, ClaimJob
  <2>4. e.kind = "event" /\ e.job = d /\ e.sequence = jobs[d].sequence + 1
    BY DEF Event
  <2>. HIDE DEF e
  <2>. QED
    BY <2>1, <2>2, <2>3, <2>4 DEF Filing
<1>4. ASSUME NEW w \in Workers, AcceptBag(w) \/ AcceptRetry(w) \/ AcceptResult(w)
      PROVE  \E d \in Docs, e \in File : Filing(d, e)
  <2>1. PICK d \in Docs, a \in Nat : d = lease[w].job /\ a = lease[w].attempt /\ Holds(w, d)
    BY <1>4, AcceptTells, HolderType DEF Holds
  <2>2. /\ jobs[d].id # 0 /\ jobs'[d].id # 0
        /\ jobs'[d].sequence = jobs[d].sequence + 1
        /\ jobs[d].stage = StageOf(w)
    BY <1>4, <2>1, AcceptTells DEF Holds
  <2>3. jobs[d] \in Row /\ jobs[d].attempt + 1 \in Nat
    <3>1. jobs[d] \in Row
      BY DEF TypeOK
    <3>. QED
      BY <3>1 DEF Row
  <2>4. \A b \in Nat, s \in States :
          /\ Event(d, jobs[d], b, s) \in File /\ Event(d, jobs[d], b, s).kind = "event"
          /\ Event(d, jobs[d], b, s).job = d
          /\ Event(d, jobs[d], b, s).sequence = jobs[d].sequence + 1
    BY <2>3, FileType DEF Event
  <2>5. \A kind \in {"bag", "result"}, r \in Results \cup {"none"} :
          /\ Document(d, kind, a, r) \in File
          /\ Document(d, kind, a, r).job = d /\ Document(d, kind, a, r).sequence = 0
          /\ Document(d, kind, a, r).kind = kind
    <3>1. ASSUME NEW kind \in {"bag", "result"}, NEW r \in Results \cup {"none"}
          PROVE  Document(d, kind, a, r) \in File
      <4>1. "PENDING" \in States /\ r \in States \cup Results \cup {"none"}
        BY DEF States
      <4>. QED
        BY <2>3, <4>1, FileType
    <3>. QED
      BY <3>1 DEF Document
  <2>6. CASE AcceptBag(w)
    <3>1. outbox' = Added(Document(d, "bag", a, "none"), Event(d, jobs[d], a, "ANALYZING"))
      BY <2>1, <2>6 DEF AcceptBag
    <3>2. jobs'[d].bagged
      BY <2>1, <2>6, AcceptTells
    <3>3. jobs[d].stage = "simulation"
      <4>1. out[w] = "bag"
        BY <2>6 DEF AcceptBag
      <4>. QED
        BY <2>2, <4>1, OutcomeAssumption DEF LifeInvariant, OffersFit, Offers, StageOf
    <3>4. Job[d].kind = "run" /\ ~jobs[d].bagged
      BY <2>2, <3>3 DEF FaultsSpent, Rows
    <3>5. First(d, Document(d, "bag", a, "none"))
      BY <2>2, <2>5, <3>2, <3>4 DEF First
    <3>. QED
      BY <2>2, <2>4, <2>5, <3>1, <3>5 DEF Filing, States
  <2>7. CASE AcceptRetry(w)
    <3>1. outbox' = Append(outbox, Event(d, jobs[d], jobs[d].attempt + 1, Running(StageOf(w))))
      BY <2>1, <2>7 DEF AcceptRetry
    <3>2. Running(StageOf(w)) \in States
      BY DEF Running, States
    <3>. QED
      BY <2>2, <2>3, <2>4, <3>1, <3>2 DEF Filing
  <2>8. CASE AcceptResult(w)
    <3>1. /\ outbox' = Added(Document(d, "result", a, out[w]),
                             Event(d, jobs[d], a, Status(out[w])))
          /\ out[w] \in Results
      BY <2>1, <2>8 DEF AcceptResult
    <3>2. Status(out[w]) \in States
      BY DEF Status, States, Terminal
    <3>3. First(d, Document(d, "result", a, out[w]))
      BY <2>2, <2>5, <3>1 DEF First, StageOf
    <3>. QED
      BY <2>2, <2>4, <2>5, <3>1, <3>2, <3>3 DEF Filing
  <2>. QED
    BY <1>4, <2>6, <2>7, <2>8
<1>. QED
  BY <1>1, <1>2, <1>3, <1>4, StoryCases

\* What holds of one file, and of two that could be taken for each other.
Placed(f) ==
    /\ f.job \in Rows
    /\ f.kind = "bag" => Job[f.job].kind = "run" /\ jobs[f.job].bagged
    /\ f.sequence <= jobs[f.job].sequence
Distinct(f, g) ==
    f.kind = g.kind /\ f.job = g.job => f.kind = "event" /\ f.sequence # g.sequence
LEMMA FilesOnceMeans ==
    FilesOnce <=> /\ \A n \in DOMAIN outbox : Placed(outbox[n])
                  /\ \A m, n \in DOMAIN outbox : m # n => Distinct(outbox[m], outbox[n])
BY DEF FilesOnce, Placed, Distinct

LEMMA PlacedStays ==
    ASSUME TypeOK, TypeOK', QueueInvariant, [Next]_vars, NEW f \in File, Placed(f)
    PROVE  Placed(f)'
<1>1. PICK d \in Docs : d = f.job /\ jobs[d].id # 0
  BY DEF Placed, Rows
<1>2. /\ jobs'[d].id # 0
      /\ jobs[d].bagged => jobs'[d].bagged
      /\ jobs[d].sequence <= jobs'[d].sequence
  BY <1>1, RowsGrow
<1>3. jobs[d].sequence \in Nat /\ jobs'[d].sequence \in Nat /\ f.sequence \in Nat
  BY DEF TypeOK, Row, File
<1>. QED
  BY <1>1, <1>2, <1>3 DEF Placed, Rows

LEMMA FilesOnceStep ==
    ASSUME TypeOK, TypeOK', QueueInvariant, LifeInvariant, ReferencesFiled,
           FaultsSpent, FilesOnce, [Next]_vars
    PROVE  FilesOnce'
<1>0. /\ outbox \in Seq(File) /\ DOMAIN outbox = 1..Len(outbox) /\ Len(outbox) \in Nat
      /\ \A n \in DOMAIN outbox : outbox[n] \in File /\ Placed(outbox[n])
      /\ \A m, n \in DOMAIN outbox : m # n => Distinct(outbox[m], outbox[n])
  <2>1. /\ outbox \in Seq(File) /\ DOMAIN outbox = 1..Len(outbox) /\ Len(outbox) \in Nat
        /\ \A n \in DOMAIN outbox : outbox[n] \in File
    BY DEF TypeOK
  <2>. QED
    BY <2>1, FilesOnceMeans
<1>1. \A n \in DOMAIN outbox : Placed(outbox[n])'
  <2>1. ASSUME NEW n \in DOMAIN outbox
        PROVE  Placed(outbox[n])'
    <3>1. PICK f \in File : f = outbox[n]
      BY <1>0
    <3>2. outbox'[n] = f
      BY <3>1, FilesGrow
    <3>3. Placed(f)'
      BY <1>0, <3>1, PlacedStays
    <3>. QED
      BY <3>2, <3>3
  <2>. QED
    BY <2>1
<1>2. CASE outbox' = outbox
  <2>1. /\ \A n \in DOMAIN outbox' : Placed(outbox[n])'
        /\ \A m, n \in DOMAIN outbox' : m # n => Distinct(outbox[m], outbox[n])'
    BY <1>0, <1>1, <1>2 DEF Distinct
  <2>. QED
    BY <2>1 DEF FilesOnce, Placed, Distinct
<1>3. ASSUME NEW d \in Docs, NEW e \in File, Filing(d, e)
      PROVE  FilesOnce'
  <2>1. /\ jobs[d].sequence \in Nat
        /\ jobs'[d].sequence = jobs[d].sequence + 1
        /\ jobs'[d].id # 0
        /\ e.kind = "event" /\ e.job = d /\ e.sequence = jobs[d].sequence + 1
    <3>1. jobs[d] \in Row
      BY DEF TypeOK
    <3>. QED
      BY <1>3, <3>1 DEF Filing, Row
  <2>2. Placed(e)'
    BY <2>1 DEF Placed, Rows
  <2>3. \A n \in DOMAIN outbox : Distinct(outbox[n], e) /\ Distinct(e, outbox[n])
    <3>1. ASSUME NEW f \in File, Placed(f)
          PROVE  Distinct(f, e) /\ Distinct(e, f)
      BY <2>1, <3>1 DEF Placed, Distinct, File
    <3>. QED
      BY <1>0, <3>1
  <2>4. ASSUME NEW f \in File, First(d, f)
        PROVE  /\ Placed(f)' /\ Distinct(f, e) /\ Distinct(e, f)
               /\ \A n \in DOMAIN outbox : Distinct(outbox[n], f) /\ Distinct(f, outbox[n])
    <3>1. f.job = d /\ f.kind # "event" /\ f.sequence = 0
      BY <2>4 DEF First
    <3>2. Placed(f)'
      BY <2>1, <2>4, <3>1 DEF First, Placed, Rows
    <3>3. Distinct(f, e) /\ Distinct(e, f)
      BY <2>1, <3>1 DEF Distinct
    <3>4. ASSUME NEW n \in DOMAIN outbox, outbox[n].job = d, outbox[n].kind = f.kind
          PROVE  FALSE
      <4>1. jobs[d].id # 0 /\ (f.kind = "bag" => jobs[d].bagged)
        BY <1>0, <3>4 DEF Placed, Rows
      <4>2. f.kind = "result" => jobs[d].stage = "done"
        BY <3>4 DEF ReferencesFiled, ReferenceFiled
      <4>. QED
        BY <2>4, <4>1, <4>2 DEF First
    <3>. QED
      BY <3>1, <3>2, <3>3, <3>4 DEF Distinct
  <2>5. CASE outbox' = Append(outbox, e)
    <3>1. /\ DOMAIN outbox' = 1..(Len(outbox) + 1)
          /\ outbox'[Len(outbox) + 1] = e
          /\ \A n \in DOMAIN outbox : outbox'[n] = outbox[n]
      BY <1>0, <2>5, AppendedRows, FilesGrow
    <3>2. ASSUME NEW n \in DOMAIN outbox'
          PROVE  Placed(outbox[n])'
      <4>1. CASE n \in DOMAIN outbox
        BY <1>1, <4>1
      <4>2. CASE outbox'[n] = e
        BY <2>2, <4>2
      <4>. QED
        BY <1>0, <3>1, <4>1, <4>2
    <3>3. \A m, n \in DOMAIN outbox' : m # n => Distinct(outbox'[m], outbox'[n])
      BY <1>0, <2>3, <3>1
    <3>. QED
      BY <3>2, <3>3 DEF FilesOnce, Placed, Distinct
  <2>6. ASSUME NEW f \in File, First(d, f), outbox' = Added(f, e)
        PROVE  FilesOnce'
    <3>1. /\ DOMAIN outbox' = 1..(Len(outbox) + 2)
          /\ outbox'[Len(outbox) + 1] = f /\ outbox'[Len(outbox) + 2] = e
          /\ \A n \in DOMAIN outbox : outbox'[n] = outbox[n]
      BY <1>0, <2>6, AddedRows, FilesGrow
    <3>2. ASSUME NEW n \in DOMAIN outbox'
          PROVE  Placed(outbox[n])'
      <4>1. CASE n \in DOMAIN outbox
        BY <1>1, <4>1
      <4>2. CASE outbox'[n] = e
        BY <2>2, <4>2
      <4>3. CASE outbox'[n] = f
        <5>1. Placed(f)'
          BY <2>4, <2>6
        <5>. QED
          BY <4>3, <5>1
      <4>. QED
        BY <1>0, <3>1, <4>1, <4>2, <4>3
    <3>3. /\ Distinct(f, e) /\ Distinct(e, f)
          /\ \A n \in DOMAIN outbox : Distinct(outbox[n], f) /\ Distinct(f, outbox[n])
      BY <2>4, <2>6
    <3>4. \A m, n \in DOMAIN outbox' : m # n => Distinct(outbox'[m], outbox'[n])
      <4>1. \A n \in DOMAIN outbox' :
              \/ n \in DOMAIN outbox /\ outbox'[n] = outbox[n]
              \/ n = Len(outbox) + 1 /\ outbox'[n] = f
              \/ n = Len(outbox) + 2 /\ outbox'[n] = e
        BY <1>0, <3>1
      <4>. QED
        BY <1>0, <2>3, <3>3, <4>1
    <3>. QED
      BY <3>2, <3>4 DEF FilesOnce, Placed, Distinct
  <2>. QED
    BY <1>3, <2>5, <2>6 DEF Filing
<1>. QED
  BY <1>2, <1>3, FilingCases

LEMMA PathsDiffer ==
    ASSUME RowsDiffer, NEW f \in File, NEW g \in File, f.kind = g.kind,
           Placed(f), Placed(g), Distinct(f, g)
    PROVE  FilePath(f) # FilePath(g)
<1>0. /\ f.job \in Rows /\ g.job \in Rows
      /\ f.kind # "event" => f.job # g.job
  BY DEF Placed, Distinct
<1>1. f.job # g.job => Apart(f.job, g.job)
  BY <1>0, RowsDifferMeans
<1>2. CASE f.kind = "job"
  <2>1. FilePath(f) = Path[f.job] /\ FilePath(g) = Path[g.job]
    BY <1>2 DEF FilePath
  <2>. QED
    BY <1>0, <1>1, <1>2, <2>1 DEF Apart
<1>3. CASE f.kind = "bag"
  <2>1. /\ FilePath(f) = <<"bags", Job[f.job].execution>>
        /\ FilePath(g) = <<"bags", Job[g.job].execution>>
    BY <1>3 DEF FilePath
  <2>2. Job[f.job].execution # Job[g.job].execution
    BY <1>0, <1>1, <1>3 DEF Placed, Apart
  <2>. QED
    BY <2>1, <2>2
<1>4. CASE f.kind = "result"
  <2>. DEFINE Long(d) == <<"results", Job[d].execution, Job[d].bag, Job[d].template>>
              Short(d) == <<"results", Job[d].execution>>
  <2>1. /\ FilePath(f) = IF jobs[f.job].bagged THEN Long(f.job) ELSE Short(f.job)
        /\ FilePath(g) = IF jobs[g.job].bagged THEN Long(g.job) ELSE Short(g.job)
    BY <1>4 DEF FilePath
  <2>2. \A d, e : Long(d) # Short(e) /\ Short(d) # Long(e)
    <3>1. \A d, e : Len(Long(d)) = 4 /\ Len(Short(e)) = 2
      OBVIOUS
    <3>. QED
      BY <3>1
  <2>3. CASE jobs[f.job].bagged /\ jobs[g.job].bagged
    <3>1. ~SameAnalysis(f.job, g.job)
      BY <1>0, <1>1, <1>4, <2>3 DEF Apart
    <3>2. Long(f.job) # Long(g.job)
      BY <3>1 DEF SameAnalysis, SameRecording
    <3>. QED
      BY <2>1, <2>3, <3>2
  <2>4. CASE ~jobs[f.job].bagged /\ ~jobs[g.job].bagged
    <3>1. Job[f.job].kind = "run" /\ Job[g.job].kind = "run"
      BY <1>0, <2>4, JobAssumption DEF RowsDiffer, Rows
    <3>2. Short(f.job) # Short(g.job)
      BY <1>0, <1>1, <1>4, <3>1 DEF Apart
    <3>. QED
      BY <2>1, <2>4, <3>2
  <2>. QED
    BY <2>1, <2>2, <2>3, <2>4
<1>5. CASE f.kind = "event"
  <2>1. /\ FilePath(f) = <<"events", Job[f.job].job_id, f.attempt, f.sequence>>
        /\ FilePath(g) = <<"events", Job[g.job].job_id, g.attempt, g.sequence>>
    BY <1>5 DEF FilePath
  <2>2. Job[f.job].job_id # Job[g.job].job_id \/ f.sequence # g.sequence
    BY <1>0, <1>1, <1>5 DEF Apart, Distinct
  <2>. QED
    BY <2>1, <2>2
<1>. QED
  BY <1>2, <1>3, <1>4, <1>5 DEF File

\* However jobs and analyses of one recording are offered and finish, no
\* transaction fails on a UNIQUE column or an existing path.
THEOREM UniqueCorrect == Spec => []Unique
<1>1. Init => UniqueInvariant
  BY DEF Init, NoRow, UniqueInvariant, RowsDiffer, FilesOnce, Rows
<1>2. TypeOK /\ TypeOK' /\ QueueInvariant /\ LifeInvariant /\ ReferencesFiled
        /\ FaultsInvariant /\ UniqueInvariant /\ [Next]_vars => UniqueInvariant'
  BY RowsDifferStep, FilesOnceStep DEF UniqueInvariant, FaultsInvariant
<1>3. TypeOK /\ UniqueInvariant => Unique
  <2>. SUFFICES ASSUME TypeOK, UniqueInvariant
                PROVE  Unique
    OBVIOUS
  <2>1. \A d, e \in Rows : d # e => Apart(d, e)
    BY RowsDifferMeans DEF UniqueInvariant
  <2>2. ASSUME NEW m \in DOMAIN outbox, NEW n \in DOMAIN outbox, m # n,
               outbox[m].kind = outbox[n].kind
        PROVE  FilePath(outbox[m]) # FilePath(outbox[n])
    <3>1. PICK f \in File, g \in File : f = outbox[m] /\ g = outbox[n]
      BY DEF TypeOK
    <3>2. Placed(f) /\ Placed(g) /\ Distinct(f, g)
      BY <2>2, <3>1, FilesOnceMeans DEF UniqueInvariant
    <3>. QED
      BY <2>2, <3>1, <3>2, PathsDiffer DEF UniqueInvariant
  <2>. QED
    BY <2>1, <2>2 DEF Unique, Apart
<1>. QED
  BY <1>1, <1>2, <1>3, TypeCorrect, Invariant, LifeCorrect,
     ReferencesFiledCorrect, FaultsCorrect, PTL DEF Spec
=============================================================================
