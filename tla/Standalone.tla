----------------------------- MODULE Standalone -----------------------------
(***************************************************************************)
(* internal/standalone and internal/ownership: commands that execute a run *)
(* job without the queue. Any number of them run at once in one exchange,  *)
(* for the same job, for copies of it and for other jobs, beside commands  *)
(* that open the queue there; each may fail or be killed at any step, and  *)
(* the machine may lose power.                                             *)
(*                                                                         *)
(* Files are published through the write-once register that Publication    *)
(* implements: a call first binds the name and then learns that it is      *)
(* durable. Bags, results and events are records of what the code compares.*)
(***************************************************************************)
CONSTANTS
    Processes,  \* commands working in the exchange
    Mode,       \* "standalone" or "queue", the ownership each selects
    Job,        \* the job each executes, whenever it is repeated
    Jobs,       \* run job documents, one per path
    Execution,  \* their execution_id
    JobId,      \* their job_id
    Recording,  \* what simulating their inputs records
    Broken,     \* jobs whose simulation fails whenever it is tried
    Times,      \* readings of the clock, in any order
    Nobody, Free

Modes == {"standalone", "queue"}
ASSUME ProcessAssumption == /\ Mode \in [Processes -> Modes]
                            /\ Job \in [Processes -> Jobs]
                            /\ Nobody \notin Processes
ASSUME TimesAssumption == Times # {}
\* A job_id names one job, which has one execution (check.go reports other jobs
\* under the same job_id as a conflict of identities).
ASSUME IdentityAssumption ==
    \A i, j \in Jobs : JobId[i] = JobId[j] => Execution[i] = Execution[j]

VARIABLES
    marks,      \* ownership directories in the exchange
    kept,       \* those that are on disk
    guard,      \* the holder of .execution.lock
    locks,      \* the holder of each execution's lock file
    files,      \* the exchange: what each name is bound to
    settled,    \* names reported durable
    at,         \* where each process is
    draft,      \* the result each process has constructed or accepted
    reported    \* the outcomes returned to callers, per execution

vars == <<marks, kept, guard, locks, files, settled, at, draft, reported>>

Executions == {Execution[j] : j \in Jobs}
Other(m) == CHOOSE o \in Modes : o # m

\* Results: the outcome of a job with the timing of the accepted attempt.
Outcomes == {"scored", "timeout", "failed"}
Results == [job : Jobs, outcome : Outcomes, started : Times]

\* Names carry the identities that the code hashes into them.
BagName(e) == <<"bag", e>>
FailureName(e) == <<"failure", e>>
ScoreName(e, r) == <<"score", e, r>>
EventName(i, t) == <<"event", i, t>>
ResultName(r) == LET e == Execution[r.job]
                 IN IF r.outcome = "scored" THEN ScoreName(e, Recording[r.job])
                                            ELSE FailureName(e)
AnnouncedAt(r) == EventName(JobId[r.job], r.started)
Names == {BagName(e) : e \in Executions}
         \cup UNION {{ResultName(r), AnnouncedAt(r)} : r \in Results}
\* A bag is bound to its recording, an event to the result it announces.
Documents == {Recording[j] : j \in Jobs} \cup Results
ASSUME DocumentAssumption ==
    /\ Free \notin Documents
    /\ \A j \in Jobs : Recording[j] \notin Results
Exchange == INSTANCE WriteOnce WITH Values <- Documents,
                                    value <- files, acknowledged <- settled

Goes(p, from, to) == at[p] = from /\ at' = [at EXCEPT ![p] = to]
\* Closing a lock file, or the death of its holder, releases it.
Released(p) == [e \in Executions |-> IF locks[e] = p THEN Nobody ELSE locks[e]]
Dropped(p) == [draft EXCEPT ![p] = Free]

-----------------------------------------------------------------------------
(* Ownership of the exchange.                                              *)

Begin(p) ==
    /\ at[p] \in {"idle", "refused"} /\ at' = [at EXCEPT ![p] = "select"]
    /\ UNCHANGED <<marks, kept, guard, locks, files, settled, draft, reported>>

TakeGuard(p) ==
    /\ Goes(p, "select", "choose")
    /\ guard = Nobody /\ guard' = p
    /\ UNCHANGED <<marks, kept, locks, files, settled, draft, reported>>

Taken(p) == Other(Mode[p]) \in marks
Choose(p) ==
    /\ \/ /\ Taken(p)
          /\ Goes(p, "choose", "refused")
          /\ guard' = Nobody /\ UNCHANGED marks
       \/ /\ ~Taken(p)
          /\ Goes(p, "choose", "mark")
          /\ marks' = marks \cup {Mode[p]} /\ UNCHANGED guard
    /\ UNCHANGED <<kept, locks, files, settled, draft, reported>>

\* Unless it is synchronised the choice may not survive what it protects.
Unsynced == kept
Synced == marks
SyncMark(p) ==
    /\ Goes(p, "mark", IF Mode[p] = "queue" THEN "queue" ELSE "lock")
    /\ kept' = Synced
    /\ guard' = Nobody
    /\ UNCHANGED <<marks, locks, files, settled, draft, reported>>

-----------------------------------------------------------------------------
(* Run.                                                                    *)

Unlocked(p) == TRUE
Lockable(p) == locks[Execution[Job[p]]] = Nobody
TakeLock(p) ==
    /\ Goes(p, "lock", "look")
    /\ Lockable(p)
    /\ locks' = [locks EXCEPT ![Execution[Job[p]]] = p]
    /\ UNCHANGED <<marks, kept, guard, files, settled, draft, reported>>

Refuse(p, from) ==
    /\ Goes(p, from, "refused")
    /\ locks' = Released(p)
    /\ draft' = Dropped(p)
    /\ UNCHANGED <<marks, kept, guard, files, settled, reported>>

\* A run failure that was accepted before is the outcome of the job.
Unseen(p) == Free
Failure(p) == files[FailureName(Execution[Job[p]])]
Look(p) ==
    \/ /\ Failure(p) = Free
       /\ Goes(p, "look", "record")
       /\ \E t \in Times : draft' = [draft EXCEPT ![p] =
              [job |-> Job[p], outcome |-> "scored", started |-> t]]
       /\ UNCHANGED <<marks, kept, guard, locks, files, settled, reported>>
    \/ /\ Failure(p) # Free /\ Failure(p).job = Job[p]
       /\ Goes(p, "look", "publish")
       /\ draft' = [draft EXCEPT ![p] = Failure(p)]
       /\ UNCHANGED <<marks, kept, guard, locks, files, settled, reported>>
    \/ /\ Failure(p) # Free /\ Failure(p).job # Job[p]
       /\ Refuse(p, "look")

\* Simulating fails for a broken job and takes too long whenever the machine
\* is slow.
Simulate(p) ==
    \/ /\ Goes(p, "record", "reconcile")
       /\ draft' = [draft EXCEPT ![p].outcome =
                       IF Job[p] \in Broken THEN "failed" ELSE "timeout"]
       /\ UNCHANGED <<marks, kept, guard, locks, files, settled, reported>>
    \/ /\ Job[p] \notin Broken
       /\ Goes(p, "record", "bag")
       /\ UNCHANGED <<marks, kept, guard, locks, files, settled, draft, reported>>

\* publication.File and Document: bind the name, or find the same bytes there.
Publish(p, name, document, from, to) ==
    \/ /\ files[name] \in {Free, document}
       /\ Goes(p, from, to)
       /\ \/ Exchange!Publish(name, document)
          \/ files[name] = document /\ UNCHANGED <<files, settled>>
       /\ UNCHANGED <<marks, kept, guard, locks, draft, reported>>
    \/ /\ files[name] \notin {Free, document}
       /\ Refuse(p, from)

Forgetful(name) == settled
Durable(name) == settled \cup {name}
Settle(p, name, from, to) ==
    /\ Goes(p, from, to)
    /\ settled' = Durable(name)
    /\ UNCHANGED <<marks, kept, guard, locks, files, draft, reported>>

PublishBag(p) == LET e == Execution[Job[p]] IN
    \/ Publish(p, BagName(e), Recording[Job[p]], "bag", "bagged")
    \/ Settle(p, BagName(e), "bagged", "reconcile")

\* Existing timing belongs to the accepted outcome.
Adopted(p, old) == IF old = Free THEN draft[p]
                   ELSE [draft[p] EXCEPT !.started = old.started]
Reconcile(p) ==
    /\ draft[p] # Free
    /\ LET old == files[ResultName(draft[p])]
       IN \/ /\ old \in {Free, Adopted(p, old)}
             /\ Goes(p, "reconcile", "publish")
             /\ draft' = [draft EXCEPT ![p] = Adopted(p, old)]
             /\ UNCHANGED <<marks, kept, guard, locks, files, settled, reported>>
          \/ /\ old \notin {Free, Adopted(p, old)}
             /\ Refuse(p, "reconcile")

\* finish: the result is durable before its event is published.
OnlyNew(p) == IF files[ResultName(draft[p])] = Free THEN "announce" ELSE "return"
Then(p) == "announce"
PublishResult(p) ==
    /\ draft[p] # Free
    /\ LET r == draft[p]
           e == Execution[Job[p]]
       IN \/ /\ r.outcome = "scored" => files[BagName(e)] = Recording[Job[p]]
             /\ Publish(p, ResultName(r), r, "publish", Then(p))
          \/ Settle(p, ResultName(r), "announce", "event")

PublishEvent(p) ==
    /\ draft[p] # Free
    /\ LET r == draft[p]
       IN \/ /\ files[ResultName(r)] = r
             /\ Publish(p, AnnouncedAt(r), r, "event", "announced")
          \/ Settle(p, AnnouncedAt(r), "announced", "return")

Return(p) ==
    /\ Goes(p, "return", "idle")
    /\ reported' = [reported EXCEPT ![Execution[Job[p]]] = @ \cup {draft[p]}]
    /\ locks' = Released(p)
    /\ draft' = Dropped(p)
    /\ UNCHANGED <<marks, kept, guard, files, settled>>

-----------------------------------------------------------------------------
(* Failures.                                                               *)

\* A command ends: it fails for reasons of its own, is cancelled or killed. One
\* of the reasons is a comparison with an existing file that fails, which
\* Publication reports as a conflict too, whatever the file holds.
Stop(p) ==
    /\ at[p] \notin {"idle", "refused"} /\ at' = [at EXCEPT ![p] = "idle"]
    /\ guard' = IF guard = p THEN Nobody ELSE guard
    /\ locks' = Released(p)
    /\ draft' = Dropped(p)
    /\ UNCHANGED <<marks, kept, files, settled, reported>>

PowerLoss ==
    /\ \E lost \in SUBSET {n \in Names \ settled : files[n] # Free} :
           Exchange!Forget(lost)
    /\ \E left \in SUBSET marks : kept \subseteq left /\ marks' = left
    /\ kept' = marks'
    /\ guard' = Nobody
    /\ locks' = [e \in Executions |-> Nobody]
    /\ at' = [p \in Processes |-> "idle"]
    /\ draft' = [p \in Processes |-> Free]
    /\ UNCHANGED reported

-----------------------------------------------------------------------------
Init ==
    /\ marks = {} /\ kept = {}
    /\ guard = Nobody
    /\ locks = [e \in Executions |-> Nobody]
    /\ files = [n \in Names |-> Free]
    /\ settled = {}
    /\ at = [p \in Processes |-> "idle"]
    /\ draft = [p \in Processes |-> Free]
    /\ reported = [e \in Executions |-> {}]

Process(p) ==
    \/ Begin(p) \/ TakeGuard(p) \/ Choose(p) \/ SyncMark(p) \/ TakeLock(p)
    \/ Look(p) \/ Simulate(p) \/ PublishBag(p) \/ Reconcile(p)
    \/ PublishResult(p) \/ PublishEvent(p) \/ Return(p) \/ Stop(p)

Next == (\E p \in Processes : Process(p)) \/ PowerLoss

Spec == Init /\ [][Next]_vars
=============================================================================
