------------------------ MODULE StandaloneProperties ------------------------
(***************************************************************************)
(* What a caller of the standalone command may rely on.                    *)
(***************************************************************************)
EXTENDS Standalone

Steps == {"idle", "refused", "select", "choose", "mark", "queue", "lock", "look",
          "record", "bag", "bagged", "reconcile", "publish", "announce", "event",
          "announced", "return"}
\* Where a process works under the lock of its execution.
Locked == {"look", "record", "bag", "bagged", "reconcile", "publish",
           "announce", "event", "announced", "return"}

\* Locks, files and processes keep their types.
TypeOK ==
    /\ marks \subseteq Modes /\ kept \subseteq marks
    /\ guard \in Processes \cup {Nobody}
    /\ locks \in [Executions -> Processes \cup {Nobody}]
    /\ files \in [Names -> Documents \cup {Free}]
    /\ settled \subseteq {n \in Names : files[n] # Free}
    /\ at \in [Processes -> Steps]
    /\ draft \in [Processes -> Results \cup {Free}]
    /\ reported \in [Executions -> SUBSET Results]

\* An exchange is never used in both modes: once anybody works in one of them,
\* or has left files behind, the other is refused for good, whatever dies or
\* loses power meanwhile (docs/workers.md, "mixing those execution modes is
\* rejected").
Works(p) == at[p] = "queue" \/ at[p] = "lock" \/ at[p] \in Locked
OneMode ==
    /\ \A p \in Processes : Works(p) => Mode[p] \in kept
    /\ (\E n \in Names : files[n] # Free) => "standalone" \in kept
    /\ marks # Modes

\* Whatever is in the exchange refers to files that are there with the same
\* content: an event to its result, a scored result to its bag.
Present == {r \in Results : files[ResultName(r)] = r}
Grounded ==
    /\ \A n \in Names : files[n] \in Results => files[n] \in Present
    /\ \A r \in Present : r.outcome = "scored" =>
           files[BagName(Execution[r.job])] = Recording[r.job]

\* A command is refused for what it finds only where that is another document
\* with the same execution, or a run that was timed out: two calls for one job
\* never refuse each other's files.
Rival(p) == \E n \in Names :
    \/ /\ files[n] \in Results /\ files[n].job # Job[p]
       /\ Execution[files[n].job] = Execution[Job[p]]
    \/ n = BagName(Execution[Job[p]]) /\ files[n] \notin {Free, Recording[Job[p]]}
TimedOut(e) == \E r \in Present : Execution[r.job] = e /\ r.outcome = "timeout"
RefusedForCause ==
    [][\A p \in Processes : at[p] \in Locked /\ at'[p] = "refused" =>
           Rival(p) \/ TimedOut(Execution[Job[p]])]_vars

\* After a call has returned, no result of its execution lacks its event, unless
\* a run failure was published since (run.go, "repairs a missing completion
\* event"): a score whose event went missing is then never announced.
Failed(e) == \E r \in Present : Execution[r.job] = e /\ r.outcome # "scored"
Repaired ==
    \A e \in Executions : reported[e] # {} /\ ~Failed(e) =>
        \A r \in Present : Execution[r.job] = e => AnnouncedAt(r) \in settled

\* Calls for one execution return one outcome, unless a repetition timed out or
\* a job that cannot be simulated claims the execution of one that was scored.
OutcomeStable ==
    \A e \in Executions : \A a, b \in reported[e] :
        \/ a = b
        \/ "timeout" \in {a.outcome, b.outcome}
        \/ a.job # b.job /\ "failed" \in {a.outcome, b.outcome}

\* An execution is scored once: a copy of its job and a job that claims the same
\* execution with other inputs never add a second score, also when power is lost
\* between the recording and its score.
OneScore ==
    \A a, b \in Present :
        a.outcome = "scored" /\ b.outcome = "scored"
        /\ Execution[a.job] = Execution[b.job] => a = b

\* A published run failure is the last word: nothing is scored after it.
FailureIsFinal ==
    [][\A e \in Executions : files[FailureName(e)] # Free
           /\ files'[FailureName(e)] # Free =>
           \A r \in Present' : Execution[r.job] = e /\ r.outcome = "scored" =>
               r \in Present]_vars

-----------------------------------------------------------------------------
(* The inductive invariant.                                                *)

\* .execution.lock is held exactly where a process chooses and marks, a mark is
\* made under it, and a process goes on in the mode it selected.
Guarded ==
    /\ \A p \in Processes : guard = p <=> at[p] \in {"choose", "mark"}
    /\ \A p \in Processes :
        /\ at[p] = "mark" => Mode[p] \in marks
        /\ at[p] = "queue" => Mode[p] = "queue"
        /\ at[p] = "lock" \/ at[p] \in Locked => Mode[p] = "standalone"

\* What a process has established by the time it takes a step.
Achieved == \A p \in Processes :
    LET r == draft[p]
        b == BagName(Execution[Job[p]])
    IN /\ at[p] \in Locked \ {"look"} => r \in Results /\ r.job = Job[p]
       /\ at[p] \in {"record", "bag", "bagged"} => r.outcome = "scored"
       /\ at[p] = "bagged" => files[b] = Recording[Job[p]]
       /\ at[p] \in Locked \ {"look", "record", "bag", "bagged"}
          /\ r.outcome = "scored" => files[b] = Recording[Job[p]] /\ b \in settled
       /\ at[p] \in {"announce", "event", "announced", "return"} =>
              files[ResultName(r)] = r
       /\ at[p] \in {"event", "announced", "return"} => ResultName(r) \in settled
       /\ at[p] = "announced" => files[AnnouncedAt(r)] = r

\* Names are bound to documents of their kind, and what a document refers to
\* was durable before it.
Founded ==
    /\ \A e \in Executions : files[BagName(e)] \notin Results
    /\ \A r \in Results : files[ResultName(r)] # Free =>
          /\ files[ResultName(r)] \in Results
          /\ ResultName(files[ResultName(r)]) = ResultName(r)
    /\ \A r \in Results : files[AnnouncedAt(r)] # Free =>
          /\ files[AnnouncedAt(r)] \in Present
          /\ ResultName(files[AnnouncedAt(r)]) \in settled
    /\ \A r \in Present : r.outcome = "scored" =>
          /\ files[BagName(Execution[r.job])] = Recording[r.job]
          /\ BagName(Execution[r.job]) \in settled

StandaloneInvariant == TypeOK /\ Guarded /\ OneMode /\ Achieved /\ Founded

\* The lock of an execution excludes other calls for it.
Exclusive == \A p \in Processes : at[p] \in Locked => locks[Execution[Job[p]]] = p

\* A run fails for its job or not at all; only timeouts depend on the moment.
Honest(r) == r.outcome = "failed" <=> r.job \in Broken
Candid ==
    /\ \A r \in Present : Honest(r)
    /\ \A p \in Processes : at[p] \in Locked \ {"look", "record"} => Honest(draft[p])

\* While a score is prepared no run failure appears, and what is to be published
\* was reconciled with what is there.
Pending == \A p \in Processes :
    /\ at[p] \in {"record", "bag", "bagged", "reconcile", "publish"}
       /\ draft[p].outcome = "scored" => Failure(p) = Free
    /\ at[p] = "publish" => files[ResultName(draft[p])] \in {Free, draft[p]}

\* An event is found by the attempt it announces.
Titled == \A r \in Results : files[AnnouncedAt(r)] # Free =>
    AnnouncedAt(files[AnnouncedAt(r)]) = AnnouncedAt(r)

\* What was returned is in the exchange and announced, on disk.
Returned ==
    /\ \A p \in Processes : at[p] = "return" => AnnouncedAt(draft[p]) \in settled
    /\ \A e \in Executions : \A r \in reported[e] :
          /\ r \in Present /\ Execution[r.job] = e
          /\ {ResultName(r), AnnouncedAt(r)} \subseteq settled

OutcomeInvariant ==
    StandaloneInvariant /\ Exclusive /\ Candid /\ Pending /\ Titled /\ Returned

-----------------------------------------------------------------------------
\* Calls for one execution return one outcome (run_test.go, "retry changed
\* outcome").
RetryKeepsOutcome == \A e \in Executions : \A a, b \in reported[e] : a = b
=============================================================================
