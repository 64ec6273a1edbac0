------------------------------ MODULE Exchange ------------------------------
(***************************************************************************)
(* What the producers write: the content of every document that the queue  *)
(* (Import, claim, acceptBag, acceptResult, retry) and standalone.Run add  *)
(* to an exchange, and an exchange whose files are then changed by hand.   *)
(* Queue and Standalone model when files appear and how steps interleave;  *)
(* here a handler publishes its documents at once and a row is what it     *)
(* copies into them.                                                       *)
(***************************************************************************)
EXTENDS Contract

CONSTANTS
    Runs,        \* run jobs that users submit
    Templates,   \* the template of each analysis job they submit
    Counts,      \* numbers of records a simulation may produce
    Measures,    \* what Evaluate may measure of a recording
    MaxEdits     \* bound on changes by hand

\* A run job hashes its inputs, and no two have an execution in common ("Callers
\* supply unique job and execution IDs"); every recording has a first tick.
ASSUME RunsAssumption ==
    /\ \A d \in Runs : /\ d.kind = "job" /\ d.job_kind = "run"
                       /\ d.inputs_hash = Hash(d.inputs)
                       /\ TypedLimits(d.inputs.analysis_template)
    /\ \A t \in DOMAIN Templates : TypedLimits(Templates[t])
    /\ \A d, e \in Runs : d.execution_id = e.execution_id => d = e
    /\ Counts \subseteq Nat \ {0}
\* Evaluate counts collisions and clamps progress.
ASSUME MeasuresAssumption ==
    Measures \subseteq [collisions : Nat, gap : Int \cup {Null}, progress : (0..Whole) \cup {Null}]

VARIABLES
    files,  \* the exchange: its documents by path
    rows,   \* the rows of the queue, by the path of their job
    mode,   \* the owner ownership.Select recorded
    edits   \* changes by hand so far

vars == <<files, rows, mode, edits>>

\* One document at its path, and documents added to an exchange (rows to the queue).
At(p, d) == [q \in {p} |-> d]
Over(new, old) ==
    [q \in DOMAIN new \cup DOMAIN old |-> IF q \in DOMAIN new THEN new[q] ELSE old[q]]
Publish(docs) == files' = Over(docs, files)
JobPath(d) == Path("job", d.job_id)
EventPath(e) == Path("event", e.event_id)
BagPath(d) == Path("bag", d.execution_id)
ResultPath(r) == IF r.analysis_id = Null THEN Path("result", [run |-> r.execution_id])
                 ELSE Path("result", r.analysis_id)

\* Documents only appear while nothing was changed by hand.
Producing == edits = 0
Owned(owner) == mode \in {"none", owner} /\ mode' = owner

-----------------------------------------------------------------------------
(* Users.                                                                  *)

AnalysisInputs(bag, template) ==
    [bag |-> bag, analysis_template |-> template, tick_ms |-> 0, max_ticks |-> 0]
Analyses ==
    {LET inputs == AnalysisInputs(Reference(BagPath(d), files[BagPath(d)]), Templates[t])
     IN
     [kind |-> "job", execution_id |-> d.execution_id, job_id |-> t,
      correlation_id |-> d.correlation_id, job_kind |-> "analysis",
      inputs |-> inputs, inputs_hash |-> Hash(inputs)] :
        d \in {d \in Runs : BagPath(d) \in DOMAIN files}, t \in DOMAIN Templates}
Submit(d) ==
    /\ Producing
    /\ JobPath(d) \notin DOMAIN files
    /\ Publish(At(JobPath(d), d))
    /\ UNCHANGED <<rows, mode, edits>>

-----------------------------------------------------------------------------
(* The queue.                                                              *)

\* addEvent.
Event(p, attempt, sequence, state, analysis, result) ==
    LET d == files[p] IN
    [kind |-> "event", execution_id |-> d.execution_id, job_id |-> d.job_id,
     correlation_id |-> d.correlation_id, attempt_id |-> attempt,
     event_id |-> EventID(d.job_id, attempt, sequence), sequence |-> sequence,
     state |-> state, analysis_id |-> analysis, result |-> result]
Announced(e) == At(EventPath(e), e)
\* The event that the row's next sequence number gives to a state.
NextEvent(p, attempt, state, analysis, result) ==
    Event(p, attempt, rows[p].sequence + 1, state, analysis, result)

\* originalRun: the row whose accepted bag this is.
Originals(d) == {q \in DOMAIN rows : /\ files[q].job_kind = "run"
                                     /\ files[q].execution_id = d.execution_id
                                     /\ rows[q].bag # Null
                                     /\ rows[q].bag.sha256 = d.inputs.bag.sha256}
NewRow(stage, bag, analysis) ==
    [stage |-> stage, state |-> "PENDING", attempt |-> 1, sequence |-> 1,
     bag |-> bag, analysis_id |-> analysis, retried |-> {}]
ImportedRow(d) ==
    IF d.job_kind = "run" THEN NewRow("simulation", Null, Null)
    ELSE NewRow("analysis", d.inputs.bag,
                AnalysisID(d.execution_id, d.inputs.bag.sha256,
                           Hash(d.inputs.analysis_template)))
Import(p) ==
    LET d == files[p]
        row == ImportedRow(d)
        e == Event(p, 1, 1, "PENDING", Null, Null)
    IN /\ Producing /\ Owned("queue")
       /\ Accepts(files, p, "job")
       /\ \A q \in DOMAIN rows : /\ q # p /\ files[q].job_id # d.job_id
                                 /\ d.job_kind = "run" /\ files[q].job_kind = "run" =>
                                      files[q].execution_id # d.execution_id
       /\ d.job_kind = "analysis" =>
            /\ Originals(d) # {}
            /\ \A q \in DOMAIN rows : rows[q].analysis_id # row.analysis_id
       /\ Publish(Announced(e))
       /\ rows' = Over(At(p, row), rows)
       /\ UNCHANGED edits

\* lease.result, and execution.Analysis on top of it.
BaseResult(p, attempt) ==
    LET d == files[p] IN
    [kind |-> "result", execution_id |-> d.execution_id, job_id |-> d.job_id,
     correlation_id |-> d.correlation_id, attempt_id |-> attempt,
     job |-> Reference(p, d), inputs_hash |-> d.inputs_hash, bag |-> Null,
     analysis_id |-> Null, analysis_hash |-> Null, analysis_template |-> Null,
     status |-> "ERROR", failure_class |-> Null, metrics |-> Null]
Unattached(result, template, bag) == [result EXCEPT !.bag = bag]
Analysis(result, template, bag) ==
    [result EXCEPT !.bag = bag, !.analysis_template = template,
                   !.analysis_hash = Hash(template),
                   !.analysis_id = AnalysisID(result.execution_id, bag.sha256, Hash(template))]
Failure(result, class) == [result EXCEPT !.status = "ERROR", !.failure_class = class]

\* Evaluate: what it may report of a bag with this many records.
Supported(template) ==
    /\ template["collision_count"].version = 1 /\ template["goal_progress"].version = 1
    /\ template["minimum_obstacle_gap"].version \in {1, 2}
Reports(template, count) ==
    {Reported(template, m.collisions, {t \in {count - 1} : m.collisions > 0},
              m.gap, 0, m.progress, count - 1) : m \in {m \in Measures : Supported(template)}}
\* A template or a recording that Evaluate cannot score is an analysis failure.
Score(result, template, count) ==
    {Failure(result, "analysis_failure")}
      \cup {[result EXCEPT !.status = Overall(m), !.metrics = m] :
               m \in Reports(template, count)}

\* What calculate makes of a claimed stage.
Outcomes(p) ==
    LET base == BaseResult(p, rows[p].attempt)
        template == files[p].inputs.analysis_template
        analysis == Analysis(base, template, rows[p].bag)
    IN IF rows[p].stage = "simulation"
       THEN {Failure(base, c) : c \in {"simulation_timeout", "controller_failure",
                                       "worker_failure"}}
       ELSE {Failure(analysis, "worker_failure")}
              \cup Score(analysis, template, files[rows[p].bag.path].record_count)

\* encode: the recording of a run.
Recording(d, count) ==
    [kind |-> "bag", execution_id |-> d.execution_id, inputs_hash |-> d.inputs_hash,
     tick_ms |-> d.inputs.tick_ms, record_count |-> count, newline |-> TRUE,
     ticks |-> [i \in 1..count |-> [tick |-> i - 1, time_ms |-> (i - 1) * d.inputs.tick_ms]]]

Working(p) == Producing /\ p \in DOMAIN rows /\ UNCHANGED <<mode, edits>>
\* The row advances to a state under the event that says so.
Advance(p, e, row) ==
    rows' = [rows EXCEPT ![p] = [row EXCEPT !.state = e.state, !.sequence = e.sequence]]

Claim(p) ==
    /\ Working(p)
    /\ rows[p].state = "PENDING"
    /\ LET e == NextEvent(p, rows[p].attempt,
                          IF rows[p].stage = "simulation" THEN "RUNNING" ELSE "ANALYZING",
                          rows[p].analysis_id, Null)
       IN Publish(Announced(e)) /\ Advance(p, e, rows[p])

AcceptBag(p, count) ==
    LET d == files[p]
        bag == Recording(d, count)
        ref == Reference(BagPath(d), bag)
        id == Analysis(BaseResult(p, 1), d.inputs.analysis_template, ref).analysis_id
        e == NextEvent(p, rows[p].attempt, "ANALYZING", id, Null)
    IN /\ Working(p)
       /\ rows[p].state = "RUNNING"
       /\ count <= d.inputs.max_ticks + 1
       /\ Publish(Over(At(BagPath(d), bag), Announced(e)))
       /\ Advance(p, e, [rows[p] EXCEPT !.stage = "analysis", !.bag = ref,
                                        !.analysis_id = id])

Retryable(p, result) == /\ result.failure_class = "worker_failure"
                        /\ rows[p].stage \notin rows[p].retried
Retry(p, result) ==
    LET attempt == rows[p].attempt + 1
        e == NextEvent(p, attempt, rows[p].state, result.analysis_id, Null)
    IN /\ Retryable(p, result)
       /\ Publish(Announced(e))
       /\ Advance(p, e, [rows[p] EXCEPT !.attempt = attempt, !.retried = @ \cup {rows[p].stage}])
Finish(p, result) ==
    LET e == NextEvent(p, rows[p].attempt, result.status, result.analysis_id,
                       Reference(ResultPath(result), result))
    IN /\ ~Retryable(p, result)
       /\ Publish(Over(At(ResultPath(result), result), Announced(e)))
       /\ Advance(p, e, [rows[p] EXCEPT !.stage = "done"])
AcceptResult(p) ==
    /\ Working(p)
    /\ rows[p].state \in {"RUNNING", "ANALYZING"}
    /\ \E result \in Outcomes(p) : Retry(p, result) \/ Finish(p, result)

-----------------------------------------------------------------------------
(* standalone.Run, from an exchange without outcome of this job.           *)

Completed(p, result) ==
    Announced(Event(p, result.attempt_id, 1, result.status, result.analysis_id,
                    Reference(ResultPath(result), result)))
RunFails(p) ==
    \E class \in {"simulation_timeout", "controller_failure", "worker_failure"} :
        LET result == Failure(BaseResult(p, 0), class)
        IN Publish(Over(At(ResultPath(result), result), Completed(p, result)))
RunScores(p) ==
    LET d == files[p] IN
    \E count \in Counts :
        LET bag == Recording(d, count)
            attached == Analysis(BaseResult(p, 0), d.inputs.analysis_template,
                                 Reference(BagPath(d), bag))
        IN /\ count <= d.inputs.max_ticks + 1
           /\ \E result \in Score(attached, d.inputs.analysis_template, count) :
                Publish(Over(At(BagPath(d), bag),
                             Over(At(ResultPath(result), result), Completed(p, result))))
Execute(p) ==
    /\ Producing /\ Owned("standalone")
    /\ Accepts(files, p, "job") /\ files[p].job_kind = "run"
    /\ \A q \in DOMAIN files : q.folder # "results"
    /\ RunFails(p) \/ RunScores(p)
    /\ UNCHANGED <<rows, edits>>

-----------------------------------------------------------------------------
(* Changes by hand: a field takes a value it has elsewhere in the exchange *)
(* or in no document, or the fields derived from others are put right.     *)

Same(d) == {e \in {files[q] : q \in DOMAIN files} : DOMAIN e = DOMAIN d}
Altered(d) ==
    UNION {{[d EXCEPT ![f] = e[f]] : e \in Same(d)} : f \in DOMAIN d \ {"kind", "job_kind"}}
      \cup (IF d.kind = "bag"
            THEN {[d EXCEPT !.newline = FALSE], [d EXCEPT !.record_count = @ + 1],
                  [d EXCEPT !.ticks = Tail(@)], [d EXCEPT !.tick_ms = @ + 1]}
            ELSE {})
      \cup (IF d.kind = "result" /\ d.metrics # Null
            THEN {[d EXCEPT !.metrics[n].value = v] : n \in MetricNames, v \in {0, Whole, Null}}
                   \cup {[d EXCEPT !.metrics[n].evidence_ticks = {k}] :
                           n \in MetricNames, k \in Counts}
            ELSE {})
Renewed(r) == IF r = Null THEN r ELSE Reference(r.path, files[r.path])
Rederived(d) ==
    CASE d.kind = "job" ->
           LET inputs == [d.inputs EXCEPT !.bag = Renewed(@)]
           IN [d EXCEPT !.inputs = inputs, !.inputs_hash = Hash(inputs)]
      [] d.kind = "bag" -> [d EXCEPT !.record_count = Len(d.ticks)]
      [] d.kind = "result" ->
           LET bag == Renewed(d.bag)
               known == [d EXCEPT !.job = Renewed(@), !.bag = bag,
                              !.inputs_hash = files[d.job.path].inputs_hash]
           IN IF bag = Null \/ d.analysis_id = Null THEN known
              ELSE Analysis(known, d.analysis_template, bag)
      [] d.kind = "event" ->
           LET known == [d EXCEPT !.event_id = EventID(d.job_id, d.attempt_id, d.sequence)]
           IN IF d.result = Null THEN known
              ELSE [known EXCEPT !.result = Renewed(@),
                                 !.analysis_id = files[d.result.path].analysis_id]
\* Somebody gives a file the other extension and references to it the new path.
Other(p) == [p EXCEPT !.ext = IF @ = "json" THEN "jsonl" ELSE "json"]
Repointed(r, p) == IF r # Null /\ r.path = p THEN [r EXCEPT !.path = Other(p)] ELSE r
Repoint(d, p) ==
    CASE d.kind = "job" -> [d EXCEPT !.inputs.bag = Repointed(@, p)]
      [] d.kind = "bag" -> d
      [] d.kind = "result" -> [d EXCEPT !.job = Repointed(@, p), !.bag = Repointed(@, p)]
      [] d.kind = "event" -> [d EXCEPT !.result = Repointed(@, p)]
Renamed(p) ==
    [q \in (DOMAIN files \ {p}) \cup {Other(p)} |->
        Repoint(files[IF q = Other(p) THEN p ELSE q], p)]

Settled == edits < MaxEdits /\ \A q \in DOMAIN rows : rows[q].stage = "done"
Rename(p) ==
    /\ Settled /\ Producing
    /\ files' = Renamed(p)
    /\ edits' = edits + 1
    /\ UNCHANGED <<rows, mode>>
Edit(p) ==
    /\ Settled
    /\ \E d \in (IF edits = 0 THEN Altered(files[p]) ELSE {}) \cup {Rederived(files[p])} :
         d # files[p] /\ files' = [files EXCEPT ![p] = d]
    /\ edits' = edits + 1
    /\ UNCHANGED <<rows, mode>>

-----------------------------------------------------------------------------
Init ==
    /\ files = << >>
    /\ rows = << >>
    /\ mode = "none"
    /\ edits = 0

Next ==
    \/ \E d \in Runs \cup Analyses : Submit(d)
    \/ \E p \in DOMAIN files :
         \/ Import(p) \/ Claim(p) \/ AcceptResult(p) \/ Execute(p)
         \/ \E count \in Counts : AcceptBag(p, count)
         \/ Edit(p) \/ Rename(p)

Spec == Init /\ [][Next]_vars
=============================================================================
