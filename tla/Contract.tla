------------------------------ MODULE Contract ------------------------------
(***************************************************************************)
(* internal/contract: which documents of an exchange the producer accepts. *)
(* A reference graph has one shape (event, result, job, bag), so the       *)
(* loader's limits on cycles and depth never bite and its recursion is one *)
(* operator per kind. "ex" is the exchange.                                *)
(***************************************************************************)
EXTENDS Documents

ValidPath(p) == p.ext # "tmp"

\* ParseBag: declared count, tick order and simulated time.
Miscounted(bag) == Len(bag.ticks) <= bag.record_count
Counted(bag) == Len(bag.ticks) = bag.record_count
ParseBag(bag) ==
    /\ bag.kind = "bag"
    /\ bag.newline
    /\ Counted(bag)
    /\ \A i \in DOMAIN bag.ticks : /\ bag.ticks[i].tick = i - 1
                                   /\ bag.ticks[i].time_ms = (i - 1) * bag.tick_ms

\* load, up to the relations of the document it returns.
Parsed(ex, p, kind) ==
    /\ p \in DOMAIN ex /\ ValidPath(p)
    /\ IF p.ext = "jsonl" THEN ParseBag(ex[p]) ELSE ex[p].kind # "bag"
    /\ ex[p].kind = kind
AnyHash(ex, r) == r.path \in DOMAIN ex
Pinned(ex, r) == Hash(ex[r.path]) = r.sha256
Referred(ex, r, kind) ==
    /\ r # Null
    /\ r.path.folder = Folder(kind)
    /\ Parsed(ex, r.path, kind)
    /\ Pinned(ex, r)

\* ParseJob, and what checkDocument adds for a job.
ParseJob(d) == Hash(d.inputs) = d.inputs_hash
CheckJob(ex, d) ==
    /\ ParseJob(d)
    /\ d.job_kind = "analysis" =>
         /\ Referred(ex, d.inputs.bag, "bag")
         /\ ex[d.inputs.bag.path].execution_id = d.execution_id

-----------------------------------------------------------------------------
InRange(name, value) ==
    /\ name = "collision_count" => value >= 0
    /\ name = "goal_progress" => value \in 0..Whole
Meets(name, value, template) ==
    /\ name = "collision_count" => value = 0
    /\ name = "minimum_obstacle_gap" => value >= template[name].minimum_mm
    /\ name = "goal_progress" => value >= template[name].minimum_ppm
Cited(m, records) == \A t \in m.evidence_ticks : t < records
CheckMetric(m, name, template, records) ==
    /\ m.unit = Unit[name] /\ m.version = template[name].version
    /\ Cited(m, records)
    /\ IF m.value = Null
       THEN m.pass = Null /\ m.evidence_ticks = {}
       ELSE /\ m.pass # Null
            /\ InRange(name, m.value)
            /\ m.pass = Meets(name, m.value, template)
CheckMetrics(d, records) ==
    /\ d.metrics # Null
    /\ \A name \in MetricNames :
         CheckMetric(d.metrics[name], name, d.analysis_template, records)
    /\ d.status = Overall(d.metrics)

\* checkResult: a failed run has nothing to analyse,
RunFailed(d, job) ==
    /\ d.status = "ERROR" /\ job.job_kind = "run"
    /\ d.failure_class # "analysis_failure"
    /\ d.bag = Null /\ d.analysis_hash = Null /\ d.analysis_template = Null
    /\ d.metrics = Null
\* and an analysis is the job's own template applied to the job's own bag.
OfRun(job, bag) ==
    /\ bag.inputs_hash = job.inputs_hash
    /\ bag.tick_ms = job.inputs.tick_ms
    /\ bag.record_count <= job.inputs.max_ticks + 1
OwnTemplate(d) == Hash(d.analysis_template)
JobTemplate(job) == Hash(job.inputs.analysis_template)
CheckAnalysis(ex, d, job) ==
    /\ Referred(ex, d.bag, "bag")
    /\ d.analysis_hash # Null
    /\ ex[d.bag.path].execution_id = d.execution_id
    /\ job.job_kind = "run" => OfRun(job, ex[d.bag.path])
    /\ job.job_kind = "analysis" => job.inputs.bag = d.bag
    /\ OwnTemplate(d) = JobTemplate(job) /\ OwnTemplate(d) = d.analysis_hash
    /\ d.analysis_id = AnalysisID(d.execution_id, d.bag.sha256, d.analysis_hash)
    /\ IF d.status = "ERROR"
       THEN d.metrics = Null /\ d.failure_class \in {"worker_failure", "analysis_failure"}
       ELSE CheckMetrics(d, ex[d.bag.path].record_count)
CheckResult(ex, d) ==
    /\ Referred(ex, d.job, "job") /\ CheckJob(ex, ex[d.job.path])
    /\ LET job == ex[d.job.path] IN
         /\ SameJob(d, job) /\ d.inputs_hash = job.inputs_hash
         /\ d.status = "ERROR" <=> d.failure_class # Null
         /\ IF d.analysis_id = Null THEN RunFailed(d, job)
                                    ELSE CheckAnalysis(ex, d, job)

-----------------------------------------------------------------------------
ReportsResult(d, result) ==
    /\ SameJob(d, result) /\ d.attempt_id = result.attempt_id
    /\ d.state = result.status /\ d.analysis_id = result.analysis_id
CheckEvent(ex, d) ==
    /\ d.event_id = EventID(d.job_id, d.attempt_id, d.sequence)
    /\ d.state \in Terminal <=> d.result # Null
    /\ d.state \in {"PENDING", "RUNNING"} => d.analysis_id = Null
    /\ d.state = "ANALYZING" => d.analysis_id # Null
    /\ d.state \in Terminal =>
         /\ Referred(ex, d.result, "result") /\ CheckResult(ex, ex[d.result.path])
         /\ ReportsResult(d, ex[d.result.path])

\* checkDocument, and Check of one path. ReadDocument parses JSON whatever the
\* extension; its callers give it paths that end in .json.
Check(ex, d) ==
    /\ d.kind = "job" => CheckJob(ex, d)
    /\ d.kind = "result" => CheckResult(ex, d)
    /\ d.kind = "event" => CheckEvent(ex, d)
Accepts(ex, p, kind) == Parsed(ex, p, kind) /\ Check(ex, ex[p])

\* Check of several paths: no identity names two different contents.
Identities(d) ==
    CASE d.kind = "job" ->
           {<<"job", d.job_id>>}
             \cup (IF d.job_kind = "run" THEN {<<"execution", d.execution_id>>} ELSE {})
      [] d.kind = "event" -> {<<"event", d.event_id>>}
      [] d.kind = "result" -> {<<"result", d.execution_id, d.analysis_id>>}
      [] d.kind = "bag" -> {<<"bag", d.execution_id>>}
ValidatesAll(ex) ==
    /\ \A p \in DOMAIN ex : Accepts(ex, p, ex[p].kind)
    /\ \A p, q \in DOMAIN ex :
         Identities(ex[p]) \cap Identities(ex[q]) # {} => Hash(ex[p]) = Hash(ex[q])
=============================================================================
