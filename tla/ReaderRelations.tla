--------------------------- MODULE ReaderRelations ---------------------------
(***************************************************************************)
(* examples/reader: the reference reader's own decision on a document and  *)
(* everything it refers to. It shares no code with the producer: here the  *)
(* kind asked for decides how a file is parsed, every load is confined to  *)
(* the folder of its kind, and absent members read as empty text and zero. *)
(***************************************************************************)
EXTENDS Documents

\* bag: the header counts the lines after it, in tick order.
Uncounted(bag) == TRUE
CountsLines(bag) == Len(bag.ticks) = bag.record_count
Lines(bag) ==
    /\ bag.newline
    /\ CountsLines(bag)
    /\ \A i \in DOMAIN bag.ticks : /\ bag.ticks[i].tick = i - 1
                                   /\ bag.ticks[i].time_ms = (i - 1) * bag.tick_ms
\* load, up to the relations, and reference.
Loaded(ex, p, kind) ==
    /\ p.folder = Folder(kind) /\ p.ext # "tmp"
    /\ p \in DOMAIN ex
    /\ ex[p].kind = kind
    /\ kind = "bag" => Lines(ex[p])
Referenced(ex, r, kind) ==
    /\ r # Null
    /\ Loaded(ex, r.path, kind)
    /\ r.sha256 = Hash(ex[r.path])

JobRelations(ex, d) ==
    /\ d.inputs_hash = Hash(d.inputs)
    /\ d.job_kind = "analysis" =>
         /\ Referenced(ex, d.inputs.bag, "bag")
         /\ d.execution_id = ex[d.inputs.bag.path].execution_id

\* metricsConsistent.
PassFlag(name, value, limit) ==
    \/ name = "collision_count" /\ value = 0
    \/ name = "minimum_obstacle_gap" /\ value >= limit.minimum_mm
    \/ name = "goal_progress" /\ value >= limit.minimum_ppm
Implausible(name, value) ==
    \/ name = "collision_count" /\ value < 0
    \/ name = "goal_progress" /\ (value < 0 \/ value > Whole)
MetricConsistent(m, name, limit, records) ==
    /\ m.unit = Unit[name] /\ m.version = limit.version
    /\ \A t \in m.evidence_ticks : t < records
    /\ \/ m.value = Null /\ m.pass = Null /\ m.evidence_ticks = {}
       \/ /\ m.value # Null
          /\ ~Implausible(name, m.value)
          /\ m.pass = PassFlag(name, m.value, limit)
StatusOf(metrics) ==
    IF \E n \in MetricNames : metrics[n].value # Null /\ metrics[n].pass = FALSE THEN "FAIL"
    ELSE IF \E n \in MetricNames : metrics[n].value = Null THEN "WARN"
    ELSE "PASS"
MetricsConsistent(d, records) ==
    /\ d.metrics # Null
    /\ \A n \in MetricNames :
         MetricConsistent(d.metrics[n], n, d.analysis_template[n], records)
    /\ d.status = StatusOf(d.metrics)

AbsentAnalysis(d) ==
    d.bag = Null /\ d.analysis_hash = Null /\ d.analysis_template = Null /\ d.metrics = Null
OfJob(job, bag, r) ==
    IF job.job_kind = "run"
    THEN /\ bag.inputs_hash = job.inputs_hash /\ bag.tick_ms = job.inputs.tick_ms
         /\ bag.record_count <= job.inputs.max_ticks + 1
    ELSE r = job.inputs.bag
\* The text of an absent hash is no digest.
Identified(d, job, bag) ==
    LET hash == Hash(d.analysis_template) IN
    /\ hash = Hash(job.inputs.analysis_template)
    /\ d.analysis_hash # Null /\ hash = d.analysis_hash
    /\ d.analysis_id = AnalysisID(d.execution_id, Hash(bag), hash)
Failed(d) == d.status = "ERROR"
AnalysisRelations(ex, d, job) ==
    /\ Referenced(ex, d.bag, "bag")
    /\ ex[d.bag.path].execution_id = d.execution_id
    /\ OfJob(job, ex[d.bag.path], d.bag)
    /\ Identified(d, job, ex[d.bag.path])
    /\ Failed(d) => /\ d.metrics = Null
                    /\ d.failure_class \in {"worker_failure", "analysis_failure"}
    /\ ~Failed(d) => MetricsConsistent(d, ex[d.bag.path].record_count)
ResultRelations(ex, d) ==
    /\ Referenced(ex, d.job, "job") /\ JobRelations(ex, ex[d.job.path])
    /\ LET job == ex[d.job.path] IN
         /\ SameJob(d, job) /\ d.inputs_hash = job.inputs_hash
         /\ Failed(d) <=> d.failure_class # Null
         /\ d.analysis_id = Null =>
              /\ Failed(d) /\ job.job_kind = "run"
              /\ d.failure_class # "analysis_failure" /\ AbsentAnalysis(d)
         /\ d.analysis_id # Null => AnalysisRelations(ex, d, job)

EventRelations(ex, d) ==
    /\ EventID(d.job_id, d.attempt_id, d.sequence) = d.event_id
    /\ d.state \in Terminal <=> d.result # Null
    /\ d.analysis_id # Null => d.state \notin {"PENDING", "RUNNING"}
    /\ d.analysis_id = Null => d.state # "ANALYZING"
    /\ d.state \in Terminal =>
         /\ Referenced(ex, d.result, "result")
         /\ LET r == ex[d.result.path] IN
              /\ ResultRelations(ex, r)
              /\ SameJob(d, r) /\ d.attempt_id = r.attempt_id
              /\ d.state = r.status /\ d.analysis_id = r.analysis_id

Reads(ex, p, kind) ==
    /\ Loaded(ex, p, kind)
    /\ kind = "job" => JobRelations(ex, ex[p])
    /\ kind = "result" => ResultRelations(ex, ex[p])
    /\ kind = "event" => EventRelations(ex, ex[p])

\* identities: unlike the producer's, they number the events of a job.
ReaderIdentities(d) ==
    CASE d.kind = "event" -> {<<"event", d.event_id>>, <<"sequence", d.job_id, d.sequence>>}
      [] d.kind = "job" ->
           IF d.job_kind = "run"
           THEN {<<"job", d.job_id>>, <<"execution", d.execution_id>>}
           ELSE {<<"job", d.job_id>>}
      [] d.kind = "bag" -> {<<"bag", d.execution_id>>}
      [] d.kind = "result" -> {<<"result", d.execution_id, d.analysis_id>>}
Agreed(ex) ==
    \A p, q \in DOMAIN ex :
        ReaderIdentities(ex[p]) \cap ReaderIdentities(ex[q]) # {} => Hash(ex[p]) = Hash(ex[q])
=============================================================================
