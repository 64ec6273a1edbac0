--------------------------- MODULE ExchangeProofs ---------------------------
(***************************************************************************)
(* What the validators guarantee of every exchange, whatever its files:    *)
(* the two agree but for the extensions of names, and accepted events keep *)
(* their meaning. Then what the producers write: an inductive invariant of *)
(* the exchange and its rows, under which everything is accepted and an    *)
(* accepted pass was measured.                                             *)
(***************************************************************************)
EXTENDS ExchangeProperties, TLAPS

LEMMA KindCases == \A kind \in Kinds : kind \in {"job", "bag", "result", "event"}
BY DEF Kinds

LEMMA Folders ==
    ASSUME NEW k \in Kinds, NEW l \in Kinds, Folder(k) = Folder(l) PROVE k = l
BY DEF Kinds, Folder

LEMMA KindOfFolder == ASSUME NEW k \in Kinds PROVE KindIn(Folder(k)) = k
BY Folders DEF KindIn

\* Under the folder of its kind a file is parsed by the producer when the reader
\* loads it and its name has the extension of its format.
LEMMA ParsedAlike ==
    ASSUME NEW ex, NEW kind \in Kinds, NEW p, p.folder = Folder(kind)
    PROVE Parsed(ex, p, kind) <=> Loaded(ex, p, kind) /\ WellNamed(p)
<1>. SUFFICES ASSUME p \in DOMAIN ex, ex[p].kind = kind
              PROVE Parsed(ex, p, kind) <=> Loaded(ex, p, kind) /\ WellNamed(p)
  BY DEF Parsed, Loaded
<1>1. CASE kind = "bag"
  <2>1. p.folder = "bags"
    BY <1>1 DEF Folder
  <2>. QED
    BY <1>1, <2>1 DEF Parsed, ParseBag, ValidPath, Counted, Loaded, Lines, CountsLines, WellNamed
<1>2. CASE kind # "bag"
  <2>1. p.folder # "bags"
    BY <1>2 DEF Folder, Kinds
  <2>. QED
    BY <1>2, <2>1 DEF Parsed, ParseBag, ValidPath, Loaded, WellNamed
<1>. QED
  BY <1>1, <1>2

LEMMA ReferredAlike ==
    ASSUME NEW ex, NEW kind \in Kinds, NEW r
    PROVE Referred(ex, r, kind) <=> Referenced(ex, r, kind) /\ WellNamed(r.path)
<1>1. CASE r.path.folder = Folder(kind)
  BY <1>1, ParsedAlike DEF Referred, Referenced, Pinned
<1>2. CASE r.path.folder # Folder(kind)
  BY <1>2 DEF Referred, Referenced, Loaded
<1>. QED
  BY <1>1, <1>2

LEMMA JobsAlike ==
    ASSUME NEW ex, NEW d
    PROVE CheckJob(ex, d) <=> JobRelations(ex, d) /\ JobNamed(d)
<1>1. Referred(ex, d.inputs.bag, "bag")
        <=> Referenced(ex, d.inputs.bag, "bag") /\ WellNamed(d.inputs.bag.path)
  BY ReferredAlike DEF Kinds
<1>. QED
  BY <1>1 DEF CheckJob, ParseJob, JobRelations, JobNamed

-----------------------------------------------------------------------------
(* Scores. A schema-checked metric has a value and a flag, or null.        *)

TypedMetric(m) ==
    /\ m.value = Null \/ m.value \in Int
    /\ m.pass = Null \/ m.pass \in BOOLEAN

LEMMA FlagAlike ==
    ASSUME NEW name \in MetricNames, NEW value \in Int, NEW template
    PROVE /\ InRange(name, value) <=> ~Implausible(name, value)
          /\ Meets(name, value, template) = PassFlag(name, value, template[name])
          /\ Meets(name, value, template) \in BOOLEAN
<1>1. InRange(name, value) <=> ~Implausible(name, value)
  BY ScaleAssumption DEF InRange, Implausible, MetricNames
<1>2. Meets(name, value, template) \in BOOLEAN
  BY DEF Meets
<1>3. PassFlag(name, value, template[name]) \in BOOLEAN
  BY DEF PassFlag
<1>4. Meets(name, value, template) <=> PassFlag(name, value, template[name])
  BY DEF Meets, PassFlag, MetricNames
<1>. QED
  BY <1>1, <1>2, <1>3, <1>4

LEMMA MetricAlike ==
    ASSUME NEW name \in MetricNames, NEW m, TypedMetric(m), NEW template, NEW records
    PROVE CheckMetric(m, name, template, records)
            <=> MetricConsistent(m, name, template[name], records)
<1>1. CASE m.value = Null
  BY <1>1 DEF CheckMetric, MetricConsistent, Cited
<1>2. CASE m.value \in Int
  <2>1. m.value # Null
    BY <1>2, NullAssumption
  <2>2. Meets(name, m.value, template) # Null
    BY <1>2, FlagAlike, NullAssumption
  <2>. QED
    BY <1>2, <2>1, <2>2, FlagAlike DEF CheckMetric, MetricConsistent, Cited
<1>. QED
  BY <1>1, <1>2 DEF TypedMetric

TypedResult(d) ==
    d.metrics # Null => \A n \in MetricNames : TypedMetric(d.metrics[n])

LEMMA MetricsAlike ==
    ASSUME NEW d, TypedResult(d), NEW records
    PROVE CheckMetrics(d, records) <=> MetricsConsistent(d, records)
<1>. SUFFICES ASSUME d.metrics # Null,
                     \A n \in MetricNames :
                       CheckMetric(d.metrics[n], n, d.analysis_template, records)
              PROVE Overall(d.metrics) = StatusOf(d.metrics)
  BY MetricAlike DEF CheckMetrics, MetricsConsistent, TypedResult
<1>1. ASSUME NEW n \in MetricNames
      PROVE /\ d.metrics[n].value = Null <=> d.metrics[n].pass = Null
            /\ d.metrics[n].pass = FALSE => d.metrics[n].value # Null
  <2>. TypedMetric(d.metrics[n]) /\ CheckMetric(d.metrics[n], n, d.analysis_template, records)
    BY DEF TypedResult
  <2>. QED
    BY NullAssumption DEF CheckMetric, TypedMetric
<1>. QED
  BY <1>1 DEF Overall, StatusOf

-----------------------------------------------------------------------------
(* Results and events.                                                     *)

LEMMA AnalysesAlike ==
    ASSUME NEW ex, NEW d, TypedResult(d), NEW job,
           job.job_kind \in {"run", "analysis"}, d.status = "ERROR" <=> d.failure_class # Null
    PROVE CheckAnalysis(ex, d, job) <=> AnalysisRelations(ex, d, job) /\ WellNamed(d.bag.path)
<1>1. Referred(ex, d.bag, "bag") <=> Referenced(ex, d.bag, "bag") /\ WellNamed(d.bag.path)
  BY ReferredAlike DEF Kinds
<1>. SUFFICES ASSUME Referred(ex, d.bag, "bag"), Referenced(ex, d.bag, "bag")
              PROVE CheckAnalysis(ex, d, job) <=> AnalysisRelations(ex, d, job)
  BY <1>1 DEF CheckAnalysis, AnalysisRelations
<1>2. d.bag.sha256 = Hash(ex[d.bag.path])
  BY DEF Referenced
<1>3. (/\ job.job_kind = "run" => OfRun(job, ex[d.bag.path])
       /\ job.job_kind = "analysis" => job.inputs.bag = d.bag)
      <=> OfJob(job, ex[d.bag.path], d.bag)
  BY DEF OfRun, OfJob
<1>4. (/\ d.analysis_hash # Null
       /\ OwnTemplate(d) = JobTemplate(job) /\ OwnTemplate(d) = d.analysis_hash
       /\ d.analysis_id = AnalysisID(d.execution_id, d.bag.sha256, d.analysis_hash))
      <=> Identified(d, job, ex[d.bag.path])
  BY <1>2 DEF Identified, OwnTemplate, JobTemplate
<1>5. CheckMetrics(d, ex[d.bag.path].record_count)
        <=> MetricsConsistent(d, ex[d.bag.path].record_count)
  BY MetricsAlike
<1>. QED
  BY <1>3, <1>4, <1>5 DEF CheckAnalysis, AnalysisRelations, Failed

TypedJobs(ex) == \A p \in DOMAIN ex :
    ex[p].kind = "job" => ex[p].job_kind \in {"run", "analysis"}
TypedResults(ex) == \A p \in DOMAIN ex : ex[p].kind = "result" => TypedResult(ex[p])

LEMMA ResultsAlike ==
    ASSUME NEW ex, TypedJobs(ex), NEW d, TypedResult(d)
    PROVE CheckResult(ex, d) <=> ResultRelations(ex, d) /\ ResultNamed(ex, d)
<1>. DEFINE job == ex[d.job.path]
<1>1. Referred(ex, d.job, "job") <=> Referenced(ex, d.job, "job") /\ WellNamed(d.job.path)
  BY ReferredAlike DEF Kinds
<1>2. CheckJob(ex, job) <=> JobRelations(ex, job) /\ JobNamed(job)
  BY JobsAlike
<1>. SUFFICES ASSUME Referred(ex, d.job, "job"), CheckJob(ex, job),
                     d.status = "ERROR" <=> d.failure_class # Null
              PROVE CheckResult(ex, d) <=> ResultRelations(ex, d) /\ ResultNamed(ex, d)
  BY <1>1, <1>2 DEF CheckResult, ResultRelations, ResultNamed, Failed
<1>3. job.job_kind \in {"run", "analysis"}
  BY DEF Referred, Parsed, TypedJobs
<1>4. CheckAnalysis(ex, d, job) <=> AnalysisRelations(ex, d, job) /\ WellNamed(d.bag.path)
  BY <1>3, AnalysesAlike
<1>5. AnalysisRelations(ex, d, job) => d.bag # Null
  BY DEF AnalysisRelations, Referenced
<1>. HIDE DEF job
<1>6. RunFailed(d, job) <=> /\ Failed(d) /\ job.job_kind = "run"
                           /\ d.failure_class # "analysis_failure" /\ AbsentAnalysis(d)
  BY DEF RunFailed, Failed, AbsentAnalysis
<1>7. AbsentAnalysis(d) => d.bag = Null
  BY DEF AbsentAnalysis
<1>. QED
  BY <1>1, <1>2, <1>4, <1>5, <1>6, <1>7 DEF CheckResult, ResultRelations, ResultNamed, Failed, job

LEMMA EventsAlike ==
    ASSUME NEW ex, TypedJobs(ex), TypedResults(ex), NEW d
    PROVE CheckEvent(ex, d) <=> EventRelations(ex, d) /\ EventNamed(ex, d)
<1>1. Referred(ex, d.result, "result")
        <=> Referenced(ex, d.result, "result") /\ WellNamed(d.result.path)
  BY ReferredAlike DEF Kinds
<1>2. ASSUME Referenced(ex, d.result, "result")
      PROVE CheckResult(ex, ex[d.result.path])
              <=> /\ ResultRelations(ex, ex[d.result.path])
                  /\ ResultNamed(ex, ex[d.result.path])
  <2>1. TypedResult(ex[d.result.path])
    BY <1>2 DEF Referenced, Loaded, TypedResults
  <2>. QED
    BY <2>1, ResultsAlike
<1>. QED
  BY <1>1, <1>2 DEF CheckEvent, EventRelations, EventNamed, ReportsResult

\* The producer accepts exactly the documents that the reader accepts and that lead
\* only to names with the extension of their format, in every exchange whose
\* results and jobs are typed as the schema types them, whatever its files are named.
THEOREM Agreement ==
    ASSUME NEW ex, TypedJobs(ex), TypedResults(ex),
           NEW p \in DOMAIN ex, NEW kind \in Kinds, p.folder = Folder(kind)
    PROVE Accepts(ex, p, kind) <=> Reads(ex, p, kind) /\ NamedThroughout(ex, p)
<1>1. Parsed(ex, p, kind) <=> Loaded(ex, p, kind) /\ WellNamed(p)
  BY ParsedAlike
<1>. SUFFICES ASSUME ex[p].kind = kind, WellNamed(p)
              PROVE Check(ex, ex[p]) <=>
                      /\ kind = "job" => JobRelations(ex, ex[p]) /\ JobNamed(ex[p])
                      /\ kind = "result" => ResultRelations(ex, ex[p]) /\ ResultNamed(ex, ex[p])
                      /\ kind = "event" => EventRelations(ex, ex[p]) /\ EventNamed(ex, ex[p])
  BY <1>1 DEF Accepts, Reads, Parsed, Loaded, NamedThroughout
<1>2. CASE kind = "job"
  BY <1>2, JobsAlike DEF Check
<1>3. CASE kind = "bag"
  BY <1>3 DEF Check
<1>4. CASE kind = "result"
  BY <1>4, ResultsAlike DEF Check, TypedResults
<1>5. CASE kind = "event"
  BY <1>5, EventsAlike DEF Check
<1>. QED
  BY <1>2, <1>3, <1>4, <1>5 DEF Kinds

\* The same, as the property the run checks: every file is in one of the four
\* folders, and typed as the schema types it.
THEOREM ValidatorsAgreeOnExchange ==
    ASSUME \A p \in DOMAIN files : \E kind \in Kinds : p.folder = Folder(kind),
           TypedJobs(files), TypedResults(files)
    PROVE ValidatorsAgree
<1>. SUFFICES ASSUME NEW p \in DOMAIN files
              PROVE Accepts(files, p, KindIn(p.folder))
                      <=> Reads(files, p, KindIn(p.folder)) /\ NamedThroughout(files, p)
  BY DEF ValidatorsAgree
<1>1. PICK kind \in Kinds : p.folder = Folder(kind)
  OBVIOUS
<1>2. KindIn(p.folder) = kind
  BY <1>1, KindOfFolder
<1>. QED
  BY <1>1, <1>2, Agreement

-----------------------------------------------------------------------------
(* What acceptance means.                                                  *)

LEMMA AcceptedEvent ==
    ASSUME NEW ex, NEW p, Accepts(ex, p, "event")
    PROVE /\ p \in DOMAIN ex
          /\ CheckEvent(ex, ex[p])
BY DEF Accepts, Parsed, Check

LEMMA SameReferred ==
    ASSUME NEW ex, NEW ey, NEW kind, NEW r, Referred(ex, r, kind), Referred(ey, r, kind)
    PROVE ex[r.path] = ey[r.path]
BY DEF Referred, Pinned, Hash

LEMMA ResultBag ==
    ASSUME NEW ex, NEW d, CheckResult(ex, d), d.bag # Null
    PROVE Referred(ex, d.bag, "bag")
BY DEF CheckResult, RunFailed, CheckAnalysis

LEMMA SameOutcome ==
    ASSUME NEW ex, NEW ey, NEW p, ex[p] = ey[p], ex[p].result # Null,
           Accepts(ex, p, "event"), Accepts(ey, p, "event")
    PROVE Outcome(ex, ex[p]) = Outcome(ey, ex[p])
<1>. DEFINE e == ex[p]
            r == ex[e.result.path]
<1>1. CheckEvent(ex, e) /\ CheckEvent(ey, e)
  BY AcceptedEvent
<1>2. e.state \in Terminal
  BY <1>1 DEF CheckEvent
<1>3. /\ Referred(ex, e.result, "result") /\ CheckResult(ex, ex[e.result.path])
      /\ Referred(ey, e.result, "result") /\ CheckResult(ey, ey[e.result.path])
  BY <1>1, <1>2 DEF CheckEvent
<1>4. ey[e.result.path] = r
  BY <1>3, SameReferred
<1>5. ex[r.job.path] = ey[r.job.path]
  <2>1. Referred(ex, r.job, "job") /\ Referred(ey, r.job, "job")
    BY <1>3, <1>4 DEF CheckResult
  <2>. QED
    BY <2>1, SameReferred
<1>6. ASSUME r.bag # Null PROVE ex[r.bag.path] = ey[r.bag.path]
  <2>1. Referred(ex, r.bag, "bag") /\ Referred(ey, r.bag, "bag")
    BY <1>3, <1>4, <1>6, ResultBag
  <2>. QED
    BY <2>1, SameReferred
<1>. QED
  BY <1>4, <1>5, <1>6 DEF Outcome

\* Whatever happens to an exchange, an event that is accepted before and after
\* leads to the same result, job and recording.
THEOREM MeaningKept == Spec => MeaningStays
<1>1. ASSUME NEW p \in DOMAIN files, p.folder = "events", p \in DOMAIN files',
             files'[p] = files[p], files[p].result # Null,
             Accepts(files, p, "event"), Accepts(files', p, "event")
      PROVE Outcome(files', files[p]) = Outcome(files, files[p])
  BY <1>1, SameOutcome
<1>2. [Next]_vars =>
        [\A p \in DOMAIN files :
         (/\ p.folder = "events" /\ p \in DOMAIN files' /\ files'[p] = files[p]
          /\ files[p].result # Null
          /\ Accepts(files, p, "event") /\ Accepts(files', p, "event"))
         => Outcome(files', files[p]) = Outcome(files, files[p])]_vars
  BY <1>1
<1>. QED
  BY <1>2, PTL DEF Spec, MeaningStays

LEMMA PassedMetrics ==
    ASSUME NEW d, NEW records, CheckMetrics(d, records), d.status = "PASS",
           NEW n \in MetricNames
    PROVE d.metrics[n].value # Null /\ Meets(n, d.metrics[n].value, d.analysis_template)
<1>1. d.metrics[n].pass # FALSE /\ d.metrics[n].pass # Null
  BY DEF CheckMetrics, Overall
<1>2. CheckMetric(d.metrics[n], n, d.analysis_template, records)
  BY DEF CheckMetrics
<1>3. d.metrics[n].value # Null
  BY <1>1, <1>2 DEF CheckMetric
<1>4. d.metrics[n].pass = Meets(n, d.metrics[n].value, d.analysis_template)
  BY <1>2, <1>3 DEF CheckMetric
<1>5. Meets(n, d.metrics[n].value, d.analysis_template) \in BOOLEAN
  BY DEF Meets, MetricNames
<1>. QED
  BY <1>1, <1>3, <1>4, <1>5

-----------------------------------------------------------------------------
(* What the producers write. The inductive invariant says where a document *)
(* is, which row it belongs to and what its row still has to write.        *)

\* The path of a document, by its kind.
PathOf(d) == CASE d.kind = "job" -> JobPath(d)
               [] d.kind = "bag" -> BagPath(d)
               [] d.kind = "result" -> ResultPath(d)
               [] d.kind = "event" -> EventPath(d)

\* A score is what Evaluate reported of the recording it names.
Evaluated(ex, r) ==
    r.metrics # Null => r.metrics \in Reports(r.analysis_template, ex[r.bag.path].record_count)

\* A file is at its own path, well typed and accepted.
Right(ex, p) ==
    /\ ex[p].kind \in Kinds /\ p = PathOf(ex[p])
    /\ ex[p].kind = "job" => /\ ex[p] \in Runs \/ ex[p].job_kind = "analysis"
                             /\ TypedLimits(ex[p].inputs.analysis_template)
    /\ ex[p].kind = "bag" => ex[p].record_count \in Nat \ {0}
    /\ ex[p].kind = "result" => TypedResult(ex[p]) /\ Evaluated(ex, ex[p])
    /\ ex[p].kind = "event" => ex[p].sequence \in Nat
    /\ Accepts(ex, p, ex[p].kind)
AllRight(ex) == \A p \in DOMAIN ex : Right(ex, p)

\* No two events of a job have the same number.
Numbered(ex) ==
    \A p, q \in DOMAIN ex :
        (/\ ex[p].kind = "event" /\ ex[q].kind = "event"
         /\ ex[p].job_id = ex[q].job_id /\ ex[p].sequence = ex[q].sequence) => p = q

\* The recording of a row is there, and the analysis it names is of it.
Attached(ex, job, row) ==
    /\ Referred(ex, row.bag, "bag")
    /\ ex[row.bag.path].execution_id = job.execution_id
    /\ job.job_kind = "run" => OfRun(job, ex[row.bag.path])
    /\ job.job_kind = "analysis" => job.inputs.bag = row.bag
    /\ row.analysis_id = AnalysisID(job.execution_id, row.bag.sha256,
                                    Hash(job.inputs.analysis_template))

\* Stage, state and analysis of a row fit together.
RowRight(ex, q, row) ==
    /\ q \in DOMAIN ex /\ ex[q].kind = "job"
    /\ DOMAIN row = {"stage", "state", "attempt", "sequence", "bag", "analysis_id", "retried"}
    /\ row.sequence \in Nat
    /\ row.stage \in {"simulation", "analysis", "done"}
    /\ row.stage = "simulation" => /\ row.state \in {"PENDING", "RUNNING"}
                                   /\ ex[q].job_kind = "run" /\ row.analysis_id = Null
    /\ row.stage = "analysis" => row.state \in {"PENDING", "ANALYZING"} /\ row.analysis_id # Null
    /\ row.stage = "done" => row.state \in Terminal
    /\ row.bag = Null <=> row.analysis_id = Null
    /\ row.analysis_id # Null => Attached(ex, ex[q], row)
RowsRight(ex, rs) ==
    /\ \A q \in DOMAIN rs : RowRight(ex, q, rs[q])
    /\ \A q, r \in DOMAIN rs :
         rs[q].analysis_id # Null /\ rs[q].analysis_id = rs[r].analysis_id => q = r

\* Every recording, result and event of a queue is the work of one of its rows.
WorkOf(d, job, row) ==
    /\ d.kind = "bag" =>
         job.job_kind = "run" /\ job.execution_id = d.execution_id /\ row.bag # Null
    /\ d.kind = "result" =>
         /\ row.stage = "done" /\ row.analysis_id = d.analysis_id
         /\ d.analysis_id = Null => job.job_kind = "run" /\ job.execution_id = d.execution_id
    /\ d.kind = "event" => job.job_id = d.job_id /\ d.sequence <= row.sequence
AllOwned(ex, rs) ==
    \A p \in DOMAIN ex : ex[p].kind # "job" => \E q \in DOMAIN rs : WorkOf(ex[p], ex[q], rs[q])

\* A directory has the files that its mode allows.
ModeRight ==
    /\ mode = "none" => \A p \in DOMAIN files : files[p].kind = "job"
    /\ mode # "queue" => DOMAIN rows = {}
    /\ mode = "queue" => AllOwned(files, rows)
    /\ mode = "standalone" => \E p \in DOMAIN files : p.folder = "results"

Written ==
    /\ AllRight(files) /\ Numbered(files)
    /\ RowsRight(files, rows) /\ ModeRight
ExchangeInvariant == edits \in Nat /\ (Producing => Written)

-----------------------------------------------------------------------------
(* An exchange that grows keeps what was accepted.                         *)

Extends(ex, ey) == DOMAIN ex \subseteq DOMAIN ey /\ \A p \in DOMAIN ex : ey[p] = ex[p]

LEMMA OverExtends ==
    ASSUME NEW new, NEW old, DOMAIN new \cap DOMAIN old = {}
    PROVE  /\ DOMAIN Over(new, old) = DOMAIN new \cup DOMAIN old
           /\ Extends(old, Over(new, old)) /\ Extends(new, Over(new, old))
BY DEF Over, Extends

LEMMA AtOne ==
    ASSUME NEW p, NEW d
    PROVE  DOMAIN At(p, d) = {p} /\ At(p, d)[p] = d
BY DEF At

LEMMA ParsedKept ==
    ASSUME NEW ex, NEW ey, Extends(ex, ey), NEW p, NEW kind, Parsed(ex, p, kind)
    PROVE  Parsed(ey, p, kind) /\ ey[p] = ex[p] /\ p \in DOMAIN ex
BY DEF Extends, Parsed

LEMMA ReferredKept ==
    ASSUME NEW ex, NEW ey, Extends(ex, ey), NEW r, NEW kind, Referred(ex, r, kind)
    PROVE  Referred(ey, r, kind) /\ ey[r.path] = ex[r.path]
BY ParsedKept DEF Referred, Pinned

LEMMA JobKept ==
    ASSUME NEW ex, NEW ey, Extends(ex, ey), NEW d, CheckJob(ex, d)
    PROVE  CheckJob(ey, d)
BY ReferredKept DEF CheckJob

LEMMA AnalysisKept ==
    ASSUME NEW ex, NEW ey, Extends(ex, ey), NEW d, NEW job, CheckAnalysis(ex, d, job)
    PROVE  CheckAnalysis(ey, d, job)
<1>1. Referred(ex, d.bag, "bag")
  BY DEF CheckAnalysis
<1>2. Referred(ey, d.bag, "bag") /\ ey[d.bag.path] = ex[d.bag.path]
  BY <1>1, ReferredKept
<1>. QED
  BY <1>2 DEF CheckAnalysis

LEMMA ResultKept ==
    ASSUME NEW ex, NEW ey, Extends(ex, ey), NEW d, CheckResult(ex, d)
    PROVE  CheckResult(ey, d)
<1>1. Referred(ey, d.job, "job") /\ ey[d.job.path] = ex[d.job.path]
  BY ReferredKept DEF CheckResult
<1>2. CheckJob(ey, ey[d.job.path])
  BY <1>1, JobKept DEF CheckResult
<1>. QED
  BY <1>1, <1>2, AnalysisKept DEF CheckResult

LEMMA EventKept ==
    ASSUME NEW ex, NEW ey, Extends(ex, ey), NEW d, CheckEvent(ex, d)
    PROVE  CheckEvent(ey, d)
<1>1. ASSUME d.state \in Terminal
      PROVE  /\ Referred(ey, d.result, "result") /\ ey[d.result.path] = ex[d.result.path]
             /\ CheckResult(ey, ey[d.result.path]) /\ ReportsResult(d, ey[d.result.path])
  <2>1. Referred(ex, d.result, "result") /\ CheckResult(ex, ex[d.result.path])
        /\ ReportsResult(d, ex[d.result.path])
    BY <1>1 DEF CheckEvent
  <2>2. Referred(ey, d.result, "result") /\ ey[d.result.path] = ex[d.result.path]
    BY <2>1, ReferredKept
  <2>. QED
    BY <2>1, <2>2, ResultKept
<1>. QED
  BY <1>1 DEF CheckEvent

LEMMA EvaluatedKept ==
    ASSUME NEW ex, NEW ey, Extends(ex, ey), NEW d, CheckResult(ex, d), Evaluated(ex, d)
    PROVE  Evaluated(ey, d)
<1>. SUFFICES ASSUME d.metrics # Null PROVE ey[d.bag.path] = ex[d.bag.path]
  BY DEF Evaluated
<1>1. Referred(ex, d.bag, "bag")
  BY DEF CheckResult, RunFailed, CheckAnalysis
<1>. QED
  BY <1>1, ReferredKept

LEMMA RightKept ==
    ASSUME NEW ex, NEW ey, Extends(ex, ey), NEW p \in DOMAIN ex, Right(ex, p)
    PROVE  Right(ey, p)
<1>1. ey[p] = ex[p]
  BY DEF Extends
<1>2. Parsed(ey, p, ex[p].kind) /\ Check(ex, ex[p])
  BY ParsedKept DEF Right, Accepts
<1>3. Check(ey, ex[p])
  BY <1>2, JobKept, ResultKept, EventKept DEF Check
<1>4. ASSUME ex[p].kind = "result" PROVE Evaluated(ey, ex[p])
  BY <1>2, <1>4, EvaluatedKept DEF Right, Check
<1>. QED
  BY <1>1, <1>2, <1>3, <1>4 DEF Right, Accepts

LEMMA RowKept ==
    ASSUME NEW ex, NEW ey, Extends(ex, ey), NEW q, NEW row, RowRight(ex, q, row)
    PROVE  RowRight(ey, q, row)
<1>1. q \in DOMAIN ey /\ ey[q] = ex[q]
  BY DEF RowRight, Extends
<1>2. ASSUME row.analysis_id # Null PROVE Attached(ey, ey[q], row)
  <2>1. Attached(ex, ex[q], row)
    BY <1>2 DEF RowRight
  <2>2. Referred(ey, row.bag, "bag") /\ ey[row.bag.path] = ex[row.bag.path]
    BY <2>1, ReferredKept DEF Attached
  <2>. QED
    BY <1>1, <2>1, <2>2 DEF Attached
<1>. QED
  BY <1>1, <1>2 DEF RowRight

\* New files next to the others, each of them right.
LEMMA AllRightGrows ==
    ASSUME NEW ex, NEW docs, AllRight(ex), DOMAIN docs \cap DOMAIN ex = {},
           \A p \in DOMAIN docs : Right(Over(docs, ex), p)
    PROVE  AllRight(Over(docs, ex))
BY OverExtends, RightKept DEF AllRight

LEMMA NumberedGrows ==
    ASSUME NEW ex, NEW docs, Numbered(ex), DOMAIN docs \cap DOMAIN ex = {},
           \A p, q \in DOMAIN docs : docs[p].kind = "event" /\ docs[q].kind = "event" => p = q,
           \A p \in DOMAIN docs, q \in DOMAIN ex :
              docs[p].kind = "event" /\ ex[q].kind = "event" =>
                docs[p].job_id # ex[q].job_id \/ docs[p].sequence # ex[q].sequence
    PROVE  Numbered(Over(docs, ex))
<1>. DEFINE ey == Over(docs, ex)
<1>1. /\ DOMAIN ey = DOMAIN docs \cup DOMAIN ex
      /\ \A p \in DOMAIN docs : ey[p] = docs[p]
      /\ \A p \in DOMAIN ex : ey[p] = ex[p]
  BY OverExtends DEF Extends
<1>. HIDE DEF ey
<1>. QED
  BY <1>1 DEF Numbered, ey

-----------------------------------------------------------------------------
(* Paths and identities.                                                   *)

\* The null of JSON is no object; TLC, whose null is a value of its own, cannot
\* be asked what its domain is.
NullIsNoObject == Null # [f \in DOMAIN Null |-> Null[f]]

LEMMA ObjectsAreNotNull ==
    ASSUME NullIsNoObject
    PROVE  /\ \A v : Hash(v) # Null
           /\ \A path, hash : [path |-> path, sha256 |-> hash] # Null
BY DEF NullIsNoObject, Hash

LEMMA PathParts ==
    ASSUME NEW kind, NEW name, NEW l, NEW m
    PROVE  /\ Path(kind, name).folder = Folder(kind)
           /\ Path(kind, name).ext = IF kind = "bag" THEN "jsonl" ELSE "json"
           /\ Path(kind, name).name = name
           /\ Path(kind, l) = Path(kind, m) => l = m
BY DEF Path

LEMMA RightPath ==
    ASSUME NEW ex, NEW p, Right(ex, p)
    PROVE  /\ ex[p].kind \in Kinds /\ p.folder = Folder(ex[p].kind)
           /\ p.ext = IF ex[p].kind = "bag" THEN "jsonl" ELSE "json"
<1>1. ex[p].kind \in Kinds /\ p = PathOf(ex[p])
  BY DEF Right
<1>. QED
  BY <1>1, PathParts DEF Kinds, PathOf, JobPath, BagPath, ResultPath, EventPath

\* What each kind of document says at a right path.
LEMMA RightJob ==
    ASSUME NEW ex, NEW p, Right(ex, p), ex[p].kind = "job"
    PROVE  /\ p = JobPath(ex[p]) /\ p \in DOMAIN ex
           /\ ex[p] \in Runs \/ ex[p].job_kind = "analysis"
           /\ TypedLimits(ex[p].inputs.analysis_template)
           /\ Parsed(ex, p, "job") /\ CheckJob(ex, ex[p])
BY DEF Right, PathOf, Accepts, Parsed, Check

LEMMA RightBag ==
    ASSUME NEW ex, NEW p, Right(ex, p), ex[p].kind = "bag"
    PROVE  p = BagPath(ex[p]) /\ Parsed(ex, p, "bag") /\ ex[p].record_count \in Nat \ {0}
BY DEF Right, PathOf, Accepts

LEMMA RightResult ==
    ASSUME NEW ex, NEW p, Right(ex, p), ex[p].kind = "result"
    PROVE  /\ p = ResultPath(ex[p]) /\ CheckResult(ex, ex[p]) /\ TypedResult(ex[p])
           /\ ex[p].analysis_id # Null => \E v : ex[p].analysis_id = Hash(v)
<1>1. p = ResultPath(ex[p]) /\ CheckResult(ex, ex[p]) /\ TypedResult(ex[p])
  BY DEF Right, PathOf, Accepts, Check
<1>2. ASSUME ex[p].analysis_id # Null PROVE \E v : ex[p].analysis_id = Hash(v)
  <2>1. ex[p].analysis_id = AnalysisID(ex[p].execution_id, ex[p].bag.sha256, ex[p].analysis_hash)
    BY <1>1, <1>2 DEF CheckResult, CheckAnalysis
  <2>. QED
    BY <2>1 DEF AnalysisID
<1>. QED
  BY <1>1, <1>2

LEMMA RightEvent ==
    ASSUME NEW ex, NEW p, Right(ex, p), ex[p].kind = "event"
    PROVE  /\ p = EventPath(ex[p]) /\ CheckEvent(ex, ex[p]) /\ ex[p].sequence \in Nat
           /\ ex[p].event_id = EventID(ex[p].job_id, ex[p].attempt_id, ex[p].sequence)
BY DEF Right, PathOf, Accepts, Check, CheckEvent

LEMMA SameResultPath ==
    ASSUME NEW r, NEW d, ResultPath(r) = ResultPath(d),
           r.analysis_id # Null => \E v : r.analysis_id = Hash(v),
           d.analysis_id # Null => \E v : d.analysis_id = Hash(v)
    PROVE  /\ r.analysis_id = d.analysis_id
           /\ r.analysis_id = Null => r.execution_id = d.execution_id
<1>1. \A v, w : [run |-> v] # Hash(w)
  BY DEF Hash
<1>2. \A v, w : [run |-> v] = [run |-> w] => v = w
  OBVIOUS
<1>3. CASE r.analysis_id = Null /\ d.analysis_id = Null
  BY <1>2, <1>3, PathParts DEF ResultPath
<1>4. CASE r.analysis_id # Null /\ d.analysis_id # Null
  BY <1>4, PathParts DEF ResultPath
<1>5. CASE ~(r.analysis_id = Null <=> d.analysis_id = Null)
  BY <1>1, <1>5, PathParts DEF ResultPath
<1>. QED
  BY <1>3, <1>4, <1>5

\* An identity belongs to one file.
LEMMA OneIdentity ==
    ASSUME NEW ex, AllRight(ex), Numbered(ex), NEW p \in DOMAIN ex, NEW q \in DOMAIN ex,
           NEW i, i \in ReaderIdentities(ex[p]), i \in ReaderIdentities(ex[q])
    PROVE  p = q
<1>1. Right(ex, p) /\ Right(ex, q) /\ ex[p].kind \in Kinds /\ ex[q].kind \in Kinds
  BY DEF AllRight, Right
<1>2. \A d : d.kind \in Kinds /\ i \in ReaderIdentities(d) =>
        \/ d.kind = "job" /\ i[1] \in {"job", "execution"}
        \/ d.kind = "event" /\ i[1] \in {"event", "sequence"}
        \/ d.kind = "bag" /\ i[1] = "bag"
        \/ d.kind = "result" /\ i[1] = "result"
  BY DEF ReaderIdentities, Kinds
<1>3. ex[p].kind = ex[q].kind
  BY <1>1, <1>2
<1>4. CASE ex[p].kind = "job"
  <2>1. /\ p = JobPath(ex[p]) /\ (ex[p] \in Runs \/ ex[p].job_kind = "analysis")
        /\ q = JobPath(ex[q]) /\ (ex[q] \in Runs \/ ex[q].job_kind = "analysis")
    BY <1>1, <1>3, <1>4, RightJob
  <2>2. \/ i = <<"job", ex[p].job_id>> /\ i = <<"job", ex[q].job_id>>
        \/ /\ i = <<"execution", ex[p].execution_id>> /\ ex[p].job_kind = "run"
           /\ i = <<"execution", ex[q].execution_id>> /\ ex[q].job_kind = "run"
    BY <1>3, <1>4 DEF ReaderIdentities
  <2>3. CASE i = <<"job", ex[p].job_id>> /\ i = <<"job", ex[q].job_id>>
    BY <2>1, <2>3 DEF JobPath
  <2>4. CASE /\ i = <<"execution", ex[p].execution_id>> /\ ex[p].job_kind = "run"
             /\ i = <<"execution", ex[q].execution_id>> /\ ex[q].job_kind = "run"
    <3>1. ex[p].execution_id = ex[q].execution_id
      BY <2>4
    <3>2. ex[p] \in Runs /\ ex[q] \in Runs
      BY <2>1, <2>4
    <3>. QED
      BY <2>1, <3>1, <3>2, RunsAssumption
  <2>. QED
    BY <2>2, <2>3, <2>4
<1>5. CASE ex[p].kind = "event"
  <2>1. p = EventPath(ex[p]) /\ q = EventPath(ex[q])
    BY <1>1, <1>3, <1>5, RightEvent
  <2>2. \/ i = <<"event", ex[p].event_id>> /\ i = <<"event", ex[q].event_id>>
        \/ /\ i = <<"sequence", ex[p].job_id, ex[p].sequence>>
           /\ i = <<"sequence", ex[q].job_id, ex[q].sequence>>
    BY <1>3, <1>5 DEF ReaderIdentities
  <2>3. CASE i = <<"event", ex[p].event_id>> /\ i = <<"event", ex[q].event_id>>
    BY <2>1, <2>3 DEF EventPath
  <2>4. CASE /\ i = <<"sequence", ex[p].job_id, ex[p].sequence>>
             /\ i = <<"sequence", ex[q].job_id, ex[q].sequence>>
    <3>1. ex[p].job_id = ex[q].job_id /\ ex[p].sequence = ex[q].sequence
      BY <2>4
    <3>. QED
      BY <1>3, <1>5, <3>1 DEF Numbered
  <2>. QED
    BY <2>2, <2>3, <2>4
<1>6. CASE ex[p].kind = "bag"
  <2>1. p = BagPath(ex[p]) /\ q = BagPath(ex[q])
    BY <1>1, <1>3, <1>6, RightBag
  <2>2. i = <<"bag", ex[p].execution_id>> /\ i = <<"bag", ex[q].execution_id>>
    BY <1>3, <1>6 DEF ReaderIdentities
  <2>. QED
    BY <2>1, <2>2 DEF BagPath
<1>7. CASE ex[p].kind = "result"
  <2>1. p = ResultPath(ex[p]) /\ q = ResultPath(ex[q])
    BY <1>1, <1>3, <1>7, RightResult
  <2>2. /\ i = <<"result", ex[p].execution_id, ex[p].analysis_id>>
        /\ i = <<"result", ex[q].execution_id, ex[q].analysis_id>>
    BY <1>3, <1>7 DEF ReaderIdentities
  <2>. QED
    BY <2>1, <2>2 DEF ResultPath
<1>. QED
  BY <1>1, <1>4, <1>5, <1>6, <1>7 DEF Kinds

LEMMA ReadersNumberMore ==
    ASSUME NEW d, d.kind \in Kinds
    PROVE  Identities(d) \subseteq ReaderIdentities(d)
BY DEF Kinds, Identities, ReaderIdentities

LEMMA RightIsValid ==
    ASSUME NEW ex, AllRight(ex), Numbered(ex)
    PROVE  /\ ValidatesAll(ex)
           /\ \A p \in DOMAIN ex : Reads(ex, p, ex[p].kind)
           /\ Agreed(ex)
<1>1. \A p \in DOMAIN ex : Right(ex, p) /\ ex[p].kind \in Kinds
  BY DEF AllRight, Right
<1>2. TypedResults(ex)
  BY <1>1, RightResult DEF TypedResults
<1>3. TypedJobs(ex)
  BY <1>1, RightJob, RunsAssumption DEF TypedJobs
<1>4. \A p \in DOMAIN ex : Accepts(ex, p, ex[p].kind)
  BY <1>1 DEF Right
<1>5. ASSUME NEW p \in DOMAIN ex PROVE Reads(ex, p, ex[p].kind)
  BY <1>1, <1>2, <1>3, <1>4, RightPath, Agreement
<1>6. Agreed(ex)
  BY OneIdentity DEF Agreed
<1>7. ASSUME NEW p \in DOMAIN ex, NEW q \in DOMAIN ex,
             Identities(ex[p]) \cap Identities(ex[q]) # {}
      PROVE  p = q
  BY <1>1, <1>7, ReadersNumberMore, OneIdentity
<1>. QED
  BY <1>4, <1>5, <1>6, <1>7 DEF ValidatesAll

-----------------------------------------------------------------------------
(* Results. What Evaluate reports fits the template it was asked for.      *)

\* A flag says whether a condition holds.
Means(flag, condition) == flag \in BOOLEAN /\ (flag <=> condition)
Fits(m, name, template, records) ==
    CheckMetric(m, name, template, records) /\ TypedMetric(m)

LEMMA MeasuredFits ==
    ASSUME NEW name \in MetricNames, NEW template, NEW records, NEW m,
           m.unit = Unit[name], m.version = template[name].version,
           \A t \in m.evidence_ticks : t < records,
           \/ m.value = Null /\ m.pass = Null /\ m.evidence_ticks = {}
           \/ /\ m.value \in Int /\ InRange(name, m.value)
              /\ Means(m.pass, Meets(name, m.value, template))
    PROVE  Fits(m, name, template, records)
<1>1. CASE m.value = Null
  <2>1. m.pass = Null /\ m.evidence_ticks = {}
    BY <1>1, NullAssumption
  <2>. QED
    BY <1>1, <2>1 DEF Fits, TypedMetric, CheckMetric, Cited
<1>2. CASE m.value # Null
  <2>1. m.value \in Int /\ InRange(name, m.value) /\ Means(m.pass, Meets(name, m.value, template))
    BY <1>2
  <2>2. Meets(name, m.value, template) \in BOOLEAN
    BY DEF Meets
  <2>3. m.pass = Meets(name, m.value, template) /\ m.pass \in BOOLEAN
    BY <2>1, <2>2 DEF Means
  <2>4. m.pass # Null
    BY <2>3, NullAssumption
  <2>. QED
    BY <1>2, <2>1, <2>3, <2>4 DEF Fits, TypedMetric, CheckMetric, Cited
<1>. QED
  BY <1>1, <1>2

LEMMA MeasuredFields ==
    ASSUME NEW value, NEW version, NEW unit, NEW pass, NEW ticks, NEW m,
           m = Measured(value, version, unit, pass, ticks)
    PROVE  /\ m.value = value /\ m.version = version /\ m.unit = unit
           /\ m.pass = pass /\ m.evidence_ticks = ticks
BY DEF Measured

LEMMA ReportFits ==
    ASSUME NullIsNoObject, NEW template, TypedLimits(template), NEW n \in Nat \ {0},
           NEW m \in Reports(template, n)
    PROVE  m # Null /\ \A name \in MetricNames : Fits(m[name], name, template, n)
<1>. DEFINE least == template["minimum_obstacle_gap"].minimum_mm
            needed == template["goal_progress"].minimum_ppm
<1>1. PICK v \in Measures :
        /\ Supported(template)
        /\ m = Reported(template, v.collisions, {t \in {n - 1} : v.collisions > 0}, v.gap, 0,
                        v.progress, n - 1)
  BY DEF Reports
<1>2. /\ v.collisions \in Nat /\ v.gap \in Int \cup {Null} /\ v.progress \in (0..Whole) \cup {Null}
      /\ least \in Int /\ needed \in Int /\ Whole \in Nat
  BY MeasuresAssumption, ScaleAssumption DEF TypedLimits
<1>3. DEFINE ticks == {t \in {n - 1} : v.collisions > 0}
<1>4. \A t \in ticks : t < n
  OBVIOUS
<1>. HIDE DEF ticks, least, needed
<1>5. m # Null
  BY <1>1 DEF NullIsNoObject, Reported
<1>6. Fits(m["collision_count"], "collision_count", template, n)
  <2>1. PICK pass : Means(pass, v.collisions = 0)
    BY DEF Means
  <2>2. (v.collisions = 0) = pass /\ pass \in BOOLEAN
    BY <2>1 DEF Means
  <2>3. m["collision_count"] = Measured(v.collisions, 1, "count", pass, ticks)
    BY <1>1, <2>2 DEF Reported, ticks
  <2>4. /\ Means(pass, Meets("collision_count", v.collisions, template))
        /\ InRange("collision_count", v.collisions) /\ v.collisions \in Int
    BY <1>2, <2>1 DEF Meets, InRange, Means
  <2>5. /\ template["collision_count"].version = 1 /\ Unit["collision_count"] = "count"
        /\ "collision_count" \in MetricNames
    BY <1>1 DEF Supported, Unit, MetricNames
  <2>6. /\ m["collision_count"].value = v.collisions /\ m["collision_count"].version = 1
        /\ m["collision_count"].unit = "count" /\ m["collision_count"].pass = pass
        /\ m["collision_count"].evidence_ticks = ticks
    BY <2>3, MeasuredFields
  <2>. QED
    BY <1>4, <2>4, <2>5, <2>6, MeasuredFits
<1>7. Fits(m["minimum_obstacle_gap"], "minimum_obstacle_gap", template, n)
  <2>. DEFINE version == template["minimum_obstacle_gap"].version
              gap == m["minimum_obstacle_gap"]
  <2>1. Unit["minimum_obstacle_gap"] = "mm" /\ "minimum_obstacle_gap" \in MetricNames
    BY DEF Unit, MetricNames
  <2>2. CASE v.gap = Null
    <3>1. gap = Measured(Null, version, "mm", Null, {})
      BY <1>1, <2>2 DEF Reported, Unavailable
    <3>2. /\ gap.value = Null /\ gap.version = version /\ gap.unit = "mm" /\ gap.pass = Null
          /\ gap.evidence_ticks = {}
      BY <3>1, MeasuredFields
    <3>. QED
      BY <2>1, <3>2, MeasuredFits
  <2>3. CASE v.gap # Null
    <3>1. PICK pass : Means(pass, v.gap >= least)
      BY DEF Means
    <3>2. (v.gap >= least) = pass /\ pass \in BOOLEAN /\ v.gap \in Int
      BY <1>2, <2>3, <3>1 DEF Means
    <3>3. gap = Measured(v.gap, version, "mm", pass, {0})
      BY <1>1, <2>3, <3>2 DEF Reported, least
    <3>4. /\ Means(pass, Meets("minimum_obstacle_gap", v.gap, template))
          /\ InRange("minimum_obstacle_gap", v.gap)
      BY <3>1 DEF Meets, InRange, Means, least
    <3>5. /\ gap.value = v.gap /\ gap.version = version /\ gap.unit = "mm" /\ gap.pass = pass
          /\ gap.evidence_ticks = {0}
      BY <3>3, MeasuredFields
    <3>. QED
      BY <2>1, <3>2, <3>4, <3>5, MeasuredFits
  <2>. QED
    BY <2>2, <2>3
<1>8. Fits(m["goal_progress"], "goal_progress", template, n)
  <2>. DEFINE progress == m["goal_progress"]
  <2>1. /\ Unit["goal_progress"] = "ppm" /\ "goal_progress" \in MetricNames
        /\ template["goal_progress"].version = 1
    BY <1>1 DEF Unit, MetricNames, Supported
  <2>2. CASE v.progress = Null
    <3>1. progress = Measured(Null, 1, "ppm", Null, {})
      BY <1>1, <2>2 DEF Reported, Unavailable
    <3>2. /\ progress.value = Null /\ progress.version = 1 /\ progress.unit = "ppm"
          /\ progress.pass = Null /\ progress.evidence_ticks = {}
      BY <3>1, MeasuredFields
    <3>. QED
      BY <2>1, <3>2, MeasuredFits
  <2>3. CASE v.progress # Null
    <3>1. PICK pass : Means(pass, v.progress >= needed)
      BY DEF Means
    <3>2. (v.progress >= needed) = pass /\ pass \in BOOLEAN /\ v.progress \in 0..Whole
          /\ v.progress \in Int
      BY <1>2, <2>3, <3>1 DEF Means
    <3>3. progress = Measured(v.progress, 1, "ppm", pass, {n - 1})
      BY <1>1, <2>3, <3>2 DEF Reported, needed
    <3>4. /\ Means(pass, Meets("goal_progress", v.progress, template))
          /\ InRange("goal_progress", v.progress)
      BY <3>1, <3>2 DEF Meets, InRange, Means, needed
    <3>5. /\ progress.value = v.progress /\ progress.version = 1 /\ progress.unit = "ppm"
          /\ progress.pass = pass /\ progress.evidence_ticks = {n - 1}
      BY <3>3, MeasuredFields
    <3>. QED
      BY <2>1, <3>2, <3>4, <3>5, MeasuredFits
  <2>. QED
    BY <2>2, <2>3
<1>. QED
  BY <1>5, <1>6, <1>7, <1>8 DEF MetricNames

-----------------------------------------------------------------------------
(* Documents that producers place.                                         *)

LEMMA PlacedIsParsed ==
    ASSUME NEW ex, NEW p \in DOMAIN ex, ex[p].kind \in Kinds, p = PathOf(ex[p]),
           ex[p].kind = "bag" => ParseBag(ex[p])
    PROVE  Parsed(ex, p, ex[p].kind) /\ p.folder = Folder(ex[p].kind)
<1>1. /\ p.folder = Folder(ex[p].kind)
      /\ p.ext = IF ex[p].kind = "bag" THEN "jsonl" ELSE "json"
  BY PathParts DEF Kinds, PathOf, JobPath, BagPath, ResultPath, EventPath
<1>. QED
  BY <1>1 DEF Parsed, ValidPath

LEMMA PlacedIsReferred ==
    ASSUME NEW ex, NEW p, Right(ex, p), NullIsNoObject
    PROVE  Referred(ex, Reference(p, ex[p]), ex[p].kind)
<1>1. Reference(p, ex[p]) # Null /\ Parsed(ex, p, ex[p].kind) /\ p.folder = Folder(ex[p].kind)
  BY ObjectsAreNotNull, RightPath DEF Right, Accepts, Reference
<1>. QED
  BY <1>1 DEF Referred, Pinned, Reference

\* A result of a job that says what the attempt of its row may say.
Result(ex, q, attempt, analysis, r) ==
    /\ r.kind = "result" /\ TypedResult(r) /\ Evaluated(ex, r) /\ CheckResult(ex, r)
    /\ SameJob(ex[q], r) /\ r.attempt_id = attempt
    /\ r.analysis_id = analysis /\ r.status \in Terminal

LEMMA BaseFields ==
    ASSUME NEW p, NEW attempt, NEW r, r = BaseResult(p, attempt)
    PROVE  /\ r.kind = "result" /\ r.execution_id = files[p].execution_id
           /\ r.job_id = files[p].job_id /\ r.correlation_id = files[p].correlation_id
           /\ r.attempt_id = attempt /\ r.job = Reference(p, files[p])
           /\ r.inputs_hash = files[p].inputs_hash /\ r.bag = Null /\ r.analysis_id = Null
           /\ r.analysis_hash = Null /\ r.analysis_template = Null
           /\ r.failure_class = Null /\ r.metrics = Null
           /\ DOMAIN r = {"kind", "execution_id", "job_id", "correlation_id", "attempt_id",
                          "job", "inputs_hash", "bag", "analysis_id", "analysis_hash",
                          "analysis_template", "status", "failure_class", "metrics"}
BY DEF BaseResult

LEMMA JobReferred ==
    ASSUME NullIsNoObject, NEW ex, Extends(files, ex), NEW p \in DOMAIN files,
           Right(files, p), files[p].kind = "job"
    PROVE  /\ ex[p] = files[p] /\ CheckJob(ex, files[p])
           /\ Referred(ex, Reference(p, files[p]), "job")
<1>1. ex[p] = files[p] /\ Right(ex, p)
  BY RightKept DEF Extends
<1>2. CheckJob(ex, files[p])
  BY <1>1, RightJob
<1>. QED
  BY <1>1, <1>2, PlacedIsReferred

\* A run that failed in simulation.
LEMMA FailedRun ==
    ASSUME NullIsNoObject, NEW ex, Extends(files, ex), NEW p \in DOMAIN files,
           Right(files, p), files[p].kind = "job", files[p].job_kind = "run", NEW attempt,
           NEW class \in {"simulation_timeout", "controller_failure", "worker_failure"}
    PROVE  Result(ex, p, attempt, Null, Failure(BaseResult(p, attempt), class))
<1>. DEFINE base == BaseResult(p, attempt)
            r == Failure(base, class)
<1>1. /\ r.kind = "result" /\ r.execution_id = files[p].execution_id
      /\ r.job_id = files[p].job_id /\ r.correlation_id = files[p].correlation_id
      /\ r.attempt_id = attempt /\ r.job = Reference(p, files[p])
      /\ r.inputs_hash = files[p].inputs_hash /\ r.bag = Null /\ r.analysis_id = Null
      /\ r.analysis_hash = Null /\ r.analysis_template = Null
      /\ r.status = "ERROR" /\ r.failure_class = class /\ r.metrics = Null
  BY BaseFields DEF Failure
<1>2. class # Null /\ class # "analysis_failure"
  BY NullAssumption DEF FailureClasses
<1>3. r.job.path = p
  BY <1>1 DEF Reference
<1>4. /\ ex[p] = files[p] /\ CheckJob(ex, files[p])
      /\ Referred(ex, Reference(p, files[p]), "job")
  BY JobReferred
<1>. HIDE DEF r, base
<1>5. SameJob(r, ex[p]) /\ SameJob(ex[p], r) /\ RunFailed(r, ex[p])
  BY <1>1, <1>2, <1>4 DEF SameJob, RunFailed
<1>6. CheckResult(ex, r)
  BY <1>1, <1>2, <1>3, <1>4, <1>5 DEF CheckResult
<1>7. TypedResult(r) /\ Evaluated(ex, r) /\ r.status \in Terminal
  BY <1>1 DEF TypedResult, Evaluated, Terminal
<1>8. Result(ex, p, attempt, Null, r)
  BY <1>1, <1>5, <1>6, <1>7 DEF Result
<1>. QED
  BY <1>8 DEF r, base

\* The recording a job's analysis reads.
Analysable(ex, job, bag) ==
    /\ Referred(ex, bag, "bag")
    /\ ex[bag.path].execution_id = job.execution_id
    /\ job.job_kind = "run" => OfRun(job, ex[bag.path])
    /\ job.job_kind = "analysis" => job.inputs.bag = bag
    /\ ex[bag.path].record_count \in Nat \ {0}

\* An analysis that failed, or was scored.
LEMMA ScoredRun ==
    ASSUME NullIsNoObject, NEW ex, Extends(files, ex), NEW p \in DOMAIN files,
           Right(files, p), files[p].kind = "job", NEW attempt,
           NEW bag, Analysable(ex, files[p], bag),
           NEW r,
           LET template == files[p].inputs.analysis_template
               analysis == Analysis(BaseResult(p, attempt), template, bag)
           IN \/ r = Failure(analysis, "worker_failure")
              \/ r \in Score(analysis, template, ex[bag.path].record_count)
    PROVE  Result(ex, p, attempt,
                  AnalysisID(files[p].execution_id, bag.sha256,
                             Hash(files[p].inputs.analysis_template)), r)
<1>. DEFINE template == files[p].inputs.analysis_template
            analysis == Analysis(BaseResult(p, attempt), template, bag)
            id == AnalysisID(files[p].execution_id, bag.sha256, Hash(template))
            count == ex[bag.path].record_count
<1>1. /\ ex[p] = files[p] /\ CheckJob(ex, files[p])
      /\ Referred(ex, Reference(p, files[p]), "job")
  BY JobReferred
<1>2. id # Null /\ Hash(template) # Null
  BY ObjectsAreNotNull DEF AnalysisID
<1>3. PICK a : a = analysis
  OBVIOUS
<1>4. /\ a.kind = "result" /\ a.execution_id = files[p].execution_id
      /\ a.job_id = files[p].job_id /\ a.correlation_id = files[p].correlation_id
      /\ a.attempt_id = attempt /\ a.job = Reference(p, files[p])
      /\ a.inputs_hash = files[p].inputs_hash /\ a.bag = bag
      /\ a.analysis_id = id /\ a.analysis_hash = Hash(template) /\ a.analysis_template = template
      /\ a.failure_class = Null /\ a.metrics = Null
      /\ DOMAIN a = {"kind", "execution_id", "job_id", "correlation_id", "attempt_id",
                     "job", "inputs_hash", "bag", "analysis_id", "analysis_hash",
                     "analysis_template", "status", "failure_class", "metrics"}
  <2>. DEFINE base == BaseResult(p, attempt)
  <2>1. PICK b : b = base
    OBVIOUS
  <2>. HIDE DEF template, base, count
  <2>2. a = Analysis(b, template, bag)
    BY <1>3, <2>1 DEF base
  <2>. QED
    BY <2>1, <2>2, BaseFields DEF Analysis, base, template
<1>5. \/ \E class \in {"worker_failure", "analysis_failure"} : r = Failure(a, class)
      \/ \E m \in Reports(template, count) : r = [a EXCEPT !.status = Overall(m), !.metrics = m]
  BY <1>3 DEF Score
<1>6. TypedLimits(template) /\ count \in Nat \ {0}
  BY RightJob DEF Analysable
<1>. HIDE DEF analysis, id, template, count
<1>7. /\ r.kind = "result" /\ r.execution_id = files[p].execution_id
      /\ r.job_id = files[p].job_id /\ r.correlation_id = files[p].correlation_id
      /\ r.attempt_id = attempt /\ r.job = Reference(p, files[p])
      /\ r.inputs_hash = files[p].inputs_hash /\ r.bag = bag
      /\ r.analysis_id = id /\ r.analysis_hash = Hash(template) /\ r.analysis_template = template
  BY <1>4, <1>5 DEF Failure
<1>8. SameJob(r, ex[p]) /\ SameJob(ex[p], r) /\ r.job.path = p
  BY <1>1, <1>7 DEF SameJob, Reference
<1>9. /\ TypedResult(r) /\ r.status \in Terminal
      /\ r.metrics # Null => r.metrics \in Reports(template, count)
      /\ r.status = "ERROR" <=> r.failure_class # Null
      /\ r.status = "ERROR" =>
           r.metrics = Null /\ r.failure_class \in {"worker_failure", "analysis_failure"}
      /\ r.status # "ERROR" => CheckMetrics(r, count)
  <2>1. CASE \E class \in {"worker_failure", "analysis_failure"} : r = Failure(a, class)
    <3>1. PICK class \in {"worker_failure", "analysis_failure"} : r = Failure(a, class)
      BY <2>1
    <3>2. r.status = "ERROR" /\ r.failure_class = class /\ r.metrics = Null
      BY <1>4, <3>1 DEF Failure
    <3>3. class # Null
      BY NullAssumption DEF FailureClasses
    <3>. QED
      BY <3>2, <3>3 DEF TypedResult, Terminal
  <2>2. CASE \E m \in Reports(template, count) : r = [a EXCEPT !.status = Overall(m), !.metrics = m]
    <3>1. PICK m \in Reports(template, count) : r = [a EXCEPT !.status = Overall(m), !.metrics = m]
      BY <2>2
    <3>2. r.status = Overall(m) /\ r.metrics = m /\ r.failure_class = Null
      BY <1>4, <3>1
    <3>3. m # Null /\ \A name \in MetricNames : Fits(m[name], name, template, count)
      BY <1>6, ReportFits
    <3>4. Overall(m) \in Terminal /\ Overall(m) # "ERROR"
      BY DEF Overall, Terminal
    <3>5. CheckMetrics(r, count)
      BY <1>7, <3>2, <3>3 DEF CheckMetrics, Fits
    <3>. QED
      BY <3>2, <3>3, <3>4, <3>5 DEF TypedResult, Fits
  <2>. QED
    BY <1>5, <2>1, <2>2
<1>10. CheckAnalysis(ex, r, ex[p])
  <2>1. /\ Referred(ex, bag, "bag") /\ ex[bag.path].execution_id = ex[p].execution_id
        /\ ex[p].job_kind = "run" => OfRun(ex[p], ex[bag.path])
        /\ ex[p].job_kind = "analysis" => ex[p].inputs.bag = bag
    BY <1>1 DEF Analysable
  <2>2. OwnTemplate(r) = Hash(template) /\ JobTemplate(ex[p]) = Hash(template)
    BY <1>1, <1>7 DEF OwnTemplate, JobTemplate, template
  <2>. QED
    BY <1>1, <1>2, <1>7, <1>9, <2>1, <2>2 DEF CheckAnalysis, id, count
<1>11. CheckResult(ex, r)
  BY <1>1, <1>2, <1>7, <1>8, <1>9, <1>10 DEF CheckResult
<1>12. Evaluated(ex, r)
  BY <1>7, <1>9 DEF Evaluated, count
<1>13. Result(ex, p, attempt, id, r)
  BY <1>7, <1>8, <1>9, <1>11, <1>12 DEF Result
<1>. QED
  BY <1>13 DEF id, template

-----------------------------------------------------------------------------
(* Events.                                                                 *)

\* What addEvent writes for a job.
EventOf(e, job, attempt, sequence, state, analysis, result) ==
    /\ e.kind = "event" /\ SameJob(e, job) /\ e.attempt_id = attempt
    /\ e.event_id = EventID(job.job_id, attempt, sequence) /\ e.sequence = sequence
    /\ e.state = state /\ e.analysis_id = analysis /\ e.result = result
    /\ EventPath(e) = Path("event", EventID(job.job_id, attempt, sequence))

LEMMA EventFields ==
    ASSUME NEW p, NEW attempt, NEW sequence, NEW state, NEW analysis, NEW result
    PROVE  EventOf(Event(p, attempt, sequence, state, analysis, result),
                   files[p], attempt, sequence, state, analysis, result)
BY DEF EventOf, Event, SameJob, EventPath

\* An event is right if its state has the analysis and the result it should have.
Announces(ex, q, e) ==
    /\ e.state \in {"PENDING", "RUNNING", "ANALYZING"} \cup Terminal
    /\ e.state \in Terminal <=> e.result # Null
    /\ e.state \in {"PENDING", "RUNNING"} => e.analysis_id = Null
    /\ e.state = "ANALYZING" => e.analysis_id # Null
    /\ e.state \in Terminal =>
         \E r : /\ Result(ex, q, e.attempt_id, e.analysis_id, r)
                /\ e.state = r.status
                /\ ResultPath(r) \in DOMAIN ex /\ ex[ResultPath(r)] = r
                /\ e.result = Reference(ResultPath(r), r)

LEMMA ResultIsRight ==
    ASSUME NEW ex, NEW q, NEW attempt, NEW analysis, NEW r,
           Result(ex, q, attempt, analysis, r),
           ResultPath(r) \in DOMAIN ex, ex[ResultPath(r)] = r
    PROVE  Right(ex, ResultPath(r))
<1>1. r.kind = "result" /\ ResultPath(r) = PathOf(r) /\ "result" \in Kinds
  BY DEF Result, PathOf, Kinds
<1>2. Parsed(ex, ResultPath(r), r.kind)
  BY <1>1, PlacedIsParsed
<1>3. Accepts(ex, ResultPath(r), r.kind)
  BY <1>1, <1>2 DEF Accepts, Check, Result
<1>. QED
  BY <1>1, <1>3 DEF Right, Result

LEMMA EventIsRight ==
    ASSUME NullIsNoObject, NEW ex, NEW q, NEW e, NEW attempt, NEW sequence \in Nat,
           NEW state, NEW analysis, NEW result,
           EventOf(e, ex[q], attempt, sequence, state, analysis, result),
           Announces(ex, q, e), EventPath(e) \in DOMAIN ex, ex[EventPath(e)] = e
    PROVE  Right(ex, EventPath(e))
<1>1. e.kind = "event" /\ EventPath(e) = PathOf(e) /\ "event" \in Kinds /\ e.sequence \in Nat
  BY DEF EventOf, PathOf, Kinds
<1>2. Parsed(ex, EventPath(e), e.kind)
  BY <1>1, PlacedIsParsed
<1>3. ASSUME e.state \in Terminal
      PROVE  /\ Referred(ex, e.result, "result") /\ CheckResult(ex, ex[e.result.path])
             /\ ReportsResult(e, ex[e.result.path])
  <2>1. PICK r : /\ Result(ex, q, e.attempt_id, e.analysis_id, r)
                 /\ e.state = r.status
                 /\ ResultPath(r) \in DOMAIN ex /\ ex[ResultPath(r)] = r
                 /\ e.result = Reference(ResultPath(r), r)
    BY <1>3 DEF Announces
  <2>2. Right(ex, ResultPath(r)) /\ r.kind = "result"
    BY <2>1, ResultIsRight DEF Result
  <2>3. Referred(ex, e.result, "result") /\ ex[e.result.path] = r
    BY <2>1, <2>2, PlacedIsReferred DEF Reference
  <2>4. SameJob(e, r)
    BY <2>1 DEF SameJob, EventOf, Result
  <2>. QED
    BY <2>1, <2>3, <2>4 DEF Result, ReportsResult
<1>4. e.event_id = EventID(e.job_id, e.attempt_id, e.sequence)
  BY DEF EventOf, SameJob
<1>5. CheckEvent(ex, e)
  BY <1>3, <1>4 DEF CheckEvent, Announces
<1>6. Accepts(ex, EventPath(e), e.kind)
  BY <1>1, <1>2, <1>5 DEF Accepts, Check
<1>. QED
  BY <1>1, <1>6 DEF Right

\* The files of a queue when it has rows.
LEMMA QueueMode ==
    ASSUME Written, NEW p \in DOMAIN rows
    PROVE  /\ mode = "queue" /\ AllOwned(files, rows) /\ p \in DOMAIN files
           /\ RowRight(files, p, rows[p]) /\ Right(files, p) /\ files[p].kind = "job"
           /\ p = JobPath(files[p])
<1>1. mode = "queue" /\ AllOwned(files, rows) /\ RowRight(files, p, rows[p])
  BY DEF Written, ModeRight, RowsRight
<1>2. p \in DOMAIN files /\ files[p].kind = "job"
  BY <1>1 DEF RowRight
<1>3. Right(files, p)
  BY <1>2 DEF Written, AllRight
<1>. QED
  BY <1>1, <1>2, <1>3, RightJob

LEMMA OldEvents ==
    ASSUME Written, NEW p \in DOMAIN rows, NEW q \in DOMAIN files,
           files[q].kind = "event", files[q].job_id = files[p].job_id
    PROVE  files[q].sequence \in Nat /\ files[q].sequence <= rows[p].sequence
<1>1. PICK r \in DOMAIN rows : WorkOf(files[q], files[r], rows[r])
  BY QueueMode DEF AllOwned
<1>2. files[r].job_id = files[p].job_id /\ files[q].sequence <= rows[r].sequence
  BY <1>1 DEF WorkOf
<1>3. r = p
  BY <1>2, QueueMode DEF JobPath
<1>. QED
  BY <1>2, <1>3, RightEvent DEF Written, AllRight

LEMMA SameEventID ==
    ASSUME NEW j, NEW k, NEW a, NEW b, NEW m, NEW n, EventID(j, a, m) = EventID(k, b, n)
    PROVE  j = k /\ m = n
<1>1. <<j, a, m>> = <<k, b, n>>
  BY DEF EventID, Hash
<1>. QED
  BY <1>1

LEMMA FreshEvent ==
    ASSUME NEW ex, AllRight(ex), NEW job, NEW attempt, NEW sequence,
           \A q \in DOMAIN ex : ex[q].kind = "event" =>
              ex[q].job_id # job \/ ex[q].sequence # sequence
    PROVE  Path("event", EventID(job, attempt, sequence)) \notin DOMAIN ex
<1>. SUFFICES ASSUME NEW q \in DOMAIN ex, q = Path("event", EventID(job, attempt, sequence))
              PROVE  FALSE
  OBVIOUS
<1>1. Right(ex, q)
  BY DEF AllRight
<1>2. ex[q].kind = "event"
  <2>1. ex[q].kind \in Kinds /\ "event" \in Kinds /\ Folder(ex[q].kind) = Folder("event")
    BY <1>1, RightPath, PathParts DEF Kinds
  <2>. QED
    BY <2>1, Folders
<1>3. q = Path("event", EventID(ex[q].job_id, ex[q].attempt_id, ex[q].sequence))
  BY <1>1, <1>2, RightEvent DEF EventPath
<1>4. EventID(ex[q].job_id, ex[q].attempt_id, ex[q].sequence) = EventID(job, attempt, sequence)
  BY <1>3, PathParts
<1>. QED
  BY <1>2, <1>4, SameEventID

-----------------------------------------------------------------------------
(* A step of one row of the queue: it adds files next to the others, at    *)
(* most one of them an event, which takes the next number of the row.      *)

Adds(docs, p, row) ==
    /\ p \in DOMAIN rows /\ rows[p].stage # "done"
    /\ rows' = [rows EXCEPT ![p] = row] /\ Publish(docs) /\ UNCHANGED mode
    /\ DOMAIN docs \cap DOMAIN files = {}
    /\ \A q \in DOMAIN docs : /\ docs[q].kind # "job" /\ Right(files', q)
                              /\ WorkOf(docs[q], files[p], row)
                              /\ docs[q].kind = "event" =>
                                   docs[q].sequence = rows[p].sequence + 1
    /\ \A q, r \in DOMAIN docs : docs[q].kind = "event" /\ docs[r].kind = "event" => q = r
    /\ RowRight(files', p, row) /\ rows[p].sequence <= row.sequence
    /\ rows[p].bag # Null => row.bag # Null
    /\ row.analysis_id # Null =>
         \A q \in DOMAIN rows \ {p} : rows[q].analysis_id # row.analysis_id

LEMMA QueueStep ==
    ASSUME Written, NEW docs, NEW p, NEW row, Adds(docs, p, row)
    PROVE  Written'
<1>. USE DEF Adds
<1>1. /\ DOMAIN files' = DOMAIN docs \cup DOMAIN files
      /\ Extends(files, files') /\ Extends(docs, files') /\ files' = Over(docs, files)
  BY OverExtends DEF Publish
<1>2. /\ DOMAIN rows' = DOMAIN rows /\ rows'[p] = row
      /\ \A q \in DOMAIN rows \ {p} : rows'[q] = rows[q]
  OBVIOUS
<1>3. /\ mode = "queue" /\ AllOwned(files, rows) /\ p \in DOMAIN files
      /\ RowRight(files, p, rows[p])
  BY QueueMode
<1>4. AllRight(files')
  BY <1>1, AllRightGrows DEF Written
<1>5. Numbered(files')
  <2>1. ASSUME NEW q \in DOMAIN docs, NEW r \in DOMAIN files,
               docs[q].kind = "event", files[r].kind = "event", docs[q].job_id = files[r].job_id
        PROVE  docs[q].sequence # files[r].sequence
    <3>1. docs[q].sequence = rows[p].sequence + 1 /\ files[p].job_id = docs[q].job_id
      BY <2>1 DEF WorkOf
    <3>2. files[r].sequence \in Nat /\ files[r].sequence <= rows[p].sequence
      BY <2>1, <3>1, OldEvents
    <3>3. rows[p].sequence \in Nat
      BY <1>3 DEF RowRight
    <3>. QED
      BY <3>1, <3>2, <3>3
  <2>. QED
    BY <1>1, <2>1, NumberedGrows DEF Written
<1>6. RowsRight(files', rows')
  <2>1. \A q \in DOMAIN rows : RowRight(files, q, rows[q])
    BY DEF Written, RowsRight
  <2>2. \A q \in DOMAIN rows' : RowRight(files', q, rows'[q])
    BY <1>1, <1>2, <2>1, RowKept
  <2>. QED
    BY <1>2, <2>2 DEF RowsRight, Written
<1>7. AllOwned(files', rows')
  <2>. SUFFICES ASSUME NEW q \in DOMAIN files', files'[q].kind # "job"
                PROVE  \E r \in DOMAIN rows : WorkOf(files'[q], files'[r], rows'[r])
    BY <1>2 DEF AllOwned
  <2>1. CASE q \in DOMAIN docs
    BY <1>1, <1>2, <1>3, <2>1 DEF Extends
  <2>2. CASE q \in DOMAIN files
    <3>1. files'[q] = files[q]
      BY <1>1, <2>2 DEF Extends
    <3>2. PICK r \in DOMAIN rows : WorkOf(files[q], files[r], rows[r])
      BY <1>3, <2>2, <3>1 DEF AllOwned
    <3>3. r \in DOMAIN files /\ files'[r] = files[r]
      BY <1>1, QueueMode DEF Extends
    <3>4. WorkOf(files[q], files[r], rows'[r])
      <4>1. CASE r = p
        <5>1. files[q].kind = "event" => files[q].sequence \in Nat
          BY <2>2 DEF Written, AllRight, Right
        <5>2. rows[p].sequence \in Nat /\ row.sequence \in Nat
          BY <1>3 DEF RowRight
        <5>. QED
          BY <1>2, <3>2, <4>1, <5>1, <5>2 DEF WorkOf
      <4>2. CASE r # p
        BY <1>2, <3>2, <4>2
      <4>. QED
        BY <4>1, <4>2
    <3>. QED
      BY <3>1, <3>3, <3>4
  <2>. QED
    BY <1>1, <2>1, <2>2
<1>. QED
  BY <1>3, <1>4, <1>5, <1>6, <1>7 DEF Written, ModeRight

\* A step whose only document is the event.
Says(p, e, attempt, state, analysis, row) ==
    /\ p \in DOMAIN rows /\ rows[p].stage # "done"
    /\ rows' = [rows EXCEPT ![p] = row] /\ Publish(Announced(e)) /\ UNCHANGED mode
    /\ EventOf(e, files[p], attempt, rows[p].sequence + 1, state, analysis, Null)
    /\ state \in {"PENDING", "RUNNING", "ANALYZING"}
    /\ state \in {"PENDING", "RUNNING"} <=> analysis = Null
    /\ DOMAIN row = DOMAIN rows[p] /\ row.stage = rows[p].stage /\ row.bag = rows[p].bag
    /\ row.analysis_id = rows[p].analysis_id /\ row.sequence = e.sequence /\ row.state = state
    /\ rows[p].stage = "simulation" => state = "RUNNING"
    /\ rows[p].stage = "analysis" => state = "ANALYZING"

LEMMA EventStep ==
    ASSUME NullIsNoObject, Written, NEW p, NEW e, NEW attempt, NEW state, NEW analysis, NEW row,
           Says(p, e, attempt, state, analysis, row)
    PROVE  Written'
<1>. USE DEF Says
<1>. DEFINE docs == Announced(e)
<1>1. /\ RowRight(files, p, rows[p]) /\ p \in DOMAIN files /\ rows[p].sequence \in Nat
      /\ rows[p].sequence + 1 \in Nat /\ rows[p].sequence <= rows[p].sequence + 1
  BY QueueMode DEF RowRight
<1>2. /\ e.kind = "event" /\ e.sequence = rows[p].sequence + 1 /\ e.job_id = files[p].job_id
      /\ e.state = state /\ e.analysis_id = analysis /\ e.result = Null
      /\ EventPath(e) = Path("event", EventID(files[p].job_id, attempt, e.sequence))
  BY DEF EventOf, SameJob
<1>3. EventPath(e) \notin DOMAIN files
  <2>1. \A q \in DOMAIN files : files[q].kind = "event" =>
           files[q].job_id # files[p].job_id \/ files[q].sequence # e.sequence
    BY <1>1, <1>2, OldEvents
  <2>. QED
    BY <1>2, <2>1, FreshEvent DEF Written
<1>4. DOMAIN docs = {EventPath(e)} /\ docs[EventPath(e)] = e
  BY AtOne DEF Announced
<1>. HIDE DEF docs
<1>5. /\ Extends(files, files') /\ EventPath(e) \in DOMAIN files' /\ files'[EventPath(e)] = e
  <2>1. files' = Over(docs, files) /\ DOMAIN docs \cap DOMAIN files = {}
    BY <1>3, <1>4 DEF Publish, docs
  <2>. QED
    BY <1>4, <2>1, OverExtends DEF Extends
<1>6. files'[p] = files[p]
  BY <1>1, <1>5 DEF Extends
<1>7. Announces(files', p, e)
  BY <1>2 DEF Announces, Terminal
<1>8. Right(files', EventPath(e))
  BY <1>1, <1>2, <1>5, <1>6, <1>7, EventIsRight
<1>9. RowRight(files', p, row)
  <2>1. RowRight(files', p, rows[p])
    BY <1>1, <1>5, RowKept
  <2>2. \A ex, job : Attached(ex, job, rows[p]) => Attached(ex, job, row)
    BY DEF Attached
  <2>. QED
    BY <1>1, <1>2, <2>1, <2>2 DEF RowRight
<1>10. WorkOf(e, files[p], row)
  BY <1>1, <1>2 DEF WorkOf
<1>11. rows[p].analysis_id # Null =>
         \A q \in DOMAIN rows \ {p} : rows[q].analysis_id # rows[p].analysis_id
  BY DEF Written, RowsRight
<1>12. Adds(docs, p, row)
  BY <1>1, <1>2, <1>3, <1>4, <1>8, <1>9, <1>10, <1>11 DEF docs, Adds
<1>. QED
  BY <1>12, QueueStep

LEMMA ClaimWrites ==
    ASSUME NullIsNoObject, Written, NEW p, Claim(p) PROVE Written'
<1>. DEFINE state == IF rows[p].stage = "simulation" THEN "RUNNING" ELSE "ANALYZING"
            e == NextEvent(p, rows[p].attempt, state, rows[p].analysis_id, Null)
            row == [rows[p] EXCEPT !.state = e.state, !.sequence = e.sequence]
<1>1. /\ p \in DOMAIN rows /\ rows[p].state = "PENDING" /\ UNCHANGED mode
      /\ Publish(Announced(e)) /\ rows' = [rows EXCEPT ![p] = row]
  BY DEF Claim, Working, Advance
<1>2. EventOf(e, files[p], rows[p].attempt, rows[p].sequence + 1, state, rows[p].analysis_id, Null)
  BY EventFields DEF NextEvent
<1>3. RowRight(files, p, rows[p]) /\ rows[p].stage # "done"
  BY <1>1, QueueMode DEF RowRight, Terminal
<1>4. e.state = state
  BY <1>2 DEF EventOf
<1>. HIDE DEF e
<1>5. /\ DOMAIN row = DOMAIN rows[p] /\ row.stage = rows[p].stage /\ row.bag = rows[p].bag
      /\ row.analysis_id = rows[p].analysis_id /\ row.sequence = e.sequence /\ row.state = state
  BY <1>3, <1>4 DEF RowRight
<1>6. /\ state \in {"PENDING", "RUNNING", "ANALYZING"}
      /\ state \in {"PENDING", "RUNNING"} <=> rows[p].analysis_id = Null
      /\ rows[p].stage = "simulation" => state = "RUNNING"
      /\ rows[p].stage = "analysis" => state = "ANALYZING"
  BY <1>3 DEF RowRight
<1>. HIDE DEF row, state
<1>7. Says(p, e, rows[p].attempt, state, rows[p].analysis_id, row)
  BY <1>1, <1>2, <1>3, <1>5, <1>6 DEF Says
<1>. QED
  BY <1>7, EventStep

\* What a claimed row is: in simulation, or with a recording to analyse.
LEMMA Claimed ==
    ASSUME NullIsNoObject, Written, NEW p \in DOMAIN rows,
           rows[p].state \in {"RUNNING", "ANALYZING"}
    PROVE  /\ rows[p].state = "RUNNING" => rows[p].stage = "simulation"
           /\ rows[p].stage # "simulation" =>
                rows[p].stage = "analysis" /\ rows[p].state = "ANALYZING"
           /\ rows[p].stage = "simulation" =>
                /\ rows[p].state = "RUNNING" /\ files[p].job_kind = "run" /\ files[p] \in Runs
                /\ rows[p].bag = Null /\ rows[p].analysis_id = Null
           /\ rows[p].stage = "analysis" =>
                /\ rows[p].analysis_id =
                     AnalysisID(files[p].execution_id, rows[p].bag.sha256,
                                Hash(files[p].inputs.analysis_template))
                /\ rows[p].analysis_id # Null /\ rows[p].bag # Null
                /\ Analysable(files, files[p], rows[p].bag)
<1>1. RowRight(files, p, rows[p]) /\ Right(files, p) /\ files[p].kind = "job"
  BY QueueMode
<1>2. /\ rows[p].state = "RUNNING" => rows[p].stage = "simulation"
      /\ rows[p].stage # "simulation" => rows[p].stage = "analysis" /\ rows[p].state = "ANALYZING"
      /\ rows[p].stage = "simulation" =>
           /\ rows[p].state = "RUNNING" /\ files[p].job_kind = "run"
           /\ rows[p].bag = Null /\ rows[p].analysis_id = Null
  BY <1>1 DEF RowRight, Terminal
<1>3. files[p].job_kind = "run" => files[p] \in Runs
  BY <1>1, RightJob
<1>4. ASSUME rows[p].stage = "analysis"
      PROVE  /\ Attached(files, files[p], rows[p])
             /\ rows[p].analysis_id # Null /\ rows[p].bag # Null
  BY <1>1, <1>4 DEF RowRight
<1>5. ASSUME rows[p].stage = "analysis" PROVE Analysable(files, files[p], rows[p].bag)
  <2>1. Attached(files, files[p], rows[p])
    BY <1>4, <1>5
  <2>2. /\ rows[p].bag.path \in DOMAIN files /\ files[rows[p].bag.path].kind = "bag"
    BY <2>1 DEF Attached, Referred, Parsed
  <2>3. files[rows[p].bag.path].record_count \in Nat \ {0}
    BY <2>2, RightBag DEF Written, AllRight
  <2>. QED
    BY <2>1, <2>3 DEF Attached, Analysable
<1>. QED
  BY <1>2, <1>3, <1>4, <1>5 DEF Attached

\* The result of a claimed row.
LEMMA OutcomeIsResult ==
    ASSUME NullIsNoObject, Written, NEW p \in DOMAIN rows,
           rows[p].state \in {"RUNNING", "ANALYZING"},
           NEW r \in Outcomes(p), NEW ex, Extends(files, ex)
    PROVE  Result(ex, p, rows[p].attempt, rows[p].analysis_id, r)
<1>1. p \in DOMAIN files /\ Right(files, p) /\ files[p].kind = "job"
  BY QueueMode
<1>2. CASE rows[p].stage = "simulation"
  <2>1. /\ rows[p].analysis_id = Null /\ files[p].job_kind = "run"
    BY <1>2, Claimed
  <2>2. PICK class \in {"simulation_timeout", "controller_failure", "worker_failure"} :
          r = Failure(BaseResult(p, rows[p].attempt), class)
    BY <1>2 DEF Outcomes
  <2>. QED
    BY <1>1, <2>1, <2>2, FailedRun
<1>3. CASE rows[p].stage # "simulation"
  <2>. DEFINE template == files[p].inputs.analysis_template
              analysis == Analysis(BaseResult(p, rows[p].attempt), template, rows[p].bag)
  <2>1. /\ rows[p].analysis_id =
             AnalysisID(files[p].execution_id, rows[p].bag.sha256, Hash(template))
        /\ Analysable(files, files[p], rows[p].bag)
    BY <1>3, Claimed
  <2>2. \/ r = Failure(analysis, "worker_failure")
        \/ r \in Score(analysis, template, files[rows[p].bag.path].record_count)
    BY <1>3 DEF Outcomes
  <2>3. Referred(ex, rows[p].bag, "bag") /\ ex[rows[p].bag.path] = files[rows[p].bag.path]
    BY <2>1, ReferredKept DEF Analysable
  <2>4. Analysable(ex, files[p], rows[p].bag)
    BY <2>1, <2>3 DEF Analysable
  <2>. HIDE DEF analysis
  <2>5. \/ r = Failure(analysis, "worker_failure")
        \/ r \in Score(analysis, template, ex[rows[p].bag.path].record_count)
    BY <2>2, <2>3
  <2>6. Result(ex, p, rows[p].attempt,
               AnalysisID(files[p].execution_id, rows[p].bag.sha256, Hash(template)), r)
    BY <1>1, <2>4, <2>5, ScoredRun DEF analysis
  <2>. QED
    BY <2>1, <2>6
<1>. QED
  BY <1>2, <1>3

LEMMA RetryWrites ==
    ASSUME NullIsNoObject, Written, NEW p, Working(p), rows[p].state \in {"RUNNING", "ANALYZING"},
           NEW r \in Outcomes(p), Retry(p, r)
    PROVE  Written'
<1>. DEFINE attempt == rows[p].attempt + 1
            e == NextEvent(p, attempt, rows[p].state, r.analysis_id, Null)
            old == [rows[p] EXCEPT !.attempt = attempt, !.retried = @ \cup {rows[p].stage}]
            row == [old EXCEPT !.state = e.state, !.sequence = e.sequence]
<1>1. /\ p \in DOMAIN rows /\ UNCHANGED mode
      /\ Publish(Announced(e)) /\ rows' = [rows EXCEPT ![p] = row]
  BY DEF Retry, Working, Advance
<1>2. /\ rows[p].state = "RUNNING" => rows[p].stage = "simulation"
      /\ rows[p].stage # "simulation" => rows[p].stage = "analysis" /\ rows[p].state = "ANALYZING"
      /\ rows[p].stage = "simulation" => rows[p].state = "RUNNING" /\ rows[p].analysis_id = Null
      /\ rows[p].stage = "analysis" => rows[p].analysis_id # Null
  BY <1>1, Claimed
<1>3. Extends(files, files)
  BY DEF Extends
<1>4. r.analysis_id = rows[p].analysis_id
  BY <1>1, <1>3, OutcomeIsResult DEF Result
<1>5. EventOf(e, files[p], attempt, rows[p].sequence + 1, rows[p].state, rows[p].analysis_id, Null)
  BY <1>4, EventFields DEF NextEvent
<1>6. RowRight(files, p, rows[p])
  BY <1>1, QueueMode
<1>7. e.state = rows[p].state
  BY <1>5 DEF EventOf
<1>. HIDE DEF e, attempt
<1>8. /\ DOMAIN row = DOMAIN rows[p] /\ row.stage = rows[p].stage /\ row.bag = rows[p].bag
      /\ row.analysis_id = rows[p].analysis_id /\ row.sequence = e.sequence
      /\ row.state = rows[p].state
  BY <1>6, <1>7 DEF RowRight
<1>. HIDE DEF row
<1>9. Says(p, e, attempt, rows[p].state, rows[p].analysis_id, row)
  BY <1>1, <1>2, <1>5, <1>8 DEF Says
<1>. QED
  BY <1>9, EventStep

\* No file has the result of a row that is not done.
LEMMA FreshResult ==
    ASSUME NullIsNoObject, Written, NEW p \in DOMAIN rows,
           rows[p].state \in {"RUNNING", "ANALYZING"},
           NEW attempt, NEW ex, NEW r, Result(ex, p, attempt, rows[p].analysis_id, r), ex[p] = files[p]
    PROVE  ResultPath(r) \notin DOMAIN files
<1>. SUFFICES ASSUME NEW q \in DOMAIN files, q = ResultPath(r) PROVE FALSE
  OBVIOUS
<1>1. Right(files, q)
  BY DEF Written, AllRight
<1>2. files[q].kind = "result"
  <2>1. files[q].kind \in Kinds /\ "result" \in Kinds /\ Folder(files[q].kind) = Folder("result")
    BY <1>1, RightPath, PathParts DEF Kinds, ResultPath
  <2>. QED
    BY <2>1, Folders
<1>3. /\ q = ResultPath(files[q])
      /\ files[q].analysis_id # Null => \E v : files[q].analysis_id = Hash(v)
  BY <1>1, <1>2, RightResult
<1>4. r.execution_id = files[p].execution_id /\ r.analysis_id = rows[p].analysis_id
  BY DEF Result, SameJob
<1>5. r.analysis_id # Null => \E v : r.analysis_id = Hash(v)
  BY <1>4, Claimed DEF AnalysisID
<1>6. /\ r.analysis_id = files[q].analysis_id
      /\ r.analysis_id = Null => r.execution_id = files[q].execution_id
  BY <1>3, <1>5, SameResultPath
<1>7. PICK s \in DOMAIN rows : WorkOf(files[q], files[s], rows[s])
  BY <1>2, QueueMode DEF AllOwned
<1>8. /\ rows[s].stage = "done" /\ rows[s].analysis_id = files[q].analysis_id
      /\ files[q].analysis_id = Null =>
           files[s].job_kind = "run" /\ files[s].execution_id = files[q].execution_id
  BY <1>2, <1>7 DEF WorkOf
<1>9. rows[p].stage # "done"
  BY Claimed
<1>10. CASE r.analysis_id # Null
  <2>1. s = p
    BY <1>4, <1>6, <1>8, <1>10 DEF Written, RowsRight
  <2>. QED
    BY <1>8, <1>9, <2>1
<1>11. CASE r.analysis_id = Null
  <2>1. rows[p].stage = "simulation"
    BY <1>4, <1>11, Claimed
  <2>2. files[p] \in Runs
    BY <2>1, Claimed
  <2>3. files[s].job_kind = "run" /\ files[s].execution_id = files[p].execution_id
    BY <1>4, <1>6, <1>8, <1>11
  <2>4. files[s] \in Runs /\ s = JobPath(files[s]) /\ p = JobPath(files[p])
    BY <2>3, QueueMode, RightJob
  <2>5. files[s] = files[p]
    BY <2>2, <2>3, <2>4, RunsAssumption
  <2>. QED
    BY <1>8, <1>9, <2>4, <2>5
<1>. QED
  BY <1>10, <1>11

LEMMA OtherFolders ==
    ASSUME NEW k \in Kinds, NEW l \in Kinds, k # l, NEW m, NEW n
    PROVE  Path(k, m) # Path(l, n)
BY Folders, PathParts

\* The next event of a row is a new file.
LEMMA NextEventIsNew ==
    ASSUME Written, NEW p \in DOMAIN rows, NEW attempt
    PROVE  Path("event", EventID(files[p].job_id, attempt, rows[p].sequence + 1)) \notin DOMAIN files
<1>1. rows[p].sequence \in Nat
  BY QueueMode DEF RowRight
<1>2. \A q \in DOMAIN files : files[q].kind = "event" =>
         files[q].job_id # files[p].job_id \/ files[q].sequence # rows[p].sequence + 1
  BY <1>1, OldEvents
<1>. QED
  BY <1>2, FreshEvent DEF Written

LEMMA FinishWrites ==
    ASSUME NullIsNoObject, Written, NEW p, Working(p), rows[p].state \in {"RUNNING", "ANALYZING"},
           NEW r \in Outcomes(p), Finish(p, r)
    PROVE  Written'
<1>. DEFINE ref == Reference(ResultPath(r), r)
            attempt == rows[p].attempt
            e == NextEvent(p, attempt, r.status, r.analysis_id, ref)
            docs == Over(At(ResultPath(r), r), Announced(e))
            done == [rows[p] EXCEPT !.stage = "done"]
            row == [done EXCEPT !.state = e.state, !.sequence = e.sequence]
<1>1. /\ p \in DOMAIN rows /\ UNCHANGED mode
      /\ Publish(docs) /\ rows' = [rows EXCEPT ![p] = row]
  BY DEF Finish, Working, Advance
<1>2. /\ rows[p].stage \in {"simulation", "analysis"}
      /\ rows[p].stage = "simulation" => files[p].job_kind = "run" /\ rows[p].analysis_id = Null
      /\ rows[p].stage = "analysis" => rows[p].analysis_id # Null
  BY <1>1, Claimed
<1>3. /\ RowRight(files, p, rows[p]) /\ p \in DOMAIN files /\ rows[p].sequence \in Nat
      /\ rows[p].sequence + 1 \in Nat /\ rows[p].sequence <= rows[p].sequence + 1
  BY <1>1, QueueMode DEF RowRight
<1>4. Result(files, p, attempt, rows[p].analysis_id, r)
  BY <1>1, OutcomeIsResult DEF Extends
<1>5. /\ r.kind = "result" /\ r.status \in Terminal /\ r.analysis_id = rows[p].analysis_id
      /\ files[p].execution_id = r.execution_id
  BY <1>4 DEF Result, SameJob
<1>6. EventOf(e, files[p], attempt, rows[p].sequence + 1, r.status, rows[p].analysis_id, ref)
  BY <1>5, EventFields DEF NextEvent
<1>7. ResultPath(r) \notin DOMAIN files
  BY <1>1, <1>4, FreshResult
<1>8. EventPath(e) \notin DOMAIN files
  BY <1>1, <1>6, NextEventIsNew DEF EventOf
<1>9. /\ DOMAIN docs = {ResultPath(r), EventPath(e)} /\ ResultPath(r) # EventPath(e)
      /\ docs[ResultPath(r)] = r /\ docs[EventPath(e)] = e
  <2>1. ResultPath(r) # EventPath(e)
    BY OtherFolders DEF ResultPath, EventPath, Kinds
  <2>2. docs = Over(At(ResultPath(r), r), At(EventPath(e), e))
    BY DEF Announced
  <2>. HIDE DEF docs, e
  <2>. QED
    BY <2>1, <2>2 DEF Over, At
<1>10. /\ e.kind = "event" /\ e.sequence = rows[p].sequence + 1 /\ e.job_id = files[p].job_id
       /\ e.state = r.status /\ e.analysis_id = rows[p].analysis_id /\ e.result = ref
       /\ e.attempt_id = attempt
  BY <1>6 DEF EventOf, SameJob
<1>. HIDE DEF docs, e, attempt, ref
<1>11. DOMAIN docs \cap DOMAIN files = {} /\ files' = Over(docs, files)
  BY <1>1, <1>7, <1>8, <1>9 DEF Publish
<1>12. /\ Extends(files, files')
       /\ ResultPath(r) \in DOMAIN files' /\ files'[ResultPath(r)] = r
       /\ EventPath(e) \in DOMAIN files' /\ files'[EventPath(e)] = e
  <2>1. Extends(files, files') /\ Extends(docs, files')
    BY <1>11, OverExtends
  <2>. QED
    BY <1>9, <2>1 DEF Extends
<1>13. files'[p] = files[p]
  BY <1>3, <1>12 DEF Extends
<1>14. Result(files', p, attempt, rows[p].analysis_id, r)
  BY <1>1, <1>12, OutcomeIsResult DEF attempt
<1>15. Right(files', ResultPath(r))
  BY <1>12, <1>14, ResultIsRight
<1>16. Announces(files', p, e)
  <2>1. ref # Null
    BY ObjectsAreNotNull DEF ref, Reference
  <2>. QED
    BY <1>5, <1>10, <1>12, <1>14, <2>1 DEF Announces, Terminal, ref
<1>17. Right(files', EventPath(e))
  BY <1>3, <1>6, <1>12, <1>13, <1>16, EventIsRight
<1>18. /\ DOMAIN row = DOMAIN rows[p] /\ row.stage = "done" /\ row.bag = rows[p].bag
       /\ row.analysis_id = rows[p].analysis_id /\ row.sequence = rows[p].sequence + 1
       /\ row.state = r.status
  BY <1>3, <1>10 DEF RowRight
<1>. HIDE DEF row
<1>19. RowRight(files', p, row)
  <2>1. RowRight(files', p, rows[p])
    BY <1>3, <1>12, RowKept
  <2>2. \A ex, job : Attached(ex, job, rows[p]) => Attached(ex, job, row)
    BY <1>18 DEF Attached
  <2>. QED
    BY <1>3, <1>5, <1>18, <2>1, <2>2 DEF RowRight
<1>20. WorkOf(r, files[p], row) /\ WorkOf(e, files[p], row)
  BY <1>2, <1>3, <1>5, <1>10, <1>18 DEF WorkOf
<1>21. rows[p].analysis_id # Null =>
         \A q \in DOMAIN rows \ {p} : rows[q].analysis_id # rows[p].analysis_id
  BY <1>1 DEF Written, RowsRight
<1>22. Adds(docs, p, row)
  BY <1>1, <1>2, <1>3, <1>5, <1>9, <1>10, <1>11, <1>15, <1>17, <1>18, <1>19, <1>20, <1>21 DEF Adds
<1>. QED
  BY <1>22, QueueStep

LEMMA AcceptResultWrites ==
    ASSUME NullIsNoObject, Written, NEW p, AcceptResult(p) PROVE Written'
<1>1. Working(p) /\ rows[p].state \in {"RUNNING", "ANALYZING"}
  BY DEF AcceptResult
<1>2. PICK r \in Outcomes(p) : Retry(p, r) \/ Finish(p, r)
  BY DEF AcceptResult
<1>. QED
  BY <1>1, <1>2, RetryWrites, FinishWrites

-----------------------------------------------------------------------------
(* Recordings.                                                             *)

LEMMA RecordingFields ==
    ASSUME NEW job, NEW count \in Nat
    PROVE  LET bag == Recording(job, count) IN
           /\ bag.kind = "bag" /\ bag.execution_id = job.execution_id
           /\ bag.inputs_hash = job.inputs_hash /\ bag.tick_ms = job.inputs.tick_ms
           /\ bag.record_count = count /\ ParseBag(bag)
<1>. DEFINE bag == Recording(job, count)
            line(i) == [tick |-> i - 1, time_ms |-> (i - 1) * job.inputs.tick_ms]
            ticks == [i \in 1..count |-> line(i)]
            S == {line(i) : i \in 1..count}
<1>1. ticks \in [1..count -> S]
  OBVIOUS
<1>2. ticks \in Seq(S) /\ DOMAIN ticks = 1..count
  BY <1>1
<1>3. Len(ticks) = count
  BY <1>2
<1>4. /\ bag.kind = "bag" /\ bag.newline /\ bag.execution_id = job.execution_id
      /\ bag.inputs_hash = job.inputs_hash /\ bag.tick_ms = job.inputs.tick_ms
      /\ bag.record_count = count /\ bag.ticks = ticks
  BY DEF Recording
<1>5. \A i \in 1..count : ticks[i].tick = i - 1 /\ ticks[i].time_ms = (i - 1) * job.inputs.tick_ms
  OBVIOUS
<1>. HIDE DEF bag, ticks
<1>. QED
  BY <1>2, <1>3, <1>4, <1>5 DEF ParseBag, Counted, bag

\* A recording in its place is what an analysis of its run may read.
LEMMA RecordingIsRight ==
    ASSUME NullIsNoObject, NEW ex, NEW job, NEW count \in Nat \ {0}, NEW bag,
           bag = Recording(job, count), BagPath(job) \in DOMAIN ex, ex[BagPath(job)] = bag,
           job.job_kind = "run", count <= job.inputs.max_ticks + 1
    PROVE  /\ Right(ex, BagPath(job)) /\ Analysable(ex, job, Reference(BagPath(job), bag))
           /\ bag.kind = "bag" /\ bag.execution_id = job.execution_id
<1>1. /\ bag.kind = "bag" /\ bag.execution_id = job.execution_id
      /\ bag.inputs_hash = job.inputs_hash /\ bag.tick_ms = job.inputs.tick_ms
      /\ bag.record_count = count /\ ParseBag(bag)
  BY RecordingFields
<1>2. BagPath(job) = PathOf(bag) /\ "bag" \in Kinds
  BY <1>1 DEF PathOf, BagPath, Kinds
<1>3. Parsed(ex, BagPath(job), "bag")
  BY <1>1, <1>2, PlacedIsParsed
<1>4. Right(ex, BagPath(job))
  BY <1>1, <1>2, <1>3 DEF Right, Accepts, Check
<1>5. Referred(ex, Reference(BagPath(job), bag), "bag")
  BY <1>1, <1>4, PlacedIsReferred
<1>6. OfRun(job, bag)
  BY <1>1 DEF OfRun
<1>7. Analysable(ex, job, Reference(BagPath(job), bag))
  BY <1>1, <1>5, <1>6 DEF Analysable, Reference
<1>. QED
  BY <1>1, <1>4, <1>7

\* While its row has none, no file has the recording of a run.
LEMMA FreshBag ==
    ASSUME Written, NEW p \in DOMAIN rows, files[p] \in Runs, rows[p].bag = Null
    PROVE  BagPath(files[p]) \notin DOMAIN files
<1>. SUFFICES ASSUME NEW q \in DOMAIN files, q = BagPath(files[p]) PROVE FALSE
  OBVIOUS
<1>1. Right(files, q)
  BY DEF Written, AllRight
<1>2. files[q].kind = "bag"
  <2>1. files[q].kind \in Kinds /\ "bag" \in Kinds /\ Folder(files[q].kind) = Folder("bag")
    BY <1>1, RightPath, PathParts DEF Kinds, BagPath
  <2>. QED
    BY <2>1, Folders
<1>3. files[q].execution_id = files[p].execution_id
  BY <1>1, <1>2, RightBag, PathParts DEF BagPath
<1>4. PICK s \in DOMAIN rows : WorkOf(files[q], files[s], rows[s])
  BY <1>2, QueueMode DEF AllOwned
<1>5. files[s].job_kind = "run" /\ files[s].execution_id = files[p].execution_id /\ rows[s].bag # Null
  BY <1>2, <1>3, <1>4 DEF WorkOf
<1>6. files[s] \in Runs /\ s = JobPath(files[s]) /\ p = JobPath(files[p])
  BY <1>5, QueueMode, RightJob
<1>7. files[s] = files[p]
  BY <1>5, <1>6, RunsAssumption
<1>. QED
  BY <1>5, <1>6, <1>7

LEMMA SameAnalysisID ==
    ASSUME NEW a, NEW b, NEW c, NEW d, NEW e, NEW f, AnalysisID(a, b, c) = AnalysisID(d, e, f)
    PROVE  a = d
<1>1. <<a, b, c>> = <<d, e, f>>
  BY DEF AnalysisID, Hash
<1>. QED
  BY <1>1

\* and no row analyses it.
LEMMA FreshAnalysis ==
    ASSUME Written, NEW p \in DOMAIN rows, BagPath(files[p]) \notin DOMAIN files,
           NEW sha, NEW template, NEW q \in DOMAIN rows, rows[q].analysis_id # Null
    PROVE  rows[q].analysis_id # AnalysisID(files[p].execution_id, sha, template)
<1>. SUFFICES ASSUME rows[q].analysis_id = AnalysisID(files[p].execution_id, sha, template)
              PROVE  FALSE
  OBVIOUS
<1>1. Attached(files, files[q], rows[q])
  BY QueueMode DEF RowRight
<1>2. /\ rows[q].bag.path \in DOMAIN files /\ files[rows[q].bag.path].kind = "bag"
      /\ files[rows[q].bag.path].execution_id = files[q].execution_id
      /\ rows[q].analysis_id = AnalysisID(files[q].execution_id, rows[q].bag.sha256,
                                          Hash(files[q].inputs.analysis_template))
  BY <1>1 DEF Attached, Referred, Parsed
<1>3. files[q].execution_id = files[p].execution_id
  <2>1. AnalysisID(files[q].execution_id, rows[q].bag.sha256,
                   Hash(files[q].inputs.analysis_template))
          = AnalysisID(files[p].execution_id, sha, template)
    BY <1>2
  <2>. QED
    BY <2>1, SameAnalysisID
<1>4. Right(files, rows[q].bag.path)
  BY <1>2 DEF Written, AllRight
<1>5. rows[q].bag.path = BagPath(files[p])
  BY <1>2, <1>3, <1>4, RightBag DEF BagPath
<1>. QED
  BY <1>2, <1>5

LEMMA AcceptBagWrites ==
    ASSUME NullIsNoObject, Written, NEW p, NEW count \in Counts, AcceptBag(p, count)
    PROVE  Written'
<1>. DEFINE d == files[p]
            bag == Recording(d, count)
            ref == Reference(BagPath(d), bag)
            id == AnalysisID(d.execution_id, ref.sha256, Hash(d.inputs.analysis_template))
            attempt == rows[p].attempt
            e == NextEvent(p, attempt, "ANALYZING", id, Null)
            docs == Over(At(BagPath(d), bag), Announced(e))
            recorded == [rows[p] EXCEPT !.stage = "analysis", !.bag = ref, !.analysis_id = id]
            row == [recorded EXCEPT !.state = e.state, !.sequence = e.sequence]
<1>1. Analysis(BaseResult(p, 1), d.inputs.analysis_template, ref).analysis_id = id
  BY DEF Analysis, BaseResult
<1>2. /\ p \in DOMAIN rows /\ UNCHANGED mode /\ rows[p].state = "RUNNING"
      /\ count <= d.inputs.max_ticks + 1
      /\ Publish(docs) /\ rows' = [rows EXCEPT ![p] = row]
  BY <1>1 DEF AcceptBag, Working, Advance
<1>3. /\ rows[p].stage = "simulation" /\ d.job_kind = "run" /\ d \in Runs
      /\ rows[p].bag = Null /\ count \in Nat \ {0}
  BY <1>2, Claimed, RunsAssumption
<1>4. /\ RowRight(files, p, rows[p]) /\ p \in DOMAIN files /\ files[p].kind = "job"
      /\ rows[p].sequence \in Nat
      /\ rows[p].sequence + 1 \in Nat /\ rows[p].sequence <= rows[p].sequence + 1
  BY <1>2, QueueMode DEF RowRight
<1>5. EventOf(e, d, attempt, rows[p].sequence + 1, "ANALYZING", id, Null)
  BY EventFields DEF NextEvent
<1>6. BagPath(d) \notin DOMAIN files
  BY <1>2, <1>3, FreshBag
<1>7. EventPath(e) \notin DOMAIN files
  BY <1>2, <1>5, NextEventIsNew DEF EventOf
<1>8. \A q \in DOMAIN rows : rows[q].analysis_id # id
  <2>1. id # Null
    BY ObjectsAreNotNull DEF AnalysisID
  <2>. QED
    BY <1>2, <1>6, <2>1, FreshAnalysis
<1>9. /\ e.kind = "event" /\ e.sequence = rows[p].sequence + 1 /\ e.job_id = d.job_id
      /\ e.state = "ANALYZING" /\ e.analysis_id = id /\ e.result = Null
  BY <1>5 DEF EventOf, SameJob
<1>10. id # Null /\ ref # Null /\ ref.sha256 = Hash(bag)
  BY ObjectsAreNotNull DEF AnalysisID, Reference
<1>11. /\ DOMAIN docs = {BagPath(d), EventPath(e)} /\ BagPath(d) # EventPath(e)
       /\ docs[BagPath(d)] = bag /\ docs[EventPath(e)] = e
  <2>1. BagPath(d) # EventPath(e)
    BY OtherFolders DEF BagPath, EventPath, Kinds
  <2>2. docs = Over(At(BagPath(d), bag), At(EventPath(e), e))
    BY DEF Announced
  <2>. HIDE DEF docs, e, bag
  <2>. QED
    BY <2>1, <2>2 DEF Over, At
<1>. HIDE DEF docs, e, attempt, bag, id
<1>12. DOMAIN docs \cap DOMAIN files = {} /\ files' = Over(docs, files)
  BY <1>2, <1>6, <1>7, <1>11 DEF Publish
<1>13. /\ Extends(files, files')
       /\ BagPath(d) \in DOMAIN files' /\ files'[BagPath(d)] = bag
       /\ EventPath(e) \in DOMAIN files' /\ files'[EventPath(e)] = e
  <2>1. Extends(files, files') /\ Extends(docs, files')
    BY <1>12, OverExtends
  <2>. QED
    BY <1>11, <2>1 DEF Extends
<1>14. files'[p] = d
  BY <1>4, <1>13 DEF Extends
<1>15. /\ Right(files', BagPath(d)) /\ Analysable(files', d, ref)
       /\ bag.kind = "bag" /\ bag.execution_id = d.execution_id
  BY <1>2, <1>3, <1>13, RecordingIsRight DEF bag
<1>16. Announces(files', p, e)
  BY <1>9, <1>10 DEF Announces, Terminal
<1>17. Right(files', EventPath(e))
  BY <1>4, <1>5, <1>13, <1>14, <1>16, EventIsRight
<1>. HIDE DEF ref
<1>18. /\ DOMAIN row = DOMAIN rows[p] /\ row.stage = "analysis" /\ row.bag = ref
       /\ row.analysis_id = id /\ row.sequence = rows[p].sequence + 1 /\ row.state = "ANALYZING"
  BY <1>4, <1>9 DEF RowRight
<1>. HIDE DEF row
<1>19. RowRight(files', p, row)
  <2>1. Attached(files', d, row)
    BY <1>3, <1>15, <1>18 DEF Attached, Analysable, id
  <2>2. p \in DOMAIN files' /\ DOMAIN row = {"stage", "state", "attempt", "sequence", "bag",
                                            "analysis_id", "retried"}
    BY <1>4, <1>13, <1>18 DEF Extends, RowRight
  <2>. QED
    BY <1>4, <1>10, <1>14, <1>18, <2>1, <2>2 DEF RowRight
<1>20. WorkOf(bag, files[p], row) /\ WorkOf(e, files[p], row)
  BY <1>3, <1>4, <1>9, <1>10, <1>15, <1>18 DEF WorkOf
<1>21. Adds(docs, p, row)
  BY <1>2, <1>3, <1>4, <1>8, <1>9, <1>10, <1>11, <1>12, <1>15, <1>17, <1>18, <1>19, <1>20 DEF Adds
<1>. QED
  BY <1>21, QueueStep

-----------------------------------------------------------------------------
(* Users.                                                                  *)

LEMMA JobIsRight ==
    ASSUME NEW ex, NEW d, d.kind = "job", d \in Runs \/ d.job_kind = "analysis",
           TypedLimits(d.inputs.analysis_template), CheckJob(ex, d),
           JobPath(d) \in DOMAIN ex, ex[JobPath(d)] = d
    PROVE  Right(ex, JobPath(d))
<1>1. JobPath(d) = PathOf(d) /\ "job" \in Kinds
  BY DEF PathOf, Kinds
<1>2. Parsed(ex, JobPath(d), "job")
  BY <1>1, PlacedIsParsed
<1>. QED
  BY <1>1, <1>2 DEF Right, Accepts, Check

\* The recording of a run that is there.
LEMMA BagThere ==
    ASSUME AllRight(files), NEW d, BagPath(d) \in DOMAIN files
    PROVE  /\ Right(files, BagPath(d)) /\ files[BagPath(d)].kind = "bag"
           /\ files[BagPath(d)].execution_id = d.execution_id
<1>1. Right(files, BagPath(d))
  BY DEF AllRight
<1>2. files[BagPath(d)].kind = "bag"
  <2>1. /\ files[BagPath(d)].kind \in Kinds /\ "bag" \in Kinds
        /\ Folder(files[BagPath(d)].kind) = Folder("bag")
    BY <1>1, RightPath, PathParts DEF Kinds, BagPath
  <2>. QED
    BY <2>1, Folders
<1>3. BagPath(d) = BagPath(files[BagPath(d)])
  BY <1>1, <1>2, RightBag
<1>4. files[BagPath(d)].execution_id = d.execution_id
  BY <1>3, PathParts DEF BagPath
<1>. QED
  BY <1>1, <1>2, <1>4

LEMMA SubmitWrites ==
    ASSUME NullIsNoObject, Written, NEW d \in Runs \cup Analyses, Submit(d) PROVE Written'
<1>. DEFINE docs == At(JobPath(d), d)
<1>1. /\ JobPath(d) \notin DOMAIN files /\ files' = Over(docs, files)
      /\ rows' = rows /\ mode' = mode
  BY DEF Submit, Publish
<1>2. DOMAIN docs = {JobPath(d)} /\ docs[JobPath(d)] = d
  BY AtOne
<1>. HIDE DEF docs
<1>3. DOMAIN docs \cap DOMAIN files = {}
  BY <1>1, <1>2
<1>4. /\ Extends(files, files') /\ DOMAIN files' = {JobPath(d)} \cup DOMAIN files
      /\ JobPath(d) \in DOMAIN files' /\ files'[JobPath(d)] = d
  <2>1. /\ Extends(files, files') /\ Extends(docs, files')
        /\ DOMAIN files' = DOMAIN docs \cup DOMAIN files
    BY <1>1, <1>3, OverExtends
  <2>. QED
    BY <1>2, <2>1 DEF Extends
<1>5. /\ d.kind = "job" /\ (d \in Runs \/ d.job_kind = "analysis")
      /\ TypedLimits(d.inputs.analysis_template) /\ CheckJob(files', d)
  <2>1. CASE d \in Runs
    BY <2>1, RunsAssumption DEF CheckJob, ParseJob
  <2>2. CASE d \in Analyses
    <3>1. PICK r \in Runs, t \in DOMAIN Templates :
            /\ BagPath(r) \in DOMAIN files
            /\ d = LET inputs == AnalysisInputs(Reference(BagPath(r), files[BagPath(r)]),
                                                Templates[t])
                   IN [kind |-> "job", execution_id |-> r.execution_id, job_id |-> t,
                       correlation_id |-> r.correlation_id, job_kind |-> "analysis",
                       inputs |-> inputs, inputs_hash |-> Hash(inputs)]
      BY <2>2 DEF Analyses
    <3>. DEFINE bag == Reference(BagPath(r), files[BagPath(r)])
    <3>2. /\ d.kind = "job" /\ d.job_kind = "analysis" /\ d.execution_id = r.execution_id
          /\ d.inputs = AnalysisInputs(bag, Templates[t]) /\ d.inputs_hash = Hash(d.inputs)
      BY <3>1
    <3>. HIDE DEF bag
    <3>3. d.inputs.bag = bag /\ d.inputs.analysis_template = Templates[t]
      BY <3>2 DEF AnalysisInputs
    <3>4. /\ Right(files, BagPath(r)) /\ files[BagPath(r)].kind = "bag"
          /\ files[BagPath(r)].execution_id = r.execution_id
      BY <3>1, BagThere DEF Written
    <3>5. Right(files', BagPath(r)) /\ files'[BagPath(r)] = files[BagPath(r)]
      BY <1>4, <3>1, <3>4, RightKept DEF Extends
    <3>6. Referred(files', bag, "bag") /\ bag.path = BagPath(r)
      BY <3>4, <3>5, PlacedIsReferred DEF bag, Reference
    <3>7. CheckJob(files', d)
      BY <3>2, <3>3, <3>4, <3>5, <3>6 DEF CheckJob, ParseJob
    <3>. QED
      BY <3>2, <3>3, <3>7, RunsAssumption
  <2>. QED
    BY <2>1, <2>2
<1>6. Right(files', JobPath(d))
  BY <1>4, <1>5, JobIsRight
<1>7. AllRight(files')
  BY <1>1, <1>2, <1>3, <1>6, AllRightGrows DEF Written
<1>8. Numbered(files')
  BY <1>1, <1>2, <1>3, <1>5, NumberedGrows DEF Written
<1>9. RowsRight(files', rows')
  BY <1>1, <1>4, RowKept DEF Written, RowsRight
<1>10. ModeRight'
  <2>1. \A q \in DOMAIN rows : q \in DOMAIN files /\ files'[q] = files[q]
    BY <1>4, QueueMode DEF Extends
  <2>2. AllOwned(files, rows) => AllOwned(files', rows')
    <3>. SUFFICES ASSUME AllOwned(files, rows), NEW q \in DOMAIN files', files'[q].kind # "job"
                  PROVE  \E r \in DOMAIN rows : WorkOf(files'[q], files'[r], rows[r])
      BY <1>1 DEF AllOwned
    <3>1. q \in DOMAIN files /\ files'[q] = files[q]
      BY <1>4, <1>5 DEF Extends
    <3>. QED
      BY <2>1, <3>1 DEF AllOwned
  <2>3. mode = "none" => \A q \in DOMAIN files' : files'[q].kind = "job"
    BY <1>4, <1>5 DEF Written, ModeRight, Extends
  <2>. QED
    BY <1>1, <1>4, <2>2, <2>3 DEF Written, ModeRight
<1>. QED
  BY <1>7, <1>8, <1>9, <1>10 DEF Written

-----------------------------------------------------------------------------
(* Intake.                                                                 *)

LEMMA ImportedRowRight ==
    ASSUME NullIsNoObject, NEW ex, NEW p, Right(ex, p), ex[p].kind = "job"
    PROVE  RowRight(ex, p, ImportedRow(ex[p])) /\ ImportedRow(ex[p]).sequence = 1
<1>. DEFINE d == ex[p]
            row == ImportedRow(d)
            id == AnalysisID(d.execution_id, d.inputs.bag.sha256, Hash(d.inputs.analysis_template))
<1>1. /\ p \in DOMAIN ex /\ CheckJob(ex, d)
      /\ d.job_kind = "run" \/ d.job_kind = "analysis"
  BY RightJob, RunsAssumption
<1>2. CASE d.job_kind = "run"
  <2>1. row = NewRow("simulation", Null, Null)
    BY <1>2 DEF ImportedRow
  <2>2. /\ row.stage = "simulation" /\ row.state = "PENDING" /\ row.sequence = 1
        /\ row.bag = Null /\ row.analysis_id = Null
        /\ DOMAIN row = {"stage", "state", "attempt", "sequence", "bag", "analysis_id", "retried"}
    BY <2>1 DEF NewRow
  <2>. QED
    BY <1>1, <1>2, <2>2 DEF RowRight
<1>3. CASE d.job_kind # "run"
  <2>1. row = NewRow("analysis", d.inputs.bag, id) /\ d.job_kind = "analysis"
    BY <1>1, <1>3 DEF ImportedRow
  <2>2. id # Null
    BY ObjectsAreNotNull DEF AnalysisID
  <2>. HIDE DEF id
  <2>3. /\ row.stage = "analysis" /\ row.state = "PENDING" /\ row.sequence = 1
        /\ row.bag = d.inputs.bag /\ row.analysis_id = id
        /\ DOMAIN row = {"stage", "state", "attempt", "sequence", "bag", "analysis_id", "retried"}
    BY <2>1 DEF NewRow
  <2>4. Referred(ex, d.inputs.bag, "bag") /\ ex[d.inputs.bag.path].execution_id = d.execution_id
    BY <1>1, <2>1 DEF CheckJob
  <2>5. d.inputs.bag # Null
    BY <2>4 DEF Referred
  <2>. HIDE DEF row
  <2>6. Attached(ex, d, row)
    BY <2>1, <2>3, <2>4 DEF Attached, id
  <2>7. RowRight(ex, p, row)
    BY <1>1, <2>2, <2>3, <2>5, <2>6 DEF RowRight
  <2>. QED
    BY <2>3, <2>7 DEF row
<1>. QED
  BY <1>2, <1>3

\* Nothing but jobs is there until a producer owns the directory.
LEMMA QueueOpened ==
    ASSUME Written, Owned("queue")
    PROVE  /\ mode' = "queue" /\ AllOwned(files, rows)
           /\ \A q \in DOMAIN rows : q \in DOMAIN files
<1>1. CASE mode = "none"
  BY <1>1 DEF Owned, Written, ModeRight, AllOwned
<1>2. CASE mode = "queue"
  BY <1>2, QueueMode DEF Owned, Written, ModeRight
<1>. QED
  BY <1>1, <1>2 DEF Owned

LEMMA ImportWrites ==
    ASSUME NullIsNoObject, Written, NEW p, Import(p) PROVE Written'
<1>. DEFINE d == files[p]
            row == ImportedRow(d)
            e == Event(p, 1, 1, "PENDING", Null, Null)
            docs == Announced(e)
            newRows == At(p, row)
<1>1. /\ Owned("queue") /\ Accepts(files, p, "job")
      /\ files' = Over(docs, files) /\ rows' = Over(newRows, rows)
      /\ \A q \in DOMAIN rows : q # p /\ files[q].job_id # d.job_id
      /\ d.job_kind = "analysis" => \A q \in DOMAIN rows : rows[q].analysis_id # row.analysis_id
  BY DEF Import, Publish
<1>2. /\ mode' = "queue" /\ AllOwned(files, rows) /\ \A q \in DOMAIN rows : q \in DOMAIN files
  BY <1>1, QueueOpened
<1>3. p \in DOMAIN files /\ d.kind = "job" /\ Right(files, p)
  BY <1>1 DEF Accepts, Parsed, Written, AllRight
<1>4. EventOf(e, d, 1, 1, "PENDING", Null, Null)
  BY EventFields
<1>5. /\ e.kind = "event" /\ e.sequence = 1 /\ e.job_id = d.job_id
      /\ e.state = "PENDING" /\ e.analysis_id = Null /\ e.result = Null
      /\ EventPath(e) = Path("event", EventID(d.job_id, 1, 1))
  BY <1>4 DEF EventOf, SameJob
<1>6. \A q \in DOMAIN files : files[q].kind = "event" => files[q].job_id # d.job_id
  <2>. SUFFICES ASSUME NEW q \in DOMAIN files, files[q].kind = "event", files[q].job_id = d.job_id
                PROVE  FALSE
    OBVIOUS
  <2>1. PICK r \in DOMAIN rows : WorkOf(files[q], files[r], rows[r])
    BY <1>2 DEF AllOwned
  <2>. QED
    BY <1>1, <2>1 DEF WorkOf
<1>7. EventPath(e) \notin DOMAIN files
  BY <1>5, <1>6, FreshEvent DEF Written
<1>8. DOMAIN docs = {EventPath(e)} /\ docs[EventPath(e)] = e
  BY AtOne DEF Announced
<1>9. DOMAIN newRows = {p} /\ newRows[p] = row
  BY AtOne
<1>. HIDE DEF docs, e, newRows, row
<1>10. DOMAIN docs \cap DOMAIN files = {} /\ DOMAIN newRows \cap DOMAIN rows = {}
  BY <1>1, <1>7, <1>8, <1>9
<1>11. /\ Extends(files, files') /\ DOMAIN files' = {EventPath(e)} \cup DOMAIN files
       /\ EventPath(e) \in DOMAIN files' /\ files'[EventPath(e)] = e
  <2>1. /\ Extends(files, files') /\ Extends(docs, files')
        /\ DOMAIN files' = DOMAIN docs \cup DOMAIN files
    BY <1>1, <1>10, OverExtends
  <2>. QED
    BY <1>8, <2>1 DEF Extends
<1>12. /\ DOMAIN rows' = {p} \cup DOMAIN rows /\ rows'[p] = row
       /\ \A q \in DOMAIN rows : q # p /\ rows'[q] = rows[q]
  <2>1. /\ Extends(rows, rows') /\ Extends(newRows, rows')
        /\ DOMAIN rows' = DOMAIN newRows \cup DOMAIN rows
    BY <1>1, <1>10, OverExtends
  <2>. QED
    BY <1>1, <1>9, <2>1 DEF Extends
<1>13. /\ files'[p] = d /\ Right(files', p)
       /\ \A q \in DOMAIN files : q \in DOMAIN files' /\ files'[q] = files[q]
  BY <1>3, <1>11, RightKept DEF Extends
<1>14. Announces(files', p, e)
  BY <1>5 DEF Announces, Terminal
<1>15. Right(files', EventPath(e))
  BY <1>4, <1>11, <1>13, <1>14, EventIsRight
<1>16. AllRight(files')
  BY <1>1, <1>8, <1>10, <1>15, AllRightGrows DEF Written
<1>17. Numbered(files')
  BY <1>1, <1>5, <1>6, <1>8, <1>10, NumberedGrows DEF Written
<1>18. RowRight(files', p, row) /\ row.sequence = 1
  BY <1>3, <1>13, ImportedRowRight DEF row
<1>19. RowsRight(files', rows')
  <2>1. \A q \in DOMAIN rows' : RowRight(files', q, rows'[q])
    BY <1>11, <1>12, <1>18, RowKept DEF Written, RowsRight
  <2>2. ASSUME NEW q \in DOMAIN rows PROVE row.analysis_id = Null \/ rows[q].analysis_id # row.analysis_id
    <3>1. d.job_kind = "analysis" \/ d.job_kind = "run"
      BY <1>3, RightJob, RunsAssumption
    <3>2. d.job_kind = "run" => row.analysis_id = Null
      BY DEF row, ImportedRow, NewRow
    <3>. QED
      BY <1>1, <3>1, <3>2
  <2>. QED
    BY <1>12, <2>1, <2>2 DEF Written, RowsRight
<1>20. AllOwned(files', rows')
  <2>. SUFFICES ASSUME NEW q \in DOMAIN files', files'[q].kind # "job"
                PROVE  \E r \in DOMAIN rows' : WorkOf(files'[q], files'[r], rows'[r])
    BY DEF AllOwned
  <2>1. CASE q = EventPath(e)
    <3>1. WorkOf(e, d, row)
      BY <1>5, <1>18 DEF WorkOf
    <3>. QED
      BY <1>11, <1>12, <1>13, <2>1, <3>1
  <2>2. CASE q # EventPath(e)
    <3>1. q \in DOMAIN files /\ files'[q] = files[q]
      BY <1>11, <1>13, <2>2
    <3>2. PICK r \in DOMAIN rows : WorkOf(files[q], files[r], rows[r])
      BY <1>2, <3>1 DEF AllOwned
    <3>. QED
      BY <1>2, <1>12, <1>13, <3>1, <3>2
  <2>. QED
    BY <2>1, <2>2
<1>. QED
  BY <1>2, <1>16, <1>17, <1>19, <1>20 DEF Written, ModeRight

-----------------------------------------------------------------------------
(* Standalone execution, in a directory that has only jobs.                *)

LEMMA AloneStep ==
    ASSUME Written, mode = "none", mode' = "standalone", rows' = rows, NEW docs, Publish(docs),
           DOMAIN docs \cap DOMAIN files = {},
           \A q \in DOMAIN docs : docs[q].kind # "job" /\ Right(files', q),
           \A q, r \in DOMAIN docs : docs[q].kind = "event" /\ docs[r].kind = "event" => q = r,
           \E q \in DOMAIN docs : docs[q].kind = "result"
    PROVE  Written'
<1>1. /\ DOMAIN rows = {} /\ \A q \in DOMAIN files : files[q].kind = "job"
      /\ files' = Over(docs, files)
  BY DEF Written, ModeRight, Publish
<1>2. Extends(docs, files') /\ DOMAIN files' = DOMAIN docs \cup DOMAIN files
  BY <1>1, OverExtends
<1>3. AllRight(files')
  BY <1>1, AllRightGrows DEF Written
<1>4. Numbered(files')
  BY <1>1, NumberedGrows DEF Written
<1>5. RowsRight(files', rows')
  BY <1>1 DEF RowsRight
<1>6. \E q \in DOMAIN files' : q.folder = "results"
  <2>1. PICK q \in DOMAIN docs : docs[q].kind = "result"
    OBVIOUS
  <2>2. q \in DOMAIN files' /\ files'[q].kind = "result" /\ Right(files', q)
    BY <1>2, <2>1 DEF Extends
  <2>3. q.folder = "results"
    BY <2>2, RightPath DEF Folder
  <2>. QED
    BY <2>2, <2>3
<1>. QED
  BY <1>1, <1>3, <1>4, <1>5, <1>6 DEF Written, ModeRight

\* The event of standalone.Run says what its result says.
LEMMA CompletedIsRight ==
    ASSUME NullIsNoObject, NEW p, NEW ex, ex[p] = files[p], NEW analysis, NEW r,
           Result(ex, p, 0, analysis, r), ResultPath(r) \in DOMAIN ex, ex[ResultPath(r)] = r,
           NEW e, EventOf(e, files[p], 0, 1, r.status, analysis, Reference(ResultPath(r), r)),
           EventPath(e) \in DOMAIN ex, ex[EventPath(e)] = e
    PROVE  Right(ex, EventPath(e))
<1>1. /\ e.state = r.status /\ e.analysis_id = analysis /\ e.attempt_id = 0
      /\ e.result = Reference(ResultPath(r), r)
  BY DEF EventOf
<1>2. e.result # Null /\ r.status \in Terminal
  BY <1>1, ObjectsAreNotNull DEF Reference, Result
<1>3. Announces(ex, p, e)
  BY <1>1, <1>2 DEF Announces, Terminal
<1>. QED
  BY <1>3, EventIsRight

LEMMA RunFailsWrites ==
    ASSUME NullIsNoObject, Written, mode = "none", mode' = "standalone", rows' = rows,
           NEW p, Right(files, p), files[p].kind = "job", files[p].job_kind = "run",
           p \in DOMAIN files, RunFails(p)
    PROVE  Written'
<1>1. PICK class \in {"simulation_timeout", "controller_failure", "worker_failure"} :
        LET result == Failure(BaseResult(p, 0), class)
        IN Publish(Over(At(ResultPath(result), result), Completed(p, result)))
  BY DEF RunFails
<1>. DEFINE r == Failure(BaseResult(p, 0), class)
            ref == Reference(ResultPath(r), r)
            e == Event(p, r.attempt_id, 1, r.status, r.analysis_id, ref)
            docs == Over(At(ResultPath(r), r), At(EventPath(e), e))
<1>2. Publish(docs)
  BY <1>1 DEF Completed, Announced
<1>3. \A q \in DOMAIN files : files[q].kind = "job"
  BY DEF Written, ModeRight
<1>4. Result(files, p, 0, Null, r)
  BY FailedRun DEF Extends
<1>5. r.kind = "result" /\ r.attempt_id = 0 /\ r.analysis_id = Null
  BY <1>4 DEF Result
<1>6. EventOf(e, files[p], 0, 1, r.status, Null, ref)
  BY <1>5, EventFields
<1>7. e.kind = "event"
  BY <1>6 DEF EventOf
<1>8. /\ DOMAIN docs = {ResultPath(r), EventPath(e)} /\ ResultPath(r) # EventPath(e)
      /\ docs[ResultPath(r)] = r /\ docs[EventPath(e)] = e
  <2>1. ResultPath(r) # EventPath(e)
    BY OtherFolders DEF ResultPath, EventPath, Kinds
  <2>. HIDE DEF e, r
  <2>. QED
    BY <2>1 DEF Over, At
<1>. HIDE DEF docs, e, ref
<1>9. ResultPath(r) \notin DOMAIN files /\ EventPath(e) \notin DOMAIN files
  <2>1. \A q \in DOMAIN files : q.folder = "jobs"
    BY <1>3, RightPath DEF Written, AllRight, Folder
  <2>2. ResultPath(r).folder = "results" /\ EventPath(e).folder = "events"
    BY PathParts DEF ResultPath, EventPath, Folder
  <2>. QED
    BY <2>1, <2>2
<1>. HIDE DEF r
<1>10. DOMAIN docs \cap DOMAIN files = {} /\ files' = Over(docs, files)
  BY <1>2, <1>8, <1>9 DEF Publish
<1>11. /\ Extends(files, files')
       /\ ResultPath(r) \in DOMAIN files' /\ files'[ResultPath(r)] = r
       /\ EventPath(e) \in DOMAIN files' /\ files'[EventPath(e)] = e
  <2>1. Extends(files, files') /\ Extends(docs, files')
    BY <1>10, OverExtends
  <2>. QED
    BY <1>8, <2>1 DEF Extends
<1>12. Result(files', p, 0, Null, r) /\ files'[p] = files[p]
  BY <1>11, FailedRun DEF Extends, r
<1>13. Right(files', ResultPath(r)) /\ Right(files', EventPath(e))
  BY <1>6, <1>11, <1>12, ResultIsRight, CompletedIsRight DEF ref
<1>. QED
  BY <1>2, <1>5, <1>7, <1>8, <1>10, <1>13, AloneStep

LEMMA RunScoresWrites ==
    ASSUME NullIsNoObject, Written, mode = "none", mode' = "standalone", rows' = rows,
           NEW p, Right(files, p), files[p].kind = "job", files[p].job_kind = "run",
           p \in DOMAIN files, RunScores(p)
    PROVE  Written'
<1>. DEFINE d == files[p]
            template == d.inputs.analysis_template
<1>1. PICK count \in Counts :
        LET bag == Recording(d, count)
            attached == Analysis(BaseResult(p, 0), template, Reference(BagPath(d), bag))
        IN /\ count <= d.inputs.max_ticks + 1
           /\ \E result \in Score(attached, template, count) :
                Publish(Over(At(BagPath(d), bag),
                             Over(At(ResultPath(result), result), Completed(p, result))))
  BY DEF RunScores
<1>. DEFINE bag == Recording(d, count)
            bagRef == Reference(BagPath(d), bag)
            attached == Analysis(BaseResult(p, 0), template, bagRef)
            id == AnalysisID(d.execution_id, bagRef.sha256, Hash(template))
<1>2. count <= d.inputs.max_ticks + 1
  BY <1>1
<1>3. PICK r \in Score(attached, template, count) :
        Publish(Over(At(BagPath(d), bag), Over(At(ResultPath(r), r), Completed(p, r))))
  BY <1>1
<1>. DEFINE ref == Reference(ResultPath(r), r)
            e == Event(p, r.attempt_id, 1, r.status, r.analysis_id, ref)
            docs == Over(At(BagPath(d), bag), Over(At(ResultPath(r), r), At(EventPath(e), e)))
<1>4. Publish(docs)
  BY <1>3 DEF Completed, Announced
<1>5. BagPath(d) # EventPath(e) /\ BagPath(d) # ResultPath(r) /\ ResultPath(r) # EventPath(e)
  BY OtherFolders DEF BagPath, ResultPath, EventPath, Kinds
<1>6. /\ DOMAIN docs = {BagPath(d), ResultPath(r), EventPath(e)}
      /\ docs[BagPath(d)] = bag /\ docs[ResultPath(r)] = r /\ docs[EventPath(e)] = e
  <2>. HIDE DEF e, bag
  <2>. QED
    BY <1>5 DEF Over, At
<1>. HIDE DEF docs
<1>7. /\ BagPath(d) \notin DOMAIN files /\ ResultPath(r) \notin DOMAIN files
      /\ EventPath(e) \notin DOMAIN files
  <2>. HIDE DEF e
  <2>1. \A q \in DOMAIN files : files[q].kind = "job"
    BY DEF Written, ModeRight
  <2>2. \A q \in DOMAIN files : q.folder = "jobs"
    BY <2>1, RightPath DEF Written, AllRight, Folder
  <2>3. /\ BagPath(d).folder = "bags" /\ ResultPath(r).folder = "results"
        /\ EventPath(e).folder = "events"
    BY PathParts DEF BagPath, ResultPath, EventPath, Folder
  <2>. QED
    BY <2>2, <2>3
<1>8. DOMAIN docs \cap DOMAIN files = {} /\ files' = Over(docs, files)
  BY <1>4, <1>6, <1>7 DEF Publish
<1>. HIDE DEF e
<1>9. /\ Extends(files, files') /\ files'[p] = d
      /\ BagPath(d) \in DOMAIN files' /\ files'[BagPath(d)] = bag
      /\ ResultPath(r) \in DOMAIN files' /\ files'[ResultPath(r)] = r
      /\ EventPath(e) \in DOMAIN files' /\ files'[EventPath(e)] = e
  <2>1. Extends(files, files') /\ Extends(docs, files')
    BY <1>8, OverExtends
  <2>. QED
    BY <1>6, <2>1 DEF Extends
<1>10. count \in Nat \ {0} /\ d.job_kind = "run"
  BY RunsAssumption
<1>11. /\ Right(files', BagPath(d)) /\ Analysable(files', d, bagRef)
       /\ bag.kind = "bag" /\ bag.record_count = count
  BY <1>2, <1>9, <1>10, RecordingIsRight, RecordingFields
<1>12. Result(files', p, 0, id, r)
  <2>1. bagRef.path = BagPath(d)
    BY DEF Reference
  <2>. HIDE DEF bag, bagRef
  <2>2. r \in Score(attached, template, files'[bagRef.path].record_count)
    BY <1>3, <1>9, <1>11, <2>1
  <2>. QED
    BY <1>9, <1>11, <2>2, ScoredRun
<1>13. r.kind = "result" /\ r.attempt_id = 0 /\ r.analysis_id = id
  BY <1>12 DEF Result
<1>14. EventOf(e, d, 0, 1, r.status, id, ref) /\ e.kind = "event"
  <2>1. EventOf(e, d, r.attempt_id, 1, r.status, r.analysis_id, ref)
    BY EventFields DEF e
  <2>. HIDE DEF ref, id
  <2>. QED
    BY <1>13, <2>1 DEF EventOf
<1>15. Right(files', ResultPath(r)) /\ Right(files', EventPath(e))
  BY <1>9, <1>12, <1>14, ResultIsRight, CompletedIsRight
<1>. HIDE DEF bag, ref, id
<1>. QED
  BY <1>4, <1>6, <1>8, <1>11, <1>13, <1>14, <1>15, AloneStep

LEMMA ExecuteWrites ==
    ASSUME NullIsNoObject, Written, NEW p, Execute(p) PROVE Written'
<1>1. /\ Owned("standalone") /\ Accepts(files, p, "job") /\ files[p].job_kind = "run"
      /\ \A q \in DOMAIN files : q.folder # "results"
      /\ RunFails(p) \/ RunScores(p)
      /\ rows' = rows
  BY DEF Execute
<1>2. mode = "none" /\ mode' = "standalone"
  BY <1>1 DEF Owned, Written, ModeRight
<1>3. p \in DOMAIN files /\ files[p].kind = "job" /\ Right(files, p)
  BY <1>1 DEF Accepts, Parsed, Written, AllRight
<1>. QED
  BY <1>1, <1>2, <1>3, RunFailsWrites, RunScoresWrites

-----------------------------------------------------------------------------
LEMMA InitWrites == Init => ExchangeInvariant
<1>. SUFFICES ASSUME Init PROVE Written /\ edits \in Nat
  BY DEF ExchangeInvariant
<1>1. DOMAIN files = {} /\ DOMAIN rows = {} /\ mode = "none" /\ edits = 0
  BY DEF Init
<1>2. AllRight(files) /\ Numbered(files)
  BY <1>1 DEF AllRight, Numbered
<1>3. RowsRight(files, rows) /\ ModeRight
  BY <1>1 DEF RowsRight, ModeRight
<1>. QED
  BY <1>1, <1>2, <1>3 DEF Written

\* A change by hand ends production; every other step keeps what is written right.
LEMMA StepWrites ==
    ASSUME NullIsNoObject, ExchangeInvariant, [Next]_vars PROVE ExchangeInvariant'
<1>1. CASE UNCHANGED vars
  BY <1>1 DEF vars, ExchangeInvariant, Producing, Written, AllRight, Right, Numbered,
     RowsRight, ModeRight
<1>2. CASE Next
  <2>1. ASSUME Producing, UNCHANGED edits, Written' PROVE ExchangeInvariant'
    BY <2>1 DEF ExchangeInvariant
  <2>2. ASSUME NEW d \in Runs \cup Analyses, Submit(d) PROVE ExchangeInvariant'
    BY <2>1, <2>2, SubmitWrites DEF Submit, ExchangeInvariant
  <2>3. ASSUME NEW p, Import(p) PROVE ExchangeInvariant'
    BY <2>1, <2>3, ImportWrites DEF Import, ExchangeInvariant
  <2>4. ASSUME NEW p, Claim(p) PROVE ExchangeInvariant'
    BY <2>1, <2>4, ClaimWrites DEF Claim, Working, ExchangeInvariant
  <2>5. ASSUME NEW p, AcceptResult(p) PROVE ExchangeInvariant'
    BY <2>1, <2>5, AcceptResultWrites DEF AcceptResult, Working, ExchangeInvariant
  <2>6. ASSUME NEW p, Execute(p) PROVE ExchangeInvariant'
    BY <2>1, <2>6, ExecuteWrites DEF Execute, ExchangeInvariant
  <2>7. ASSUME NEW p, NEW count \in Counts, AcceptBag(p, count) PROVE ExchangeInvariant'
    BY <2>1, <2>7, AcceptBagWrites DEF AcceptBag, Working, ExchangeInvariant
  <2>8. ASSUME NEW p, Edit(p) PROVE ExchangeInvariant'
    BY <2>8 DEF Edit, ExchangeInvariant, Producing
  <2>9. ASSUME NEW p, Rename(p) PROVE ExchangeInvariant'
    BY <2>9 DEF Rename, ExchangeInvariant, Producing
  <2>. QED
    BY <1>2, <2>2, <2>3, <2>4, <2>5, <2>6, <2>7, <2>8, <2>9 DEF Next
<1>. QED
  BY <1>1, <1>2

\* Whatever the producers write passes both validators, and no two documents
\* have an identity in common.
THEOREM EverythingPublishedIsAccepted ==
    ASSUME NullIsNoObject PROVE Spec => []Published
<1>1. ASSUME ExchangeInvariant PROVE Published
  BY <1>1, RightIsValid DEF ExchangeInvariant, Written, Published
<1>. QED
  BY InitWrites, StepWrites, <1>1, PTL DEF Spec

-----------------------------------------------------------------------------
(* What an accepted pass is worth.                                         *)

LEMMA PassBacked ==
    ASSUME ExchangeInvariant, NEW p, Accepts(files, p, "event"), files[p].state = "PASS"
    PROVE Backed(files[p])
<1>. DEFINE e == files[p]
            result == files[e.result.path]
            job == files[result.job.path]
            bag == files[result.bag.path]
<1>1. CheckEvent(files, e) /\ e.state \in Terminal
  BY AcceptedEvent DEF Terminal
<1>2. CheckResult(files, result) /\ ReportsResult(e, result)
  BY <1>1 DEF CheckEvent
<1>3. result.status = "PASS"
  BY <1>2 DEF ReportsResult
<1>4. /\ CheckJob(files, job) /\ SameJob(result, job)
      /\ result.inputs_hash = job.inputs_hash
      /\ CheckAnalysis(files, result, job)
  <2>1. ~RunFailed(result, job)
    BY <1>3 DEF RunFailed
  <2>. QED
    BY <1>2, <2>1 DEF CheckResult
<1>5. /\ Referred(files, result.bag, "bag") /\ bag.execution_id = result.execution_id
      /\ job.job_kind = "run" => OfRun(job, bag)
      /\ job.job_kind = "analysis" => job.inputs.bag = result.bag
      /\ OwnTemplate(result) = JobTemplate(job)
      /\ CheckMetrics(result, bag.record_count)
  BY <1>3, <1>4 DEF CheckAnalysis
<1>6. result.analysis_template = job.inputs.analysis_template
  BY <1>5 DEF OwnTemplate, JobTemplate, Hash
<1>7. ASSUME NEW n \in MetricNames
      PROVE /\ result.metrics[n].value # Null
            /\ Meets(n, result.metrics[n].value, job.inputs.analysis_template)
  BY <1>3, <1>5, <1>6, PassedMetrics
<1>8. e.job_id = job.job_id /\ e.execution_id = job.execution_id
  BY <1>2, <1>4 DEF ReportsResult, SameJob
<1>9. e.execution_id = bag.execution_id
  BY <1>2, <1>5 DEF ReportsResult, SameJob
<1>10. Len(bag.ticks) = bag.record_count
  BY <1>5 DEF Referred, Parsed, ParseBag, Counted
<1>11. job.job_kind = "run" => bag.inputs_hash = Hash(job.inputs)
  BY <1>4, <1>5 DEF OfRun, CheckJob, ParseJob
<1>12. result.bag.path = result.bag.path /\ result.bag.sha256 = Hash(bag)
  BY <1>5 DEF Referred, Pinned
<1>13. ASSUME Producing
       PROVE  result.metrics \in Reports(job.inputs.analysis_template, bag.record_count)
  <2>1. Referred(files, e.result, "result")
    BY <1>1 DEF CheckEvent
  <2>2. Right(files, e.result.path) /\ result.kind = "result"
    BY <1>13, <2>1 DEF Referred, Parsed, ExchangeInvariant, Written, AllRight
  <2>3. Evaluated(files, result)
    BY <2>2 DEF Right
  <2>4. result.metrics # Null
    BY <1>5 DEF CheckMetrics
  <2>. QED
    BY <1>6, <2>3, <2>4 DEF Evaluated
<1>. QED
  BY <1>4, <1>5, <1>7, <1>8, <1>9, <1>10, <1>11, <1>12, <1>13 DEF Backed

\* Whatever producers write and whoever changes it afterwards, an accepted PASS
\* keeps to the limits of the job it leads to and to a complete recording of that
\* execution; and while nobody changed anything, it was measured on it.
THEOREM PassIsAlwaysBacked ==
    ASSUME NullIsNoObject PROVE Spec => []PassIsBacked
<1>1. ASSUME ExchangeInvariant PROVE PassIsBacked
  BY <1>1, PassBacked DEF PassIsBacked
<1>. QED
  BY InitWrites, StepWrites, <1>1, PTL DEF Spec
=============================================================================
