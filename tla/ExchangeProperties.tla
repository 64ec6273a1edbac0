------------------------- MODULE ExchangeProperties -------------------------
(***************************************************************************)
(* What the two validators make of an exchange: of everything the          *)
(* producers write, and of documents changed afterwards.                   *)
(***************************************************************************)
EXTENDS Exchange, ReaderRelations

\* Everything any sequence of producer steps writes passes the producer's own
\* validation (publication.Document would otherwise refuse it for ever and hold
\* up the outbox) and the reader's, and no two documents share an identity.
Published ==
    Producing =>
        /\ ValidatesAll(files)
        /\ \A p \in DOMAIN files : Reads(files, p, files[p].kind)
        /\ Agreed(files)

\* A document leads only to names with the extension of their format.
JobNamed(d) == d.job_kind = "analysis" => WellNamed(d.inputs.bag.path)
ResultNamed(ex, d) ==
    /\ WellNamed(d.job.path) /\ JobNamed(ex[d.job.path])
    /\ d.bag # Null => WellNamed(d.bag.path)
EventNamed(ex, d) ==
    d.result # Null => /\ WellNamed(d.result.path)
                       /\ ResultNamed(ex, ex[d.result.path])
NamedThroughout(ex, p) ==
    /\ WellNamed(p)
    /\ ex[p].kind = "job" => JobNamed(ex[p])
    /\ ex[p].kind = "result" => ResultNamed(ex, ex[p])
    /\ ex[p].kind = "event" => EventNamed(ex, ex[p])

\* However documents are changed or renamed by hand, the producer accepts exactly
\* what the independent reader accepts and what leads only to names with the
\* extension of their format (contract/relations.go and examples/reader/relations.go
\* share no code). The extension is all that divides them: the producer picks the
\* parser by it (check.go:101), the reader by the kind it asked for
\* (exchange.go:128), and schema.json:18 allows .json and .jsonl in every folder.
\* So the reader alone reads JSON Lines at bags/x.json or a job at jobs/x.jsonl.
ValidatorsAgree ==
    \A p \in DOMAIN files :
        LET kind == KindIn(p.folder) IN
        Accepts(files, p, kind) <=> Reads(files, p, kind) /\ NamedThroughout(files, p)

\* What an accepted PASS is worth. While nothing was changed by hand its metrics are
\* what Evaluate reported of the recording it leads to. However documents are
\* changed, they are within the limits of the job it leads to, and the recording is
\* complete, of that execution, and of the job's inputs if it was a run. Validation
\* does not measure again: a value forged within the limits is accepted, as
\* contract_test.go:235 does.
Backed(e) ==
    LET result == files[e.result.path]
        job == files[result.job.path]
        bag == files[result.bag.path]
    IN /\ Producing => result.metrics \in Reports(job.inputs.analysis_template, bag.record_count)
       /\ \A n \in MetricNames :
            /\ result.metrics[n].value # Null
            /\ Meets(n, result.metrics[n].value, job.inputs.analysis_template)
       /\ e.job_id = job.job_id
       /\ e.execution_id = job.execution_id /\ e.execution_id = bag.execution_id
       /\ Len(bag.ticks) = bag.record_count
       /\ job.job_kind = "run" => bag.inputs_hash = Hash(job.inputs)
       /\ job.job_kind = "analysis" => /\ job.inputs.bag.path = result.bag.path
                                       /\ job.inputs.bag.sha256 = Hash(bag)
PassIsBacked ==
    \A p \in DOMAIN files :
        /\ files[p].kind = "event" /\ files[p].state = "PASS"
        /\ Accepts(files, p, "event")
        => Backed(files[p])

\* What an accepted event says can never change meaning: while it stays as it is
\* and is accepted, so does every document it leads to (references pin exact
\* bytes, contract.go).
Outcome(ex, e) == LET result == ex[e.result.path]
                  IN <<result, ex[result.job.path],
                       IF result.bag = Null THEN Null ELSE ex[result.bag.path]>>
MeaningStays ==
    [][\A p \in DOMAIN files :
         (/\ p.folder = "events" /\ p \in DOMAIN files' /\ files'[p] = files[p]
          /\ files[p].result # Null
          /\ Accepts(files, p, "event") /\ Accepts(files', p, "event"))
         => Outcome(files', files[p]) = Outcome(files, files[p])]_vars
=============================================================================
