----------------------------- MODULE Lifecycle -----------------------------
(***************************************************************************)
(* What a queued job promises to whoever reads its files, without leases,  *)
(* crashes or clocks (docs/workers.md): each job goes through its stages   *)
(* once, with one retry of a failed worker per stage, has one outcome, and *)
(* every change is told by one event with the next sequence number.        *)
(***************************************************************************)
EXTENDS Naturals

CONSTANTS
    Docs,         \* jobs
    Simulated,    \* those that are simulated before they are analysed
    Verdicts,     \* statuses of a scored result
    RunFailures   \* failure classes of a rejected simulation

VARIABLES
    job,        \* state, attempt, events so far, states whose retry is spent
    story,      \* the events each job has published
    recorded,   \* jobs whose recording is accepted
    outcome     \* the results of each job

vars == <<job, story, recorded, outcome>>

Unknown == [state |-> "none", attempt |-> 0, events |-> 0, retried |-> {}]

\* A job changes state under an event of its current attempt.
Tell(d, state, attempt, retried) ==
    /\ job' = [job EXCEPT ![d] = [state |-> state, attempt |-> attempt,
                                  events |-> @.events + 1, retried |-> retried]]
    /\ story' = [story EXCEPT ![d] =
                   @ \cup {[sequence |-> job[d].events + 1, state |-> state,
                            attempt |-> attempt]}]

Receive(d) ==
    /\ job[d].state = "none"
    /\ Tell(d, "PENDING", 1, {})
    /\ UNCHANGED <<recorded, outcome>>

FirstState(d) == IF d \in Simulated THEN "RUNNING" ELSE "ANALYZING"
Begin(d) ==
    /\ job[d].state = "PENDING"
    /\ Tell(d, FirstState(d), job[d].attempt, {})
    /\ UNCHANGED <<recorded, outcome>>

HandOver(d) ==
    /\ job[d].state = "RUNNING"
    /\ Tell(d, "ANALYZING", job[d].attempt, job[d].retried)
    /\ recorded' = recorded \cup {d}
    /\ UNCHANGED outcome

Retry(d) ==
    /\ job[d].state \in {"RUNNING", "ANALYZING"} \ job[d].retried
    /\ Tell(d, job[d].state, job[d].attempt + 1, job[d].retried \cup {job[d].state})
    /\ UNCHANGED <<recorded, outcome>>

\* What may end a job in its state; a worker failure only after the retry.
Endings(d) ==
    {r \in {"worker_failure"} : job[d].state \in job[d].retried}
      \cup (CASE job[d].state = "RUNNING" -> RunFailures
              [] job[d].state = "ANALYZING" -> Verdicts \cup {"analysis_failure"}
              [] OTHER -> {})
End(d, r) ==
    /\ r \in Endings(d)
    /\ Tell(d, IF r \in Verdicts THEN r ELSE "ERROR", job[d].attempt, job[d].retried)
    /\ outcome' = [outcome EXCEPT ![d] = @ \cup {[attempt |-> job[d].attempt, result |-> r]}]
    /\ UNCHANGED recorded

Init ==
    /\ job = [d \in Docs |-> Unknown]
    /\ story = [d \in Docs |-> {}]
    /\ recorded = {}
    /\ outcome = [d \in Docs |-> {}]

Next == \E d \in Docs :
    \/ Receive(d) \/ Begin(d) \/ HandOver(d) \/ Retry(d)
    \/ \E r \in Verdicts \cup RunFailures \cup {"analysis_failure", "worker_failure"} : End(d, r)

Spec == Init /\ [][Next]_vars
=============================================================================
