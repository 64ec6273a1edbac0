--------------------------- MODULE PoolProperties ---------------------------
(***************************************************************************)
(* What the worker processes promise to each other and to their operator.  *)
(***************************************************************************)
EXTENDS Pool, QueueProperties

\* Every step of a process is one step of the shared queue or none, so all
\* that the queue promises holds however processes start, stop and die.
ImplementsQueue == Spec

\* A leased row has a worker behind it, or carries a lease whose worker died
\* with its process or could not write the release: draining, stopping and
\* failing processes leave no other job waiting for a lease to expire
\* (workers.go, "Graceful cancellation releases leases; process death leaves
\* them to expire"; perform joins the error of a release that failed).
LeftBehind(d) == \E l \in left : l.job = d /\ l.generation = jobs[d].token
GracefulRelease ==
    \A d \in Rows : jobs[d].token # 0 => Held(d) \/ LeftBehind(d)

\* A process that ended by draining left every job it found with the files its
\* stages owe: after analysis, the result and its terminal event; after
\* simulation, the recording or such a result (Options.Drain, "exits after the
\* enabled stages and all pending file deliveries finish").
Answered(d) == /\ OnDisk("result", d)
               /\ \E n \in disk : /\ outbox[n].job = d
                                  /\ outbox[n].kind = "event"
                                  /\ outbox[n].state \in Terminal
DrainedDelivered ==
    \A p \in Processes : \A d \in served[p] :
        /\ Enabled(p) = Stages => Answered(d)
        /\ "simulation" \in Enabled(p) => BagOnDisk(d) \/ Answered(d)

\* A process that began to stop returns or is killed, and a draining one
\* does so by itself: no worker, publisher or lease of another process, dead
\* or alive, keeps it waiting for ever (workers.go, group.Wait and the drain
\* loop).
Stops ==
    \A p \in Processes :
        /\ phase[p] = "stopping" ~> phase[p] \in {"stopped", "killed"}
        /\ phase[p] = "serving" /\ p \in Drains
             ~> phase[p] \in {"stopped", "killed"}
=============================================================================
