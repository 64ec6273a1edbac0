-------------------------------- MODULE Pool --------------------------------
(***************************************************************************)
(* The worker processes of internal/queue: each runs Work over one shared  *)
(* queue, with its own simulation and analysis goroutines and its own      *)
(* publisher, until it is told to stop, meets a storage error or has       *)
(* drained the stages it serves. Every step of a goroutine is a step of    *)
(* Queue; this module says when a process lets it happen.                  *)
(***************************************************************************)
EXTENDS Queue

CONSTANTS
    Processes,  \* processes that may call Work
    Members,    \* the worker goroutines of each process
    Flusher,    \* the publisher goroutine of each process
    Drains,     \* the processes started with Options.Drain
    Upsets      \* bound on the disruptions after which no process dies or fails

ASSUME MembersAssumption ==
    /\ Members \in [Processes -> SUBSET Workers \ {{}}]
    /\ \A w \in Workers : \E p \in Processes : w \in Members[p]
    /\ \A p, q \in Processes : p # q => Members[p] \cap Members[q] = {}
ASSUME FlusherAssumption ==
    /\ Flusher \in [Processes -> Publishers]
    /\ \A p, q \in Processes : p # q => Flusher[p] # Flusher[q]
ASSUME DrainsAssumption == Drains \subseteq Processes
\* Room for every goroutine to be canceled and then to die or to fail to release.
ASSUME UpsetsAssumption ==
    MaxDisruptions >= Upsets + 2 * Cardinality(Workers) + Cardinality(Publishers)

VARIABLES
    phase,   \* where each process is in Work
    erring,  \* workers whose stage failed with an error of the storage
    served,  \* the rows each process found when it had drained its stages
    left     \* the leases left to expire: by a death, or by a failed release

processes == <<phase, erring, served, left>>
poolvars == <<vars, processes>>

-----------------------------------------------------------------------------
Phases == {"absent", "serving", "stopping", "stopped", "killed"}
ProcessOf(w) == CHOOSE p \in Processes : w \in Members[p]
\* Zero workers disable a stage.
Enabled(p) == {StageOf(w) : w \in Members[p]}
Move(p, from, to) == phase[p] = from /\ phase' = [phase EXCEPT ![p] = to]

Start(p) == /\ Move(p, "absent", "serving")
            /\ UNCHANGED <<vars, erring, served, left>>

\* A goroutine of the pool: claim, then perform, over and over (repeat).
Serve(w) == /\ phase[ProcessOf(w)] = "serving"
            /\ \/ Claim(w) \/ Calculate(w) \/ LoseLease(w)
               \/ AcceptBag(w) \/ AcceptRetry(w) \/ AcceptResult(w)
            /\ UNCHANGED processes

\* perform meets an error of the storage in a stage under way.
Unlucky == disruptions < Upsets
StageError(w) == /\ phase[ProcessOf(w)] = "serving"
                 /\ Unlucky
                 /\ Cancel(w)
                 /\ erring' = erring \cup {w}
                 /\ UNCHANGED <<phase, served, left>>

\* A canceled context ends the stage under way before it is accepted.
Interrupt(w) == /\ phase[ProcessOf(w)] = "stopping"
                /\ Cancel(w)
                /\ UNCHANGED processes

\* The worker goes on without its lease, and the row still carries it.
Leave(w) == Crash(w) /\ left' = left \cup {lease[w]}

\* perform gives the lease back, canceled or not, under a context of its own
\* that bounds the statement by two seconds: release may fail, and its error is
\* joined to the one of the stage.
FailRelease(w) == out[w] = "failed" /\ Leave(w)
\* An error ends the process, unless the joined one holds ErrLease: a lost
\* lease is an idle turn of the pool, whatever else went wrong in it.
Ends(w) == w \in erring /\ phase' = [phase EXCEPT ![ProcessOf(w)] = "stopping"]
Idles(w) == (w \in erring => ~Owns(w)) /\ UNCHANGED phase
GiveBack(w) == /\ phase[ProcessOf(w)] \in {"serving", "stopping"}
               /\ \/ Release(w) /\ UNCHANGED left
                  \/ FailRelease(w)
               /\ Ends(w) \/ Idles(w)
               /\ erring' = erring \ {w}
               /\ UNCHANGED served

\* The publisher of the process; once canceled it may finish a file it is
\* publishing but no longer acknowledges it.
Publish(p) == /\ \/ phase[p] = "serving" /\ Flush(Flusher[p])
                 \/ phase[p] = "stopping" /\ FlushPublish(Flusher[p])
              /\ UNCHANGED processes
StopPublishing(p) == /\ phase[p] = "stopping"
                     /\ CrashPublisher(Flusher[p])
                     /\ UNCHANGED processes

\* The query of the drain loop: unfinished jobs of the enabled stages and
\* undelivered files, counted in one statement.
UnfinishedOnly(p) == {d \in Rows : jobs[d].stage \in Enabled(p)} = {}
Drained(p) == {d \in Rows : jobs[d].stage \in Enabled(p)} = {} /\ Pending = {}
Drain(p) == /\ p \in Drains
            /\ Drained(p)
            /\ Move(p, "serving", "stopping")
            /\ served' = [served EXCEPT ![p] = Rows]
            /\ UNCHANGED <<vars, erring, left>>

\* A signal to the process, or an error of a claim, of Flush or of the query.
Stop(p) == /\ Move(p, "serving", "stopping")
           /\ UNCHANGED <<vars, erring, served, left>>

AtRestFlushed(p) == /\ \A w \in Members[p] : out[w] = "idle"
                    /\ flushing[Flusher[p]] = Resting
                    /\ Pending = {}
\* Work returns after group.Wait.
AtRest(p) == /\ \A w \in Members[p] : out[w] = "idle"
             /\ flushing[Flusher[p]] = Resting
Return(p) == /\ AtRest(p)
             /\ Move(p, "stopping", "stopped")
             /\ UNCHANGED <<vars, erring, served, left>>

-----------------------------------------------------------------------------
\* The process dies; what its goroutines knew is gone.
Kill(p) == /\ Unlucky
           /\ Move(p, phase[p], "killed")
           /\ phase[p] \in {"serving", "stopping"}
           /\ erring' = erring \ Members[p]
           /\ UNCHANGED <<vars, served, left>>
Forget(p) == /\ phase[p] = "killed"
             /\ \/ \E w \in Members[p] : Leave(w)
                \/ CrashPublisher(Flusher[p]) /\ UNCHANGED left
             /\ UNCHANGED <<phase, erring, served>>
\* Clocks behave and holders renew in time here: only a lease without a worker
\* behind it expires.
Passes(d) == Lapse(d) /\ UNCHANGED processes

-----------------------------------------------------------------------------
PoolInit == /\ Init
            /\ phase = [p \in Processes |-> "absent"]
            /\ erring = {}
            /\ served = [p \in Processes |-> {}]
            /\ left = {}

Worker(w) == Serve(w) \/ Interrupt(w) \/ GiveBack(w)
Loop(p) == Drain(p) \/ Return(p) \/ Forget(p)
Publisher(p) == Publish(p) \/ StopPublishing(p)
PoolNext == \/ Operate /\ UNCHANGED processes
            \/ \E w \in Workers : Worker(w) \/ StageError(w)
            \/ \E p \in Processes : Start(p) \/ Loop(p) \/ Publisher(p) \/ Stop(p) \/ Kill(p)
            \/ \E d \in Docs : Passes(d)
PoolSpec == PoolInit /\ [][PoolNext]_poolvars

\* A process that runs keeps taking the steps of its goroutines and of its
\* own loop; unrenewed leases expire. Nobody has to start a process.
FairPoolSpec ==
    /\ PoolSpec
    /\ \A w \in Workers : WF_poolvars(Worker(w))
    /\ \A p \in Processes :
         /\ WF_poolvars(Loop(p))
         /\ WF_poolvars(Publisher(p))
    /\ \A d \in Docs : WF_poolvars(Passes(d))
=============================================================================
