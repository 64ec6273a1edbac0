------------------------------ MODULE Upgrade ------------------------------
(***************************************************************************)
(* Opening the queue (store.go, migrate.go): any number of processes call  *)
(* Open on one exchange, whose private directory holds no database yet or  *)
(* one written by this or an older version. They create it, switch it to   *)
(* write-ahead logging and upgrade it, each behind open.lock; they may be  *)
(* killed, and the machine may lose power, at any step. A SQLite           *)
(* transaction is one step: it commits entirely and durably or not at all. *)
(***************************************************************************)
EXTENDS Naturals

CONSTANTS
    Openers,    \* processes that call Open
    Docs,       \* the job documents older binaries may have saved
    Job,        \* their contents: priority, and the template they score by
    Invalid,    \* saved snapshots that do not parse as a run job
    Nobody,     \* holds open.lock when it is free
    None,       \* a column that is NULL
    MaxOutages  \* bound on kills and power losses

ASSUME OpenersAssumption == Nobody \notin Openers
ASSUME JobAssumption == /\ Invalid \subseteq Docs
                        /\ \A d \in Docs : Job[d].priority \in 0..3
ASSUME OutagesAssumption == MaxOutages \in Nat
ASSUME NoneAssumption == \A d \in Docs : None # <<d, Job[d].template>>

VARIABLES
    db,       \* the database: its version and tables
    created,  \* the file exists: not at all, until power is lost, or for good
    wal,      \* the journal mode is WAL
    guard,    \* the holder of open.lock
    at,       \* where each process is in Open
    seen,     \* the version it read before upgrading
    outages   \* kills and power losses so far

vars == <<db, created, wal, guard, at, seen, outages>>

-----------------------------------------------------------------------------
(* The tables. A row keeps from the first version on its stage, its state  *)
(* and whether it has a bag hash. The other columns came later.            *)

Stages == {"simulation", "analysis"}
Current == 4
Empty == [version |-> 0, rows |-> [d \in {} |-> None],
          retried |-> {}, position |-> [s \in Stages |-> 0],
          faults |-> [d \in {} |-> None]]
Fresh(row) == [stage |-> row.stage, started |-> row.started, bag |-> row.bag,
               priority |-> 0, generation |-> 0, analysis |-> None]
AnalysisId(d) == <<d, Job[d].template>>

\* upgradeV2 adds priorities, generations, dispatch positions and retries.
Second(b) == [b EXCEPT !.rows = [d \in DOMAIN b.rows |-> Fresh(b.rows[d])],
                       !.position = [s \in Stages |-> 0], !.retried = {}]
\* upgradeV3 rebuilds jobs with the columns of analysis; then each row gets
\* what its snapshot says.
Copied(row) == row
Unfilled(d, row) == [row EXCEPT !.priority = Job[d].priority]
Filled(d, row) ==
    [row EXCEPT !.priority = Job[d].priority,
                !.analysis = IF row.bag THEN AnalysisId(d) ELSE None]
Third(b) == [b EXCEPT !.rows = [d \in DOMAIN b.rows |-> Filled(d, Copied(b.rows[d]))]]
\* upgradeV4 adds the armed failures.
Unarmed(S) == [d \in S |-> [s \in Stages |-> 0]]
Fourth(b) == [b EXCEPT !.faults = Unarmed(DOMAIN b.rows), !.version = Current]

Upgraded(b) ==
    Fourth(CASE b.version < 2 -> Third(Second(b))
             [] b.version = 2 -> Third(b)
             [] OTHER -> b)
\* Snapshots are parsed by the rebuild only.
Upgradable(b) == b.version < 3 => DOMAIN b.rows \cap Invalid = {}

-----------------------------------------------------------------------------
(* Open.                                                                   *)

Goes(p, from, to) == at[p] = from /\ at' = [at EXCEPT ![p] = to]
FailsLocked(p) == /\ at' = [at EXCEPT ![p] = "failed"]
                  /\ UNCHANGED guard
Fails(p) == /\ at' = [at EXCEPT ![p] = "failed"]
            /\ guard' = Nobody

Open(p) == /\ Goes(p, "closed", "lock")
           /\ UNCHANGED <<db, created, wal, guard, seen, outages>>

Unguarded == TRUE
GuardFree == guard = Nobody
TakeGuard(p) == /\ Goes(p, "lock", "create")
                /\ GuardFree /\ guard' = p
                /\ UNCHANGED <<db, created, wal, seen, outages>>

\* O_EXCL: an existing database is kept.
Create(p) == /\ Goes(p, "create", "sync")
             /\ created' = IF created = "never" THEN "volatile" ELSE created
             /\ UNCHANGED <<db, wal, guard, seen, outages>>

\* The directories are synchronised whoever created the file.
Synced == "durable"
Sync(p) == /\ Goes(p, "sync", "journal")
           /\ created' = Synced
           /\ UNCHANGED <<db, wal, guard, seen, outages>>

\* Changing the journal mode fails while another process is connected.
Connected == {"journal", "switch", "version", "upgrade", "unlock", "open"}
Alone(p) == \A q \in Openers \ {p} : at[q] \notin Connected
Journal(p) == /\ Goes(p, "journal", IF wal THEN "version" ELSE "switch")
              /\ UNCHANGED <<db, created, wal, guard, seen, outages>>
Switch(p) ==
    /\ at[p] = "switch"
    /\ IF wal \/ Alone(p)
       THEN wal' = TRUE /\ at' = [at EXCEPT ![p] = "version"] /\ UNCHANGED guard
       ELSE Fails(p) /\ UNCHANGED wal
    /\ UNCHANGED <<db, created, seen, outages>>

\* migrate reads the version before its transaction,
ReadVersion(p) ==
    /\ at[p] = "version"
    /\ seen' = [seen EXCEPT ![p] = db.version]
    /\ IF db.version > Current THEN Fails(p)
       ELSE /\ at' = [at EXCEPT ![p] = IF db.version = Current THEN "unlock"
                                       ELSE "upgrade"]
            /\ UNCHANGED guard
    /\ UNCHANGED <<db, created, wal, outages>>

\* which fails, and is rolled back, at a table or column that is already there.
Migrate(p) ==
    /\ at[p] = "upgrade"
    /\ IF db.version = seen[p] /\ Upgradable(db)
       THEN db' = Upgraded(db) /\ at' = [at EXCEPT ![p] = "unlock"] /\ UNCHANGED guard
       ELSE Fails(p) /\ UNCHANGED db
    /\ UNCHANGED <<created, wal, seen, outages>>

Unlock(p) == /\ Goes(p, "unlock", "open")
             /\ guard' = Nobody
             /\ UNCHANGED <<db, created, wal, seen, outages>>

\* InjectFailure, of a process that has the queue open: 1 or 2 failures of a
\* stage of a run job that was not claimed before. Repeating it, or asking for
\* another number, changes nothing.
Arm(p, d, s, n) ==
    /\ at[p] = "open"
    /\ d \in DOMAIN db.rows
    /\ db.faults[d][s] = 0 /\ db.rows[d].generation = 0
    /\ db' = [db EXCEPT !.faults[d][s] = n]
    /\ UNCHANGED <<created, wal, guard, at, seen, outages>>

-----------------------------------------------------------------------------
(* Outages.                                                                *)

Outage == outages < MaxOutages /\ outages' = outages + 1
Kill(p) == /\ at[p] \notin {"closed", "failed"}
           /\ at' = [at EXCEPT ![p] = "closed"]
           /\ guard' = IF guard = p THEN Nobody ELSE guard
           /\ Outage
           /\ UNCHANGED <<db, created, wal, seen>>

\* A file whose directory entry was never synchronised is gone afterwards.
Lost == created = "volatile"
PowerLoss == /\ Outage
             /\ at' = [p \in Openers |-> "closed"]
             /\ guard' = Nobody
             /\ created' = IF Lost THEN "never" ELSE created
             /\ db' = IF Lost THEN Empty ELSE db
             /\ wal' = (wal /\ ~Lost)
             /\ UNCHANGED seen

-----------------------------------------------------------------------------
\* Databases of the older versions hold rows of run jobs at any point of their
\* life; from version 2 on they count generations, from version 3 on each row
\* with a bag owns its analysis.
OldRow(v, d) ==
    [stage : Stages \cup {"done"}, started : BOOLEAN, bag : BOOLEAN,
     priority : {IF v < 2 THEN 0 ELSE Job[d].priority}, generation : 0..1,
     analysis : {None, AnalysisId(d)}]
Possible(v, d, row) ==
    /\ row.stage = "analysis" => row.bag /\ row.started
    /\ row.bag => row.stage # "simulation"
    /\ row.stage = "done" => row.started
    /\ row.generation # 0 <=> v >= 2 /\ row.started
    /\ row.analysis # None <=> v >= 3 /\ row.bag
Rows(v, d) == {row \in OldRow(v, d) : Possible(v, d, row)}
Saved(v) == IF v = 0 THEN {{}} ELSE SUBSET Docs

Init ==
    /\ \E v \in 0..(Current + 1) : \E S \in Saved(v) :
         /\ \E r \in [S -> UNION {Rows(v, d) : d \in S}],
               q \in IF v < 2 THEN {{}} ELSE SUBSET S :
              /\ \A d \in S : r[d] \in Rows(v, d)
              /\ db = [Empty EXCEPT !.version = v, !.rows = r, !.retried = q,
                                   !.position = [s \in Stages |-> IF v < 2 THEN 0 ELSE 1],
                                   !.faults = Unarmed(S)]
         /\ created = IF v = 0 THEN "never" ELSE "durable"
         /\ wal \in IF v = 0 THEN {FALSE} ELSE BOOLEAN
    /\ guard = Nobody
    /\ at = [p \in Openers |-> "closed"]
    /\ seen = [p \in Openers |-> 0]
    /\ outages = 0

Step(p) == \/ TakeGuard(p) \/ Create(p) \/ Sync(p) \/ Journal(p) \/ Switch(p)
           \/ ReadVersion(p) \/ Migrate(p) \/ Unlock(p)
Next == \/ \E p \in Openers :
             \/ Open(p) \/ Step(p) \/ Kill(p)
             \/ \E d \in Docs, s \in Stages, n \in 1..2 : Arm(p, d, s, n)
        \/ PowerLoss

Spec == Init /\ [][Next]_vars
\* A process that called Open runs, and tries open.lock again and again.
FairSpec == Spec /\ \A p \in Openers : WF_vars(Step(p))
=============================================================================
