------------------------- MODULE UpgradeProperties -------------------------
(***************************************************************************)
(* What Open guarantees to a process that uses the queue afterwards.       *)
(***************************************************************************)
EXTENDS Upgrade

\* A database of any version: what it knows of a job, and of all of them.
Row == [stage : Stages \cup {"done"}, started : BOOLEAN, bag : BOOLEAN,
        priority : 0..3, generation : 0..1,
        analysis : {None} \cup {AnalysisId(d) : d \in Docs}]
Database == [version : 0..(Current + 1),
             rows : UNION {[S -> Row] : S \in SUBSET Docs},
             retried : SUBSET Docs,
             position : [Stages -> 0..1],
             faults : UNION {[S -> [Stages -> 0..2]] : S \in SUBSET Docs}]

TypeOK ==
    /\ db \in Database
    /\ created \in {"never", "volatile", "durable"}
    /\ wal \in BOOLEAN
    /\ guard \in Openers \cup {Nobody}
    /\ at \in [Openers -> {"closed", "lock", "create", "sync", "journal", "switch",
                           "version", "upgrade", "unlock", "open", "failed"}]
    /\ seen \in [Openers -> 0..(Current + 1)]
    /\ outages \in 0..MaxOutages

\* Snapshots decide what an upgraded row says: its class, and the analysis it
\* owns once it has a recording.
RowsFilled == \A d \in DOMAIN db.rows :
    /\ db.rows[d].priority = Job[d].priority
    /\ db.rows[d].bag <=> db.rows[d].analysis # None

\* An open queue is complete whatever happened to earlier attempts to open it:
\* of this version, in WAL mode, on disk, each row in the class of its snapshot
\* and each recording reserved for its own analysis, so that no analysis job
\* can claim it again (docs/recovery.md:185, "It reserves each original
\* analysis identity before accepting new analysis jobs").
Opened ==
    \A p \in Openers : at[p] = "open" =>
        db.version = Current /\ wal /\ created = "durable" /\ RowsFilled

\* No other process makes Open fail, however many open the database at once and
\* wherever they were killed: it is refused for a newer version or, before the
\* rebuild, a saved job that cannot be read (store.go, "Journal-mode changes
\* need exclusive initialization"; migrate reads the version before its
\* transaction). An I/O error or a cancelled context also ends Open; like a
\* death it leaves the database as it is and gives the lock back, and it is
\* counted with Kill.
OpensForCause ==
    \A p \in Openers : at[p] = "failed" =>
        db.version > Current \/ ~Upgradable(db)

\* One step takes a database from its version to this one, and it loses
\* nothing: no row, stage, recording, generation, retry or dispatch position
\* (docs/recovery.md:183-184).
UpgradeKeeps ==
    [][db'.version # db.version =>
         /\ db'.version = Current
         /\ DOMAIN db'.rows = DOMAIN db.rows
         /\ \A d \in DOMAIN db.rows :
              /\ db'.rows[d].stage = db.rows[d].stage
              /\ db'.rows[d].started = db.rows[d].started
              /\ db'.rows[d].bag = db.rows[d].bag
              /\ db.version >= 2 => db'.rows[d].generation = db.rows[d].generation
         /\ db.version >= 2 => /\ db'.retried = db.retried
                               /\ db'.position = db.position]_vars

\* A process that waits for open.lock gets it, opens the queue or fails: the
\* lock is left behind by no failure, kill or power loss.
Opens == \A p \in Openers :
    at[p] = "lock" ~> at[p] \in {"open", "failed", "closed"}

\* docs/operations.md:174: "changing it or arming an already started job is
\* rejected".
ArmsUnstarted ==
    [][\A d \in DOMAIN db.rows \cap DOMAIN db'.rows, s \in Stages :
         db'.faults[d][s] \notin {0, db.faults[d][s]} => ~db.rows[d].started]_vars

-----------------------------------------------------------------------------
(* The inductive invariant.                                                *)

\* Between taking open.lock and giving it back a process is its only holder.
Inside == {"create", "sync", "journal", "switch", "version", "upgrade", "unlock"}
Exclusive == \A p \in Openers : at[p] \in Inside <=> guard = p
\* The steps behind the lock build on each other, up to an open queue.
Built ==
    \A p \in Openers :
        /\ at[p] \in Connected => created = "durable"
        /\ at[p] \in {"version", "upgrade", "unlock", "open"} => wal
        /\ at[p] = "upgrade" => seen[p] = db.version /\ db.version < Current
        /\ at[p] \in {"unlock", "open"} => db.version = Current
\* What the file and its version say about the tables.
Legacy ==
    /\ created # "durable" => db.version = 0
    /\ wal => created = "durable"
    /\ db.version = 0 => DOMAIN db.rows = {}
    /\ db.version >= 3 => RowsFilled
UpgradeInvariant == Exclusive /\ Built /\ Legacy /\ OpensForCause
=============================================================================
