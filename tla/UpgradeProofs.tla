---------------------------- MODULE UpgradeProofs ----------------------------
(***************************************************************************)
(* Proofs that an open queue is complete, that Open fails only for cause   *)
(* and that upgrades lose nothing, for any number of processes, saved jobs *)
(* and outages.                                                            *)
(***************************************************************************)
EXTENDS UpgradeProperties, TLAPS

IInv == TypeOK /\ UpgradeInvariant

-----------------------------------------------------------------------------
(* What each part of the upgrade makes of a database.                      *)

\* The functions a table may be.
Tables == UNION {[S -> Row] : S \in SUBSET Docs}

LEMMA TableRows ==
    ASSUME NEW r \in Tables
    PROVE  /\ DOMAIN r \subseteq Docs
           /\ r = [d \in DOMAIN r |-> r[d]]
           /\ \A d \in DOMAIN r : r[d] \in Row
  BY DEF Tables

LEMMA SecondUpgrade ==
    ASSUME NEW b \in Database
    PROVE  /\ Second(b) \in Database
           /\ Second(b).version = b.version
           /\ DOMAIN Second(b).rows = DOMAIN b.rows
           /\ \A d \in DOMAIN b.rows :
                /\ Second(b).rows[d].stage = b.rows[d].stage
                /\ Second(b).rows[d].started = b.rows[d].started
                /\ Second(b).rows[d].bag = b.rows[d].bag
<1>. DEFINE r == [d \in DOMAIN b.rows |-> Fresh(b.rows[d])]
<1>1. b.rows \in Tables
  BY DEF Database, Tables
<1>2. \A d \in DOMAIN b.rows : b.rows[d] \in Row
  BY <1>1, TableRows
<1>3. \A d \in DOMAIN b.rows :
        /\ Fresh(b.rows[d]) \in Row
        /\ Fresh(b.rows[d]).stage = b.rows[d].stage
        /\ Fresh(b.rows[d]).started = b.rows[d].started
        /\ Fresh(b.rows[d]).bag = b.rows[d].bag
  BY <1>2 DEF Fresh, Row
<1>4. r \in Tables
  BY <1>1, <1>3, TableRows DEF Tables
<1>5. [s \in Stages |-> 0] \in [Stages -> 0..1]
  OBVIOUS
<1>. DEFINE p == [s \in Stages |-> 0]
<1>6. Second(b) = [b EXCEPT !.rows = r, !.position = p, !.retried = {}]
  BY DEF Second
<1>. HIDE DEF r, p
<1>7. [b EXCEPT !.rows = r, !.position = p, !.retried = {}] \in Database
  BY <1>4, <1>5 DEF Database, Tables, p
<1>8. Second(b).rows = r /\ Second(b).version = b.version
  BY <1>6 DEF Database
<1>. QED
  BY <1>3, <1>6, <1>7, <1>8 DEF r

LEMMA ThirdUpgrade ==
    ASSUME NEW b \in Database
    PROVE  /\ Third(b) \in Database
           /\ Third(b).version = b.version
           /\ DOMAIN Third(b).rows = DOMAIN b.rows
           /\ \A d \in DOMAIN b.rows :
                /\ Third(b).rows[d].stage = b.rows[d].stage
                /\ Third(b).rows[d].started = b.rows[d].started
                /\ Third(b).rows[d].bag = b.rows[d].bag
                /\ Third(b).rows[d].generation = b.rows[d].generation
                /\ Third(b).rows[d].priority = Job[d].priority
                /\ Third(b).rows[d].bag <=> Third(b).rows[d].analysis # None
           /\ Third(b).retried = b.retried
           /\ Third(b).position = b.position
<1>. DEFINE r == [d \in DOMAIN b.rows |-> Filled(d, Copied(b.rows[d]))]
<1>1. b.rows \in Tables
  BY DEF Database, Tables
<1>2. \A d \in DOMAIN b.rows : d \in Docs /\ b.rows[d] \in Row
  BY <1>1, TableRows
<1>3. ASSUME NEW d \in DOMAIN b.rows
      PROVE  LET f == Filled(d, b.rows[d]) IN
             /\ f \in Row
             /\ f.stage = b.rows[d].stage
             /\ f.started = b.rows[d].started
             /\ f.bag = b.rows[d].bag
             /\ f.generation = b.rows[d].generation
             /\ f.priority = Job[d].priority
             /\ f.bag <=> f.analysis # None
  <2>1. d \in Docs /\ b.rows[d] \in Row /\ Job[d].priority \in 0..3
    BY <1>2, JobAssumption
  <2>2. None # AnalysisId(d)
    BY <2>1, NoneAssumption DEF AnalysisId
  <2>. HIDE DEF r
  <2>. QED
    BY <2>1, <2>2 DEF Filled, Row
<1>4. r = [d \in DOMAIN b.rows |-> Filled(d, b.rows[d])]
  BY DEF Copied
<1>5. r \in Tables
  BY <1>1, <1>3, <1>4, TableRows DEF Tables
<1>6. Third(b) = [b EXCEPT !.rows = r]
  BY DEF Third
<1>. HIDE DEF r
<1>7. [b EXCEPT !.rows = r] \in Database
  BY <1>5 DEF Database, Tables
<1>8. /\ Third(b).rows = r /\ Third(b).version = b.version
      /\ Third(b).retried = b.retried /\ Third(b).position = b.position
  BY <1>6 DEF Database
<1>. QED
  BY <1>3, <1>4, <1>6, <1>7, <1>8

LEMMA FourthUpgrade ==
    ASSUME NEW b \in Database
    PROVE  /\ Fourth(b) \in Database
           /\ Fourth(b).version = Current
           /\ Fourth(b).rows = b.rows
           /\ Fourth(b).retried = b.retried
           /\ Fourth(b).position = b.position
<1>. DEFINE f == Unarmed(DOMAIN b.rows)
<1>1. DOMAIN b.rows \subseteq Docs
  BY TableRows DEF Database, Tables
<1>2. f \in UNION {[S -> [Stages -> 0..2]] : S \in SUBSET Docs}
  BY <1>1 DEF Unarmed
<1>3. Fourth(b) = [b EXCEPT !.faults = f, !.version = Current]
  BY DEF Fourth
<1>. HIDE DEF f
<1>4. Current \in 0..(Current + 1)
  BY DEF Current
<1>. DEFINE F == UNION {[S -> [Stages -> 0..2]] : S \in SUBSET Docs}
            V == 0..(Current + 1)
<1>6. Database = [version : V, rows : Tables, retried : SUBSET Docs,
                  position : [Stages -> 0..1], faults : F]
  BY DEF Database, Tables
<1>7. f \in F /\ Current \in V
  BY <1>2, <1>4
<1>. HIDE DEF F, V
<1>8. [b EXCEPT !.faults = f, !.version = Current] \in Database
  BY <1>6, <1>7
<1>9. /\ Fourth(b).version = Current /\ Fourth(b).rows = b.rows
      /\ Fourth(b).retried = b.retried /\ Fourth(b).position = b.position
  BY <1>3 DEF Database
<1>. QED
  BY <1>3, <1>8, <1>9

\* What one upgrade of any older database promises.
Complete(b) == \A d \in DOMAIN b.rows :
    /\ b.rows[d].priority = Job[d].priority
    /\ b.rows[d].bag <=> b.rows[d].analysis # None
LEMMA Upgrade ==
    ASSUME NEW b \in Database, b.version < Current, b.version >= 3 => Complete(b)
    PROVE  /\ Upgraded(b) \in Database
           /\ Upgraded(b).version = Current
           /\ Complete(Upgraded(b))
           /\ DOMAIN Upgraded(b).rows = DOMAIN b.rows
           /\ \A d \in DOMAIN b.rows :
                /\ Upgraded(b).rows[d].stage = b.rows[d].stage
                /\ Upgraded(b).rows[d].started = b.rows[d].started
                /\ Upgraded(b).rows[d].bag = b.rows[d].bag
                /\ b.version >= 2 =>
                     Upgraded(b).rows[d].generation = b.rows[d].generation
           /\ b.version >= 2 => /\ Upgraded(b).retried = b.retried
                                /\ Upgraded(b).position = b.position
<1>1. b.version \in 0..3
  BY DEF Database, Current
<1>2. CASE b.version < 2
  <2>1. Upgraded(b) = Fourth(Third(Second(b)))
    BY <1>2 DEF Upgraded
  <2>. QED
    BY <1>1, <1>2, <2>1, SecondUpgrade, ThirdUpgrade, FourthUpgrade DEF Complete
<1>3. CASE b.version = 2
  <2>1. Upgraded(b) = Fourth(Third(b))
    BY <1>3 DEF Upgraded
  <2>. QED
    BY <1>3, <2>1, ThirdUpgrade, FourthUpgrade DEF Complete
<1>4. CASE b.version = 3
  <2>1. Upgraded(b) = Fourth(b)
    BY <1>4 DEF Upgraded
  <2>. QED
    BY <1>4, <2>1, FourthUpgrade DEF Complete
<1>. QED
  BY <1>1, <1>2, <1>3, <1>4

-----------------------------------------------------------------------------
(* Every step preserves the invariant.                                     *)

LEMMA RowsFilledIsComplete == RowsFilled <=> Complete(db)
  BY DEF RowsFilled, Complete

\* Nothing a filled or unreadable table says depends on armed failures.
LEMMA ArmKeeps ==
    ASSUME IInv, NEW p \in Openers, NEW d \in Docs, NEW s \in Stages, NEW n \in 1..2,
             Arm(p, d, s, n)
    PROVE  /\ db' \in Database
           /\ db'.version = db.version /\ db'.rows = db.rows
           /\ db'.retried = db.retried /\ db'.position = db.position
<1>. DEFINE counts == [db.faults[d] EXCEPT ![s] = n]
<1>1. db' = [db EXCEPT !.faults = [db.faults EXCEPT ![d] = counts]]
  BY DEF Arm, IInv, TypeOK, Database
<1>2. [db.faults EXCEPT ![d] = counts]
        \in UNION {[S -> [Stages -> 0..2]] : S \in SUBSET Docs}
  <2>1. PICK S \in SUBSET Docs : db.faults \in [S -> [Stages -> 0..2]]
    BY DEF IInv, TypeOK, Database
  <2>2. n \in 0..2
    OBVIOUS
  <2>3. d \in S => counts \in [Stages -> 0..2]
    BY <2>1, <2>2
  <2>. HIDE DEF counts
  <2>4. [db.faults EXCEPT ![d] = counts] \in [S -> [Stages -> 0..2]]
    BY <2>1, <2>3
  <2>. QED
    BY <2>4
<1>. DEFINE F == UNION {[S -> [Stages -> 0..2]] : S \in SUBSET Docs}
            V == 0..(Current + 1)
            f == [db.faults EXCEPT ![d] = counts]
<1>3. Database = [version : V, rows : Tables, retried : SUBSET Docs,
                  position : [Stages -> 0..1], faults : F]
  BY DEF Database, Tables
<1>4. db \in Database /\ f \in F /\ db' = [db EXCEPT !.faults = f]
  BY <1>1, <1>2 DEF IInv, TypeOK
<1>. HIDE DEF F, V, f
<1>. QED
  BY <1>3, <1>4

LEMMA EmptyDatabase == Empty \in Database /\ Empty.version = 0 /\ DOMAIN Empty.rows = {}
<1>1. [d \in {} |-> None] \in Tables
  BY DEF Tables
<1>. DEFINE F == UNION {[S -> [Stages -> 0..2]] : S \in SUBSET Docs}
<1>2. [d \in {} |-> None] \in F
  <2>1. [d \in {} |-> None] \in [{} -> [Stages -> 0..2]]
    OBVIOUS
  <2>. QED
    BY <2>1
<1>3. Database = [version : 0..(Current + 1), rows : Tables, retried : SUBSET Docs,
                  position : [Stages -> 0..1], faults : F]
  BY DEF Database, Tables
<1>. HIDE DEF F
<1>. QED
  BY <1>1, <1>2, <1>3 DEF Empty, Current

LEMMA TypesHold == TypeOK /\ IInv /\ [Next]_vars => TypeOK'
<1>. SUFFICES ASSUME TypeOK, IInv, [Next]_vars PROVE TypeOK'
  OBVIOUS
<1>. USE OpenersAssumption, OutagesAssumption
<1>1. ASSUME UNCHANGED vars PROVE TypeOK'
  BY <1>1 DEF vars, TypeOK
<1>2. ASSUME NEW p \in Openers, Open(p) PROVE TypeOK'
  BY <1>2 DEF Open, Goes, TypeOK
<1>3. ASSUME NEW p \in Openers, TakeGuard(p) PROVE TypeOK'
  BY <1>3 DEF TakeGuard, Goes, TypeOK
<1>4. ASSUME NEW p \in Openers, Create(p) PROVE TypeOK'
  BY <1>4 DEF Create, Goes, TypeOK
<1>5. ASSUME NEW p \in Openers, Sync(p) PROVE TypeOK'
  BY <1>5 DEF Sync, Synced, Goes, TypeOK
<1>6. ASSUME NEW p \in Openers, Journal(p) PROVE TypeOK'
  BY <1>6 DEF Journal, Goes, TypeOK
<1>7. ASSUME NEW p \in Openers, Switch(p) PROVE TypeOK'
  BY <1>7 DEF Switch, Fails, TypeOK
<1>8. ASSUME NEW p \in Openers, ReadVersion(p) PROVE TypeOK'
  <2>1. db.version \in 0..(Current + 1)
    BY DEF TypeOK, Database
  <2>. QED
    BY <1>8, <2>1 DEF ReadVersion, Fails, TypeOK
<1>9. ASSUME NEW p \in Openers, Migrate(p) PROVE TypeOK'
  <2>1. db' = db \/ (db' = Upgraded(db) /\ at[p] = "upgrade")
    BY <1>9 DEF Migrate
  <2>2. at[p] = "upgrade" => db.version < Current
    BY DEF IInv, UpgradeInvariant, Built
  <2>3. db.version >= 3 => Complete(db)
    BY RowsFilledIsComplete DEF IInv, UpgradeInvariant, Legacy
  <2>4. db' \in Database
    BY <2>1, <2>2, <2>3, Upgrade DEF TypeOK
  <2>. QED
    BY <1>9, <2>4 DEF Migrate, Fails, TypeOK
<1>10. ASSUME NEW p \in Openers, Unlock(p) PROVE TypeOK'
  BY <1>10 DEF Unlock, Goes, TypeOK
<1>11. ASSUME NEW p \in Openers, Kill(p) PROVE TypeOK'
  BY <1>11 DEF Kill, Outage, TypeOK
<1>12. ASSUME NEW p \in Openers, NEW d \in Docs, NEW s \in Stages, NEW n \in 1..2,
             Arm(p, d, s, n) PROVE TypeOK'
  <2>1. db' \in Database
    BY <1>12, ArmKeeps
  <2>. QED
    BY <1>12, <2>1 DEF Arm, TypeOK
<1>13. ASSUME PowerLoss PROVE TypeOK'
  BY <1>13, EmptyDatabase DEF PowerLoss, Outage, TypeOK
<1>. QED
  BY <1>1, <1>2, <1>3, <1>4, <1>5, <1>6, <1>7, <1>8, <1>9, <1>10, <1>11, <1>12, <1>13
     DEF Next, Step

LEMMA ExclusiveHolds == IInv /\ [Next]_vars => Exclusive'
<1>. SUFFICES ASSUME IInv, [Next]_vars PROVE Exclusive'
  OBVIOUS
<1>. USE OpenersAssumption DEF IInv, TypeOK, UpgradeInvariant, Exclusive, Inside
<1>1. ASSUME UNCHANGED vars PROVE Exclusive'
  BY <1>1 DEF vars
<1>2. ASSUME NEW p \in Openers, Open(p) PROVE Exclusive'
  BY <1>2 DEF Open, Goes
<1>3. ASSUME NEW p \in Openers, TakeGuard(p) PROVE Exclusive'
  BY <1>3 DEF TakeGuard, Goes, GuardFree
<1>4. ASSUME NEW p \in Openers, Create(p) \/ Sync(p) \/ Journal(p) PROVE Exclusive'
  BY <1>4 DEF Create, Sync, Journal, Goes
<1>5. ASSUME NEW p \in Openers, Switch(p) \/ ReadVersion(p) \/ Migrate(p) PROVE Exclusive'
  BY <1>5 DEF Switch, ReadVersion, Migrate, Fails
<1>6. ASSUME NEW p \in Openers, Unlock(p) PROVE Exclusive'
  BY <1>6 DEF Unlock, Goes
<1>7. ASSUME NEW p \in Openers, Kill(p) PROVE Exclusive'
  BY <1>7 DEF Kill
<1>8. ASSUME NEW p \in Openers, NEW d \in Docs, NEW s \in Stages, NEW n \in 1..2,
             Arm(p, d, s, n) PROVE Exclusive'
  BY <1>8 DEF Arm
<1>9. ASSUME PowerLoss PROVE Exclusive'
  BY <1>9 DEF PowerLoss
<1>. QED
  BY <1>1, <1>2, <1>3, <1>4, <1>5, <1>6, <1>7, <1>8, <1>9 DEF Next, Step

\* Only the holder of the lock touches version, journal mode or file.
LEMMA Stable ==
    ASSUME IInv, NEW p \in Openers, at[p] \in Inside
    PROVE  \A q \in Openers \ {p} : at[q] \notin Inside
  BY OpenersAssumption DEF IInv, UpgradeInvariant, Exclusive

LEMMA BuiltHolds == IInv /\ TypeOK' /\ [Next]_vars => Built'
<1>. SUFFICES ASSUME IInv, TypeOK', [Next]_vars PROVE Built'
  OBVIOUS
<1>. USE DEF IInv, TypeOK, UpgradeInvariant, Built, Connected
<1>1. ASSUME UNCHANGED vars PROVE Built'
  BY <1>1 DEF vars
<1>2. ASSUME NEW p \in Openers, Open(p) \/ TakeGuard(p) PROVE Built'
  BY <1>2 DEF Open, TakeGuard, Goes
<1>3. ASSUME NEW p \in Openers, Create(p) PROVE Built'
  BY <1>3 DEF Create, Goes
<1>4. ASSUME NEW p \in Openers, Sync(p) PROVE Built'
  BY <1>4 DEF Sync, Synced, Goes
<1>5. ASSUME NEW p \in Openers, Journal(p) PROVE Built'
  BY <1>5 DEF Journal, Goes
<1>6. ASSUME NEW p \in Openers, Switch(p) PROVE Built'
  BY <1>6 DEF Switch, Fails
<1>7. ASSUME NEW p \in Openers, ReadVersion(p) PROVE Built'
  <2>1. db.version \in 0..(Current + 1)
    BY DEF Database
  <2>. QED
    BY <1>7, <2>1 DEF ReadVersion, Fails, Current
<1>8. ASSUME NEW p \in Openers, Migrate(p) PROVE Built'
  <2>1. CASE db.version = seen[p] /\ Upgradable(db)
    <3>1. db.version >= 3 => Complete(db)
      BY RowsFilledIsComplete DEF Legacy
    <3>2. db'.version = Current
      BY <1>8, <2>1, <3>1, Upgrade DEF Migrate
    <3>3. \A q \in Openers \ {p} : at[q] # "upgrade"
      BY <1>8, Stable DEF Migrate, Inside
    <3>. QED
      BY <1>8, <2>1, <3>2, <3>3 DEF Migrate
  <2>2. CASE ~(db.version = seen[p] /\ Upgradable(db))
    BY <1>8, <2>2 DEF Migrate, Fails
  <2>. QED
    BY <2>1, <2>2
<1>9. ASSUME NEW p \in Openers, Unlock(p) PROVE Built'
  BY <1>9 DEF Unlock, Goes
<1>10. ASSUME NEW p \in Openers, Kill(p) PROVE Built'
  BY <1>10 DEF Kill
<1>11. ASSUME NEW p \in Openers, NEW d \in Docs, NEW s \in Stages, NEW n \in 1..2,
             Arm(p, d, s, n) PROVE Built'
  BY <1>11, ArmKeeps DEF Arm
<1>12. ASSUME PowerLoss PROVE Built'
  BY <1>12 DEF PowerLoss
<1>. QED
  BY <1>1, <1>2, <1>3, <1>4, <1>5, <1>6, <1>7, <1>8, <1>9, <1>10, <1>11, <1>12 DEF Next, Step

\* Switching the journal mode never fails: whoever else is connected has the
\* queue open, in WAL mode already.
LEMMA SwitchAlone ==
    ASSUME IInv, NEW p \in Openers, at[p] = "switch" PROVE wal \/ Alone(p)
<1>1. \A q \in Openers \ {p} : at[q] \notin Inside
  BY Stable DEF Inside
<1>2. \A q \in Openers : at[q] = "open" => wal
  BY DEF IInv, UpgradeInvariant, Built
<1>. QED
  BY <1>1, <1>2 DEF Alone, Connected, Inside

LEMMA LegacyHolds == IInv /\ [Next]_vars => Legacy'
<1>. SUFFICES ASSUME IInv, [Next]_vars PROVE Legacy'
  OBVIOUS
<1>1. Legacy /\ db \in Database
  BY DEF IInv, UpgradeInvariant, TypeOK
<1>2. ASSUME UNCHANGED <<db, created, wal>> PROVE Legacy'
  BY <1>1, <1>2 DEF Legacy, RowsFilled
<1>3. ASSUME NEW p \in Openers, Create(p) PROVE Legacy'
  BY <1>1, <1>3 DEF Create, Legacy, RowsFilled
<1>4. ASSUME NEW p \in Openers, Sync(p) PROVE Legacy'
  BY <1>1, <1>4 DEF Sync, Synced, Legacy, RowsFilled
<1>5. ASSUME NEW p \in Openers, Switch(p) PROVE Legacy'
  <2>1. created = "durable"
    BY <1>5 DEF Switch, IInv, UpgradeInvariant, Built, Connected
  <2>. QED
    BY <1>1, <1>5, <2>1 DEF Switch, Legacy, RowsFilled
<1>6. ASSUME NEW p \in Openers, Migrate(p), db' # db PROVE Legacy'
  <2>1. /\ db' = Upgraded(db) /\ at[p] = "upgrade"
        /\ UNCHANGED <<created, wal>>
    BY <1>6 DEF Migrate
  <2>2. created = "durable" /\ db.version < Current
    BY <2>1 DEF IInv, UpgradeInvariant, Built, Connected
  <2>3. db.version >= 3 => Complete(db)
    BY <1>1, RowsFilledIsComplete DEF Legacy
  <2>4. Complete(db') /\ db'.version = Current
    BY <1>1, <2>1, <2>2, <2>3, Upgrade
  <2>. QED
    BY <2>1, <2>2, <2>4 DEF Legacy, RowsFilled, Complete, Current
<1>7. ASSUME NEW p \in Openers, NEW d \in Docs, NEW s \in Stages, NEW n \in 1..2,
             Arm(p, d, s, n) PROVE Legacy'
  <2>1. db'.version = db.version /\ db'.rows = db.rows
    BY <1>7, ArmKeeps
  <2>. QED
    BY <1>1, <1>7, <2>1 DEF Arm, Legacy, RowsFilled
<1>8. ASSUME PowerLoss PROVE Legacy'
  <2>1. CASE Lost
    BY <1>8, <2>1, EmptyDatabase DEF PowerLoss, Legacy, RowsFilled
  <2>2. CASE ~Lost
    BY <1>1, <1>8, <2>2 DEF PowerLoss, Legacy, RowsFilled
  <2>. QED
    BY <2>1, <2>2
<1>. QED
  BY <1>2, <1>3, <1>4, <1>5, <1>6, <1>7, <1>8
     DEF Next, Step, vars, Open, TakeGuard, Journal, ReadVersion, Migrate, Unlock, Kill

LEMMA CauseHolds == IInv /\ [Next]_vars => OpensForCause'
<1>. SUFFICES ASSUME IInv, [Next]_vars PROVE OpensForCause'
  OBVIOUS
<1>1. OpensForCause /\ at \in [Openers -> {"closed", "lock", "create", "sync", "journal",
                           "switch", "version", "upgrade", "unlock", "open", "failed"}]
  BY DEF IInv, UpgradeInvariant, TypeOK
<1>2. ASSUME db' = db, \A q \in Openers : at'[q] = "failed" => at[q] = "failed"
      PROVE OpensForCause'
  BY <1>1, <1>2 DEF OpensForCause, Upgradable
<1>3. ASSUME NEW p \in Openers, Switch(p) PROVE OpensForCause'
  <2>1. wal \/ Alone(p)
    BY <1>3, SwitchAlone DEF Switch
  <2>. QED
    BY <1>1, <1>2, <1>3, <2>1 DEF Switch
<1>4. ASSUME NEW p \in Openers, ReadVersion(p) PROVE OpensForCause'
  BY <1>1, <1>4 DEF ReadVersion, Fails, OpensForCause, Upgradable
<1>5. ASSUME NEW p \in Openers, Migrate(p) PROVE OpensForCause'
  <2>1. at[p] = "upgrade" /\ seen[p] = db.version /\ db.version < Current
    BY <1>5 DEF Migrate, IInv, UpgradeInvariant, Built
  <2>2. CASE Upgradable(db)
    <3>1. \A q \in Openers : at[q] # "failed"
      BY <1>1, <2>1, <2>2 DEF OpensForCause, IInv, TypeOK, Database, Current
    <3>. QED
      BY <1>1, <1>5, <2>1, <2>2, <3>1 DEF Migrate, OpensForCause
  <2>3. CASE ~Upgradable(db)
    BY <1>1, <1>5, <2>1, <2>3 DEF Migrate, Fails, OpensForCause, Upgradable
  <2>. QED
    BY <2>2, <2>3
<1>6. ASSUME NEW p \in Openers, NEW d \in Docs, NEW s \in Stages, NEW n \in 1..2,
             Arm(p, d, s, n)
      PROVE OpensForCause'
  <2>1. db'.version = db.version /\ db'.rows = db.rows
    BY <1>6, ArmKeeps
  <2>. QED
    BY <1>1, <1>6, <2>1 DEF Arm, OpensForCause, Upgradable
<1>7. ASSUME PowerLoss PROVE OpensForCause'
  BY <1>7 DEF PowerLoss, OpensForCause
<1>8. ASSUME NEW p \in Openers,
             Open(p) \/ TakeGuard(p) \/ Create(p) \/ Sync(p) \/ Journal(p) \/ Unlock(p) \/ Kill(p)
      PROVE OpensForCause'
  BY <1>1, <1>2, <1>8 DEF Open, TakeGuard, Create, Sync, Journal, Unlock, Kill, Goes
<1>9. ASSUME UNCHANGED vars PROVE OpensForCause'
  BY <1>2, <1>9 DEF vars
<1>. QED
  BY <1>3, <1>4, <1>5, <1>6, <1>7, <1>8, <1>9 DEF Next, Step

-----------------------------------------------------------------------------
(* The databases an opener may find.                                       *)

LEMMA OldRowTyped ==
    ASSUME NEW v \in 0..(Current + 1), NEW d \in Docs, NEW row \in Rows(v, d)
    PROVE  /\ row \in Row
           /\ v >= 3 => /\ row.priority = Job[d].priority
                        /\ row.bag <=> row.analysis # None
<1>1. row \in OldRow(v, d) /\ Possible(v, d, row)
  BY DEF Rows
<1>2. Job[d].priority \in 0..3
  BY JobAssumption
<1>3. row \in Row
  BY <1>1, <1>2 DEF OldRow, Row
<1>4. v >= 3 => row.priority = Job[d].priority
  BY <1>1 DEF OldRow
<1>. QED
  BY <1>1, <1>3, <1>4 DEF Possible

LEMMA InitHolds == Init => IInv
<1>. SUFFICES ASSUME Init PROVE IInv
  OBVIOUS
<1>. DEFINE Tables0(v, S, r, q) ==
              [Empty EXCEPT !.version = v, !.rows = r, !.retried = q,
                            !.position = [s \in Stages |-> IF v < 2 THEN 0 ELSE 1],
                            !.faults = Unarmed(S)]
<1>0. PICK v \in 0..(Current + 1) : \E S \in Saved(v) :
        /\ \E r \in [S -> UNION {Rows(v, d) : d \in S}],
              q \in IF v < 2 THEN {{}} ELSE SUBSET S :
             /\ \A d \in S : r[d] \in Rows(v, d)
             /\ db = Tables0(v, S, r, q)
        /\ created = IF v = 0 THEN "never" ELSE "durable"
        /\ wal \in IF v = 0 THEN {FALSE} ELSE BOOLEAN
  BY DEF Init
<1>1. PICK S \in Saved(v) :
        /\ \E r \in [S -> UNION {Rows(v, d) : d \in S}],
              q \in IF v < 2 THEN {{}} ELSE SUBSET S :
             /\ \A d \in S : r[d] \in Rows(v, d)
             /\ db = Tables0(v, S, r, q)
        /\ created = IF v = 0 THEN "never" ELSE "durable"
        /\ wal \in IF v = 0 THEN {FALSE} ELSE BOOLEAN
  BY <1>0
<1>2. PICK r \in [S -> UNION {Rows(v, d) : d \in S}],
           q \in IF v < 2 THEN {{}} ELSE SUBSET S :
        /\ \A d \in S : r[d] \in Rows(v, d)
        /\ db = Tables0(v, S, r, q)
  BY <1>1
<1>3. S \subseteq Docs /\ (v = 0 => S = {}) /\ q \in SUBSET Docs
  BY <1>1, <1>2 DEF Saved
<1>4. \A d \in S : /\ r[d] \in Row
                   /\ v >= 3 => /\ r[d].priority = Job[d].priority
                                /\ r[d].bag <=> r[d].analysis # None
  BY <1>1, <1>2, <1>3, OldRowTyped
<1>5. r \in [S -> Row]
  BY <1>2, <1>4
<1>. DEFINE z == [s \in Stages |-> IF v < 2 THEN 0 ELSE 1]
            f == Unarmed(S)
<1>6. z \in [Stages -> 0..1] /\ f \in [S -> [Stages -> 0..2]]
  BY DEF Unarmed
<1>7. db = [version |-> v, rows |-> r, retried |-> q, position |-> z, faults |-> f]
  BY <1>2 DEF Empty
<1>. HIDE DEF z, f
<1>8. r \in Tables /\ f \in UNION {[T -> [Stages -> 0..2]] : T \in SUBSET Docs}
  BY <1>3, <1>5, <1>6 DEF Tables
<1>9. db \in Database
  BY <1>1, <1>3, <1>6, <1>7, <1>8 DEF Database, Tables
<1>10. db.version = v /\ db.rows = r /\ DOMAIN r = S
  BY <1>5, <1>7
<1>11. TypeOK
  <2>1. /\ guard \in Openers \cup {Nobody}
        /\ at \in [Openers -> {"closed", "lock", "create", "sync", "journal", "switch",
                               "version", "upgrade", "unlock", "open", "failed"}]
        /\ seen \in [Openers -> 0..(Current + 1)]
        /\ outages \in 0..MaxOutages
    BY OutagesAssumption DEF Init, Current
  <2>2. created \in {"never", "volatile", "durable"} /\ wal \in BOOLEAN
    BY <1>1
  <2>. QED
    BY <1>9, <2>1, <2>2 DEF TypeOK
<1>12. Legacy
  BY <1>1, <1>3, <1>4, <1>10 DEF Legacy, RowsFilled
<1>13. Exclusive /\ Built /\ OpensForCause
  BY OpenersAssumption DEF Init, Exclusive, Built, OpensForCause, Inside, Connected
<1>. QED
  BY <1>11, <1>12, <1>13 DEF IInv, UpgradeInvariant

-----------------------------------------------------------------------------
(* The theorems.                                                           *)

LEMMA Inductive == IInv /\ [Next]_vars => IInv'
<1>. SUFFICES ASSUME IInv, [Next]_vars PROVE IInv'
  OBVIOUS
<1>1. TypeOK'
  BY TypesHold DEF IInv
<1>. QED
  BY <1>1, ExclusiveHolds, BuiltHolds, LegacyHolds, CauseHolds DEF IInv, UpgradeInvariant

\* Whoever opens, upgrades, dies or loses power when: open.lock has one holder,
\* the steps behind it build on each other, and what the tables say agrees with
\* the version of the database.
THEOREM UpgradeCorrect == Spec => [](TypeOK /\ UpgradeInvariant)
<1>1. Spec => []IInv
  BY InitHolds, Inductive, PTL DEF Spec
<1>. QED
  BY <1>1, PTL DEF IInv

\* A process that has the queue open has a database of this version, in WAL
\* mode, on disk, with every row in its class and every recording reserved for
\* its own analysis.
THEOREM OpenedCorrect == Spec => []Opened
<1>1. IInv => Opened
  <2>. SUFFICES ASSUME IInv PROVE Opened
    OBVIOUS
  <2>1. Built /\ Legacy
    BY DEF IInv, UpgradeInvariant
  <2>. QED
    BY <2>1 DEF Built, Legacy, Opened, Connected, Current
<1>2. Spec => []IInv
  BY InitHolds, Inductive, PTL DEF Spec
<1>. QED
  BY <1>1, <1>2, PTL

\* However many processes open the queue at once and wherever others died, Open
\* fails only because of what the database holds.
THEOREM OpensForCauseCorrect == Spec => []OpensForCause
<1>1. Spec => []IInv
  BY InitHolds, Inductive, PTL DEF Spec
<1>2. IInv => OpensForCause
  BY DEF IInv, UpgradeInvariant
<1>. QED
  BY <1>1, <1>2, PTL

\* A version changes by an upgrade only: a file that a loss of power takes away
\* had none yet.
LEMMA StepKeeps ==
    IInv /\ [Next]_vars =>
      [db'.version # db.version =>
         /\ db'.version = Current
         /\ DOMAIN db'.rows = DOMAIN db.rows
         /\ \A d \in DOMAIN db.rows :
              /\ db'.rows[d].stage = db.rows[d].stage
              /\ db'.rows[d].started = db.rows[d].started
              /\ db'.rows[d].bag = db.rows[d].bag
              /\ db.version >= 2 => db'.rows[d].generation = db.rows[d].generation
         /\ db.version >= 2 => /\ db'.retried = db.retried
                               /\ db'.position = db.position]_vars
<1>. SUFFICES ASSUME IInv, [Next]_vars, db'.version # db.version
              PROVE  /\ db'.version = Current
                     /\ DOMAIN db'.rows = DOMAIN db.rows
                     /\ \A d \in DOMAIN db.rows :
                          /\ db'.rows[d].stage = db.rows[d].stage
                          /\ db'.rows[d].started = db.rows[d].started
                          /\ db'.rows[d].bag = db.rows[d].bag
                          /\ db.version >= 2 => db'.rows[d].generation = db.rows[d].generation
                     /\ db.version >= 2 => /\ db'.retried = db.retried
                                           /\ db'.position = db.position
  OBVIOUS
<1>1. Legacy /\ db \in Database
  BY DEF IInv, UpgradeInvariant, TypeOK
<1>2. \A p \in Openers, d \in Docs, s \in Stages, n \in 1..2 : ~Arm(p, d, s, n)
  BY ArmKeeps
<1>3. ~PowerLoss
  <2>. SUFFICES ASSUME PowerLoss PROVE FALSE
    OBVIOUS
  <2>1. Lost => db.version = 0
    BY <1>1 DEF Lost, Legacy
  <2>. QED
    BY <2>1, EmptyDatabase DEF PowerLoss
<1>4. \E p \in Openers : Migrate(p)
  BY <1>2, <1>3 DEF Next, Step, vars, Open, TakeGuard, Create, Sync, Journal, Switch,
     ReadVersion, Unlock, Kill
<1>5. db' = Upgraded(db) /\ \E p \in Openers : at[p] = "upgrade"
  BY <1>4 DEF Migrate
<1>6. db.version < Current
  BY <1>5 DEF IInv, UpgradeInvariant, Built
<1>7. db.version >= 3 => Complete(db)
  BY <1>1, RowsFilledIsComplete DEF Legacy
<1>. QED
  BY <1>1, <1>5, <1>6, <1>7, Upgrade

\* One step takes a database from its version to this one and loses no row,
\* stage, recording, generation, retry or dispatch position.
THEOREM UpgradeKeepsCorrect == Spec => UpgradeKeeps
<1>1. Spec => []IInv
  BY InitHolds, Inductive, PTL DEF Spec
<1>. QED
  BY <1>1, StepKeeps, PTL DEF Spec, UpgradeKeeps
=============================================================================
