-------------------------- MODULE StandaloneProofs --------------------------
(***************************************************************************)
(* Ownership and grounding of standalone execution, for any number of      *)
(* commands, jobs and clock readings.                                      *)
(***************************************************************************)
EXTENDS StandaloneProperties, TLAPS

\* The paths of different kinds of files differ, and each names its parts.
LEMMA NameKinds ==
    ASSUME NEW e \in Executions, NEW f \in Executions,
           NEW r \in Results, NEW s \in Results
    PROVE  /\ ResultName(r) # BagName(e)
           /\ AnnouncedAt(r) # BagName(e)
           /\ AnnouncedAt(r) # ResultName(s)
           /\ BagName(e) = BagName(f) => e = f
BY DEF ResultName, AnnouncedAt, BagName, FailureName, ScoreName, EventName

LEMMA ScoreNames ==
    ASSUME NEW r \in Results, NEW s \in Results, ResultName(r) = ResultName(s)
    PROVE  /\ Execution[r.job] = Execution[s.job]
           /\ r.outcome = "scored" <=> s.outcome = "scored"
           /\ r.outcome = "scored" => Recording[r.job] = Recording[s.job]
BY DEF ResultName, FailureName, ScoreName

LEMMA NameTypes ==
    /\ \A e \in Executions : BagName(e) \in Names
    /\ \A r \in Results : /\ ResultName(r) \in Names /\ AnnouncedAt(r) \in Names
                          /\ Execution[r.job] \in Executions
                          /\ r \in Documents /\ r # Free
    /\ \A j \in Jobs : /\ Execution[j] \in Executions
                       /\ Recording[j] \in Documents
                       /\ Recording[j] # Free /\ Recording[j] \notin Results
    /\ \A p \in Processes : Job[p] \in Jobs /\ Mode[p] \in Modes
    /\ \A n \in Names : \/ \E e \in Executions : n = BagName(e)
                        \/ \E r \in Results : n \in {ResultName(r), AnnouncedAt(r)}
<1>1. \A r \in Results : Execution[r.job] \in Executions
  BY DEF Results, Executions
<1>. QED
  BY <1>1, DocumentAssumption, ProcessAssumption DEF Names, Executions, Documents

LEMMA OtherMode ==
    ASSUME NEW m \in Modes
    PROVE  Other(m) \in Modes /\ Other(m) # m /\ Modes = {m, Other(m)}
BY DEF Other, Modes

LEMMA InitInvariant == Init => StandaloneInvariant
<1>. SUFFICES ASSUME Init
              PROVE  StandaloneInvariant
  OBVIOUS
<1>. USE DEF Init
<1>1. TypeOK
  BY DEF TypeOK, Steps
<1>2. Guarded
  BY ProcessAssumption DEF Guarded, Locked
<1>3. OneMode
  BY DEF OneMode, Works, Locked, Modes
<1>4. Achieved
  BY DEF Achieved, Locked
<1>5. Present = {}
  BY NameTypes DEF Present
<1>6. Founded
  <2>1. \A n \in Names : files[n] = Free
    OBVIOUS
  <2>2. \A e \in Executions : files[BagName(e)] \notin Results
    BY <2>1, NameTypes, DocumentAssumption DEF Documents
  <2>. QED
    BY <1>5, <2>1, <2>2, NameTypes DEF Founded
<1>. QED
  BY <1>1, <1>2, <1>3, <1>4, <1>6 DEF StandaloneInvariant

-----------------------------------------------------------------------------
(* What a step does to the files.                                          *)

\* Every step but a loss of power leaves the files alone, binds one free name,
\* or declares one bound name durable.
Binds(n, d) == /\ n \in Names /\ files[n] = Free
               /\ files' = [files EXCEPT ![n] = d]
               /\ settled' = settled
Declares(n) == /\ n \in Names /\ files[n] # Free
               /\ files' = files
               /\ settled' = settled \cup {n}
Untouched == files' = files /\ settled' = settled

LEMMA PublishEffect ==
    ASSUME NEW p, NEW n \in Names, NEW d, NEW from, NEW to,
           Publish(p, n, d, from, to)
    PROVE  Untouched \/ Binds(n, d)
BY DEF Publish, Refuse, Exchange!Publish, Untouched, Binds


\* The five steps that change the exchange.
LEMMA FileCases ==
    ASSUME StandaloneInvariant, NEW p \in Processes, Process(p)
    PROVE  LET r == draft[p]
               b == BagName(Execution[Job[p]])
           IN \/ Untouched
              \/ at[p] = "bag" /\ Binds(b, Recording[Job[p]])
              \/ at[p] = "bagged" /\ Declares(b)
              \/ /\ at[p] = "publish" /\ Binds(ResultName(r), r)
                 /\ r.outcome = "scored" => files[b] = Recording[Job[p]]
              \/ at[p] = "announce" /\ Declares(ResultName(r))
              \/ /\ at[p] = "event" /\ Binds(AnnouncedAt(r), r)
                 /\ files[ResultName(r)] = r
              \/ at[p] = "announced" /\ Declares(AnnouncedAt(r))
<1>. DEFINE r == draft[p]
            b == BagName(Execution[Job[p]])
<1>0. b \in Names /\ Recording[Job[p]] # Free
  BY NameTypes
<1>1. at[p] \in Locked \ {"look"} =>
        /\ r \in Results /\ r # Free
        /\ ResultName(r) \in Names /\ AnnouncedAt(r) \in Names
  BY NameTypes DEF StandaloneInvariant, Achieved
<1>2. CASE PublishBag(p)
  <2>1. CASE Publish(p, b, Recording[Job[p]], "bag", "bagged")
    BY <1>0, <2>1, PublishEffect DEF Publish, Refuse, Goes
  <2>2. CASE Settle(p, b, "bagged", "reconcile")
    BY <1>0, <2>2 DEF Settle, Goes, Durable, Declares, StandaloneInvariant, Achieved
  <2>. QED
    BY <1>2, <2>1, <2>2 DEF PublishBag
<1>3. CASE PublishResult(p)
  <2>1. ASSUME Publish(p, ResultName(r), r, "publish", Then(p)),
               r.outcome = "scored" => files[b] = Recording[Job[p]]
        PROVE  Untouched \/ /\ at[p] = "publish" /\ Binds(ResultName(r), r)
                            /\ r.outcome = "scored" => files[b] = Recording[Job[p]]
    <3>1. at[p] = "publish"
      BY <2>1 DEF Publish, Refuse, Goes
    <3>. QED
      BY <1>1, <2>1, <3>1, PublishEffect DEF Locked
  <2>2. CASE Settle(p, ResultName(r), "announce", "event")
    <3>1. at[p] = "announce"
      BY <2>2 DEF Settle, Goes
    <3>. QED
      BY <1>1, <2>2, <3>1
         DEF Settle, Durable, Declares, StandaloneInvariant, Achieved, Locked
  <2>. QED
    BY <1>3, <2>1, <2>2 DEF PublishResult
<1>4. CASE PublishEvent(p)
  <2>1. ASSUME Publish(p, AnnouncedAt(r), r, "event", "announced"),
               files[ResultName(r)] = r
        PROVE  Untouched \/ /\ at[p] = "event" /\ Binds(AnnouncedAt(r), r)
                            /\ files[ResultName(r)] = r
    <3>1. at[p] = "event"
      BY <2>1 DEF Publish, Refuse, Goes
    <3>. QED
      BY <1>1, <2>1, <3>1, PublishEffect DEF Locked
  <2>2. CASE Settle(p, AnnouncedAt(r), "announced", "return")
    <3>1. at[p] = "announced"
      BY <2>2 DEF Settle, Goes
    <3>. QED
      BY <1>1, <2>2, <3>1
         DEF Settle, Durable, Declares, StandaloneInvariant, Achieved, Locked
  <2>. QED
    BY <1>4, <2>1, <2>2 DEF PublishEvent
<1>5. \/ PublishBag(p) \/ PublishResult(p) \/ PublishEvent(p) \/ Untouched
  BY DEF Process, Begin, TakeGuard, Choose, SyncMark, TakeLock, Look, Refuse,
         Simulate, Reconcile, Return, Stop, Untouched
<1>. QED
  BY <1>2, <1>3, <1>4, <1>5

\* Bound names keep their document, and durable names stay durable.
LEMMA Grow ==
    ASSUME StandaloneInvariant, NEW p \in Processes, Process(p)
    PROVE  /\ \A n \in Names : files[n] # Free => files'[n] = files[n]
           /\ settled \subseteq settled'
<1>1. files \in [Names -> Documents \cup {Free}]
  BY DEF StandaloneInvariant, TypeOK
<1>. QED
  BY <1>1, FileCases DEF Untouched, Binds, Declares

\* A loss of power takes back names that nobody was told of, and ends every
\* process.
LEMMA Lost ==
    ASSUME StandaloneInvariant, PowerLoss
    PROVE  /\ files' \in [Names -> Documents \cup {Free}]
           /\ \A n \in Names : files'[n] \in {files[n], Free}
           /\ \A n \in settled : files'[n] = files[n]
           /\ settled' = settled
           /\ kept \subseteq marks' /\ marks' \subseteq marks /\ kept' = marks'
           /\ at' = [p \in Processes |-> "idle"]
<1>. USE DEF StandaloneInvariant, TypeOK
<1>1. PICK lost \in SUBSET {n \in Names \ settled : files[n] # Free} :
          Exchange!Forget(lost)
  BY DEF PowerLoss
<1>2. files' = [n \in Names |-> IF n \in lost THEN Free ELSE files[n]]
  BY <1>1 DEF Exchange!Forget
<1>3. settled' = settled
  BY <1>1 DEF Exchange!Forget
<1>. QED
  BY <1>2, <1>3 DEF PowerLoss

-----------------------------------------------------------------------------
(* Ownership.                                                              *)

LEMMA OwnershipStep ==
    ASSUME StandaloneInvariant, NEW p \in Processes, Process(p)
    PROVE  /\ Guarded'
           /\ \A q \in Processes : Works(q)' => Mode[q] \in kept'
           /\ marks' # Modes
<1>. USE ProcessAssumption
     DEF StandaloneInvariant, TypeOK, Guarded, OneMode, Works, Locked
<1>1. CASE Choose(p)
  <2>1. Mode[p] \in Modes
    OBVIOUS
  <2>2. ~Taken(p) => marks \subseteq {Mode[p]}
    BY <2>1, OtherMode DEF Taken
  <2>3. marks' # Modes
    BY <1>1, <2>1, <2>2, OtherMode DEF Choose
  <2>. QED
    BY <1>1, <2>3 DEF Choose, Goes
<1>2. CASE SyncMark(p)
  BY <1>2 DEF SyncMark, Synced, Goes, Modes
<1>3. CASE Begin(p) \/ TakeGuard(p) \/ TakeLock(p) \/ Simulate(p)
           \/ Reconcile(p) \/ Return(p)
  BY <1>3 DEF Begin, TakeGuard, TakeLock, Simulate, Reconcile, Refuse, Return, Goes
<1>4. CASE Look(p)
  BY <1>4 DEF Look, Refuse, Goes
<1>5. CASE PublishBag(p) \/ PublishResult(p) \/ PublishEvent(p)
  BY <1>5 DEF PublishBag, PublishResult, PublishEvent, Publish, Settle, Refuse,
              Then, Goes
<1>6. CASE Stop(p)
  BY <1>6 DEF Stop
<1>. QED
  BY <1>1, <1>2, <1>3, <1>4, <1>5, <1>6 DEF Process


\* Files appear only where a process works in standalone mode.
LEMMA OneModeStep ==
    ASSUME StandaloneInvariant, NEW p \in Processes, Process(p)
    PROVE  OneMode'
<1>1. \A q \in Processes : Works(q)' => Mode[q] \in kept'
  BY OwnershipStep
<1>2. marks' # Modes
  BY OwnershipStep
<1>3. ASSUME NEW n \in Names, files'[n] # Free
      PROVE  "standalone" \in kept'
  <2>1. kept \subseteq kept'
    BY DEF StandaloneInvariant, TypeOK, Process, Begin, TakeGuard, Choose,
           SyncMark, Synced, TakeLock, Look, Refuse, Simulate, PublishBag,
           Reconcile, PublishResult, PublishEvent, Publish, Settle, Return, Stop
  <2>2. CASE files[n] # Free
    BY <2>1, <2>2 DEF StandaloneInvariant, OneMode
  <2>3. CASE files[n] = Free
    <3>1. at[p] \in {"bag", "publish", "event"}
      BY <1>3, <2>3, FileCases DEF Untouched, Declares
    <3>2. "standalone" \in kept
      BY <3>1 DEF StandaloneInvariant, Guarded, OneMode, Works, Locked
    <3>. QED
      BY <2>1, <3>2
  <2>. QED
    BY <2>2, <2>3
<1>. QED
  BY <1>1, <1>2, <1>3 DEF OneMode

-----------------------------------------------------------------------------
(* Types.                                                                  *)

\* An accepted run failure is a result, and never a score.
LEMMA FailureType ==
    ASSUME StandaloneInvariant, NEW p \in Processes, Failure(p) # Free
    PROVE  Failure(p) \in Results /\ Failure(p).outcome # "scored"
<1>1. PICK t \in Times : TRUE
  BY TimesAssumption
<1>. DEFINE r == [job |-> Job[p], outcome |-> "timeout", started |-> t]
<1>2. r \in Results /\ ResultName(r) = FailureName(Execution[Job[p]])
  BY NameTypes DEF Results, Outcomes, ResultName
<1>. QED
  BY <1>2, ScoreNames DEF StandaloneInvariant, Founded, Failure

\* A step changes the draft of its process only, to a result of its job.
LEMMA DraftStep ==
    ASSUME StandaloneInvariant, NEW p \in Processes, Process(p)
    PROVE  /\ draft' \in [Processes -> Results \cup {Free}]
           /\ \A q \in Processes \ {p} : draft'[q] = draft[q]
           /\ at'[p] \in Locked \ {"look"} => draft'[p] # Free /\ draft'[p].job = Job[p]
<1>. USE NameTypes DEF StandaloneInvariant, TypeOK, Achieved, Locked
<1>1. CASE Look(p)
  <2>1. CASE /\ Goes(p, "look", "record")
             /\ \E t \in Times : draft' = [draft EXCEPT ![p] =
                   [job |-> Job[p], outcome |-> "scored", started |-> t]]
    <3>1. PICK t \in Times : draft' = [draft EXCEPT ![p] =
                   [job |-> Job[p], outcome |-> "scored", started |-> t]]
      BY <2>1
    <3>2. [job |-> Job[p], outcome |-> "scored", started |-> t] \in Results
      BY DEF Results, Outcomes
    <3>. QED
      BY <3>1, <3>2
  <2>2. CASE /\ Failure(p) # Free /\ Failure(p).job = Job[p]
             /\ Goes(p, "look", "publish")
             /\ draft' = [draft EXCEPT ![p] = Failure(p)]
    BY <2>2, FailureType
  <2>3. CASE Refuse(p, "look")
    BY <2>3 DEF Refuse, Dropped, Goes
  <2>. QED
    BY <1>1, <2>1, <2>2, <2>3 DEF Look
<1>2. CASE Simulate(p)
  <2>1. at[p] = "record" /\ draft[p] \in Results /\ draft[p].job = Job[p]
    BY <1>2 DEF Simulate, Goes
  <2>. DEFINE o == IF Job[p] \in Broken THEN "failed" ELSE "timeout"
  <2>2. [draft[p] EXCEPT !.outcome = o] \in Results
    BY <2>1 DEF Results, Outcomes
  <2>3. \/ draft' = draft
        \/ draft' = [draft EXCEPT ![p] = [draft[p] EXCEPT !.outcome = o]]
    BY <1>2 DEF Simulate
  <2>. QED
    BY <2>1, <2>2, <2>3 DEF Results
<1>3. CASE Reconcile(p)
  <2>. DEFINE old == files[ResultName(draft[p])]
  <2>1. at[p] = "reconcile" /\ draft[p] \in Results /\ draft[p].job = Job[p]
    BY <1>3 DEF Reconcile, Refuse, Goes
  <2>2. old # Free => old \in Results
    BY <2>1 DEF Founded
  <2>3. Adopted(p, old) \in Results /\ Adopted(p, old).job = Job[p]
    BY <2>1, <2>2 DEF Adopted, Results
  <2>4. draft' = [draft EXCEPT ![p] = Adopted(p, old)] \/ Refuse(p, "reconcile")
    BY <1>3 DEF Reconcile
  <2>. QED
    BY <2>3, <2>4 DEF Refuse, Dropped, Goes
<1>4. CASE Return(p) \/ Stop(p)
  BY <1>4 DEF Return, Stop, Dropped, Goes
<1>5. CASE PublishBag(p) \/ PublishResult(p) \/ PublishEvent(p)
  BY <1>5 DEF PublishBag, PublishResult, PublishEvent, Publish, Settle, Refuse,
              Dropped, Then, Goes
<1>6. CASE Begin(p) \/ TakeGuard(p) \/ Choose(p) \/ SyncMark(p) \/ TakeLock(p)
  BY <1>6 DEF Begin, TakeGuard, Choose, SyncMark, TakeLock, Goes
<1>. QED
  BY <1>1, <1>2, <1>3, <1>4, <1>5, <1>6 DEF Process

LEMMA TypeStep ==
    ASSUME StandaloneInvariant, NEW p \in Processes, Process(p)
    PROVE  TypeOK'
<1>. USE NameTypes, ProcessAssumption DEF StandaloneInvariant, TypeOK
<1>1. marks' \subseteq Modes /\ kept' \subseteq marks' /\ guard' \in Processes \cup {Nobody}
  BY DEF Process, Begin, TakeGuard, Choose, SyncMark, Synced, TakeLock, Look,
         Refuse, Simulate, PublishBag, Reconcile, PublishResult, PublishEvent,
         Publish, Settle, Return, Stop
<1>2. locks' \in [Executions -> Processes \cup {Nobody}]
  BY DEF Process, Begin, TakeGuard, Choose, SyncMark, TakeLock, Look, Refuse,
         Simulate, PublishBag, Reconcile, PublishResult, PublishEvent, Publish,
         Settle, Return, Stop, Released
<1>3. /\ files' \in [Names -> Documents \cup {Free}]
      /\ settled' \subseteq {n \in Names : files'[n] # Free}
  <2>. DEFINE r == draft[p]
  <2>1. at[p] \in {"publish", "event"} => r \in Documents
    BY DEF Achieved, Locked
  <2>2. files' \in [Names -> Documents \cup {Free}]
    BY <2>1, FileCases DEF Untouched, Binds, Declares
  <2>3. \A n \in settled' : n \in Names /\ files'[n] # Free
    <3>. SUFFICES ASSUME NEW n \in settled'
                  PROVE  n \in Names /\ files'[n] # Free
      OBVIOUS
    <3>1. CASE n \in settled
      BY <3>1, Grow
    <3>2. CASE n \notin settled
      BY <3>2, FileCases DEF Untouched, Binds, Declares
    <3>. QED
      BY <3>1, <3>2
  <2>. QED
    BY <2>2, <2>3
<1>4. at' \in [Processes -> Steps]
  BY DEF Process, Begin, TakeGuard, Choose, SyncMark, TakeLock, Look, Refuse,
         Simulate, PublishBag, Reconcile, PublishResult, PublishEvent, Publish,
         Settle, Then, Return, Stop, Goes, Steps
<1>5. draft' \in [Processes -> Results \cup {Free}]
  BY DraftStep
<1>6. reported' \in [Executions -> SUBSET Results]
  <2>1. CASE Return(p)
    <3>1. draft[p] \in Results
      BY <2>1 DEF Return, Goes, Achieved, Locked
    <3>. QED
      BY <2>1, <3>1 DEF Return
  <2>2. CASE ~Return(p)
    <3>1. reported' = reported
      BY <2>2 DEF Process, Begin, TakeGuard, Choose, SyncMark, TakeLock, Look,
                  Refuse, Simulate, PublishBag, Reconcile, PublishResult,
                  PublishEvent, Publish, Settle, Stop
    <3>. QED
      BY <3>1
  <2>. QED
    BY <2>1, <2>2
<1>. QED
  BY <1>1, <1>2, <1>3, <1>4, <1>5, <1>6

-----------------------------------------------------------------------------
(* What processes achieve, and what documents rest on.                     *)

LEMMA AchievedStep ==
    ASSUME StandaloneInvariant, NEW p \in Processes, Process(p)
    PROVE  Achieved'
<1>. USE NameTypes DEF StandaloneInvariant, TypeOK
<1>1. ASSUME NEW q \in Processes \ {p}
      PROVE  /\ at'[q] = at[q] /\ draft'[q] = draft[q]
  <2>1. at'[q] = at[q]
    BY DEF Process, Begin, TakeGuard, Choose, SyncMark, TakeLock, Look, Refuse,
           Simulate, PublishBag, Reconcile, PublishResult, PublishEvent, Publish,
           Settle, Then, Return, Stop, Goes
  <2>. QED
    BY <2>1, DraftStep
<1>. DEFINE b(q) == BagName(Execution[Job[q]])
<1>2. ASSUME NEW q \in Processes, at'[q] \in Locked \ {"look"}
      PROVE  draft'[q] \in Results /\ draft'[q].job = Job[q]
  BY <1>1, <1>2, DraftStep DEF Achieved
<1>3. ASSUME NEW q \in Processes, at'[q] \in {"record", "bag", "bagged"}
      PROVE  draft'[q].outcome = "scored"
  <2>1. CASE q # p
    BY <1>1, <1>3, <2>1 DEF Achieved
  <2>2. CASE q = p
    BY <1>3, <2>2
       DEF Achieved, Locked, Process, Begin, TakeGuard, Choose, SyncMark,
           TakeLock, Look, Refuse, Simulate, PublishBag, Reconcile,
           PublishResult, PublishEvent, Publish, Settle, Then, Return, Stop, Goes
  <2>. QED
    BY <2>1, <2>2
<1>4. ASSUME NEW q \in Processes, at'[q] = "bagged"
      PROVE  files'[b(q)] = Recording[Job[q]]
  <2>1. CASE q # p
    BY <1>1, <1>4, <2>1, Grow DEF Achieved
  <2>2. CASE q = p
    <3>1. Publish(p, b(p), Recording[Job[p]], "bag", "bagged")
      BY <1>4, <2>2
         DEF Process, Begin, TakeGuard, Choose, SyncMark, TakeLock, Look, Refuse,
             Simulate, PublishBag, Reconcile, PublishResult, PublishEvent,
             Publish, Settle, Then, Return, Stop, Goes
    <3>. QED
      BY <1>4, <2>2, <3>1 DEF Publish, Refuse, Goes, Exchange!Publish
  <2>. QED
    BY <2>1, <2>2
<1>5. ASSUME NEW q \in Processes,
             at'[q] \in Locked \ {"look", "record", "bag", "bagged"},
             draft'[q].outcome = "scored"
      PROVE  files'[b(q)] = Recording[Job[q]] /\ b(q) \in settled'
  <2>1. CASE q # p
    BY <1>1, <1>5, <2>1, Grow DEF Achieved
  <2>2. CASE q = p
    <3>1. CASE Settle(p, b(p), "bagged", "reconcile")
      BY <2>2, <3>1 DEF Settle, Durable, Goes, Achieved
    <3>2. CASE /\ at[p] \in Locked \ {"look", "record", "bag", "bagged"}
               /\ draft[p].outcome = "scored"
      BY <2>2, <3>2, Grow DEF Achieved
    <3>3. \/ Settle(p, b(p), "bagged", "reconcile")
          \/ /\ at[p] \in Locked \ {"look", "record", "bag", "bagged"}
             /\ draft[p].outcome = "scored"
      <4>1. CASE Look(p)
        BY <1>5, <2>2, <4>1, FailureType DEF Look, Refuse, Goes, Locked
      <4>2. CASE Simulate(p)
        BY <1>5, <2>2, <4>2 DEF Simulate, Goes, Locked, Achieved, Results
      <4>3. CASE Reconcile(p)
        BY <1>5, <2>2, <4>3
           DEF Reconcile, Adopted, Refuse, Goes, Locked, Achieved, Results
      <4>4. CASE PublishBag(p)
        BY <1>5, <2>2, <4>4 DEF PublishBag, Publish, Refuse, Settle, Goes, Locked
      <4>5. CASE PublishResult(p) \/ PublishEvent(p)
        BY <1>5, <2>2, <4>5 DEF PublishResult, PublishEvent, Publish, Refuse,
                                Settle, Then, Goes, Locked
      <4>6. CASE \/ Begin(p) \/ TakeGuard(p) \/ Choose(p) \/ SyncMark(p)
                 \/ TakeLock(p) \/ Return(p) \/ Stop(p)
        BY <1>5, <2>2, <4>6 DEF Begin, TakeGuard, Choose, SyncMark, TakeLock,
                                Return, Stop, Goes, Locked
      <4>. QED
        BY <4>1, <4>2, <4>3, <4>4, <4>5, <4>6 DEF Process
    <3>. QED
      BY <3>1, <3>2, <3>3
  <2>. QED
    BY <2>1, <2>2
<1>6. ASSUME NEW q \in Processes,
             at'[q] \in {"announce", "event", "announced", "return"}
      PROVE  /\ files'[ResultName(draft'[q])] = draft'[q]
             /\ at'[q] # "announce" => ResultName(draft'[q]) \in settled'
             /\ at'[q] = "announced" => files'[AnnouncedAt(draft'[q])] = draft'[q]
  <2>1. CASE q # p
    <3>. DEFINE r == draft[q]
    <3>1. /\ draft'[q] = r /\ at'[q] = at[q] /\ r \in Results /\ r # Free
          /\ ResultName(r) \in Names /\ AnnouncedAt(r) \in Names
          /\ files[ResultName(r)] = r
          /\ at[q] # "announce" => ResultName(r) \in settled
          /\ at[q] = "announced" => files[AnnouncedAt(r)] = r
      BY <1>1, <1>6, <2>1 DEF Achieved, Locked
    <3>. QED
      BY <3>1, Grow
  <2>2. CASE q = p
    <3>. DEFINE r == draft[p]
    <3>1. /\ PublishResult(p) \/ PublishEvent(p)
          /\ draft'[p] = r
      BY <1>6, <2>2
         DEF Process, Begin, TakeGuard, Choose, SyncMark, TakeLock, Look, Refuse,
             Simulate, PublishBag, Reconcile, PublishResult, PublishEvent,
             Publish, Settle, Then, Return, Stop, Goes
    <3>2. /\ r \in Results /\ r # Free
          /\ ResultName(r) \in Names /\ AnnouncedAt(r) \in Names
      BY <1>2, <1>6, <2>2, <3>1 DEF Locked
    <3>3. CASE Publish(p, ResultName(r), r, "publish", Then(p))
      BY <1>6, <2>2, <3>1, <3>2, <3>3
         DEF Publish, Refuse, Then, Goes, Exchange!Publish
    <3>4. CASE Settle(p, ResultName(r), "announce", "event")
      BY <1>6, <2>2, <3>1, <3>2, <3>4 DEF Settle, Durable, Goes, Achieved
    <3>5. CASE Publish(p, AnnouncedAt(r), r, "event", "announced")
      <4>1. at[p] = "event" /\ files[ResultName(r)] = r /\ ResultName(r) \in settled
        BY <3>5 DEF Publish, Refuse, Goes, Achieved
      <4>2. at'[p] = "announced" /\ files'[AnnouncedAt(r)] = r
        BY <1>6, <2>2, <3>2, <3>5 DEF Publish, Refuse, Goes, Exchange!Publish
      <4>. QED
        BY <2>2, <3>1, <3>2, <4>1, <4>2, Grow
    <3>6. CASE Settle(p, AnnouncedAt(r), "announced", "return")
      BY <1>6, <2>2, <3>1, <3>2, <3>6 DEF Settle, Durable, Goes, Achieved
    <3>. QED
      BY <3>1, <3>3, <3>4, <3>5, <3>6 DEF PublishResult, PublishEvent
  <2>. QED
    BY <2>1, <2>2
<1>. QED
  BY <1>2, <1>3, <1>4, <1>5, <1>6 DEF Achieved, Locked

LEMMA FoundedStep ==
    ASSUME StandaloneInvariant, NEW p \in Processes, Process(p)
    PROVE  Founded'
<1>. USE NameTypes DEF StandaloneInvariant, TypeOK
<1>. DEFINE d == draft[p]
            b == BagName(Execution[Job[p]])
<1>0. /\ at[p] \in {"publish", "event"} =>
            /\ d \in Results /\ d.job = Job[p]
            /\ d.outcome = "scored" => b \in settled
      /\ at[p] = "event" => ResultName(d) \in settled
  BY DEF Achieved, Locked
\* The four ways in which a name comes to have its document.
<1>1. ASSUME NEW n \in Names, files'[n] # Free
      PROVE  \/ files[n] = files'[n]
             \/ at[p] = "bag" /\ n = b /\ files'[n] = Recording[Job[p]]
             \/ /\ at[p] = "publish" /\ n = ResultName(d) /\ files'[n] = d
                /\ d.outcome = "scored" => files[b] = Recording[Job[p]]
             \/ /\ at[p] = "event" /\ n = AnnouncedAt(d) /\ files'[n] = d
                /\ files[ResultName(d)] = d
  BY <1>1, FileCases DEF Untouched, Binds, Declares
<1>2. ASSUME NEW e \in Executions
      PROVE  files'[BagName(e)] \notin Results
  <2>1. CASE files'[BagName(e)] = Free
    BY <2>1, DocumentAssumption DEF Documents
  <2>2. CASE files'[BagName(e)] # Free
    BY <1>0, <1>1, <2>2, NameKinds DEF Founded
  <2>. QED
    BY <2>1, <2>2
<1>3. ASSUME NEW r \in Results, files'[ResultName(r)] # Free
      PROVE  /\ files'[ResultName(r)] \in Results
             /\ ResultName(files'[ResultName(r)]) = ResultName(r)
  BY <1>0, <1>1, <1>3, NameKinds DEF Founded
<1>4. ASSUME NEW r \in Results, files'[AnnouncedAt(r)] # Free
      PROVE  /\ files'[AnnouncedAt(r)] \in Present'
             /\ ResultName(files'[AnnouncedAt(r)]) \in settled'
  <2>. DEFINE s == files'[AnnouncedAt(r)]
  <2>1. s \in Results /\ files[ResultName(s)] = s /\ ResultName(s) \in settled
    BY <1>0, <1>1, <1>4, NameKinds DEF Founded, Present
  <2>. QED
    BY <2>1, Grow DEF Present
<1>5. ASSUME NEW r \in Present', r.outcome = "scored"
      PROVE  /\ files'[BagName(Execution[r.job])] = Recording[r.job]
             /\ BagName(Execution[r.job]) \in settled'
  <2>1. r \in Results /\ files'[ResultName(r)] = r /\ r # Free
    BY DEF Present
  <2>2. CASE files[ResultName(r)] = r
    <3>1. /\ files[BagName(Execution[r.job])] = Recording[r.job]
          /\ BagName(Execution[r.job]) \in settled
      BY <1>5, <2>1, <2>2 DEF Founded, Present
    <3>. QED
      BY <3>1, <2>1, Grow
  <2>3. CASE files[ResultName(r)] # r
    <3>1. at[p] = "publish" /\ r = d /\ files[b] = Recording[Job[p]]
      BY <1>0, <1>1, <1>5, <2>1, <2>3, NameKinds
    <3>. QED
      BY <1>0, <1>5, <3>1, Grow
  <2>. QED
    BY <2>2, <2>3
<1>. QED
  BY <1>2, <1>3, <1>4, <1>5 DEF Founded

LEMMA PowerLossStep ==
    ASSUME StandaloneInvariant, PowerLoss
    PROVE  StandaloneInvariant'
<1>. USE NameTypes, Lost DEF StandaloneInvariant
<1>1. TypeOK'
  BY DEF TypeOK, PowerLoss, Steps
<1>2. Guarded'
  BY ProcessAssumption DEF Guarded, PowerLoss, Locked
<1>3. OneMode'
  <2>1. \A n \in Names : files'[n] # Free => files[n] # Free
    OBVIOUS
  <2>. QED
    BY <2>1 DEF OneMode, TypeOK, Works, Locked
<1>4. Achieved'
  BY DEF Achieved, Locked
<1>5. Founded'
  <2>1. \A e \in Executions : files'[BagName(e)] \notin Results
    BY DEF Founded
  <2>2. \A r \in Results : files'[ResultName(r)] # Free =>
          /\ files'[ResultName(r)] \in Results
          /\ ResultName(files'[ResultName(r)]) = ResultName(r)
    BY DEF Founded
  <2>3. \A r \in Results : files'[AnnouncedAt(r)] # Free =>
          /\ files'[AnnouncedAt(r)] \in Present'
          /\ ResultName(files'[AnnouncedAt(r)]) \in settled'
    BY DEF Founded, Present
  <2>4. \A r \in Present' : r.outcome = "scored" =>
          /\ files'[BagName(Execution[r.job])] = Recording[r.job]
          /\ BagName(Execution[r.job]) \in settled'
    BY DEF Founded, Present
  <2>. QED
    BY <2>1, <2>2, <2>3, <2>4 DEF Founded
<1>. QED
  BY <1>1, <1>2, <1>3, <1>4, <1>5

LEMMA InvariantStep == StandaloneInvariant /\ [Next]_vars => StandaloneInvariant'
<1>. SUFFICES ASSUME StandaloneInvariant, [Next]_vars
              PROVE  StandaloneInvariant'
  OBVIOUS
<1>1. ASSUME NEW p \in Processes, Process(p)
      PROVE  StandaloneInvariant'
  BY <1>1, TypeStep, OwnershipStep, OneModeStep, AchievedStep, FoundedStep
     DEF StandaloneInvariant
<1>2. CASE PowerLoss
  BY <1>2, PowerLossStep
<1>3. CASE UNCHANGED vars
  BY <1>3 DEF vars, StandaloneInvariant, TypeOK, Guarded, OneMode, Works,
              Achieved, Founded, Present
<1>. QED
  BY <1>1, <1>2, <1>3 DEF Next

-----------------------------------------------------------------------------
\* Whatever runs, fails or loses power: the conjunction of what is known of
\* locks, ownership, processes and files.
THEOREM StandaloneCorrect == Spec => []StandaloneInvariant
BY InitInvariant, InvariantStep, PTL DEF Spec

\* Run and finish use the exchange as publication promises it (WriteOnce, which
\* Publication implements): nobody writes a name that is taken, and no name is
\* called durable that is not bound.
THEOREM StandaloneWritesOnce == Spec => Exchange!Spec
<1>1. Init => Exchange!Init
  BY DEF Init, Exchange!Init
<1>2. StandaloneInvariant /\ [Next]_vars => [Exchange!Next]_<<files, settled>>
  <2>. SUFFICES ASSUME StandaloneInvariant, [Next]_vars
                PROVE  Exchange!Next \/ Untouched
    BY DEF Untouched
  <2>1. ASSUME NEW n \in Names, NEW d \in Documents, Binds(n, d)
        PROVE  Exchange!Next
    BY <2>1 DEF Binds, Exchange!Next, Exchange!Publish
  <2>2. ASSUME NEW n, Declares(n)
        PROVE  Exchange!Next
    BY <2>2 DEF Declares, Exchange!Next, Exchange!Acknowledge
  <2>3. ASSUME NEW p \in Processes, Process(p)
        PROVE  Exchange!Next \/ Untouched
    <3>1. Recording[Job[p]] \in Documents /\ BagName(Execution[Job[p]]) \in Names
      BY NameTypes
    <3>2. at[p] \in {"publish", "event"} =>
            draft[p] \in Documents /\ ResultName(draft[p]) \in Names
                                   /\ AnnouncedAt(draft[p]) \in Names
      BY NameTypes DEF StandaloneInvariant, Achieved, Locked
    <3>. QED
      BY <2>1, <2>2, <2>3, <3>1, <3>2, FileCases
  <2>4. CASE PowerLoss
    BY <2>4 DEF PowerLoss, Exchange!Next
  <2>5. CASE UNCHANGED vars
    BY <2>5 DEF vars, Untouched
  <2>. QED
    BY <2>3, <2>4, <2>5 DEF Next
<1>. QED
  BY <1>1, <1>2, StandaloneCorrect, PTL DEF Spec, Exchange!Spec

\* An exchange is used in one mode for good.
THEOREM OneModeCorrect == Spec => []OneMode
<1>1. StandaloneInvariant => OneMode
  BY DEF StandaloneInvariant
<1>. QED
  BY <1>1, StandaloneCorrect, PTL

\* Events find their results and scores their recordings, in every state that a
\* reader or a reboot can see.
THEOREM GroundedCorrect == Spec => []Grounded
<1>1. StandaloneInvariant => Grounded
  <2>. SUFFICES ASSUME StandaloneInvariant
                PROVE  Grounded
    OBVIOUS
  <2>. USE NameTypes DEF StandaloneInvariant
  <2>1. ASSUME NEW n \in Names, files[n] \in Results
        PROVE  files[n] \in Present
    <3>1. files[n] # Free
      BY <2>1
    <3>2. ASSUME NEW r \in Results, n = ResultName(r)
          PROVE  files[n] \in Present
      BY <2>1, <3>1, <3>2 DEF Founded, Present
    <3>3. ASSUME NEW r \in Results, n = AnnouncedAt(r)
          PROVE  files[n] \in Present
      BY <3>1, <3>3 DEF Founded
    <3>4. ASSUME NEW e \in Executions, n = BagName(e)
          PROVE  FALSE
      BY <2>1, <3>4 DEF Founded
    <3>. QED
      BY <3>2, <3>3, <3>4
  <2>. QED
    BY <2>1 DEF Grounded, Founded
<1>. QED
  BY <1>1, StandaloneCorrect, PTL

\* No copy of a job and no rival of it adds a second score to an execution.
THEOREM OneScoreCorrect == Spec => []OneScore
<1>1. StandaloneInvariant => OneScore
  <2>. SUFFICES ASSUME StandaloneInvariant,
                       NEW a \in Present, NEW b \in Present,
                       a.outcome = "scored", b.outcome = "scored",
                       Execution[a.job] = Execution[b.job]
                PROVE  a = b
    BY DEF OneScore
  <2>1. Recording[a.job] = Recording[b.job]
    BY DEF StandaloneInvariant, Founded
  <2>2. ResultName(a) = ResultName(b)
    BY <2>1 DEF ResultName
  <2>. QED
    BY <2>2 DEF Present
<1>. QED
  BY <1>1, StandaloneCorrect, PTL

-----------------------------------------------------------------------------
(* Outcomes.                                                               *)

LEMMA OthersStay ==
    ASSUME StandaloneInvariant, NEW p \in Processes, Process(p),
           NEW q \in Processes, q # p
    PROVE  at'[q] = at[q] /\ draft'[q] = draft[q]
<1>1. at'[q] = at[q]
  BY DEF StandaloneInvariant, TypeOK,
         Process, Begin, TakeGuard, Choose, SyncMark, TakeLock, Look, Refuse,
         Simulate, PublishBag, Reconcile, PublishResult, PublishEvent, Publish,
         Settle, Then, Return, Stop, Goes
<1>. QED
  BY <1>1, DraftStep

\* The run failure of an execution is a name of the exchange, of that execution.
LEMMA FailureNames ==
    /\ \A e \in Executions : /\ FailureName(e) \in Names
                             /\ \A f \in Executions : FailureName(e) # BagName(f)
    /\ \A e \in Executions, r \in Results :
          /\ FailureName(e) # AnnouncedAt(r)
          /\ FailureName(e) = ResultName(r) <=>
                Execution[r.job] = e /\ r.outcome # "scored"
<1>1. ASSUME NEW e \in Executions, NEW r \in Results
      PROVE  /\ FailureName(e) # AnnouncedAt(r)
             /\ FailureName(e) = ResultName(r) <=>
                   Execution[r.job] = e /\ r.outcome # "scored"
  BY DEF FailureName, AnnouncedAt, EventName, ResultName, ScoreName
<1>2. ASSUME NEW e \in Executions
      PROVE  FailureName(e) \in Names
  <2>1. PICK t \in Times, j \in Jobs : Execution[j] = e
    BY TimesAssumption DEF Executions
  <2>. DEFINE r == [job |-> j, outcome |-> "timeout", started |-> t]
  <2>2. r \in Results /\ ResultName(r) = FailureName(e)
    BY <2>1 DEF Results, Outcomes, ResultName
  <2>. QED
    BY <2>2, NameTypes
<1>3. \A e, f \in Executions : FailureName(e) # BagName(f)
  BY DEF FailureName, BagName
<1>. QED
  BY <1>1, <1>2, <1>3

\* A name that changes was free and gets a document of the process.
LEMMA NewNames ==
    ASSUME StandaloneInvariant, NEW p \in Processes, Process(p),
           NEW n \in Names, files'[n] # files[n]
    PROVE  /\ files[n] = Free
           /\ \/ at[p] = "bag" /\ n = BagName(Execution[Job[p]])
              \/ /\ at[p] \in {"publish", "event"} /\ files'[n] = draft[p]
                 /\ draft[p] \in Results /\ draft[p].job = Job[p]
                 /\ \/ at[p] = "publish" /\ n = ResultName(draft[p])
                    \/ at[p] = "event" /\ n = AnnouncedAt(draft[p])
<1>1. files \in [Names -> Documents \cup {Free}]
  BY DEF StandaloneInvariant, TypeOK
<1>2. at[p] \in {"publish", "event"} => draft[p] \in Results /\ draft[p].job = Job[p]
  BY DEF StandaloneInvariant, Achieved, Locked
<1>. QED
  BY <1>1, <1>2, FileCases DEF Untouched, Binds, Declares

LEMMA ExclusiveStep ==
    ASSUME OutcomeInvariant, NEW p \in Processes, Process(p)
    PROVE  Exclusive'
<1>. USE NameTypes, ProcessAssumption DEF OutcomeInvariant, StandaloneInvariant, TypeOK
<1>1. ASSUME NEW q \in Processes, q # p, at'[q] \in Locked
      PROVE  locks'[Execution[Job[q]]] = q
  <2>1. locks[Execution[Job[q]]] = q
    BY <1>1, OthersStay DEF Exclusive
  <2>2. CASE TakeLock(p)
    BY <1>1, <2>1, <2>2 DEF TakeLock, Lockable
  <2>3. locks' = locks \/ locks' = Released(p) \/ TakeLock(p)
    BY DEF Process, Begin, TakeGuard, Choose, SyncMark, Look, Refuse,
           Simulate, PublishBag, Reconcile, PublishResult, PublishEvent, Publish,
           Settle, Return, Stop
  <2>. QED
    BY <1>1, <2>1, <2>2, <2>3 DEF Released
<1>2. ASSUME at'[p] \in Locked
      PROVE  locks'[Execution[Job[p]]] = p
  <2>1. CASE TakeLock(p)
    BY <2>1 DEF TakeLock
  <2>2. CASE ~TakeLock(p)
    <3>1. at[p] \in Locked /\ locks' = locks
      BY <1>2, <2>2 DEF Process, Begin, TakeGuard, Choose, SyncMark, Look, Refuse,
           Simulate, PublishBag, Reconcile, PublishResult, PublishEvent, Publish,
           Settle, Then, Return, Stop, Goes, Locked
    <3>. QED
      BY <3>1 DEF Exclusive
  <2>. QED
    BY <2>1, <2>2
<1>. QED
  BY <1>1, <1>2 DEF Exclusive

\* While a process has the lock, nobody else works on its execution.
LEMMA Alone ==
    ASSUME OutcomeInvariant, NEW p \in Processes, NEW q \in Processes, q # p,
           at[p] \in Locked, at[q] \in Locked
    PROVE  Execution[Job[p]] # Execution[Job[q]]
BY DEF OutcomeInvariant, Exclusive

LEMMA FailureIsPresent ==
    ASSUME StandaloneInvariant, NEW p \in Processes, Failure(p) # Free
    PROVE  /\ Failure(p) \in Present /\ Failure(p).outcome # "scored"
           /\ Execution[Failure(p).job] = Execution[Job[p]]
           /\ ResultName(Failure(p)) = FailureName(Execution[Job[p]])
<1>1. Failure(p) \in Results /\ Failure(p).outcome # "scored"
  BY FailureType
<1>2. PICK t \in Times : TRUE
  BY TimesAssumption
<1>. DEFINE r == [job |-> Job[p], outcome |-> "timeout", started |-> t]
<1>3. r \in Results /\ ResultName(r) = FailureName(Execution[Job[p]])
  BY NameTypes DEF Results, Outcomes, ResultName
<1>4. ResultName(Failure(p)) = FailureName(Execution[Job[p]])
  BY <1>3 DEF StandaloneInvariant, Founded, Failure
<1>5. Execution[Failure(p).job] = Execution[Job[p]]
  BY <1>1, <1>4, NameTypes, FailureNames
<1>. QED
  BY <1>1, <1>4, <1>5 DEF Present, Failure

LEMMA PresentGrows ==
    ASSUME StandaloneInvariant, NEW p \in Processes, Process(p)
    PROVE  /\ Present \subseteq Present'
           /\ \A r \in Present' : r \in Present \/ (at[p] = "publish" /\ r = draft[p])
<1>1. Present \subseteq Present'
  BY NameTypes, Grow DEF Present
<1>2. ASSUME NEW r \in Present', r \notin Present
      PROVE  at[p] = "publish" /\ r = draft[p]
  <2>1. r \in Results /\ files'[ResultName(r)] = r /\ files[ResultName(r)] # r
    BY <1>2 DEF Present
  <2>2. /\ ResultName(r) \in Names
        /\ ResultName(r) # BagName(Execution[Job[p]])
        /\ \A s \in Results : ResultName(r) # AnnouncedAt(s)
    BY <2>1, NameTypes, NameKinds
  <2>. QED
    BY <2>1, <2>2, NewNames
<1>. QED
  BY <1>1, <1>2

LEMMA CandidStep ==
    ASSUME OutcomeInvariant, NEW p \in Processes, Process(p)
    PROVE  Candid'
<1>. USE DEF OutcomeInvariant
<1>1. ASSUME NEW r \in Present'
      PROVE  Honest(r)
  BY <1>1, PresentGrows DEF Candid, Locked
<1>2. ASSUME NEW q \in Processes, q # p, at'[q] \in Locked \ {"look", "record"}
      PROVE  Honest(draft'[q])
  BY <1>2, OthersStay DEF Candid
<1>3. ASSUME at'[p] \in Locked \ {"look", "record"}
      PROVE  Honest(draft'[p])
  <2>. USE DEF StandaloneInvariant, TypeOK
  <2>1. CASE Look(p)
    <3>1. Failure(p) # Free /\ draft' = [draft EXCEPT ![p] = Failure(p)]
      BY <1>3, <2>1 DEF Look, Refuse, Goes, Locked
    <3>. QED
      BY <3>1, FailureIsPresent DEF Candid
  <2>2. CASE Simulate(p)
    <3>1. /\ at[p] = "record" /\ draft[p] \in Results /\ draft[p].job = Job[p]
          /\ draft[p].outcome = "scored"
      BY <2>2 DEF Simulate, Goes, Achieved, Locked
    <3>2. CASE Job[p] \notin Broken /\ draft' = draft
      BY <3>1, <3>2 DEF Honest
    <3>3. CASE draft' = [draft EXCEPT ![p].outcome =
                            IF Job[p] \in Broken THEN "failed" ELSE "timeout"]
      BY <3>1, <3>3 DEF Honest, Results
    <3>. QED
      BY <2>2, <3>2, <3>3 DEF Simulate
  <2>3. CASE Reconcile(p)
    <3>. DEFINE old == files[ResultName(draft[p])]
    <3>1. /\ at[p] = "reconcile" /\ draft[p] \in Results
          /\ draft' = [draft EXCEPT ![p] = Adopted(p, old)]
      BY <1>3, <2>3 DEF Reconcile, Refuse, Goes, Locked, Achieved
    <3>2. Honest(draft[p])
      BY <3>1 DEF Candid, Locked
    <3>. QED
      BY <3>1, <3>2 DEF Adopted, Honest, Results
  <2>4. CASE PublishBag(p) \/ PublishResult(p) \/ PublishEvent(p)
    <3>1. draft' = draft /\ at[p] \in Locked \ {"look", "record"}
      BY <1>3, <2>4 DEF PublishBag, PublishResult, PublishEvent, Publish, Settle,
                        Refuse, Then, Goes, Locked
    <3>. QED
      BY <3>1 DEF Candid
  <2>. QED
    BY <1>3, <2>1, <2>2, <2>3, <2>4
       DEF Process, Begin, TakeGuard, Choose, SyncMark, TakeLock, Return, Stop, Goes, Locked
<1>. QED
  BY <1>1, <1>2, <1>3 DEF Candid, Honest

LEMMA PendingStep ==
    ASSUME OutcomeInvariant, NEW p \in Processes, Process(p)
    PROVE  Pending'
<1>. USE DEF OutcomeInvariant
<1>. DEFINE Early == {"record", "bag", "bagged", "reconcile", "publish"}
<1>1. ASSUME NEW q \in Processes, q # p
      PROVE  /\ at'[q] \in Early /\ draft'[q].outcome = "scored" => Failure(q)' = Free
             /\ at'[q] = "publish" => files'[ResultName(draft'[q])] \in {Free, draft'[q]}
  <2>1. at'[q] = at[q] /\ draft'[q] = draft[q]
    BY <1>1, OthersStay
  <2>. SUFFICES ASSUME at[q] \in Early
                PROVE  /\ files'[FailureName(Execution[Job[q]])] = files[FailureName(Execution[Job[q]])]
                       /\ files'[ResultName(draft[q])] = files[ResultName(draft[q])]
    BY <2>1 DEF Pending, Failure
  <2>2. draft[q] \in Results /\ draft[q].job = Job[q] /\ at[q] \in Locked
    BY DEF StandaloneInvariant, Achieved, Locked
  <2>3. at[p] \in Locked => Execution[Job[p]] # Execution[Job[q]]
    BY <1>1, <2>2, Alone
  <2>4. at[p] = "publish" => draft[p] \in Results /\ draft[p].job = Job[p] /\ at[p] \in Locked
    BY DEF StandaloneInvariant, Achieved, Locked
  <2>5. /\ ResultName(draft[q]) \in Names
        /\ ResultName(draft[q]) # BagName(Execution[Job[p]])
        /\ \A s \in Results : ResultName(draft[q]) # AnnouncedAt(s)
    BY <2>2, NameTypes, NameKinds
  <2>6. files'[ResultName(draft[q])] = files[ResultName(draft[q])]
    BY <2>2, <2>3, <2>4, <2>5, NewNames, ScoreNames
  <2>7. /\ FailureName(Execution[Job[q]]) \in Names
        /\ FailureName(Execution[Job[q]]) # BagName(Execution[Job[p]])
        /\ \A s \in Results : FailureName(Execution[Job[q]]) # AnnouncedAt(s)
        /\ \A s \in Results : FailureName(Execution[Job[q]]) = ResultName(s) =>
              Execution[s.job] = Execution[Job[q]]
    BY NameTypes, FailureNames
  <2>8. files'[FailureName(Execution[Job[q]])] = files[FailureName(Execution[Job[q]])]
    BY <2>3, <2>4, <2>7, NewNames
  <2>. QED
    BY <2>6, <2>8
<1>2. /\ at'[p] \in Early /\ draft'[p].outcome = "scored" => Failure(p)' = Free
      /\ at'[p] = "publish" => files'[ResultName(draft'[p])] \in {Free, draft'[p]}
  <2>. USE DEF StandaloneInvariant, TypeOK
  <2>1. CASE Look(p)
    <3>1. files' = files
      BY <2>1 DEF Look, Refuse
    <3>2. CASE Failure(p) = Free
      BY <2>1, <3>1, <3>2 DEF Look, Goes, Refuse, Failure
    <3>3. CASE Failure(p) # Free
      <4>1. /\ Failure(p).outcome # "scored"
            /\ files[ResultName(Failure(p))] = Failure(p)
        BY <3>3, FailureIsPresent DEF Failure
      <4>2. \/ at'[p] = "refused"
            \/ at'[p] = "publish" /\ draft'[p] = Failure(p)
        BY <2>1, <3>3 DEF Look, Goes, Refuse
      <4>. QED
        BY <3>1, <4>1, <4>2
    <3>. QED
      BY <3>2, <3>3
  <2>2. CASE Simulate(p)
    <3>1. at[p] = "record" /\ draft[p] \in Results /\ files' = files
      BY <2>2 DEF Simulate, Goes, Achieved, Locked
    <3>2. CASE draft' = draft /\ at'[p] = "bag"
      BY <3>1, <3>2 DEF Pending, Failure
    <3>3. CASE /\ draft' = [draft EXCEPT ![p].outcome =
                               IF Job[p] \in Broken THEN "failed" ELSE "timeout"]
               /\ at'[p] = "reconcile"
      BY <3>1, <3>3 DEF Results
    <3>. QED
      BY <2>2, <3>2, <3>3 DEF Simulate, Goes
  <2>3. CASE PublishBag(p)
    <3>1. FailureName(Execution[Job[p]]) # BagName(Execution[Job[p]])
          /\ FailureName(Execution[Job[p]]) \in Names
      BY NameTypes, FailureNames
    <3>2. at[p] \in {"bag", "bagged"} /\ at'[p] \in {"bagged", "reconcile", "refused"}
      BY <2>3 DEF PublishBag, Publish, Settle, Refuse, Goes
    <3>3. files'[FailureName(Execution[Job[p]])] = files[FailureName(Execution[Job[p]])]
      BY <3>1, <3>2, NewNames
    <3>4. draft' = draft \/ at'[p] = "refused"
      BY <2>3 DEF PublishBag, Publish, Settle, Refuse, Goes
    <3>. QED
      BY <3>2, <3>3, <3>4 DEF Pending, Failure
  <2>4. CASE Reconcile(p)
    <3>. DEFINE old == files[ResultName(draft[p])]
    <3>1. /\ at[p] = "reconcile" /\ draft[p] \in Results /\ files' = files
      BY <2>4 DEF Reconcile, Refuse, Goes, Locked, Achieved
    <3>2. CASE old \in {Free, Adopted(p, old)} /\ draft' = [draft EXCEPT ![p] = Adopted(p, old)]
      <4>1. draft'[p] = Adopted(p, old)
        BY <3>2
      <4>2. Adopted(p, old).outcome = draft[p].outcome /\ Adopted(p, old).job = draft[p].job
        BY <3>1 DEF Adopted, Results
      <4>3. ResultName(Adopted(p, old)) = ResultName(draft[p])
        BY <4>2 DEF ResultName
      <4>. QED
        BY <3>1, <3>2, <4>1, <4>2, <4>3 DEF Pending, Failure
    <3>3. CASE Refuse(p, "reconcile")
      BY <3>3 DEF Refuse, Goes
    <3>. QED
      BY <2>4, <3>2, <3>3 DEF Reconcile
  <2>5. CASE ~(Look(p) \/ Simulate(p) \/ PublishBag(p) \/ Reconcile(p))
    <3>1. at'[p] \notin Early
      BY <2>5 DEF Process, Begin, TakeGuard, Choose, SyncMark, TakeLock, PublishResult,
                  PublishEvent, Publish, Settle, Refuse, Then, Return, Stop, Goes
    <3>. QED
      BY <3>1
  <2>. QED
    BY <2>1, <2>2, <2>3, <2>4, <2>5
<1>3. \A q \in Processes :
        /\ at'[q] \in Early /\ draft'[q].outcome = "scored" => Failure(q)' = Free
        /\ at'[q] = "publish" => files'[ResultName(draft'[q])] \in {Free, draft'[q]}
  BY <1>1, <1>2
<1>. QED
  BY <1>3 DEF Pending, Failure

LEMMA TitledStep ==
    ASSUME OutcomeInvariant, NEW p \in Processes, Process(p)
    PROVE  Titled'
<1>. SUFFICES ASSUME NEW r \in Results, files'[AnnouncedAt(r)] # Free
              PROVE  AnnouncedAt(files'[AnnouncedAt(r)]) = AnnouncedAt(r)
  BY DEF Titled, AnnouncedAt
<1>. USE DEF OutcomeInvariant
<1>1. /\ AnnouncedAt(r) \in Names
      /\ AnnouncedAt(r) # BagName(Execution[Job[p]])
      /\ \A s \in Results : AnnouncedAt(r) # ResultName(s)
  BY NameTypes, NameKinds
<1>2. CASE files'[AnnouncedAt(r)] = files[AnnouncedAt(r)]
  BY <1>2 DEF Titled
<1>3. CASE files'[AnnouncedAt(r)] # files[AnnouncedAt(r)]
  BY <1>1, <1>3, NewNames
<1>. QED
  BY <1>2, <1>3

LEMMA ReturnedStep ==
    ASSUME OutcomeInvariant, NEW p \in Processes, Process(p)
    PROVE  Returned'
<1>. USE DEF OutcomeInvariant
<1>1. settled \subseteq settled' /\ Present \subseteq Present'
  BY Grow, PresentGrows
<1>2. ASSUME NEW q \in Processes, at'[q] = "return"
      PROVE  AnnouncedAt(draft'[q]) \in settled'
  <2>1. CASE q # p
    BY <1>1, <1>2, <2>1, OthersStay DEF Returned
  <2>2. CASE q = p
    BY <1>2, <2>2 DEF Process, Begin, TakeGuard, Choose, SyncMark, TakeLock, Look, Refuse,
         Simulate, PublishBag, Reconcile, PublishResult, PublishEvent, Publish,
         Settle, Durable, Then, Return, Stop, Goes, StandaloneInvariant, TypeOK
  <2>. QED
    BY <2>1, <2>2
<1>3. ASSUME NEW e \in Executions, NEW r \in reported'[e]
      PROVE  r \in Present' /\ Execution[r.job] = e
             /\ {ResultName(r), AnnouncedAt(r)} \subseteq settled'
  <2>1. CASE r \in reported[e]
    BY <1>1, <2>1 DEF Returned
  <2>2. CASE r \notin reported[e]
    <3>1. Return(p)
      BY <1>3, <2>2 DEF Process, Begin, TakeGuard, Choose, SyncMark, TakeLock, Look, Refuse,
         Simulate, PublishBag, Reconcile, PublishResult, PublishEvent, Publish,
         Settle, Stop
    <3>2. at[p] = "return" /\ r = draft[p] /\ e = Execution[Job[p]]
      BY <1>3, <2>2, <3>1 DEF Return, Goes, StandaloneInvariant, TypeOK
    <3>3. /\ r \in Results /\ r.job = Job[p] /\ files[ResultName(r)] = r
          /\ ResultName(r) \in settled
      BY <3>2 DEF StandaloneInvariant, Achieved, Locked
    <3>4. r \in Present
      BY <3>3 DEF Present
    <3>5. AnnouncedAt(r) \in settled
      BY <3>2 DEF Returned
    <3>. QED
      BY <1>1, <3>2, <3>3, <3>4, <3>5
  <2>. QED
    BY <2>1, <2>2
<1>. QED
  BY <1>2, <1>3 DEF Returned, ResultName, AnnouncedAt

LEMMA PowerLossOutcome ==
    ASSUME OutcomeInvariant, PowerLoss
    PROVE  Exclusive' /\ Candid' /\ Pending' /\ Titled' /\ Returned'
<1>. USE NameTypes, Lost DEF OutcomeInvariant
<1>1. Exclusive'
  BY DEF Exclusive, Locked
<1>2. Present' \subseteq Present
  BY DEF Present
<1>3. Candid'
  BY <1>2 DEF Candid, Locked, Honest
<1>4. Pending'
  BY DEF Pending
<1>5. Titled'
  BY DEF Titled, AnnouncedAt
<1>6. ASSUME NEW e \in Executions, NEW r \in reported'[e]
      PROVE  r \in Present' /\ Execution[r.job] = e
             /\ {ResultName(r), AnnouncedAt(r)} \subseteq settled'
  <2>1. r \in reported[e]
    BY <1>6 DEF PowerLoss
  <2>2. r \in Present /\ ResultName(r) \in settled
    BY <2>1 DEF Returned
  <2>3. r \in Present'
    BY <2>2 DEF Present
  <2>. QED
    BY <2>1, <2>3 DEF Returned
<1>7. Returned'
  BY <1>6 DEF Returned, ResultName, AnnouncedAt
<1>. QED
  BY <1>1, <1>3, <1>4, <1>5, <1>7

LEMMA OutcomeInit == Init => OutcomeInvariant
<1>. SUFFICES ASSUME Init
              PROVE  OutcomeInvariant
  OBVIOUS
<1>1. Present = {}
  BY NameTypes DEF Init, Present
<1>2. Exclusive /\ Candid /\ Pending /\ Returned
  BY <1>1 DEF Init, Exclusive, Candid, Pending, Returned, Locked
<1>3. Titled
  BY NameTypes DEF Init, Titled
<1>. QED
  BY <1>2, <1>3, InitInvariant DEF OutcomeInvariant

LEMMA OutcomeStep == OutcomeInvariant /\ [Next]_vars => OutcomeInvariant'
<1>. SUFFICES ASSUME OutcomeInvariant, [Next]_vars
              PROVE  OutcomeInvariant'
  OBVIOUS
<1>1. StandaloneInvariant'
  BY InvariantStep DEF OutcomeInvariant
<1>2. ASSUME NEW p \in Processes, Process(p)
      PROVE  Exclusive' /\ Candid' /\ Pending' /\ Titled' /\ Returned'
  BY <1>2, ExclusiveStep, CandidStep, PendingStep, TitledStep, ReturnedStep
<1>3. CASE PowerLoss
  BY <1>1, <1>3, PowerLossOutcome DEF OutcomeInvariant
<1>4. CASE UNCHANGED vars
  BY <1>1, <1>4 DEF vars, OutcomeInvariant, Exclusive, Candid, Pending, Failure, Titled,
                    Returned, Present
<1>. QED
  BY <1>1, <1>2, <1>3, <1>4 DEF Next, OutcomeInvariant

LEMMA OutcomeHolds == Spec => []OutcomeInvariant
BY OutcomeInit, OutcomeStep, PTL DEF Spec

\* Scores of one execution agree.
LEMMA ScoresAgree ==
    ASSUME StandaloneInvariant, NEW a \in Present, NEW b \in Present,
           a.outcome = "scored", b.outcome = "scored",
           Execution[a.job] = Execution[b.job]
    PROVE  a = b
<1>1. Recording[a.job] = Recording[b.job]
  BY DEF StandaloneInvariant, Founded
<1>2. ResultName(a) = ResultName(b)
  BY <1>1 DEF ResultName
<1>. QED
  BY <1>2 DEF Present

\* Failures of one execution share their name, and so agree as well.
LEMMA FailuresAgree ==
    ASSUME NEW a \in Present, NEW b \in Present,
           a.outcome # "scored", b.outcome # "scored",
           Execution[a.job] = Execution[b.job]
    PROVE  a = b
BY DEF Present, ResultName

\* Run, finish: a call that returns leaves nothing of its execution unannounced,
\* for any jobs and crashes, as long as no run failure is published.
THEOREM RepairedCorrect == Spec => []Repaired
<1>1. OutcomeInvariant => Repaired
  <2>. SUFFICES ASSUME OutcomeInvariant, NEW e \in Executions,
                       reported[e] # {}, ~Failed(e),
                       NEW r \in Present, Execution[r.job] = e
                PROVE  AnnouncedAt(r) \in settled
    BY DEF Repaired
  <2>1. PICK s \in reported[e] : TRUE
    OBVIOUS
  <2>2. s \in Present /\ Execution[s.job] = e /\ AnnouncedAt(s) \in settled
    BY <2>1 DEF OutcomeInvariant, Returned
  <2>3. r = s
    BY <2>2, ScoresAgree DEF OutcomeInvariant, Failed
  <2>. QED
    BY <2>2, <2>3
<1>. QED
  BY <1>1, OutcomeHolds, PTL

\* Run: what calls for one execution return differs only by a timeout, or by jobs
\* of which one cannot be simulated.
THEOREM OutcomeStableCorrect == Spec => []OutcomeStable
<1>1. OutcomeInvariant => OutcomeStable
  <2>. SUFFICES ASSUME OutcomeInvariant, NEW e \in Executions,
                       NEW a \in reported[e], NEW b \in reported[e],
                       "timeout" \notin {a.outcome, b.outcome},
                       a.job = b.job \/ "failed" \notin {a.outcome, b.outcome}
                PROVE  a = b
    BY DEF OutcomeStable
  <2>1. /\ a \in Present /\ b \in Present
        /\ Execution[a.job] = e /\ Execution[b.job] = e
    BY DEF OutcomeInvariant, Returned
  <2>2. a.outcome \in Outcomes /\ b.outcome \in Outcomes
    BY <2>1 DEF Present, Results
  <2>3. Honest(a) /\ Honest(b)
    BY <2>1 DEF OutcomeInvariant, Candid
  <2>4. a.outcome = b.outcome
    BY <2>2, <2>3 DEF Honest, Outcomes
  <2>. QED
    BY <2>1, <2>4, ScoresAgree, FailuresAgree DEF OutcomeInvariant
<1>. QED
  BY <1>1, OutcomeHolds, PTL

\* Run: nothing is scored beside a run failure that is there already. The lock
\* makes looking for it and publishing a score one step.
THEOREM FailureIsFinalCorrect == Spec => FailureIsFinal
<1>1. ASSUME OutcomeInvariant, [Next]_vars, NEW e \in Executions,
             files[FailureName(e)] # Free, NEW r \in Present',
             Execution[r.job] = e, r.outcome = "scored"
      PROVE  r \in Present
  <2>1. ASSUME NEW p \in Processes, Process(p)
        PROVE  r \in Present
    <3>. SUFFICES ASSUME at[p] = "publish", r = draft[p]
                  PROVE  FALSE
      BY <1>1, <2>1, PresentGrows DEF OutcomeInvariant
    <3>1. r.job = Job[p]
      BY <1>1 DEF OutcomeInvariant, StandaloneInvariant, Achieved, Locked
    <3>2. Failure(p) = Free
      BY <1>1 DEF OutcomeInvariant, Pending
    <3>. QED
      BY <1>1, <3>1, <3>2 DEF Failure
  <2>2. CASE PowerLoss
    BY <1>1, <2>2, Lost, NameTypes DEF OutcomeInvariant, Present
  <2>3. CASE UNCHANGED vars
    BY <1>1, <2>3 DEF vars, Present
  <2>. QED
    BY <1>1, <2>1, <2>2, <2>3 DEF Next
<1>2. OutcomeInvariant /\ [Next]_vars =>
        \A e \in Executions : files[FailureName(e)] # Free
           /\ files'[FailureName(e)] # Free =>
           \A r \in Present' : Execution[r.job] = e /\ r.outcome = "scored" =>
               r \in Present
  BY <1>1
<1>. QED
  BY <1>2, OutcomeHolds, PTL DEF Spec, FailureIsFinal

\* What stands where a process would publish its result or event belongs to a
\* rival or to a timeout.
LEMMA Conflict ==
    ASSUME OutcomeInvariant, NEW p \in Processes,
           NEW r \in Results, r.job = Job[p], Honest(r),
           NEW x \in Present, Execution[x.job] = Execution[Job[p]],
           x.job = Job[p] => x.outcome # r.outcome,
           r.outcome = "timeout" => r \in Present \/ ResultName(x) = ResultName(r)
    PROVE  Rival(p) \/ TimedOut(Execution[Job[p]])
<1>1. CASE x.job # Job[p]
  <2>1. ResultName(x) \in Names /\ files[ResultName(x)] = x /\ x \in Results
    BY NameTypes DEF Present
  <2>. QED
    BY <1>1, <2>1 DEF Rival
<1>2. CASE x.job = Job[p] /\ x.outcome = "timeout"
  BY <1>2 DEF TimedOut
<1>3. CASE x.job = Job[p] /\ x.outcome # "timeout"
  <2>1. Honest(x) /\ x.outcome \in Outcomes /\ r.outcome \in Outcomes
    BY DEF OutcomeInvariant, Candid, Present, Results
  <2>2. x.outcome = "scored" /\ r.outcome = "timeout"
    BY <1>3, <2>1 DEF Honest, Outcomes
  <2>3. r \in Present
    BY <1>3, <2>2, ScoreNames DEF Present
  <2>. QED
    BY <2>2, <2>3 DEF TimedOut
<1>. QED
  BY <1>1, <1>2, <1>3

\* Run refuses a job for what it finds only because of its mode, a rival or a
\* timeout: two calls for one job never refuse each other's files.
THEOREM RefusedForCauseCorrect == Spec => RefusedForCause
<1>1. ASSUME OutcomeInvariant, [Next]_vars, NEW p \in Processes,
             at[p] \in Locked, at'[p] = "refused"
      PROVE  Rival(p) \/ TimedOut(Execution[Job[p]])
  <2>. USE <1>1 DEF OutcomeInvariant, StandaloneInvariant, TypeOK
  <2>. DEFINE d == draft[p]
  <2>0. Process(p)
    <3>1. CASE PowerLoss
      BY <3>1, Lost
    <3>2. CASE UNCHANGED vars
      BY <3>2 DEF vars, Locked
    <3>3. ASSUME NEW q \in Processes, Process(q), q # p
          PROVE  FALSE
      BY <3>3, OthersStay DEF Locked
    <3>. QED
      BY <3>1, <3>2, <3>3 DEF Next
  <2>1. CASE Look(p)
    <3>1. Failure(p) # Free /\ Failure(p).job # Job[p]
      BY <2>1 DEF Look, Goes
    <3>2. /\ Failure(p) \in Results /\ Failure(p) = files[ResultName(Failure(p))]
          /\ Execution[Failure(p).job] = Execution[Job[p]]
          /\ ResultName(Failure(p)) \in Names
      BY <3>1, FailureIsPresent, NameTypes DEF Present
    <3>. QED
      BY <3>1, <3>2 DEF Rival
  <2>2. CASE PublishBag(p)
    <3>1. files[BagName(Execution[Job[p]])] \notin {Free, Recording[Job[p]]}
      BY <2>2 DEF PublishBag, Publish, Settle, Goes
    <3>. QED
      BY <3>1, NameTypes DEF Rival
  <2>3. CASE Reconcile(p)
    <3>. DEFINE old == files[ResultName(d)]
    <3>1. /\ at[p] = "reconcile" /\ old # Free /\ old # Adopted(p, old)
      BY <2>3 DEF Reconcile, Refuse, Goes
    <3>2. d \in Results /\ d.job = Job[p] /\ Honest(d)
      BY <3>1 DEF Achieved, Candid, Locked
    <3>3. old \in Results /\ ResultName(old) = ResultName(d)
      BY <3>1, <3>2 DEF Founded
    <3>4. old \in Present /\ Execution[old.job] = Execution[Job[p]]
      BY <3>2, <3>3, ScoreNames DEF Present
    <3>5. old.job = Job[p] => old.outcome # d.outcome
      BY <3>1, <3>2, <3>3 DEF Adopted, Results
    <3>. QED
      BY <3>2, <3>3, <3>4, <3>5, Conflict
  <2>4. CASE PublishResult(p)
    <3>1. at[p] = "publish" /\ files[ResultName(d)] \notin {Free, d}
      BY <2>4 DEF PublishResult, Publish, Settle, Refuse, Then, Goes
    <3>. QED
      BY <3>1 DEF Pending
  <2>5. CASE PublishEvent(p)
    <3>. DEFINE x == files[AnnouncedAt(d)]
    <3>1. at[p] = "event" /\ x \notin {Free, d}
      BY <2>5 DEF PublishEvent, Publish, Settle, Refuse, Goes
    <3>2. d \in Results /\ d.job = Job[p] /\ files[ResultName(d)] = d /\ Honest(d)
      BY <3>1 DEF Achieved, Candid, Locked
    <3>3. x \in Present /\ AnnouncedAt(x) = AnnouncedAt(d)
      BY <3>1, <3>2 DEF Founded, Titled
    <3>4. Execution[x.job] = Execution[Job[p]] /\ x.started = d.started
      <4>1. JobId[x.job] = JobId[d.job] /\ x.started = d.started
        BY <3>3 DEF AnnouncedAt, EventName
      <4>2. x.job \in Jobs /\ d.job \in Jobs
        BY <3>2, <3>3 DEF Present, Results
      <4>. QED
        BY <3>2, <4>1, <4>2, IdentityAssumption
    <3>5. x.job = Job[p] => x.outcome # d.outcome
      BY <3>1, <3>2, <3>3, <3>4 DEF Results, Present
    <3>. QED
      BY <3>2, <3>3, <3>4, <3>5, Conflict DEF Present
  <2>. QED
    BY <2>0, <2>1, <2>2, <2>3, <2>4, <2>5
       DEF Process, Begin, TakeGuard, Choose, SyncMark, TakeLock, Simulate, Return, Stop,
           Goes, Locked
<1>2. OutcomeInvariant /\ [Next]_vars =>
        \A p \in Processes : at[p] \in Locked /\ at'[p] = "refused" =>
           Rival(p) \/ TimedOut(Execution[Job[p]])
  BY <1>1
<1>. QED
  BY <1>2, OutcomeHolds, PTL DEF Spec, RefusedForCause
=============================================================================
