------------------------- MODULE PublicationProofs -------------------------
(***************************************************************************)
(* What TLAPS proves of Publication, for every set of calls, names,        *)
(* contents and directories.                                               *)
(***************************************************************************)
EXTENDS PublicationProperties, TLAPS

\* A path is a name or a temporary name, and the latter are the calls' own.
LEMMA PathTypes ==
    /\ \A n \in Names : n \in Paths /\ FolderOf(n) = Folder[n]
    /\ \A c \in Calls : /\ c \in Paths /\ Name[c] \in Names /\ c \notin Names
                        /\ FolderOf(c) = Folder[Name[c]]
BY CallsAssumption DEF Paths, FolderOf

LEMMA InitInvariant == Init => PublicationInvariant
<1>. SUFFICES ASSUME Init
              PROVE  PublicationInvariant
  OBVIOUS
<1>1. \A n \in Names : Before(n) # Free =>
        Before(n) \in Given /\ Name[Before(n)] = n
  BY DEF Before
<1>2. \A c \in Given : Before(Name[c]) = c
  BY CallsAssumption DEF Before
<1>3. \A x \in Paths : Before(x) \in Calls \cup {Free}
  BY CallsAssumption DEF Before
<1>4. \A c \in Calls : Before(c) = Free
  BY CallsAssumption DEF Before
<1>. USE PathTypes, CallsAssumption DEF Init
<1>5. TypeOK
  BY <1>3 DEF TypeOK, Running, Ended
<1>6. Bound
  <2>1. \A n \in Names : entry[n] = Before(n) /\ saved[n] = Before(n)
    OBVIOUS
  <2>2. \A n \in Names : Before(n) # Free =>
          /\ Before(n) \in synced /\ data[Before(n)] = "full"
          /\ Folder[n] \in kept /\ Folder[n] \in folders
    <3>1. \A c \in Given : Folder[Name[c]] \in folders /\ c \in Calls
      OBVIOUS
    <3>. QED
      BY <1>1, <3>1
  <2>. QED
    BY <1>1, <2>1, <2>2 DEF Bound
<1>7. Progress
  BY DEF Progress
<1>8. Founded
  BY NeedsAssumption DEF Founded
<1>9. Survives
  <2>1. \A c \in Calls : pc[c] = "done" => c \in Given
    OBVIOUS
  <2>. QED
    BY <1>2, <2>1 DEF Survives
<1>10. NothingStaged
  BY <1>4 DEF NothingStaged
<1>. QED
  BY <1>5, <1>6, <1>7, <1>8, <1>9, <1>10 DEF PublicationInvariant

\* A caller that keeps its promise finds what its file refers to.
LEMMA PromisedValid ==
    ASSUME PublicationInvariant, NEW c \in Calls
    PROVE  /\ Promised(c) => \A r \in Needs[c] :
                                /\ saved[r.name] # Free
                                /\ Content[saved[r.name]] = r.content
           /\ pc[c] # "start" => Valid(c)
<1>1. Promised(c) => \A r \in Needs[c] : /\ saved[r.name] # Free
                                         /\ Content[saved[r.name]] = r.content
  BY DEF Promised, PublicationInvariant, Survives
<1>2. ASSUME pc[c] # "start", NEW r \in Needs[c]
      PROVE  Readable(r)
  <2>1. r.name \in Names
    BY NeedsAssumption
  <2>2. saved[r.name] # Free /\ Content[saved[r.name]] = r.content
    BY <1>2 DEF PublicationInvariant, Founded
  <2>. QED
    BY <2>1, <2>2 DEF PublicationInvariant, Bound, Readable
<1>. QED
  BY <1>1, <1>2 DEF Valid

\* Steps that only move the call on.
LEMMA ControlStep ==
    ASSUME PublicationInvariant, NEW c \in Calls,
           Validate(c) \/ Verify(c) \/ Compare(c) \/ Fail(c) \/ Kill(c)
    PROVE  PublicationInvariant'
<1>. USE DEF PublicationInvariant
<1>0. UNCHANGED <<data, synced, entry, saved, folders, kept>>
  BY DEF Validate, Verify, Compare, Fail, Kill
<1>1. PICK p \in Running \cup Ended : pc' = [pc EXCEPT ![c] = p] /\ p # "done"
  BY DEF Validate, Verify, Compare, Fail, AfterFailure, Kill, Steps, Running, Ended, TypeOK
<1>2. TypeOK'
  BY <1>0, <1>1 DEF TypeOK
<1>3. Bound'
  BY <1>0 DEF Bound
<1>4. Survives' /\ NothingStaged'
  BY <1>0, <1>1 DEF Survives, NothingStaged, TypeOK
<1>5. Founded'
  <2>1. pc[c] = "start" => Promised(c)
    BY DEF Validate, Verify, Compare, Fail, Kill, Steps, Running
  <2>2. \A r \in Needs[c] : /\ saved[r.name] # Free
                            /\ Content[saved[r.name]] = r.content
    BY <2>1, PromisedValid DEF Founded
  <2>. QED
    BY <1>0, <1>1, <2>2 DEF Founded, TypeOK
<1>6. Progress'
  <2>1. CASE Validate(c)
    BY <1>0, <2>1 DEF Validate, Steps, Progress, TypeOK
  <2>2. CASE Verify(c)
    BY <1>0, <2>2 DEF Verify, Verified, Steps, Progress, TypeOK
  <2>3. CASE Compare(c)
    BY <1>0, <2>3 DEF Compare, SameBytes, Steps, Progress, TypeOK
  <2>4. CASE Fail(c) \/ Kill(c)
    BY <1>0, <2>4 DEF Fail, AfterFailure, Kill, Progress, TypeOK, Running
  <2>. QED
    BY <2>1, <2>2, <2>3, <2>4
<1>. QED
  BY <1>2, <1>3, <1>4, <1>5, <1>6

\* Steps on directories' own existence.
LEMMA FolderStep ==
    ASSUME PublicationInvariant, NEW c \in Calls, MakeFolder(c) \/ SyncRoot(c)
    PROVE  PublicationInvariant'
<1>. USE PathTypes DEF PublicationInvariant, MakeFolder, SyncRoot, SyncedRoot, Steps
<1>1. TypeOK'
  BY DEF TypeOK, Running
<1>2. Bound'
  BY DEF Bound, TypeOK
<1>3. Survives' /\ NothingStaged' /\ Founded'
  BY DEF Survives, NothingStaged, Founded, TypeOK
<1>4. Progress'
  BY DEF Progress, TypeOK
<1>. QED
  BY <1>1, <1>2, <1>3, <1>4

\* Steps on the staged file and its temporary name.
LEMMA StagingStep ==
    ASSUME PublicationInvariant, NEW c \in Calls,
           Create(c) \/ Write(c) \/ SyncFile(c) \/ Unstage(c) \/ Cleanup(c)
    PROVE  PublicationInvariant'
<1>. USE DEF PublicationInvariant
<1>0. UNCHANGED <<saved, folders, kept>>
  BY DEF Create, Write, SyncFile, Unstage, Cleanup
<1>1. PICK p \in Running \cup Ended :
        pc' = [pc EXCEPT ![c] = p] /\ p # "done" /\ pc[c] \notin {"start", "done"}
  BY DEF Create, Write, SyncFile, Unstage, Cleanup, Steps, Running, Ended, TypeOK
<1>2. \A x \in Paths \ {c} : entry'[x] = entry[x]
  BY DEF Create, Write, SyncFile, Unstage, Cleanup, Removed, TypeOK
<1>3. /\ entry' \in [Paths -> Calls \cup {Free}]
      /\ data' \in [Calls -> {"empty", "partial", "full", "torn"}]
      /\ synced' \in {synced, synced \cup {c}}
  BY PathTypes
     DEF Create, Write, SyncFile, Sync, Unstage, Cleanup, Removed, TypeOK
<1>4. \A b \in Calls : b \in synced => data'[b] = data[b]
  BY DEF Create, Write, SyncFile, Unstage, Cleanup, Progress, TypeOK, Steps
<1>5. TypeOK'
  BY <1>0, <1>1, <1>3 DEF TypeOK
<1>6. Bound'
  BY <1>0, <1>2, <1>3, <1>4, PathTypes, CallsAssumption DEF Bound, TypeOK
<1>7. Survives' /\ NothingStaged' /\ Founded'
  BY <1>0, <1>1, <1>2, PathTypes DEF Survives, NothingStaged, Founded, TypeOK
<1>8. Progress'
  <2>. USE PathTypes DEF Progress, Steps, TypeOK
  <2>1. CASE Create(c)
    BY <1>0, <1>2, <2>1 DEF Create
  <2>2. CASE Write(c)
    BY <1>0, <1>2, <2>2 DEF Write
  <2>3. CASE SyncFile(c)
    BY <1>0, <1>2, <2>3 DEF SyncFile, Sync
  <2>4. CASE Unstage(c)
    BY <1>0, <1>2, <2>4 DEF Unstage, Removed
  <2>5. CASE Cleanup(c)
    BY <1>0, <1>2, <2>5 DEF Cleanup
  <2>. QED
    BY <2>1, <2>2, <2>3, <2>4, <2>5
<1>. QED
  BY <1>5, <1>6, <1>7, <1>8

\* Link binds a free name to a complete and synchronised object.
LEMMA LinkStep ==
    ASSUME PublicationInvariant, NEW c \in Calls, Link(c)
    PROVE  PublicationInvariant'
<1>. USE PathTypes DEF PublicationInvariant
<1>0. /\ UNCHANGED <<data, synced, saved, folders, kept>>
      /\ pc[c] = "link" /\ Folder[Name[c]] \in kept /\ kept \subseteq folders
      /\ c \in synced /\ data[c] = "full" /\ c # Free
  BY CallsAssumption DEF Link, Steps, Progress, TypeOK
<1>1. pc' = [pc EXCEPT ![c] = IF entry[Name[c]] = Free THEN "unstage"
                                                       ELSE "compare"]
  BY DEF Link, Steps
<1>2. \/ entry[Name[c]] # Free /\ entry' = entry
      \/ entry[Name[c]] = Free /\ entry' = [entry EXCEPT ![Name[c]] = c]
  BY DEF Link, Linked
<1>3. \A n \in Names : entry[n] # Free => entry'[n] = entry[n]
  BY <1>2 DEF TypeOK
<1>4. TypeOK'
  BY <1>0, <1>1, <1>2 DEF TypeOK, Running
<1>5. Bound'
  BY <1>0, <1>2 DEF Bound, TypeOK
<1>6. Survives' /\ NothingStaged' /\ Founded'
  BY <1>0, <1>1, <1>2, <1>3, CallsAssumption
     DEF Survives, NothingStaged, Founded, TypeOK
<1>7. Progress'
  BY <1>0, <1>1, <1>2, <1>3 DEF Progress, TypeOK
<1>. QED
  BY <1>4, <1>5, <1>6, <1>7

\* The last step puts the binding on disk and reports success.
LEMMA SyncFolderStep ==
    ASSUME PublicationInvariant, NEW c \in Calls, SyncFolder(c)
    PROVE  PublicationInvariant'
<1>. USE PathTypes DEF PublicationInvariant
<1>0. /\ UNCHANGED <<data, synced, entry, folders, kept>>
      /\ pc[c] = "settle" /\ pc' = [pc EXCEPT ![c] = "done"]
      /\ Folder[Name[c]] \in kept
      /\ entry[Name[c]] # Free /\ Content[entry[Name[c]]] = Content[c]
      /\ entry[c] = Free
  BY DEF SyncFolder, Steps, Progress
<1>1. \A x \in Paths : saved'[x] = IF FolderOf(x) = Folder[Name[c]]
                                   THEN entry[x] ELSE saved[x]
  BY DEF SyncFolder, SyncedFolder
<1>2. \A n \in Names : saved[n] # Free => saved'[n] = saved[n]
  BY <1>1 DEF Bound
<1>3. TypeOK'
  BY <1>0 DEF TypeOK, Running, Ended, SyncFolder, SyncedFolder
<1>4. Bound'
  BY <1>0, <1>1 DEF Bound
<1>5. Survives'
  BY <1>0, <1>1, <1>2 DEF Survives, TypeOK
<1>6. NothingStaged'
  BY <1>0, <1>1 DEF NothingStaged, TypeOK
<1>7. Founded'
  BY <1>0, <1>2, NeedsAssumption DEF Founded, TypeOK
<1>8. Progress'
  BY <1>0 DEF Progress, TypeOK
<1>. QED
  BY <1>3, <1>4, <1>5, <1>6, <1>7, <1>8

\* What a loss of power may take back.
LEMMA PowerLossStep ==
    ASSUME PublicationInvariant, PowerLoss
    PROVE  /\ PublicationInvariant'
           /\ \A n \in Names : entry'[n] \in {entry[n], Free}
<1>. USE PathTypes DEF PublicationInvariant
<1>1. PICK lost \in SUBSET (folders \ kept), stale \in SUBSET Changed,
           torn \in SUBSET Unsynced :
        /\ pc' = [c \in Calls |-> IF pc[c] \in Running THEN "dead" ELSE pc[c]]
        /\ data' = [c \in Calls |-> IF c \in torn THEN "torn" ELSE data[c]]
        /\ entry' = [x \in Paths |->
                       IF FolderOf(x) \in lost THEN Free
                       ELSE IF x \in stale THEN saved[x] ELSE entry[x]]
        /\ saved' = entry'
        /\ folders' = folders \ lost
        /\ kept' = folders'
        /\ UNCHANGED synced
  BY DEF PowerLoss
<1>2. \A c \in Calls : c \in synced => data'[c] = data[c]
  BY <1>1 DEF Unsynced
<1>3. \A n \in Names :
        /\ entry'[n] \in {entry[n], Free}
        /\ entry'[n] # Free => Folder[n] \in folders'
        /\ saved[n] # Free => entry'[n] = saved[n]
  <2>. TAKE n \in Names
  <2>1. /\ entry'[n] = IF Folder[n] \in lost THEN Free
                       ELSE IF n \in stale THEN saved[n] ELSE entry[n]
        /\ folders' = folders \ lost
    BY <1>1
  <2>2. /\ saved[n] # Free => entry[n] = saved[n] /\ Folder[n] \in kept
        /\ entry[n] # Free => Folder[n] \in folders
    BY DEF Bound
  <2>. QED
    BY <2>1, <2>2
<1>4. TypeOK'
  BY <1>1 DEF TypeOK, Running, Ended
<1>5. Bound'
  BY <1>1, <1>2, <1>3, CallsAssumption DEF Bound, TypeOK
<1>6. Survives'
  BY <1>1, <1>3 DEF Survives, TypeOK, Running
<1>7. NothingStaged'
  BY <1>1 DEF NothingStaged, TypeOK, Running
<1>8. Founded'
  <2>1. \A c \in Calls : pc'[c] # "start" => pc[c] # "start"
    BY <1>1 DEF Running
  <2>. QED
    BY <1>1, <1>3, <2>1, NeedsAssumption DEF Founded
<1>9. Progress'
  <2>1. \A c \in Calls : pc'[c] \in {"start"} \cup Ended
    BY <1>1 DEF TypeOK, Ended
  <2>2. \A c \in Calls : pc'[c] = "start" => pc[c] = "start"
    BY <1>1
  <2>. QED
    BY <1>1, <2>1, <2>2 DEF Progress, Ended
<1>. QED
  BY <1>3, <1>4, <1>5, <1>6, <1>7, <1>8, <1>9

LEMMA InvariantStep == PublicationInvariant /\ [Next]_vars => PublicationInvariant'
<1>. SUFFICES ASSUME PublicationInvariant, [Next]_vars
              PROVE  PublicationInvariant'
  OBVIOUS
<1>1. CASE UNCHANGED vars
  BY <1>1 DEF vars, PublicationInvariant, TypeOK, Bound, Progress, Founded,
              Survives, NothingStaged
<1>2. ASSUME NEW c \in Calls, Call(c)
      PROVE  PublicationInvariant'
  BY <1>2, ControlStep, FolderStep, StagingStep, LinkStep, SyncFolderStep
     DEF Call
<1>. QED
  BY <1>1, <1>2, PowerLossStep DEF Next

\* The inductive invariant of publication.
THEOREM Invariant == Spec => []PublicationInvariant
<1>. QED
  BY InitInvariant, InvariantStep, PTL DEF Spec

-----------------------------------------------------------------------------
(* What it implies.                                                        *)

\* No name is ever bound to an incomplete file, not even after a power loss.
THEOREM NeverTornCorrect == Spec => []NeverTorn
<1>1. PublicationInvariant => NeverTorn
  BY DEF PublicationInvariant, Bound, NeverTorn
<1>. QED
  BY <1>1, Invariant, PTL

\* A reported success survives everything.
THEOREM SurvivesCorrect == Spec => []Survives
<1>. QED
  BY Invariant, PTL DEF PublicationInvariant

\* Every file in the exchange finds its references there.
THEOREM ClosedCorrect == Spec => []Closed
<1>1. PublicationInvariant => Closed
  <2>. SUFFICES ASSUME PublicationInvariant, NEW n \in Names, entry[n] # Free
                PROVE  Valid(entry[n])
    BY DEF Closed
  <2>1. entry[n] \in Calls /\ entry[n] \in synced
    BY PathTypes DEF PublicationInvariant, TypeOK, Bound
  <2>2. pc[entry[n]] # "start"
    BY <2>1 DEF PublicationInvariant, Progress
  <2>. QED
    BY <2>1, <2>2, PromisedValid
<1>. QED
  BY <1>1, Invariant, PTL

\* A conflict is reported only where a complete file is published, and only
\* for other bytes when the comparison reached its end.
THEOREM SameBytesAgreeCorrect == Spec => []SameBytesAgree
<1>. DEFINE Refusals == {"reject", "unread"}
<1>1. Init => SameBytesAgree
  BY DEF Init, SameBytesAgree
<1>2. ASSUME PublicationInvariant, PublicationInvariant', SameBytesAgree, [Next]_vars
      PROVE  SameBytesAgree'
  <2>. SUFFICES ASSUME NEW c \in Calls, pc'[c] \in Refusals
                PROVE  /\ entry'[Name[c]] # Free /\ data'[entry'[Name[c]]] = "full"
                       /\ pc'[c] = "reject" => Content[entry'[Name[c]]] # Content[c]
    BY DEF SameBytesAgree
  <2>. DEFINE b == entry[Name[c]]
  <2>1. ~PowerLoss
    BY <1>2 DEF PowerLoss, Running, PublicationInvariant, TypeOK
  <2>2. b # Free => entry'[Name[c]] = b
    <3>. USE <1>2, PathTypes DEF PublicationInvariant, TypeOK
    <3>1. CASE UNCHANGED vars
      BY <3>1 DEF vars
    <3>2. ASSUME NEW a \in Calls, Call(a)
          PROVE  b # Free => entry'[Name[c]] = b
      BY <3>2
         DEF Call, Validate, MakeFolder, SyncRoot, Create, Write, Verify,
             SyncFile, Link, Linked, Compare, Unstage, Removed, SyncFolder,
             Fail, Cleanup, Kill
    <3>. QED
      BY <2>1, <3>1, <3>2 DEF Next
  <2>3. entry'[Name[c]] # Free => data'[entry'[Name[c]]] = "full"
    BY <1>2, PathTypes DEF PublicationInvariant, Bound
  <2>4. CASE pc[c] \in Refusals /\ pc'[c] = pc[c]
    BY <1>2, <2>2, <2>3, <2>4 DEF SameBytesAgree
  <2>5. ASSUME pc[c] = "compare" PROVE b # Free /\ data[b] = "full" /\ Valid(c)
    <3>1. b # Free /\ Name[c] \in Names
      BY <1>2, <2>5, PathTypes DEF PublicationInvariant, Progress
    <3>2. data[b] = "full"
      BY <1>2, <3>1, PathTypes DEF PublicationInvariant, TypeOK, Bound
    <3>. QED
      BY <1>2, <2>5, <3>1, <3>2, PromisedValid
  <2>6. CASE Compare(c)
    <3>1. pc[c] = "compare" /\ ~SameBytes(c)
      BY <1>2, <2>6 DEF Compare, Steps, PublicationInvariant, TypeOK
    <3>. QED
      BY <2>2, <2>3, <2>5, <3>1 DEF SameBytes
  <2>7. CASE Fail(c)
    <3>1. pc[c] = "compare" /\ pc'[c] = "unread"
      BY <1>2, <2>7 DEF Fail, AfterFailure, PublicationInvariant, TypeOK
    <3>. QED
      BY <2>2, <2>3, <2>5, <3>1
  <2>8. (pc[c] \in Refusals /\ pc'[c] = pc[c]) \/ Compare(c) \/ Fail(c)
    <3>. USE <1>2 DEF PublicationInvariant, TypeOK
    <3>1. CASE UNCHANGED vars
      BY <3>1 DEF vars
    <3>2. ASSUME NEW a \in Calls, Call(a)
          PROVE  (pc[c] \in Refusals /\ pc'[c] = pc[c]) \/ Compare(c) \/ Fail(c)
      BY <3>2
         DEF Call, Steps, Validate, MakeFolder, SyncRoot, Create, Write, Verify,
             SyncFile, Link, Compare, Unstage, SyncFolder, Fail, Cleanup, Kill
    <3>. QED
      BY <2>1, <3>1, <3>2 DEF Next
  <2>. QED
    BY <2>4, <2>6, <2>7, <2>8
<1>. QED
  BY <1>1, <1>2, Invariant, PTL DEF Spec

-----------------------------------------------------------------------------
(* Refinement.                                                             *)

\* Values of the register by name.
LEMMA ValueOf ==
    ASSUME PublicationInvariant, NEW n \in Names
    PROVE  /\ Value[n] = IF entry[n] = Free THEN Free ELSE Content[entry[n]]
           /\ entry[n] # Free => entry[n] \in Calls
BY PathTypes DEF PublicationInvariant, Bound, TypeOK, Value

LEMMA RegisterInit == Init => Register!Init
<1>. SUFFICES ASSUME Init
              PROVE  Register!Init
  OBVIOUS
<1>1. PublicationInvariant
  BY InitInvariant
<1>2. Value \in [Names -> Values \cup {Free}]
  <2>1. \A n \in Names : Value[n] \in Values \cup {Free}
    BY <1>1, ValueOf DEF Values
  <2>. QED
    BY <2>1 DEF Value
<1>3. \A n \in Names : Value[n] # Free <=> \E c \in Calls : pc[c] = "done" /\ Name[c] = n
  <2>. TAKE n \in Names
  <2>1. entry[n] = Before(n)
    BY PathTypes DEF Init
  <2>2. \A c \in Calls : pc[c] = "done" <=> c \in Given
    BY DEF Init
  <2>. QED
    BY <1>1, <2>1, <2>2, ValueOf, CallsAssumption DEF Before
<1>. QED
  BY <1>2, <1>3 DEF Register!Init, Acknowledged

\* The register sees no change unless a name or a success does.
LEMMA SameValue ==
    ASSUME PublicationInvariant, PublicationInvariant',
           \A n \in Names : entry'[n] = entry[n]
    PROVE  Value' = Value
<1>1. \A n \in Names : Value'[n] = Value[n]
  <2>1. \A n \in Names : Value'[n] = IF entry'[n] = Free THEN Free
                                     ELSE Content[entry'[n]]
    BY PathTypes DEF PublicationInvariant, Bound, TypeOK, Value
  <2>. QED
    BY <2>1, ValueOf
<1>. QED
  BY <1>1 DEF Value

LEMMA SameAcknowledged ==
    ASSUME \A c \in Calls : pc'[c] = "done" <=> pc[c] = "done"
    PROVE  Acknowledged' = Acknowledged
BY DEF Acknowledged

LEMMA RegisterStep ==
    ASSUME PublicationInvariant, PublicationInvariant', [Next]_vars
    PROVE  [Register!Next]_<<Value, Acknowledged>>
<1>. USE PathTypes DEF PublicationInvariant, TypeOK
<1>1. CASE UNCHANGED vars
  <2>1. Value' = Value
    BY <1>1, SameValue DEF vars
  <2>2. Acknowledged' = Acknowledged
    BY <1>1 DEF vars, Acknowledged
  <2>. QED
    BY <2>1, <2>2
<1>2. ASSUME NEW c \in Calls,
             \/ Validate(c) \/ Verify(c) \/ Compare(c) \/ Fail(c) \/ Kill(c)
             \/ MakeFolder(c) \/ SyncRoot(c)
             \/ Create(c) \/ Write(c) \/ SyncFile(c) \/ Unstage(c) \/ Cleanup(c)
      PROVE  UNCHANGED <<Value, Acknowledged>>
  <2>1. \A n \in Names : entry'[n] = entry[n]
    BY <1>2 DEF Validate, Verify, Compare, Fail, Kill, MakeFolder, SyncRoot,
                Create, Write, SyncFile, Unstage, Cleanup, Removed
  <2>2. \A b \in Calls : pc'[b] = "done" <=> pc[b] = "done"
    BY <1>2 DEF Validate, Verify, Compare, Fail, AfterFailure, Kill, MakeFolder, SyncRoot,
                Create, Write, SyncFile, Unstage, Cleanup, Steps, Running
  <2>. QED
    BY <2>1, <2>2, SameValue, SameAcknowledged
<1>3. ASSUME NEW c \in Calls, Link(c)
      PROVE  [Register!Next]_<<Value, Acknowledged>>
  <2>. DEFINE n == Name[c]
  <2>1. Acknowledged' = Acknowledged
    <3>1. \A b \in Calls : pc'[b] = "done" <=> pc[b] = "done"
      BY <1>3 DEF Link, Steps
    <3>. QED
      BY <3>1, SameAcknowledged
  <2>2. CASE entry[n] # Free
    <3>1. \A m \in Names : entry'[m] = entry[m]
      BY <1>3, <2>2 DEF Link, Linked
    <3>. QED
      BY <2>1, <3>1, SameValue
  <2>3. CASE entry[n] = Free
    <3>1. n \in Names /\ Content[c] \in Values /\ Content[c] # Free /\ c # Free
      BY CallsAssumption DEF Values
    <3>2. \A m \in Names : entry'[m] = IF m = n THEN c ELSE entry[m]
      BY <1>3, <2>3 DEF Link, Linked
    <3>3. \A m \in Names : Value'[m] = IF entry'[m] = Free THEN Free
                                       ELSE Content[entry'[m]]
      BY DEF Bound, Value
    <3>4. Value' = [Value EXCEPT ![n] = Content[c]]
      <4>1. \A m \in Names : Value'[m] = IF m = n THEN Content[c] ELSE Value[m]
        BY <3>1, <3>2, <3>3, ValueOf
      <4>. QED
        BY <4>1 DEF Value
    <3>5. Value[n] = Free
      BY <2>3, <3>1, ValueOf
    <3>. QED
      BY <2>1, <3>1, <3>4, <3>5 DEF Register!Next, Register!Publish
  <2>. QED
    BY <2>2, <2>3
<1>4. ASSUME NEW c \in Calls, SyncFolder(c)
      PROVE  [Register!Next]_<<Value, Acknowledged>>
  <2>1. Value' = Value
    BY <1>4, SameValue DEF SyncFolder
  <2>2. Acknowledged' = Acknowledged \cup {Name[c]}
    BY <1>4 DEF SyncFolder, Steps, Acknowledged
  <2>3. Name[c] \in Names /\ Value[Name[c]] # Free
    BY <1>4, ValueOf, CallsAssumption DEF SyncFolder, Steps, Progress
  <2>. QED
    BY <2>1, <2>2, <2>3 DEF Register!Next, Register!Acknowledge
<1>5. CASE PowerLoss
  <2>. DEFINE lost == {n \in Names : entry[n] # Free /\ entry'[n] = Free}
  <2>1. \A n \in Names : entry'[n] \in {entry[n], Free}
    BY <1>5, PowerLossStep
  <2>2. Acknowledged' = Acknowledged
    <3>1. \A c \in Calls : pc'[c] = "done" <=> pc[c] = "done"
      BY <1>5 DEF PowerLoss, Running
    <3>. QED
      BY <3>1, SameAcknowledged
  <2>3. lost \cap Acknowledged = {}
    <3>1. \A n \in Acknowledged : entry'[n] # Free
      BY <2>2 DEF Acknowledged, Survives
    <3>. QED
      BY <3>1
  <2>4. \A n \in Names : Value'[n] = IF entry'[n] = Free THEN Free
                                     ELSE Content[entry'[n]]
    BY DEF Bound, Value
  <2>5. Value' = [n \in Names |-> IF n \in lost THEN Free ELSE Value[n]]
    <3>1. \A n \in Names : Value'[n] = IF n \in lost THEN Free ELSE Value[n]
      BY <2>1, <2>4, ValueOf
    <3>. QED
      BY <3>1 DEF Value
  <2>. QED
    BY <2>2, <2>3, <2>5 DEF Register!Next, Register!Forget
<1>. QED
  BY <1>1, <1>2, <1>3, <1>4, <1>5 DEF Next, Call

\* Publication implements a write-once register: names take one value for
\* good, and only what nobody was told of can be lost.
THEOREM Implements == Spec => ImplementsWriteOnce
<1>. QED
  BY RegisterInit, RegisterStep, Invariant, PTL
     DEF Spec, ImplementsWriteOnce, Register!Spec
=============================================================================
