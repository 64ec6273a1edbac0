---------------------------- MODULE ReaderProofs ----------------------------
(***************************************************************************)
(* The index of examples/reader stays bound to what it accepted first, for *)
(* any documents, any number of commands and any faults. The invariant     *)
(* adds what a command carries from its reading to its transaction: the    *)
(* graph it read is there and valid.                                       *)
(***************************************************************************)
EXTENDS ReaderProperties, TLAPS

\* The event a command is about to commit was read with all of its references.
Prepared ==
    \A c \in Commands : at[c] = "commit" => reading[c] \in Event /\ Readable(reading[c])

\* A scan works on events, a rebuild on results.
Sorted ==
    \A c \in Commands : at[c] = "rebuild" => todo[c] \subseteq Result

ReaderInvariant == TypeOK /\ Remembered /\ Prepared /\ Sorted

\* What a set of documents must be for remember to accept it.
Consistent(S) == \A a, b \in S : Own[a] \cap Own[b] # {} => a = b
Acceptable(S) == \A a \in S : \A i \in Own[a] : identities[i] \in {Free, a}

-----------------------------------------------------------------------------
\* The graph of a document of a graph lies within that graph.
LEMMA GraphClosed ==
    ASSUME NEW d \in Docs, NEW a \in Graph(d)
    PROVE  a \in Docs /\ Graph(a) \subseteq Graph(d)
BY DocsAssumption DEF Graph

\* remember binds every identity of an acceptable set to its document and
\* disturbs nothing that was bound.
LEMMA ClaimsBind ==
    ASSUME NEW S, S \subseteq Docs, Consistent(S), Acceptable(S)
    PROVE  /\ \A a \in S : \A i \in Own[a] \cap Identities : Claims(S)[i] = a
           /\ \A a \in Docs : \A i \in Own[a] \cap Identities :
                identities[i] = a => Claims(S)[i] = a
<1>1. ASSUME NEW a \in S, NEW i \in Own[a] \cap Identities
      PROVE  Claims(S)[i] = a
  <2> DEFINE b == CHOOSE b \in S : i \in Own[b]
  <2>1. b \in S /\ i \in Own[b]
    OBVIOUS
  <2>2. Claims(S)[i] = b
    BY DEF Claims
  <2>3. b = a
    BY <2>1 DEF Consistent
  <2> QED BY <2>2, <2>3
<1>2. ASSUME NEW a \in Docs, NEW i \in Own[a] \cap Identities, identities[i] = a
      PROVE  Claims(S)[i] = a
  <2>1. CASE \E b \in S : i \in Own[b]
    <3>1. PICK b \in S : i \in Own[b]
      BY <2>1
    <3>2. a = b
      BY <3>1, <1>2, DocsAssumption DEF Acceptable
    <3> QED BY <1>1, <3>2
  <2>2. CASE ~ \E b \in S : i \in Own[b]
    BY <1>2, <2>2 DEF Claims
  <2> QED BY <2>1, <2>2
<1> QED BY <1>1, <1>2

\* What remember writes has the type of its table.
LEMMA ClaimsType ==
    ASSUME NEW S, S \subseteq Docs, identities \in [Identities -> Docs \cup {Free}]
    PROVE  Claims(S) \in [Identities -> Docs \cup {Free}]
<1>1. ASSUME NEW i \in Identities
      PROVE  (IF \E a \in S : i \in Own[a]
              THEN CHOOSE a \in S : i \in Own[a] ELSE identities[i]) \in Docs \cup {Free}
  OBVIOUS
<1> QED BY <1>1 DEF Claims

\* A document whose references were valid and bound stays so when the files grow
\* and an acceptable set is remembered.
LEMMA StaysBound ==
    ASSUME NEW S, S \subseteq Docs, Consistent(S), Acceptable(S),
           NEW d \in Docs,
           \A a \in Graph(d) : a \in files \ Malformed /\ \A i \in Own[a] : identities[i] = a
    PROVE  \A a \in Graph(d) : \A i \in Own[a] : Claims(S)[i] = a
<1> SUFFICES ASSUME NEW a \in Graph(d), NEW i \in Own[a]
             PROVE  Claims(S)[i] = a
  OBVIOUS
<1>1. a \in Docs
  BY GraphClosed
<1>2. i \in Identities
  BY <1>1 DEF Identities
<1> QED BY <1>1, <1>2, ClaimsBind

\* A document within an acceptable set is bound once the set is remembered.
LEMMA BecomesBound ==
    ASSUME NEW S, S \subseteq Docs, Consistent(S), Acceptable(S),
           NEW d \in Docs, Graph(d) \subseteq S
    PROVE  \A a \in Graph(d) : \A i \in Own[a] : Claims(S)[i] = a
<1> SUFFICES ASSUME NEW a \in Graph(d), NEW i \in Own[a]
             PROVE  Claims(S)[i] = a
  OBVIOUS
<1>1. i \in Identities
  BY DEF Identities
<1> QED BY <1>1, ClaimsBind

-----------------------------------------------------------------------------
LEMMA InitInvariant == Init => ReaderInvariant
BY MayAssumption, DocsAssumption
   DEF Init, ReaderInvariant, TypeOK, Remembered, Prepared, Sorted, Roles

\* A document once readable stays readable: files are never withdrawn.
LEMMA StaysPrepared ==
    ASSUME Prepared, files \subseteq files',
           \A c \in Commands : at'[c] = "commit" => at[c] = "commit" /\ reading'[c] = reading[c]
    PROVE  Prepared'
BY DEF Prepared, Readable, Graph

\* Steps that leave the tables alone keep them remembered.
LEMMA SameTables ==
    ASSUME Remembered, UNCHANGED tables, files \subseteq files'
    PROVE  Remembered'
BY DEF Remembered, tables, Graph

LEMMA PublishInvariant ==
    ASSUME ReaderInvariant, NEW d \in Docs, Publish(d)
    PROVE  ReaderInvariant'
<1>. USE DEF Publish
<1>1. TypeOK'
  BY DEF ReaderInvariant, TypeOK, tables
<1>2. Remembered'
  BY SameTables DEF ReaderInvariant
<1>3. Prepared'
  BY StaysPrepared DEF ReaderInvariant
<1>4. Sorted'
  BY DEF ReaderInvariant, Sorted
<1>. QED BY <1>1, <1>2, <1>3, <1>4 DEF ReaderInvariant

LEMMA StartInvariant ==
    ASSUME ReaderInvariant, NEW c \in Commands, Start(c)
    PROVE  ReaderInvariant'
<1>. USE DEF Start
<1>1. TypeOK'
  BY MayAssumption DEF ReaderInvariant, TypeOK, tables
<1>2. Remembered'
  BY SameTables DEF ReaderInvariant
<1>3. Prepared'
  BY DEF ReaderInvariant, Prepared, Readable, Graph, TypeOK
<1>4. Sorted'
  BY DEF ReaderInvariant, Sorted, TypeOK
<1>. QED BY <1>1, <1>2, <1>3, <1>4 DEF ReaderInvariant

LEMMA ListInvariant ==
    ASSUME ReaderInvariant, NEW c \in Commands, List(c)
    PROVE  ReaderInvariant'
<1>1. PICK P \in IF role[c] = "given" THEN SUBSET Event \ {{}} ELSE {Listing(c)} :
          paths' = [paths EXCEPT ![c] = P] /\ todo' = [todo EXCEPT ![c] = P]
  BY DEF List
<1>2. P \subseteq Docs /\ (role[c] = "rebuild" => P \subseteq Result)
  BY <1>1, DocsAssumption DEF Listing
<1>. USE DEF List
<1>3. TypeOK'
  BY <1>1, <1>2 DEF ReaderInvariant, TypeOK, tables
<1>4. Remembered'
  BY SameTables DEF ReaderInvariant
<1>5. Prepared'
  BY DEF ReaderInvariant, Prepared, Readable, Graph, TypeOK
<1>6. Sorted'
  BY <1>1, <1>2 DEF ReaderInvariant, Sorted, TypeOK
<1>. QED BY <1>3, <1>4, <1>5, <1>6 DEF ReaderInvariant

LEMMA ReadInvariant ==
    ASSUME ReaderInvariant, NEW c \in Commands, NEW e \in Event, Read(c, e)
    PROVE  ReaderInvariant'
<1>. USE DEF Read
<1>1. TypeOK'
  BY DocsAssumption DEF ReaderInvariant, TypeOK, tables
<1>2. Remembered'
  BY SameTables DEF ReaderInvariant
<1>3. Prepared'
  BY DEF ReaderInvariant, Prepared, Readable, Graph, TypeOK
<1>4. Sorted'
  BY DEF ReaderInvariant, Sorted, TypeOK
<1>. QED BY <1>1, <1>2, <1>3, <1>4 DEF ReaderInvariant

LEMMA CommitInvariant ==
    ASSUME ReaderInvariant, NEW c \in Commands, Commit(c)
    PROVE  ReaderInvariant'
<1>. DEFINE e == reading[c]
<1>1. e \in Event /\ e \in Docs /\ Readable(e)
  BY DocsAssumption DEF ReaderInvariant, Prepared, Commit
<1>2. Graph(e) \subseteq Docs /\ Consistent(Graph(e))
  BY <1>1, DocsAssumption DEF Readable, Consistent, Graph
<1>3. CASE Agrees(e)
  <2>1. /\ identities' = Claims(Graph(e))
        /\ results' = Indexed(results, Reported(e))
        /\ seen' = seen \cup {e}
        /\ at' = [at EXCEPT ![c] = "scan"]
        /\ todo' = [todo EXCEPT ![c] = @ \ {e}]
        /\ reading' = [reading EXCEPT ![c] = Free]
        /\ UNCHANGED <<files, role, paths, failed, faults>>
    BY <1>3 DEF Commit
  <2>2. Acceptable(Graph(e))
    BY <1>3 DEF Agrees, Acceptable
  <2>3. results' \subseteq results \cup (Uses[e] \cap Result)
    BY <2>1 DEF Indexed, Reported
  <2>4. TypeOK'
    <3>1. identities' \in [Identities -> Docs \cup {Free}]
      BY <1>2, <2>1, ClaimsType DEF ReaderInvariant, TypeOK
    <3>2. \A k \in Commands :
            /\ todo'[k] \subseteq paths'[k]
            /\ reading'[k] # Free <=> at'[k] \in {"commit", "bad"}
      BY <2>1 DEF ReaderInvariant, TypeOK
    <3>. QED BY <1>1, <2>1, <2>3, <3>1, <3>2 DEF ReaderInvariant, TypeOK
  <2>5. ASSUME NEW d \in seen' \cup results'
        PROVE  \A a \in Graph(d) : /\ a \in files' \ Malformed
                                   /\ \A i \in Own[a] : identities'[i] = a
    <3>1. CASE d \in seen \cup results
      <4>1. d \in Docs
        BY <3>1, DocsAssumption DEF ReaderInvariant, TypeOK
      <4>2. \A a \in Graph(d) : a \in files \ Malformed /\ \A i \in Own[a] : identities[i] = a
        BY <3>1 DEF ReaderInvariant, Remembered
      <4>. QED BY <4>1, <4>2, <1>2, <2>1, <2>2, StaysBound
    <3>2. CASE d \in Graph(e)
      <4>1. d \in Docs /\ Graph(d) \subseteq Graph(e)
        BY <3>2, <1>1, GraphClosed
      <4>2. \A a \in Graph(d) : a \in files \ Malformed
        BY <4>1, <1>1 DEF Readable
      <4>. QED BY <4>1, <4>2, <1>2, <2>1, <2>2, BecomesBound
    <3>. QED BY <3>1, <3>2, <2>1, <2>3 DEF Graph
  <2>6. Remembered'
    BY <2>5 DEF Remembered, Graph
  <2>7. Prepared' /\ Sorted'
    BY <2>1 DEF ReaderInvariant, Prepared, Sorted, Readable, Graph, TypeOK
  <2>. QED BY <2>4, <2>6, <2>7 DEF ReaderInvariant
<1>4. CASE ~Agrees(e)
  <2>1. at' = [at EXCEPT ![c] = "bad"]
        /\ UNCHANGED <<files, tables, role, paths, todo, reading, failed, faults>>
    BY <1>4 DEF Commit
  <2>2. TypeOK'
    BY <2>1 DEF ReaderInvariant, TypeOK, tables, Commit
  <2>3. Remembered'
    BY <2>1, SameTables DEF ReaderInvariant
  <2>4. Prepared' /\ Sorted'
    BY <2>1 DEF ReaderInvariant, Prepared, Sorted, Readable, Graph, TypeOK
  <2>. QED BY <2>2, <2>3, <2>4 DEF ReaderInvariant
<1>. QED BY <1>3, <1>4

LEMMA RebuildInvariant ==
    ASSUME ReaderInvariant, NEW c \in Commands, Rebuild(c)
    PROVE  ReaderInvariant'
<1>. DEFINE S == Graphs(todo[c])
            Good == /\ \A r \in todo[c] : Readable(r) /\ Agrees(r)
                    /\ \A a, b \in S : Own[a] \cap Own[b] # {} => a = b
<1>1. /\ todo[c] \subseteq Result /\ todo[c] \subseteq Docs
      /\ reading[c] = Free
  BY DocsAssumption DEF ReaderInvariant, Sorted, Rebuild, TypeOK
<1>2. S \subseteq Docs
  BY <1>1, GraphClosed DEF Graphs
<1>3. /\ at' = [at EXCEPT ![c] = "stopped"]
      /\ paths' = [paths EXCEPT ![c] = {}] /\ todo' = [todo EXCEPT ![c] = {}]
      /\ UNCHANGED <<files, seen, role, reading, failed, faults>>
  BY DEF Rebuild
<1>4. Prepared' /\ Sorted'
  BY <1>3 DEF ReaderInvariant, Prepared, Sorted, Readable, Graph, TypeOK
<1>5. CASE Good
  <2>1. identities' = Claims(S) /\ results' = Indexed({}, todo[c])
    BY <1>5 DEF Rebuild
  <2>2. results' \subseteq todo[c]
    BY <2>1 DEF Indexed
  <2>3. Consistent(S) /\ Acceptable(S)
    BY <1>5 DEF Consistent, Acceptable, Graphs, Agrees
  <2>4. TypeOK'
    <3>1. identities' \in [Identities -> Docs \cup {Free}]
      BY <1>2, <2>1, ClaimsType DEF ReaderInvariant, TypeOK
    <3>. QED BY <1>1, <1>3, <2>2, <3>1 DEF ReaderInvariant, TypeOK
  <2>5. ASSUME NEW d \in seen' \cup results'
        PROVE  \A a \in Graph(d) : /\ a \in files' \ Malformed
                                   /\ \A i \in Own[a] : identities'[i] = a
    <3>1. CASE d \in seen
      <4>1. d \in Docs
        BY <3>1, DocsAssumption DEF ReaderInvariant, TypeOK
      <4>2. \A a \in Graph(d) : a \in files \ Malformed /\ \A i \in Own[a] : identities[i] = a
        BY <3>1 DEF ReaderInvariant, Remembered
      <4>. QED BY <4>1, <4>2, <1>2, <1>3, <2>1, <2>3, StaysBound
    <3>2. CASE d \in todo[c]
      <4>1. d \in Docs /\ Graph(d) \subseteq S
        BY <3>2, <1>1 DEF Graphs
      <4>2. \A a \in Graph(d) : a \in files \ Malformed
        BY <3>2, <1>5 DEF Readable
      <4>. QED BY <4>1, <4>2, <1>2, <1>3, <2>1, <2>3, BecomesBound
    <3>. QED BY <3>1, <3>2, <1>3, <2>2
  <2>6. Remembered'
    BY <2>5 DEF Remembered, Graph
  <2>. QED BY <1>4, <2>4, <2>6 DEF ReaderInvariant
<1>6. CASE ~Good
  <2>1. UNCHANGED tables
    BY <1>6, <1>3 DEF Rebuild, RolledBack, tables
  <2>2. TypeOK'
    BY <1>1, <1>3, <2>1 DEF ReaderInvariant, TypeOK, tables
  <2>3. Remembered'
    BY <1>3, <2>1, SameTables DEF ReaderInvariant
  <2>. QED BY <1>4, <2>2, <2>3 DEF ReaderInvariant
<1>. QED BY <1>5, <1>6

\* Steps of a command that end its scan, its event or the command itself.
LEMMA EndInvariant ==
    ASSUME ReaderInvariant, NEW c \in Commands,
           Busy(c) \/ Bad(c) \/ Finish(c) \/ Stop(c)
    PROVE  ReaderInvariant'
<1>1. UNCHANGED <<files, tables, role>>
  BY DEF Busy, Bad, Finish, Stop
<1>2. Remembered'
  BY <1>1, SameTables DEF ReaderInvariant
<1>3. CASE Busy(c)
  <2>1. TypeOK'
    BY <1>3, MayAssumption DEF Busy, ReaderInvariant, TypeOK, tables
  <2>2. Prepared' /\ Sorted'
    BY <1>3 DEF Busy, ReaderInvariant, Prepared, Sorted, Readable, Graph, TypeOK
  <2>. QED BY <1>2, <2>1, <2>2 DEF ReaderInvariant
<1>4. CASE Bad(c)
  <2>1. TypeOK'
    BY <1>4 DEF Bad, GoesOn, ReaderInvariant, TypeOK, tables
  <2>2. Prepared' /\ Sorted'
    BY <1>4 DEF Bad, ReaderInvariant, Prepared, Sorted, Readable, Graph, TypeOK
  <2>. QED BY <1>2, <2>1, <2>2 DEF ReaderInvariant
<1>5. CASE Finish(c)
  <2>1. TypeOK'
    BY <1>5 DEF Finish, ReaderInvariant, TypeOK, tables
  <2>2. Prepared' /\ Sorted'
    BY <1>5 DEF Finish, ReaderInvariant, Prepared, Sorted, Readable, Graph, TypeOK
  <2>. QED BY <1>2, <2>1, <2>2 DEF ReaderInvariant
<1>6. CASE Stop(c)
  <2>1. TypeOK'
    BY <1>6, MayAssumption DEF Stop, ReaderInvariant, TypeOK, tables
  <2>2. Prepared' /\ Sorted'
    BY <1>6 DEF Stop, ReaderInvariant, Prepared, Sorted, Readable, Graph, TypeOK
  <2>. QED BY <1>2, <2>1, <2>2 DEF ReaderInvariant
<1>. QED BY <1>3, <1>4, <1>5, <1>6

LEMMA NextInvariant == ReaderInvariant /\ [Next]_vars => ReaderInvariant'
<1>. SUFFICES ASSUME ReaderInvariant, [Next]_vars
              PROVE  ReaderInvariant'
  OBVIOUS
<1>1. CASE UNCHANGED vars
  BY <1>1 DEF vars, tables, ReaderInvariant, TypeOK, Remembered, Prepared, Sorted, Readable, Graph
<1>2. ASSUME NEW d \in Docs, Publish(d)
      PROVE  ReaderInvariant'
  BY <1>2, PublishInvariant
<1>3. ASSUME NEW c \in Commands, Command(c)
      PROVE  ReaderInvariant'
  BY <1>3, StartInvariant, ListInvariant, ReadInvariant, CommitInvariant,
     RebuildInvariant, EndInvariant DEF Command, Step
<1>. QED BY <1>1, <1>2, <1>3 DEF Next

\* The index stays well formed, and its identities stay bound to the documents
\* that everything accepted rests on: type correctness and Remembered, for any
\* documents and any number of sync, watch and rebuild commands.
THEOREM ReaderCorrect == Spec => [](TypeOK /\ Remembered)
<1>1. Spec => []ReaderInvariant
  BY InitInvariant, NextInvariant, PTL DEF Spec
<1>2. ReaderInvariant => TypeOK /\ Remembered
  BY DEF ReaderInvariant
<1>. QED BY <1>1, <1>2, PTL

-----------------------------------------------------------------------------
(* What a scan leaves behind.                                              *)

Scanning(c) == at[c] \in {"scan", "commit", "bad"}
Fails(e) == ~(Readable(e) /\ Agrees(e))

\* A document is published after those it refers to, and an identity is bound
\* to a document that claims it.
WellFounded ==
    /\ \A d \in files : Graph(d) \subseteq files
    /\ \A i \in Identities : identities[i] # Free => i \in Own[identities[i]]

\* A rebuild still has all it listed to deal with; a scan works on what it
\* listed, and without a fault sets an event aside only if it fails.
Underway ==
    \A c \in Commands :
        /\ at[c] = "rebuild" => todo[c] = paths[c]
        /\ at[c] \in {"commit", "bad"} => reading[c] \in todo[c]
        /\ Scanning(c) /\ role[c] # "given" => paths[c] \subseteq files \cap Event
        /\ at[c] = "bad" /\ role[c] # "given" /\ faults = 0 => Fails(reading[c])

\* ScanComplete, also while an event is being dealt with.
Complete ==
    \A c \in Commands : Scanning(c) /\ role[c] # "given" =>
        \A e \in paths[c] \ todo[c] :
            e \in seen \/ (failed[c] /\ (faults = 0 => Fails(e)))

ScanInvariant == ReaderInvariant /\ WellFounded /\ Underway /\ Complete

\* What a step does to the tables: nothing, or it remembers an acceptable set of
\* documents and forgets no event.
Remembers ==
    \/ UNCHANGED tables
    \/ /\ seen \subseteq seen'
       /\ \E S \in SUBSET Docs :
             Consistent(S) /\ Acceptable(S) /\ identities' = Claims(S)

LEMMA StepRemembers ==
    ASSUME ReaderInvariant, [Next]_vars
    PROVE  Remembers /\ files \subseteq files' /\ faults <= faults'
<1>1. CASE UNCHANGED vars
  BY <1>1 DEF vars, tables, Remembers, ReaderInvariant, TypeOK
<1>2. ASSUME NEW d \in Docs, Publish(d)
      PROVE  Remembers /\ files \subseteq files' /\ faults <= faults'
  BY <1>2 DEF Publish, Remembers, ReaderInvariant, TypeOK
<1>3. ASSUME NEW c \in Commands, Command(c)
      PROVE  Remembers /\ files \subseteq files' /\ faults <= faults'
  <2>1. CASE Commit(c)
    <3>1. reading[c] \in Docs /\ Readable(reading[c])
      BY <2>1, DocsAssumption DEF ReaderInvariant, Prepared, Commit
    <3>2. Graph(reading[c]) \in SUBSET Docs /\ Consistent(Graph(reading[c]))
      BY <3>1, DocsAssumption DEF Readable, Consistent, Graph
    <3>3. files' = files /\ faults' = faults /\ faults \in Nat
      BY <2>1, MayAssumption DEF Commit, ReaderInvariant, TypeOK
    <3>4. CASE Agrees(reading[c])
      <4>1. Acceptable(Graph(reading[c]))
        BY <3>4 DEF Agrees, Acceptable
      <4>2. identities' = Claims(Graph(reading[c])) /\ seen \subseteq seen'
        BY <2>1, <3>4 DEF Commit
      <4>. QED BY <3>2, <3>3, <4>1, <4>2 DEF Remembers
    <3>5. CASE ~Agrees(reading[c])
      BY <2>1, <3>3, <3>5 DEF Commit, Remembers
    <3>. QED BY <3>4, <3>5
  <2>2. CASE Rebuild(c)
    <3>1. todo[c] \in SUBSET Docs
      BY <2>2 DEF ReaderInvariant, TypeOK
    <3>2. Graphs(todo[c]) \in SUBSET Docs
      BY <3>1, GraphClosed DEF Graphs
    <3>3. files' = files /\ seen' = seen /\ faults' = faults /\ faults \in Nat
      BY <2>2, MayAssumption DEF Rebuild, ReaderInvariant, TypeOK
    <3>4. CASE (\A r \in todo[c] : Readable(r) /\ Agrees(r)) /\ Consistent(Graphs(todo[c]))
      <4>1. Acceptable(Graphs(todo[c]))
        BY <3>4 DEF Agrees, Acceptable, Graphs
      <4>2. identities' = Claims(Graphs(todo[c]))
        BY <2>2, <3>4 DEF Rebuild, Consistent
      <4>. QED BY <3>2, <3>3, <3>4, <4>1, <4>2 DEF Remembers
    <3>5. CASE ~((\A r \in todo[c] : Readable(r) /\ Agrees(r)) /\ Consistent(Graphs(todo[c])))
      <4>1. identities' = identities /\ results' = results
        BY <2>2, <3>5 DEF Rebuild, Consistent, RolledBack
      <4>. QED BY <3>3, <4>1 DEF Remembers, tables
    <3>. QED BY <3>4, <3>5
  <2>3. CASE Start(c) \/ List(c) \/ (\E e \in Event : Read(c, e)) \/ Bad(c)
             \/ Finish(c) \/ Busy(c) \/ Stop(c)
    BY <2>3, MayAssumption
       DEF Start, List, Read, Bad, Finish, Busy, Stop, Remembers, tables, ReaderInvariant, TypeOK
  <2>. QED BY <1>3, <2>1, <2>2, <2>3 DEF Command, Step
<1>. QED BY <1>1, <1>2, <1>3 DEF Next

\* An event that fails, though all of its graph is published, fails for ever.
LEMMA FailsForEver ==
    ASSUME ReaderInvariant, WellFounded, Remembers, files \subseteq files',
           NEW e \in files, Fails(e)
    PROVE  Fails(e)'
<1>1. e \in Docs /\ Graph(e) \subseteq files
  BY DEF ReaderInvariant, TypeOK, WellFounded
<1>2. CASE ~Readable(e)
  BY <1>1, <1>2 DEF Readable, Fails, Graph
<1>3. CASE ~Agrees(e)
  <2>1. PICK a \in Graph(e) : \E i \in Own[a] : identities[i] \notin {Free, a}
    BY <1>3 DEF Agrees
  <2>2. PICK i \in Own[a] : identities[i] \notin {Free, a}
    BY <2>1
  <2>3. a \in Docs /\ i \in Identities
    BY <1>1, GraphClosed DEF Identities
  <2>4. identities[i] \in Docs /\ i \in Own[identities[i]]
    BY <2>2, <2>3 DEF ReaderInvariant, TypeOK, WellFounded
  <2>5. identities'[i] = identities[i]
    <3>1. CASE UNCHANGED tables
      BY <3>1 DEF tables
    <3>2. CASE ~UNCHANGED tables
      <4>1. PICK S \in SUBSET Docs : Consistent(S) /\ Acceptable(S) /\ identities' = Claims(S)
        BY <3>2 DEF Remembers
      <4>. QED BY <2>3, <2>4, <4>1, ClaimsBind
    <3>. QED BY <3>1, <3>2
  <2>6. identities'[i] \notin {Free, a} /\ a \in Graph(e) /\ i \in Own[a]
    BY <2>2, <2>5
  <2>7. ~Agrees(e)'
    BY <2>6 DEF Agrees, Graph
  <2>. QED BY <2>7 DEF Fails
<1>. QED BY <1>2, <1>3 DEF Fails

LEMMA WellFoundedStays ==
    ASSUME ReaderInvariant, WellFounded, [Next]_vars
    PROVE  WellFounded'
<1>1. Remembers /\ files \subseteq files'
  BY StepRemembers
<1>2. ASSUME NEW d \in files' PROVE Graph(d) \subseteq files'
  <2>1. CASE d \in files
    BY <1>1, <2>1 DEF WellFounded
  <2>2. CASE d \notin files
    <3>1. PICK n \in Docs : Publish(n)
      BY <2>2 DEF Next, vars, Command, Step, Start, List, Read, Commit, Bad, Finish,
                  Rebuild, Busy, Stop
    <3>. QED BY <2>2, <3>1 DEF Publish, Graph
  <2>. QED BY <2>1, <2>2
<1>3. ASSUME NEW i \in Identities, identities'[i] # Free
      PROVE  i \in Own[identities'[i]]
  <2>1. CASE UNCHANGED tables
    BY <1>3, <2>1 DEF tables, WellFounded
  <2>2. CASE ~UNCHANGED tables
    <3>1. PICK S \in SUBSET Docs : identities' = Claims(S)
      BY <1>1, <2>2 DEF Remembers
    <3>2. CASE \E a \in S : i \in Own[a]
      <4>1. i \in Own[CHOOSE a \in S : i \in Own[a]]
        BY <3>2
      <4>2. identities'[i] = CHOOSE a \in S : i \in Own[a]
        BY <3>1, <3>2 DEF Claims
      <4>. QED BY <4>1, <4>2
    <3>3. CASE ~ \E a \in S : i \in Own[a]
      <4>1. identities'[i] = identities[i]
        BY <3>1, <3>3 DEF Claims
      <4>. QED BY <1>3, <4>1 DEF WellFounded
    <3>. QED BY <3>2, <3>3
  <2>. QED BY <2>1, <2>2
<1>. QED BY <1>2, <1>3 DEF WellFounded, Graph

\* The two invariants, of one command.
UnderwayOf(c) ==
    /\ at[c] = "rebuild" => todo[c] = paths[c]
    /\ at[c] \in {"commit", "bad"} => reading[c] \in todo[c]
    /\ Scanning(c) /\ role[c] # "given" => paths[c] \subseteq files \cap Event
    /\ at[c] = "bad" /\ role[c] # "given" /\ faults = 0 => Fails(reading[c])
CompleteOf(c) ==
    Scanning(c) /\ role[c] # "given" =>
        \A e \in paths[c] \ todo[c] :
            e \in seen \/ (failed[c] /\ (faults = 0 => Fails(e)))

LEMMA EachCommand ==
    (Underway <=> \A c \in Commands : UnderwayOf(c))
    /\ (Complete <=> \A c \in Commands : CompleteOf(c))
BY DEF Underway, UnderwayOf, Complete, CompleteOf

\* A command that takes no part in a step keeps what it has achieved.
LEMMA OthersKeep ==
    ASSUME ScanInvariant, [Next]_vars, NEW k \in Commands,
           at'[k] = at[k], role'[k] = role[k], paths'[k] = paths[k],
           todo'[k] = todo[k], reading'[k] = reading[k], failed'[k] = failed[k]
    PROVE  UnderwayOf(k)' /\ CompleteOf(k)'
<1>1. Remembers /\ files \subseteq files' /\ faults <= faults'
  BY StepRemembers DEF ScanInvariant
<1>2. UnderwayOf(k) /\ CompleteOf(k)
  BY EachCommand DEF ScanInvariant
<1>3. seen \subseteq seen'
  BY <1>1 DEF Remembers, tables
<1>4. faults \in Nat /\ faults' \in Nat
  BY NextInvariant, MayAssumption DEF ScanInvariant, ReaderInvariant, TypeOK
<1>5. faults' = 0 => faults = 0
  BY <1>1, <1>4
<1>6. \A e \in files : Fails(e) => Fails(e)'
  BY <1>1, FailsForEver DEF ScanInvariant
<1>7. todo[k] \subseteq paths[k]
  BY DEF ScanInvariant, ReaderInvariant, TypeOK
<1>8. UnderwayOf(k)'
  <2>2. ASSUME at[k] = "bad", role[k] # "given", faults' = 0
        PROVE  Fails(reading[k])'
    <3>1. PICK e \in files : e = reading[k]
      BY <2>2, <1>2, <1>7 DEF UnderwayOf, Scanning
    <3>2. Fails(e)
      BY <2>2, <3>1, <1>2, <1>5 DEF UnderwayOf
    <3>3. Fails(e)' /\ e = reading'[k]
      BY <3>1, <3>2, <1>6
    <3>. QED BY <3>3 DEF Fails, Readable, Agrees, Graph
  <2>3. Scanning(k)' <=> Scanning(k)
    BY DEF Scanning
  <2>. QED BY <1>1, <1>2, <2>2, <2>3 DEF UnderwayOf
<1>9. CompleteOf(k)'
  <2>1. Scanning(k)' <=> Scanning(k)
    BY DEF Scanning
  <2>2. ASSUME Scanning(k), role[k] # "given", NEW e \in paths[k] \ todo[k]
        PROVE  e \in seen' \/ (failed[k] /\ (faults' = 0 => Fails(e)'))
    <3>1. e \in files
      BY <2>2, <1>2 DEF UnderwayOf
    <3>2. e \in seen \/ (failed[k] /\ (faults = 0 => Fails(e)))
      BY <2>2, <1>2 DEF CompleteOf
    <3>. QED BY <3>1, <3>2, <1>3, <1>5, <1>6
  <2>. QED BY <2>1, <2>2 DEF CompleteOf
<1>. QED BY <1>8, <1>9

\* The command that takes a step achieves what the invariants say.
LEMMA ActorKeeps ==
    ASSUME ScanInvariant, NEW c \in Commands, Command(c)
    PROVE  UnderwayOf(c)' /\ CompleteOf(c)'
<1>1. [Next]_vars
  BY DEF Next
<1>2. files \subseteq files' /\ TypeOK
  BY <1>1, StepRemembers DEF ScanInvariant, ReaderInvariant
<1>3. UnderwayOf(c) /\ CompleteOf(c)
  BY EachCommand DEF ScanInvariant
<1>4. CASE Start(c) \/ Finish(c) \/ Rebuild(c) \/ Stop(c)
  <2>1. at'[c] \in {"waiting", "stopped"}
    BY <1>2, <1>4 DEF Start, Finish, Rebuild, Stop, TypeOK
  <2>. QED BY <2>1 DEF UnderwayOf, CompleteOf, Scanning
<1>5. CASE List(c)
  <2>1. PICK P \in IF role[c] = "given" THEN SUBSET Event \ {{}} ELSE {Listing(c)} :
          paths' = [paths EXCEPT ![c] = P] /\ todo' = [todo EXCEPT ![c] = P]
    BY <1>5 DEF List
  <2>2. /\ at'[c] = IF role[c] = "rebuild" THEN "rebuild" ELSE "scan"
        /\ role' = role /\ files' = files /\ paths'[c] = P /\ todo'[c] = P
    BY <1>2, <1>5, <2>1 DEF List, TypeOK
  <2>3. role[c] \notin {"given", "rebuild"} => P \subseteq files \cap Event
    BY <2>1 DEF Listing
  <2>. QED BY <2>2, <2>3 DEF UnderwayOf, CompleteOf, Scanning
<1>6. ASSUME NEW e \in Event, Read(c, e)
      PROVE  UnderwayOf(c)' /\ CompleteOf(c)'
  <2>1. /\ at'[c] = IF Readable(e) THEN "commit" ELSE "bad"
        /\ reading'[c] = e /\ e \in todo[c] /\ at[c] = "scan"
        /\ UNCHANGED <<files, tables, role, paths, todo, failed, faults>>
    BY <1>2, <1>6 DEF Read, TypeOK
  <2>2. at'[c] = "bad" => Fails(reading[c])'
    BY <2>1 DEF Fails, Readable, Agrees, Graph
  <2>3. UnderwayOf(c)'
    BY <1>3, <2>1, <2>2 DEF UnderwayOf, Scanning
  <2>4. CompleteOf(c)'
    BY <1>3, <2>1 DEF CompleteOf, Scanning, Fails, Readable, Agrees, Graph, tables
  <2>. QED BY <2>3, <2>4
<1>7. CASE Commit(c)
  <2>1. at[c] = "commit" /\ UNCHANGED <<files, role, paths, failed, faults>>
    BY <1>7 DEF Commit
  <2>2. CASE Agrees(reading[c])
    <3>1. /\ at'[c] = "scan" /\ todo'[c] = todo[c] \ {reading[c]}
          /\ seen' = seen \cup {reading[c]}
      BY <1>2, <1>7, <2>2 DEF Commit, TypeOK
    <3>2. UnderwayOf(c)'
      BY <1>3, <2>1, <3>1 DEF UnderwayOf, Scanning
    <3>3. Remembers
      BY <1>1, StepRemembers DEF ScanInvariant
    <3>4. \A e \in files : Fails(e) => Fails(e)'
      BY <1>2, <3>3, FailsForEver DEF ScanInvariant
    <3>5. role[c] # "given" => paths[c] \subseteq files
      BY <1>3, <2>1 DEF UnderwayOf, Scanning
    <3>6. CompleteOf(c)'
      BY <1>3, <2>1, <3>1, <3>4, <3>5 DEF CompleteOf, Scanning
    <3>. QED BY <3>2, <3>6
  <2>3. CASE ~Agrees(reading[c])
    <3>1. /\ at'[c] = "bad"
          /\ UNCHANGED <<tables, todo, reading>>
      BY <1>2, <1>7, <2>3 DEF Commit, TypeOK
    <3>2. Fails(reading[c])'
      BY <2>1, <2>3, <3>1 DEF Fails, Readable, Agrees, Graph, tables
    <3>3. UnderwayOf(c)'
      BY <1>3, <2>1, <3>1, <3>2 DEF UnderwayOf, Scanning
    <3>4. CompleteOf(c)'
      BY <1>3, <2>1, <3>1 DEF CompleteOf, Scanning, Fails, Readable, Agrees, Graph, tables
    <3>. QED BY <3>3, <3>4
  <2>. QED BY <2>2, <2>3
<1>8. CASE Busy(c)
  <2>1. /\ at[c] = "commit" /\ at'[c] = "bad" /\ faults' = faults + 1
        /\ UNCHANGED <<files, tables, role, paths, todo, reading, failed>>
    BY <1>2, <1>8 DEF Busy, TypeOK
  <2>2. faults' # 0
    BY <1>2, <2>1, MayAssumption DEF TypeOK
  <2>3. seen' = seen
    BY <2>1 DEF tables
  <2>4. UnderwayOf(c)'
    BY <1>3, <2>1, <2>2 DEF UnderwayOf, Scanning
  <2>5. CompleteOf(c)'
    BY <1>3, <2>1, <2>2, <2>3 DEF CompleteOf, Scanning
  <2>. QED BY <2>4, <2>5
<1>9. CASE Bad(c)
  <2>1. /\ at[c] = "bad" /\ at'[c] = "scan" /\ failed'[c] = TRUE
        /\ todo'[c] = todo[c] \ {reading[c]}
        /\ UNCHANGED <<files, tables, role, paths, faults>>
    BY <1>2, <1>9 DEF Bad, GoesOn, TypeOK
  <2>2. \A e : Fails(e) => Fails(e)'
    BY <2>1 DEF Fails, Readable, Agrees, Graph, tables
  <2>3. UnderwayOf(c)'
    BY <1>3, <2>1 DEF UnderwayOf, Scanning
  <2>4. seen' = seen
    BY <2>1 DEF tables
  <2>5. ASSUME Scanning(c)', role'[c] # "given", NEW e \in paths'[c] \ todo'[c]
        PROVE  e \in seen' \/ (failed'[c] /\ (faults' = 0 => Fails(e)'))
    <3>1. CASE e = reading[c]
      <4>1. faults = 0 => Fails(e)
        BY <1>3, <2>1, <2>5, <3>1 DEF UnderwayOf
      <4>. QED BY <4>1, <2>1, <2>2
    <3>2. CASE e # reading[c]
      <4>1. e \in seen \/ (failed[c] /\ (faults = 0 => Fails(e)))
        BY <1>3, <2>1, <2>5, <3>2 DEF CompleteOf, Scanning
      <4>. QED BY <4>1, <2>1, <2>2, <2>4
    <3>. QED BY <3>1, <3>2
  <2>6. CompleteOf(c)'
    BY <2>5 DEF CompleteOf
  <2>. QED BY <2>3, <2>6
<1>. QED BY <1>4, <1>5, <1>6, <1>7, <1>8, <1>9 DEF Command, Step

\* A step is taken by one command, or by the producer.
LEMMA OthersRest ==
    ASSUME TypeOK, NEW c \in Commands, Command(c), NEW k \in Commands, k # c
    PROVE  /\ at'[k] = at[k] /\ role'[k] = role[k] /\ paths'[k] = paths[k]
           /\ todo'[k] = todo[k] /\ reading'[k] = reading[k] /\ failed'[k] = failed[k]
<1>1. CASE Start(c)
  BY <1>1 DEF Start, TypeOK
<1>2. CASE List(c)
  BY <1>2 DEF List, TypeOK
<1>3. CASE \E e \in Event : Read(c, e)
  BY <1>3 DEF Read, TypeOK
<1>4. CASE Commit(c)
  BY <1>4 DEF Commit, TypeOK, tables
<1>5. CASE Bad(c) \/ Finish(c) \/ Busy(c)
  BY <1>5 DEF Bad, Finish, Busy, TypeOK
<1>6. CASE Rebuild(c) \/ Stop(c)
  BY <1>6 DEF Rebuild, Stop, TypeOK
<1>. QED BY <1>1, <1>2, <1>3, <1>4, <1>5, <1>6 DEF Command, Step

LEMMA ScanNext == ScanInvariant /\ [Next]_vars => ScanInvariant'
<1>. SUFFICES ASSUME ScanInvariant, [Next]_vars
              PROVE  ScanInvariant'
  OBVIOUS
<1>1. ReaderInvariant' /\ WellFounded'
  BY NextInvariant, WellFoundedStays DEF ScanInvariant
<1>2. TypeOK
  BY DEF ScanInvariant, ReaderInvariant
<1>3. ASSUME NEW k \in Commands
      PROVE  UnderwayOf(k)' /\ CompleteOf(k)'
  <2>1. CASE UNCHANGED vars
    BY <2>1, OthersKeep DEF vars
  <2>2. ASSUME NEW d \in Docs, Publish(d)
        PROVE  UnderwayOf(k)' /\ CompleteOf(k)'
    BY <2>2, OthersKeep DEF Publish
  <2>3. ASSUME NEW c \in Commands, Command(c)
        PROVE  UnderwayOf(k)' /\ CompleteOf(k)'
    <3>1. CASE k = c
      BY <2>3, <3>1, ActorKeeps
    <3>2. CASE k # c
      BY <1>2, <2>3, <3>2, OthersRest, OthersKeep
    <3>. QED BY <3>1, <3>2
  <2>. QED BY <2>1, <2>2, <2>3 DEF Next
<1>4. Underway' /\ Complete'
  BY <1>3 DEF Underway, UnderwayOf, Complete, CompleteOf
<1>. QED BY <1>1, <1>4 DEF ScanInvariant

LEMMA ScanInit == Init => ScanInvariant
<1>. SUFFICES ASSUME Init PROVE ScanInvariant
  OBVIOUS
<1>1. WellFounded /\ Underway /\ Complete
  BY DEF Init, WellFounded, Underway, Complete, Scanning
<1>. QED BY <1>1, InitInvariant DEF ScanInvariant

LEMMA ScanHolds == Spec => []ScanInvariant
BY ScanInit, ScanNext, PTL DEF Spec

\* A bad event hides no other of its scan: for any documents, commands and
\* faults, what a scan has dealt with it has accepted or will report.
THEOREM ScanCompleteCorrect == Spec => []ScanComplete
<1>1. ScanInvariant => ScanComplete
  BY DEF ScanInvariant, Complete, ScanComplete, Scanning, Fails
<1>. QED BY <1>1, ScanHolds, PTL

\* The index loses a result only to a rebuild that did not list it: commits only
\* add, and a rebuild that goes through keeps whatever it listed.
THEOREM IndexKeptCorrect == Spec => IndexKept
<1>1. ASSUME ScanInvariant, [Next]_vars, NEW r \in results \ results'
      PROVE  \E c \in Commands :
                at[c] = "rebuild" /\ at'[c] = "stopped" /\ r \notin paths[c]
  <2>1. PICK c \in Commands : Rebuild(c)
    BY <1>1 DEF Next, vars, tables, Publish, Command, Step, Start, List, Read, Commit,
                Indexed, Bad, Finish, Busy, Stop
  <2>2. at[c] = "rebuild" /\ at'[c] = "stopped"
    BY <1>1, <2>1 DEF Rebuild, ScanInvariant, ReaderInvariant, TypeOK
  <2>3. results' = Indexed({}, todo[c])
    BY <1>1, <2>1 DEF Rebuild, RolledBack
  <2>4. r \notin todo[c]
    BY <1>1, <2>3 DEF Indexed
  <2>5. todo[c] = paths[c]
    BY <1>1, <2>2 DEF ScanInvariant, Underway
  <2>. QED BY <2>2, <2>4, <2>5
<1>2. ScanInvariant /\ [Next]_vars =>
        (\A r \in results \ results' : \E c \in Commands :
            at[c] = "rebuild" /\ at'[c] = "stopped" /\ r \notin paths[c])
  BY <1>1
<1>. QED BY <1>2, ScanHolds, PTL DEF Spec, IndexKept
=============================================================================
