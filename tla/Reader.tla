------------------------------- MODULE Reader -------------------------------
(***************************************************************************)
(* examples/reader: commands that follow the exchange into an index of     *)
(* their own. Scans (sync, watch) consume events one by one, rebuild       *)
(* replaces the index from the published results. Any number of them share *)
(* one state directory; a document is known by its bytes, and the events   *)
(* directory is read anew by every scan.                                   *)
(***************************************************************************)
EXTENDS Naturals

CONSTANTS
    Docs,       \* documents that may be published
    Event,      \* those that are events
    Result,     \* and results
    Uses,       \* the documents each one refers to, directly or not
    Own,        \* the identities each one claims
    Malformed,  \* documents that fail validation wherever they are read
    Commands,   \* reader processes
    May,        \* what each process may be started as
    Free,       \* an identity nobody has claimed
    MaxFaults   \* bound on commands that end early and transactions that fail

ASSUME DocsAssumption ==
    /\ Event \subseteq Docs /\ Result \subseteq Docs /\ Event \cap Result = {}
    /\ Free \notin Docs
    /\ \A d \in Docs : /\ Uses[d] \subseteq Docs \ {d}
                       /\ \A r \in Uses[d] : Uses[r] \subseteq Uses[d]
Roles == {"sync", "given", "watch", "rebuild"}  \* given: a sync of named events
ASSUME MayAssumption == May \in [Commands -> SUBSET Roles] /\ MaxFaults \in Nat

VARIABLES
    files,      \* the published documents
    identities, \* table identities: the document that claimed each identity
    seen,       \* table seen: accepted events
    results,    \* table results: indexed results
    at,         \* where each command is
    role,       \* what it was started as
    paths,      \* the documents it listed or was given
    todo,       \* those it has not dealt with
    reading,    \* the event it has read and not committed
    failed,     \* whether its scan has met a bad event
    faults

tables == <<identities, seen, results>>
vars == <<files, tables, at, role, paths, todo, reading, failed, faults>>

Identities == UNION {Own[d] : d \in Docs}
Graph(d) == {d} \cup Uses[d]

\* exchange.read: every document of the graph is there and valid, and no two of
\* them claim one identity.
Readable(d) ==
    /\ Graph(d) \subseteq files
    /\ Graph(d) \cap Malformed = {}
    /\ \A a, b \in Graph(d) : Own[a] \cap Own[b] # {} => a = b

-----------------------------------------------------------------------------
(* The producer. A document follows those it refers to.                    *)

Publish(d) ==
    /\ d \notin files /\ Uses[d] \subseteq files
    /\ files' = files \cup {d}
    /\ UNCHANGED <<tables, at, role, paths, todo, reading, failed, faults>>

-----------------------------------------------------------------------------
(* Transactions.                                                           *)

\* remember: an identity keeps its first document.
Careless(d) == TRUE
Agrees(d) == \A a \in Graph(d) : \A i \in Own[a] : identities[i] \in {Free, a}
Claims(S) == [i \in Identities |->
                IF \E a \in S : i \in Own[a]
                THEN CHOOSE a \in S : i \in Own[a] ELSE identities[i]]

\* saveResult: the event's result; an indexed result is not replaced.
Reported(e) == Uses[e] \cap Result
Indexed(index, S) ==
    index \cup {r \in S : \A o \in index : Own[o] \cap Own[r] = {}}

-----------------------------------------------------------------------------
(* Scans.                                                                  *)

Listing(c) == files \cap (IF role[c] = "rebuild" THEN Result ELSE Event)

Start(c) ==
    /\ at[c] = "stopped" /\ at' = [at EXCEPT ![c] = "waiting"]
    /\ \E o \in May[c] : role' = [role EXCEPT ![c] = o]
    /\ UNCHANGED <<files, tables, paths, todo, reading, failed, faults>>

\* candidates: the directory as it is now. The events given to a sync are named
\* by the user, published or not.
List(c) ==
    /\ at[c] = "waiting"
    /\ at' = [at EXCEPT ![c] = IF role[c] = "rebuild" THEN "rebuild" ELSE "scan"]
    /\ \E P \in IF role[c] = "given" THEN SUBSET Event \ {{}} ELSE {Listing(c)} :
          paths' = [paths EXCEPT ![c] = P] /\ todo' = [todo EXCEPT ![c] = P]
    /\ failed' = [failed EXCEPT ![c] = FALSE]
    /\ UNCHANGED <<files, tables, role, reading, faults>>

\* A bad event is noted, and the scan goes on.
GivesUp(c) == {}
GoesOn(c) == todo[c] \ {reading[c]}
Read(c, e) ==
    /\ at[c] = "scan" /\ e \in todo[c]
    /\ reading' = [reading EXCEPT ![c] = e]
    /\ at' = [at EXCEPT ![c] = IF Readable(e) THEN "commit" ELSE "bad"]
    /\ UNCHANGED <<files, tables, role, paths, todo, failed, faults>>

\* consume: identities, the result and the progress are one transaction.
Commit(c) ==
    /\ at[c] = "commit"
    /\ LET e == reading[c]
       IN IF Agrees(e)
          THEN /\ identities' = Claims(Graph(e))
               /\ results' = Indexed(results, Reported(e))
               /\ seen' = seen \cup {e}
               /\ at' = [at EXCEPT ![c] = "scan"]
               /\ todo' = [todo EXCEPT ![c] = @ \ {e}]
               /\ reading' = [reading EXCEPT ![c] = Free]
          ELSE /\ at' = [at EXCEPT ![c] = "bad"]
               /\ UNCHANGED <<tables, todo, reading>>
    /\ UNCHANGED <<files, role, paths, failed, faults>>

\* The transaction fails: another command held the database for five seconds.
Busy(c) ==
    /\ at[c] = "commit" /\ faults < MaxFaults
    /\ faults' = faults + 1
    /\ at' = [at EXCEPT ![c] = "bad"]
    /\ UNCHANGED <<files, tables, role, paths, todo, reading, failed>>

Bad(c) ==
    /\ at[c] = "bad"
    /\ at' = [at EXCEPT ![c] = "scan"]
    /\ failed' = [failed EXCEPT ![c] = TRUE]
    /\ todo' = [todo EXCEPT ![c] = GoesOn(c)]
    /\ reading' = [reading EXCEPT ![c] = Free]
    /\ UNCHANGED <<files, tables, role, paths, faults>>

\* The scan ends; only a watch without failures scans again.
UntilEmpty(c) == role[c] = "watch" /\ ~failed[c] /\ paths[c] # {}
Again(c) == role[c] = "watch" /\ ~failed[c]
Finish(c) ==
    /\ at[c] = "scan" /\ todo[c] = {}
    /\ at' = [at EXCEPT ![c] = IF Again(c) THEN "waiting" ELSE "stopped"]
    /\ paths' = [paths EXCEPT ![c] = {}]
    /\ failed' = [failed EXCEPT ![c] = FALSE]
    /\ UNCHANGED <<files, tables, role, todo, reading, faults>>

-----------------------------------------------------------------------------
(* Rebuild: one transaction, over the directory listed before it. Each     *)
(* document is remembered in turn; one that cannot be read or disagrees    *)
(* rolls everything back.                                                  *)

Left == {}
RolledBack == results
Graphs(S) == UNION {Graph(r) : r \in S}
Rebuild(c) ==
    /\ at[c] = "rebuild"
    /\ at' = [at EXCEPT ![c] = "stopped"]
    /\ paths' = [paths EXCEPT ![c] = {}]
    /\ todo' = [todo EXCEPT ![c] = {}]
    /\ IF /\ \A r \in todo[c] : Readable(r) /\ Agrees(r)
          /\ \A a, b \in Graphs(todo[c]) : Own[a] \cap Own[b] # {} => a = b
       THEN /\ identities' = Claims(Graphs(todo[c]))
            /\ results' = Indexed({}, todo[c])
       ELSE results' = RolledBack /\ UNCHANGED identities
    /\ UNCHANGED <<files, seen, role, reading, failed, faults>>

\* A command is killed, cancelled or out of time; a transaction under way is
\* rolled back.
Stop(c) ==
    /\ at[c] # "stopped" /\ faults < MaxFaults
    /\ faults' = faults + 1
    /\ at' = [at EXCEPT ![c] = "stopped"]
    /\ paths' = [paths EXCEPT ![c] = {}]
    /\ todo' = [todo EXCEPT ![c] = {}]
    /\ reading' = [reading EXCEPT ![c] = Free]
    /\ failed' = [failed EXCEPT ![c] = FALSE]
    /\ UNCHANGED <<files, tables, role>>

-----------------------------------------------------------------------------
Init ==
    /\ files = {}
    /\ identities = [i \in Identities |-> Free]
    /\ seen = {} /\ results = {}
    /\ at = [c \in Commands |-> "stopped"]
    /\ role = [c \in Commands |-> "sync"]
    /\ paths = [c \in Commands |-> {}]
    /\ todo = [c \in Commands |-> {}]
    /\ reading = [c \in Commands |-> Free]
    /\ failed = [c \in Commands |-> FALSE]
    /\ faults = 0

Step(c) ==
    \/ List(c) \/ (\E e \in Event : Read(c, e)) \/ Commit(c) \/ Bad(c)
    \/ Finish(c) \/ Rebuild(c)
Command(c) == Start(c) \/ Step(c) \/ Busy(c) \/ Stop(c)

Next == (\E d \in Docs : Publish(d)) \/ (\E c \in Commands : Command(c))

Spec == Init /\ [][Next]_vars

\* A command that was started runs.
FairSpec == Spec /\ \A c \in Commands : WF_vars(Step(c))
=============================================================================
