---------------------------- MODULE Publication ----------------------------
(***************************************************************************)
(* internal/publication: how a complete file comes to be in the exchange   *)
(* directory. Calls of Document and File race for a name, their processes  *)
(* are killed, and the machine loses power between any two system calls.   *)
(*                                                                         *)
(* A call creates one file object; the model names the object by the call. *)
(* A directory maps paths to objects. Directory entries reach the disk when*)
(* the directory is synchronised, the bytes of an object when the object   *)
(* is; everything else may or may not survive a loss of power.             *)
(***************************************************************************)
CONSTANTS
    Calls,     \* calls of Document, and Given
    Given,     \* files that were in the exchange before, durably
    Names,     \* paths of published files
    Free,      \* the object of a path without an entry
    Name,      \* the path each call publishes at
    Content,   \* the bytes each call publishes
    Needs,     \* the references in those bytes, as [name, content] records
    Folder     \* the directory of each path

ASSUME CallsAssumption ==
    /\ Given \subseteq Calls
    /\ Name \in [Calls -> Names]
    /\ Free \notin Calls
    /\ \A c \in Calls : Content[c] # Free
    /\ Calls \cap Names = {}
    /\ \A b, c \in Given : Name[b] = Name[c] => b = c
ASSUME NeedsAssumption ==
    \A c \in Calls : /\ \A r \in Needs[c] : r.name \in Names
                     /\ c \in Given => Needs[c] = {}

VARIABLES
    pc,        \* the next step of each call, or how it ended
    data,      \* the bytes of each call's object
    synced,    \* objects whose bytes are on disk
    entry,     \* the directories as processes see them
    saved,     \* the directory entries on disk
    folders,   \* directories that exist
    kept       \* directories whose existence is on disk

vars == <<pc, data, synced, entry, saved, folders, kept>>

Running == {"folder", "root", "create", "write", "verify", "sync", "link",
            "compare", "unstage", "settle", "cleanup", "reject", "unread"}
Ended == {"done", "failed", "conflict", "dead"}

\* The temporary name of a call is random, so it is the call's own.
Paths == Names \cup Calls
FolderOf(x) == IF x \in Names THEN Folder[x] ELSE Folder[Name[x]]
Steps(c, from, to) == pc[c] = from /\ pc' = [pc EXCEPT ![c] = to]

\* checkReference: the file is there, complete, and has the hash.
Readable(r) == /\ entry[r.name] # Free
               /\ data[entry[r.name]] = "full"
               /\ Content[entry[r.name]] = r.content
Valid(c) == \A r \in Needs[c] : Readable(r)

\* A caller publishes a file after it was told that those it refers to are
\* published: Flush goes to the next row after an acknowledgment only.
Unordered(c) == Valid(c)
Promised(c) == \A r \in Needs[c] :
    \E b \in Calls : /\ pc[b] = "done"
                     /\ Name[b] = r.name /\ Content[b] = r.content

-----------------------------------------------------------------------------
(* Document.                                                               *)

Validate(c) ==
    /\ Promised(c)
    /\ Steps(c, "start", IF Valid(c) THEN "folder" ELSE "failed")
    /\ UNCHANGED <<data, synced, entry, saved, folders, kept>>

MakeFolder(c) ==
    /\ Steps(c, "folder", "root")
    /\ folders' = folders \cup {Folder[Name[c]]}
    /\ UNCHANGED <<data, synced, entry, saved, kept>>

SyncedRoot == folders
SyncRoot(c) ==
    /\ Steps(c, "root", "create")
    /\ kept' = SyncedRoot
    /\ UNCHANGED <<data, synced, entry, saved, folders>>

-----------------------------------------------------------------------------
(* File.                                                                   *)

Create(c) ==
    /\ Steps(c, "create", "write")
    /\ entry' = [entry EXCEPT ![c] = c]
    /\ UNCHANGED <<data, synced, saved, folders, kept>>

\* The write callback may come up short without saying so.
Write(c) ==
    /\ Steps(c, "write", "verify")
    /\ \E d \in {"partial", "full"} : data' = [data EXCEPT ![c] = d]
    /\ UNCHANGED <<synced, entry, saved, folders, kept>>

\* verifyFile reads the staged bytes back.
Verified(c) == data[c] = "full" /\ Valid(c)
Verify(c) ==
    /\ Steps(c, "verify", IF Verified(c) THEN "sync" ELSE "cleanup")
    /\ UNCHANGED <<data, synced, entry, saved, folders, kept>>

Sync(c) == synced \cup {c}
SyncFile(c) ==
    /\ Steps(c, "sync", "link")
    /\ synced' = Sync(c)
    /\ UNCHANGED <<data, entry, saved, folders, kept>>

\* Link binds the name unless it is bound already.
Renamed(c) == [entry EXCEPT ![Name[c]] = c]
Linked(c) == IF entry[Name[c]] = Free THEN [entry EXCEPT ![Name[c]] = c]
                                      ELSE entry
Link(c) ==
    /\ Steps(c, "link", IF entry[Name[c]] = Free THEN "unstage" ELSE "compare")
    /\ entry' = Linked(c)
    /\ UNCHANGED <<data, synced, saved, folders, kept>>

\* An existing file must be regular and hold the same bytes.
Refused(c) == FALSE
SameBytes(c) == LET b == entry[Name[c]]
                IN data[b] = "full" /\ Content[b] = Content[c] /\ Valid(c)
Compare(c) ==
    /\ Steps(c, "compare", IF SameBytes(c) THEN "unstage" ELSE "reject")
    /\ UNCHANGED <<data, synced, entry, saved, folders, kept>>

\* The temporary name is removed,
Removed(c) == [entry EXCEPT ![c] = Free]
Unstage(c) ==
    /\ Steps(c, "unstage", "settle")
    /\ entry' = Removed(c)
    /\ UNCHANGED <<data, synced, saved, folders, kept>>

\* and the directory is synchronised before File reports success.
UnsyncedFolder(c) == saved
SyncedFolder(c) == [x \in Paths |-> IF FolderOf(x) = Folder[Name[c]]
                                    THEN entry[x] ELSE saved[x]]
SyncFolder(c) ==
    /\ Steps(c, "settle", "done")
    /\ saved' = SyncedFolder(c)
    /\ UNCHANGED <<data, synced, entry, folders, kept>>

-----------------------------------------------------------------------------
(* Failures.                                                               *)

\* A system call fails or the context is cancelled; a staged file is removed
\* if it can be. An existing file that cannot be opened, read or validated to
\* the end is reported like one that differs, whatever bytes it holds.
AfterFailure(s) == IF s \in {"folder", "root", "create", "settle"} THEN "failed"
                   ELSE IF s = "compare" THEN "unread"
                   ELSE "cleanup"
Fail(c) ==
    /\ pc[c] \in Running \ {"cleanup", "reject", "unread"}
    /\ pc' = [pc EXCEPT ![c] = AfterFailure(@)]
    /\ UNCHANGED <<data, synced, entry, saved, folders, kept>>

Cleanup(c) ==
    /\ \/ Steps(c, "cleanup", "failed")
       \/ Steps(c, "reject", "conflict")
       \/ Steps(c, "unread", "conflict")
    /\ entry' \in {entry, Removed(c)}
    /\ UNCHANGED <<data, synced, saved, folders, kept>>

Kill(c) ==
    /\ pc[c] \in Running
    /\ pc' = [pc EXCEPT ![c] = "dead"]
    /\ UNCHANGED <<data, synced, entry, saved, folders, kept>>

\* Every process dies. A directory entry or an object that was changed since
\* it was last synchronised comes back in its old or in its new state, or,
\* for an object, with arbitrary bytes.
Changed == {x \in Paths : entry[x] # saved[x]}
Unsynced == {c \in Calls \ synced : data[c] # "empty"}
PowerLoss ==
    \E lost \in SUBSET (folders \ kept), stale \in SUBSET Changed,
       torn \in SUBSET Unsynced :
        /\ pc' = [c \in Calls |-> IF pc[c] \in Running THEN "dead" ELSE pc[c]]
        /\ data' = [c \in Calls |-> IF c \in torn THEN "torn" ELSE data[c]]
        /\ entry' = [x \in Paths |->
                       IF FolderOf(x) \in lost THEN Free
                       ELSE IF x \in stale THEN saved[x] ELSE entry[x]]
        /\ saved' = entry'
        /\ folders' = folders \ lost
        /\ kept' = folders'
        /\ UNCHANGED synced

-----------------------------------------------------------------------------
\* The object a path has from the start.
Before(x) == IF \E c \in Given : Name[c] = x
             THEN CHOOSE c \in Given : Name[c] = x
             ELSE Free
Init ==
    /\ pc = [c \in Calls |-> IF c \in Given THEN "done" ELSE "start"]
    /\ data = [c \in Calls |-> IF c \in Given THEN "full" ELSE "empty"]
    /\ synced = Given
    /\ entry = [x \in Paths |-> Before(x)]
    /\ saved = entry
    /\ folders = {Folder[Name[c]] : c \in Given}
    /\ kept = folders

Call(c) ==
    \/ Validate(c) \/ MakeFolder(c) \/ SyncRoot(c)
    \/ Create(c) \/ Write(c) \/ Verify(c) \/ SyncFile(c)
    \/ Link(c) \/ Compare(c) \/ Unstage(c) \/ SyncFolder(c)
    \/ Fail(c) \/ Cleanup(c) \/ Kill(c)

Next == (\E c \in Calls : Call(c)) \/ PowerLoss

Spec == Init /\ [][Next]_vars
=============================================================================
