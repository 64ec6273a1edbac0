----------------------- MODULE PublicationProperties -----------------------
(***************************************************************************)
(* What immutable publication guarantees whatever races, kills and losses  *)
(* of power interrupt it.                                                  *)
(***************************************************************************)
EXTENDS Publication

\* Calls, objects and directories keep their types.
TypeOK ==
    /\ pc \in [Calls -> Running \cup Ended \cup {"start"}]
    /\ data \in [Calls -> {"empty", "partial", "full", "torn"}]
    /\ synced \subseteq Calls
    /\ entry \in [Paths -> Calls \cup {Free}]
    /\ saved \in [Paths -> Calls \cup {Free}]
    /\ folders \subseteq {Folder[n] : n \in Names}
    /\ kept \subseteq folders

\* A reader sees no file or a complete one (docs/bags.md, "A reader sees either
\* no final file or the complete staged file"), even after a loss of power.
NeverTorn ==
    \A n \in Names : entry[n] # Free =>
        data[entry[n]] = "full" /\ Name[entry[n]] = n

\* A call that reported success has its bytes at its name for good: on disk,
\* in a directory that is on disk, whoever created the file.
Survives ==
    \A c \in Calls : pc[c] = "done" =>
        /\ Folder[Name[c]] \in kept
        /\ saved[Name[c]] # Free /\ entry[Name[c]] = saved[Name[c]]
        /\ Content[saved[Name[c]]] = Content[c]

\* Whatever is in the exchange refers to files that are there too, also after
\* a loss of power (document.go, "Referenced files must already be durable").
Closed == \A n \in Names : entry[n] # Free => Valid(entry[n])

\* A call ends in a conflict only while a complete file holds its name, and a
\* comparison that reached its end refuses only other bytes: however the
\* predecessors of a call that repeats the same bytes ended (outbox.go, "repeats
\* the same immutable bytes"), it is refused only when its own comparison fails
\* (docs/contract.md, "Different or unreadable bytes produce a conflict").
SameBytesAgree ==
    \A c \in Calls : pc[c] \in {"reject", "unread"} =>
        /\ entry[Name[c]] # Free /\ data[entry[Name[c]]] = "full"
        /\ pc[c] = "reject" => Content[entry[Name[c]]] # Content[c]

\* No staged file of a successful call comes back with the next boot.
NothingStaged ==
    \A c \in Calls \ Given : pc[c] = "done" => entry[c] = Free /\ saved[c] = Free

\* Publication implements a write-once register per name: the value is the
\* content the name is bound to, acknowledged once a call has returned success.
Values == {Content[c] : c \in Calls}
Value == [n \in Names |->
            IF entry[n] = Free THEN Free
            ELSE IF data[entry[n]] = "full" THEN Content[entry[n]] ELSE "torn"]
Acknowledged == {n \in Names : \E c \in Calls : pc[c] = "done" /\ Name[c] = n}
Register == INSTANCE WriteOnce WITH value <- Value,
                                    acknowledged <- Acknowledged
ImplementsWriteOnce == Register!Spec

-----------------------------------------------------------------------------
(* The inductive invariant.                                                *)

\* Only complete, synchronised objects are bound to a name, and a name keeps
\* its object once the binding is on disk.
Bound ==
    /\ \A n \in Names : entry[n] # Free =>
         /\ entry[n] \in synced
         /\ data[entry[n]] = "full"
         /\ Name[entry[n]] = n
         /\ Folder[n] \in folders
    /\ \A n \in Names : saved[n] # Free =>
         /\ entry[n] = saved[n]
         /\ Folder[n] \in kept

\* What a call has achieved by the time it takes a step.
Progress ==
    \A c \in Calls :
        /\ pc[c] \in {"sync", "link"} => data[c] = "full"
        /\ pc[c] = "link" => c \in synced
        /\ pc[c] = "root" => Folder[Name[c]] \in folders
        /\ pc[c] \in {"create", "write", "verify", "sync", "link", "compare",
                      "unstage", "settle"} => Folder[Name[c]] \in kept
        /\ pc[c] \in {"compare", "unstage", "settle"} => entry[Name[c]] # Free
        /\ pc[c] \in {"unstage", "settle"} =>
             Content[entry[Name[c]]] = Content[c]
        /\ pc[c] = "settle" => entry[c] = Free
        /\ pc[c] \in {"start", "folder", "root", "create", "write", "verify",
                      "sync"} => c \notin synced

\* Every object a name is or may again be bound to has its references on disk.
Founded ==
    \A c \in Calls : pc[c] # "start" =>
        \A r \in Needs[c] : /\ saved[r.name] # Free
                            /\ Content[saved[r.name]] = r.content

PublicationInvariant ==
    TypeOK /\ Bound /\ Progress /\ Founded /\ Survives /\ NothingStaged
=============================================================================
