------------------------- MODULE ReaderProperties -------------------------
(***************************************************************************)
(* What the index of examples/reader guarantees, whatever is published and *)
(* however its commands interleave or end.                                 *)
(***************************************************************************)
EXTENDS Reader

\* The values the tables and the commands range over (indexSchema, run).
TypeOK ==
    /\ files \subseteq Docs
    /\ identities \in [Identities -> Docs \cup {Free}]
    /\ seen \subseteq Event /\ results \subseteq Result
    /\ at \in [Commands -> {"stopped", "waiting", "scan", "commit", "bad", "rebuild"}]
    /\ role \in [Commands -> Roles]
    /\ paths \in [Commands -> SUBSET Docs] /\ todo \in [Commands -> SUBSET Docs]
    /\ reading \in [Commands -> Docs \cup {Free}]
    /\ \A c \in Commands :
         /\ todo[c] \subseteq paths[c]
         /\ reading[c] # Free <=> at[c] \in {"commit", "bad"}
    /\ failed \in [Commands -> BOOLEAN]
    /\ faults \in 0..MaxFaults

\* An identity stands for one document for ever (remember): every event counted
\* as processed and every indexed result still rests, through all of its
\* references, on valid published documents that own their identities. So of
\* two events or two results that claim one identity at most one is accepted,
\* by whichever commands read them.
Remembered ==
    \A d \in seen \cup results : \A a \in Graph(d) :
        /\ a \in files \ Malformed
        /\ \A i \in Own[a] : identities[i] = a

\* A bad event does not hide the others of its scan (sync): of the events the
\* directory listed, each one dealt with is accepted or the scan will report a
\* failure, and without a fault of the database only because the event cannot
\* be read or contradicts the index.
ScanComplete ==
    \A c \in Commands : at[c] = "scan" /\ role[c] # "given" =>
        \A e \in paths[c] \ todo[c] :
            \/ e \in seen
            \/ failed[c] /\ (faults = 0 => ~(Readable(e) /\ Agrees(e)))

\* An index loses a result only to a rebuild that did not see it published
\* (saveResult, "do nothing"; rebuild, one transaction): neither a bad document
\* nor a failing or competing command leaves a gap behind.
IndexKept ==
    [][\A r \in results \ results' : \E c \in Commands :
          at[c] = "rebuild" /\ at'[c] = "stopped" /\ r \notin paths[c]]_vars

\* Progress and the result index belong together (consume, rebuild): the result
\* of every processed event can be found in the index.
SeenIndexed == \A e \in seen : Uses[e] \cap Result \subseteq results

\* A watch that is running accepts every event that is published, though
\* nothing but its own scans tells it of one, unless it stops: killed or out of
\* time, or because an event is bad.
CaughtUp ==
    \A c \in Commands, e \in Event :
        (e \in files /\ at[c] # "stopped" /\ role[c] = "watch") ~>
            \/ e \in seen
            \/ /\ at[c] = "stopped"
               /\ faults > 0 \/ \E b \in Event \cap files : ~(Readable(b) /\ Agrees(b))
=============================================================================
