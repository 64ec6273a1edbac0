----------------------------- MODULE WriteOnce -----------------------------
(***************************************************************************)
(* What immutable publication promises its callers: a name takes one value *)
(* for good. Until somebody has been told that the value is published a    *)
(* loss of power may still take it back, never replace it.                 *)
(***************************************************************************)
CONSTANTS Names, Values, Free

VARIABLES value, acknowledged

Init == /\ value \in [Names -> Values \cup {Free}]
        /\ acknowledged = {n \in Names : value[n] # Free}

Publish(n, v) == /\ value[n] = Free
                 /\ value' = [value EXCEPT ![n] = v]
                 /\ UNCHANGED acknowledged

Acknowledge(n) == /\ value[n] # Free
                  /\ acknowledged' = acknowledged \cup {n}
                  /\ UNCHANGED value

Forget(lost) == /\ lost \cap acknowledged = {}
                /\ value' = [n \in Names |-> IF n \in lost THEN Free
                                                           ELSE value[n]]
                /\ UNCHANGED acknowledged

Next == \/ \E n \in Names, v \in Values : Publish(n, v)
        \/ \E n \in Names : Acknowledge(n)
        \/ \E lost \in SUBSET Names : Forget(lost)

Spec == Init /\ [][Next]_<<value, acknowledged>>
=============================================================================
