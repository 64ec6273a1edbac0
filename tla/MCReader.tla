------------------------------ MODULE MCReader ------------------------------
(***************************************************************************)
(* A job, the results of two attempts at it that claim one execution, their*)
(* events, which claim one sequence number, and a malformed event.         *)
(***************************************************************************)
EXTENDS ReaderProperties

CONSTANTS job, first, second, done, again, torn, r1, r2

MCDocs == {job, first, second, done, again, torn}
MCEvent == {done, again, torn}
MCResult == {first, second}

MCUses == [d \in Docs |->
    CASE d = done -> {job, first}
      [] d = again -> {job, second}
      [] d \in {first, second} -> {job}
      [] OTHER -> {}]

MCOwn == [d \in Docs |->
    CASE d \in {first, second} -> {"result"}
      [] d = done -> {"event 1", "sequence 1"}
      [] d = again -> {"event 2", "sequence 1"}
      [] d = job -> {"job"}
      [] OTHER -> {"event 3"}]

Anything == [c \in Commands |-> Roles]
Apart == [c \in Commands |-> IF c = r1 THEN {"sync", "given"} ELSE {"watch", "rebuild"}]
=============================================================================
