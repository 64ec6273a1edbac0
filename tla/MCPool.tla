------------------------------- MODULE MCPool -------------------------------
(***************************************************************************)
(* An instance of Pool for TLC: one process serves both stages, another    *)
(* only one of them.                                                       *)
(***************************************************************************)
EXTENDS PoolProperties, MCQueue

CONSTANTS whole, part

MCMembers == whole :> {s1, a1} @@ part :> {a2}
MCFlusher == whole :> p1 @@ part :> p2
=============================================================================
