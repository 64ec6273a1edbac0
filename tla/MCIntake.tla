------------------------------ MODULE MCIntake ------------------------------
(***************************************************************************)
(* An instance of Dispatch for TLC: the documents of MCQueue compete for   *)
(* one worker of each stage.                                               *)
(***************************************************************************)
EXTENDS MCQueue, Dispatch
=============================================================================
