----------------------------- MODULE MCUpgrade -----------------------------
(***************************************************************************)
(* Instances of Upgrade for TLC: databases with a valid row and one that   *)
(* cannot be read, or with the valid row only.                             *)
(***************************************************************************)
EXTENDS UpgradeProperties, TLC

CONSTANTS run, torn, o1, o2, o3

MCJob == [d \in Docs |-> [priority |-> IF d = run THEN 3 ELSE 1, template |-> 1]]
=============================================================================
