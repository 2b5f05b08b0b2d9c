----------------------------- MODULE MCDurability -----------------------------
(***************************************************************************)
(* Durability on small instances; every sync policy is an initial state,   *)
(* and the configurations choose the faults.                               *)
(***************************************************************************)
EXTENDS Durability

===============================================================================
