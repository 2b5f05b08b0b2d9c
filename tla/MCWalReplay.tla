------------------------------ MODULE MCWalReplay ------------------------------
(***************************************************************************)
(* WalReplay on small instances; order ids and accounts are                *)
(* interchangeable.                                                        *)
(***************************************************************************)
EXTENDS WalReplay, TLC

Symmetry == Permutations(Ids) \cup Permutations(Accounts)

===============================================================================
