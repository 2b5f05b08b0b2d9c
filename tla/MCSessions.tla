------------------------------ MODULE MCSessions ------------------------------
(***************************************************************************)
(* Sessions on small instances: two clients that take turns at a           *)
(* descriptor, or one client that two threads and the reactor write to.    *)
(***************************************************************************)
EXTENDS Sessions

===============================================================================
