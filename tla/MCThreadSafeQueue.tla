------------------------- MODULE MCThreadSafeQueue -------------------------
(***************************************************************************)
(* The queue on a small instance: two producers that fill it beyond its    *)
(* capacity, two consumers, a closer.  No symmetry, since liveness is      *)
(* checked.                                                                *)
(***************************************************************************)
EXTENDS ThreadSafeQueue

=============================================================================
