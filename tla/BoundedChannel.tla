---------------------------- MODULE BoundedChannel ----------------------------
(***************************************************************************)
(* What ThreadSafeQueue promises its callers: a FIFO channel of bounded    *)
(* length whose operations are atomic.  Pipeline is built on it.           *)
(***************************************************************************)
EXTENDS Naturals, Sequences

CONSTANTS Values, Bound

VARIABLES items, closed, accepted, delivered

vars == <<items, closed, accepted, delivered>>

Init == items = <<>> /\ closed = FALSE /\ accepted = <<>> /\ delivered = <<>>

Put(v) ==
  /\ ~closed /\ Len(items) < Bound
  /\ items' = Append(items, v)
  /\ accepted' = Append(accepted, v)
  /\ UNCHANGED <<closed, delivered>>

Get ==
  /\ items # <<>>
  /\ items' = Tail(items)
  /\ delivered' = Append(delivered, Head(items))
  /\ UNCHANGED <<closed, accepted>>

CloseChannel == closed' = TRUE /\ UNCHANGED <<items, accepted, delivered>>

Next == (\E v \in Values : Put(v)) \/ Get \/ CloseChannel

Spec == Init /\ [][Next]_vars

===============================================================================
