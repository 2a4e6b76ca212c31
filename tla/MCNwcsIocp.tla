---------------------------- MODULE MCNwcsIocp -----------------------------
(* What a heap may leave in a new connection's pending_ops: nothing, or a
   value on either side that the few operations of a run do not cancel. *)
EXTENDS NwcsIocp

HeapLeaves == {-9, 0, 9}
=============================================================================
