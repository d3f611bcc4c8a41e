------------------------- MODULE MCVirtualUserPool -------------------------
(* Model checking of VirtualUserPool on its own; MCTimedDispatch and       *)
(* MCVirtualUser check it with a clock and with scripts.                   *)
EXTENDS VirtualUserPool
=============================================================================
