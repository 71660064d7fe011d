--------------------------- MODULE MCBlockingPool ---------------------------
(***************************************************************************)
(* BlockingPool on small instances.  The threads are interchangeable, but  *)
(* no symmetry is declared: the runs check liveness too.                   *)
(***************************************************************************)
EXTENDS BlockingPool

CONSTANTS t1, t2, t3, k1, k2, k3
=============================================================================
