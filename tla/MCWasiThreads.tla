--------------------------- MODULE MCWasiThreads ---------------------------
(***************************************************************************)
(* WasiThreads with two closures that may each be spawned more than once.  *)
(***************************************************************************)
EXTENDS WasiThreads

CONSTANTS a1, a2
=============================================================================
