--------------------------- MODULE MCWasmRuntime ---------------------------
(***************************************************************************)
(* WasmRuntime with one scheduler worker and tasks for the blocking pool.  *)
(***************************************************************************)
EXTENDS WasmRuntime

CONSTANTS t1, t2, t3, k1, k2, k3

\* The regular course, threads that cannot be created, and nested spawns with
\* workers that fail.
RegularOrNot == {{}, {"create_fails"}, {"nested", "worker_fails"}}

Nested == {{"nested"}}
=============================================================================
