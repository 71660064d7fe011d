--------------------------- MODULE MCSetjmpTable ---------------------------
(***************************************************************************)
(* SetjmpTable with small tables; see the configurations.                  *)
(***************************************************************************)
EXTENDS SetjmpTable, TLC

CONSTANTS e1, e2

EnvSymmetry == Permutations(Envs)
=============================================================================
