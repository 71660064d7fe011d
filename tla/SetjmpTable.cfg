\* Three slots hold as many calls as are made.  One slot is full after the
\* first call: the second grows the table and, when the new memory has no free
\* slot in it, grows it again.  Garbage may look like ids that were given out.
CONSTANTS
  e1 = e1  e2 = e2
  Envs = {e1, e2}
  Labels = {1, 2}
  InitialSizes = {1, 3}
  MaxSaves = 3
  MaxSize = 4
  MaxId = 2
SPECIFICATION Spec
SYMMETRY EnvSymmetry
INVARIANTS
  SavedIsFoundUntilGrowth
  SizeWithinTable
\* The activation returns after its last call.
CHECK_DEADLOCK FALSE
