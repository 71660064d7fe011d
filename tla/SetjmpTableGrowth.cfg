\* One call more than the first table has slots.
CONSTANTS
  e1 = e1  e2 = e2
  Envs = {e1, e2}
  Labels = {1, 2}
  InitialSizes = {1}
  MaxSaves = 2
  MaxSize = 4
  MaxId = 1
SPECIFICATION Spec
INVARIANT SavedIsFound
CHECK_DEADLOCK FALSE
