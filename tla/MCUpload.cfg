SPECIFICATION Spec
CONSTANTS
  r1 = r1
  r2 = r2
  Requests = {r1, r2}
  Limit = 2
  MaxFaults = 2
  MaxLate = 1
  MaxCrashes = 1
SYMMETRY Symmetry
INVARIANTS
  TaskHasFile
  AnsweredIsStored
  OrphanHasCause
