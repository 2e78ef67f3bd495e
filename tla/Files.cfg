SPECIFICATION Spec
CONSTANTS
  Procs = {api, worker}
  Entries = {e1, e2}
  Absent = Absent
  Torn = Torn
  None = None
  MaxCrashes = 1
  MaxErrors = 3
  MaxSlow = 1
SYMMETRY StoreSymmetry
CONSTRAINT UsurpedWithoutErrors
INVARIANTS MutualExclusion AckedStored ErrorsLeaveNothing
CHECK_DEADLOCK FALSE
