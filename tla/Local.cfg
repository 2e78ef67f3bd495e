SPECIFICATION FairSpec
CONSTANTS
  r1 = r1
  r2 = r2
  r3 = r3
  t1 = t1
  t2 = t2
  Requests = {r1, r2}
  Tasks = {t1}
  Edits = {r2}
  TaskOf <- TaskOfShared
  Want <- WantTwo
  MaxFaults = 2
INVARIANTS RowsMatch
PROPERTIES ContractSpec EveryTaskEnds
CHECK_DEADLOCK FALSE
