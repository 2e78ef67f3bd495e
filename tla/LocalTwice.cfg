SPECIFICATION Spec
CONSTANTS
  r1 = r1
  r2 = r2
  r3 = r3
  t1 = t1
  t2 = t2
  Requests = {r3}
  Tasks = {t2}
  Edits = {}
  TaskOf <- TaskOfShared
  Want <- WantTwo
  MaxFaults = 1
INVARIANT RefundedAtMostOnce
CHECK_DEADLOCK FALSE
