SPECIFICATION Spec
CONSTANTS
  a = a  b = b  t1 = t1  t2 = t2  alice = alice  p1 = p1  p2 = p2
  s1 = s1  s2 = s2  s3 = s3  s4 = s4  s5 = s5
  NoSlot = NoSlot  NoTask = NoTask
INVARIANTS Settlement Files Counters
PROPERTIES ContractSteps
SYMMETRY SlotSymmetry
