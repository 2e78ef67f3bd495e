SPECIFICATION Spec
CONSTANTS
  r1 = r1  r2 = r2
  Requests = {r1, r2}
  OwnerOf <- TwoOwners
  Count <- TwoThenOne
  Old <- StoredBefore
  Aged = {1, 2}
  Limit = 2
  MaxEvents = 3
INVARIANTS BatchStaysWhole UserImagesKept LimitHolds RecordsMatchFiles
CHECK_DEADLOCK FALSE
