SPECIFICATION QuotaSpec
CONSTANTS
  Requests = {r1, r2, r3}
  Amount <- AmountSmall
  Limits = {0, 2}
  DaysPerMonth = 2
  MaxDay = 2
  MaxEdit = 2
INVARIANTS CountersCover CountersFair
PROPERTY ChargeWithinQuota
CHECK_DEADLOCK FALSE
