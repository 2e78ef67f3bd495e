SPECIFICATION FairSpec
CONSTANTS
  a = a  b = b  t1 = t1  t2 = t2  alice = alice
  s1 = s1  s2 = s2  p1 = p1  p2 = p2
  Requests = {a, b}
  TaskIds = {t1, t2}
  TaskOf <- TaskEach
  Slots = {s1}
  NoSlot = NoSlot
  Owners = {alice}
  OwnerOf <- OneOwner
  Quota <- QuotaThree
  Want <- WantMixed
  Edits = {a}
  Procs = {p1}
  ProcOf <- AllInOne
  NoTask = NoTask
  StorageLimited = FALSE
  MaxFaults = 1
PROPERTIES
  EverySettled InputsReclaimed
  RefundOnlyWhenEnded
INVARIANTS NeverOverRefunded NeverOverCharged
