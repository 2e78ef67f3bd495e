SPECIFICATION FairSpec
CONSTANTS
  manual = manual  refill = refill  repair = repair
  Callers = {manual, refill, repair}
  Refill = refill
  Repair = repair
  Configs <- Loads
  MaxRuns = 2
  MaxWorkers = 2
  MaxStops = 1
  MaxFaults = 1
INVARIANTS OneRun WorkersCounted StateExplained
PROPERTIES StopEnds
CHECK_DEADLOCK FALSE
