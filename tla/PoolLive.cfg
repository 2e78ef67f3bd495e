SPECIFICATION FairSpec
CONSTANTS
  api = api  worker = worker  j1 = j1  j2 = j2  j3 = j3  k1 = k1
  a1 = a1  a2 = a2
  Accounts = {a1, a2}
  Procs = {api, worker}
  Jobs = {j1, j2, j3}
  Keepers = {k1}
  MaxTokens = 3
  Configs <- Watched
PROPERTIES EveryRequestEnds MarkedGoes
CHECK_DEADLOCK FALSE
