SPECIFICATION FairSpec
CONSTANTS
  W1 = w1
  W2 = w2
  E1 = e1
  F1 = f1
  F2 = f2
  F3 = f3
  None = none
  Crashes = 1
  Errors = 1
  Drops = 1
  MaxRuns = 2
  Workers <- MCWorkers
  Events <- MCEvents
  Workflows <- MCWorkflows
  Attached <- MCAttached
  FirstStop <- MCFirstStop
  Limit <- MCLimit
INVARIANTS TypeOK NoStartLost HalfStarted
PROPERTY EventuallyStarted
CHECK_DEADLOCK FALSE
