SPECIFICATION FairSpec
CONSTANTS
  W1 = w1
  W2 = w2
  E1 = e1
  F1 = f1
  F2 = f2
  F3 = f3
  None = none
  Crashes = 0
  Errors = 0
  Drops = 0
  MaxRuns = 1
  Workers <- MCWorkers
  Events <- MCEvents
  Workflows <- MCWorkflows
  Attached <- MCAttached
  FirstStop <- MCFirstStop
  Limit <- MCLimit
PROPERTY WaitIsAnswered
CHECK_DEADLOCK FALSE
