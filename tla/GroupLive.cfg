SPECIFICATION FairSpec
CONSTANTS
  W1 = w1
  W2 = w2
  Crashes = 1
  Fails = 1
  Errors = 0
  Reprocesses = 0
  MaxId = 2
  BatchSize = 2
  MaxRetries = 2
  MaxStreamLength = 3
  MaxDeliveries = 2
  Nobody = nobody
  NotPending = notpending
  Consumers <- MCConsumers
  Limit <- MCLimit
PROPERTY EventuallySettled
