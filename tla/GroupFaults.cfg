SPECIFICATION Spec
CONSTANTS
  W1 = w1
  W2 = w2
  Crashes = 1
  Fails = 2
  Errors = 1
  Reprocesses = 1
  MaxId = 2
  BatchSize = 1
  MaxRetries = 2
  MaxStreamLength = 1
  MaxDeliveries = 2
  Nobody = nobody
  NotPending = notpending
  Consumers <- MCConsumers
  Limit <- MCLimit
SYMMETRY Symmetric
INVARIANTS TypeOK NothingLost RunsAreCounted PendingBounded
PROPERTY IsQueue
