SPECIFICATION FairSpec
CONSTANTS
  C1 = c1
  C2 = c2
  C3 = c3
  Free = free
  Ttl = 2
  WaitTime = 2
  MaxHold = 3
  Callers <- MCCallers
  Owner <- MCOwner
INVARIANTS TypeOK Exclusive
PROPERTIES ReleaseIsOwn KeyGoes WaitEnds
