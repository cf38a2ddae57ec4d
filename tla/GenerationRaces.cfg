SPECIFICATION Spec
CONSTANTS
  e1 = e1
  g1 = g1
  g2 = g2
  job = job
  short = short
  long = long
  Frequencies = {short}
  DefaultFrequency = short
  Creators = {job}
  StartOfCycle <- MCStartOfCycle
  NextCycleDate <- MCNextCycleDate
  MaxTime = 2
  MaxCycles = 1
  Entries = {e1}
  EntryTimes = {0}
  Decisions = {"DRAFT", "APPROVED"}
  Generators = {g1, g2}
  OtherCharges = {FALSE}
  ZeroDollar = "normal"
  MaxInvoices = 2
INVARIANT DuplicateOnlyIfRaced
SYMMETRY Symmetric
CHECK_DEADLOCK FALSE
