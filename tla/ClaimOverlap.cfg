SPECIFICATION Spec
CONSTANTS
  e1 = e1
  g1 = g1
  g2 = g2
  job = job
  short = short
  long = long
  Frequencies = {short, long}
  DefaultFrequency = long
  Creators = {job}
  StartOfCycle <- MCStartOfCycle
  NextCycleDate <- MCNextCycleDate
  MaxTime = 5
  MaxCycles = 2
  Entries = {}
  EntryTimes = {2}
  Decisions = {"DRAFT"}
  Generators = {g1}
  OtherCharges = {TRUE}
  ZeroDollar = "normal"
  MaxInvoices = 2
INVARIANT ActiveCyclesDisjoint
CHECK_DEADLOCK FALSE
