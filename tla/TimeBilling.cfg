SPECIFICATION Spec
CONSTANTS
  e1 = e1
  g1 = g1
  g2 = g2
  job = job
  short = short
  long = long
  Frequencies = {short}
  DefaultFrequency = short
  Creators = {job}
  StartOfCycle <- MCStartOfCycle
  NextCycleDate <- MCNextCycleDate
  MaxTime = 3
  MaxCycles = 2
  Entries = {e1}
  EntryTimes = {0, 2}
  Decisions = {"DRAFT"}
  Generators = {g1}
  OtherCharges = {TRUE}
  ZeroDollar = "normal"
  MaxInvoices = 2
INVARIANTS TypeOK ActiveCyclesDisjoint BilledByOneCycle
CHECK_DEADLOCK FALSE
