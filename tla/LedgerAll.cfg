SPECIFICATION Spec
CONSTANTS
  c1 = c1
  c2 = c2
  i1 = i1
  i2 = i2
  p1 = p1
  p2 = p2
  none = none
  Companies = {c1, c2}
  Planned = {c1, c2}
  InvoiceIds = {i1, i2}
  NoInvoice = none
  CreditIds = {1, 2}
  Callers = {p1}
  Amounts = {2}
  Totals <- SmallTotals
  Taxes = {0}
  ExpiryDates = {0, 2}
  MaxTime = 1
  Limit <- Everything
INVARIANTS TypeOK BalanceExplained ExpiredIsEmpty NeverOverApplied
CHECK_DEADLOCK FALSE
SYMMETRY Symmetric
