SPECIFICATION ReconciliationSpec
CONSTANTS
  c1 = c1
  i1 = i1
  p1 = p1
  u1 = u1
  u2 = u2
  none = none
  Companies = {c1}
  Planned = {c1}
  InvoiceIds = {i1}
  NoInvoice = none
  CreditIds = {1, 2}
  Callers = {p1}
  Amounts = {2}
  Totals = {3}
  Taxes = {0}
  ExpiryDates = {0}
  MaxTime = 1
  Limit <- Quiet
  Clerks = {u1, u2}
  Legacy <- OldCredit
  Adjustments = {}
  MaxReports = 2
INVARIANTS ReportsTypeOK CorrectedOncePerClerk NeverOverApplied
CHECK_DEADLOCK FALSE
SYMMETRY Symmetric
