SPECIFICATION FairSpec
CONSTANTS
  c1 = c1
  c2 = c2
  i1 = i1
  i2 = i2
  p1 = p1
  p2 = p2
  none = none
  Companies = {c1, c2}
  Planned = {c1}
  InvoiceIds = {i1, i2}
  NoInvoice = none
  CreditIds = {1, 2}
  Callers = {p1, p2}
  Amounts = {1, 3}
  Totals = {2}
  Taxes = {0, 1}
  ExpiryDates = {0, 2}
  MaxTime = 1
  Limit <- Windowed
INVARIANTS TransactionsExplained NeverOverApplied FundedOnce
PROPERTIES ExpiredIsFinal PrepaymentArrives
CHECK_DEADLOCK FALSE
