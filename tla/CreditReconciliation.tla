-------------------------- MODULE CreditReconciliation --------------------------
(***************************************************************************)
(* Reconciliation over the credit ledger.  A validation compares a          *)
(* company's balance with its transactions, and its tracking rows with      *)
(* theirs, and writes reports; a user resolves a report by a correction, by *)
(* a fix or by doing nothing.  The ledger goes on meanwhile: every step of  *)
(* CreditLedger is a step here.                                             *)
(*                                                                         *)
(* A tracking row has the id of the transaction it belongs to, except for   *)
(* a further row made for a transaction that already has one (twin).        *)
(*                                                                         *)
(* An operator marked "Variant" is wrong on purpose: a run with it in the   *)
(* place of the definition that follows must find a property violated.      *)
(***************************************************************************)
EXTENDS CreditLedger, Sequences

CONSTANTS
  Clerks,      \* users who resolve reports
  Legacy,      \* credits issued before there were tracking rows
  Adjustments, \* amounts of custom adjustments
  MaxReports   \* bounds the number of reports

ASSUME ReconciliationAssumption ==
  /\ IsFiniteSet(Clerks)
  /\ DOMAIN Legacy = 1 .. Cardinality(DOMAIN Legacy)
  /\ DOMAIN Legacy \subseteq CreditIds
  /\ Legacy \in [DOMAIN Legacy -> [company : Companies, amount : Nat \ {0}]]
  /\ Adjustments \subseteq Int
  /\ MaxReports \in Nat

VARIABLES
  report,     \* credit_reconciliation_reports, in order of creation
  checking,   \* companies whose balance is validated, their rows not yet
  clerk,      \* the report a user's call has read, and what it will do
  twin        \* further rows: the id of the row's transaction

ledger == vars
allvars == <<vars, report, checking, clerk, twin>>

-----------------------------------------------------------------------------
(* Types *)

Fixes == {"resolve", "adjust", "create", "update", "nothing"}

\* credit: the transaction (missing) or the row (inconsistent) it is about.
\* corrected is history: how often the report has been acted upon.
Report ==
  [company : Companies, issue : {"balance", "missing", "inconsistent"},
   credit : CreditIds \cup {0}, expected : Int, difference : Int,
   open : BOOLEAN, corrected : Nat]

ReportsTypeOK ==
  /\ report \in Seq(Report) /\ Len(report) <= MaxReports
  /\ \A r \in DOMAIN report : report[r].open <=> report[r].corrected = 0
  /\ checking \subseteq Companies
  /\ \A p \in Clerks :
       clerk[p] = Idle \/ /\ clerk[p].fix \in Fixes
                          /\ clerk[p].report \in DOMAIN report
  /\ DOMAIN twin \subseteq CreditIds \ DOMAIN Legacy
  /\ \A e \in DOMAIN twin : twin[e] \in DOMAIN Legacy

-----------------------------------------------------------------------------
(* Helpers *)

TxOf(e)   == IF e \in DOMAIN twin THEN twin[e] ELSE e
RowsOf(t) == {e \in DOMAIN credit : TxOf(e) = t}

\* The credit_application transactions that name a row's transaction.
Applied(e) == SumFunction([f \in RowsOf(TxOf(e)) |-> credit[f].used])

\* The orders in which the database may return what a query selects.
Orders(S) == {s \in [1 .. Cardinality(S) -> S] : IsInjective(s)}

NewReport(c, issue, e, expected, actual) ==
  [company |-> c, issue |-> issue, credit |-> e, expected |-> expected,
   difference |-> expected - actual, open |-> TRUE, corrected |-> 0]

LegacySum(c) == SumFunction([t \in {u \in DOMAIN Legacy : Legacy[u].company = c}
                               |-> Legacy[t].amount])

ReconciliationInit ==
  /\ now = 0
  /\ balance = [c \in Companies |-> LegacySum(c)]
  /\ invoice = [i \in {} |-> 0]
  /\ credit = [e \in {} |-> 0]
  /\ issued = Cardinality(DOMAIN Legacy)
  /\ txSum = [c \in Companies |-> LegacySum(c)]
  /\ job = [p \in Callers |-> Idle]
  /\ moved = [i \in {} |-> 0]
  /\ spent = [kind \in Rare |-> 0]
  /\ report = <<>>
  /\ checking = {}
  /\ clerk = [p \in Clerks |-> Idle]
  /\ twin = <<>>

-----------------------------------------------------------------------------
(* Validation: first the balance, in one transaction, then the rows *)

\* tx.expiration_date < now compares a Date with a string, as numbers: the
\* string is NaN and the result false, whatever the date.
Passed(expires) == FALSE

Overdue(c) ==
  {e \in CreditsOf(c) : /\ credit[e].kind \in {"prepayment", "negative"}
                        /\ Passed(credit[e].expires)}

\* An overdue issuance is left out of the sum; without a credit_expiration it
\* is given one, of its full amount, which is in the sum, and its row emptied.
ValidateCreditBalanceWithoutCorrection(c) ==
  /\ c \notin checking /\ checking' = checking \cup {c}
  /\ LET unrecorded == {e \in Overdue(c) : ~credit[e].expirationTx}
         expected == txSum[c] - AmountIn(Overdue(c)) - AmountIn(unrecorded)
     IN /\ txSum' = [txSum EXCEPT ![c] = @ - AmountIn(unrecorded)]
        /\ credit' = [e \in DOMAIN credit |->
                        IF e \in unrecorded THEN Emptied(credit[e]) ELSE credit[e]]
        /\ report' = IF expected = balance[c] THEN report
                     ELSE Append(report, NewReport(c, "balance", 0, expected, balance[c]))
  /\ Len(report') <= MaxReports
  /\ UNCHANGED <<now, balance, invoice, issued, job, moved, spent, clerk, twin>>

Missing(c) ==
  {t \in DOMAIN Legacy : Legacy[t].company = c /\ RowsOf(t) = {}}

Expected(e) == credit[e].amount - Applied(e)

Inconsistent(c) ==
  {e \in CreditIds : /\ e \in CreditsOf(c) /\ ~credit[e].expired
                     /\ credit[e].expires > now
                     /\ credit[e].remaining # Expected(e)}

ValidateAllCreditTracking(c) ==
  /\ c \in checking /\ checking' = checking \ {c}
  /\ \E absent \in Orders({NewReport(c, "missing", t, 0, 0) : t \in Missing(c)}),
        wrong \in Orders({NewReport(c, "inconsistent", e, Expected(e), credit[e].remaining)
                           : e \in Inconsistent(c)}) :
       report' = report \o absent \o wrong
  /\ Len(report') <= MaxReports
  /\ UNCHANGED <<ledger, clerk, twin>>

-----------------------------------------------------------------------------
(* Resolution: the report is read on another connection than the one of the  *)
(* transaction that acts on it.                                              *)

\* Variant: the status of the report is not looked at.
MayResolveAny(r) == r \in DOMAIN report

MayResolve(r) == r \in DOMAIN report /\ report[r].open

Fits(fix, r) ==
  /\ fix = "create" => report[r].issue = "missing"
  /\ fix = "update" => report[r].issue = "inconsistent"

\* The fixes of rows read the report twice, the second time with the row
\* written: this is the last reading.  An updated row is locked.
ReadReport(p, r, fix, amount) ==
  /\ clerk[p] = Idle /\ MayResolve(r) /\ Fits(fix, r)
  /\ fix = "update" =>
       \A q \in Clerks : clerk[q] # Idle /\ clerk[q].fix = "update" =>
         report[clerk[q].report].credit # report[r].credit
  /\ fix # "adjust" => amount = 0
  /\ clerk' = [clerk EXCEPT ![p] = [report |-> r, fix |-> fix, amount |-> amount]]
  /\ UNCHANGED <<ledger, report, checking, twin>>

Acts(p, fix) == clerk[p] # Idle /\ clerk[p].fix = fix
Chosen(p)    == report[clerk[p].report]

\* Variant: the report stays as it is.
CloseUnmarked(p) ==
  /\ report' = [report EXCEPT ![clerk[p].report].corrected = @ + 1]
  /\ clerk' = [clerk EXCEPT ![p] = Idle]

Close(p) ==
  /\ report' = [report EXCEPT ![clerk[p].report].open = FALSE,
                              ![clerk[p].report].corrected = @ + 1]
  /\ clerk' = [clerk EXCEPT ![p] = Idle]

\* resolveReconciliationReport, for a report of any kind.
ApplyCorrection(p) ==
  /\ balance' = [balance EXCEPT ![Chosen(p).company] = Chosen(p).expected]
  /\ txSum' = [txSum EXCEPT ![Chosen(p).company] = @ + Chosen(p).difference]
  /\ Close(p)

ResolveReconciliationReport(p) ==
  /\ Acts(p, "resolve") /\ ApplyCorrection(p)
  /\ UNCHANGED <<now, invoice, credit, issued, job, moved, spent, checking, twin>>

\* The new row has no expiration date.  That the transaction may have got a
\* row since is not looked at.
CreateMissingCreditTrackingEntry(p) ==
  /\ Acts(p, "create")
  /\ LET t == Chosen(p).credit
         first == t \notin DOMAIN credit
         id == IF first THEN t ELSE issued + 1
     IN /\ id \in CreditIds
        /\ credit' = Put(credit, id, NewCredit(Legacy[t].company, "prepayment",
                                               NoInvoice, Legacy[t].amount, Never))
        /\ issued' = IF first THEN issued ELSE id
        /\ twin' = IF first THEN twin ELSE Put(twin, id, t)
  /\ ApplyCorrection(p)
  /\ UNCHANGED <<now, invoice, job, moved, spent, checking>>

\* A row that is gone since is an error: the report stays open.
UpdateCreditTrackingRemainingAmount(p) ==
  /\ Acts(p, "update")
  /\ LET e == Chosen(p).credit IN
       IF e \in DOMAIN credit
       THEN /\ credit' = [credit EXCEPT ![e].remaining = Chosen(p).expected]
            /\ ApplyCorrection(p)
       ELSE /\ clerk' = [clerk EXCEPT ![p] = Idle]
            /\ UNCHANGED <<credit, balance, txSum, report>>
  /\ UNCHANGED <<now, invoice, issued, job, moved, spent, checking, twin>>

ApplyCustomCreditAdjustment(p) ==
  /\ Acts(p, "adjust")
  /\ balance' = [balance EXCEPT ![Chosen(p).company] = @ + clerk[p].amount]
  /\ txSum' = [txSum EXCEPT ![Chosen(p).company] = @ + clerk[p].amount]
  /\ Close(p)
  /\ UNCHANGED <<now, invoice, credit, issued, job, moved, spent, checking, twin>>

MarkReportAsResolvedNoAction(p) ==
  /\ Acts(p, "nothing") /\ Close(p)
  /\ UNCHANGED <<ledger, checking, twin>>

-----------------------------------------------------------------------------
\* The ledger goes on.  Not covered: the expiration job finds a lapsed row
\* whose twin has been expired (it would pass over it).
LedgerStep ==
  /\ ~ \E e \in Lapsed(Companies), f \in DOMAIN credit :
         e # f /\ TxOf(e) = TxOf(f) /\ credit[f].expired
  /\ Next
  /\ UNCHANGED <<report, checking, clerk, twin>>

Validating ==
  \E c \in Companies : \/ ValidateCreditBalanceWithoutCorrection(c)
                       \/ ValidateAllCreditTracking(c)

\* An adjustment is by default of the difference.
Reading ==
  \E p \in Clerks, r \in DOMAIN report, fix \in Fixes :
    \E amount \in Adjustments \cup {0, report[r].difference} :
      ReadReport(p, r, fix, amount)

Correcting ==
  \E p \in Clerks :
    \/ ResolveReconciliationReport(p)
    \/ CreateMissingCreditTrackingEntry(p)
    \/ UpdateCreditTrackingRemainingAmount(p)
    \/ ApplyCustomCreditAdjustment(p)
    \/ MarkReportAsResolvedNoAction(p)

ReconciliationNext == LedgerStep \/ Validating \/ Reading \/ Correcting

ReconciliationSpec == ReconciliationInit /\ [][ReconciliationNext]_allvars

-----------------------------------------------------------------------------
(* Properties *)

\* A report is acted upon once by a user at most, and only by those who had
\* read it while it was open: n users at once correct it n times, no more.
CorrectedOncePerClerk ==
  \A r \in DOMAIN report :
    report[r].corrected
      + Cardinality({p \in Clerks : clerk[p] # Idle /\ clerk[p].report = r})
        <= Cardinality(Clerks)

=============================================================================
