------------------------------ MODULE CreditLedger ------------------------------
(***************************************************************************)
(* Company credit: prepayments and negative invoices issue it, finalizing  *)
(* an invoice (or an administrator) applies it, a daily job expires it,    *)
(* administrators transfer it, expire it and move its expiration date.     *)
(*                                                                         *)
(* One action is one database transaction (or one statement outside of     *)
(* any), and the transactions are serial here: what READ COMMITTED lets    *)
(* two of them do to each other is outside this model.  Finalizing an      *)
(* invoice is several transactions with a process in between, so each of   *)
(* its stages is an action and "job" remembers what the process read.      *)
(*                                                                         *)
(* The transactions table is kept as what the code reads from it: its sum  *)
(* per company (txSum) and, in each tracking row, the sum of the credit    *)
(* applications that name the row's transaction (used) and whether a       *)
(* credit_expiration transaction names it (expirationTx).                  *)
(*                                                                         *)
(* An operator marked "Variant" is wrong on purpose: a run with it in the  *)
(* place of the definition that follows must find a property violated.     *)
(***************************************************************************)
EXTENDS Integers, FiniteSets, Functions

CONSTANTS
  Companies,      \* companies of one tenant
  Planned,        \* those with a row in company_billing_plans
  InvoiceIds,
  NoInvoice,      \* the invoice_id of a transfer transaction
  CreditIds,      \* ids of credit_tracking rows, 1..n, in order of created_at
  Callers,        \* server processes that run finalizeInvoice
  Amounts,        \* amounts of prepayments, transfers and UI requests, in cents
  Totals,         \* subtotals of generated and of edited invoices, in cents
  Taxes,          \* taxes of generated and of edited invoices
  ExpiryDates,    \* dates credits are given
  MaxTime,        \* the last tick of the clock
  Limit           \* how often each of the Rare operations may happen

Rare  == {"unfinalize", "edit", "crash", "delete", "window"}
Never == MaxTime + 1     \* expiration_date IS NULL: sorts last, never passes
Dates == 0 .. Never

ASSUME LedgerAssumption ==
  /\ Planned \subseteq Companies
  /\ NoInvoice \notin InvoiceIds
  /\ IsFiniteSet(CreditIds) /\ CreditIds \subseteq Nat \ {0}
  /\ Amounts \subseteq Nat \ {0}
  /\ Totals \subseteq Int /\ Taxes \subseteq Nat
  /\ MaxTime \in Nat
  /\ ExpiryDates \subseteq Dates
  /\ Limit \in [Rare -> Nat]

VARIABLES
  now,       \* the clock that expiration dates are compared with
  balance,   \* companies.credit_balance
  invoice,   \* invoices: a function on the ids of the rows that exist
  credit,    \* credit_tracking: a function on the ids of the rows that exist
  issued,    \* the last credit id given
  txSum,     \* sum of a company's transactions of the six credit types
  job,       \* what a process in the middle of finalizeInvoice holds
  moved,     \* history, for each invoice id ever given (ids are never given
             \* twice): its company and what updateCompanyCredit added to the
             \* balance for it with no tracking row changed along with it
  spent      \* how often each Rare operation has happened

vars == <<now, balance, invoice, credit, issued, txSum, job, moved, spent>>

-----------------------------------------------------------------------------
(* Types *)

\* cycle: billing_cycle_id is set; a prepayment has none, a manual invoice
\* has none either.  filled: the items and the totals have been written.
\* applied is credit_applied, allocated the sum of its credit_allocations.
\* History: offered is the loosest total that a page still open may show,
\* rewritten says that the totals have been written again after the row.
Invoice ==
  [company : Companies, kind : {"prepayment", "manual", "cycle"},
   subtotal : Int, tax : Nat, total : Int, applied : Nat, allocated : Nat,
   finalized : BOOLEAN, filled : BOOLEAN, offered : Int,
   rewritten : BOOLEAN]

Credit ==
  [company : Companies, kind : {"prepayment", "negative", "transfer"},
   source : InvoiceIds \cup {NoInvoice}, amount : Nat \ {0}, remaining : Int,
   expires : Dates, expired : BOOLEAN, used : Nat, expirationTx : BOOLEAN]

Stages == {"prepayment", "negative", "regular", "read", "apply"}
Jobs   == [stage : Stages, inv : InvoiceIds, company : Companies, amount : Int]
Job    == {j \in Jobs : j.stage = "negative" => j.amount > 0}
Idle   == [stage |-> "idle"]

TypeOK ==
  /\ now \in 0 .. MaxTime
  /\ balance \in [Companies -> Int]
  /\ invoice \in [DOMAIN invoice -> Invoice]
  /\ DOMAIN credit \subseteq CreditIds
  /\ credit \in [DOMAIN credit -> Credit]
  /\ issued \in Nat
  /\ \A e \in DOMAIN credit : e <= issued
  /\ txSum \in [Companies -> Int]
  /\ job \in [Callers -> Job \cup {Idle}]
  /\ DOMAIN invoice \subseteq DOMAIN moved /\ DOMAIN moved \subseteq InvoiceIds
  /\ moved \in [DOMAIN moved -> [company : Companies, amount : Int]]
  /\ spent \in [Rare -> Nat]

-----------------------------------------------------------------------------
(* Helpers *)

Least(a, b) == IF a <= b THEN a ELSE b

\* Of two totals, the one that lets the credit form ask for more: zero is no
\* bound.
Looser(s, t) == IF s = 0 \/ t = 0 THEN 0 ELSE IF s >= t THEN s ELSE t

Put(f, k, v) == [x \in DOMAIN f \cup {k} |-> IF x = k THEN v ELSE f[x]]
Drop(f, k)   == [x \in DOMAIN f \ {k} |-> f[x]]

Finalized(i)  == i \in DOMAIN invoice /\ invoice[i].finalized
HasCycle(i)   == invoice[i].kind = "cycle"
CreditsOf(c)  == {e \in DOMAIN credit : credit[e].company = c}
RemainingIn(S) == SumFunction([e \in S |-> credit[e].remaining])
AmountIn(S)    == SumFunction([e \in S |-> credit[e].amount])

\* The rows applyCreditToInvoice selects: not expired by flag or by date.
Usable(c) == {e \in CreditsOf(c) : /\ ~credit[e].expired
                                   /\ credit[e].expires > now
                                   /\ credit[e].remaining > 0}

\* ORDER BY expiration_date ASC NULLS LAST, created_at ASC
Before(e, f) == \/ credit[e].expires < credit[f].expires
                \/ credit[e].expires = credit[f].expires /\ e < f

\* What the loop over the selected rows takes from each of them to reach a
\* total: it empties them in order.
Draws(c, total) ==
  {d \in [Usable(c) -> 0 .. total] :
     /\ \A e \in Usable(c) : d[e] <= credit[e].remaining
     /\ \A e, f \in Usable(c) :
          Before(e, f) /\ d[f] > 0 => d[e] = credit[e].remaining
     /\ SumFunction(d) = total}

NewCredit(c, kind, source, amount, expires) ==
  [company |-> c, kind |-> kind, source |-> source, amount |-> amount,
   remaining |-> amount, expires |-> expires, expired |-> FALSE, used |-> 0,
   expirationTx |-> FALSE]

\* INSERT INTO credit_tracking, and the transaction the row belongs to.
Issue(id, record) ==
  /\ id = issued + 1 /\ id \in CreditIds
  /\ credit' = Put(credit, id, record)
  /\ issued' = id

Once(kind) ==
  /\ spent[kind] < Limit[kind]
  /\ spent' = [spent EXCEPT ![kind] = @ + 1]

-----------------------------------------------------------------------------
Init ==
  /\ now = 0
  /\ balance = [c \in Companies |-> 0]
  /\ invoice = [i \in {} |-> 0]
  /\ credit = [e \in {} |-> 0]
  /\ issued = 0
  /\ txSum = [c \in Companies |-> 0]
  /\ job = [p \in Callers |-> Idle]
  /\ moved = [i \in {} |-> 0]
  /\ spent = [kind \in Rare |-> 0]

Tick ==
  /\ now < MaxTime /\ now' = now + 1
  /\ UNCHANGED <<balance, invoice, credit, issued, txSum, job, moved, spent>>

-----------------------------------------------------------------------------
(* Invoices are created and edited *)

NewInvoice(i, c, kind, subtotal, tax) ==
  /\ i \notin DOMAIN moved
  /\ moved' = Put(moved, i, [company |-> c, amount |-> 0])
  /\ invoice' = Put(invoice, i,
       [company |-> c, kind |-> kind, subtotal |-> subtotal, tax |-> tax,
        total |-> subtotal + tax, applied |-> 0, allocated |-> 0,
        finalized |-> FALSE, filled |-> TRUE, offered |-> subtotal + tax,
        rewritten |-> FALSE])

\* The draft invoice, its credit_issuance transaction and the tracking row
\* are one transaction; the balance waits for the finalization.
CreatePrepaymentInvoice(i, c, amount, expires) ==
  /\ NewInvoice(i, c, "prepayment", amount, 0)
  /\ Issue(issued + 1, NewCredit(c, "prepayment", i, amount, expires))
  /\ txSum' = [txSum EXCEPT ![c] = @ + amount]
  /\ UNCHANGED <<now, balance, job, spent>>

\* generateInvoice (a billing cycle) and generateManualInvoice (none).
GenerateInvoice(i, c, kind, subtotal, tax) ==
  /\ kind \in {"cycle", "manual"}
  /\ NewInvoice(i, c, kind, subtotal, tax)
  /\ UNCHANGED <<now, balance, credit, issued, txSum, job, spent>>

\* The invoice of a billing cycle is inserted on its own, with zero totals.
\* GenerateInvoice is the case of nothing coming between that and the
\* transaction that writes the totals; here something does, if only a page
\* that is loaded.  Without the transaction (it failed) the empty draft stays.
InsertCycleInvoice(i, c) ==
  /\ i \notin DOMAIN moved /\ Once("window")
  /\ moved' = Put(moved, i, [company |-> c, amount |-> 0])
  /\ invoice' = Put(invoice, i,
       [company |-> c, kind |-> "cycle", subtotal |-> 0, tax |-> 0, total |-> 0,
        applied |-> 0, allocated |-> 0, finalized |-> FALSE, filled |-> FALSE,
        offered |-> 0, rewritten |-> FALSE])
  /\ UNCHANGED <<now, balance, credit, issued, txSum, job>>

\* The totals are written whatever has become of the row, and credit_applied
\* is set to 0; allocations made meanwhile stay.
FillCycleInvoice(i, subtotal, tax) ==
  /\ i \in DOMAIN invoice /\ ~invoice[i].filled
  /\ invoice' = [invoice EXCEPT ![i].subtotal = subtotal, ![i].tax = tax,
                               ![i].total = subtotal + tax, ![i].applied = 0,
                               ![i].filled = TRUE,
                               ![i].offered = Looser(@, subtotal + tax),
                               ![i].rewritten = TRUE]
  /\ UNCHANGED <<now, balance, credit, issued, txSum, job, moved, spent>>

\* Editing manual items recomputes the totals from the items, whatever has
\* been applied to the invoice and whether or not it is finalized.
EditInvoice(i, subtotal, tax) ==
  /\ i \in DOMAIN invoice
  /\ Once("edit")
  /\ invoice' = [invoice EXCEPT ![i].subtotal = subtotal, ![i].tax = tax,
                               ![i].total = subtotal + tax,
                               ![i].offered = Looser(@, subtotal + tax),
                               ![i].rewritten = TRUE]
  /\ UNCHANGED <<now, balance, credit, issued, txSum, job, moved>>

-----------------------------------------------------------------------------
(* Applying credit *)

\* Variant: the cap is the invoice's amount, not what is left of it.
CappedByTotal(i, request) ==
  Least(request, invoice[i].subtotal + invoice[i].tax)

\* What is left of a request once the invoice has credit applied to it.
Capped(i, request) ==
  IF invoice[i].allocated > 0
  THEN Least(request, invoice[i].subtotal + invoice[i].tax - invoice[i].allocated)
  ELSE request

Applies(i, c, request) ==
  /\ i \in DOMAIN invoice /\ c \in Planned
  /\ balance[c] > 0 /\ Capped(i, request) > 0
  /\ Usable(c) # {}

\* The transaction of applyCreditToInvoice.  It inserts a credit_application
\* and a credit_adjustment transaction, both of -total; the application ends
\* up related to the last row drawn from.
ApplyTo(i, c, request) ==
  \E total \in 1 .. Capped(i, request) : \E d \in Draws(c, total) :
    LET Last(e) == d[e] > 0 /\ \A f \in Usable(c) : Before(e, f) => d[f] = 0
    IN /\ total = Least(Capped(i, request), RemainingIn(Usable(c)))
       /\ credit' = [e \in DOMAIN credit |->
                        IF e \in Usable(c)
                        THEN [credit[e] EXCEPT
                                !.remaining = @ - d[e],
                                !.used = IF Last(e) THEN @ + total ELSE @]
                        ELSE credit[e]]
       /\ balance' = [balance EXCEPT ![c] = @ - total]
       /\ txSum' = [txSum EXCEPT ![c] = @ - 2 * total]
       /\ invoice' = [invoice EXCEPT ![i].applied = @ + total,
                                    ![i].allocated = @ + total,
                                    ![i].total = @ - total,
                                    ![i].offered = Looser(@, invoice[i].total - total)]

\* The credit form offers all that a credit has left, and no more than the
\* invoice's total unless that is zero.  Both are as of the page load, which
\* may be as old as the row, and the server looks again at what credits have
\* left only: the amount is bounded by the totals the invoice has had.
ApplyCreditToInvoice(i, request) ==
  /\ i \in DOMAIN invoice
  /\ LET t == invoice[i].offered IN t = 0 \/ request <= t
  /\ Applies(i, invoice[i].company, request)
  /\ ApplyTo(i, invoice[i].company, request)
  /\ UNCHANGED <<now, issued, job, moved, spent>>

-----------------------------------------------------------------------------
(* Finalizing: the first transaction marks the invoice and keeps the row it  *)
(* read; what follows is decided from that row, outside the transaction.    *)

\* Variant: an invoice of nothing is taken for a negative one.
StageUpToZero(row) ==
  CASE row.kind # "cycle"                  -> "prepayment"
    [] row.kind = "cycle" /\ row.total <= 0 -> "negative"
    [] row.kind = "cycle" /\ row.total > 0  -> "regular"

\* Variant: a prepayment is taken for an invoice like any other.
StageByTotal(row) == IF row.total < 0 THEN "negative" ELSE "regular"

StageAfter(row) ==
  CASE row.kind # "cycle"                   -> "prepayment"
    [] row.kind = "cycle" /\ row.total < 0  -> "negative"
    [] row.kind = "cycle" /\ row.total >= 0 -> "regular"

\* Variant: an invoice that is already finalized is finalized again.
MayFinalizeAny(i) == i \in DOMAIN invoice

MayFinalize(i) == i \in DOMAIN invoice /\ ~invoice[i].finalized

FinalizeMark(p, i) ==
  /\ job[p] = Idle /\ MayFinalize(i)
  /\ invoice' = [invoice EXCEPT ![i].finalized = TRUE]
  /\ LET stage == StageAfter(invoice[i]) IN
       job' = [job EXCEPT ![p] =
         [stage |-> stage, inv |-> i, company |-> invoice[i].company,
          amount |-> CASE stage = "prepayment" -> invoice[i].subtotal
                       [] stage = "negative"   -> -invoice[i].total
                       [] stage = "regular"    -> 0]]
  /\ UNCHANGED <<now, balance, credit, issued, txSum, moved, spent>>

At(p, stage) == job[p] # Idle /\ job[p].stage = stage

Finish(p)          == job' = [job EXCEPT ![p] = Idle]
Continue(p, s, a)  == job' = [job EXCEPT ![p].stage = s, ![p].amount = a]

\* credit_balance is incremented in place; no transaction row is written.
FinalizePrepayment(p) ==
  /\ At(p, "prepayment")
  /\ balance' = [balance EXCEPT ![job[p].company] = @ + job[p].amount]
  /\ moved' = [moved EXCEPT ![job[p].inv].amount = @ + job[p].amount]
  /\ Finish(p)
  /\ UNCHANGED <<now, invoice, credit, issued, txSum, spent>>

\* An invoice deleted since it was marked has no transaction inserted for it.
FinalizeNegative(p, expires) ==
  /\ At(p, "negative") /\ expires > now
  /\ LET j == job[p] IN
       IF j.inv \in DOMAIN invoice
       THEN /\ Issue(issued + 1,
                     NewCredit(j.company, "negative", j.inv, j.amount, expires))
            /\ balance' = [balance EXCEPT ![j.company] = @ + j.amount]
            /\ txSum' = [txSum EXCEPT ![j.company] = @ + j.amount]
       ELSE UNCHANGED <<credit, issued, balance, txSum>>
  /\ Finish(p)
  /\ UNCHANGED <<now, invoice, moved, spent>>

FinalizeReadCredit(p) ==
  /\ At(p, "regular")
  /\ LET available == balance[job[p].company] IN
       IF available > 0 THEN Continue(p, "read", available) ELSE Finish(p)
  /\ UNCHANGED <<now, balance, invoice, credit, issued, txSum, moved, spent>>

FinalizeReadInvoice(p) ==
  /\ At(p, "read")
  /\ LET i == job[p].inv IN
       IF i \in DOMAIN invoice /\ invoice[i].total > 0
       THEN Continue(p, "apply", Least(job[p].amount, invoice[i].total))
       ELSE Finish(p)
  /\ UNCHANGED <<now, balance, invoice, credit, issued, txSum, moved, spent>>

\* An error, or an early return, of applyCreditToInvoice leaves the rows alone.
FinalizeApply(p) ==
  /\ At(p, "apply")
  /\ LET j == job[p] IN
       IF Applies(j.inv, j.company, j.amount)
       THEN ApplyTo(j.inv, j.company, j.amount)
       ELSE UNCHANGED <<balance, invoice, credit, txSum>>
  /\ Finish(p)
  /\ UNCHANGED <<now, issued, moved, spent>>

\* The process dies, or a statement after the first transaction fails.
Crash(p) ==
  /\ job[p] # Idle /\ Once("crash")
  /\ Finish(p)
  /\ UNCHANGED <<now, balance, invoice, credit, issued, txSum, moved>>

UnfinalizeInvoice(i) ==
  /\ Finalized(i) /\ Once("unfinalize")
  /\ invoice' = [invoice EXCEPT ![i].finalized = FALSE]
  /\ UNCHANGED <<now, balance, credit, issued, txSum, job, moved>>

-----------------------------------------------------------------------------
(* Deleting an invoice *)

IssuedBy(i, kind) ==
  {e \in DOMAIN credit : credit[e].source = i /\ credit[e].kind = kind}

\* Deleting fails for an invoice with credit applied (there is no table
\* credit_tracking_usage) and for a prepayment, whose tracking row refers to
\* the transaction being deleted.  updateCompanyCredit has a connection of its
\* own: what it subtracts stays when the deletion is rolled back, because
\* another row refers to the invoice or because the process dies.
HardDeleteInvoice(i) ==
  /\ i \in DOMAIN invoice /\ invoice[i].applied = 0
  /\ IssuedBy(i, "prepayment") = {}
  /\ LET E == IssuedBy(i, "negative") IN
     \/ /\ E = {} /\ invoice[i].allocated = 0 /\ Once("delete")
        /\ invoice' = Drop(invoice, i)
        /\ UNCHANGED <<balance, credit, txSum, moved>>
     \/ \E e \in E :
          LET c == invoice[i].company IN
          /\ credit[e].remaining = credit[e].amount
          /\ balance' = [balance EXCEPT ![c] = @ - credit[e].amount]
          /\ \/ /\ E = {e} /\ invoice[i].allocated = 0 /\ Once("delete")
                /\ invoice' = Drop(invoice, i)
                /\ credit' = Drop(credit, e)
                /\ txSum' = [txSum EXCEPT ![c] = @ - credit[e].amount]
                /\ UNCHANGED moved
             \/ /\ spent["delete"] < Limit["delete"]
                /\ \/ /\ E # {e} \/ invoice[i].allocated > 0
                      /\ spent' = [spent EXCEPT !["delete"] = @ + 1]
                   \/ /\ E = {e} /\ spent["crash"] < Limit["crash"]
                      /\ spent' = [spent EXCEPT !["delete"] = @ + 1,
                                                !["crash"] = @ + 1]
                /\ moved' = [moved EXCEPT ![i].amount = @ - credit[e].amount]
                /\ UNCHANGED <<invoice, credit, txSum>>
  /\ UNCHANGED <<now, issued, job>>

-----------------------------------------------------------------------------
(* Expiring, transferring and re-dating credit *)

\* Variant: an expired row keeps what it had left.
MarkedExpired(record) ==
  [record EXCEPT !.expired = TRUE, !.expirationTx = TRUE]

Emptied(record) ==
  [record EXCEPT !.expired = TRUE, !.remaining = 0, !.expirationTx = TRUE]

\* The rows leave their companies' balances and transactions with what they
\* had left.
Expire(S) ==
  LET lost(c) == RemainingIn(S \cap CreditsOf(c)) IN
  /\ credit' = [e \in DOMAIN credit |->
                  IF e \in S THEN Emptied(credit[e]) ELSE credit[e]]
  /\ balance' = [c \in Companies |-> balance[c] - lost(c)]
  /\ txSum' = [c \in Companies |-> txSum[c] - lost(c)]
  /\ UNCHANGED <<now, invoice, issued, job, moved, spent>>

\* expiredCreditsHandler, for one company or for all.
Lapsed(scope) ==
  {e \in DOMAIN credit : /\ credit[e].company \in scope
                         /\ ~credit[e].expired /\ ~credit[e].expirationTx
                         /\ credit[e].expires < now
                         /\ credit[e].remaining > 0}

ExpireCredits(scope) ==
  /\ Lapsed(scope) # {}
  /\ Expire(Lapsed(scope))

ManuallyExpireCredit(e) ==
  /\ e \in DOMAIN credit
  /\ ~credit[e].expired /\ credit[e].remaining > 0
  /\ Expire({e})

\* The expiration date is not looked at.
MayTransfer(e, amount) ==
  e \in DOMAIN credit /\ ~credit[e].expired /\ credit[e].remaining >= amount

\* Variant: both companies are read before either is written.
ShiftReadFirst(f, source, target, amount) ==
  [f EXCEPT ![source] = @ - amount, ![target] = f[target] + amount]

\* The source is read and written, then the target.
Shift(f, source, target, amount) ==
  [[f EXCEPT ![source] = @ - amount] EXCEPT ![target] = @ + amount]

TransferCredit(e, target, amount) ==
  /\ MayTransfer(e, amount)
  /\ LET source == credit[e].company
         id == issued + 1
     IN /\ id \in CreditIds /\ issued' = id
        /\ credit' = Put([credit EXCEPT ![e].remaining = @ - amount], id,
                         NewCredit(target, "transfer", NoInvoice, amount,
                                   credit[e].expires))
        /\ balance' = Shift(balance, source, target, amount)
        /\ txSum' = Shift(txSum, source, target, amount)
  /\ UNCHANGED <<now, invoice, job, moved, spent>>

\* Variant: the date of an expired credit can be moved.
UpdateAnyExpiration(e, expires) ==
  /\ e \in DOMAIN credit /\ credit[e].expires # expires
  /\ credit' = [credit EXCEPT ![e].expires = expires]
  /\ UNCHANGED <<now, balance, invoice, issued, txSum, job, moved, spent>>

UpdateCreditExpiration(e, expires) ==
  /\ e \in DOMAIN credit
  /\ ~credit[e].expired /\ credit[e].expires # expires
  /\ credit' = [credit EXCEPT ![e].expires = expires]
  /\ UNCHANGED <<now, balance, invoice, issued, txSum, job, moved, spent>>

-----------------------------------------------------------------------------
(* The specification *)

Invoicing ==
  \E i \in InvoiceIds, c \in Companies :
    \/ \E amount \in Amounts, expires \in ExpiryDates :
         CreatePrepaymentInvoice(i, c, amount, expires)
    \/ \E kind \in {"cycle", "manual"}, subtotal \in Totals, tax \in Taxes :
         GenerateInvoice(i, c, kind, subtotal, tax)
    \/ InsertCycleInvoice(i, c)

Changing ==
  \E i \in InvoiceIds :
    \/ \E subtotal \in Totals, tax \in Taxes :
         EditInvoice(i, subtotal, tax) \/ FillCycleInvoice(i, subtotal, tax)
    \/ \E request \in Amounts : ApplyCreditToInvoice(i, request)
    \/ UnfinalizeInvoice(i)
    \/ HardDeleteInvoice(i)

FinalizeStep(p) ==
  \/ FinalizePrepayment(p)
  \/ \E expires \in ExpiryDates : FinalizeNegative(p, expires)
  \/ FinalizeReadCredit(p)
  \/ FinalizeReadInvoice(p)
  \/ FinalizeApply(p)

Finalizing ==
  \E p \in Callers :
    \/ \E i \in InvoiceIds : FinalizeMark(p, i)
    \/ FinalizeStep(p)
    \/ Crash(p)

Administering ==
  \/ \E scope \in {Companies} \cup {{c} : c \in Companies} : ExpireCredits(scope)
  \/ \E e \in CreditIds :
       \/ ManuallyExpireCredit(e)
       \/ \E c \in Companies, amount \in Amounts : TransferCredit(e, c, amount)
       \/ \E expires \in ExpiryDates : UpdateCreditExpiration(e, expires)

Next == Tick \/ Invoicing \/ Changing \/ Finalizing \/ Administering

Spec == Init /\ [][Next]_vars

\* A server process goes on with a finalization it has begun.
FairSpec == Spec /\ \A p \in Callers : WF_vars(FinalizeStep(p))

-----------------------------------------------------------------------------
(* Properties *)

Bills(c)   == {i \in DOMAIN invoice : invoice[i].company = c}
Prepaid(c) == {e \in CreditsOf(c) : credit[e].kind = "prepayment"}

AllocatedTo(S) == SumFunction([i \in S |-> invoice[i].allocated])
MovedFor(c)    == SumFunction([i \in {j \in DOMAIN moved : moved[j].company = c}
                                 |-> moved[i].amount])

\* What a company's balance is made of, whatever operations have run and
\* wherever a finalization has stopped: what its credits have left, less the
\* prepayments (their tracking rows exist before the balance moves), plus what
\* the finalizations of its invoices moved without a tracking row.
BalanceExplained ==
  \A c \in Companies :
    balance[c] = RemainingIn(CreditsOf(c)) - AmountIn(Prepaid(c)) + MovedFor(c)

\* The transactions a reconciliation adds up explain what the credits have
\* left except that every application is in them twice: the sum is short by
\* what the company's invoices have applied.
TransactionsExplained ==
  \A c \in Companies :
    txSum[c] + AllocatedTo(Bills(c)) = RemainingIn(CreditsOf(c))

\* An expired credit is empty and has its credit_expiration transaction (no
\* second one is written for it); no credit holds more than it was given, nor
\* less than nothing.
ExpiredIsEmpty ==
  \A e \in DOMAIN credit :
    /\ 0 <= credit[e].remaining /\ credit[e].remaining <= credit[e].amount
    /\ credit[e].expired <=> credit[e].expirationTx
    /\ credit[e].expired => credit[e].remaining = 0

\* Nothing brings an expired credit back, draws from it or moves its date.
ExpiredIsFinal ==
  [][\A e \in DOMAIN credit :
       credit[e].expired => e \in DOMAIN credit' /\ credit'[e] = credit[e]]_vars

\* However finalizations, reopenings, crashes and credit forms of any age
\* interleave, an invoice of something has no more allocated to it than its
\* full amount, and what is due is the full amount less the credit applied.
\* Left out, because the code keeps to neither there: invoices whose totals
\* were written again after their row, by an editor or by the second half of
\* generateInvoice.  A credit form of an older page is then not capped, unless
\* something is allocated already (README, section 5).
NeverOverApplied ==
  \A i \in DOMAIN invoice :
    LET full == invoice[i].subtotal + invoice[i].tax IN
    ~invoice[i].rewritten =>
      /\ invoice[i].total = full - invoice[i].applied
      /\ full > 0 => invoice[i].allocated <= full

\* Without reopening, crashes or edits, a finalized prepayment that no process
\* is still working on has been added to the balance exactly once, and no
\* other invoice of a billing cycle moves a balance without a tracking row.
FundedOnce ==
  \A i \in DOMAIN invoice :
    moved[i].amount =
      IF /\ invoice[i].kind # "cycle" /\ invoice[i].finalized
         /\ \A p \in Callers : job[p] # Idle => job[p].inv # i
      THEN invoice[i].subtotal ELSE 0

\* A finalized prepayment reaches the balance.  (Checked without crashes.)
PrepaymentArrives ==
  \A i \in InvoiceIds :
    (Finalized(i) /\ invoice[i].kind = "prepayment")
      ~> (i \in DOMAIN moved /\ moved[i].amount > 0)

=============================================================================
