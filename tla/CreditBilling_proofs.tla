------------------------- MODULE CreditBilling_proofs -------------------------
(***************************************************************************)
(* Proved of CreditLedger, for any number of processes that finalize while  *)
(* credit is applied by hand, from pages however old: invoices whose totals *)
(* are written with their row never have more allocated to them than their  *)
(* amount; balances and transactions are explained by credits and invoices, *)
(* for which a step is shown to shift both sides of each equation alike;    *)
(* and a prepayment reaches the balance once.                               *)
(***************************************************************************)
EXTENDS CreditLedger_proofs

Full(i)    == invoice[i].subtotal + invoice[i].tax
NewFull(i) == invoice'[i].subtotal + invoice'[i].tax

\* What the process about to apply credit was going to ask for was bounded by
\* the amount due when it read the invoice, and the full amount does not move
\* unless the totals are written again.
RequestBounded ==
  \A p \in Callers :
    job[p] # Idle =>
      /\ job[p].inv \in DOMAIN moved
      /\ job[p].stage = "apply" /\ job[p].inv \in DOMAIN invoice
           => \/ invoice[job[p].inv].rewritten
              \/ job[p].amount <= Full(job[p].inv) \/ job[p].amount <= 0

\* The cap subtracts what is allocated, and that is the credit applied.
AllocatedIsApplied ==
  \A i \in DOMAIN invoice :
    ~invoice[i].rewritten => invoice[i].allocated = invoice[i].applied

\* A page shows the amount due at some time, and zero, which the credit form
\* takes for no bound, only when all of it had been covered.
OfferedWithin ==
  \A i \in DOMAIN invoice :
    ~invoice[i].rewritten /\ Full(i) > 0 =>
      /\ invoice[i].offered <= Full(i)
      /\ invoice[i].offered = 0 => Full(i) <= invoice[i].allocated

\* The inductive strengthening of NeverOverApplied.
BillingInv ==
  TypeOK /\ AllocatedIsApplied /\ OfferedWithin /\ RequestBounded /\ NeverOverApplied

-----------------------------------------------------------------------------
\* What a step does to an invoice unless its totals are written again: the
\* amount stays, and what is due falls by what is applied, within the amount.
\* New invoices have nothing applied.
Kept(old, new) ==
  /\ new.subtotal = old.subtotal /\ new.tax = old.tax
  /\ new.rewritten = old.rewritten

BillChange ==
  /\ DOMAIN invoice' \subseteq DOMAIN invoice \cup (DOMAIN moved' \ DOMAIN moved)
  /\ \A i \in DOMAIN invoice \cap DOMAIN invoice' :
       ~invoice'[i].rewritten =>
         /\ Kept(invoice[i], invoice'[i])
         /\ \/ /\ invoice'[i].total = invoice[i].total
               /\ invoice'[i].applied = invoice[i].applied
               /\ invoice'[i].allocated = invoice[i].allocated
               /\ invoice'[i].offered = invoice[i].offered
            \/ \E taken \in Nat :
                 /\ invoice'[i].total = invoice[i].total - taken
                 /\ invoice'[i].applied = invoice[i].applied + taken
                 /\ invoice'[i].allocated = invoice[i].allocated + taken
                 /\ invoice'[i].offered =
                      Looser(invoice[i].offered, invoice[i].total - taken)
                 /\ Full(i) > 0 => invoice[i].allocated + taken <= Full(i)
  /\ \A i \in DOMAIN invoice' \ DOMAIN invoice :
       /\ invoice'[i].applied = 0 /\ invoice'[i].allocated = 0
       /\ invoice'[i].total = NewFull(i) /\ invoice'[i].offered = NewFull(i)

\* A step that leaves the invoices alone, marks one or deletes one.
LEMMA BillKept ==
  ASSUME TypeOK, UNCHANGED invoice
  PROVE  BillChange
BY DEF BillChange, Kept, TypeOK

\* An invoice that is inserted, with its totals or before them, has nothing
\* applied.
LEMMA BillInserted ==
  ASSUME TypeOK, NEW i, i \notin DOMAIN moved, NEW row, NEW moving,
         row.applied = 0, row.allocated = 0,
         row.total = row.subtotal + row.tax, row.offered = row.subtotal + row.tax,
         moved' = Put(moved, i, moving), invoice' = Put(invoice, i, row)
  PROVE  BillChange
<1>1. i \notin DOMAIN invoice
  BY DEF TypeOK
<1>2. /\ DOMAIN invoice' = DOMAIN invoice \cup {i} /\ invoice'[i] = row
      /\ DOMAIN moved' = DOMAIN moved \cup {i}
      /\ \A k \in DOMAIN invoice : invoice'[k] = invoice[k]
  BY <1>1 DEF Put
<1>. QED BY <1>1, <1>2 DEF BillChange, Kept, NewFull

LEMMA BillNew ==
  ASSUME TypeOK, NEW i \in InvoiceIds, NEW c \in Companies, NEW kind,
         NEW subtotal \in Int, NEW tax \in Nat, NewInvoice(i, c, kind, subtotal, tax)
  PROVE  BillChange
<1>. DEFINE row == [company |-> c, kind |-> kind, subtotal |-> subtotal,
                    tax |-> tax, total |-> subtotal + tax, applied |-> 0,
                    allocated |-> 0, finalized |-> FALSE, filled |-> TRUE,
                    offered |-> subtotal + tax, rewritten |-> FALSE]
            moving == [company |-> c, amount |-> 0]
<1>1. /\ i \notin DOMAIN moved
      /\ moved' = Put(moved, i, moving) /\ invoice' = Put(invoice, i, row)
  BY DEF NewInvoice
<1>2. /\ row.applied = 0 /\ row.allocated = 0
      /\ row.total = row.subtotal + row.tax /\ row.offered = row.subtotal + row.tax
  OBVIOUS
<1>. HIDE DEF row, moving
<1>. QED BY <1>1, <1>2, BillInserted

LEMMA BillInsert ==
  ASSUME TypeOK, NEW i \in InvoiceIds, NEW c \in Companies, InsertCycleInvoice(i, c)
  PROVE  BillChange
<1>. DEFINE row == [company |-> c, kind |-> "cycle", subtotal |-> 0, tax |-> 0,
                    total |-> 0, applied |-> 0, allocated |-> 0,
                    finalized |-> FALSE, filled |-> FALSE, offered |-> 0,
                    rewritten |-> FALSE]
            moving == [company |-> c, amount |-> 0]
<1>1. /\ i \notin DOMAIN moved
      /\ moved' = Put(moved, i, moving) /\ invoice' = Put(invoice, i, row)
  BY DEF InsertCycleInvoice
<1>2. /\ row.applied = 0 /\ row.allocated = 0
      /\ row.total = row.subtotal + row.tax /\ row.offered = row.subtotal + row.tax
  OBVIOUS
<1>. HIDE DEF row, moving
<1>. QED BY <1>1, <1>2, BillInserted

\* An invoice whose totals are written again is marked for good.
LEMMA BillRewritten ==
  ASSUME TypeOK, NEW i \in DOMAIN invoice, NEW row, row.rewritten = TRUE,
         invoice' = [invoice EXCEPT ![i] = row]
  PROVE  BillChange
BY DEF BillChange, Kept, TypeOK

\* Applying credit: a request bounded by the full amount, or one from a page at
\* zero, which finds the amount covered.
LEMMA BillApply ==
  ASSUME TypeOK, NEW i \in DOMAIN invoice, NEW c \in Companies, NEW request \in Int,
         ~invoice[i].rewritten /\ Full(i) > 0
           => request <= Full(i) \/ Full(i) <= invoice[i].allocated,
         ApplyTo(i, c, request)
  PROVE  BillChange
<1>1. PICK total \in 1 .. Capped(i, request) :
        invoice' = [invoice EXCEPT
                      ![i].applied = @ + total, ![i].allocated = @ + total,
                      ![i].total = @ - total,
                      ![i].offered = Looser(@, invoice[i].total - total)]
  BY DEF ApplyTo
<1>2. /\ invoice[i] \in Invoice
      /\ DOMAIN invoice' = DOMAIN invoice
      /\ \A k \in DOMAIN invoice \ {i} : invoice'[k] = invoice[k]
      /\ invoice'[i] = [invoice[i] EXCEPT
                          !.applied = @ + total, !.allocated = @ + total,
                          !.total = @ - total,
                          !.offered = Looser(@, invoice[i].total - total)]
  BY <1>1 DEF TypeOK
<1>3. /\ Kept(invoice[i], invoice'[i])
      /\ invoice'[i].total = invoice[i].total - total
      /\ invoice'[i].applied = invoice[i].applied + total
      /\ invoice'[i].allocated = invoice[i].allocated + total
      /\ invoice'[i].offered = Looser(invoice[i].offered, invoice[i].total - total)
  BY <1>2 DEF Kept, Invoice
<1>4. /\ invoice[i].allocated \in Nat
      /\ Full(i) = invoice[i].subtotal + invoice[i].tax /\ Full(i) \in Int
  BY <1>2 DEF Full, Invoice
<1>5. Capped(i, request) \in Int /\ total \in Nat \ {0} /\ total <= Capped(i, request)
  BY <1>1, <1>2, <1>4 DEF Capped, Least, Invoice
<1>6. ~invoice[i].rewritten /\ Full(i) > 0 => invoice[i].allocated + total <= Full(i)
  <2>1. CASE invoice[i].allocated = 0
    BY <1>4, <1>5, <2>1 DEF Capped
  <2>2. CASE invoice[i].allocated > 0
    <3>1. Capped(i, request) <= Full(i) - invoice[i].allocated
      <4>1. invoice[i].subtotal \in Int /\ invoice[i].tax \in Int
        BY <1>2 DEF Invoice
      <4>. QED BY <1>4, <2>2, <4>1 DEF Capped, Least
    <3>. QED BY <1>4, <1>5, <3>1
  <2>. QED BY <1>4, <2>1, <2>2
<1>. QED BY <1>2, <1>3, <1>5, <1>6 DEF BillChange, Kept

-----------------------------------------------------------------------------
(* Every step changes the invoices like that                                *)

LEMMA BillChanges ==
  ASSUME BillingInv, [Next]_vars
  PROVE  BillChange
<1>. USE DEF BillingInv
<1>1. CASE UNCHANGED invoice
  BY <1>1, BillKept
<1>3. CASE Invoicing
  <2>. PICK i \in InvoiceIds, c \in Companies :
       \/ \E amount \in Amounts, expires \in ExpiryDates :
            CreatePrepaymentInvoice(i, c, amount, expires)
       \/ \E kind \in {"cycle", "manual"}, subtotal \in Totals, tax \in Taxes :
            GenerateInvoice(i, c, kind, subtotal, tax)
       \/ InsertCycleInvoice(i, c)
    BY <1>3 DEF Invoicing
  <2>1. ASSUME NEW amount \in Amounts, NEW expires \in ExpiryDates,
               CreatePrepaymentInvoice(i, c, amount, expires)
        PROVE  BillChange
    BY <2>1, BillNew, LedgerAssumption DEF CreatePrepaymentInvoice
  <2>2. ASSUME NEW kind \in {"cycle", "manual"}, NEW subtotal \in Totals, NEW tax \in Taxes,
               GenerateInvoice(i, c, kind, subtotal, tax)
        PROVE  BillChange
    BY <2>2, BillNew, LedgerAssumption DEF GenerateInvoice
  <2>. QED BY <2>1, <2>2, BillInsert
<1>4. CASE Changing
  <2>. PICK i \in InvoiceIds :
       \/ \E subtotal \in Totals, tax \in Taxes :
            EditInvoice(i, subtotal, tax) \/ FillCycleInvoice(i, subtotal, tax)
       \/ \E request \in Amounts : ApplyCreditToInvoice(i, request)
       \/ UnfinalizeInvoice(i)
       \/ HardDeleteInvoice(i)
    BY <1>4 DEF Changing
  <2>1. ASSUME NEW request \in Amounts, ApplyCreditToInvoice(i, request)
        PROVE  BillChange
    <3>1. /\ i \in DOMAIN invoice /\ request \in Int
          /\ invoice[i].offered = 0 \/ request <= invoice[i].offered
          /\ ApplyTo(i, invoice[i].company, request)
      BY <2>1, LedgerAssumption DEF ApplyCreditToInvoice
    <3>2. invoice[i].company \in Companies /\ invoice[i].offered \in Int
          /\ Full(i) \in Int
      BY <3>1, InvoiceRow DEF Invoice, Full
    <3>3. ~invoice[i].rewritten /\ Full(i) > 0
            => request <= Full(i) \/ Full(i) <= invoice[i].allocated
      BY <3>1, <3>2 DEF OfferedWithin
    <3>. QED BY <3>1, <3>2, <3>3, BillApply
  <2>2. CASE UnfinalizeInvoice(i)
    <3>1. /\ i \in DOMAIN invoice /\ invoice[i] \in Invoice
          /\ invoice' = [invoice EXCEPT ![i].finalized = FALSE]
      BY <2>2, InvoiceRow DEF UnfinalizeInvoice, Finalized
    <3>2. /\ DOMAIN invoice' = DOMAIN invoice
          /\ invoice'[i] = [invoice[i] EXCEPT !.finalized = FALSE]
          /\ \A k \in DOMAIN invoice \ {i} : invoice'[k] = invoice[k]
      BY <3>1 DEF TypeOK
    <3>. QED BY <3>1, <3>2 DEF BillChange, Kept, Invoice
  <2>3. CASE HardDeleteInvoice(i)
    <3>1. CASE invoice' = Drop(invoice, i)
      BY <3>1 DEF Drop, BillChange, Kept
    <3>2. UNCHANGED invoice \/ invoice' = Drop(invoice, i)
      BY <2>3, Zenon DEF HardDeleteInvoice
    <3>. QED BY <1>1, <3>1, <3>2
  <2>4. ASSUME NEW subtotal \in Totals, NEW tax \in Taxes,
               EditInvoice(i, subtotal, tax) \/ FillCycleInvoice(i, subtotal, tax)
        PROVE  BillChange
    <3>. DEFINE edited == [invoice[i] EXCEPT !.subtotal = subtotal, !.tax = tax,
                                             !.total = subtotal + tax,
                                             !.offered = Looser(@, subtotal + tax),
                                             !.rewritten = TRUE]
                late == [invoice[i] EXCEPT !.subtotal = subtotal, !.tax = tax,
                                           !.total = subtotal + tax, !.applied = 0,
                                           !.filled = TRUE,
                                           !.offered = Looser(@, subtotal + tax),
                                           !.rewritten = TRUE]
    <3>1. i \in DOMAIN invoice /\ invoice[i] \in Invoice
      BY <2>4, InvoiceRow DEF EditInvoice, FillCycleInvoice
    <3>2. \/ invoice' = [invoice EXCEPT ![i] = edited]
          \/ invoice' = [invoice EXCEPT ![i] = late]
      BY <2>4 DEF EditInvoice, FillCycleInvoice
    <3>3. edited.rewritten = TRUE /\ late.rewritten = TRUE
      BY <3>1 DEF Invoice
    <3>. HIDE DEF edited, late
    <3>. QED BY <3>1, <3>2, <3>3, BillRewritten
  <2>. QED BY <2>1, <2>2, <2>3, <2>4
<1>5. CASE Finalizing
  <2>. PICK p \in Callers :
         (\E i \in InvoiceIds : FinalizeMark(p, i)) \/ FinalizeStep(p) \/ Crash(p)
    BY <1>5 DEF Finalizing
  <2>1. ASSUME NEW i \in InvoiceIds, FinalizeMark(p, i)
        PROVE  BillChange
    <3>1. /\ i \in DOMAIN invoice /\ invoice[i] \in Invoice
          /\ invoice' = [invoice EXCEPT ![i].finalized = TRUE]
      BY <2>1, InvoiceRow DEF FinalizeMark, MayFinalize
    <3>2. /\ DOMAIN invoice' = DOMAIN invoice
          /\ invoice'[i] = [invoice[i] EXCEPT !.finalized = TRUE]
          /\ \A k \in DOMAIN invoice \ {i} : invoice'[k] = invoice[k]
      BY <3>1 DEF TypeOK
    <3>. QED BY <3>1, <3>2 DEF BillChange, Kept, Invoice
  <2>2. CASE FinalizeApply(p)
    <3>. DEFINE j == job[p]
    <3>1. CASE Applies(j.inv, j.company, j.amount) /\ ApplyTo(j.inv, j.company, j.amount)
      <4>1. j # Idle /\ j.stage = "apply" /\ j \in Jobs
        BY <2>2, JobFields DEF FinalizeApply, At, Job
      <4>2. j.inv \in DOMAIN invoice /\ j.company \in Companies /\ j.amount \in Int
        BY <3>1, <4>1 DEF Applies, Jobs
      <4>3. ~invoice[j.inv].rewritten /\ Full(j.inv) > 0 => j.amount <= Full(j.inv)
        <5>1. Full(j.inv) \in Int
          BY <4>2, InvoiceRow DEF Full, Invoice
        <5>2. \/ invoice[j.inv].rewritten
              \/ j.amount <= Full(j.inv) \/ j.amount <= 0
          BY <4>1, <4>2 DEF RequestBounded
        <5>. HIDE DEF j
        <5>. QED BY <4>2, <5>1, <5>2
      <4>. QED BY <3>1, <4>2, <4>3, BillApply
    <3>. QED BY <1>1, <2>2, <3>1 DEF FinalizeApply
  <2>3. CASE Crash(p)
    BY <1>1, <2>3 DEF Crash
  <2>4. CASE FinalizeStep(p)
    BY <1>1, <2>2, <2>4
       DEF FinalizeStep, FinalizePrepayment, FinalizeNegative, FinalizeReadCredit,
           FinalizeReadInvoice
  <2>. QED BY <2>1, <2>3, <2>4
<1>6. CASE Administering
  BY <1>1, <1>6 DEF Administering, ExpireCredits, ManuallyExpireCredit, Expire,
                    TransferCredit, UpdateCreditExpiration
<1>7. CASE Tick
  BY <1>1, <1>7 DEF Tick
<1>. QED BY <1>1, <1>3, <1>4, <1>5, <1>6, <1>7 DEF Next, vars

-----------------------------------------------------------------------------
(* The invariant *)

\* An id that is given stays given, to the same company.
IdsKept ==
  /\ DOMAIN moved \subseteq DOMAIN moved'
  /\ \A i \in DOMAIN moved : moved'[i].company = moved[i].company
  /\ IsFiniteSet(DOMAIN moved) => IsFiniteSet(DOMAIN moved')

LEMMA AmountKeepsIds ==
  ASSUME TypeOK, NEW i, NEW amount, moved' = [moved EXCEPT ![i].amount = amount]
  PROVE  IdsKept
<1>1. moved \in [DOMAIN moved -> [company : Companies, amount : Int]]
  BY DEF TypeOK
<1>2. DOMAIN moved' = DOMAIN moved
  OBVIOUS
<1>3. ASSUME NEW k \in DOMAIN moved
      PROVE  moved'[k].company = moved[k].company
  <2>1. CASE k = i
    <3>1. moved[k] \in [company : Companies, amount : Int]
      BY <1>1
    <3>2. moved'[k] = [moved[k] EXCEPT !.amount = amount]
      BY <2>1
    <3>. QED BY <3>1, <3>2
  <2>2. CASE k # i
    BY <2>2
  <2>. QED BY <2>1, <2>2
<1>. QED BY <1>2, <1>3 DEF IdsKept

LEMMA NewKeepsIds ==
  ASSUME NEW i, i \notin DOMAIN moved, NEW row, moved' = Put(moved, i, row)
  PROVE  IdsKept
<1>1. DOMAIN moved' = DOMAIN moved \cup {i}
  BY DEF Put
<1>2. IsFiniteSet(DOMAIN moved) => IsFiniteSet(DOMAIN moved')
  BY <1>1, FS_AddElement
<1>. QED BY <1>1, <1>2 DEF IdsKept, Put

LEMMA IdsStay ==
  ASSUME TypeOK, [Next]_vars
  PROVE  IdsKept
<1>1. CASE UNCHANGED moved
  BY <1>1 DEF IdsKept
<1>2. ASSUME NEW i, NEW c, NEW kind, NEW subtotal, NEW tax,
             NewInvoice(i, c, kind, subtotal, tax)
      PROVE  IdsKept
  BY <1>2, NewKeepsIds DEF NewInvoice
<1>3. CASE Invoicing
  BY <1>2, <1>3, NewKeepsIds
     DEF Invoicing, CreatePrepaymentInvoice, GenerateInvoice, InsertCycleInvoice
<1>4. CASE Changing
  <2>. PICK i \in InvoiceIds :
       \/ \E subtotal \in Totals, tax \in Taxes :
            EditInvoice(i, subtotal, tax) \/ FillCycleInvoice(i, subtotal, tax)
       \/ \E request \in Amounts : ApplyCreditToInvoice(i, request)
       \/ UnfinalizeInvoice(i)
       \/ HardDeleteInvoice(i)
    BY <1>4 DEF Changing
  <2>1. ASSUME HardDeleteInvoice(i)
        PROVE  IdsKept
    <3>. DEFINE rest(e) == moved[i].amount - credit[e].amount
                Taken(amount) == [moved EXCEPT ![i].amount = amount]
    <3>1. ASSUME NEW e, moved' = Taken(rest(e))
          PROVE  IdsKept
      BY <3>1, AmountKeepsIds
    <3>2. UNCHANGED moved
          \/ \E e \in IssuedBy(i, "negative") :
               moved' = [moved EXCEPT ![i].amount = @ - credit[e].amount]
      BY <2>1, Zenon DEF HardDeleteInvoice
    <3>3. \A e : [moved EXCEPT ![i].amount = @ - credit[e].amount] = Taken(rest(e))
      OBVIOUS
    <3>. HIDE DEF Taken, rest
    <3>. QED BY <1>1, <3>1, <3>2, <3>3
  <2>. QED BY <1>1, <2>1, TotalsAlone DEF ApplyCreditToInvoice, UnfinalizeInvoice
<1>5. CASE Finalizing
  <2>. PICK p \in Callers :
         (\E i \in InvoiceIds : FinalizeMark(p, i)) \/ FinalizeStep(p) \/ Crash(p)
    BY <1>5 DEF Finalizing
  <2>1. CASE FinalizePrepayment(p)
    <3>. DEFINE i == job[p].inv
                more == moved[i].amount + job[p].amount
    <3>1. moved' = [moved EXCEPT ![i].amount = more]
      BY <2>1 DEF FinalizePrepayment
    <3>. HIDE DEF i, more
    <3>. QED BY <3>1, AmountKeepsIds
  <2>. QED BY <1>1, <2>1
           DEF FinalizeMark, FinalizeStep, FinalizeNegative, FinalizeReadCredit,
               FinalizeReadInvoice, FinalizeApply, Crash
<1>6. CASE Administering
  BY <1>1, <1>6 DEF Administering, ExpireCredits, ManuallyExpireCredit, Expire,
                    TransferCredit, UpdateCreditExpiration
<1>7. CASE Tick
  BY <1>1, <1>7 DEF Tick
<1>. QED BY <1>1, <1>3, <1>4, <1>5, <1>6, <1>7 DEF Next, vars

\* How a step changes what a process holds: not at all, it lets go of it, it
\* begins with an id that has been given, or it goes on with the same invoice
\* and, when it is to apply credit, with no more than the amount due.
JobChange(p) ==
  \/ job'[p] = job[p]
  \/ job'[p] = Idle
  \/ /\ job'[p] # Idle /\ job'[p].stage # "apply"
     /\ job'[p].inv \in DOMAIN invoice
     /\ job'[p].company = invoice[job'[p].inv].company
  \/ /\ job[p] # Idle /\ job'[p] # Idle
     /\ job'[p].inv = job[p].inv /\ job'[p].company = job[p].company
     /\ job'[p].stage = "apply" =>
          /\ job'[p].inv \in DOMAIN invoice
          /\ job'[p].amount <= invoice[job'[p].inv].total

LEMMA JobChanges ==
  ASSUME TypeOK, [Next]_vars, NEW q \in Callers
  PROVE  JobChange(q)
<1>1. CASE UNCHANGED job
  BY <1>1 DEF JobChange
<1>2. ASSUME NEW p \in Callers, Finish(p)
      PROVE  JobChange(q)
  BY <1>2 DEF Finish, JobChange, TypeOK
<1>3. ASSUME NEW p \in Callers, job[p] # Idle, NEW stage, NEW amount,
             Continue(p, stage, amount),
             stage = "apply" => /\ job[p].inv \in DOMAIN invoice
                                /\ amount <= invoice[job[p].inv].total
      PROVE  JobChange(q)
  <2>1. CASE q # p
    BY <1>3, <2>1 DEF Continue, JobChange, TypeOK
  <2>2. CASE q = p
    <3>1. job[p] \in Jobs /\ job'[p] = [job[p] EXCEPT !.stage = stage, !.amount = amount]
      BY <1>3, JobFields DEF Continue, TypeOK, Job
    <3>2. /\ job'[p].stage = stage /\ job'[p].amount = amount
          /\ job'[p].inv = job[p].inv /\ job'[p].company = job[p].company
          /\ job'[p] # Idle
      <4>1. job'[p] \in [stage : {stage}, inv : InvoiceIds, company : Companies, amount : {amount}]
        BY <3>1 DEF Jobs
      <4>. QED BY <3>1, <4>1 DEF Jobs, Idle
    <3>. QED BY <1>3, <2>2, <3>2 DEF JobChange
  <2>. QED BY <2>1, <2>2
<1>4. ASSUME NEW p \in Callers, NEW i \in InvoiceIds, FinalizeMark(p, i)
      PROVE  JobChange(q)
  <2>1. CASE q # p
    BY <1>4, <2>1 DEF FinalizeMark, JobChange, TypeOK
  <2>2. CASE q = p
    <3>. DEFINE stage == StageAfter(invoice[i])
                amount == CASE stage = "prepayment" -> invoice[i].subtotal
                            [] stage = "negative"   -> -invoice[i].total
                            [] stage = "regular"    -> 0
                row == [stage |-> stage, inv |-> i, company |-> invoice[i].company,
                        amount |-> amount]
    <3>1. i \in DOMAIN invoice /\ invoice[i] \in Invoice
      BY <1>4, InvoiceRow DEF FinalizeMark, MayFinalize
    <3>2. stage # "apply"
      BY <3>1 DEF StageAfter, Invoice
    <3>3. job'[p] = row
      BY <1>4 DEF FinalizeMark, TypeOK
    <3>. HIDE DEF stage, amount
    <3>4. /\ job'[p] # Idle /\ job'[p].stage # "apply" /\ job'[p].inv = i
          /\ job'[p].company = invoice[i].company
      BY <3>2, <3>3 DEF Idle
    <3>. QED BY <2>2, <3>1, <3>4 DEF JobChange
  <2>. QED BY <2>1, <2>2
<1>5. ASSUME NEW p \in Callers, FinalizeStep(p)
      PROVE  JobChange(q)
  <2>1. CASE Finish(p)
    BY <1>2, <2>1
  <2>2. CASE FinalizeReadCredit(p)
    BY <1>2, <1>3, <2>2 DEF FinalizeReadCredit, At
  <2>3. CASE FinalizeReadInvoice(p)
    <3>1. job[p] # Idle /\ job[p] \in Jobs
      BY <2>3, JobFields DEF FinalizeReadInvoice, At, Job
    <3>2. ASSUME job[p].inv \in DOMAIN invoice
          PROVE  Least(job[p].amount, invoice[job[p].inv].total) <= invoice[job[p].inv].total
      BY <3>1, <3>2, InvoiceRow DEF Least, Jobs, Invoice
    <3>3. \/ Finish(p)
          \/ /\ job[p].inv \in DOMAIN invoice
             /\ Continue(p, "apply", Least(job[p].amount, invoice[job[p].inv].total))
      BY <2>3 DEF FinalizeReadInvoice
    <3>. QED BY <1>2, <1>3, <3>1, <3>2, <3>3
  <2>. QED BY <1>5, <2>1, <2>2, <2>3
           DEF FinalizeStep, FinalizePrepayment, FinalizeNegative, FinalizeApply
<1>6. CASE Finalizing
  BY <1>2, <1>4, <1>5, <1>6 DEF Finalizing, Crash
<1>7. CASE Invoicing
  BY <1>1, <1>7 DEF Invoicing, CreatePrepaymentInvoice, GenerateInvoice, InsertCycleInvoice
<1>8. CASE Changing
  <2>. PICK i \in InvoiceIds :
       \/ \E subtotal \in Totals, tax \in Taxes :
            EditInvoice(i, subtotal, tax) \/ FillCycleInvoice(i, subtotal, tax)
       \/ \E request \in Amounts : ApplyCreditToInvoice(i, request)
       \/ UnfinalizeInvoice(i)
       \/ HardDeleteInvoice(i)
    BY <1>8 DEF Changing
  <2>1. ASSUME HardDeleteInvoice(i)
        PROVE  UNCHANGED job
    BY <2>1, Zenon DEF HardDeleteInvoice
  <2>. QED BY <1>1, <2>1, TotalsAlone DEF ApplyCreditToInvoice, UnfinalizeInvoice
<1>9. CASE Administering
  BY <1>1, <1>9 DEF Administering, ExpireCredits, ManuallyExpireCredit, Expire,
                    TransferCredit, UpdateCreditExpiration
<1>10. CASE Tick
  BY <1>1, <1>10 DEF Tick
<1>. QED BY <1>1, <1>6, <1>7, <1>8, <1>9, <1>10 DEF Next, vars

\* No step leaves a process with a request beyond the full amount.
LEMMA RequestStep ==
  ASSUME BillingInv, TypeOK', BillChange, [Next]_vars
  PROVE  RequestBounded'
<1>. USE DEF BillingInv
<1>. SUFFICES ASSUME NEW p \in Callers, job'[p] # Idle
              PROVE  /\ job'[p].inv \in DOMAIN moved'
                     /\ job'[p].stage = "apply" /\ job'[p].inv \in DOMAIN invoice'
                          => \/ invoice'[job'[p].inv].rewritten
                             \/ job'[p].amount <= NewFull(job'[p].inv)
                             \/ job'[p].amount <= 0
  BY DEF RequestBounded, Full, NewFull
<1>1. DOMAIN moved \subseteq DOMAIN moved' /\ DOMAIN invoice \subseteq DOMAIN moved
  BY IdsStay DEF IdsKept, TypeOK
<1>2. ASSUME NEW i \in DOMAIN moved, i \in DOMAIN invoice'
      PROVE  /\ i \in DOMAIN invoice
             /\ ~invoice'[i].rewritten => ~invoice[i].rewritten /\ NewFull(i) = Full(i)
  BY <1>2 DEF BillChange, Kept, Full, NewFull
<1>3. ASSUME NEW i \in DOMAIN invoice
      PROVE  /\ invoice[i].total \in Int /\ Full(i) \in Int
             /\ ~invoice[i].rewritten => invoice[i].total <= Full(i)
  <2>1. /\ invoice[i].subtotal \in Int /\ invoice[i].tax \in Int
        /\ invoice[i].applied \in Nat /\ invoice[i].total \in Int
    BY <1>3, InvoiceRow DEF Invoice
  <2>2. ~invoice[i].rewritten =>
          invoice[i].total = invoice[i].subtotal + invoice[i].tax - invoice[i].applied
    BY <1>3, <2>1 DEF NeverOverApplied
  <2>. QED BY <2>1, <2>2 DEF Full
<1>4. CASE job'[p] = job[p]
  <2>1. /\ job[p].inv \in DOMAIN moved
        /\ job[p].stage = "apply" /\ job[p].inv \in DOMAIN invoice
             => \/ invoice[job[p].inv].rewritten
                \/ job[p].amount <= Full(job[p].inv) \/ job[p].amount <= 0
    BY <1>4 DEF RequestBounded
  <2>. QED BY <1>1, <1>2, <1>4, <2>1
<1>5. CASE job'[p].stage # "apply" /\ job'[p].inv \in DOMAIN invoice
  BY <1>1, <1>5
<1>6. CASE /\ job[p] # Idle /\ job'[p].inv = job[p].inv
           /\ job'[p].stage = "apply" =>
                /\ job'[p].inv \in DOMAIN invoice
                /\ job'[p].amount <= invoice[job'[p].inv].total
  <2>1. job'[p].inv \in DOMAIN moved
    BY <1>6 DEF RequestBounded
  <2>2. ASSUME job'[p].stage = "apply", job'[p].inv \in DOMAIN invoice',
               ~invoice'[job'[p].inv].rewritten
        PROVE  job'[p].amount <= NewFull(job'[p].inv) \/ job'[p].amount <= 0
    <3>1. job'[p].amount \in Int
      <4>1. job'[p] \in Jobs
        BY DEF TypeOK, Job
      <4>. QED BY <4>1 DEF Jobs
    <3>2. /\ job'[p].inv \in DOMAIN invoice
          /\ job'[p].amount <= invoice[job'[p].inv].total
      BY <1>6, <2>2
    <3>3. ~invoice[job'[p].inv].rewritten => job'[p].amount <= Full(job'[p].inv)
      BY <1>3, <3>1, <3>2
    <3>. QED BY <1>2, <2>1, <2>2, <3>3
  <2>. QED BY <1>1, <2>1, <2>2
<1>. QED BY <1>4, <1>5, <1>6, JobChanges DEF JobChange

\* What is due stays the amount less what is applied, what is allocated stays
\* within the amount, and so does what pages offer.
LEMMA OverStep ==
  ASSUME BillingInv, TypeOK', BillChange
  PROVE  AllocatedIsApplied' /\ OfferedWithin' /\ NeverOverApplied'
<1>. USE DEF BillingInv
<1>. SUFFICES ASSUME NEW i \in DOMAIN invoice', ~invoice'[i].rewritten
              PROVE  /\ invoice'[i].allocated = invoice'[i].applied
                     /\ invoice'[i].total = NewFull(i) - invoice'[i].applied
                     /\ NewFull(i) > 0 =>
                          /\ invoice'[i].allocated <= NewFull(i)
                          /\ invoice'[i].offered <= NewFull(i)
                          /\ invoice'[i].offered = 0 =>
                               NewFull(i) <= invoice'[i].allocated
  BY DEF AllocatedIsApplied, OfferedWithin, NeverOverApplied, Full, NewFull
<1>1. NewFull(i) \in Int /\ invoice'[i].offered \in Int
  <2>1. invoice'[i] \in Invoice
    BY DEF TypeOK
  <2>2. /\ invoice'[i].subtotal \in Int /\ invoice'[i].tax \in Nat
        /\ invoice'[i].offered \in Int
    BY <2>1 DEF Invoice
  <2>. QED BY <2>2 DEF NewFull
<1>2. CASE i \notin DOMAIN invoice
  <2>1. /\ invoice'[i].applied = 0 /\ invoice'[i].allocated = 0
        /\ invoice'[i].total = NewFull(i) /\ invoice'[i].offered = NewFull(i)
    BY <1>2 DEF BillChange
  <2>. QED BY <1>1, <2>1
<1>3. CASE i \in DOMAIN invoice
  <2>1. /\ invoice[i].allocated \in Nat /\ invoice[i].total \in Int
        /\ invoice[i].offered \in Int /\ Full(i) \in Int
    <3>1. /\ invoice[i].allocated \in Nat /\ invoice[i].total \in Int
          /\ invoice[i].offered \in Int
          /\ invoice[i].subtotal \in Int /\ invoice[i].tax \in Nat
      BY <1>3, InvoiceRow DEF Invoice
    <3>. QED BY <3>1 DEF Full
  <2>2. /\ ~invoice[i].rewritten /\ NewFull(i) = Full(i)
    BY <1>3 DEF BillChange, Kept, Full, NewFull
  <2>3. /\ invoice[i].allocated = invoice[i].applied
        /\ invoice[i].total = Full(i) - invoice[i].applied
        /\ Full(i) > 0 => /\ invoice[i].allocated <= Full(i)
                          /\ invoice[i].offered <= Full(i)
                          /\ invoice[i].offered = 0 => Full(i) <= invoice[i].allocated
    BY <1>3, <2>2 DEF AllocatedIsApplied, OfferedWithin, NeverOverApplied, Full
  <2>4. CASE /\ invoice'[i].total = invoice[i].total
             /\ invoice'[i].applied = invoice[i].applied
             /\ invoice'[i].allocated = invoice[i].allocated
             /\ invoice'[i].offered = invoice[i].offered
    BY <2>2, <2>3, <2>4
  <2>5. ASSUME NEW taken \in Nat,
               invoice'[i].total = invoice[i].total - taken,
               invoice'[i].applied = invoice[i].applied + taken,
               invoice'[i].allocated = invoice[i].allocated + taken,
               invoice'[i].offered = Looser(invoice[i].offered, invoice[i].total - taken),
               Full(i) > 0 => invoice[i].allocated + taken <= Full(i)
        PROVE  /\ invoice'[i].allocated = invoice'[i].applied
               /\ invoice'[i].total = NewFull(i) - invoice'[i].applied
               /\ NewFull(i) > 0 =>
                    /\ invoice'[i].allocated <= NewFull(i)
                    /\ invoice'[i].offered <= NewFull(i)
                    /\ invoice'[i].offered = 0 => NewFull(i) <= invoice'[i].allocated
    BY <2>1, <2>2, <2>3, <2>5 DEF Looser
  <2>. QED BY <1>3, <2>3, <2>4, <2>5 DEF BillChange
<1>. QED BY <1>2, <1>3

LEMMA BillingStep ==
  ASSUME BillingInv, [Next]_vars
  PROVE  BillingInv'
<1>1. TypeOK'
  BY TypeStep DEF BillingInv
<1>2. BillChange
  BY BillChanges
<1>. QED BY <1>1, <1>2, RequestStep, OverStep DEF BillingInv

\* Unless its totals are written again, an invoice is never allocated more
\* than its full amount, however many processes finalize it, how often it is
\* reopened, what crashes, and however old the pages are from which credit is
\* applied to it.
THEOREM NeverOver == Spec => []NeverOverApplied
<1>1. Init => BillingInv
  BY TypeInit DEF Init, BillingInv, AllocatedIsApplied, OfferedWithin,
                  RequestBounded, NeverOverApplied
<1>2. BillingInv /\ [Next]_vars => BillingInv'
  BY BillingStep
<1>3. BillingInv => NeverOverApplied
  BY DEF BillingInv
<1>. QED BY <1>1, <1>2, <1>3, PTL DEF Spec

-----------------------------------------------------------------------------
(* Whose an invoice, a credit and a finalization are.  The company an id was *)
(* given to is in moved.                                                     *)

OwnInvoices ==
  \A i \in DOMAIN invoice : invoice[i].company = moved[i].company

OwnJobs ==
  \A p \in Callers :
    job[p] # Idle => /\ job[p].inv \in DOMAIN moved
                     /\ job[p].company = moved[job[p].inv].company

OwnCredits ==
  \A e \in DOMAIN credit :
    credit[e].source # NoInvoice =>
      /\ credit[e].source \in DOMAIN moved
      /\ credit[e].company = moved[credit[e].source].company

Owned == IsFiniteSet(DOMAIN moved) /\ OwnInvoices /\ OwnJobs /\ OwnCredits

LEMMA InvoicesOwned ==
  ASSUME TypeOK, Owned, IdsKept, [Next]_vars
  PROVE  OwnInvoices'
<1>1. CASE UNCHANGED invoice
  BY <1>1 DEF Owned, OwnInvoices, IdsKept, TypeOK
<1>2. ASSUME DOMAIN invoice' \subseteq DOMAIN invoice,
             \A i \in DOMAIN invoice' : invoice'[i].company = invoice[i].company
      PROVE  OwnInvoices'
  BY <1>2 DEF Owned, OwnInvoices, IdsKept, TypeOK
<1>3. ASSUME NEW i \in DOMAIN invoice, NEW row \in Invoice,
             row.company = invoice[i].company, invoice' = [invoice EXCEPT ![i] = row]
      PROVE  OwnInvoices'
  BY <1>2, <1>3
<1>4. ASSUME NEW i, i \notin DOMAIN moved, NEW old, NEW new, old.company = new.company,
             invoice' = Put(invoice, i, old), moved' = Put(moved, i, new)
      PROVE  OwnInvoices'
  BY <1>4 DEF Put, Owned, OwnInvoices, TypeOK
<1>5. ASSUME NEW i \in DOMAIN invoice, NEW c, NEW request, ApplyTo(i, c, request)
      PROVE  OwnInvoices'
  <2>1. PICK total \in 1 .. Capped(i, request) :
          invoice' = [invoice EXCEPT ![i].applied = @ + total, ![i].allocated = @ + total,
                                     ![i].total = @ - total,
                                     ![i].offered = Looser(@, invoice[i].total - total)]
    BY <1>5 DEF ApplyTo
  <2>2. invoice[i] \in Invoice
    BY InvoiceRow
  <2>3. /\ DOMAIN invoice' = DOMAIN invoice
        /\ \A k \in DOMAIN invoice \ {i} : invoice'[k] = invoice[k]
        /\ invoice'[i] = [invoice[i] EXCEPT !.applied = @ + total, !.allocated = @ + total,
                                            !.total = @ - total,
                                            !.offered = Looser(@, invoice[i].total - total)]
    BY <2>1, <2>2
  <2>4. invoice'[i].company = invoice[i].company
    BY <2>2, <2>3 DEF Invoice
  <2>. QED BY <1>2, <2>3, <2>4
<1>6. ASSUME NEW i, NEW c, NEW kind, NEW subtotal, NEW tax,
             NewInvoice(i, c, kind, subtotal, tax)
      PROVE  OwnInvoices'
  <2>. DEFINE old == [company |-> c, kind |-> kind, subtotal |-> subtotal, tax |-> tax,
                      total |-> subtotal + tax, applied |-> 0, allocated |-> 0,
                      finalized |-> FALSE, filled |-> TRUE, offered |-> subtotal + tax,
                      rewritten |-> FALSE]
              new == [company |-> c, amount |-> 0]
  <2>1. /\ i \notin DOMAIN moved
        /\ invoice' = Put(invoice, i, old) /\ moved' = Put(moved, i, new)
    BY <1>6 DEF NewInvoice
  <2>2. old.company = new.company
    OBVIOUS
  <2>. HIDE DEF old, new
  <2>. QED BY <1>4, <2>1, <2>2
<1>7. CASE Invoicing
  <2>1. ASSUME NEW i, NEW c, InsertCycleInvoice(i, c)
        PROVE  OwnInvoices'
    <3>. DEFINE old == [company |-> c, kind |-> "cycle", subtotal |-> 0, tax |-> 0,
                        total |-> 0, applied |-> 0, allocated |-> 0,
                        finalized |-> FALSE, filled |-> FALSE, offered |-> 0,
                        rewritten |-> FALSE]
                new == [company |-> c, amount |-> 0]
    <3>1. /\ i \notin DOMAIN moved
          /\ invoice' = Put(invoice, i, old) /\ moved' = Put(moved, i, new)
      BY <2>1 DEF InsertCycleInvoice
    <3>2. old.company = new.company
      OBVIOUS
    <3>. HIDE DEF old, new
    <3>. QED BY <1>4, <3>1, <3>2
  <2>. QED BY <1>6, <1>7, <2>1 DEF Invoicing, CreatePrepaymentInvoice, GenerateInvoice
<1>8. CASE Changing
  <2>. PICK i \in InvoiceIds :
       \/ \E subtotal \in Totals, tax \in Taxes :
            EditInvoice(i, subtotal, tax) \/ FillCycleInvoice(i, subtotal, tax)
       \/ \E request \in Amounts : ApplyCreditToInvoice(i, request)
       \/ UnfinalizeInvoice(i)
       \/ HardDeleteInvoice(i)
    BY <1>8 DEF Changing
  <2>1. ASSUME NEW subtotal \in Totals, NEW tax \in Taxes,
               EditInvoice(i, subtotal, tax) \/ FillCycleInvoice(i, subtotal, tax)
        PROVE  OwnInvoices'
    <3>1. i \in DOMAIN invoice /\ invoice[i] \in Invoice
      BY <2>1, InvoiceRow DEF EditInvoice, FillCycleInvoice
    <3>2. \/ invoice' = [invoice EXCEPT ![i].subtotal = subtotal, ![i].tax = tax,
                                        ![i].total = subtotal + tax,
                                        ![i].offered = Looser(@, subtotal + tax),
                                        ![i].rewritten = TRUE]
          \/ invoice' = [invoice EXCEPT ![i].subtotal = subtotal, ![i].tax = tax,
                                        ![i].total = subtotal + tax, ![i].applied = 0,
                                        ![i].filled = TRUE,
                                        ![i].offered = Looser(@, subtotal + tax),
                                        ![i].rewritten = TRUE]
      BY <2>1 DEF EditInvoice, FillCycleInvoice
    <3>3. DOMAIN invoice' = DOMAIN invoice /\ invoice'[i].company = invoice[i].company
          /\ \A k \in DOMAIN invoice \ {i} : invoice'[k] = invoice[k]
      BY <3>1, <3>2 DEF Invoice
    <3>. QED BY <1>2, <3>3
  <2>2. ASSUME NEW request, ApplyCreditToInvoice(i, request)
        PROVE  OwnInvoices'
    BY <1>5, <2>2 DEF ApplyCreditToInvoice
  <2>3. CASE UnfinalizeInvoice(i)
    <3>1. i \in DOMAIN invoice /\ invoice[i] \in Invoice
      BY <2>3, InvoiceRow DEF UnfinalizeInvoice, Finalized
    <3>2. invoice' = [invoice EXCEPT ![i].finalized = FALSE]
      BY <2>3 DEF UnfinalizeInvoice
    <3>3. DOMAIN invoice' = DOMAIN invoice /\ invoice'[i].company = invoice[i].company
          /\ \A k \in DOMAIN invoice \ {i} : invoice'[k] = invoice[k]
      BY <3>1, <3>2 DEF Invoice
    <3>. QED BY <1>2, <3>3
  <2>4. CASE HardDeleteInvoice(i)
    <3>1. CASE invoice' = Drop(invoice, i)
      BY <1>2, <3>1 DEF Drop
    <3>2. UNCHANGED invoice \/ invoice' = Drop(invoice, i)
      BY <2>4, Zenon DEF HardDeleteInvoice
    <3>. QED BY <1>1, <3>1, <3>2
  <2>. QED BY <2>1, <2>2, <2>3, <2>4
<1>9. CASE Finalizing
  <2>. PICK p \in Callers :
         (\E i \in InvoiceIds : FinalizeMark(p, i)) \/ FinalizeStep(p) \/ Crash(p)
    BY <1>9 DEF Finalizing
  <2>1. ASSUME NEW i \in InvoiceIds, FinalizeMark(p, i)
        PROVE  OwnInvoices'
    <3>1. i \in DOMAIN invoice /\ invoice[i] \in Invoice
      BY <2>1, InvoiceRow DEF FinalizeMark, MayFinalize
    <3>2. invoice' = [invoice EXCEPT ![i].finalized = TRUE]
      BY <2>1 DEF FinalizeMark
    <3>3. DOMAIN invoice' = DOMAIN invoice /\ invoice'[i].company = invoice[i].company
          /\ \A k \in DOMAIN invoice \ {i} : invoice'[k] = invoice[k]
      BY <3>1, <3>2 DEF Invoice
    <3>. QED BY <1>2, <3>3
  <2>2. CASE FinalizeApply(p)
    BY <1>1, <1>5, <2>2 DEF FinalizeApply, Applies
  <2>. QED BY <1>1, <2>1, <2>2
           DEF FinalizeStep, FinalizePrepayment, FinalizeNegative,
               FinalizeReadCredit, FinalizeReadInvoice, Crash
<1>10. CASE Tick \/ Administering
  BY <1>1, <1>10 DEF Tick, Administering, ExpireCredits, ManuallyExpireCredit, Expire,
                     TransferCredit, UpdateCreditExpiration
<1>. QED BY <1>1, <1>7, <1>8, <1>9, <1>10 DEF Next, vars

LEMMA JobsOwned ==
  ASSUME TypeOK, Owned, IdsKept, [Next]_vars
  PROVE  OwnJobs'
<1>. SUFFICES ASSUME NEW p \in Callers, job'[p] # Idle
              PROVE  /\ job'[p].inv \in DOMAIN moved'
                     /\ job'[p].company = moved'[job'[p].inv].company
  BY DEF OwnJobs
<1>1. JobChange(p)
  BY JobChanges
<1>2. CASE job[p] # Idle /\ job'[p].inv = job[p].inv /\ job'[p].company = job[p].company
  BY <1>2 DEF Owned, OwnJobs, IdsKept
<1>3. CASE job'[p].inv \in DOMAIN invoice
           /\ job'[p].company = invoice[job'[p].inv].company
  BY <1>3 DEF Owned, OwnInvoices, IdsKept, TypeOK
<1>. QED BY <1>1, <1>2, <1>3 DEF JobChange

\* A credit is issued for an invoice of its company, or for none.
Issues(row) ==
  row.source # NoInvoice =>
    row.source \in DOMAIN moved' /\ row.company = moved'[row.source].company

LEMMA PutIssues ==
  ASSUME NEW f, DOMAIN f = DOMAIN credit, NEW id, NEW row, Issues(row),
         credit' = Put(f, id, row)
  PROVE  \A e \in DOMAIN credit' \ DOMAIN credit : Issues(credit'[e])
BY DEF Put

LEMMA NewCreditsOwned ==
  ASSUME TypeOK, Owned, IdsKept, [Next]_vars
  PROVE  \A e \in DOMAIN credit' \ DOMAIN credit : Issues(credit'[e])
<1>. DEFINE Goal == \A e \in DOMAIN credit' \ DOMAIN credit : Issues(credit'[e])
<1>1. CASE DOMAIN credit' \subseteq DOMAIN credit
  BY <1>1
<1>2. ASSUME NEW i \in InvoiceIds, NEW c \in Companies, NEW amount, NEW expires,
             CreatePrepaymentInvoice(i, c, amount, expires)
      PROVE  Goal
  <2>. DEFINE row == NewCredit(c, "prepayment", i, amount, expires)
              new == [company |-> c, amount |-> 0]
  <2>1. moved' = Put(moved, i, new) /\ credit' = Put(credit, issued + 1, row)
    BY <1>2 DEF CreatePrepaymentInvoice, NewInvoice, Issue
  <2>2. row.source = i /\ row.company = new.company
    BY DEF NewCredit
  <2>. HIDE DEF row, new
  <2>3. Issues(row)
    BY <2>1, <2>2 DEF Issues, Put
  <2>. QED BY <2>1, <2>3, PutIssues
<1>3. ASSUME NEW p \in Callers, NEW expires, FinalizeNegative(p, expires)
      PROVE  Goal
  <2>. DEFINE row == NewCredit(job[p].company, "negative", job[p].inv, job[p].amount,
                               expires)
  <2>1. UNCHANGED credit \/ credit' = Put(credit, issued + 1, row)
    BY <1>3, Zenon DEF FinalizeNegative, Issue
  <2>2. row.source = job[p].inv /\ row.company = job[p].company /\ job[p] # Idle
    BY <1>3 DEF NewCredit, FinalizeNegative, At
  <2>. HIDE DEF row
  <2>3. Issues(row)
    BY <2>2 DEF Issues, Owned, OwnJobs, IdsKept
  <2>. QED BY <1>1, <2>1, <2>3, PutIssues
<1>4. ASSUME NEW e, NEW c, NEW amount, TransferCredit(e, c, amount)
      PROVE  Goal
  <2>. DEFINE rest == [credit EXCEPT ![e].remaining = @ - amount]
              row == NewCredit(c, "transfer", NoInvoice, amount, credit[e].expires)
  <2>1. credit' = Put(rest, issued + 1, row) /\ DOMAIN rest = DOMAIN credit
    BY <1>4 DEF TransferCredit
  <2>2. Issues(row)
    BY DEF Issues, NewCredit
  <2>. HIDE DEF rest, row
  <2>. QED BY <2>1, <2>2, PutIssues
<1>5. ASSUME NEW i, NEW c, NEW request, ApplyTo(i, c, request)
      PROVE  DOMAIN credit' = DOMAIN credit
  BY <1>5, Zenon DEF ApplyTo
<1>6. CASE Invoicing
  BY <1>1, <1>2, <1>6 DEF Invoicing, GenerateInvoice, InsertCycleInvoice
<1>7. CASE Changing
  <2>. PICK i \in InvoiceIds :
       \/ \E subtotal \in Totals, tax \in Taxes :
            EditInvoice(i, subtotal, tax) \/ FillCycleInvoice(i, subtotal, tax)
       \/ \E request \in Amounts : ApplyCreditToInvoice(i, request)
       \/ UnfinalizeInvoice(i)
       \/ HardDeleteInvoice(i)
    BY <1>7 DEF Changing
  <2>1. HardDeleteInvoice(i) => UNCHANGED credit \/ \E e : credit' = Drop(credit, e)
    BY Zenon DEF HardDeleteInvoice
  <2>2. HardDeleteInvoice(i) => DOMAIN credit' \subseteq DOMAIN credit
    BY <2>1 DEF Drop
  <2>. QED BY <1>1, <1>5, <2>2, TotalsAlone DEF ApplyCreditToInvoice, UnfinalizeInvoice
<1>8. CASE Finalizing
  BY <1>1, <1>3, <1>5, <1>8
     DEF Finalizing, FinalizeMark, FinalizeStep, FinalizePrepayment, FinalizeReadCredit,
         FinalizeReadInvoice, FinalizeApply, Crash
<1>9. CASE Administering
  BY <1>1, <1>4, <1>9 DEF Administering, ExpireCredits, ManuallyExpireCredit, Expire,
                          UpdateCreditExpiration
<1>10. CASE Tick
  BY <1>1, <1>10 DEF Tick
<1>. QED BY <1>1, <1>6, <1>7, <1>8, <1>9, <1>10 DEF Next, vars

LEMMA CreditsOwned ==
  ASSUME TypeOK, Owned, IdsKept, [Next]_vars
  PROVE  OwnCredits'
<1>. SUFFICES ASSUME NEW e \in DOMAIN credit' PROVE Issues(credit'[e])
  BY DEF OwnCredits, Issues
<1>1. CASE e \in DOMAIN credit
  <2>1. credit[e] \in Credit /\ RowChange(credit[e], credit'[e])
    BY <1>1, CreditChanges DEF CreditChange, TypeOK
  <2>2. credit'[e].source = credit[e].source /\ credit'[e].company = credit[e].company
    BY <2>1, EmptiedType DEF RowChange
  <2>. QED BY <1>1, <2>2 DEF Issues, Owned, OwnCredits, IdsKept
<1>. QED BY <1>1, NewCreditsOwned

\* Invoices, credits and finalizations stay those of one company.
LEMMA OwnedStep ==
  ASSUME TypeOK, Owned, [Next]_vars
  PROVE  Owned'
BY IdsStay, InvoicesOwned, JobsOwned, CreditsOwned DEF Owned, IdsKept

LEMMA OwnedInit == Init => Owned
BY FS_EmptySet DEF Init, Owned, OwnInvoices, OwnJobs, OwnCredits

-----------------------------------------------------------------------------
(* The sums of a company, as functions of the rows: what its credits have    *)
(* left, what its prepayments were issued for, what its invoices have        *)
(* allocated, and what was moved for them.                                   *)

Rows(rows) == IsFiniteSet(DOMAIN rows) /\ rows \in [DOMAIN rows -> Credit]

LeftIn(rows, c) ==
  SumFunction([e \in {r \in DOMAIN rows : rows[r].company = c} |-> rows[e].remaining])

PrepaidIn(rows, c) ==
  SumFunction([e \in {r \in {q \in DOMAIN rows : rows[q].company = c} :
                        rows[r].kind = "prepayment"} |-> rows[e].amount])

\* Of invoices "allocated", of moved "amount".
TotalIn(rows, c, field) ==
  SumFunction([i \in {r \in DOMAIN rows : rows[r].company = c} |-> rows[i][field]])

\* The sums are integers.
LEMMA LeftInt ==
  ASSUME NEW rows, Rows(rows), NEW c
  PROVE  LeftIn(rows, c) \in Int /\ PrepaidIn(rows, c) \in Int
<1>. DEFINE S == {r \in DOMAIN rows : rows[r].company = c}
            T == {r \in S : rows[r].kind = "prepayment"}
            f == [e \in S |-> rows[e].remaining]
            g == [e \in T |-> rows[e].amount]
<1>1. IsFiniteSet(S) /\ IsFiniteSet(T)
  BY FS_Subset DEF Rows
<1>2. (\A e \in S : f[e] \in Int) /\ (\A e \in T : g[e] \in Int)
  BY DEF Rows, Credit
<1>3. LeftIn(rows, c) = SumFunctionOnSet(f, S)
      /\ PrepaidIn(rows, c) = SumFunctionOnSet(g, T)
  BY DEF LeftIn, PrepaidIn, SumFunction
<1>. HIDE DEF S, T, f, g
<1>. QED BY <1>1, <1>2, <1>3, SumInt

\* A row more.
LEMMA LeftMore ==
  ASSUME NEW rows, Rows(rows), NEW more, Rows(more), NEW id, id \notin DOMAIN rows,
         DOMAIN more = DOMAIN rows \cup {id}, \A e \in DOMAIN rows : more[e] = rows[e],
         NEW c
  PROVE  /\ LeftIn(more, c)
              = LeftIn(rows, c) + (IF more[id].company = c THEN more[id].remaining ELSE 0)
         /\ PrepaidIn(more, c)
              = PrepaidIn(rows, c)
                + (IF more[id].company = c /\ more[id].kind = "prepayment"
                   THEN more[id].amount ELSE 0)
<1>. DEFINE S  == {r \in DOMAIN rows : rows[r].company = c}
            T  == {r \in S : rows[r].kind = "prepayment"}
            SM == {r \in DOMAIN more : more[r].company = c}
            TM == {r \in SM : more[r].kind = "prepayment"}
            f  == [e \in S |-> rows[e].remaining]
            g  == [e \in T |-> rows[e].amount]
            fm == [e \in SM |-> more[e].remaining]
            gm == [e \in TM |-> more[e].amount]
<1>1. IsFiniteSet(S) /\ IsFiniteSet(T) /\ id \notin S /\ id \notin T
  BY FS_Subset DEF Rows
<1>2. /\ LeftIn(rows, c) = SumFunctionOnSet(f, S)
      /\ PrepaidIn(rows, c) = SumFunctionOnSet(g, T)
      /\ LeftIn(more, c) = SumFunctionOnSet(fm, SM)
      /\ PrepaidIn(more, c) = SumFunctionOnSet(gm, TM)
  BY DEF LeftIn, PrepaidIn, SumFunction
<1>3. LeftIn(rows, c) \in Int /\ PrepaidIn(rows, c) \in Int
  BY LeftInt
<1>4. /\ \A e \in S : e \in SM /\ f[e] \in Int /\ fm[e] = f[e]
      /\ \A e \in T : e \in TM /\ g[e] \in Int /\ gm[e] = g[e]
  BY DEF Rows, Credit
<1>5. more[id].remaining \in Int /\ more[id].amount \in Int
  BY DEF Rows, Credit
<1>6. CASE more[id].company = c
  <2>1. SM = S \cup {id} /\ fm[id] = more[id].remaining
    BY <1>6
  <2>2. SumFunctionOnSet(fm, SM) = SumFunctionOnSet(f, S) + fm[id]
    <3>1. \A e \in S \cup {id} : fm[e] \in Int
      BY <1>4, <1>5, <2>1
    <3>2. \A e \in S : f[e] = fm[e]
      BY <1>4
    <3>. HIDE DEF S, SM, f, fm
    <3>3. SumFunctionOnSet(fm, S \cup {id}) = fm[id] + SumFunctionOnSet(fm, S)
      BY <1>1, <3>1, SumJoin
    <3>4. SumFunctionOnSet(fm, S) = SumFunctionOnSet(f, S)
      BY <1>1, <3>2, SumSame
    <3>. QED BY <1>2, <1>3, <1>5, <2>1, <3>3, <3>4
  <2>3. CASE more[id].kind = "prepayment"
    <3>1. TM = T \cup {id} /\ gm[id] = more[id].amount
      BY <1>6, <2>3
    <3>2. SumFunctionOnSet(gm, TM) = SumFunctionOnSet(g, T) + gm[id]
      <4>1. \A e \in T \cup {id} : gm[e] \in Int
        BY <1>4, <1>5, <3>1
      <4>2. \A e \in T : g[e] = gm[e]
        BY <1>4
      <4>. HIDE DEF T, TM, g, gm
      <4>3. SumFunctionOnSet(gm, T \cup {id}) = gm[id] + SumFunctionOnSet(gm, T)
        BY <1>1, <4>1, SumJoin
      <4>4. SumFunctionOnSet(gm, T) = SumFunctionOnSet(g, T)
        BY <1>1, <4>2, SumSame
      <4>. QED BY <1>2, <1>3, <1>5, <3>1, <4>3, <4>4
    <3>3. /\ LeftIn(more, c) = LeftIn(rows, c) + more[id].remaining
          /\ PrepaidIn(more, c) = PrepaidIn(rows, c) + more[id].amount
      <4>. HIDE DEF S, T, SM, TM, f, g, fm, gm
      <4>. QED BY <1>2, <2>1, <2>2, <3>1, <3>2
    <3>. QED BY <1>6, <2>3, <3>3
  <2>4. CASE more[id].kind # "prepayment"
    <3>1. TM = T
      BY <1>6, <2>4
    <3>2. SumFunctionOnSet(gm, TM) = SumFunctionOnSet(g, T)
      <4>. HIDE DEF T, TM, g, gm
      <4>. QED BY <1>1, <1>4, <3>1, SumSame
    <3>3. /\ LeftIn(more, c) = LeftIn(rows, c) + more[id].remaining
          /\ PrepaidIn(more, c) = PrepaidIn(rows, c) + 0
      <4>. HIDE DEF S, T, SM, TM, f, g, fm, gm
      <4>. QED BY <1>2, <1>3, <2>1, <2>2, <3>2
    <3>. QED BY <1>6, <2>4, <3>3
  <2>. QED BY <2>3, <2>4
<1>7. CASE more[id].company # c
  <2>1. SM = S /\ TM = T
    BY <1>7
  <2>2. SumFunctionOnSet(fm, SM) = SumFunctionOnSet(f, S)
        /\ SumFunctionOnSet(gm, TM) = SumFunctionOnSet(g, T)
    <3>. HIDE DEF S, T, SM, TM, f, g, fm, gm
    <3>. QED BY <1>1, <1>4, <2>1, SumSame
  <2>. HIDE DEF S, T, SM, TM, f, g, fm, gm
  <2>. QED BY <1>2, <1>3, <1>7, <2>2
<1>. QED BY <1>6, <1>7

\* Rows that stay in number, kind and amount, each with something less left.
SameRow(old, new) ==
  new.company = old.company /\ new.kind = old.kind /\ new.amount = old.amount

LEMMA LeftLess ==
  ASSUME NEW rows, Rows(rows), NEW less, Rows(less), DOMAIN less = DOMAIN rows,
         NEW d \in [DOMAIN rows -> Int],
         \A e \in DOMAIN rows : /\ SameRow(rows[e], less[e])
                                /\ less[e].remaining = rows[e].remaining - d[e],
         NEW c
  PROVE  /\ LeftIn(less, c)
              = LeftIn(rows, c)
                - SumFunctionOnSet(d, {r \in DOMAIN rows : rows[r].company = c})
         /\ PrepaidIn(less, c) = PrepaidIn(rows, c)
<1>. DEFINE S  == {r \in DOMAIN rows : rows[r].company = c}
            T  == {r \in S : rows[r].kind = "prepayment"}
            SM == {r \in DOMAIN less : less[r].company = c}
            TM == {r \in SM : less[r].kind = "prepayment"}
            f  == [e \in S |-> rows[e].remaining]
            g  == [e \in T |-> rows[e].amount]
            fm == [e \in SM |-> less[e].remaining]
            gm == [e \in TM |-> less[e].amount]
<1>1. IsFiniteSet(S) /\ IsFiniteSet(T)
  BY FS_Subset DEF Rows
<1>2. /\ LeftIn(rows, c) = SumFunctionOnSet(f, S)
      /\ PrepaidIn(rows, c) = SumFunctionOnSet(g, T)
      /\ LeftIn(less, c) = SumFunctionOnSet(fm, SM)
      /\ PrepaidIn(less, c) = SumFunctionOnSet(gm, TM)
  BY DEF LeftIn, PrepaidIn, SumFunction
<1>3. SM = S /\ TM = T
  BY DEF SameRow
<1>4. \A e \in S : f[e] \in Int /\ d[e] \in Int /\ fm[e] = f[e] - d[e]
  BY <1>3 DEF Rows, Credit
<1>5. \A e \in T : gm[e] = g[e]
  BY <1>3 DEF SameRow
<1>. HIDE DEF f, g, fm, gm
<1>6. SumFunctionOnSet(fm, S) = SumFunctionOnSet(f, S) - SumFunctionOnSet(d, S)
  <2>. HIDE DEF S
  <2>. QED BY <1>1, <1>4, SumMinus
<1>7. SumFunctionOnSet(gm, T) = SumFunctionOnSet(g, T)
  <2>. HIDE DEF T
  <2>. QED BY <1>1, <1>5, SumSame
<1>. QED BY <1>2, <1>3, <1>6, <1>7

Numbers(rows, field) ==
  IsFiniteSet(DOMAIN rows) /\ \A i \in DOMAIN rows : rows[i][field] \in Int

\* What comes and goes at zero does not count.
LEMMA TotalSame ==
  ASSUME NEW field, NEW old, Numbers(old, field), NEW new, Numbers(new, field),
         \A i \in DOMAIN old \cap DOMAIN new :
           new[i].company = old[i].company /\ new[i][field] = old[i][field],
         \A i \in DOMAIN old \ DOMAIN new : old[i][field] = 0,
         \A i \in DOMAIN new \ DOMAIN old : new[i][field] = 0,
         NEW c
  PROVE  TotalIn(new, c, field) = TotalIn(old, c, field)
<1>. DEFINE S == {r \in DOMAIN old : old[r].company = c}
            T == {r \in DOMAIN new : new[r].company = c}
            f == [i \in S |-> old[i][field]]
            g == [i \in T |-> new[i][field]]
            U == S \cap T
<1>1. IsFiniteSet(S) /\ IsFiniteSet(T) /\ IsFiniteSet(U)
  BY FS_Subset DEF Numbers
<1>2. TotalIn(old, c, field) = SumFunctionOnSet(f, S)
      /\ TotalIn(new, c, field) = SumFunctionOnSet(g, T)
  BY DEF TotalIn, SumFunction
<1>3. /\ \A e \in S : f[e] \in Int
      /\ \A e \in T : g[e] \in Int
      /\ \A e \in S \ U : f[e] = 0
      /\ \A e \in T \ U : g[e] = 0
      /\ \A e \in U : f[e] = g[e]
  BY DEF Numbers
<1>4. U \in SUBSET S /\ U \in SUBSET T
  OBVIOUS
<1>. HIDE DEF S, T, f, g, U
<1>5. SumFunctionOnSet(f, S) = SumFunctionOnSet(f, U)
  BY <1>1, <1>3, <1>4, SumWithin
<1>6. SumFunctionOnSet(g, T) = SumFunctionOnSet(g, U)
  BY <1>1, <1>3, <1>4, SumWithin
<1>7. SumFunctionOnSet(f, U) = SumFunctionOnSet(g, U)
  BY <1>1, <1>3, SumSame
<1>. QED BY <1>2, <1>5, <1>6, <1>7

LEMMA TotalInt ==
  ASSUME NEW field, NEW rows, Numbers(rows, field), NEW c
  PROVE  TotalIn(rows, c, field) \in Int
<1>. DEFINE S == {r \in DOMAIN rows : rows[r].company = c}
            f == [i \in S |-> rows[i][field]]
<1>1. IsFiniteSet(S) /\ \A e \in S : f[e] \in Int
  BY FS_Subset DEF Numbers
<1>2. TotalIn(rows, c, field) = SumFunctionOnSet(f, S)
  BY DEF TotalIn, SumFunction
<1>. HIDE DEF S, f
<1>. QED BY <1>1, <1>2, SumInt

LEMMA TotalPlus ==
  ASSUME NEW field, NEW old, Numbers(old, field), NEW new, Numbers(new, field),
         DOMAIN new = DOMAIN old, NEW k \in DOMAIN old,
         \A i \in DOMAIN old : new[i].company = old[i].company,
         \A i \in DOMAIN old \ {k} : new[i][field] = old[i][field],
         NEW c
  PROVE  TotalIn(new, c, field)
           = TotalIn(old, c, field)
             + (IF old[k].company = c THEN new[k][field] - old[k][field] ELSE 0)
<1>. DEFINE S == {r \in DOMAIN old : old[r].company = c}
            T == {r \in DOMAIN new : new[r].company = c}
            f == [i \in S |-> old[i][field]]
            g == [i \in T |-> new[i][field]]
<1>1. IsFiniteSet(S) /\ T = S
  BY FS_Subset DEF Numbers
<1>2. TotalIn(old, c, field) = SumFunctionOnSet(f, S)
      /\ TotalIn(new, c, field) = SumFunctionOnSet(g, S)
  BY <1>1 DEF TotalIn, SumFunction
<1>3. /\ \A e \in S : f[e] \in Int /\ g[e] \in Int
      /\ \A e \in S \ {k} : g[e] = f[e]
      /\ k \in S => f[k] = old[k][field] /\ g[k] = new[k][field]
  BY <1>1 DEF Numbers
<1>4. TotalIn(old, c, field) \in Int
  BY TotalInt
<1>5. CASE old[k].company = c
  <2>1. k \in S
    BY <1>5
  <2>. HIDE DEF S, T, f, g
  <2>2. SumFunctionOnSet(g, S) = SumFunctionOnSet(f, S) - f[k] + g[k]
    BY <1>1, <1>3, <2>1, SumAt
  <2>3. TotalIn(new, c, field) = TotalIn(old, c, field) + (new[k][field] - old[k][field])
    BY <1>2, <1>3, <1>4, <2>1, <2>2
  <2>. QED BY <1>5, <2>3
<1>6. CASE old[k].company # c
  <2>1. \A e \in S : g[e] = f[e]
    BY <1>3, <1>6
  <2>. HIDE DEF S, T, f, g
  <2>2. SumFunctionOnSet(g, S) = SumFunctionOnSet(f, S)
    BY <1>1, <2>1, SumSame
  <2>3. TotalIn(new, c, field) = TotalIn(old, c, field) + 0
    BY <1>2, <1>4, <2>2
  <2>. QED BY <1>6, <2>3
<1>. QED BY <1>5, <1>6

-----------------------------------------------------------------------------
(* What a company's balance and its transactions are made of *)

Left(c)        == LeftIn(credit, c)
Prepayments(c) == PrepaidIn(credit, c)
Allocated(c)   == TotalIn(invoice, c, "allocated")
Moved(c)       == TotalIn(moved, c, "amount")

Explained(c) ==
  /\ balance[c] = Left(c) - Prepayments(c) + Moved(c)
  /\ txSum[c] + Allocated(c) = Left(c)

\* What makes the sums exist.
Sound == TypeOK /\ IsFiniteSet(DOMAIN moved)

LEMMA SoundNumbers ==
  ASSUME Sound
  PROVE  /\ Rows(credit)
         /\ Numbers(invoice, "allocated")
         /\ Numbers(moved, "amount")
<1>1. IsFiniteSet(DOMAIN credit)
  BY LedgerAssumption, FS_Subset DEF Sound, TypeOK
<1>2. IsFiniteSet(DOMAIN invoice)
  BY FS_Subset DEF Sound, TypeOK
<1>3. \A i \in DOMAIN invoice : invoice[i]["allocated"] \in Int
  BY DEF Sound, TypeOK, Invoice
<1>4. \A i \in DOMAIN moved : moved[i]["amount"] \in Int
  BY DEF Sound, TypeOK
<1>. QED BY <1>1, <1>2, <1>3, <1>4 DEF Rows, Numbers, Sound, TypeOK

\* The same of the next state.
LEMMA SoundNumbersNext ==
  ASSUME Sound'
  PROVE  /\ Rows(credit')
         /\ Numbers(invoice', "allocated")
         /\ Numbers(moved', "amount")
<1>1. IsFiniteSet(DOMAIN credit')
  BY LedgerAssumption, FS_Subset DEF Sound, TypeOK
<1>2. IsFiniteSet(DOMAIN invoice')
  BY FS_Subset DEF Sound, TypeOK
<1>3. \A i \in DOMAIN invoice' : invoice'[i]["allocated"] \in Int
  BY DEF Sound, TypeOK, Invoice
<1>4. \A i \in DOMAIN moved' : moved'[i]["amount"] \in Int
  BY DEF Sound, TypeOK
<1>. QED BY <1>1, <1>2, <1>3, <1>4 DEF Rows, Numbers, Sound, TypeOK

LEMMA SoundSums ==
  ASSUME Sound, NEW c \in Companies
  PROVE  /\ balance[c] \in Int /\ txSum[c] \in Int
         /\ Left(c) \in Int /\ Prepayments(c) \in Int
         /\ Allocated(c) \in Int /\ Moved(c) \in Int
<1>1. balance[c] \in Int /\ txSum[c] \in Int
  BY DEF Sound, TypeOK
<1>2. Left(c) \in Int /\ Prepayments(c) \in Int
  BY SoundNumbers, LeftInt DEF Left, Prepayments
<1>3. Allocated(c) \in Int /\ Moved(c) \in Int
  BY SoundNumbers, TotalInt DEF Allocated, Moved
<1>. QED BY <1>1, <1>2, <1>3

LEMMA ExplainedIs ==
  /\ (\A c \in Companies : Explained(c)) => BalanceExplained
  /\ (\A c \in Companies : Explained(c)) => TransactionsExplained
BY DEF Explained, BalanceExplained, TransactionsExplained, Left, Prepayments, Allocated,
       Moved, LeftIn, PrepaidIn, TotalIn, RemainingIn, AmountIn, AllocatedTo, MovedFor,
       CreditsOf, Prepaid, Bills

-----------------------------------------------------------------------------
(* What a step does to the sums *)

\* Invoices come and go, and are changed, without their allocations.
QuietInvoices ==
  /\ \A i \in DOMAIN invoice \cap DOMAIN invoice' :
       /\ invoice'[i].company = invoice[i].company
       /\ invoice'[i].allocated = invoice[i].allocated
  /\ \A i \in DOMAIN invoice \ DOMAIN invoice' : invoice[i].allocated = 0
  /\ \A i \in DOMAIN invoice' \ DOMAIN invoice : invoice'[i].allocated = 0

LEMMA QuietAllocated ==
  ASSUME Sound, Sound', QuietInvoices, NEW c
  PROVE  Allocated(c)' = Allocated(c)
<1>1. Numbers(invoice, "allocated") /\ Numbers(invoice', "allocated")
  BY SoundNumbers, SoundNumbersNext
<1>2. /\ \A i \in DOMAIN invoice \cap DOMAIN invoice' :
           /\ invoice'[i].company = invoice[i].company
           /\ invoice'[i]["allocated"] = invoice[i]["allocated"]
      /\ \A i \in DOMAIN invoice \ DOMAIN invoice' : invoice[i]["allocated"] = 0
      /\ \A i \in DOMAIN invoice' \ DOMAIN invoice : invoice'[i]["allocated"] = 0
  BY DEF QuietInvoices
<1>3. TotalIn(invoice', c, "allocated") = TotalIn(invoice, c, "allocated")
  BY <1>1, <1>2, TotalSame
<1>. QED BY <1>3 DEF Allocated

\* An id is given, and nothing moved for it.
QuietMoves ==
  /\ DOMAIN moved \subseteq DOMAIN moved'
  /\ \A i \in DOMAIN moved : moved'[i] = moved[i]
  /\ \A i \in DOMAIN moved' \ DOMAIN moved : moved'[i].amount = 0

LEMMA QuietMoved ==
  ASSUME Sound, Sound', QuietMoves, NEW c
  PROVE  Moved(c)' = Moved(c)
<1>1. Numbers(moved, "amount") /\ Numbers(moved', "amount")
  BY SoundNumbers, SoundNumbersNext
<1>2. /\ \A i \in DOMAIN moved \cap DOMAIN moved' :
           /\ moved'[i].company = moved[i].company
           /\ moved'[i]["amount"] = moved[i]["amount"]
      /\ \A i \in DOMAIN moved \ DOMAIN moved' : moved[i]["amount"] = 0
      /\ \A i \in DOMAIN moved' \ DOMAIN moved : moved'[i]["amount"] = 0
  BY DEF QuietMoves
<1>3. TotalIn(moved', c, "amount") = TotalIn(moved, c, "amount")
  BY <1>1, <1>2, TotalSame
<1>. QED BY <1>3 DEF Moved

\* A step that moves no money explains what was explained.
LEMMA QuietStep ==
  ASSUME Sound, Sound', QuietInvoices, QuietMoves, UNCHANGED <<balance, credit, txSum>>,
         NEW c \in Companies, Explained(c)
  PROVE  Explained(c)'
<1>1. Allocated(c)' = Allocated(c) /\ Moved(c)' = Moved(c)
  BY QuietAllocated, QuietMoved
<1>2. Left(c)' = Left(c) /\ Prepayments(c)' = Prepayments(c)
  BY DEF Left, Prepayments
<1>. QED BY <1>1, <1>2 DEF Explained

\* A tracking row is issued.
LEMMA IssuedSums ==
  ASSUME Sound, Sound', NEW row, credit' = Put(credit, issued + 1, row), NEW c
  PROVE  /\ Left(c)' = Left(c) + (IF row.company = c THEN row.remaining ELSE 0)
         /\ Prepayments(c)'
              = Prepayments(c)
                + (IF row.company = c /\ row.kind = "prepayment" THEN row.amount ELSE 0)
<1>. DEFINE id == issued + 1
<1>1. Rows(credit) /\ Rows(credit')
  BY SoundNumbers, SoundNumbersNext
<1>2. id \notin DOMAIN credit
  BY LedgerAssumption DEF Sound, TypeOK
<1>3. /\ DOMAIN credit' = DOMAIN credit \cup {id}
      /\ \A e \in DOMAIN credit : credit'[e] = credit[e]
      /\ credit'[id] = row
  BY <1>2 DEF Put
<1>. HIDE DEF id
<1>. QED BY <1>1, <1>2, <1>3, LeftMore DEF Left, Prepayments

LEMMA PutQuiet ==
  ASSUME TypeOK, NEW i, i \notin DOMAIN moved, NEW row, row.allocated = 0,
         NEW new, new.amount = 0, invoice' = Put(invoice, i, row), moved' = Put(moved, i, new)
  PROVE  QuietInvoices /\ QuietMoves
<1>1. i \notin DOMAIN invoice
  BY DEF TypeOK
<1>. QED BY <1>1 DEF Put, QuietInvoices, QuietMoves

LEMMA NewQuiet ==
  ASSUME TypeOK, NEW i, NEW c, NEW kind, NEW subtotal, NEW tax,
         NewInvoice(i, c, kind, subtotal, tax)
  PROVE  QuietInvoices /\ QuietMoves
<1>. DEFINE row == [company |-> c, kind |-> kind, subtotal |-> subtotal, tax |-> tax,
                    total |-> subtotal + tax, applied |-> 0, allocated |-> 0,
                    finalized |-> FALSE, filled |-> TRUE, offered |-> subtotal + tax,
                    rewritten |-> FALSE]
            new == [company |-> c, amount |-> 0]
<1>1. i \notin DOMAIN moved /\ invoice' = Put(invoice, i, row) /\ moved' = Put(moved, i, new)
  BY DEF NewInvoice
<1>2. row.allocated = 0 /\ new.amount = 0
  OBVIOUS
<1>. HIDE DEF row, new
<1>. QED BY <1>1, <1>2, PutQuiet

LEMMA PrepaymentSums ==
  ASSUME Sound, Sound', NEW i, NEW k \in Companies, NEW amount \in Int, NEW expires,
         CreatePrepaymentInvoice(i, k, amount, expires), NEW c \in Companies, Explained(c)
  PROVE  Explained(c)'
<1>. DEFINE row == NewCredit(k, "prepayment", i, amount, expires)
<1>1. Allocated(c)' = Allocated(c) /\ Moved(c)' = Moved(c)
  BY NewQuiet, QuietAllocated, QuietMoved DEF CreatePrepaymentInvoice, Sound
<1>2. credit' = Put(credit, issued + 1, row)
  BY DEF CreatePrepaymentInvoice, Issue
<1>3. /\ row.company = k /\ row.kind = "prepayment"
      /\ row.remaining = amount /\ row.amount = amount
  BY DEF NewCredit
<1>4. /\ balance'[c] = balance[c]
      /\ txSum'[c] = txSum[c] + (IF k = c THEN amount ELSE 0)
  BY DEF CreatePrepaymentInvoice, Sound, TypeOK
<1>. HIDE DEF row
<1>5. /\ Left(c)' = Left(c) + (IF row.company = c THEN row.remaining ELSE 0)
      /\ Prepayments(c)' = Prepayments(c)
           + (IF row.company = c /\ row.kind = "prepayment" THEN row.amount ELSE 0)
  BY <1>2, IssuedSums
<1>6. /\ Left(c)' = Left(c) + (IF k = c THEN amount ELSE 0)
      /\ Prepayments(c)' = Prepayments(c) + (IF k = c THEN amount ELSE 0)
  BY <1>3, <1>5
<1>. QED BY <1>1, <1>4, <1>6, SoundSums DEF Explained

LEMMA NegativeSums ==
  ASSUME Sound, Sound', NEW p \in Callers, NEW expires, FinalizeNegative(p, expires),
         NEW c \in Companies, Explained(c)
  PROVE  Explained(c)'
<1>. DEFINE k == job[p].company
            amount == job[p].amount
            row == NewCredit(k, "negative", job[p].inv, amount, expires)
<1>1. job[p] \in Jobs
  BY JobFields DEF FinalizeNegative, At, Job, Sound
<1>2. k \in Companies /\ amount \in Int
  BY <1>1 DEF Jobs
<1>3. QuietInvoices /\ QuietMoves
  BY DEF FinalizeNegative, QuietInvoices, QuietMoves
<1>4. \/ UNCHANGED <<balance, credit, txSum>>
      \/ /\ credit' = Put(credit, issued + 1, row)
         /\ balance' = [balance EXCEPT ![k] = @ + amount]
         /\ txSum' = [txSum EXCEPT ![k] = @ + amount]
  BY Zenon DEF FinalizeNegative, Issue
<1>5. /\ row.company = k /\ row.kind = "negative" /\ row.remaining = amount
  BY DEF NewCredit
<1>. HIDE DEF row, k, amount
<1>6. CASE UNCHANGED <<balance, credit, txSum>>
  BY <1>3, <1>6, QuietStep
<1>7. CASE /\ credit' = Put(credit, issued + 1, row)
           /\ balance' = [balance EXCEPT ![k] = @ + amount]
           /\ txSum' = [txSum EXCEPT ![k] = @ + amount]
  <2>1. /\ balance'[c] = balance[c] + (IF k = c THEN amount ELSE 0)
        /\ txSum'[c] = txSum[c] + (IF k = c THEN amount ELSE 0)
    <3>1. balance \in [Companies -> Int] /\ txSum \in [Companies -> Int]
      BY DEF Sound, TypeOK
    <3>. QED BY <1>2, <1>7, <3>1
  <2>2. /\ Left(c)' = Left(c) + (IF row.company = c THEN row.remaining ELSE 0)
        /\ Prepayments(c)' = Prepayments(c)
             + (IF row.company = c /\ row.kind = "prepayment" THEN row.amount ELSE 0)
    BY <1>7, IssuedSums
  <2>3. /\ Left(c)' = Left(c) + (IF k = c THEN amount ELSE 0)
        /\ Prepayments(c)' = Prepayments(c) + 0
    BY <1>5, <2>2
  <2>4. Allocated(c)' = Allocated(c) /\ Moved(c)' = Moved(c)
    BY <1>3, QuietAllocated, QuietMoved
  <2>. QED BY <1>2, <2>1, <2>3, <2>4, SoundSums DEF Explained
<1>. QED BY <1>4, <1>6, <1>7

\* The sums are linear: one invoice, or what moved for it, changes.
LEMMA MoreMoved ==
  ASSUME Sound, Sound', DOMAIN moved' = DOMAIN moved, NEW i \in DOMAIN moved,
         \A k \in DOMAIN moved : moved'[k].company = moved[k].company,
         \A k \in DOMAIN moved \ {i} : moved'[k].amount = moved[k].amount,
         NEW c
  PROVE  Moved(c)' = Moved(c) + (IF moved[i].company = c
                                 THEN moved'[i].amount - moved[i].amount ELSE 0)
<1>1. Numbers(moved, "amount") /\ Numbers(moved', "amount")
  BY SoundNumbers, SoundNumbersNext
<1>2. TotalIn(moved', c, "amount")
        = TotalIn(moved, c, "amount")
          + (IF moved[i].company = c THEN moved'[i]["amount"] - moved[i]["amount"] ELSE 0)
  BY <1>1, TotalPlus
<1>. QED BY <1>2 DEF Moved

LEMMA MoreAllocated ==
  ASSUME Sound, Sound', DOMAIN invoice' = DOMAIN invoice, NEW i \in DOMAIN invoice,
         \A k \in DOMAIN invoice : invoice'[k].company = invoice[k].company,
         \A k \in DOMAIN invoice \ {i} : invoice'[k].allocated = invoice[k].allocated,
         NEW c
  PROVE  Allocated(c)' = Allocated(c)
           + (IF invoice[i].company = c
              THEN invoice'[i].allocated - invoice[i].allocated ELSE 0)
<1>1. Numbers(invoice, "allocated") /\ Numbers(invoice', "allocated")
  BY SoundNumbers, SoundNumbersNext
<1>2. TotalIn(invoice', c, "allocated")
        = TotalIn(invoice, c, "allocated")
          + (IF invoice[i].company = c
             THEN invoice'[i]["allocated"] - invoice[i]["allocated"] ELSE 0)
  BY <1>1, TotalPlus
<1>. QED BY <1>2 DEF Allocated

\* The amount moved for an invoice changes by n.
LEMMA MovedBy ==
  ASSUME Sound, Sound', NEW i \in DOMAIN moved, NEW n \in Int,
         moved' = [moved EXCEPT ![i].amount = @ + n], NEW c
  PROVE  Moved(c)' = Moved(c) + (IF moved[i].company = c THEN n ELSE 0)
<1>1. moved[i] \in [company : Companies, amount : Int]
  BY DEF Sound, TypeOK
<1>2. /\ DOMAIN moved' = DOMAIN moved
      /\ \A k \in DOMAIN moved \ {i} : moved'[k] = moved[k]
      /\ moved'[i] = [moved[i] EXCEPT !.amount = @ + n]
  OBVIOUS
<1>3. moved'[i].company = moved[i].company /\ moved'[i].amount - moved[i].amount = n
  BY <1>1, <1>2
<1>4. \A k \in DOMAIN moved : moved'[k].company = moved[k].company
  BY <1>2, <1>3
<1>5. Moved(c)' = Moved(c) + (IF moved[i].company = c
                              THEN moved'[i].amount - moved[i].amount ELSE 0)
  BY <1>2, <1>4, MoreMoved
<1>. QED BY <1>3, <1>5

LEMMA FundingSums ==
  ASSUME Sound, Sound', OwnJobs, NEW p \in Callers, FinalizePrepayment(p),
         NEW c \in Companies, Explained(c)
  PROVE  Explained(c)'
<1>. DEFINE i == job[p].inv
            k == job[p].company
            amount == job[p].amount
<1>1. job[p] # Idle /\ job[p] \in Jobs
  BY JobFields DEF FinalizePrepayment, At, Job, Sound
<1>2. i \in DOMAIN moved /\ k = moved[i].company /\ k \in Companies /\ amount \in Int
  BY <1>1 DEF Jobs, OwnJobs
<1>3. /\ moved' = [moved EXCEPT ![i].amount = @ + amount]
      /\ balance' = [balance EXCEPT ![k] = @ + amount]
      /\ UNCHANGED <<invoice, credit, txSum>>
  BY DEF FinalizePrepayment
<1>. HIDE DEF i, k, amount
<1>4. Moved(c)' = Moved(c) + (IF k = c THEN amount ELSE 0)
  <2>1. Moved(c)' = Moved(c) + (IF moved[i].company = c THEN amount ELSE 0)
    BY <1>2, <1>3, MovedBy
  <2>. QED BY <1>2, <2>1
<1>5. balance'[c] = balance[c] + (IF k = c THEN amount ELSE 0)
  BY <1>2, <1>3 DEF Sound, TypeOK
<1>6. /\ Left(c)' = Left(c) /\ Prepayments(c)' = Prepayments(c)
      /\ Allocated(c)' = Allocated(c) /\ txSum'[c] = txSum[c]
  BY <1>3 DEF Left, Prepayments, Allocated
<1>. QED BY <1>2, <1>4, <1>5, <1>6, SoundSums DEF Explained

\* Rows that stay, each with something less left.
LEMMA LessLeft ==
  ASSUME Sound, Sound', DOMAIN credit' = DOMAIN credit,
         NEW d \in [DOMAIN credit -> Int],
         \A e \in DOMAIN credit : /\ SameRow(credit[e], credit'[e])
                                  /\ credit'[e].remaining = credit[e].remaining - d[e],
         NEW c
  PROVE  /\ Left(c)' = Left(c) - SumFunctionOnSet(d, CreditsOf(c))
         /\ Prepayments(c)' = Prepayments(c)
<1>1. Rows(credit) /\ Rows(credit')
  BY SoundNumbers, SoundNumbersNext
<1>2. /\ LeftIn(credit', c)
           = LeftIn(credit, c)
             - SumFunctionOnSet(d, {r \in DOMAIN credit : credit[r].company = c})
      /\ PrepaidIn(credit', c) = PrepaidIn(credit, c)
  BY <1>1, LeftLess
<1>. QED BY <1>2 DEF Left, Prepayments, CreditsOf

\* Applying credit: what is drawn from the rows adds up to what is applied.
Allocates(i, total) ==
  /\ DOMAIN invoice' = DOMAIN invoice
  /\ \A j \in DOMAIN invoice \ {i} : invoice'[j] = invoice[j]
  /\ invoice'[i].company = invoice[i].company
  /\ invoice'[i].allocated = invoice[i].allocated + total

LEMMA ApplyDraws ==
  ASSUME TypeOK, NEW i \in DOMAIN invoice, NEW k \in Companies, NEW request, ApplyTo(i, k, request)
  PROVE  \E total \in Nat : \E d \in [DOMAIN credit -> Nat] :
           /\ DOMAIN credit' = DOMAIN credit
           /\ \A e \in DOMAIN credit :
                /\ SameRow(credit[e], credit'[e])
                /\ credit'[e].remaining = credit[e].remaining - d[e]
           /\ \A e \in DOMAIN credit \ Usable(k) : d[e] = 0
           /\ SumFunctionOnSet(d, Usable(k)) = total
           /\ balance' = [balance EXCEPT ![k] = @ - total]
           /\ txSum' = [txSum EXCEPT ![k] = @ - 2 * total]
           /\ Allocates(i, total)
<1>1. PICK total \in 1 .. Capped(i, request) : \E draw \in Draws(k, total) :
        LET Last(e) == draw[e] > 0 /\ \A f \in Usable(k) : Before(e, f) => draw[f] = 0
        IN /\ credit' = [e \in DOMAIN credit |->
                           IF e \in Usable(k)
                           THEN [credit[e] EXCEPT
                                   !.remaining = @ - draw[e],
                                   !.used = IF Last(e) THEN @ + total ELSE @]
                           ELSE credit[e]]
           /\ balance' = [balance EXCEPT ![k] = @ - total]
           /\ txSum' = [txSum EXCEPT ![k] = @ - 2 * total]
           /\ invoice' = [invoice EXCEPT
                             ![i].applied = @ + total, ![i].allocated = @ + total,
                             ![i].total = @ - total,
                             ![i].offered = Looser(@, invoice[i].total - total)]
  BY DEF ApplyTo
<1>2. PICK draw \in Draws(k, total) :
        LET Last(e) == draw[e] > 0
                       /\ \A f \in Usable(k) : Before(e, f) => draw[f] = 0
        IN credit' = [e \in DOMAIN credit |->
                        IF e \in Usable(k)
                        THEN [credit[e] EXCEPT
                                !.remaining = @ - draw[e],
                                !.used = IF Last(e) THEN @ + total ELSE @]
                        ELSE credit[e]]
  BY <1>1
<1>3. /\ draw \in [Usable(k) -> 0 .. total]
      /\ SumFunctionOnSet(draw, Usable(k)) = total
  BY DEF Draws, SumFunction
<1>4. total \in Nat /\ DOMAIN credit' = DOMAIN credit /\ Usable(k) \subseteq DOMAIN credit
  <2>1. total \in Nat
    OBVIOUS
  <2>2. DOMAIN credit' = DOMAIN credit
    BY <1>2
  <2>3. Usable(k) \subseteq DOMAIN credit
    BY DEF Usable, CreditsOf
  <2>. QED BY <2>1, <2>2, <2>3
<1>. DEFINE d == [e \in DOMAIN credit |-> IF e \in Usable(k) THEN draw[e] ELSE 0]
<1>5. \A e \in Usable(k) : draw[e] \in Nat
  BY <1>3, <1>4
<1>6. d \in [DOMAIN credit -> Nat] /\ \A e \in Usable(k) : d[e] = draw[e]
  BY <1>4, <1>5
<1>7. SumFunctionOnSet(d, Usable(k)) = total
  <2>1. IsFiniteSet(Usable(k))
    BY <1>4, LedgerAssumption, FS_Subset DEF TypeOK
  <2>. HIDE DEF d
  <2>. QED BY <1>3, <1>6, <2>1, SumSame
<1>8. ASSUME NEW e \in DOMAIN credit
      PROVE  /\ SameRow(credit[e], credit'[e])
             /\ credit'[e].remaining = credit[e].remaining - d[e]
  <2>1. credit[e] \in Credit
    BY DEF TypeOK
  <2>2. CASE e \notin Usable(k)
    <3>1. credit'[e] = credit[e] /\ d[e] = 0 /\ credit[e].remaining \in Int
      BY <1>2, <2>1, <2>2 DEF Credit
    <3>. QED BY <3>1 DEF SameRow
  <2>3. CASE e \in Usable(k)
    <3>1. d[e] = draw[e]
      BY <2>3
    <3>2. \E last \in BOOLEAN : credit'[e] =
            [credit[e] EXCEPT !.remaining = @ - draw[e],
                              !.used = IF last THEN @ + total ELSE @]
      BY <1>2, <2>3, Zenon
    <3>. HIDE DEF d
    <3>. QED BY <2>1, <3>1, <3>2 DEF SameRow, Credit
  <2>. QED BY <2>2, <2>3
<1>9. \A e \in DOMAIN credit \ Usable(k) : d[e] = 0
  OBVIOUS
<1>10. Allocates(i, total)
  <2>1. invoice \in [DOMAIN invoice -> Invoice]
    BY DEF TypeOK
  <2>2. invoice' = [invoice EXCEPT
                      ![i].applied = @ + total, ![i].allocated = @ + total,
                      ![i].total = @ - total,
                      ![i].offered = Looser(@, invoice[i].total - total)]
    BY <1>1
  <2>. QED BY <2>1, <2>2 DEF Allocates, Invoice
<1>11. /\ balance' = [balance EXCEPT ![k] = @ - total]
       /\ txSum' = [txSum EXCEPT ![k] = @ - 2 * total]
       /\ DOMAIN credit' = DOMAIN credit /\ total \in Nat
  <2>1. /\ balance' = [balance EXCEPT ![k] = @ - total]
        /\ txSum' = [txSum EXCEPT ![k] = @ - 2 * total]
    BY <1>1
  <2>2. DOMAIN credit' = DOMAIN credit
    BY <1>2
  <2>3. total \in Nat
    BY <1>4
  <2>. QED BY <2>1, <2>2, <2>3
<1>. HIDE DEF d
<1>. QED BY <1>6, <1>7, <1>8, <1>9, <1>10, <1>11

LEMMA ApplySums ==
  ASSUME Sound, Sound', NEW i \in DOMAIN invoice, NEW k \in Companies,
         invoice[i].company = k, NEW request, ApplyTo(i, k, request), UNCHANGED moved,
         NEW c \in Companies, Explained(c)
  PROVE  Explained(c)'
<1>1. PICK total \in Nat : \E d \in [DOMAIN credit -> Nat] :
           /\ DOMAIN credit' = DOMAIN credit
           /\ \A e \in DOMAIN credit :
                /\ SameRow(credit[e], credit'[e])
                /\ credit'[e].remaining = credit[e].remaining - d[e]
           /\ \A e \in DOMAIN credit \ Usable(k) : d[e] = 0
           /\ SumFunctionOnSet(d, Usable(k)) = total
           /\ balance' = [balance EXCEPT ![k] = @ - total]
           /\ txSum' = [txSum EXCEPT ![k] = @ - 2 * total]
           /\ Allocates(i, total)
  BY ApplyDraws DEF Sound
<1>2. PICK d \in [DOMAIN credit -> Nat] :
           /\ DOMAIN credit' = DOMAIN credit
           /\ \A e \in DOMAIN credit :
                /\ SameRow(credit[e], credit'[e])
                /\ credit'[e].remaining = credit[e].remaining - d[e]
           /\ \A e \in DOMAIN credit \ Usable(k) : d[e] = 0
           /\ SumFunctionOnSet(d, Usable(k)) = total
  BY <1>1
<1>3. /\ Left(c)' = Left(c) - SumFunctionOnSet(d, CreditsOf(c))
      /\ Prepayments(c)' = Prepayments(c)
  <2>1. d \in [DOMAIN credit -> Int]
    OBVIOUS
  <2>. QED BY <1>2, <2>1, LessLeft
<1>4. SumFunctionOnSet(d, CreditsOf(c)) = IF c = k THEN total ELSE 0
  <2>1. IsFiniteSet(CreditsOf(c)) /\ CreditsOf(c) \subseteq DOMAIN credit
    BY LedgerAssumption, FS_Subset DEF CreditsOf, Sound, TypeOK
  <2>2. CASE c = k
    <3>1. Usable(k) \in SUBSET CreditsOf(c)
      BY <2>2 DEF Usable
    <3>2. /\ \A e \in CreditsOf(c) : d[e] \in Int
          /\ \A e \in CreditsOf(c) \ Usable(k) : d[e] = 0
      BY <1>2, <2>1
    <3>3. SumFunctionOnSet(d, CreditsOf(c)) = SumFunctionOnSet(d, Usable(k))
      BY <2>1, <3>1, <3>2, SumWithin
    <3>. QED BY <1>2, <2>2, <3>3
  <2>3. CASE c # k
    <3>1. \A e \in CreditsOf(c) : d[e] = 0
      BY <1>2, <2>3 DEF CreditsOf, Usable
    <3>. QED BY <2>1, <2>3, <3>1, SumZero
  <2>. QED BY <2>2, <2>3
<1>5. Allocated(c)' = Allocated(c) + (IF c = k THEN total ELSE 0)
  <2>1. invoice[i] \in Invoice
    BY InvoiceRow DEF Sound
  <2>2. Allocates(i, total)
    BY <1>1
  <2>3. /\ invoice'[i].company = invoice[i].company
        /\ invoice'[i].allocated - invoice[i].allocated = total
    BY <2>1, <2>2 DEF Invoice, Allocates
  <2>4. /\ DOMAIN invoice' = DOMAIN invoice
        /\ \A j \in DOMAIN invoice : invoice'[j].company = invoice[j].company
    BY <2>2, <2>3 DEF Allocates
  <2>5. \A j \in DOMAIN invoice \ {i} : invoice'[j].allocated = invoice[j].allocated
    BY <2>2 DEF Allocates
  <2>6. Allocated(c)' = Allocated(c)
           + (IF invoice[i].company = c
              THEN invoice'[i].allocated - invoice[i].allocated ELSE 0)
    BY <2>4, <2>5, MoreAllocated
  <2>. QED BY <2>3, <2>6
<1>6. /\ balance'[c] = balance[c] - (IF c = k THEN total ELSE 0)
      /\ txSum'[c] = txSum[c] - 2 * (IF c = k THEN total ELSE 0)
  <2>1. balance \in [Companies -> Int] /\ txSum \in [Companies -> Int]
    BY DEF Sound, TypeOK
  <2>. QED BY <1>1, <2>1
<1>7. Moved(c)' = Moved(c)
  BY DEF Moved
<1>. QED BY <1>3, <1>4, <1>5, <1>6, <1>7, SoundSums DEF Explained

LEMMA ExpireSums ==
  ASSUME Sound, Sound', NEW S \in SUBSET DOMAIN credit, Expire(S),
         NEW c \in Companies, Explained(c)
  PROVE  Explained(c)'
<1>. DEFINE d == [e \in DOMAIN credit |-> IF e \in S THEN credit[e].remaining ELSE 0]
            f == [e \in S \cap CreditsOf(c) |-> credit[e].remaining]
            lost == RemainingIn(S \cap CreditsOf(c))
<1>1. /\ credit' = [e \in DOMAIN credit |->
                      IF e \in S THEN Emptied(credit[e]) ELSE credit[e]]
      /\ balance'[c] = balance[c] - lost
      /\ txSum'[c] = txSum[c] - lost
      /\ UNCHANGED <<invoice, moved>>
  BY DEF Expire
<1>2. d \in [DOMAIN credit -> Int]
  BY DEF Sound, TypeOK, Credit
<1>3. ASSUME NEW e \in DOMAIN credit
      PROVE  /\ SameRow(credit[e], credit'[e])
             /\ credit'[e].remaining = credit[e].remaining - d[e]
  <2>1. credit[e] \in Credit
    BY DEF Sound, TypeOK
  <2>2. credit[e].remaining \in Int
    BY <2>1 DEF Credit
  <2>3. CASE e \in S
    <3>1. credit'[e] = Emptied(credit[e]) /\ d[e] = credit[e].remaining
      BY <1>1, <2>3
    <3>. HIDE DEF d
    <3>. QED BY <2>1, <2>2, <3>1, EmptiedType DEF SameRow
  <2>4. CASE e \notin S
    <3>1. credit'[e] = credit[e] /\ d[e] = 0
      BY <1>1, <2>4
    <3>. HIDE DEF d
    <3>. QED BY <2>2, <3>1 DEF SameRow
  <2>. QED BY <2>3, <2>4
<1>4. DOMAIN credit' = DOMAIN credit
  BY <1>1
<1>5. /\ Left(c)' = Left(c) - SumFunctionOnSet(d, CreditsOf(c))
      /\ Prepayments(c)' = Prepayments(c)
  <2>. HIDE DEF d
  <2>. QED BY <1>2, <1>3, <1>4, LessLeft
<1>6. IsFiniteSet(CreditsOf(c)) /\ CreditsOf(c) \subseteq DOMAIN credit
  BY LedgerAssumption, FS_Subset DEF CreditsOf, Sound, TypeOK
<1>7. SumFunctionOnSet(d, CreditsOf(c)) = lost
  <2>. DEFINE T == S \cap CreditsOf(c)
  <2>1. /\ T \in SUBSET CreditsOf(c) /\ IsFiniteSet(T)
        /\ \A e \in CreditsOf(c) : d[e] \in Int
        /\ \A e \in CreditsOf(c) \ T : d[e] = 0
        /\ \A e \in T : d[e] = f[e]
    BY <1>2, <1>6, FS_Subset
  <2>2. lost = SumFunctionOnSet(f, T)
    BY DEF RemainingIn, SumFunction
  <2>. HIDE DEF d, f, T, lost
  <2>3. SumFunctionOnSet(d, CreditsOf(c)) = SumFunctionOnSet(d, T)
    BY <1>6, <2>1, SumWithin
  <2>4. SumFunctionOnSet(d, T) = SumFunctionOnSet(f, T)
    BY <2>1, SumSame
  <2>. QED BY <2>2, <2>3, <2>4
<1>8. lost \in Int
  <2>1. S \cap CreditsOf(c) \in SUBSET DOMAIN credit
    OBVIOUS
  <2>. QED BY <2>1, RemainingInt DEF Sound
<1>9. Allocated(c)' = Allocated(c) /\ Moved(c)' = Moved(c)
  BY <1>1 DEF Allocated, Moved
<1>. HIDE DEF d, lost
<1>. QED BY <1>1, <1>5, <1>7, <1>8, <1>9, SoundSums DEF Explained

\* A transferred amount leaves the source, its row and its company, and is the
\* target's new row.
LEMMA TransferSums ==
  ASSUME Sound, Sound', NEW e, NEW target \in Companies, NEW amount \in Nat,
         TransferCredit(e, target, amount), NEW c \in Companies, Explained(c)
  PROVE  Explained(c)'
<1>. DEFINE source == credit[e].company
            rest == [credit EXCEPT ![e].remaining = @ - amount]
            row == NewCredit(target, "transfer", NoInvoice, amount, credit[e].expires)
            d == [f \in DOMAIN credit |-> IF f = e THEN amount ELSE 0]
            given == IF source = c THEN amount ELSE 0
            got == IF target = c THEN amount ELSE 0
<1>1. /\ e \in DOMAIN credit /\ credit[e] \in Credit
      /\ credit' = Put(rest, issued + 1, row)
      /\ balance' = Shift(balance, source, target, amount)
      /\ txSum' = Shift(txSum, source, target, amount)
      /\ UNCHANGED <<invoice, moved>>
  BY DEF TransferCredit, MayTransfer, Sound, TypeOK
<1>2. /\ source \in Companies /\ credit[e].remaining \in Int
      /\ given \in Int /\ got \in Int
  BY <1>1 DEF Credit
<1>3. row.company = target /\ row.kind = "transfer" /\ row.remaining = amount
  BY DEF NewCredit
<1>4. Rows(credit) /\ Rows(credit')
  BY SoundNumbers, SoundNumbersNext
<1>5. [credit[e] EXCEPT !.remaining = @ - amount] \in Credit
  <2>1. credit[e].remaining - amount \in Int
    BY <1>2
  <2>. QED BY <1>1, <2>1 DEF Credit
<1>6. /\ DOMAIN rest = DOMAIN credit
      /\ rest[e] = [credit[e] EXCEPT !.remaining = @ - amount]
      /\ \A f \in DOMAIN credit \ {e} : rest[f] = credit[f]
  BY <1>1
<1>7. Rows(rest)
  BY <1>4, <1>5 DEF Rows
<1>8. d \in [DOMAIN credit -> Int] /\ d[e] = amount
      /\ \A f \in DOMAIN credit \ {e} : d[f] = 0
  BY <1>1
<1>9. ASSUME NEW f \in DOMAIN credit
      PROVE  /\ SameRow(credit[f], rest[f])
             /\ rest[f].remaining = credit[f].remaining - d[f]
  <2>. HIDE DEF rest, d
  <2>1. credit[f] \in Credit
    BY DEF Sound, TypeOK
  <2>2. credit[f].remaining \in Int
    BY <2>1 DEF Credit
  <2>3. CASE f = e
    BY <1>6, <1>8, <2>1, <2>2, <2>3 DEF SameRow, Credit
  <2>4. CASE f # e
    BY <1>6, <1>8, <2>2, <2>4 DEF SameRow
  <2>. QED BY <2>3, <2>4
<1>. HIDE DEF rest, row, d
<1>10. /\ LeftIn(rest, c) = LeftIn(credit, c) - SumFunctionOnSet(d, CreditsOf(c))
       /\ PrepaidIn(rest, c) = PrepaidIn(credit, c)
  <2>1. DOMAIN rest = DOMAIN credit /\ Rows(credit) /\ d \in [DOMAIN credit -> Int]
    BY <1>4, <1>6, <1>8
  <2>2. /\ LeftIn(rest, c)
             = LeftIn(credit, c)
               - SumFunctionOnSet(d, {r \in DOMAIN credit : credit[r].company = c})
        /\ PrepaidIn(rest, c) = PrepaidIn(credit, c)
    BY <1>7, <1>9, <2>1, LeftLess
  <2>. QED BY <2>2 DEF CreditsOf
<1>11. SumFunctionOnSet(d, CreditsOf(c)) = given
  <2>1. /\ IsFiniteSet(CreditsOf(c)) /\ CreditsOf(c) \subseteq DOMAIN credit
        /\ IsFiniteSet(CreditsOf(c) \ {e})
    BY LedgerAssumption, FS_Subset DEF CreditsOf, Sound, TypeOK
  <2>2. CASE source = c
    <3>1. e \in CreditsOf(c) /\ \A f \in CreditsOf(c) : d[f] \in Int
      BY <1>1, <1>8, <2>1, <2>2 DEF CreditsOf
    <3>2. \A f \in CreditsOf(c) \ {e} : d[f] = 0
      BY <1>8, <2>1
    <3>3. SumFunctionOnSet(d, CreditsOf(c) \ {e}) = 0
      BY <2>1, <3>2, SumZero
    <3>4. SumFunctionOnSet(d, CreditsOf(c)) = d[e] + 0
      BY <2>1, <3>1, <3>3, SumTake
    <3>5. SumFunctionOnSet(d, CreditsOf(c)) = amount
      BY <1>8, <3>4
    <3>. QED BY <2>2, <3>5
  <2>3. CASE source # c
    <3>1. \A f \in CreditsOf(c) : d[f] = 0
      BY <1>8, <2>1, <2>3 DEF CreditsOf
    <3>2. SumFunctionOnSet(d, CreditsOf(c)) = 0
      BY <2>1, <3>1, SumZero
    <3>. QED BY <2>3, <3>2
  <2>. QED BY <2>2, <2>3
<1>12. /\ Left(c)' = LeftIn(rest, c) + (IF row.company = c THEN row.remaining ELSE 0)
       /\ Prepayments(c)'
            = PrepaidIn(rest, c) + (IF row.company = c /\ row.kind = "prepayment"
                                    THEN row.amount ELSE 0)
  <2>1. issued + 1 \notin DOMAIN rest
    BY <1>6, LedgerAssumption DEF Sound, TypeOK
  <2>2. /\ DOMAIN credit' = DOMAIN rest \cup {issued + 1}
        /\ \A f \in DOMAIN rest : credit'[f] = rest[f]
        /\ credit'[issued + 1] = row
    BY <1>1, <2>1 DEF Put
  <2>. QED BY <1>4, <1>7, <2>1, <2>2, LeftMore DEF Left, Prepayments
<1>13. /\ Left(c)' = LeftIn(rest, c) + got
       /\ Prepayments(c)' = PrepaidIn(rest, c) + 0
  BY <1>3, <1>12
<1>14. /\ balance'[c] = balance[c] - given + got
       /\ txSum'[c] = txSum[c] - given + got
  <2>1. ASSUME NEW f \in [Companies -> Int]
        PROVE  Shift(f, source, target, amount)[c] = f[c] - given + got
    <3>. DEFINE g == [f EXCEPT ![source] = @ - amount]
    <3>1. g \in [Companies -> Int] /\ g[c] = f[c] - given
      BY <1>2
    <3>. HIDE DEF g
    <3>2. [g EXCEPT ![target] = @ + amount][c] = g[c] + got
      BY <3>1
    <3>. QED BY <3>1, <3>2 DEF Shift, g
  <2>2. balance \in [Companies -> Int] /\ txSum \in [Companies -> Int]
    BY DEF Sound, TypeOK
  <2>. QED BY <1>1, <2>1, <2>2
<1>15. Allocated(c)' = Allocated(c) /\ Moved(c)' = Moved(c)
  BY <1>1 DEF Allocated, Moved
<1>. HIDE DEF given, got
<1>. QED BY <1>2, <1>10, <1>11, <1>13, <1>14, <1>15, SoundSums
         DEF Explained, Left, Prepayments

\* A deleted invoice takes what is left of the credit it issued with it; when
\* its deletion is rolled back, what stays subtracted is what moved for it.
LEMMA DeleteSums ==
  ASSUME Sound, Sound', OwnInvoices, OwnCredits, NEW i \in InvoiceIds,
         HardDeleteInvoice(i), NEW c \in Companies, Explained(c)
  PROVE  Explained(c)'
<1>. DEFINE k == invoice[i].company
            Dropped == invoice[i].allocated = 0 /\ invoice' = Drop(invoice, i)
<1>1. /\ i \in DOMAIN invoice /\ i \in DOMAIN moved
      /\ k \in Companies /\ k = moved[i].company
  <2>1. i \in DOMAIN invoice
    BY DEF HardDeleteInvoice
  <2>2. i \in DOMAIN moved /\ invoice[i] \in Invoice
    BY <2>1 DEF Sound, TypeOK
  <2>. QED BY <2>1, <2>2 DEF OwnInvoices, Invoice
<1>2. \/ Dropped /\ UNCHANGED <<balance, credit, txSum, moved>>
      \/ \E e \in IssuedBy(i, "negative") :
           /\ credit[e].remaining = credit[e].amount
           /\ balance' = [balance EXCEPT ![k] = @ - credit[e].amount]
           /\ \/ /\ Dropped
                 /\ credit' = Drop(credit, e)
                 /\ txSum' = [txSum EXCEPT ![k] = @ - credit[e].amount]
                 /\ UNCHANGED moved
              \/ /\ moved' = [moved EXCEPT ![i].amount = @ - credit[e].amount]
                 /\ UNCHANGED <<invoice, credit, txSum>>
  BY Zenon DEF HardDeleteInvoice
<1>3. ASSUME Dropped
      PROVE  QuietInvoices
  BY <1>3 DEF Drop, QuietInvoices
<1>4. UNCHANGED moved => QuietMoves
  BY DEF QuietMoves
<1>. HIDE DEF Dropped
<1>5. CASE Dropped /\ UNCHANGED <<balance, credit, txSum, moved>>
  BY <1>3, <1>4, <1>5, QuietStep
<1>6. ASSUME NEW e \in IssuedBy(i, "negative"), credit[e].remaining = credit[e].amount,
             balance' = [balance EXCEPT ![k] = @ - credit[e].amount],
             \/ /\ Dropped
                /\ credit' = Drop(credit, e)
                /\ txSum' = [txSum EXCEPT ![k] = @ - credit[e].amount]
                /\ UNCHANGED moved
             \/ /\ moved' = [moved EXCEPT ![i].amount = @ - credit[e].amount]
                /\ UNCHANGED <<invoice, credit, txSum>>
      PROVE  Explained(c)'
  <2>. DEFINE amount == credit[e].amount
              mine == IF k = c THEN amount ELSE 0
  <2>1. /\ e \in DOMAIN credit /\ credit[e] \in Credit
        /\ credit[e].kind = "negative" /\ credit[e].source = i
    BY DEF IssuedBy, Sound, TypeOK
  <2>2. credit[e].company = k
    BY <1>1, <2>1, LedgerAssumption DEF OwnCredits
  <2>3. amount \in Int /\ mine \in Int
    BY <2>1 DEF Credit
  <2>4. balance \in [Companies -> Int] /\ txSum \in [Companies -> Int]
    BY DEF Sound, TypeOK
  <2>5. balance'[c] = balance[c] - mine
    BY <1>1, <1>6, <2>3, <2>4
  <2>6. CASE /\ Dropped
             /\ credit' = Drop(credit, e)
             /\ txSum' = [txSum EXCEPT ![k] = @ - credit[e].amount]
             /\ UNCHANGED moved
    <3>1. txSum'[c] = txSum[c] - mine
      BY <1>1, <2>3, <2>4, <2>6
    <3>2. Allocated(c)' = Allocated(c) /\ Moved(c)' = Moved(c)
      BY <1>3, <1>4, <2>6, QuietAllocated, QuietMoved
    <3>3. Rows(credit) /\ Rows(credit')
      BY SoundNumbers, SoundNumbersNext
    <3>4. /\ e \notin DOMAIN credit' /\ DOMAIN credit = DOMAIN credit' \cup {e}
          /\ \A f \in DOMAIN credit' : credit[f] = credit'[f]
      BY <2>1, <2>6 DEF Drop
    <3>5. /\ LeftIn(credit, c)
               = LeftIn(credit', c)
                 + (IF credit[e].company = c THEN credit[e].remaining ELSE 0)
          /\ PrepaidIn(credit, c)
               = PrepaidIn(credit', c)
                 + (IF credit[e].company = c /\ credit[e].kind = "prepayment"
                    THEN credit[e].amount ELSE 0)
      BY <3>3, <3>4, LeftMore
    <3>6. LeftIn(credit, c) = LeftIn(credit', c) + mine
          /\ PrepaidIn(credit, c) = PrepaidIn(credit', c) + 0
      BY <1>6, <2>1, <2>2, <3>5
    <3>7. LeftIn(credit', c) \in Int /\ PrepaidIn(credit', c) \in Int
      BY <3>3, LeftInt
    <3>8. Left(c)' = Left(c) - mine /\ Prepayments(c)' = Prepayments(c)
      <4>. HIDE DEF mine
      <4>. QED BY <2>3, <3>6, <3>7 DEF Left, Prepayments
    <3>. HIDE DEF mine
    <3>. QED BY <2>3, <2>5, <3>1, <3>2, <3>8, SoundSums DEF Explained
  <2>7. CASE /\ moved' = [moved EXCEPT ![i].amount = @ - credit[e].amount]
             /\ UNCHANGED <<invoice, credit, txSum>>
    <3>. DEFINE n == -amount
    <3>1. n \in Int /\ moved[i].amount \in Int
      BY <1>1, <2>3 DEF Sound, TypeOK
    <3>2. moved' = [moved EXCEPT ![i].amount = @ + n]
      <4>1. moved[i].amount - amount = moved[i].amount + n
        BY <2>3, <3>1
      <4>. QED BY <2>7, <4>1
    <3>3. Moved(c)' = Moved(c) + (IF moved[i].company = c THEN n ELSE 0)
      <4>. HIDE DEF n
      <4>. QED BY <1>1, <3>1, <3>2, MovedBy
    <3>4. Moved(c)' = Moved(c) - mine
      BY <1>1, <2>3, <3>3, SoundSums
    <3>5. /\ Left(c)' = Left(c) /\ Prepayments(c)' = Prepayments(c)
          /\ Allocated(c)' = Allocated(c) /\ txSum'[c] = txSum[c]
      BY <2>7 DEF Left, Prepayments, Allocated
    <3>. HIDE DEF mine
    <3>. QED BY <2>3, <2>5, <3>4, <3>5, SoundSums DEF Explained
  <2>. QED BY <1>6, <2>6, <2>7
<1>. HIDE DEF k
<1>. QED BY <1>2, <1>5, <1>6

\* The date of a row moves; what it has left does not.
LEMMA RedateSums ==
  ASSUME Sound, Sound', NEW e, NEW expires, UpdateCreditExpiration(e, expires),
         NEW c \in Companies, Explained(c)
  PROVE  Explained(c)'
<1>. DEFINE d == [f \in DOMAIN credit |-> 0]
<1>1. credit' = [credit EXCEPT ![e].expires = expires] /\ e \in DOMAIN credit
  BY DEF UpdateCreditExpiration
<1>2. d \in [DOMAIN credit -> Int] /\ \A f \in DOMAIN credit : d[f] = 0
  OBVIOUS
<1>3. ASSUME NEW f \in DOMAIN credit
      PROVE  /\ SameRow(credit[f], credit'[f])
             /\ credit'[f].remaining = credit[f].remaining - d[f]
  <2>1. credit[f] \in Credit
    BY DEF Sound, TypeOK
  <2>2. credit[f].remaining \in Int /\ d[f] = 0
    BY <2>1 DEF Credit
  <2>3. credit'[f] = credit[f] \/ credit'[f] = [credit[f] EXCEPT !.expires = expires]
    BY <1>1
  <2>4. SameRow(credit[f], credit'[f]) /\ credit'[f].remaining = credit[f].remaining
    BY <2>1, <2>3 DEF SameRow, Credit
  <2>. HIDE DEF d
  <2>. QED BY <2>2, <2>4
<1>4. DOMAIN credit' = DOMAIN credit
  BY <1>1
<1>5. /\ Left(c)' = Left(c) - SumFunctionOnSet(d, CreditsOf(c))
      /\ Prepayments(c)' = Prepayments(c)
  <2>. HIDE DEF d
  <2>. QED BY <1>2, <1>3, <1>4, LessLeft
<1>6. SumFunctionOnSet(d, CreditsOf(c)) = 0
  <2>1. IsFiniteSet(CreditsOf(c)) /\ \A f \in CreditsOf(c) : d[f] = 0
    BY LedgerAssumption, FS_Subset DEF CreditsOf, Sound, TypeOK
  <2>. HIDE DEF d
  <2>. QED BY <2>1, SumZero
<1>7. UNCHANGED <<balance, txSum, invoice, moved>>
  BY DEF UpdateCreditExpiration
<1>8. Allocated(c)' = Allocated(c) /\ Moved(c)' = Moved(c)
  BY <1>7 DEF Allocated, Moved
<1>. HIDE DEF d
<1>. QED BY <1>5, <1>6, <1>7, <1>8, SoundSums DEF Explained

-----------------------------------------------------------------------------
(* The inductive strengthening of BalanceExplained and TransactionsExplained *)

Books == TypeOK /\ Owned /\ \A c \in Companies : Explained(c)

\* Invoices whose rows change elsewhere than in company and allocated.
LEMMA EditQuiet ==
  ASSUME TypeOK, NEW i \in DOMAIN invoice, NEW row \in Invoice,
         row.company = invoice[i].company, row.allocated = invoice[i].allocated,
         invoice' = [invoice EXCEPT ![i] = row], UNCHANGED moved
  PROVE  QuietInvoices /\ QuietMoves
BY DEF QuietInvoices, QuietMoves

LEMMA BooksStep ==
  ASSUME Books, [Next]_vars
  PROVE  Books'
<1>1. TypeOK' /\ Owned'
  BY TypeStep, OwnedStep DEF Books
<1>2. Sound /\ Sound' /\ OwnInvoices /\ OwnJobs /\ OwnCredits
  BY <1>1 DEF Books, Owned, Sound
<1>. SUFFICES ASSUME NEW c \in Companies PROVE Explained(c)'
  BY <1>1 DEF Books
<1>3. Explained(c) /\ TypeOK
  BY DEF Books
<1>4. ASSUME UNCHANGED <<balance, credit, txSum>>, QuietInvoices, QuietMoves
      PROVE  Explained(c)'
  BY <1>2, <1>3, <1>4, QuietStep
<1>5. ASSUME UNCHANGED <<balance, credit, txSum, invoice, moved>>
      PROVE  Explained(c)'
  BY <1>4, <1>5 DEF QuietInvoices, QuietMoves
<1>6. ASSUME NEW i \in DOMAIN invoice, NEW row \in Invoice,
             row.company = invoice[i].company, row.allocated = invoice[i].allocated,
             invoice' = [invoice EXCEPT ![i] = row],
             UNCHANGED <<balance, credit, txSum, moved>>
      PROVE  Explained(c)'
  BY <1>3, <1>4, <1>6, EditQuiet
<1>7. CASE Invoicing
  <2>. PICK i \in InvoiceIds, k \in Companies :
       \/ \E amount \in Amounts, expires \in ExpiryDates :
            CreatePrepaymentInvoice(i, k, amount, expires)
       \/ \E kind \in {"cycle", "manual"}, subtotal \in Totals, tax \in Taxes :
            GenerateInvoice(i, k, kind, subtotal, tax)
       \/ InsertCycleInvoice(i, k)
    BY <1>7 DEF Invoicing
  <2>1. ASSUME NEW amount \in Amounts, NEW expires, CreatePrepaymentInvoice(i, k, amount, expires)
        PROVE  Explained(c)'
    <3>1. amount \in Int
      BY LedgerAssumption
    <3>. QED BY <1>2, <1>3, <2>1, <3>1, PrepaymentSums
  <2>2. ASSUME NEW kind, NEW subtotal, NEW tax, GenerateInvoice(i, k, kind, subtotal, tax)
        PROVE  Explained(c)'
    BY <1>3, <1>4, <2>2, NewQuiet DEF GenerateInvoice
  <2>3. CASE InsertCycleInvoice(i, k)
    <3>. DEFINE row == [company |-> k, kind |-> "cycle", subtotal |-> 0, tax |-> 0,
                        total |-> 0, applied |-> 0, allocated |-> 0,
                        finalized |-> FALSE, filled |-> FALSE, offered |-> 0,
                        rewritten |-> FALSE]
                new == [company |-> k, amount |-> 0]
    <3>1. /\ i \notin DOMAIN moved
          /\ invoice' = Put(invoice, i, row) /\ moved' = Put(moved, i, new)
          /\ UNCHANGED <<balance, credit, txSum>>
      BY <2>3 DEF InsertCycleInvoice
    <3>2. row.allocated = 0 /\ new.amount = 0
      OBVIOUS
    <3>. HIDE DEF row, new
    <3>. QED BY <1>3, <1>4, <3>1, <3>2, PutQuiet
  <2>. QED BY <2>1, <2>2, <2>3
<1>8. CASE Changing
  <2>. PICK i \in InvoiceIds :
       \/ \E subtotal \in Totals, tax \in Taxes :
            EditInvoice(i, subtotal, tax) \/ FillCycleInvoice(i, subtotal, tax)
       \/ \E request \in Amounts : ApplyCreditToInvoice(i, request)
       \/ UnfinalizeInvoice(i)
       \/ HardDeleteInvoice(i)
    BY <1>8 DEF Changing
  <2>1. ASSUME NEW subtotal \in Totals, NEW tax \in Taxes,
               EditInvoice(i, subtotal, tax) \/ FillCycleInvoice(i, subtotal, tax)
        PROVE  Explained(c)'
    <3>1. i \in DOMAIN invoice /\ invoice[i] \in Invoice
      BY <1>3, <2>1, InvoiceRow DEF EditInvoice, FillCycleInvoice
    <3>. DEFINE edited == [invoice[i] EXCEPT !.subtotal = subtotal, !.tax = tax,
                                             !.total = subtotal + tax,
                                             !.offered = Looser(@, subtotal + tax),
                                             !.rewritten = TRUE]
                filled == [invoice[i] EXCEPT !.subtotal = subtotal, !.tax = tax,
                                             !.total = subtotal + tax, !.applied = 0,
                                             !.filled = TRUE,
                                             !.offered = Looser(@, subtotal + tax),
                                             !.rewritten = TRUE]
    <3>2. /\ subtotal \in Int /\ tax \in Nat /\ subtotal + tax \in Int
          /\ Looser(invoice[i].offered, subtotal + tax) \in Int
      <4>1. subtotal \in Int /\ tax \in Nat /\ invoice[i].offered \in Int
        BY <3>1, LedgerAssumption DEF Invoice
      <4>. QED BY <4>1 DEF Looser
    <3>3. /\ edited \in Invoice /\ edited.company = invoice[i].company
          /\ edited.allocated = invoice[i].allocated
      BY <3>1, <3>2 DEF Invoice
    <3>4. /\ filled \in Invoice /\ filled.company = invoice[i].company
          /\ filled.allocated = invoice[i].allocated
      BY <3>1, <3>2 DEF Invoice
    <3>. HIDE DEF edited, filled
    <3>5. /\ invoice' = [invoice EXCEPT ![i] = edited] \/ invoice' = [invoice EXCEPT ![i] = filled]
          /\ UNCHANGED <<balance, credit, txSum, moved>>
      BY <2>1, <3>1 DEF EditInvoice, FillCycleInvoice, edited, filled
    <3>. QED BY <1>6, <3>1, <3>3, <3>4, <3>5
  <2>2. ASSUME NEW request, ApplyCreditToInvoice(i, request)
        PROVE  Explained(c)'
    <3>1. /\ i \in DOMAIN invoice /\ ApplyTo(i, invoice[i].company, request)
          /\ UNCHANGED moved
      BY <2>2 DEF ApplyCreditToInvoice
    <3>2. invoice[i].company \in Companies
      BY <1>3, <3>1, InvoiceRow DEF Invoice
    <3>. QED BY <1>2, <1>3, <3>1, <3>2, ApplySums
  <2>3. CASE UnfinalizeInvoice(i)
    <3>1. /\ i \in DOMAIN invoice /\ invoice[i] \in Invoice
          /\ invoice' = [invoice EXCEPT ![i].finalized = FALSE]
          /\ UNCHANGED <<balance, credit, txSum, moved>>
      BY <1>3, <2>3, InvoiceRow DEF UnfinalizeInvoice, Finalized
    <3>. DEFINE row == [invoice[i] EXCEPT !.finalized = FALSE]
    <3>2. /\ row \in Invoice /\ row.company = invoice[i].company
          /\ row.allocated = invoice[i].allocated
      BY <3>1 DEF Invoice
    <3>3. invoice' = [invoice EXCEPT ![i] = row]
      BY <3>1
    <3>. HIDE DEF row
    <3>. QED BY <1>6, <3>1, <3>2, <3>3
  <2>4. CASE HardDeleteInvoice(i)
    BY <1>2, <1>3, <2>4, DeleteSums
  <2>. QED BY <2>1, <2>2, <2>3, <2>4
<1>9. CASE Finalizing
  <2>. PICK p \in Callers :
         (\E i \in InvoiceIds : FinalizeMark(p, i)) \/ FinalizeStep(p) \/ Crash(p)
    BY <1>9 DEF Finalizing
  <2>1. ASSUME NEW i \in InvoiceIds, FinalizeMark(p, i)
        PROVE  Explained(c)'
    <3>1. /\ i \in DOMAIN invoice /\ invoice[i] \in Invoice
          /\ invoice' = [invoice EXCEPT ![i].finalized = TRUE]
          /\ UNCHANGED <<balance, credit, txSum, moved>>
      BY <1>3, <2>1, InvoiceRow DEF FinalizeMark, MayFinalize
    <3>. DEFINE row == [invoice[i] EXCEPT !.finalized = TRUE]
    <3>2. /\ row \in Invoice /\ row.company = invoice[i].company
          /\ row.allocated = invoice[i].allocated
      BY <3>1 DEF Invoice
    <3>3. invoice' = [invoice EXCEPT ![i] = row]
      BY <3>1
    <3>. HIDE DEF row
    <3>. QED BY <1>6, <3>1, <3>2, <3>3
  <2>2. CASE FinalizePrepayment(p)
    BY <1>2, <1>3, <2>2, FundingSums
  <2>3. ASSUME NEW expires, FinalizeNegative(p, expires)
        PROVE  Explained(c)'
    BY <1>2, <1>3, <2>3, NegativeSums
  <2>4. CASE FinalizeApply(p)
    <3>. DEFINE i == job[p].inv
                k == job[p].company
                request == job[p].amount
    <3>1. /\ job[p] # Idle /\ UNCHANGED moved
          /\ \/ i \in DOMAIN invoice /\ ApplyTo(i, k, request)
             \/ UNCHANGED <<balance, invoice, credit, txSum>>
      BY <2>4 DEF FinalizeApply, At, Applies
    <3>2. CASE i \in DOMAIN invoice /\ ApplyTo(i, k, request)
      <4>1. k \in Companies
        BY <1>3, <3>1, JobFields DEF Job, Jobs
      <4>2. invoice[i].company = k
        BY <1>2, <3>1, <3>2 DEF OwnJobs, OwnInvoices
      <4>. HIDE DEF i, k, request
      <4>. QED BY <1>2, <1>3, <3>1, <3>2, <4>1, <4>2, ApplySums
    <3>. QED BY <1>5, <3>1, <3>2
  <2>5. CASE FinalizeReadCredit(p) \/ FinalizeReadInvoice(p) \/ Crash(p)
    BY <1>5, <2>5 DEF FinalizeReadCredit, FinalizeReadInvoice, Crash
  <2>. QED BY <2>1, <2>2, <2>3, <2>4, <2>5 DEF FinalizeStep
<1>10. CASE Administering
  <2>1. ASSUME NEW S \in SUBSET DOMAIN credit, Expire(S)
        PROVE  Explained(c)'
    BY <1>2, <1>3, <2>1, ExpireSums
  <2>2. ASSUME NEW scope, ExpireCredits(scope)
        PROVE  Explained(c)'
    BY <2>1, <2>2 DEF ExpireCredits, Lapsed
  <2>3. ASSUME NEW e, ManuallyExpireCredit(e)
        PROVE  Explained(c)'
    BY <2>1, <2>3 DEF ManuallyExpireCredit
  <2>4. ASSUME NEW e, NEW target \in Companies, NEW amount \in Amounts,
               TransferCredit(e, target, amount)
        PROVE  Explained(c)'
    <3>1. amount \in Nat
      BY LedgerAssumption
    <3>. QED BY <1>2, <1>3, <2>4, <3>1, TransferSums
  <2>5. ASSUME NEW e, NEW expires, UpdateCreditExpiration(e, expires)
        PROVE  Explained(c)'
    BY <1>2, <1>3, <2>5, RedateSums
  <2>. QED BY <1>10, <2>2, <2>3, <2>4, <2>5 DEF Administering
<1>11. CASE Tick \/ UNCHANGED vars
  BY <1>5, <1>11 DEF Tick, vars
<1>. QED BY <1>7, <1>8, <1>9, <1>10, <1>11 DEF Next

LEMMA BooksInit == Init => Books
<1>. SUFFICES ASSUME Init PROVE \A c \in Companies : Explained(c)
  BY TypeInit, OwnedInit DEF Books
<1>. TAKE c \in Companies
<1>1. /\ balance[c] = 0 /\ txSum[c] = 0
      /\ DOMAIN credit = {} /\ DOMAIN invoice = {} /\ DOMAIN moved = {}
  BY DEF Init
<1>2. ASSUME NEW f, NEW S, S = {}
      PROVE  SumFunctionOnSet(f, S) = 0
  BY <1>2, SumEmpty
<1>3. ASSUME NEW rows, DOMAIN rows = {}
      PROVE  /\ LeftIn(rows, c) = 0 /\ PrepaidIn(rows, c) = 0
             /\ \A field : TotalIn(rows, c, field) = 0
  <2>. DEFINE S == {r \in DOMAIN rows : rows[r].company = c}
              T == {r \in S : rows[r].kind = "prepayment"}
  <2>1. S = {} /\ T = {}
    BY <1>3
  <2>2. LeftIn(rows, c) = SumFunctionOnSet([e \in S |-> rows[e].remaining], S)
        /\ PrepaidIn(rows, c) = SumFunctionOnSet([e \in T |-> rows[e].amount], T)
    BY DEF LeftIn, PrepaidIn, SumFunction
  <2>3. \A field : TotalIn(rows, c, field)
                     = SumFunctionOnSet([e \in S |-> rows[e][field]], S)
    BY DEF TotalIn, SumFunction
  <2>. HIDE DEF S, T
  <2>. QED BY <1>2, <2>1, <2>2, <2>3
<1>4. Left(c) = 0 /\ Prepayments(c) = 0 /\ Allocated(c) = 0 /\ Moved(c) = 0
  BY <1>1, <1>3 DEF Left, Prepayments, Allocated, Moved
<1>. QED BY <1>1, <1>4 DEF Explained

\* The books are always explained, and what belongs to an invoice is its company's.
THEOREM BooksAlways == Spec => []Books
<1>1. Books /\ [Next]_vars => Books'
  BY BooksStep
<1>. QED BY <1>1, BooksInit, PTL DEF Spec

\* A company's balance is always what its credits have left, less its
\* prepayments, plus what finalizing its invoices moved: whatever operations
\* have run, and wherever processes have stopped in the middle of them.
THEOREM BalanceIsExplained == Spec => []BalanceExplained
<1>1. Books => BalanceExplained
  BY ExplainedIs DEF Books
<1>. QED BY <1>1, BooksAlways, PTL

\* The sum of a company's transactions is always short of what its credits have
\* left by exactly what its invoices have allocated.
THEOREM TransactionsAreExplained == Spec => []TransactionsExplained
<1>1. Books => TransactionsExplained
  BY ExplainedIs DEF Books
<1>. QED BY <1>1, BooksAlways, PTL

-----------------------------------------------------------------------------
(* Funding: the balance moves once for a prepayment that is finalized        *)

\* A process finalizes an invoice that is there, marked and nobody else's; it
\* goes to the balance exactly with the invoices of no billing cycle, with what
\* they were issued for.
JobsFund ==
  /\ \A p \in Callers :
       job[p] # Idle =>
         /\ job[p].inv \in DOMAIN invoice /\ invoice[job[p].inv].finalized
         /\ job[p].stage = "prepayment" <=> invoice[job[p].inv].kind # "cycle"
         /\ job[p].stage = "prepayment" => job[p].amount = invoice[job[p].inv].subtotal
  /\ \A p, q \in Callers :
       job[p] # Idle /\ job[q] # Idle /\ job[p].inv = job[q].inv => p = q

\* Only the invoices of billing cycles wait for their totals.
CyclesUnfilled ==
  \A i \in DOMAIN invoice : ~invoice[i].filled => invoice[i].kind = "cycle"

\* The inductive strengthening of FundedOnce.
FundInv == TypeOK /\ JobsFund /\ CyclesUnfilled /\ FundedOnce

\* Steps that mark no invoice and fund none.
RowsUnfunded ==
  /\ \A i \in DOMAIN invoice :
       /\ i \in DOMAIN invoice'
       /\ invoice'[i].kind = invoice[i].kind
       /\ invoice'[i].finalized = invoice[i].finalized
       /\ invoice[i].kind # "cycle" => invoice'[i].subtotal = invoice[i].subtotal
       /\ invoice[i].filled => invoice'[i].filled
       /\ moved'[i].amount = moved[i].amount
  /\ \A i \in DOMAIN invoice' \ DOMAIN invoice :
       /\ ~invoice'[i].finalized
       /\ invoice'[i].filled \/ invoice'[i].kind = "cycle"
       /\ moved'[i].amount = 0

JobsUnfunded ==
  \A p \in Callers :
    \/ job'[p] = job[p]
    \/ /\ job[p] # Idle /\ job[p].stage # "prepayment"
       /\ job'[p] # Idle => job'[p].inv = job[p].inv /\ job'[p].stage # "prepayment"

LEMMA UnfundedStep ==
  ASSUME FundInv, TypeOK', RowsUnfunded, JobsUnfunded
  PROVE  FundInv'
<1>1. CyclesUnfilled'
  BY DEF FundInv, CyclesUnfilled, RowsUnfunded
<1>2. JobsFund'
  <2>1. ASSUME NEW p \in Callers, job'[p] # Idle
        PROVE  job[p] # Idle /\ job'[p].inv = job[p].inv
    BY <2>1 DEF JobsUnfunded
  <2>2. ASSUME NEW p \in Callers, job'[p] # Idle
        PROVE  /\ job'[p].inv \in DOMAIN invoice' /\ invoice'[job'[p].inv].finalized
               /\ job'[p].stage = "prepayment" <=> invoice'[job'[p].inv].kind # "cycle"
               /\ job'[p].stage = "prepayment"
                    => job'[p].amount = invoice'[job'[p].inv].subtotal
    <3>. DEFINE i == job[p].inv
    <3>1. /\ job[p] # Idle /\ job'[p].inv = i
          /\ i \in DOMAIN invoice /\ invoice[i].finalized
          /\ job[p].stage = "prepayment" <=> invoice[i].kind # "cycle"
          /\ job[p].stage = "prepayment" => job[p].amount = invoice[i].subtotal
      BY <2>1, <2>2 DEF FundInv, JobsFund
    <3>2. /\ i \in DOMAIN invoice'
          /\ invoice'[i].kind = invoice[i].kind
          /\ invoice'[i].finalized = invoice[i].finalized
          /\ invoice[i].kind # "cycle" => invoice'[i].subtotal = invoice[i].subtotal
      BY <3>1 DEF RowsUnfunded
    <3>. HIDE DEF i
    <3>. QED BY <2>2, <3>1, <3>2 DEF JobsUnfunded
  <2>. QED BY <2>1, <2>2 DEF FundInv, JobsFund
<1>3. FundedOnce'
  <2>. SUFFICES ASSUME NEW i \in DOMAIN invoice'
                PROVE  moved'[i].amount =
                         IF /\ invoice'[i].kind # "cycle" /\ invoice'[i].finalized
                            /\ \A p \in Callers : job'[p] # Idle => job'[p].inv # i
                         THEN invoice'[i].subtotal ELSE 0
    BY DEF FundedOnce
  <2>1. CASE i \notin DOMAIN invoice
    BY <2>1 DEF RowsUnfunded
  <2>2. CASE i \in DOMAIN invoice
    <3>1. /\ invoice'[i].kind = invoice[i].kind
          /\ invoice'[i].finalized = invoice[i].finalized
          /\ invoice[i].kind # "cycle" => invoice'[i].subtotal = invoice[i].subtotal
          /\ moved'[i].amount = moved[i].amount
      BY <2>2 DEF RowsUnfunded
    <3>2. moved[i].amount =
            IF /\ invoice[i].kind # "cycle" /\ invoice[i].finalized
               /\ \A p \in Callers : job[p] # Idle => job[p].inv # i
            THEN invoice[i].subtotal ELSE 0
      BY <2>2 DEF FundInv, FundedOnce
    <3>3. ASSUME invoice[i].kind # "cycle"
          PROVE  (\A p \in Callers : job[p] # Idle => job[p].inv # i)
                   <=> (\A p \in Callers : job'[p] # Idle => job'[p].inv # i)
      BY <3>3 DEF FundInv, JobsFund, JobsUnfunded
    <3>. QED BY <3>1, <3>2, <3>3
  <2>. QED BY <2>1, <2>2
<1>. QED BY <1>1, <1>2, <1>3 DEF FundInv

\* A process takes an invoice that was not finalized: nobody else is on it.
LEMMA MarkFunds ==
  ASSUME FundInv, TypeOK', NEW p \in Callers, NEW i, FinalizeMark(p, i)
  PROVE  FundInv'
<1>. DEFINE stage == StageAfter(invoice[i])
            amount == CASE stage = "prepayment" -> invoice[i].subtotal
                        [] stage = "negative"   -> -invoice[i].total
                        [] stage = "regular"    -> 0
            held == [stage |-> stage, inv |-> i, company |-> invoice[i].company,
                     amount |-> amount]
<1>1. /\ job[p] = Idle /\ i \in DOMAIN invoice /\ ~invoice[i].finalized
      /\ invoice' = [invoice EXCEPT ![i].finalized = TRUE]
      /\ job' = [job EXCEPT ![p] = held]
      /\ UNCHANGED moved
  BY DEF FinalizeMark, MayFinalize
<1>2. invoice[i] \in Invoice
  BY <1>1, InvoiceRow DEF FundInv
<1>3. /\ DOMAIN invoice' = DOMAIN invoice
      /\ \A k \in DOMAIN invoice \ {i} : invoice'[k] = invoice[k]
      /\ invoice'[i].finalized
      /\ invoice'[i].kind = invoice[i].kind /\ invoice'[i].filled = invoice[i].filled
      /\ invoice'[i].subtotal = invoice[i].subtotal
  BY <1>1, <1>2 DEF Invoice
<1>4. stage = "prepayment" <=> invoice[i].kind # "cycle"
  BY <1>2 DEF StageAfter, Invoice
<1>5. stage = "prepayment" => amount = invoice[i].subtotal
  OBVIOUS
<1>. HIDE DEF stage, amount
<1>6. /\ job'[p] = held /\ held # Idle /\ held.inv = i
      /\ held.stage = stage /\ held.amount = amount
      /\ \A q \in Callers \ {p} : job'[q] = job[q]
  BY <1>1 DEF FundInv, TypeOK, Idle
<1>. HIDE DEF held
<1>7. \A q \in Callers : job[q] # Idle => job[q].inv # i
  BY <1>1 DEF FundInv, JobsFund
<1>8. JobsFund'
  <2>1. ASSUME NEW q \in Callers, job'[q] # Idle
        PROVE  /\ job'[q].inv \in DOMAIN invoice' /\ invoice'[job'[q].inv].finalized
               /\ job'[q].stage = "prepayment" <=> invoice'[job'[q].inv].kind # "cycle"
               /\ job'[q].stage = "prepayment"
                    => job'[q].amount = invoice'[job'[q].inv].subtotal
    <3>1. CASE q = p
      BY <1>1, <1>3, <1>4, <1>5, <1>6, <3>1
    <3>2. CASE q # p
      BY <1>3, <1>6, <1>7, <2>1, <3>2 DEF FundInv, JobsFund
    <3>. QED BY <3>1, <3>2
  <2>2. ASSUME NEW q \in Callers, NEW r \in Callers, job'[q] # Idle, job'[r] # Idle,
               job'[q].inv = job'[r].inv
        PROVE  q = r
    BY <1>6, <1>7, <2>2 DEF FundInv, JobsFund
  <2>. QED BY <2>1, <2>2 DEF JobsFund
<1>9. FundedOnce'
  <2>. SUFFICES ASSUME NEW k \in DOMAIN invoice'
                PROVE  moved'[k].amount =
                         IF /\ invoice'[k].kind # "cycle" /\ invoice'[k].finalized
                            /\ \A q \in Callers : job'[q] # Idle => job'[q].inv # k
                         THEN invoice'[k].subtotal ELSE 0
    BY DEF FundedOnce
  <2>1. moved'[k].amount = moved[k].amount /\ k \in DOMAIN invoice
    BY <1>1, <1>3
  <2>2. moved[k].amount =
            IF /\ invoice[k].kind # "cycle" /\ invoice[k].finalized
               /\ \A q \in Callers : job[q] # Idle => job[q].inv # k
            THEN invoice[k].subtotal ELSE 0
    BY <2>1 DEF FundInv, FundedOnce
  <2>3. CASE k = i
    BY <1>1, <1>6, <2>1, <2>2, <2>3
  <2>4. CASE k # i
    <3>1. (\A q \in Callers : job[q] # Idle => job[q].inv # k)
            <=> (\A q \in Callers : job'[q] # Idle => job'[q].inv # k)
      BY <1>1, <1>6, <2>4
    <3>2. invoice'[k] = invoice[k]
      BY <1>3, <2>1, <2>4
    <3>. QED BY <2>1, <2>2, <3>1, <3>2
  <2>. QED BY <2>3, <2>4
<1>10. CyclesUnfilled'
  BY <1>3 DEF FundInv, CyclesUnfilled
<1>. QED BY <1>8, <1>9, <1>10 DEF FundInv

\* The process that funds a prepayment is the only one on it, and lets go of it.
LEMMA PrepaymentFunds ==
  ASSUME FundInv, TypeOK', NEW p \in Callers, FinalizePrepayment(p)
  PROVE  FundInv'
<1>. DEFINE i == job[p].inv
            amount == job[p].amount
<1>1. /\ job[p] # Idle /\ job[p].stage = "prepayment"
      /\ moved' = [moved EXCEPT ![i].amount = @ + amount]
      /\ job' = [job EXCEPT ![p] = Idle] /\ UNCHANGED invoice
  BY DEF FinalizePrepayment, At, Finish
<1>2. /\ i \in DOMAIN invoice /\ invoice[i].finalized /\ invoice[i].kind # "cycle"
      /\ amount = invoice[i].subtotal
  BY <1>1 DEF FundInv, JobsFund
<1>3. /\ i \in DOMAIN moved /\ moved[i] \in [company : Companies, amount : Int]
      /\ amount \in Int
  BY <1>2, InvoiceRow DEF FundInv, TypeOK, Invoice
<1>4. moved[i].amount = 0
  BY <1>1, <1>2 DEF FundInv, FundedOnce
<1>5. /\ job'[p] = Idle /\ \A q \in Callers \ {p} : job'[q] = job[q]
  BY <1>1 DEF FundInv, TypeOK
<1>6. \A q \in Callers : job'[q] # Idle => job'[q].inv # i
  BY <1>1, <1>5 DEF FundInv, JobsFund
<1>. HIDE DEF amount, i
<1>7. moved'[i].amount = amount
  <2>1. moved'[i] = [moved[i] EXCEPT !.amount = @ + amount]
    BY <1>1, <1>3
  <2>2. moved'[i].amount = moved[i].amount + amount
    BY <1>3, <2>1
  <2>. QED BY <1>3, <1>4, <2>2
<1>8. \A k \in DOMAIN moved \ {i} : moved'[k] = moved[k]
  BY <1>1
<1>9. JobsFund'
  BY <1>1, <1>5 DEF FundInv, JobsFund
<1>10. FundedOnce'
  <2>. SUFFICES ASSUME NEW k \in DOMAIN invoice
                PROVE  moved'[k].amount =
                         IF /\ invoice[k].kind # "cycle" /\ invoice[k].finalized
                            /\ \A q \in Callers : job'[q] # Idle => job'[q].inv # k
                         THEN invoice[k].subtotal ELSE 0
    BY <1>1 DEF FundedOnce
  <2>1. CASE k = i
    BY <1>2, <1>6, <1>7, <2>1
  <2>2. CASE k # i
    <3>1. moved'[k].amount = moved[k].amount
      BY <1>8, <2>2 DEF FundInv, TypeOK
    <3>2. (\A q \in Callers : job[q] # Idle => job[q].inv # k)
            <=> (\A q \in Callers : job'[q] # Idle => job'[q].inv # k)
      BY <1>5, <2>2 DEF i
    <3>3. moved[k].amount =
            IF /\ invoice[k].kind # "cycle" /\ invoice[k].finalized
               /\ \A q \in Callers : job[q] # Idle => job[q].inv # k
            THEN invoice[k].subtotal ELSE 0
      BY DEF FundInv, FundedOnce
    <3>. QED BY <3>1, <3>2, <3>3
  <2>. QED BY <2>1, <2>2
<1>11. CyclesUnfilled'
  BY <1>1 DEF FundInv, CyclesUnfilled
<1>. QED BY <1>9, <1>10, <1>11 DEF FundInv

LEMMA RowsStay ==
  ASSUME UNCHANGED <<invoice, moved>>
  PROVE  RowsUnfunded
BY DEF RowsUnfunded

LEMMA RowChanged ==
  ASSUME NEW i \in DOMAIN invoice, NEW row,
         row.kind = invoice[i].kind, row.finalized = invoice[i].finalized,
         invoice[i].kind # "cycle" => row.subtotal = invoice[i].subtotal,
         invoice[i].filled => row.filled,
         invoice' = [invoice EXCEPT ![i] = row], UNCHANGED moved
  PROVE  RowsUnfunded
BY DEF RowsUnfunded

LEMMA RowNew ==
  ASSUME TypeOK, NEW i, i \notin DOMAIN moved, NEW row, NEW new,
         ~row.finalized, row.filled \/ row.kind = "cycle", new.amount = 0,
         invoice' = Put(invoice, i, row), moved' = Put(moved, i, new)
  PROVE  RowsUnfunded
<1>1. i \notin DOMAIN invoice /\ \A k \in DOMAIN invoice : k \in DOMAIN moved
  BY DEF TypeOK
<1>2. DOMAIN invoice' = DOMAIN invoice \cup {i} /\ invoice'[i] = row /\ moved'[i] = new
  BY DEF Put
<1>3. \A k \in DOMAIN invoice : invoice'[k] = invoice[k] /\ moved'[k] = moved[k]
  BY <1>1 DEF Put
<1>. QED BY <1>2, <1>3 DEF RowsUnfunded

LEMMA RowMade ==
  ASSUME TypeOK, NEW i, NEW c, NEW kind, NEW subtotal, NEW tax,
         NewInvoice(i, c, kind, subtotal, tax)
  PROVE  RowsUnfunded
<1>. DEFINE row == [company |-> c, kind |-> kind, subtotal |-> subtotal, tax |-> tax,
                    total |-> subtotal + tax, applied |-> 0, allocated |-> 0,
                    finalized |-> FALSE, filled |-> TRUE, offered |-> subtotal + tax,
                    rewritten |-> FALSE]
            new == [company |-> c, amount |-> 0]
<1>1. i \notin DOMAIN moved /\ invoice' = Put(invoice, i, row) /\ moved' = Put(moved, i, new)
  BY DEF NewInvoice
<1>2. ~row.finalized /\ row.filled /\ new.amount = 0
  OBVIOUS
<1>. HIDE DEF row, new
<1>. QED BY <1>1, <1>2, RowNew

LEMMA RowApplied ==
  ASSUME TypeOK, NEW i \in DOMAIN invoice, NEW c, NEW request, ApplyTo(i, c, request),
         UNCHANGED moved
  PROVE  RowsUnfunded
<1>1. PICK total \in 1 .. Capped(i, request) :
        invoice' = [invoice EXCEPT ![i].applied = @ + total, ![i].allocated = @ + total,
                                   ![i].total = @ - total,
                                   ![i].offered = Looser(@, invoice[i].total - total)]
  BY DEF ApplyTo
<1>2. invoice[i] \in Invoice
  BY InvoiceRow
<1>. DEFINE row == [invoice[i] EXCEPT !.applied = @ + total, !.allocated = @ + total,
                                      !.total = @ - total,
                                      !.offered = Looser(@, invoice[i].total - total)]
<1>3. invoice' = [invoice EXCEPT ![i] = row]
  BY <1>1
<1>4. /\ row.kind = invoice[i].kind /\ row.finalized = invoice[i].finalized
      /\ row.subtotal = invoice[i].subtotal /\ row.filled = invoice[i].filled
  BY <1>2 DEF Invoice
<1>. HIDE DEF row
<1>. QED BY <1>3, <1>4, RowChanged

LEMMA JobsStay ==
  ASSUME UNCHANGED job
  PROVE  JobsUnfunded
BY DEF JobsUnfunded

LEMMA FundChanges ==
  ASSUME Limit["unfinalize"] = 0, Limit["edit"] = 0, Limit["crash"] = 0,
         Limit["delete"] = 0, FundInv, [Next]_vars
  PROVE  \/ RowsUnfunded /\ JobsUnfunded
         \/ \E p \in Callers, i \in InvoiceIds : FinalizeMark(p, i)
         \/ \E p \in Callers : FinalizePrepayment(p)
<1>. DEFINE Goal == \/ RowsUnfunded /\ JobsUnfunded
                    \/ \E p \in Callers, i \in InvoiceIds : FinalizeMark(p, i)
                    \/ \E p \in Callers : FinalizePrepayment(p)
<1>1. TypeOK
  BY DEF FundInv
<1>2. /\ \A kind \in {"unfinalize", "edit", "crash", "delete"} : ~Once(kind)
      /\ ~ (spent["delete"] < Limit["delete"])
  BY <1>1 DEF Once, TypeOK, Rare
<1>3. CASE UNCHANGED <<invoice, moved, job>>
  BY <1>3, RowsStay, JobsStay
<1>4. CASE Invoicing
  <2>. PICK i \in InvoiceIds, c \in Companies :
       \/ \E amount \in Amounts, expires \in ExpiryDates :
            CreatePrepaymentInvoice(i, c, amount, expires)
       \/ \E kind \in {"cycle", "manual"}, subtotal \in Totals, tax \in Taxes :
            GenerateInvoice(i, c, kind, subtotal, tax)
       \/ InsertCycleInvoice(i, c)
    BY <1>4 DEF Invoicing
  <2>1. CASE InsertCycleInvoice(i, c)
    <3>. DEFINE row == [company |-> c, kind |-> "cycle", subtotal |-> 0, tax |-> 0,
                        total |-> 0, applied |-> 0, allocated |-> 0,
                        finalized |-> FALSE, filled |-> FALSE, offered |-> 0,
                        rewritten |-> FALSE]
                new == [company |-> c, amount |-> 0]
    <3>1. /\ i \notin DOMAIN moved /\ UNCHANGED job
          /\ invoice' = Put(invoice, i, row) /\ moved' = Put(moved, i, new)
      BY <2>1 DEF InsertCycleInvoice
    <3>2. ~row.finalized /\ row.kind = "cycle" /\ new.amount = 0
      OBVIOUS
    <3>. HIDE DEF row, new
    <3>. QED BY <1>1, <3>1, <3>2, RowNew, JobsStay
  <2>2. ASSUME NEW amount, NEW expires, CreatePrepaymentInvoice(i, c, amount, expires)
        PROVE  Goal
    BY <1>1, <2>2, RowMade, JobsStay DEF CreatePrepaymentInvoice
  <2>3. ASSUME NEW kind, NEW subtotal, NEW tax, GenerateInvoice(i, c, kind, subtotal, tax)
        PROVE  Goal
    BY <1>1, <2>3, RowMade, JobsStay DEF GenerateInvoice
  <2>. QED BY <2>1, <2>2, <2>3
<1>5. CASE Changing
  <2>. PICK i \in InvoiceIds :
       \/ \E subtotal \in Totals, tax \in Taxes :
            EditInvoice(i, subtotal, tax) \/ FillCycleInvoice(i, subtotal, tax)
       \/ \E request \in Amounts : ApplyCreditToInvoice(i, request)
       \/ UnfinalizeInvoice(i)
       \/ HardDeleteInvoice(i)
    BY <1>5 DEF Changing
  <2>1. ASSUME NEW subtotal \in Totals, NEW tax \in Taxes, FillCycleInvoice(i, subtotal, tax)
        PROVE  Goal
    <3>. DEFINE row == [invoice[i] EXCEPT !.subtotal = subtotal, !.tax = tax,
                                          !.total = subtotal + tax, !.applied = 0,
                                          !.filled = TRUE,
                                          !.offered = Looser(@, subtotal + tax),
                                          !.rewritten = TRUE]
    <3>1. /\ i \in DOMAIN invoice /\ ~invoice[i].filled /\ UNCHANGED <<moved, job>>
          /\ invoice' = [invoice EXCEPT ![i] = row]
      BY <2>1 DEF FillCycleInvoice
    <3>2. invoice[i] \in Invoice /\ invoice[i].kind = "cycle"
      BY <1>1, <3>1, InvoiceRow DEF FundInv, CyclesUnfilled
    <3>3. row.kind = invoice[i].kind /\ row.finalized = invoice[i].finalized /\ row.filled
      BY <3>2 DEF Invoice
    <3>. HIDE DEF row
    <3>. QED BY <3>1, <3>2, <3>3, RowChanged, JobsStay
  <2>2. ASSUME NEW request, ApplyCreditToInvoice(i, request)
        PROVE  Goal
    BY <1>1, <2>2, RowApplied, JobsStay DEF ApplyCreditToInvoice
  <2>3. ASSUME NEW subtotal, NEW tax
        PROVE  ~EditInvoice(i, subtotal, tax)
    BY <1>2 DEF EditInvoice
  <2>4. ~UnfinalizeInvoice(i)
    BY <1>2 DEF UnfinalizeInvoice
  <2>5. ~HardDeleteInvoice(i)
    <3>1. HardDeleteInvoice(i) => Once("delete") \/ spent["delete"] < Limit["delete"]
      BY Zenon DEF HardDeleteInvoice
    <3>. QED BY <1>2, <3>1
  <2>. QED BY <2>1, <2>2, <2>3, <2>4, <2>5
<1>6. CASE Finalizing
  <2>. PICK p \in Callers :
         (\E i \in InvoiceIds : FinalizeMark(p, i)) \/ FinalizeStep(p) \/ Crash(p)
    BY <1>6 DEF Finalizing
  <2>1. ASSUME job[p] # Idle, job[p].stage # "prepayment", Finish(p)
        PROVE  JobsUnfunded
    BY <1>1, <2>1 DEF Finish, JobsUnfunded, TypeOK
  <2>2. ASSUME job[p] # Idle, job[p].stage # "prepayment", NEW stage, stage # "prepayment",
               NEW amount, Continue(p, stage, amount)
        PROVE  JobsUnfunded
    <3>1. job[p] \in Jobs /\ job'[p] = [job[p] EXCEPT !.stage = stage, !.amount = amount]
      BY <1>1, <2>2, JobFields DEF Continue, TypeOK, Job
    <3>2. job'[p].stage # "prepayment" /\ job'[p].inv = job[p].inv
      BY <2>2, <3>1 DEF Jobs
    <3>3. \A q \in Callers \ {p} : job'[q] = job[q]
      BY <1>1, <2>2 DEF Continue, TypeOK
    <3>. QED BY <2>2, <3>2, <3>3 DEF JobsUnfunded
  <2>3. ASSUME NEW expires, FinalizeNegative(p, expires)
        PROVE  Goal
    <3>1. job[p] # Idle /\ job[p].stage # "prepayment" /\ Finish(p)
          /\ UNCHANGED <<invoice, moved>>
      BY <2>3 DEF FinalizeNegative, At
    <3>. QED BY <2>1, <3>1, RowsStay
  <2>4. CASE FinalizeReadCredit(p)
    <3>1. job[p] # Idle /\ job[p].stage # "prepayment" /\ UNCHANGED <<invoice, moved>>
          /\ (Finish(p) \/ Continue(p, "read", balance[job[p].company]))
      BY <2>4 DEF FinalizeReadCredit, At
    <3>. QED BY <2>1, <2>2, <3>1, RowsStay
  <2>5. CASE FinalizeReadInvoice(p)
    <3>1. job[p] # Idle /\ job[p].stage # "prepayment" /\ UNCHANGED <<invoice, moved>>
          /\ \/ Finish(p)
             \/ Continue(p, "apply", Least(job[p].amount, invoice[job[p].inv].total))
      BY <2>5 DEF FinalizeReadInvoice, At
    <3>. QED BY <2>1, <2>2, <3>1, RowsStay
  <2>6. CASE FinalizeApply(p)
    <3>1. /\ job[p] # Idle /\ job[p].stage # "prepayment" /\ Finish(p) /\ UNCHANGED moved
          /\ \/ /\ job[p].inv \in DOMAIN invoice
                /\ ApplyTo(job[p].inv, job[p].company, job[p].amount)
             \/ UNCHANGED invoice
      BY <2>6 DEF FinalizeApply, At, Applies
    <3>. QED BY <1>1, <2>1, <3>1, RowsStay, RowApplied
  <2>7. ~Crash(p)
    BY <1>2 DEF Crash
  <2>. QED BY <2>3, <2>4, <2>5, <2>6, <2>7 DEF FinalizeStep
<1>7. CASE Administering
  BY <1>3, <1>7 DEF Administering, ExpireCredits, ManuallyExpireCredit, Expire,
                    TransferCredit, UpdateCreditExpiration
<1>8. CASE Tick \/ UNCHANGED vars
  BY <1>3, <1>8 DEF Tick, vars
<1>. QED BY <1>4, <1>5, <1>6, <1>7, <1>8 DEF Next

\* Where nothing is reopened, edited or deleted and no process dies, what a
\* finalized invoice of no billing cycle moved is its amount, once, however many
\* processes finalize at a time; and no other invoice moves a balance.
THEOREM FundedExactlyOnce ==
  ASSUME Limit["unfinalize"] = 0, Limit["edit"] = 0, Limit["crash"] = 0,
         Limit["delete"] = 0
  PROVE  Spec => []FundedOnce
<1>1. Init => FundInv
  BY TypeInit DEF Init, FundInv, JobsFund, CyclesUnfilled, FundedOnce
<1>2. FundInv /\ [Next]_vars => FundInv'
  <2>. SUFFICES ASSUME FundInv, [Next]_vars PROVE FundInv'
    OBVIOUS
  <2>1. TypeOK'
    BY TypeStep DEF FundInv
  <2>. QED BY <2>1, FundChanges, UnfundedStep, MarkFunds, PrepaymentFunds
<1>3. FundInv => FundedOnce
  BY DEF FundInv
<1>. QED BY <1>1, <1>2, <1>3, PTL DEF Spec

=============================================================================
