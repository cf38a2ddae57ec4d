--------------------------- MODULE InvoiceGeneration ---------------------------
(***************************************************************************)
(* The invoices of a company's billing cycles: generateInvoice, run by      *)
(* several users at once, bills the approved time of a cycle and then rolls *)
(* over the time that is not approved; a cycle is removed with its invoice. *)
(* Composes BillingCycles and TimeSheets: their steps go on in between.     *)
(*                                                                         *)
(* Besides the time, charges (fixed fees, usage, products) are only there   *)
(* or not; the company has one billing plan, to which all its time belongs. *)
(***************************************************************************)
EXTENDS BillingCycles, TimeSheets

CONSTANTS
  Generators,   \* calls of generateInvoice that may overlap
  OtherCharges, \* whether a cycle may have charges that are not for time
  ZeroDollar,   \* zero_dollar_invoice_handling
  MaxInvoices   \* bounds the number of invoices ever inserted

ASSUME GenerationAssumption ==
  /\ OtherCharges \subseteq BOOLEAN
  /\ ZeroDollar \in {"suppress", "normal"}
  /\ MaxInvoices \in Nat

VARIABLES
  invoices,  \* invoices and their items
  issued,    \* the number of invoices inserted so far; an invoice's id
  generator, \* what each call of generateInvoice has read
  removal    \* what the removal of a cycle has read

vars == <<cyclevars, sheetvars, invoices, issued, generator, removal>>

-----------------------------------------------------------------------------
(* Types *)

NoCycle == 0  \* billing_cycle_id is set to null when the cycle is deleted

\* What is billed of an entry: the item does not say for which entry it is,
\* and this history does.  began is history too: what had been issued when the
\* generation looked for an invoice of the cycle.
Line    == [entry : Entries, start : Nat]
Invoice == [id : 1 .. MaxInvoices, cycle : 0 .. MaxCycles,
            lines : SUBSET Line, began : 0 .. MaxInvoices]

\* What a call has read and still uses, by its next step.
Call ==
  [step : {"calculate"}, cycle : 1 .. MaxCycles, end : Nat,
   began : 0 .. MaxInvoices]
  \cup [step : {"insert"}, cycle : 1 .. MaxCycles, end : Nat,
        began : 0 .. MaxInvoices, lines : SUBSET Line, zero : BOOLEAN]
  \cup [step : {"items"}, invoice : 1 .. MaxInvoices, end : Nat,
        lines : SUBSET Line, zero : BOOLEAN]
  \cup [step : {"rollover"}, end : Nat]
  \cup [step : {"move"}, roll : SUBSET Entries, next : Nat]

Removal == [step : {"cycle"}, cycle : 1 .. MaxCycles]

TypeOK ==
  /\ CyclesTypeOK /\ SheetTypeOK
  /\ invoices \in SUBSET Invoice /\ issued \in 0 .. MaxInvoices
  /\ generator \in [Generators -> {Idle} \cup Call]
  /\ removal \in {Idle} \cup Removal

-----------------------------------------------------------------------------
(* Helpers *)

InvoicesOf(id) == {i \in invoices : i.cycle = id}

\* Variant: an entry that begins at the end of the period is in it.
InPeriodInclusive(e, c) == c.effective <= entry[e].start /\ entry[e].start <= c.end

\* An entry that ends with the period is in none.
InPeriod(e, c) == c.effective <= entry[e].start /\ EndOf(e) < c.end

Billable(c) ==
  {[entry |-> e, start |-> entry[e].start] :
     e \in {f \in Live \ MarkedInvoiced :
              entry[f].status = "APPROVED" /\ InPeriod(f, c)}}

SpansCycleChange(c) ==
  \E d \in cycles : c.effective < d.effective /\ d.effective < c.end

\* The frequency of some cycle of the company: the first the database returns.
SomeFrequency == IF cycles = {} THEN {DefaultFrequency}
                 ELSE {c.frequency : c \in cycles}

Unapproved(end) == {e \in Live : entry[e].status # "APPROVED" /\ EndOf(e) <= end}

Go(g, call) == generator' = [generator EXCEPT ![g] = call]

-----------------------------------------------------------------------------
(* Generation *)

\* Variant: whether there is an invoice is left to the calculation.
ReadBillingCycle(g, c) ==
  /\ generator[g] = Idle
  /\ Go(g, [step |-> "calculate", cycle |-> c.id, end |-> c.end,
            began |-> issued])
  /\ UNCHANGED <<cyclevars, sheetvars, invoices, issued, removal>>

\* Reads the cycle, removed or not, and looks for an invoice of it.
GenerateInvoice(g, c) == InvoicesOf(c.id) = {} /\ ReadBillingCycle(g, c)

\* Reads the cycle again.  It fails if the cycle is gone or another one begins
\* within its period; there is nothing to charge if there is an invoice by now,
\* and an invoice over nothing is suppressed or inserted.
CalculateBilling(g, other) ==
  LET call   == generator[g]
      Fails  == \A c \in CycleOf(call.cycle) :
                  InvoicesOf(c.id) = {} /\ SpansCycleChange(c)
      Lines  == IF InvoicesOf(call.cycle) # {} THEN {}
                ELSE UNION {Billable(c) : c \in CycleOf(call.cycle)}
      Zero   == Lines = {} /\ (InvoicesOf(call.cycle) # {} \/ ~ other)
  IN
  /\ call.step = "calculate"
  /\ Go(g, IF Fails \/ (Zero /\ ZeroDollar = "suppress") THEN Idle
           ELSE [step |-> "insert", cycle |-> call.cycle, end |-> call.end,
                 began |-> call.began, lines |-> Lines, zero |-> Zero])
  /\ UNCHANGED <<cyclevars, sheetvars, invoices, issued, removal>>

\* The invoice row, in a statement of its own; its cycle must exist.
InsertInvoice(g) ==
  LET call == generator[g] IN
  /\ call.step = "insert"
  /\ IF CycleOf(call.cycle) = {}
     THEN Go(g, Idle) /\ UNCHANGED <<invoices, issued>>
     ELSE /\ issued < MaxInvoices
          /\ issued' = issued + 1
          /\ invoices' = invoices \cup
               {[id |-> issued + 1, cycle |-> call.cycle, lines |-> {},
                 began |-> call.began]}
          /\ Go(g, [step |-> "items", invoice |-> issued + 1, end |-> call.end,
                    lines |-> call.lines, zero |-> call.zero])
  /\ UNCHANGED <<cyclevars, sheetvars, removal>>

\* The items, in a transaction, which fails if the invoice has been deleted.
\* An invoice over nothing has none, and nothing is rolled over after it.
PersistInvoiceItems(g) ==
  LET call == generator[g]
      Mine == {i \in invoices : i.id = call.invoice}
  IN
  /\ call.step = "items"
  /\ invoices' = (invoices \ Mine)
                   \cup {[i EXCEPT !.lines = call.lines] : i \in Mine}
  /\ Go(g, IF Mine = {} \/ call.zero THEN Idle
           ELSE [step |-> "rollover", end |-> call.end])
  /\ UNCHANGED <<cyclevars, sheetvars, issued, removal>>

\* The entries to roll over, and where to: to the end of the cycle after the
\* one that has been billed, as the frequency of one of the cycles has it.
\* MaxTime bounds the ends that are looked at.
ReadUnapproved(g) ==
  LET call == generator[g] IN
  /\ call.step = "rollover"
  /\ call.end \in Times
  /\ \E f \in SomeFrequency :
       Go(g, IF Unapproved(call.end) = {} THEN Idle
             ELSE [step |-> "move", roll |-> Unapproved(call.end),
                   next |-> NextCycleDate(f, call.end)])
  /\ UNCHANGED <<cyclevars, sheetvars, invoices, issued, removal>>

\* One entry is moved, whatever has become of it since.
MoveEntry(g, e) ==
  LET call == generator[g] IN
  /\ call.step = "move" /\ e \in call.roll
  /\ entry' = IF e \in Live
              THEN [entry EXCEPT ![e].start = call.next] ELSE entry
  /\ Go(g, IF call.roll = {e} THEN Idle
           ELSE [call EXCEPT !.roll = @ \ {e}])
  /\ UNCHANGED <<cyclevars, sheet, invoices, issued, removal>>

\* An error of the calculation or of a statement, or the process stops.
FailGeneration(g) ==
  /\ generator[g] # Idle
  /\ Go(g, Idle)
  /\ UNCHANGED <<cyclevars, sheetvars, invoices, issued, removal>>

-----------------------------------------------------------------------------
(* Removal *)

\* The user deletes an invoice.
HardDeleteInvoice(i) ==
  /\ invoices' = invoices \ {i}
  /\ UNCHANGED <<cyclevars, sheetvars, issued, generator, removal>>

\* The cycle is read, and an invoice of it, if there is one, is deleted.
RemoveInvoiceOf(c) ==
  /\ removal = Idle
  /\ \/ InvoicesOf(c.id) = {} /\ UNCHANGED invoices
     \/ \E i \in InvoicesOf(c.id) : invoices' = invoices \ {i}
  /\ removal' = [step |-> "cycle", cycle |-> c.id]
  /\ UNCHANGED <<cyclevars, sheetvars, issued, generator>>

\* The cycle is marked (removeBillingCycle) or deleted (hardDeleteBillingCycle):
\* the invoices that are still there then lose it.
RemoveCycle(hard) ==
  /\ removal # Idle
  /\ IF hard
     THEN /\ DeleteCycleRow(removal.cycle)
          /\ invoices' = {IF i.cycle = removal.cycle
                          THEN [i EXCEPT !.cycle = NoCycle] ELSE i : i \in invoices}
     ELSE DeactivateCycle(removal.cycle) /\ UNCHANGED invoices
  /\ removal' = Idle
  /\ UNCHANGED <<sheetvars, issued, generator>>

\* An error, or the process stops between the statements.
FailRemoval ==
  /\ removal # Idle
  /\ removal' = Idle
  /\ UNCHANGED <<cyclevars, sheetvars, invoices, issued, generator>>

-----------------------------------------------------------------------------
(* Specification *)

Init ==
  /\ CyclesInit /\ SheetInit
  /\ invoices = {} /\ issued = 0
  /\ generator = [g \in Generators |-> Idle]
  /\ removal = Idle

GenerationStep(g) ==
  \/ \E c \in cycles : GenerateInvoice(g, c)
  \/ \E other \in OtherCharges : CalculateBilling(g, other)
  \/ InsertInvoice(g) \/ PersistInvoiceItems(g)
  \/ ReadUnapproved(g) \/ (\E e \in Entries : MoveEntry(g, e))
  \/ FailGeneration(g)

RemovalStep ==
  \/ \E i \in invoices : HardDeleteInvoice(i)
  \/ \E c \in cycles : RemoveInvoiceOf(c)
  \/ \E hard \in BOOLEAN : RemoveCycle(hard)
  \/ FailRemoval

Next ==
  \/ \E g \in Generators : GenerationStep(g)
  \/ RemovalStep
  \/ CyclesStep /\ UNCHANGED <<sheetvars, invoices, issued, generator, removal>>
  \/ SheetStep /\ UNCHANGED <<cyclevars, invoices, issued, generator, removal>>

Spec == Init /\ [][Next]_vars

-----------------------------------------------------------------------------
(* Properties *)

\* Two invoices of one cycle are there only because their generations
\* overlapped: the later one looked for an invoice before the earlier one was
\* inserted ("Already invoiced periods can't be generated again",
\* AutomaticInvoices.tsx:100).
DuplicateOnlyIfRaced ==
  \A i, j \in invoices :
    i.cycle = j.cycle /\ i.cycle # NoCycle /\ i.id < j.id => j.began < i.id

IsActive(id) == \E c \in CycleOf(id) : c.active

\* No time is billed by the invoices of two cycles, whatever is edited,
\* reversed, rolled over, deleted and generated again in between, as long as
\* the cycles have not been removed: an entry may be on both only with another
\* time.
BilledByOneCycle ==
  \A i, j \in invoices :
    i.cycle # j.cycle /\ IsActive(i.cycle) /\ IsActive(j.cycle)
      => i.lines \cap j.lines = {}

================================================================================
