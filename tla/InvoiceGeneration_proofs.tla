------------------------ MODULE InvoiceGeneration_proofs ------------------------
(***************************************************************************)
(* Proofs about BillingCycles and InvoiceGeneration, for any number of      *)
(* cycles, creators, generators, invoices and entries:                      *)
(*   - TypeOK;                                                              *)
(*   - two invoices of one cycle only come from generations that overlap;   *)
(*   - with a calendar frequency that is not changed, the cycles that have  *)
(*     not been removed are disjoint, and so is the time their invoices bill.*)
(***************************************************************************)
EXTENDS InvoiceGeneration, TLAPS

-----------------------------------------------------------------------------
(* The cycles *)

\* Every step of the composition is a step of the cycles, or leaves them alone.
LEMMA StepsOfCycles == Next => [CyclesNext]_cyclevars
<1> SUFFICES ASSUME Next PROVE [CyclesNext]_cyclevars
  OBVIOUS
<1>1. ASSUME NEW g \in Generators, GenerationStep(g) PROVE UNCHANGED cyclevars
  BY <1>1 DEF GenerationStep, GenerateInvoice, ReadBillingCycle,
     CalculateBilling, InsertInvoice, PersistInvoiceItems, ReadUnapproved,
     MoveEntry, FailGeneration
<1>2. CASE RemovalStep
  <2>1. ASSUME NEW hard \in BOOLEAN, RemoveCycle(hard)
        PROVE [CyclesNext]_cyclevars
    <3>1. \/ DeleteCycleRow(removal.cycle) \/ DeactivateCycle(removal.cycle)
      BY <2>1 DEF RemoveCycle
    <3>2. CASE CycleOf(removal.cycle) = {}
      <4>1. cycles' = cycles
        BY <3>1, <3>2 DEF DeleteCycleRow, DeactivateCycle, CycleOf
      <4> QED  BY <4>1, <3>1 DEF DeleteCycleRow, DeactivateCycle, cyclevars
    <3>3. CASE CycleOf(removal.cycle) # {}
      <4>1. PICK c \in cycles : c.id = removal.cycle  BY <3>3 DEF CycleOf
      <4> QED  BY <4>1, <3>1 DEF CyclesNext
    <3> QED  BY <3>2, <3>3
  <2> QED
    BY <2>1, <1>2 DEF RemovalStep, HardDeleteInvoice, RemoveInvoiceOf, FailRemoval
<1>3. CASE CyclesStep  BY <1>3 DEF CyclesNext
<1>4. CASE UNCHANGED cyclevars  BY <1>4
<1> QED  BY <1>1, <1>2, <1>3, <1>4 DEF Next

LEMMA CyclesTypeStep ==
  ASSUME CyclesTypeOK, [CyclesNext]_cyclevars
  PROVE  CyclesTypeOK'
<1> USE CalendarAssumption DEF CyclesTypeOK
<1>1. ASSUME NEW p \in Creators, NEW manual \in BOOLEAN,
             CreateCompanyBillingCycles(p, manual)
      PROVE  CyclesTypeOK'
  <2>1. UNCHANGED <<now, frequency, cycles, made>>
    BY <1>1 DEF CreateCompanyBillingCycles
  <2>2. PICK k \in Creation : creator' = [creator EXCEPT ![p] = k]
    <3>1. CASE cycles = {}
      <4>1. StartOfCycle(frequency, now) \in Times  BY DEF Times
      <4> QED  BY <1>1, <3>1, <4>1 DEF CreateCompanyBillingCycles, LastCycles, Creation
    <3>2. CASE cycles # {}
      <4>1. PICK c \in LastCycles :
              creator' = [creator EXCEPT ![p] =
                IF manual
                THEN [step |-> "again", frequency |-> frequency, at |-> c.effective]
                ELSE [step |-> "loop", frequency |-> frequency,
                      at |-> NextCycleDate(frequency, c.effective)]]
        BY <1>1, <3>2, Zenon DEF CreateCompanyBillingCycles
      <4>2. c \in Cycle /\ c.effective \in Times
        BY <4>1 DEF LastCycles, Cycle
      <4>3. NextCycleDate(frequency, c.effective) \in Nat  BY <4>2
      <4> QED  BY <4>1, <4>2, <4>3 DEF Creation
    <3> QED  BY <3>1, <3>2
  <2> QED  BY <2>1, <2>2
<1>2. ASSUME NEW p \in Creators, CreateBillingCycle(p)
      PROVE  CyclesTypeOK'
  <2> DEFINE k == creator[p]
  <2>1. k \in Creation /\ UNCHANGED <<now, frequency>>
    BY <1>2 DEF CreateBillingCycle
  <2>2. CASE IsDuplicate(k.at)
    BY <1>2, <2>1, <2>2 DEF CreateBillingCycle
  <2>3. CASE ~ IsDuplicate(k.at)
    <3>1. k.at \in Times /\ k.frequency \in Frequencies
      BY <1>2, <2>1 DEF CreateBillingCycle, Creation, Times
    <3>2. made' = made + 1 /\ made < MaxCycles
          /\ cycles' = cycles \cup {NewCycle(k.frequency, k.at)}
      BY <1>2, <2>3 DEF CreateBillingCycle
    <3>3. NextCycleDate(k.frequency, k.at) \in Nat  BY <3>1
    <3>4. NewCycle(k.frequency, k.at) \in Cycle
      BY <3>1, <3>2, <3>3 DEF NewCycle, Cycle
    <3>5. NewCycle(k.frequency, k.at).id = made + 1  BY DEF NewCycle
    <3>6. \A c \in cycles : c.id \in Nat  BY DEF Cycle
    <3>7. creator' \in [Creators -> {Idle} \cup Creation]
      BY <1>2, <2>3, <3>1, <3>3 DEF CreateBillingCycle, Creation
    <3>8. \A c \in cycles' : c.id <= made'
      BY <3>2, <3>5, <3>6
    <3>9. cycles' \in SUBSET Cycle /\ made' \in 0 .. MaxCycles
      BY <3>2, <3>4
    <3> QED  BY <3>7, <3>8, <3>9, <2>1
  <2> QED  BY <2>2, <2>3
<1>3. ASSUME NEW p \in Creators, EndCreation(p) PROVE CyclesTypeOK'
  BY <1>3 DEF EndCreation
<1>4. ASSUME NEW f \in Frequencies, UpdateBillingCycle(f) PROVE CyclesTypeOK'
  BY <1>4 DEF UpdateBillingCycle
<1>5. CASE Tick  BY <1>5 DEF Tick, Times
<1>6. ASSUME NEW d \in cycles, DeactivateCycle(d.id) PROVE CyclesTypeOK'
  <2>1. now \in Nat  BY DEF Times
  <2>2. \A c \in cycles : [c EXCEPT !.active = FALSE, !.end = now] \in Cycle
    BY <2>1 DEF Cycle
  <2>3. \A c \in cycles : [c EXCEPT !.active = FALSE, !.end = now].id = c.id
    BY DEF Cycle
  <2> QED  BY <1>6, <2>2, <2>3 DEF DeactivateCycle
<1>7. ASSUME NEW d \in cycles, DeleteCycleRow(d.id) PROVE CyclesTypeOK'
  BY <1>7 DEF DeleteCycleRow
<1>8. CASE UNCHANGED cyclevars  BY <1>8 DEF cyclevars
<1> QED
  BY <1>1, <1>2, <1>3, <1>4, <1>5, <1>6, <1>7, <1>8 DEF CyclesNext, CyclesStep

\* Every cycle has a start of its own, and an id; the cycles that have not been
\* removed end where the calendar says; and what is to be inserted next begins
\* at a start too.
OnTheGrid ==
  /\ \A c \in cycles :
       /\ IsStart(DefaultFrequency, c.effective)
       /\ c.active => c.end = NextCycleDate(DefaultFrequency, c.effective)
  /\ \A c, d \in cycles : c.effective = d.effective \/ c.id = d.id => c = d
  /\ \A p \in Creators :
       creator[p] # Idle /\ creator[p].at \in Times
         => IsStart(DefaultFrequency, creator[p].at)

LEMMA GridStep ==
  ASSUME CalendarAligned, Frequencies = {DefaultFrequency},
         CyclesTypeOK, OnTheGrid, [CyclesNext]_cyclevars
  PROVE  OnTheGrid'
<1> DEFINE F == DefaultFrequency
<1> USE CalendarAssumption DEF CyclesTypeOK
<1>a. F \in Frequencies  BY CalendarAssumption
<1>1. ASSUME NEW p \in Creators, NEW manual \in BOOLEAN,
             CreateCompanyBillingCycles(p, manual)
      PROVE  OnTheGrid'
  <2>1. UNCHANGED <<now, frequency, cycles, made>>
    BY <1>1 DEF CreateCompanyBillingCycles
  <2>2. PICK k \in Creation : /\ creator' = [creator EXCEPT ![p] = k]
                              /\ k.at \in Times => IsStart(F, k.at)
    <3>0. frequency = F  BY DEF CyclesTypeOK
    <3>1. CASE cycles = {}
      <4>1. StartOfCycle(F, now) \in Times  BY DEF Times
      <4>2. IsStart(F, StartOfCycle(F, now))  BY <1>a DEF CalendarAligned
      <4> QED  BY <1>1, <3>0, <3>1, <4>1, <4>2
               DEF CreateCompanyBillingCycles, LastCycles, Creation
    <3>2. CASE cycles # {}
      <4>1. PICK c \in LastCycles :
              creator' = [creator EXCEPT ![p] =
                IF manual
                THEN [step |-> "again", frequency |-> frequency, at |-> c.effective]
                ELSE [step |-> "loop", frequency |-> frequency,
                      at |-> NextCycleDate(frequency, c.effective)]]
        BY <1>1, <3>2, Zenon DEF CreateCompanyBillingCycles
      <4>2. c \in Cycle /\ c.effective \in Times /\ IsStart(F, c.effective)
        BY <4>1 DEF LastCycles, Cycle, OnTheGrid
      <4>3. NextCycleDate(F, c.effective) \in Nat  BY <4>2, <1>a
      <4>4. NextCycleDate(F, c.effective) \in Times
              => IsStart(F, NextCycleDate(F, c.effective))
        BY <4>2, <1>a DEF CalendarAligned
      <4> DEFINE again == [step |-> "again", frequency |-> F, at |-> c.effective]
                 loop  == [step |-> "loop", frequency |-> F,
                           at |-> NextCycleDate(F, c.effective)]
      <4>5. again \in Creation /\ again.at = c.effective
        BY <4>2, <1>a DEF Creation
      <4>6. loop \in Creation /\ loop.at = NextCycleDate(F, c.effective)
        BY <4>3, <1>a DEF Creation
      <4>7. creator' = [creator EXCEPT ![p] = IF manual THEN again ELSE loop]
        BY <4>1, <3>0
      <4> HIDE DEF again, loop
      <4> QED  BY <4>2, <4>4, <4>5, <4>6, <4>7
    <3> QED  BY <3>1, <3>2
  <2>3. \A q \in Creators : creator'[q] = IF q = p THEN k ELSE creator[q]
    BY <2>2
  <2>4. \A q \in Creators :
          creator'[q] # Idle /\ creator'[q].at \in Times
            => IsStart(F, creator'[q].at)
    BY <2>2, <2>3, Zenon DEF OnTheGrid
  <2> HIDE DEF CyclesTypeOK
  <2> QED  BY <2>1, <2>4 DEF OnTheGrid, IsStart
<1>2. ASSUME NEW p \in Creators, CreateBillingCycle(p)
      PROVE  OnTheGrid'
  <2> DEFINE k == creator[p]
             n == NewCycle(F, k.at)
  <2>1. k \in Creation /\ k.frequency = F /\ UNCHANGED <<now, frequency>>
    BY <1>2 DEF CreateBillingCycle, Creation
  <2>2. CASE IsDuplicate(k.at)
    BY <1>2, <2>1, <2>2 DEF CreateBillingCycle, OnTheGrid, IsStart
  <2>3. CASE ~ IsDuplicate(k.at)
    <3>1. k.at \in Times /\ IsStart(F, k.at)
      BY <1>2, <2>1 DEF CreateBillingCycle, Creation, Times, OnTheGrid
    <3>2. cycles' = cycles \cup {n}
      BY <1>2, <2>1, <2>3 DEF CreateBillingCycle
    <3>3. /\ n.id = made + 1 /\ n.effective = k.at
          /\ n.end = NextCycleDate(F, n.effective)
      BY DEF NewCycle
    <3>4. \A c \in cycles : c.id # n.id /\ c.effective # n.effective
      BY <2>3, <3>3 DEF IsDuplicate, Cycle
    <3>5. NextCycleDate(F, k.at) \in Times => IsStart(F, NextCycleDate(F, k.at))
      BY <3>1, <1>a DEF CalendarAligned
    <3>6. \A q \in Creators :
            creator'[q] # Idle /\ creator'[q].at \in Times
              => IsStart(F, creator'[q].at)
      BY <1>2, <2>1, <2>3, <3>5 DEF CreateBillingCycle, OnTheGrid
    <3>7. \A c \in cycles' : /\ IsStart(F, c.effective)
                             /\ c.active => c.end = NextCycleDate(F, c.effective)
      BY <3>1, <3>2, <3>3 DEF OnTheGrid
    <3>8. \A c, d \in cycles' : c.effective = d.effective \/ c.id = d.id => c = d
      BY <3>2, <3>4 DEF OnTheGrid
    <3> QED  BY <3>6, <3>7, <3>8, Zenon DEF OnTheGrid, IsStart
  <2> QED  BY <2>2, <2>3
<1>3. ASSUME NEW p \in Creators, EndCreation(p) PROVE OnTheGrid'
  BY <1>3 DEF EndCreation, OnTheGrid, IsStart
<1>4. ASSUME NEW f \in Frequencies, UpdateBillingCycle(f) PROVE OnTheGrid'
  BY <1>4 DEF UpdateBillingCycle, OnTheGrid, IsStart
<1>5. CASE Tick  BY <1>5 DEF Tick, OnTheGrid, IsStart
<1>6. ASSUME NEW r \in cycles, DeactivateCycle(r.id) PROVE OnTheGrid'
  <2> DEFINE G(c) == IF c.id = r.id THEN [c EXCEPT !.active = FALSE, !.end = now]
                                    ELSE c
  <2>1. cycles' = {G(c) : c \in cycles} /\ UNCHANGED creator
    BY <1>6 DEF DeactivateCycle
  <2>2. \A c \in cycles :
          /\ G(c).id = c.id /\ G(c).effective = c.effective
          /\ G(c).active => G(c) = c
    BY DEF Cycle
  <2> HIDE DEF G
  <2> QED  BY <2>1, <2>2 DEF OnTheGrid, IsStart
<1>7. ASSUME NEW r \in cycles, DeleteCycleRow(r.id) PROVE OnTheGrid'
  BY <1>7 DEF DeleteCycleRow, OnTheGrid, IsStart
<1>8. CASE UNCHANGED cyclevars  BY <1>8 DEF cyclevars, OnTheGrid, IsStart
<1> QED
  BY <1>1, <1>2, <1>3, <1>4, <1>5, <1>6, <1>7, <1>8 DEF CyclesNext, CyclesStep

LEMMA GridIsDisjoint ==
  ASSUME CalendarAligned, CyclesTypeOK, OnTheGrid
  PROVE  ActiveCyclesDisjoint
<1> SUFFICES ASSUME NEW c \in cycles, NEW d \in cycles, c # d,
                    c.active, d.active
             PROVE  ~ Overlap(c, d)
  BY DEF ActiveCyclesDisjoint
<1>1. c.effective \in Times /\ d.effective \in Times /\ c.effective # d.effective
  BY DEF CyclesTypeOK, Cycle, OnTheGrid
<1>2. \A s, t \in Times :
        s < t /\ IsStart(DefaultFrequency, s) /\ IsStart(DefaultFrequency, t)
          => NextCycleDate(DefaultFrequency, s) <= t
  BY CalendarAssumption DEF CalendarAligned, Times
<1>3. c.end \in Nat /\ d.end \in Nat  BY DEF CyclesTypeOK, Cycle
<1> QED  BY <1>1, <1>2, <1>3, CalendarAssumption DEF OnTheGrid, Overlap, Times

\* The cycles that have not been removed are disjoint (CyclesSpec alone).
THEOREM CyclesDisjoint ==
  CalendarAligned /\ Frequencies = {DefaultFrequency}
    => (CyclesSpec => []ActiveCyclesDisjoint)
<1> SUFFICES ASSUME CalendarAligned, Frequencies = {DefaultFrequency}
             PROVE  CyclesSpec => []ActiveCyclesDisjoint
  OBVIOUS
<1>1. CyclesInit => CyclesTypeOK /\ OnTheGrid
  BY CalendarAssumption
     DEF CyclesInit, CyclesTypeOK, OnTheGrid, Times
<1>2. CyclesTypeOK /\ OnTheGrid /\ [CyclesNext]_cyclevars
        => (CyclesTypeOK /\ OnTheGrid)'
  BY CyclesTypeStep, GridStep
<1>3. CyclesTypeOK /\ OnTheGrid => ActiveCyclesDisjoint
  BY GridIsDisjoint
<1> QED  BY <1>1, <1>2, <1>3, PTL DEF CyclesSpec

\* A row that has not been removed is as it was inserted.
LEMMA ActiveRowsUnchanged ==
  ASSUME CyclesTypeOK, [CyclesNext]_cyclevars
  PROVE  /\ made' \in Nat /\ made <= made'
         /\ \A c \in cycles' : c.active /\ c.id <= made => c \in cycles
<1> USE CalendarAssumption DEF CyclesTypeOK
<1>0. made' \in Nat  BY CyclesTypeStep
<1>1. ASSUME NEW p \in Creators, CreateBillingCycle(p)
      PROVE  /\ made <= made'
             /\ \A c \in cycles' : c.active /\ c.id <= made => c \in cycles
  BY <1>1 DEF CreateBillingCycle, NewCycle
<1>2. ASSUME NEW d \in cycles, DeactivateCycle(d.id)
      PROVE  made' = made /\ \A c \in cycles' : c.active => c \in cycles
  BY <1>2 DEF DeactivateCycle, Cycle
<1>3. ASSUME NEW d \in cycles, DeleteCycleRow(d.id)
      PROVE  made' = made /\ cycles' \subseteq cycles
  BY <1>3 DEF DeleteCycleRow
<1> QED
  BY <1>0, <1>1, <1>2, <1>3
     DEF CyclesNext, CyclesStep, cyclevars, CreateCompanyBillingCycles,
         EndCreation, UpdateBillingCycle, Tick

-----------------------------------------------------------------------------
(* Types *)

LEMMA SheetTypeStep ==
  ASSUME SheetTypeOK, SheetStep \/ UNCHANGED sheetvars
  PROVE  SheetTypeOK'
<1> USE EntriesAssumption DEF SheetTypeOK, Entry, Status
<1>1. ASSUME NEW s \in Status, SetStatus(s)
      PROVE  entry' \in [Entries -> Entry]
  BY <1>1 DEF SetStatus
<1>2. ASSUME NEW e \in Entries, NEW t \in EntryTimes, NEW s \in Decisions,
             SaveTimeEntry(e, t, s)
      PROVE  SheetTypeOK'
  BY <1>2 DEF SaveTimeEntry
<1>3. ASSUME NEW e \in Entries, DeleteTimeEntry(e) PROVE SheetTypeOK'
  BY <1>3 DEF DeleteTimeEntry
<1>4. CASE SubmitTimeSheet  BY <1>1, <1>4 DEF SubmitTimeSheet
<1>5. CASE ApproveTimeSheet  BY <1>1, <1>5 DEF ApproveTimeSheet
<1>6. CASE RequestChangesForTimeSheet  BY <1>6 DEF RequestChangesForTimeSheet
<1>7. CASE ReverseTimeSheetApproval
  BY <1>1, <1>7 DEF ReverseTimeSheetApproval
<1>8. CASE UNCHANGED sheetvars  BY <1>8 DEF sheetvars
<1> QED
  BY <1>2, <1>3, <1>4, <1>5, <1>6, <1>7, <1>8
     DEF SheetStep, BulkApproveTimeSheets

OwnTypeOK ==
  /\ invoices \in SUBSET Invoice /\ issued \in 0 .. MaxInvoices
  /\ generator \in [Generators -> {Idle} \cup Call]
  /\ removal \in {Idle} \cup Removal

LEMMA BillableIsLine ==
  ASSUME SheetTypeOK
  PROVE  \A c \in cycles : Billable(c) \in SUBSET Line
BY DEF Billable, SheetTypeOK, Live, Line, Entry

LEMMA GenerationTypeStep ==
  ASSUME TypeOK, NEW g \in Generators, GenerationStep(g)
  PROVE  OwnTypeOK' /\ SheetTypeOK'
<1> USE GenerationAssumption, CalendarAssumption DEF OwnTypeOK
<1>0. OwnTypeOK /\ SheetTypeOK /\ CyclesTypeOK  BY DEF TypeOK
<1>k. generator[g] \in {Idle} \cup Call /\ issued \in Nat  BY <1>0
<1>1. ASSUME NEW c \in cycles, GenerateInvoice(g, c)
      PROVE  OwnTypeOK' /\ SheetTypeOK'
  <2>1. c.id \in 1 .. MaxCycles /\ c.end \in Nat  BY <1>0 DEF CyclesTypeOK, Cycle
  <2>2. [step |-> "calculate", cycle |-> c.id, end |-> c.end, began |-> issued]
          \in Call
    BY <2>1, <1>0 DEF Call
  <2> QED
    BY <1>0, <1>1, <2>2
       DEF GenerateInvoice, ReadBillingCycle, Go, SheetTypeOK, sheetvars
<1>2. ASSUME NEW other \in OtherCharges, CalculateBilling(g, other)
      PROVE  OwnTypeOK' /\ SheetTypeOK'
  <2> DEFINE call  == generator[g]
             lines == IF InvoicesOf(call.cycle) # {} THEN {}
                      ELSE UNION {Billable(c) : c \in CycleOf(call.cycle)}
             zero  == lines = {} /\ (InvoicesOf(call.cycle) # {} \/ ~ other)
             n     == [step |-> "insert", cycle |-> call.cycle,
                       end |-> call.end, began |-> call.began,
                       lines |-> lines, zero |-> zero]
  <2>1. lines \in SUBSET Line  BY <1>0, BillableIsLine DEF CycleOf
  <2>2. call.step = "calculate"  BY <1>2 DEF CalculateBilling
  <2>3. /\ call.cycle \in 1 .. MaxCycles /\ call.end \in Nat
        /\ call.began \in 0 .. MaxInvoices
    BY <1>k, <2>2 DEF Call, Idle
  <2>4. zero \in BOOLEAN  OBVIOUS
  <2>5. n \in Call
    <3> HIDE DEF lines, zero
    <3> QED  BY <2>1, <2>3, <2>4 DEF Call
  <2>6. generator' = [generator EXCEPT ![g] = Idle]
        \/ generator' = [generator EXCEPT ![g] = n]
    BY <1>2, Zenon DEF CalculateBilling, Go
  <2>7. UNCHANGED <<sheet, entry, invoices, issued, removal>>
    BY <1>2 DEF CalculateBilling, sheetvars
  <2> HIDE DEF n
  <2> QED  BY <1>0, <2>5, <2>6, <2>7 DEF SheetTypeOK
<1>3. CASE InsertInvoice(g)
  <2> DEFINE call == generator[g]
             i == [id |-> issued + 1, cycle |-> call.cycle, lines |-> {},
                   began |-> call.began]
             n == [step |-> "items", invoice |-> issued + 1, end |-> call.end,
                   lines |-> call.lines, zero |-> call.zero]
  <2>1. UNCHANGED <<sheet, entry, removal>>  BY <1>3 DEF InsertInvoice, sheetvars
  <2>2. CASE CycleOf(call.cycle) = {}
    BY <1>0, <1>3, <2>1, <2>2 DEF InsertInvoice, Go, SheetTypeOK
  <2>3. CASE CycleOf(call.cycle) # {}
    <3>1. /\ issued < MaxInvoices /\ issued' = issued + 1
          /\ invoices' = invoices \cup {i}
          /\ generator' = [generator EXCEPT ![g] = n]
      BY <1>3, <2>3 DEF InsertInvoice, Go
    <3>2. /\ call.cycle \in 1 .. MaxCycles /\ call.end \in Nat
          /\ call.began \in 0 .. MaxInvoices /\ call.lines \in SUBSET Line
          /\ call.zero \in BOOLEAN
      BY <1>k, <1>3 DEF InsertInvoice, Call, Idle
    <3>3. i \in Invoice  BY <1>0, <3>1, <3>2 DEF Invoice
    <3>4. n \in Call  BY <1>0, <3>1, <3>2 DEF Call
    <3> HIDE DEF i, n
    <3> QED  BY <1>0, <2>1, <3>1, <3>3, <3>4 DEF SheetTypeOK
  <2> QED  BY <2>2, <2>3
<1>4. CASE PersistInvoiceItems(g)
  <2> DEFINE call == generator[g]
             n == [step |-> "rollover", end |-> call.end]
  <2>1. UNCHANGED <<sheet, entry, issued, removal>>
    BY <1>4 DEF PersistInvoiceItems, sheetvars
  <2>2. call.end \in Nat /\ call.lines \in SUBSET Line
    BY <1>k, <1>4 DEF PersistInvoiceItems, Call, Idle
  <2>3. n \in Call  BY <2>2 DEF Call
  <2>4. generator' = [generator EXCEPT ![g] = Idle]
        \/ generator' = [generator EXCEPT ![g] = n]
    BY <1>4, Zenon DEF PersistInvoiceItems, Go
  <2>5. \A i \in invoices : [i EXCEPT !.lines = call.lines] \in Invoice
    BY <1>0, <2>2 DEF Invoice
  <2>6. invoices' \subseteq invoices \cup
          {[i EXCEPT !.lines = call.lines] : i \in invoices}
    BY <1>4 DEF PersistInvoiceItems
  <2>7. invoices' \in SUBSET Invoice  BY <1>0, <2>5, <2>6
  <2> HIDE DEF n
  <2> QED  BY <1>0, <2>1, <2>3, <2>4, <2>7 DEF SheetTypeOK
<1>5. CASE ReadUnapproved(g)
  <2> DEFINE call == generator[g]
  <2>1. PICK f \in SomeFrequency :
          generator' = [generator EXCEPT ![g] =
            IF Unapproved(call.end) = {} THEN Idle
            ELSE [step |-> "move", roll |-> Unapproved(call.end),
                  next |-> NextCycleDate(f, call.end)]]
    BY <1>5, Zenon DEF ReadUnapproved, Go
  <2>2. f \in Frequencies
    BY <1>0 DEF SomeFrequency, CyclesTypeOK, Cycle
  <2>3. call.end \in Times  BY <1>5 DEF ReadUnapproved
  <2>4. NextCycleDate(f, call.end) \in Nat  BY <2>2, <2>3
  <2>5. Unapproved(call.end) \in SUBSET Entries  BY DEF Unapproved, Live
  <2> DEFINE n == [step |-> "move", roll |-> Unapproved(call.end),
                   next |-> NextCycleDate(f, call.end)]
  <2>6. n \in Call  BY <2>4, <2>5 DEF Call
  <2>7. UNCHANGED <<sheet, entry, invoices, issued, removal>>
    BY <1>5 DEF ReadUnapproved, sheetvars
  <2>8. generator' = [generator EXCEPT ![g] = Idle]
        \/ generator' = [generator EXCEPT ![g] = n]
    BY <2>1
  <2> HIDE DEF n
  <2> QED  BY <1>0, <2>6, <2>7, <2>8 DEF SheetTypeOK
<1>6. ASSUME NEW e \in Entries, MoveEntry(g, e)
      PROVE  OwnTypeOK' /\ SheetTypeOK'
  <2> DEFINE call == generator[g]
             n == [call EXCEPT !.roll = @ \ {e}]
  <2>1. call.next \in Nat /\ call.roll \in SUBSET Entries /\ call.step = "move"
        /\ call \in [step : {"move"}, roll : SUBSET Entries, next : Nat]
    BY <1>k, <1>6 DEF MoveEntry, Call, Idle
  <2>2. n \in Call  BY <2>1 DEF Call
  <2>3. generator' = [generator EXCEPT ![g] = Idle]
        \/ generator' = [generator EXCEPT ![g] = n]
    BY <1>6, Zenon DEF MoveEntry, Go
  <2>4. entry' \in [Entries -> Entry]
    BY <1>0, <1>6, <2>1 DEF MoveEntry, SheetTypeOK, Entry
  <2>5. UNCHANGED <<sheet, invoices, issued, removal>>  BY <1>6 DEF MoveEntry
  <2> HIDE DEF n
  <2> QED  BY <1>0, <2>2, <2>3, <2>4, <2>5 DEF SheetTypeOK
<1>7. CASE FailGeneration(g)
  BY <1>0, <1>7 DEF FailGeneration, Go, SheetTypeOK, sheetvars
<1> QED
  BY <1>1, <1>2, <1>3, <1>4, <1>5, <1>6, <1>7 DEF GenerationStep

LEMMA RemovalTypeStep ==
  ASSUME TypeOK, RemovalStep
  PROVE  OwnTypeOK' /\ SheetTypeOK'
<1> USE DEF OwnTypeOK
<1>0. OwnTypeOK /\ SheetTypeOK /\ CyclesTypeOK  BY DEF TypeOK
<1>s. UNCHANGED <<sheet, entry, issued, generator>>
  BY DEF RemovalStep, HardDeleteInvoice, RemoveInvoiceOf, RemoveCycle,
     FailRemoval, sheetvars
<1>1. invoices' \in SUBSET Invoice
  <2>1. \A i \in invoices : [i EXCEPT !.cycle = NoCycle] \in Invoice
    BY <1>0, CalendarAssumption DEF Invoice, NoCycle
  <2>2. invoices' \subseteq
          invoices \cup {[i EXCEPT !.cycle = NoCycle] : i \in invoices}
    BY DEF RemovalStep, HardDeleteInvoice, RemoveInvoiceOf, RemoveCycle,
       FailRemoval
  <2> QED  BY <1>0, <2>1, <2>2
<1>2. removal' \in {Idle} \cup Removal
  BY <1>0 DEF RemovalStep, HardDeleteInvoice, RemoveInvoiceOf, RemoveCycle,
     FailRemoval, Removal, CyclesTypeOK, Cycle
<1> QED  BY <1>0, <1>s, <1>1, <1>2 DEF SheetTypeOK

LEMMA TypeStep ==
  ASSUME TypeOK, [Next]_vars
  PROVE  TypeOK'
<1>0. TypeOK <=> CyclesTypeOK /\ SheetTypeOK /\ OwnTypeOK
  BY DEF TypeOK, OwnTypeOK
<1>1. CyclesTypeOK'
  BY <1>0, CyclesTypeStep, StepsOfCycles DEF vars, cyclevars
<1>2. ASSUME NEW g \in Generators, GenerationStep(g)
      PROVE  OwnTypeOK' /\ SheetTypeOK'
  BY <1>2, GenerationTypeStep
<1>3. ASSUME RemovalStep PROVE OwnTypeOK' /\ SheetTypeOK'
  BY <1>3, RemovalTypeStep
<1>4. ASSUME SheetStep, UNCHANGED <<invoices, issued, generator, removal>>
      PROVE  OwnTypeOK' /\ SheetTypeOK'
  BY <1>0, <1>4, SheetTypeStep DEF OwnTypeOK
<1>5. ASSUME UNCHANGED <<sheetvars, invoices, issued, generator, removal>>
      PROVE  OwnTypeOK' /\ SheetTypeOK'
  BY <1>0, <1>5, SheetTypeStep DEF OwnTypeOK
<1>6. OwnTypeOK' /\ SheetTypeOK'
  BY <1>2, <1>3, <1>4, <1>5 DEF Next, vars
<1> QED  BY <1>1, <1>6 DEF TypeOK, OwnTypeOK

\* Every variable has its type.
THEOREM GenerationTypes == Spec => []TypeOK
<1>1. Init => TypeOK
  BY CalendarAssumption, GenerationAssumption
     DEF Init, CyclesInit, SheetInit, TypeOK, CyclesTypeOK, SheetTypeOK, Times,
         Status, Entry
<1> QED  BY <1>1, TypeStep, PTL DEF Spec

-----------------------------------------------------------------------------
(* Invoices of one cycle *)

\* A generation that has yet to insert its invoice began before every invoice
\* of its cycle was inserted.
Began ==
  /\ \A i \in invoices : i.id <= issued /\ i.began <= issued
  /\ \A g \in Generators :
       generator[g].step \in {"calculate", "insert"} =>
         /\ generator[g].began <= issued
         /\ \A i \in invoices :
              i.cycle = generator[g].cycle => generator[g].began < i.id

RaceInv == Began /\ DuplicateOnlyIfRaced

\* What changes neither the ids nor the cycles of invoices, and begins nothing.
LEMMA RaceKept ==
  ASSUME TypeOK, RaceInv, issued' = issued,
         \A j \in invoices' : \E i \in invoices :
           /\ j.id = i.id /\ j.began = i.began
           /\ j.cycle = i.cycle \/ j.cycle = NoCycle,
         \A h \in Generators :
           generator'[h].step \in {"calculate", "insert"} =>
             /\ generator[h].step \in {"calculate", "insert"}
             /\ generator'[h].began = generator[h].began
             /\ generator'[h].cycle = generator[h].cycle
  PROVE  RaceInv'
<1>0. \A h \in Generators :
        generator[h].step \in {"calculate", "insert"} => generator[h].cycle # NoCycle
  BY DEF TypeOK, Call, Idle, NoCycle
<1>1. Began'
  <2>1. \A j \in invoices' : j.id <= issued' /\ j.began <= issued'
    BY DEF RaceInv, Began
  <2>2. ASSUME NEW h \in Generators,
               generator'[h].step \in {"calculate", "insert"}
        PROVE  /\ generator'[h].began <= issued'
               /\ \A j \in invoices' :
                    j.cycle = generator'[h].cycle => generator'[h].began < j.id
    BY <2>2, <1>0 DEF RaceInv, Began
  <2> QED  BY <2>1, <2>2 DEF Began
<1>2. DuplicateOnlyIfRaced'
  BY DEF RaceInv, DuplicateOnlyIfRaced
<1> QED  BY <1>1, <1>2 DEF RaceInv

LEMMA RaceStep ==
  ASSUME TypeOK, RaceInv, [Next]_vars
  PROVE  RaceInv'
<1>t. /\ issued \in Nat /\ invoices \in SUBSET Invoice
      /\ generator \in [Generators -> {Idle} \cup Call]
  BY GenerationAssumption DEF TypeOK
<1>1. ASSUME NEW g \in Generators, NEW c \in cycles, GenerateInvoice(g, c)
      PROVE  RaceInv'
  <2> DEFINE n == [step |-> "calculate", cycle |-> c.id, end |-> c.end,
                   began |-> issued]
  <2>1. /\ UNCHANGED <<invoices, issued>> /\ InvoicesOf(c.id) = {}
        /\ generator' = [generator EXCEPT ![g] = n]
    BY <1>1 DEF GenerateInvoice, ReadBillingCycle, Go
  <2>2. n.began = issued /\ n.cycle = c.id  OBVIOUS
  <2> HIDE DEF n
  <2>3. \A i \in invoices : i.cycle # n.cycle
    BY <2>1, <2>2 DEF InvoicesOf
  <2>4. \A h \in Generators : generator'[h] = IF h = g THEN n ELSE generator[h]
    BY <1>t, <2>1
  <2>5. Began'  BY <1>t, <2>1, <2>2, <2>3, <2>4 DEF RaceInv, Began
  <2> QED  BY <2>1, <2>5 DEF RaceInv, DuplicateOnlyIfRaced
<1>2. ASSUME NEW g \in Generators, NEW other \in OtherCharges,
             CalculateBilling(g, other)
      PROVE  RaceInv'
  <2>1. UNCHANGED <<invoices, issued>> /\ generator[g].step = "calculate"
    BY <1>2 DEF CalculateBilling
  <2>2. \A h \in Generators :
          \/ generator'[h] = generator[h] \/ generator'[h] = Idle
          \/ /\ h = g
             /\ generator'[h].cycle = generator[h].cycle
             /\ generator'[h].began = generator[h].began
    BY <1>t, <1>2 DEF CalculateBilling, Go
  <2> QED  BY <2>1, <2>2, RaceKept DEF Idle
<1>3. ASSUME NEW g \in Generators, InsertInvoice(g)
      PROVE  RaceInv'
  <2> DEFINE call == generator[g]
             i == [id |-> issued + 1, cycle |-> call.cycle, lines |-> {},
                   began |-> call.began]
             n == [step |-> "items", invoice |-> issued + 1, end |-> call.end,
                   lines |-> call.lines, zero |-> call.zero]
  <2>1. CASE CycleOf(call.cycle) = {}
    <3>1. /\ UNCHANGED <<invoices, issued>>
          /\ generator' = [generator EXCEPT ![g] = Idle]
      BY <1>3, <2>1 DEF InsertInvoice, Go
    <3>2. \A h \in Generators :
            generator'[h] = generator[h] \/ generator'[h] = Idle
      BY <1>t, <3>1
    <3> QED  BY <3>1, <3>2, RaceKept DEF Idle
  <2>2. CASE CycleOf(call.cycle) # {}
    <3>1. /\ issued' = issued + 1 /\ invoices' = invoices \cup {i}
          /\ generator' = [generator EXCEPT ![g] = n]
      BY <1>3, <2>2 DEF InsertInvoice, Go
    <3>2. i.id = issued + 1 /\ i.cycle = call.cycle /\ i.began = call.began
      OBVIOUS
    <3>3. n.step = "items"  OBVIOUS
    <3> HIDE DEF i, n
    <3>4. /\ call.began \in Nat /\ call.began <= issued
          /\ \A j \in invoices : j.cycle = call.cycle => call.began < j.id
      BY <1>t, <1>3 DEF InsertInvoice, RaceInv, Began, Call, Idle
    <3>5. \A h \in Generators :
            h # g => generator'[h] = generator[h]
      BY <1>t, <3>1
    <3>6. generator'[g].step = "items"  BY <1>t, <3>1, <3>3
    <3>7. \A j \in invoices : j.id \in Nat /\ j.began \in Nat /\ j.id <= issued
                             /\ j.began <= issued
      BY <1>t DEF Invoice, RaceInv, Began
    <3>8. \A h \in Generators :
            generator[h].step \in {"calculate", "insert"} =>
              /\ generator[h].began \in Nat /\ generator[h].began <= issued
              /\ \A j \in invoices :
                   j.cycle = generator[h].cycle => generator[h].began < j.id
      BY <1>t DEF RaceInv, Began, Call, Idle
    <3>9. Began'
      <4>1. \A j \in invoices' : j.id <= issued' /\ j.began <= issued'
        BY <1>t, <3>1, <3>2, <3>4, <3>7
      <4>2. ASSUME NEW h \in Generators,
                   generator'[h].step \in {"calculate", "insert"}
            PROVE  /\ generator'[h].began <= issued'
                   /\ \A j \in invoices' : j.cycle = generator'[h].cycle
                                            => generator'[h].began < j.id
        <5>1. h # g /\ generator'[h] = generator[h]  BY <4>2, <3>5, <3>6
        <5> QED  BY <1>t, <4>2, <5>1, <3>1, <3>2, <3>8
      <4> QED  BY <4>1, <4>2 DEF Began
    <3>10. DuplicateOnlyIfRaced'
      BY <1>t, <3>1, <3>2, <3>4, <3>7 DEF RaceInv, DuplicateOnlyIfRaced
    <3> QED  BY <3>9, <3>10 DEF RaceInv
  <2> QED  BY <2>1, <2>2
<1>4. ASSUME NEW g \in Generators,
             PersistInvoiceItems(g) \/ ReadUnapproved(g) \/ FailGeneration(g)
             \/ \E e \in Entries : MoveEntry(g, e)
      PROVE  RaceInv'
  <2>1. issued' = issued
    BY <1>4 DEF PersistInvoiceItems, ReadUnapproved, FailGeneration, MoveEntry
  <2>2. \A j \in invoices' : \E i \in invoices :
          j.id = i.id /\ j.began = i.began /\ j.cycle = i.cycle
    <3>1. CASE PersistInvoiceItems(g)
      <4>1. \A i \in invoices :
              LET k == [i EXCEPT !.lines = generator[g].lines]
              IN  k.id = i.id /\ k.began = i.began /\ k.cycle = i.cycle
        BY <1>t DEF Invoice
      <4> QED  BY <3>1, <4>1 DEF PersistInvoiceItems
    <3>2. CASE UNCHANGED invoices  BY <3>2
    <3> QED
      BY <3>1, <3>2, <1>4 DEF ReadUnapproved, FailGeneration, MoveEntry
  <2>3. \A h \in Generators :
          generator'[h] = generator[h]
          \/ generator'[h].step \notin {"calculate", "insert"}
    <3>1. CASE PersistInvoiceItems(g)
      BY <1>t, <3>1 DEF PersistInvoiceItems, Go, Idle
    <3>2. CASE ReadUnapproved(g)  BY <1>t, <3>2 DEF ReadUnapproved, Go, Idle
    <3>3. CASE FailGeneration(g)  BY <1>t, <3>3 DEF FailGeneration, Go, Idle
    <3>4. ASSUME NEW e \in Entries, MoveEntry(g, e)
          PROVE  \A h \in Generators :
                   generator'[h] = generator[h]
                   \/ generator'[h].step \notin {"calculate", "insert"}
      <4> DEFINE n == [generator[g] EXCEPT !.roll = @ \ {e}]
      <4>1. generator[g] \in Call /\ generator[g].step = "move"
        BY <1>t, <3>4 DEF MoveEntry, Idle
      <4>2. n.step = "move"  BY <4>1 DEF Call
      <4>3. generator' = [generator EXCEPT ![g] = Idle]
            \/ generator' = [generator EXCEPT ![g] = n]
        BY <3>4, Zenon DEF MoveEntry, Go
      <4> HIDE DEF n
      <4> QED  BY <1>t, <4>2, <4>3 DEF Idle
    <3> QED  BY <1>4, <3>1, <3>2, <3>3, <3>4
  <2> QED  BY <2>1, <2>2, <2>3, RaceKept
<1>5. CASE RemovalStep
  <2>1. UNCHANGED <<issued, generator>>
    BY <1>5 DEF RemovalStep, HardDeleteInvoice, RemoveInvoiceOf, RemoveCycle,
       FailRemoval
  <2>2. \A j \in invoices' : \E i \in invoices :
          /\ j.id = i.id /\ j.began = i.began
          /\ j.cycle = i.cycle \/ j.cycle = NoCycle
    <3>1. \A i \in invoices :
            LET k == [i EXCEPT !.cycle = NoCycle]
            IN  k.id = i.id /\ k.began = i.began /\ k.cycle = NoCycle
      BY <1>t DEF Invoice
    <3>2. invoices' \subseteq
            invoices \cup {[i EXCEPT !.cycle = NoCycle] : i \in invoices}
      BY <1>5 DEF RemovalStep, HardDeleteInvoice, RemoveInvoiceOf, RemoveCycle,
         FailRemoval
    <3> QED  BY <3>1, <3>2
  <2> QED  BY <2>1, <2>2, RaceKept
<1>6. CASE UNCHANGED <<invoices, issued, generator>>
  BY <1>6, RaceKept
<1> QED
  BY <1>1, <1>2, <1>3, <1>4, <1>5, <1>6 DEF Next, GenerationStep, vars

\* Two invoices of one cycle come from generations that overlapped.
THEOREM DuplicatesAreRaced == Spec => []DuplicateOnlyIfRaced
<1>1. Init => TypeOK /\ RaceInv
  BY CalendarAssumption, GenerationAssumption
     DEF Init, CyclesInit, SheetInit, TypeOK, CyclesTypeOK, SheetTypeOK, Times,
         Status, Entry, RaceInv, Began, DuplicateOnlyIfRaced, Idle
<1>2. TypeOK /\ RaceInv /\ [Next]_vars => (TypeOK /\ RaceInv)'
  BY TypeStep, RaceStep
<1>3. RaceInv => DuplicateOnlyIfRaced  BY DEF RaceInv
<1> QED  BY <1>1, <1>2, <1>3, PTL DEF Spec

-----------------------------------------------------------------------------
(* Invoices of two cycles *)

\* A set of lines lies in the period of a cycle, unless that is removed.
Within(lines, id) ==
  \A c \in cycles : c.id = id /\ c.active =>
    \A l \in lines : c.effective <= l.start /\ l.start < c.end

LinesInv ==
  /\ \A i \in invoices :
       i.cycle <= made /\ i.id <= issued /\ Within(i.lines, i.cycle)
  /\ \A g \in Generators :
       /\ generator[g].step \in {"calculate", "insert"} =>
            generator[g].cycle <= made
       /\ generator[g].step = "insert" =>
            Within(generator[g].lines, generator[g].cycle)
       /\ generator[g].step = "items" =>
            /\ generator[g].invoice <= issued
            /\ \A i \in invoices : i.id = generator[g].invoice =>
                 Within(generator[g].lines, i.cycle)

\* What only removes invoices, takes their cycle away or ends generations.
LEMMA LinesKept ==
  ASSUME TypeOK, LinesInv, [CyclesNext]_cyclevars, issued' = issued,
         \A j \in invoices' : \E i \in invoices :
           /\ j.id = i.id /\ j.lines = i.lines
           /\ j.cycle = i.cycle \/ j.cycle = NoCycle,
         \A h \in Generators :
           generator'[h] = generator[h]
           \/ generator'[h].step \notin {"calculate", "insert", "items"}
  PROVE  LinesInv'
<1>1. CyclesTypeOK  BY DEF TypeOK
<1>2. CyclesTypeOK'  BY <1>1, CyclesTypeStep
<1>3. /\ made \in Nat /\ made' \in Nat /\ made <= made'
      /\ \A c \in cycles' : c.active /\ c.id <= made => c \in cycles
  BY <1>1, ActiveRowsUnchanged, CalendarAssumption DEF CyclesTypeOK
<1>4. \A c \in cycles' : c.id \in Nat /\ c.id # NoCycle
  BY <1>2 DEF CyclesTypeOK, Cycle, NoCycle
<1>5. \A i \in invoices : i.cycle \in Nat  BY DEF TypeOK, Invoice
<1>6. \A h \in Generators :
        generator[h].step \in {"calculate", "insert"} => generator[h].cycle \in Nat
  BY DEF TypeOK, Call, Idle
<1>7. ASSUME NEW j \in invoices'
      PROVE  j.cycle <= made' /\ j.id <= issued' /\ Within(j.lines, j.cycle)'
  <2>1. PICK i \in invoices : /\ j.id = i.id /\ j.lines = i.lines
                              /\ j.cycle = i.cycle \/ j.cycle = NoCycle
    BY <1>7
  <2> QED  BY <2>1, <1>3, <1>4, <1>5 DEF LinesInv, Within, NoCycle
<1>8. ASSUME NEW h \in Generators, generator'[h] = generator[h]
      PROVE  /\ generator'[h].step \in {"calculate", "insert"} =>
                  generator'[h].cycle <= made'
             /\ generator'[h].step = "insert" =>
                  Within(generator[h].lines, generator[h].cycle)'
             /\ generator'[h].step = "items" =>
                  /\ generator'[h].invoice <= issued'
                  /\ \A j \in invoices' : j.id = generator'[h].invoice =>
                       Within(generator[h].lines, j.cycle)'
  <2>1. ASSUME generator[h].step = "insert"
        PROVE  Within(generator[h].lines, generator[h].cycle)'
    BY <1>8, <2>1, <1>3, <1>4, <1>6 DEF LinesInv, Within
  <2>2. ASSUME generator[h].step = "items",
               NEW j \in invoices', j.id = generator[h].invoice
        PROVE  Within(generator[h].lines, j.cycle)'
    <3>1. PICK i \in invoices : /\ j.id = i.id
                                /\ j.cycle = i.cycle \/ j.cycle = NoCycle
      OBVIOUS
    <3>2. i.cycle \in Nat /\ i.cycle <= made
          /\ Within(generator[h].lines, i.cycle)
      BY <2>2, <3>1, <1>5 DEF LinesInv
    <3> QED  BY <1>8, <3>1, <3>2, <1>3, <1>4 DEF Within
  <2> QED  BY <1>8, <2>1, <2>2, <1>3, <1>6 DEF LinesInv
<1> QED  BY <1>7, <1>8 DEF LinesInv, Within

LEMMA LinesStep ==
  ASSUME TypeOK, OnTheGrid, LinesInv, [Next]_vars
  PROVE  LinesInv'
<1>t. /\ issued \in Nat /\ invoices \in SUBSET Invoice
      /\ generator \in [Generators -> {Idle} \cup Call]
      /\ CyclesTypeOK
  BY GenerationAssumption DEF TypeOK
<1>c. [CyclesNext]_cyclevars  BY StepsOfCycles DEF vars, cyclevars
<1>1. ASSUME NEW g \in Generators, NEW c \in cycles, GenerateInvoice(g, c)
      PROVE  LinesInv'
  <2> DEFINE n == [step |-> "calculate", cycle |-> c.id, end |-> c.end,
                   began |-> issued]
  <2>1. /\ UNCHANGED <<invoices, issued, cycles, made>>
        /\ generator' = [generator EXCEPT ![g] = n]
    BY <1>1 DEF GenerateInvoice, ReadBillingCycle, Go, cyclevars
  <2>2. n.step = "calculate" /\ n.cycle = c.id /\ c.id <= made
    BY <1>t DEF CyclesTypeOK
  <2> HIDE DEF n
  <2>3. \A h \in Generators : generator'[h] = IF h = g THEN n ELSE generator[h]
    BY <1>t, <2>1
  <2> QED  BY <2>1, <2>2, <2>3 DEF LinesInv, Within
<1>2. ASSUME NEW g \in Generators, NEW other \in OtherCharges,
             CalculateBilling(g, other)
      PROVE  LinesInv'
  <2> DEFINE call  == generator[g]
             lines == IF InvoicesOf(call.cycle) # {} THEN {}
                      ELSE UNION {Billable(c) : c \in CycleOf(call.cycle)}
             zero  == lines = {} /\ (InvoicesOf(call.cycle) # {} \/ ~ other)
             n     == [step |-> "insert", cycle |-> call.cycle,
                       end |-> call.end, began |-> call.began,
                       lines |-> lines, zero |-> zero]
  <2>1. /\ UNCHANGED <<invoices, issued, cycles, made>>
        /\ call.step = "calculate"
    BY <1>2 DEF CalculateBilling, cyclevars
  <2>2. generator' = [generator EXCEPT ![g] = Idle]
        \/ generator' = [generator EXCEPT ![g] = n]
    BY <1>2, Zenon DEF CalculateBilling, Go
  <2>3. n.step = "insert" /\ n.cycle = call.cycle /\ n.lines = lines  OBVIOUS
  <2>4. call.cycle <= made  BY <2>1 DEF LinesInv
  <2>5. ASSUME NEW d \in cycles, NEW l \in Billable(d)
        PROVE  d.effective <= l.start /\ l.start < d.end
    <3>1. PICK e \in Live : l = [entry |-> e, start |-> entry[e].start]
                            /\ InPeriod(e, d)
      BY <2>5 DEF Billable
    <3>2. entry[e].start \in Nat
      BY DEF TypeOK, SheetTypeOK, Entry, Live
    <3> QED  BY <3>1, <3>2, <1>t DEF InPeriod, EndOf, CyclesTypeOK, Cycle, Times
  <2>6. Within(lines, call.cycle)
    <3> SUFFICES ASSUME NEW c \in cycles, c.id = call.cycle, NEW l \in lines
                 PROVE  c.effective <= l.start /\ l.start < c.end
      BY DEF Within
    <3>1. PICK d \in CycleOf(call.cycle) : l \in Billable(d)  OBVIOUS
    <3>2. d = c  BY DEF OnTheGrid, CycleOf
    <3> QED  BY <3>1, <3>2, <2>5
  <2> HIDE DEF n, lines, zero
  <2>7. CASE generator' = [generator EXCEPT ![g] = Idle]
    <3>1. \A h \in Generators :
            generator'[h] = generator[h] \/ generator'[h] = Idle
      BY <1>t, <2>7
    <3> QED  BY <2>1, <3>1 DEF LinesInv, Within, Idle
  <2>8. CASE generator' = [generator EXCEPT ![g] = n]
    <3>1. \A h \in Generators :
            generator'[h] = IF h = g THEN n ELSE generator[h]
      BY <1>t, <2>8
    <3> QED  BY <2>1, <2>3, <2>4, <2>6, <3>1 DEF LinesInv, Within
  <2> QED  BY <2>2, <2>7, <2>8
<1>3. ASSUME NEW g \in Generators, InsertInvoice(g)
      PROVE  LinesInv'
  <2> DEFINE call == generator[g]
             i == [id |-> issued + 1, cycle |-> call.cycle, lines |-> {},
                   began |-> call.began]
             n == [step |-> "items", invoice |-> issued + 1, end |-> call.end,
                   lines |-> call.lines, zero |-> call.zero]
  <2>0. UNCHANGED <<cycles, made>>  BY <1>3 DEF InsertInvoice, cyclevars
  <2>1. CASE CycleOf(call.cycle) = {}
    <3>1. /\ UNCHANGED <<invoices, issued>>
          /\ generator' = [generator EXCEPT ![g] = Idle]
      BY <1>3, <2>1 DEF InsertInvoice, Go
    <3>2. \A h \in Generators :
            generator'[h] = generator[h] \/ generator'[h] = Idle
      BY <1>t, <3>1
    <3> QED  BY <2>0, <3>1, <3>2 DEF LinesInv, Within, Idle
  <2>2. CASE CycleOf(call.cycle) # {}
    <3>1. /\ issued' = issued + 1 /\ invoices' = invoices \cup {i}
          /\ generator' = [generator EXCEPT ![g] = n]
      BY <1>3, <2>2 DEF InsertInvoice, Go
    <3>2. i.id = issued + 1 /\ i.cycle = call.cycle /\ i.lines = {}  OBVIOUS
    <3>3. n.step = "items" /\ n.invoice = issued + 1 /\ n.lines = call.lines
      OBVIOUS
    <3>4. call.cycle <= made /\ Within(call.lines, call.cycle)
      BY <1>3 DEF InsertInvoice, LinesInv
    <3> HIDE DEF i, n
    <3>5. \A h \in Generators : generator'[h] = IF h = g THEN n ELSE generator[h]
      BY <1>t, <3>1
    <3>6. \A j \in invoices : j.id \in Nat /\ j.id <= issued
      BY <1>t DEF Invoice, LinesInv
    <3>7. \A j \in invoices' :
            j.cycle <= made' /\ j.id <= issued' /\ Within(j.lines, j.cycle)'
      BY <1>t, <2>0, <3>1, <3>2, <3>4, <3>6 DEF LinesInv, Within
    <3>8. ASSUME NEW h \in Generators, h # g
          PROVE  /\ generator'[h].step \in {"calculate", "insert"} =>
                      generator'[h].cycle <= made'
                 /\ generator'[h].step = "insert" =>
                      Within(generator[h].lines, generator[h].cycle)'
                 /\ generator'[h].step = "items" =>
                      /\ generator'[h].invoice <= issued'
                      /\ \A j \in invoices' : j.id = generator'[h].invoice =>
                           Within(generator[h].lines, j.cycle)'
      <4>1. generator'[h] = generator[h]  BY <3>5, <3>8
      <4>2. generator[h].step = "items" =>
              generator[h].invoice \in Nat /\ generator[h].invoice <= issued
        BY <1>t DEF LinesInv, Call, Idle
      <4> QED  BY <1>t, <2>0, <3>1, <3>2, <4>1, <4>2 DEF LinesInv, Within
    <3>9. /\ generator'[g].step = "items" /\ generator'[g].invoice = issued'
          /\ \A j \in invoices' : j.id = generator'[g].invoice =>
               Within(generator[g].lines, j.cycle)'
      <4>1. generator'[g] = n /\ generator'[g].lines = call.lines
        BY <3>3, <3>5
      <4>2. \A j \in invoices' : j.id = issued + 1 => j = i
        BY <1>t, <3>1, <3>6
      <4> QED  BY <1>t, <2>0, <3>1, <3>2, <3>3, <3>4, <4>1, <4>2 DEF Within
    <3>10. issued' \in Nat  BY <1>t, <3>1
    <3> QED  BY <3>7, <3>8, <3>9, <3>10 DEF LinesInv
  <2> QED  BY <2>1, <2>2
<1>4. ASSUME NEW g \in Generators, PersistInvoiceItems(g)
      PROVE  LinesInv'
  <2> DEFINE call == generator[g]
             n == [step |-> "rollover", end |-> call.end]
             P(i) == [i EXCEPT !.lines = call.lines]
  <2>1. /\ UNCHANGED <<cycles, made, issued>> /\ call.step = "items"
    BY <1>4 DEF PersistInvoiceItems, cyclevars
  <2>2. \A i \in invoices :
          P(i).id = i.id /\ P(i).cycle = i.cycle /\ P(i).lines = call.lines
    BY <1>t DEF Invoice
  <2> HIDE DEF P
  <2>3. \A j \in invoices' : \/ j \in invoices
                            \/ \E i \in invoices : i.id = call.invoice /\ j = P(i)
    BY <1>4 DEF PersistInvoiceItems, P
  <2>4. \A h \in Generators :
          \/ h # g /\ generator'[h] = generator[h]
          \/ generator'[h].step \notin {"calculate", "insert", "items"}
    BY <1>t, <1>4 DEF PersistInvoiceItems, Go, Idle
  <2>5. \A j \in invoices' :
          j.cycle <= made' /\ j.id <= issued' /\ Within(j.lines, j.cycle)'
    BY <2>1, <2>2, <2>3 DEF LinesInv, Within
  <2>6. \A j \in invoices' : \E i \in invoices : j.id = i.id /\ j.cycle = i.cycle
    BY <2>2, <2>3
  <2> QED  BY <2>1, <2>4, <2>5, <2>6 DEF LinesInv, Within
<1>5. ASSUME NEW g \in Generators,
             ReadUnapproved(g) \/ FailGeneration(g)
             \/ \E e \in Entries : MoveEntry(g, e)
      PROVE  LinesInv'
  <2>1. UNCHANGED <<issued, invoices>>
    BY <1>5 DEF ReadUnapproved, FailGeneration, MoveEntry
  <2>3. \A h \in Generators :
          generator'[h] = generator[h]
          \/ generator'[h].step \notin {"calculate", "insert", "items"}
    <3>2. CASE ReadUnapproved(g)  BY <1>t, <3>2 DEF ReadUnapproved, Go, Idle
    <3>3. CASE FailGeneration(g)  BY <1>t, <3>3 DEF FailGeneration, Go, Idle
    <3>4. ASSUME NEW e \in Entries, MoveEntry(g, e)
          PROVE  \A h \in Generators :
                   generator'[h] = generator[h]
                   \/ generator'[h].step \notin {"calculate", "insert", "items"}
      <4> DEFINE n == [generator[g] EXCEPT !.roll = @ \ {e}]
      <4>1. generator[g] \in Call /\ generator[g].step = "move"
        BY <1>t, <3>4 DEF MoveEntry, Idle
      <4>2. n.step = "move"  BY <4>1 DEF Call
      <4>3. generator' = [generator EXCEPT ![g] = Idle]
            \/ generator' = [generator EXCEPT ![g] = n]
        BY <3>4, Zenon DEF MoveEntry, Go
      <4> HIDE DEF n
      <4> QED  BY <1>t, <4>2, <4>3 DEF Idle
    <3> QED  BY <1>5, <3>2, <3>3, <3>4
  <2> QED  BY <2>1, <2>3, <1>c, LinesKept
<1>6. CASE RemovalStep
  <2>1. UNCHANGED <<issued, generator>>
    BY <1>6 DEF RemovalStep, HardDeleteInvoice, RemoveInvoiceOf, RemoveCycle,
       FailRemoval
  <2>2. \A j \in invoices' : \E i \in invoices :
          /\ j.id = i.id /\ j.lines = i.lines
          /\ j.cycle = i.cycle \/ j.cycle = NoCycle
    <3>1. \A i \in invoices :
            LET k == [i EXCEPT !.cycle = NoCycle]
            IN  k.id = i.id /\ k.lines = i.lines /\ k.cycle = NoCycle
      BY <1>t DEF Invoice
    <3>2. invoices' \subseteq
            invoices \cup {[i EXCEPT !.cycle = NoCycle] : i \in invoices}
      BY <1>6 DEF RemovalStep, HardDeleteInvoice, RemoveInvoiceOf, RemoveCycle,
         FailRemoval
    <3> QED  BY <3>1, <3>2
  <2> QED  BY <2>1, <2>2, <1>c, LinesKept
<1>7. CASE UNCHANGED <<invoices, issued, generator>>
  BY <1>7, <1>c, LinesKept
<1> QED
  BY <1>1, <1>2, <1>3, <1>4, <1>5, <1>6, <1>7 DEF Next, GenerationStep, vars

LEMMA LinesAreApart ==
  ASSUME TypeOK, LinesInv, ActiveCyclesDisjoint
  PROVE  BilledByOneCycle
<1> SUFFICES ASSUME NEW i \in invoices, NEW j \in invoices, i.cycle # j.cycle,
                    IsActive(i.cycle), IsActive(j.cycle),
                    NEW l \in i.lines, l \in j.lines
             PROVE  FALSE
  BY DEF BilledByOneCycle
<1>1. PICK c \in cycles : c.id = i.cycle /\ c.active  BY DEF IsActive, CycleOf
<1>2. PICK d \in cycles : d.id = j.cycle /\ d.active  BY DEF IsActive, CycleOf
<1>3. l.start \in Nat /\ c.effective \in Nat /\ d.effective \in Nat
      /\ c.end \in Nat /\ d.end \in Nat
  BY DEF TypeOK, CyclesTypeOK, Cycle, Invoice, Line, Times
<1>4. c.effective <= l.start /\ l.start < c.end
      /\ d.effective <= l.start /\ l.start < d.end
  BY <1>1, <1>2 DEF LinesInv, Within
<1>5. Overlap(c, d)  BY <1>3, <1>4 DEF Overlap
<1> QED  BY <1>1, <1>2, <1>5 DEF ActiveCyclesDisjoint

\* With a calendar frequency that is not changed, the cycles that have not been
\* removed are disjoint and no time is billed by the invoices of two of them.
THEOREM BilledOnce ==
  CalendarAligned /\ Frequencies = {DefaultFrequency}
    => (Spec => []ActiveCyclesDisjoint /\ []BilledByOneCycle)
<1> SUFFICES ASSUME CalendarAligned, Frequencies = {DefaultFrequency}
             PROVE  Spec => []ActiveCyclesDisjoint /\ []BilledByOneCycle
  OBVIOUS
<1> DEFINE Inv == TypeOK /\ OnTheGrid /\ LinesInv
<1>1. Init => Inv
  BY CalendarAssumption, GenerationAssumption
     DEF Init, CyclesInit, SheetInit, TypeOK, CyclesTypeOK, SheetTypeOK, Times,
         Status, Entry, OnTheGrid, LinesInv, Idle
<1>2. Inv /\ [Next]_vars => Inv'
  <2> SUFFICES ASSUME Inv, [Next]_vars PROVE Inv'
    OBVIOUS
  <2>1. [CyclesNext]_cyclevars  BY StepsOfCycles DEF vars, cyclevars
  <2>2. OnTheGrid'  BY <2>1, GridStep DEF TypeOK
  <2> QED  BY <2>2, TypeStep, LinesStep
<1>3. Inv => ActiveCyclesDisjoint /\ BilledByOneCycle
  BY GridIsDisjoint, LinesAreApart DEF TypeOK
<1> QED  BY <1>1, <1>2, <1>3, PTL DEF Spec
================================================================================
