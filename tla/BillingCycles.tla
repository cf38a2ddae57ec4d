----------------------------- MODULE BillingCycles -----------------------------
(***************************************************************************)
(* The billing cycles of one company: the periods that a nightly job, or a  *)
(* user who asks for a company's first cycles, inserts one after another,   *)
(* each in a statement of its own; and the removal of a cycle.              *)
(*                                                                         *)
(* Time is a number: cycles begin and end at one, and what the calendar     *)
(* does with it are the two operators StartOfCycle and NextCycleDate.       *)
(*                                                                         *)
(* An operator marked "Variant" is wrong on purpose: a run with it in the   *)
(* place of the definition that follows must find a property violated.      *)
(***************************************************************************)
EXTENDS Integers, FiniteSets

CONSTANTS
  Frequencies,         \* weekly, monthly, quarterly ...
  DefaultFrequency,    \* 'monthly'
  Creators,            \* calls of createCompanyBillingCycles that may overlap
  StartOfCycle(_, _),  \* the start of the cycle of a frequency a time is in
  NextCycleDate(_, _), \* a time and the length of one cycle of a frequency
  MaxTime,             \* bounds the clock
  MaxCycles            \* bounds the number of cycles ever inserted

Times == 0 .. MaxTime

ASSUME CalendarAssumption ==
  /\ MaxTime \in Nat /\ MaxCycles \in Nat
  /\ DefaultFrequency \in Frequencies
  /\ \A f \in Frequencies, t \in Times :
       /\ StartOfCycle(f, t) \in 0 .. t
       /\ NextCycleDate(f, t) \in Nat /\ NextCycleDate(f, t) > t

VARIABLES
  now,        \* today
  frequency,  \* companies.billing_cycle
  cycles,     \* company_billing_cycles: a set of rows
  made,       \* the number of cycles inserted so far; a cycle's id
  creator     \* what each call of createCompanyBillingCycles has read

cyclevars == <<now, frequency, cycles, made, creator>>

-----------------------------------------------------------------------------
(* Types *)

Cycle == [id : 1 .. MaxCycles, frequency : Frequencies, effective : Times,
          end : Nat, active : BOOLEAN]

\* A call that has read the company and its last cycle: at is where the next
\* cycle is to begin.
Idle     == [step |-> "idle"]
Creation == [step : {"first", "again"}, frequency : Frequencies, at : Times]
            \cup [step : {"loop"}, frequency : Frequencies, at : Nat]

CyclesTypeOK ==
  /\ now \in Times /\ frequency \in Frequencies
  /\ cycles \in SUBSET Cycle /\ made \in 0 .. MaxCycles
  /\ creator \in [Creators -> {Idle} \cup Creation]
  /\ \A c \in cycles : c.id <= made

-----------------------------------------------------------------------------
(* Helpers *)

CycleOf(id)    == {c \in cycles : c.id = id}
IsDuplicate(t) == \E c \in cycles : c.effective = t

\* The cycle with the latest effective date, removed or not.
LastCycles == {c \in cycles : \A d \in cycles : d.effective <= c.effective}

\* Variant: the first time of the next cycle is in this one.
NewCycleInclusive(f, t) ==
  [id |-> made + 1, frequency |-> f, effective |-> t,
   end |-> NextCycleDate(f, t) + 1, active |-> TRUE]

NewCycle(f, t) == [id |-> made + 1, frequency |-> f, effective |-> t,
                   end |-> NextCycleDate(f, t), active |-> TRUE]

-----------------------------------------------------------------------------
(* Actions *)

\* A company without cycles gets the current one.  One that has some goes on
\* where the last one ends; a user's call ("manual") tries the last one itself
\* again.
CreateCompanyBillingCycles(p, manual) ==
  LET Call(step, t) ==
        creator' = [creator EXCEPT ![p] =
          [step |-> step, frequency |-> frequency, at |-> t]]
  IN
  /\ creator[p] = Idle
  /\ \/ cycles = {} /\ Call("first", StartOfCycle(frequency, now))
     \/ \E c \in LastCycles :
          IF manual THEN Call("again", c.effective)
          ELSE Call("loop", NextCycleDate(frequency, c.effective))
  /\ UNCHANGED <<now, frequency, cycles, made>>

\* One insertion.  A date that is taken ends the call: the check before the
\* insertion finds it, or else the unique key does.  (The loop compares with
\* the time it began at: what it would insert later, the next call inserts.)
CreateBillingCycle(p) ==
  LET call == creator[p] IN
  /\ call # Idle
  /\ call.step = "loop" => call.at < now
  /\ IF IsDuplicate(call.at)
     THEN creator' = [creator EXCEPT ![p] = Idle] /\ UNCHANGED <<cycles, made>>
     ELSE /\ made < MaxCycles
          /\ cycles' = cycles \cup {NewCycle(call.frequency, call.at)}
          /\ made' = made + 1
          /\ creator' = [creator EXCEPT ![p] =
               IF call.step = "again" THEN Idle
               ELSE [step |-> "loop", frequency |-> call.frequency,
                     at |-> NextCycleDate(call.frequency, call.at)]]
  /\ UNCHANGED <<now, frequency>>

\* The loop has caught up, has made its hundred turns, or the process stops.
EndCreation(p) ==
  /\ creator[p] # Idle
  /\ creator' = [creator EXCEPT ![p] = Idle]
  /\ UNCHANGED <<now, frequency, cycles, made>>

UpdateBillingCycle(f) ==
  /\ frequency' = f
  /\ UNCHANGED <<now, cycles, made, creator>>

\* Variant: the cycle ends with the day before.
DeactivateCycleYesterday(id) ==
  /\ cycles' = {IF c.id = id THEN [c EXCEPT !.active = FALSE, !.end = now - 1]
                             ELSE c : c \in cycles}
  /\ UNCHANGED <<now, frequency, made, creator>>

\* removeBillingCycle and hardDeleteBillingCycle, their last statement.
DeactivateCycle(id) ==
  /\ cycles' = {IF c.id = id THEN [c EXCEPT !.active = FALSE, !.end = now]
                             ELSE c : c \in cycles}
  /\ UNCHANGED <<now, frequency, made, creator>>

DeleteCycleRow(id) ==
  /\ cycles' = cycles \ CycleOf(id)
  /\ UNCHANGED <<now, frequency, made, creator>>

Tick ==
  /\ now < MaxTime
  /\ now' = now + 1
  /\ UNCHANGED <<frequency, cycles, made, creator>>

CyclesInit ==
  /\ now = 0 /\ frequency = DefaultFrequency /\ cycles = {} /\ made = 0
  /\ creator = [p \in Creators |-> Idle]

\* What does not need an invoice to be looked at.
CyclesStep ==
  \/ \E p \in Creators :
       \/ \E manual \in BOOLEAN : CreateCompanyBillingCycles(p, manual)
       \/ CreateBillingCycle(p) \/ EndCreation(p)
  \/ \E f \in Frequencies : UpdateBillingCycle(f)
  \/ Tick

CyclesNext ==
  \/ CyclesStep
  \/ \E c \in cycles : DeactivateCycle(c.id) \/ DeleteCycleRow(c.id)

CyclesSpec == CyclesInit /\ [][CyclesNext]_cyclevars

-----------------------------------------------------------------------------
(* Properties *)

Overlap(c, d) == c.effective < d.end /\ d.effective < c.end

\* No two cycles that have not been removed share a time, whoever inserted
\* them and whatever was removed in between ("Prevention of overlapping billing
\* periods", docs/billing_cycles.md:157): their time is billed separately.  It
\* holds of calendar frequencies as long as the frequency is not changed.
ActiveCyclesDisjoint ==
  \A c, d \in cycles :
    c # d /\ c.active /\ d.active => ~ Overlap(c, d)

\* The calendar of monthly, quarterly, semi-annual and annual cycles: a cycle
\* of one frequency starts at one of its starts, and ends before the next.
IsStart(f, t) == StartOfCycle(f, t) = t

CalendarAligned ==
  \A f \in Frequencies, t \in Times :
    /\ IsStart(f, StartOfCycle(f, t))
    /\ IsStart(f, t) /\ NextCycleDate(f, t) \in Times
         => IsStart(f, NextCycleDate(f, t))
    /\ \A s \in 0 .. (t - 1) :
         IsStart(f, s) /\ IsStart(f, t) => NextCycleDate(f, s) <= t
================================================================================
