---------------------- MODULE CreditReconciliation_proofs ----------------------
(***************************************************************************)
(* A report is acted upon at most once by each user, for any number of      *)
(* users, reports and companies and whatever the ledger does meanwhile.     *)
(* What a step does to the reports and to the users who hold one is one of  *)
(* five changes; the invariant counts actions and holders together.         *)
(*                                                                         *)
(* The ledger keeps its types under every correction, and no correction     *)
(* lets more be allocated to an invoice than its amount: what               *)
(* CreditBilling_proofs shows of the ledger's steps carries over to them    *)
(* here.                                                                    *)
(***************************************************************************)
EXTENDS CreditReconciliation, CreditBilling_proofs, SequenceTheorems

-----------------------------------------------------------------------------
(* Sequences of sets *)

IsSeq(s) == /\ Len(s) \in Nat
            /\ s = [i \in 1 .. Len(s) |-> s[i]]

LEMMA SeqIsSeq ==
  ASSUME NEW S, NEW s \in Seq(S)
  PROVE  IsSeq(s) /\ DOMAIN s = 1 .. Len(s) /\ \A i \in 1 .. Len(s) : s[i] \in S
<1>1. s \in [1 .. Len(s) -> S] /\ Len(s) \in Nat
  BY LenProperties
<1> QED
  BY <1>1 DEF IsSeq

LEMMA IsSeqSeq ==
  ASSUME NEW s, IsSeq(s), NEW T
  PROVE  /\ DOMAIN s = 1 .. Len(s)
         /\ s \in Seq({s[i] : i \in 1 .. Len(s)} \cup T)
<1> DEFINE R == {s[i] : i \in 1 .. Len(s)} \cup T
<1>1. DOMAIN s = 1 .. Len(s) /\ s \in [1 .. Len(s) -> R]
  BY DEF IsSeq
<1>2. s \in Seq(R)
  BY <1>1, SeqDef DEF IsSeq
<1> QED
  BY <1>1, <1>2

-----------------------------------------------------------------------------
(* The invariant *)

Holding(r) == {p \in Clerks : clerk[p] # Idle /\ clerk[p].report = r}

Counted(r) == report[r].corrected + Cardinality(Holding(r)) <= Cardinality(Clerks)

\* A report that is open has not been acted upon, so that its holders are all
\* there is to count; once it is not open, nobody comes to hold it.
Marked(x) ==
  /\ {"open", "corrected"} \subseteq DOMAIN x
  /\ x = [field \in DOMAIN x |-> x[field]]
  /\ x.corrected \in Nat
  /\ x.open => x.corrected = 0

ReportInv ==
  /\ IsSeq(report)
  /\ clerk = [p \in Clerks |-> clerk[p]]
  /\ \A p \in Clerks : clerk[p] # Idle => clerk[p].report \in DOMAIN report
  /\ \A r \in DOMAIN report : Marked(report[r]) /\ Counted(r)

-----------------------------------------------------------------------------
(* What a step does to the reports and to those who hold one *)

Stays == UNCHANGED <<report, clerk>>

\* A report is added: it is open and not acted upon.
Untouched(x) == Marked(x) /\ x.corrected = 0

Grows ==
  /\ IsSeq(report')
  /\ DOMAIN report \subseteq DOMAIN report'
  /\ \A r \in DOMAIN report : report'[r] = report[r]
  /\ \A r \in DOMAIN report' \ DOMAIN report : Untouched(report'[r])
  /\ UNCHANGED clerk

Takes ==
  \E p \in Clerks, r \in DOMAIN report : \E x :
    /\ report[r].open
    /\ x.report = r
    /\ clerk' = [clerk EXCEPT ![p] = x]
    /\ UNCHANGED report

Acted == \E p \in Clerks : clerk[p] # Idle /\ Close(p)

GivesUp == \E p \in Clerks : clerk' = [clerk EXCEPT ![p] = Idle] /\ UNCHANGED report

ReportChange == Stays \/ Grows \/ Takes \/ Acted \/ GivesUp

LEMMA HoldersFinite ==
  ASSUME NEW S \in SUBSET Clerks
  PROVE  /\ IsFiniteSet(S)
         /\ Cardinality(S) \in Nat /\ Cardinality(S) <= Cardinality(Clerks)
<1>1. IsFiniteSet(Clerks)
  BY ReconciliationAssumption
<1>2. IsFiniteSet(S) /\ Cardinality(S) <= Cardinality(Clerks)
  BY <1>1, FS_Subset
<1> QED
  BY <1>2, FS_CardinalityType

LEMMA StaysKeepsInv ==
  ASSUME ReportInv, Stays
  PROVE  ReportInv'
<1>1. \A r : (Counted(r) <=> Counted(r)')
  BY DEF Stays, Counted, Holding
<1> QED
  BY <1>1 DEF ReportInv, Stays

\* Nobody holds a report that has only just been made.
LEMMA GrowsKeepsInv ==
  ASSUME ReportInv, Grows
  PROVE  ReportInv'
<1>1. \A p \in Clerks : clerk'[p] # Idle => clerk'[p].report \in DOMAIN report'
  BY DEF ReportInv, Grows
<1>2. ASSUME NEW r \in DOMAIN report'
      PROVE  Marked(report'[r]) /\ Counted(r)'
  <2>1. CASE r \in DOMAIN report
    BY <2>1 DEF ReportInv, Grows, Counted, Holding
  <2>2. CASE r \notin DOMAIN report
    <3>1. Marked(report'[r]) /\ report'[r].corrected = 0
      BY <2>2 DEF Grows, Untouched
    <3>2. Holding(r)' \subseteq Clerks
      BY DEF Holding
    <3>3. Cardinality(Holding(r)') \in Nat
          /\ Cardinality(Holding(r)') <= Cardinality(Clerks)
      BY <3>2, HoldersFinite
    <3> QED
      BY <3>1, <3>3 DEF Counted
  <2> QED
    BY <2>1, <2>2
<1> QED
  BY <1>1, <1>2 DEF ReportInv, Grows

\* The report that is taken is open: its holders are all there is to count.
LEMMA TakesKeepsInv ==
  ASSUME ReportInv, Takes
  PROVE  ReportInv'
<1>0. PICK p \in Clerks, r \in DOMAIN report :
        \E x : /\ report[r].open
               /\ x.report = r
               /\ clerk' = [clerk EXCEPT ![p] = x]
               /\ UNCHANGED report
  BY DEF Takes
<1>1. PICK x : /\ report[r].open
               /\ x.report = r
               /\ clerk' = [clerk EXCEPT ![p] = x]
               /\ UNCHANGED report
  BY <1>0
<1>2. /\ clerk' = [q \in Clerks |-> clerk'[q]]
      /\ \A q \in Clerks : clerk'[q] # Idle => clerk'[q].report \in DOMAIN report'
  BY <1>1 DEF ReportInv
<1>3. ASSUME NEW s \in DOMAIN report'
      PROVE  Counted(s)'
  <2>1. CASE s = r
    <3>1. report'[s].corrected = 0
      BY <1>1, <2>1 DEF ReportInv, Marked
    <3>2. Holding(s)' \subseteq Clerks
      BY DEF Holding
    <3> QED
      BY <3>1, <3>2, HoldersFinite DEF Counted
  <2>2. CASE s # r
    <3>1. Holding(s)' \subseteq Holding(s)
      BY <1>1, <2>2 DEF Holding, ReportInv
    <3>2. Holding(s) \subseteq Clerks
      BY DEF Holding
    <3>3. /\ Cardinality(Holding(s)') <= Cardinality(Holding(s))
          /\ Cardinality(Holding(s)) \in Nat /\ Cardinality(Holding(s)') \in Nat
      <4>1. IsFiniteSet(Holding(s)) /\ Cardinality(Holding(s)) \in Nat
        BY <3>2, HoldersFinite
      <4> QED
        BY <3>1, <4>1, FS_Subset, FS_CardinalityType
    <3>4. report'[s].corrected = report[s].corrected /\ report[s].corrected \in Nat
          /\ Counted(s)
      BY <1>1 DEF ReportInv, Marked
    <3>5. Cardinality(Clerks) \in Nat
      BY ReconciliationAssumption, FS_CardinalityType
    <3> QED
      BY <3>3, <3>4, <3>5 DEF Counted
  <2> QED
    BY <2>1, <2>2
<1> QED
  BY <1>1, <1>2, <1>3 DEF ReportInv

\* What Close does to the report, field by field.
LEMMA CloseFields ==
  ASSUME ReportInv, NEW p \in Clerks, clerk[p] # Idle, Close(p)
  PROVE  LET k == clerk[p].report IN
         /\ k \in DOMAIN report /\ DOMAIN report' = DOMAIN report
         /\ IsSeq(report')
         /\ \A s \in DOMAIN report : s # k => report'[s] = report[s]
         /\ Marked(report'[k]) /\ report'[k].corrected = report[k].corrected + 1
<1> DEFINE k == clerk[p].report
           old == report[k]
           mid == [old EXCEPT !.open = FALSE]
<1>1. k \in DOMAIN report /\ Marked(old)
  BY DEF ReportInv
<1>2. report' = [report EXCEPT ![k] = [mid EXCEPT !.corrected = old.corrected + 1]]
  BY <1>1 DEF Close, Marked
<1>3. report'[k] = [mid EXCEPT !.corrected = old.corrected + 1]
  BY <1>1, <1>2 DEF ReportInv, IsSeq
<1>4. Marked(report'[k]) /\ report'[k].corrected = old.corrected + 1
  <2> DEFINE n == old.corrected + 1
             new == report'[k]
  <2>1. n \in Nat
    BY <1>1 DEF Marked
  <2>2. DOMAIN mid = DOMAIN old /\ mid["open"] = FALSE
    BY <1>1 DEF Marked
  <2> HIDE DEF mid, n
  <2>3. /\ DOMAIN new = DOMAIN mid
        /\ new = [field \in DOMAIN new |-> new[field]]
        /\ new["open"] = mid["open"] /\ new["corrected"] = n
    <3>1. {"open", "corrected"} \subseteq DOMAIN mid
      BY <1>1, <2>2 DEF Marked
    <3>2. new = [mid EXCEPT !["corrected"] = n]
      BY <1>3 DEF n
    <3> QED
      BY <3>1, <3>2
  <2>4. new.open = FALSE /\ new.corrected = n
    BY <2>2, <2>3
  <2> QED
    BY <1>1, <2>1, <2>2, <2>3, <2>4 DEF Marked, n
<1>5. /\ DOMAIN report' = DOMAIN report
      /\ \A s \in DOMAIN report : s # k => report'[s] = report[s]
  BY <1>2
<1>6. IsSeq(report')
  <2>1. DOMAIN report = 1 .. Len(report) /\ Len(report) \in Nat
    BY IsSeqSeq DEF ReportInv, IsSeq
  <2>2. report' = [s \in 1 .. Len(report) |-> report'[s]]
    BY <1>2, <2>1
  <2>3. report' \in Seq({report'[s] : s \in 1 .. Len(report)})
    BY <2>1, <2>2, SeqDef
  <2> QED
    BY <2>3, SeqIsSeq
<1> QED
  BY <1>1, <1>4, <1>5, <1>6

\* A user who has acted upon a report holds it no longer.
LEMMA ActedKeepsInv ==
  ASSUME ReportInv, Acted
  PROVE  ReportInv'
<1>1. PICK p \in Clerks : clerk[p] # Idle /\ Close(p)
  BY DEF Acted
<1> DEFINE k == clerk[p].report
<1>2. /\ k \in DOMAIN report /\ DOMAIN report' = DOMAIN report
      /\ IsSeq(report')
      /\ \A s \in DOMAIN report : s # k => report'[s] = report[s]
      /\ Marked(report'[k]) /\ report'[k].corrected = report[k].corrected + 1
  BY <1>1, CloseFields
<1>3. /\ clerk' = [clerk EXCEPT ![p] = Idle]
      /\ clerk' = [q \in Clerks |-> clerk'[q]]
      /\ \A q \in Clerks : clerk'[q] # Idle => clerk'[q].report \in DOMAIN report'
  BY <1>1, <1>2 DEF Close, ReportInv
<1>4. ASSUME NEW s \in DOMAIN report'
      PROVE  Counted(s)'
  <2>1. Holding(s) \subseteq Clerks /\ Cardinality(Clerks) \in Nat
    BY ReconciliationAssumption, FS_CardinalityType DEF Holding
  <2>2. IsFiniteSet(Holding(s)) /\ Cardinality(Holding(s)) \in Nat
    BY <2>1, HoldersFinite
  <2>3. Counted(s) /\ report[s].corrected \in Nat
    BY <1>2 DEF ReportInv, Marked
  <2>4. CASE s = k
    <3>1. p \in Holding(s)
      BY <1>1, <2>4 DEF Holding
    <3>2. Holding(s)' = Holding(s) \ {p}
      BY <1>3, <2>4 DEF Holding, ReportInv
    <3>3. Cardinality(Holding(s)') = Cardinality(Holding(s)) - 1
      BY <2>2, <3>1, <3>2, FS_RemoveElement
    <3> QED
      BY <1>2, <2>1, <2>2, <2>3, <2>4, <3>3 DEF Counted
  <2>5. CASE s # k
    <3>1. Holding(s)' = Holding(s)
      BY <1>3, <2>5 DEF Holding, ReportInv
    <3> QED
      BY <1>2, <2>3, <2>5, <3>1 DEF Counted
  <2> QED
    BY <2>4, <2>5
<1> QED
  BY <1>2, <1>3, <1>4 DEF ReportInv

LEMMA GivesUpKeepsInv ==
  ASSUME ReportInv, GivesUp
  PROVE  ReportInv'
<1>1. PICK p \in Clerks : clerk' = [clerk EXCEPT ![p] = Idle] /\ UNCHANGED report
  BY DEF GivesUp
<1>2. /\ clerk' = [q \in Clerks |-> clerk'[q]]
      /\ \A q \in Clerks : clerk'[q] # Idle => clerk'[q].report \in DOMAIN report'
  BY <1>1 DEF ReportInv
<1>3. ASSUME NEW s \in DOMAIN report'
      PROVE  Counted(s)'
  <2>1. Holding(s) \subseteq Clerks /\ Holding(s)' \subseteq Holding(s)
    BY <1>1 DEF Holding, ReportInv
  <2>2. IsFiniteSet(Holding(s)) /\ Cardinality(Holding(s)) \in Nat
        /\ Cardinality(Clerks) \in Nat
    BY <2>1, HoldersFinite, ReconciliationAssumption, FS_CardinalityType
  <2>3. /\ Cardinality(Holding(s)') <= Cardinality(Holding(s))
        /\ Cardinality(Holding(s)') \in Nat
    BY <2>1, <2>2, FS_Subset, FS_CardinalityType
  <2>4. Counted(s) /\ report[s].corrected \in Nat
    BY <1>1 DEF ReportInv, Marked
  <2> QED
    BY <1>1, <2>2, <2>3, <2>4 DEF Counted
<1> QED
  BY <1>1, <1>2, <1>3 DEF ReportInv

LEMMA ChangeKeepsInv ==
  ASSUME ReportInv, ReportChange
  PROVE  ReportInv'
BY StaysKeepsInv, GrowsKeepsInv, TakesKeepsInv, ActedKeepsInv, GivesUpKeepsInv
   DEF ReportChange

-----------------------------------------------------------------------------
(* Each action makes one of these changes *)

LEMMA NewReportUntouched ==
  ASSUME NEW c, NEW issue, NEW e, NEW expected, NEW actual
  PROVE  Untouched(NewReport(c, issue, e, expected, actual))
BY DEF Untouched, Marked, NewReport

LEMMA LongerGrows ==
  ASSUME ReportInv, NEW S, NEW s \in Seq(S), \A x \in S : Untouched(x),
         report' = report \o s, UNCHANGED clerk
  PROVE  Grows
<1> DEFINE R == {report[i] : i \in 1 .. Len(report)} \cup S
<1>1. DOMAIN report = 1 .. Len(report) /\ report \in Seq(R) /\ Len(report) \in Nat
  BY IsSeqSeq DEF ReportInv, IsSeq
<1>2. s \in Seq(R) /\ Len(s) \in Nat /\ \A i \in 1 .. Len(s) : s[i] \in S
  BY SeqMonotonic, LenProperties, SeqIsSeq
<1>3. /\ report' \in Seq(R) /\ Len(report') = Len(report) + Len(s)
      /\ \A i \in 1 .. Len(report) + Len(s) :
           report'[i] = IF i <= Len(report) THEN report[i] ELSE s[i - Len(report)]
  BY <1>1, <1>2, ConcatProperties
<1>4. IsSeq(report') /\ DOMAIN report' = 1 .. Len(report')
  BY <1>3, SeqIsSeq
<1>5. \A r \in DOMAIN report : r \in DOMAIN report' /\ report'[r] = report[r]
  BY <1>1, <1>2, <1>3, <1>4
<1>6. ASSUME NEW r \in DOMAIN report' \ DOMAIN report
      PROVE  Untouched(report'[r])
  <2>1. r - Len(report) \in 1 .. Len(s) /\ report'[r] = s[r - Len(report)]
    BY <1>1, <1>2, <1>3, <1>4
  <2> QED
    BY <1>2, <2>1
<1> QED
  BY <1>4, <1>5, <1>6 DEF Grows

LEMMA BalanceChange ==
  ASSUME ReportInv, NEW c \in Companies, ValidateCreditBalanceWithoutCorrection(c)
  PROVE  ReportChange
<1>1. UNCHANGED clerk
  BY DEF ValidateCreditBalanceWithoutCorrection
<1>2. \/ UNCHANGED report
      \/ \E expected : report' = Append(report, NewReport(c, "balance", 0, expected, balance[c]))
  BY DEF ValidateCreditBalanceWithoutCorrection
<1>3. ASSUME NEW expected,
             report' = Append(report, NewReport(c, "balance", 0, expected, balance[c]))
      PROVE  Grows
  <2> DEFINE x == NewReport(c, "balance", 0, expected, balance[c])
             R == {report[i] : i \in 1 .. Len(report)} \cup {x}
             s == <<x>>
             S == {x}
  <2>1. Untouched(x)
    BY NewReportUntouched
  <2> HIDE DEF x
  <2>2. report \in Seq(R)
    BY IsSeqSeq DEF ReportInv
  <2>3. s \in Seq(S) /\ Append(report, x) = report \o s
    BY <2>2, AppendIsConcat
  <2>4. report' = report \o s
    BY <1>3, <2>3 DEF x
  <2>5. \A y \in S : Untouched(y)
    BY <2>1
  <2>6. ReportInv /\ UNCHANGED clerk
    BY <1>1
  <2> HIDE DEF s, S
  <2> QED
    BY <2>3, <2>4, <2>5, <2>6, LongerGrows
<1> QED
  BY <1>1, <1>2, <1>3 DEF ReportChange, Stays

\* What a query selects, in some order, is a sequence.
LEMMA OrderIsSeq ==
  ASSUME NEW S, IsFiniteSet(S), NEW s \in Orders(S)
  PROVE  s \in Seq(S)
<1>1. Cardinality(S) \in Nat
  BY FS_CardinalityType
<1> QED
  BY <1>1, SeqDef DEF Orders

LEMMA ImageFinite ==
  ASSUME NEW S, IsFiniteSet(S), NEW T, NEW f \in Surjection(S, T)
  PROVE  IsFiniteSet(T)
BY FS_Surjection

LEMMA TrackingChange ==
  ASSUME ReportInv, NEW c \in Companies, ValidateAllCreditTracking(c)
  PROVE  ReportChange
<1> DEFINE A == {NewReport(c, "missing", t, 0, 0) : t \in Missing(c)}
           B == {NewReport(c, "inconsistent", e, Expected(e), credit[e].remaining)
                   : e \in Inconsistent(c)}
           S == A \cup B
<1>1. PICK absent \in Orders(A), wrong \in Orders(B) :
        report' = report \o absent \o wrong /\ UNCHANGED clerk
  BY DEF ValidateAllCreditTracking
<1>2. IsFiniteSet(Missing(c)) /\ IsFiniteSet(Inconsistent(c))
  <2>1. IsFiniteSet(CreditIds) /\ Missing(c) \subseteq CreditIds
        /\ Inconsistent(c) \subseteq CreditIds
    BY LedgerAssumption, ReconciliationAssumption DEF Missing, Inconsistent
  <2> QED
    BY <2>1, FS_Subset
<1>3. IsFiniteSet(A) /\ IsFiniteSet(B)
  <2> DEFINE f == [t \in Missing(c) |-> NewReport(c, "missing", t, 0, 0)]
             g == [e \in Inconsistent(c) |->
                     NewReport(c, "inconsistent", e, Expected(e), credit[e].remaining)]
  <2>1. f \in Surjection(Missing(c), A) /\ g \in Surjection(Inconsistent(c), B)
    BY DEF Surjection
  <2> QED
    BY <1>2, <2>1, ImageFinite
<1>4. \A x \in S : Untouched(x)
  BY NewReportUntouched
<1> HIDE DEF A, B
<1>5. absent \in Seq(S) /\ wrong \in Seq(S)
  BY <1>1, <1>3, OrderIsSeq, SeqMonotonic
<1>6. absent \o wrong \in Seq(S)
  BY <1>5, ConcatProperties
<1>7. report' = report \o (absent \o wrong)
  <2> DEFINE R == {report[i] : i \in 1 .. Len(report)} \cup S
  <2>1. report \in Seq(R)
    BY IsSeqSeq DEF ReportInv
  <2>2. absent \in Seq(R) /\ wrong \in Seq(R)
    BY <1>5, SeqMonotonic
  <2> QED
    BY <1>1, <2>1, <2>2, ConcatAssociative
<1>8. ReportInv /\ UNCHANGED clerk
  BY <1>1
<1> HIDE DEF S
<1>9. Grows
  BY <1>4, <1>6, <1>7, <1>8, LongerGrows
<1> QED
  BY <1>9 DEF ReportChange

LEMMA ReadingChange ==
  ASSUME ReportInv, NEW p \in Clerks, NEW r \in DOMAIN report, NEW fix, NEW amount,
         ReadReport(p, r, fix, amount)
  PROVE  ReportChange
<1> DEFINE x == [report |-> r, fix |-> fix, amount |-> amount]
<1>1. /\ report[r].open /\ UNCHANGED report
      /\ clerk' = [clerk EXCEPT ![p] = x]
  BY DEF ReadReport, MayResolve
<1>2. x.report = r
  OBVIOUS
<1> HIDE DEF x
<1>3. Takes
  BY <1>1, <1>2 DEF Takes
<1> QED
  BY <1>3 DEF ReportChange

LEMMA CorrectingChange ==
  ASSUME ReportInv, Correcting
  PROVE  ReportChange
<1>1. PICK p \in Clerks :
        \/ ResolveReconciliationReport(p)
        \/ CreateMissingCreditTrackingEntry(p)
        \/ UpdateCreditTrackingRemainingAmount(p)
        \/ ApplyCustomCreditAdjustment(p)
        \/ MarkReportAsResolvedNoAction(p)
  BY DEF Correcting
<1>2. \/ clerk[p] # Idle /\ Close(p)
      \/ clerk' = [clerk EXCEPT ![p] = Idle] /\ UNCHANGED report
  <2>1. CASE ResolveReconciliationReport(p)
    BY <2>1 DEF ResolveReconciliationReport, Acts, ApplyCorrection
  <2>2. CASE CreateMissingCreditTrackingEntry(p)
    BY <2>2 DEF CreateMissingCreditTrackingEntry, Acts, ApplyCorrection
  <2>3. CASE UpdateCreditTrackingRemainingAmount(p)
    BY <2>3 DEF UpdateCreditTrackingRemainingAmount, Acts, ApplyCorrection
  <2>4. CASE ApplyCustomCreditAdjustment(p)
    BY <2>4 DEF ApplyCustomCreditAdjustment, Acts
  <2>5. CASE MarkReportAsResolvedNoAction(p)
    BY <2>5 DEF MarkReportAsResolvedNoAction, Acts
  <2> QED
    BY <1>1, <2>1, <2>2, <2>3, <2>4, <2>5
<1> QED
  BY <1>2 DEF ReportChange, Acted, GivesUp

-----------------------------------------------------------------------------
(* The theorem *)

LEMMA InitInv ==
  ASSUME ReconciliationInit
  PROVE  ReportInv
<1>1. report = <<>> /\ clerk = [p \in Clerks |-> Idle]
  BY DEF ReconciliationInit
<1>2. IsSeq(report) /\ DOMAIN report = {}
  BY <1>1 DEF IsSeq
<1> QED
  BY <1>1, <1>2 DEF ReportInv

LEMMA NextInv ==
  ASSUME ReportInv, [ReconciliationNext]_allvars
  PROVE  ReportInv'
<1>1. CASE LedgerStep
  <2>1. Stays
    BY <1>1 DEF LedgerStep, Stays
  <2> QED
    BY <2>1, ChangeKeepsInv DEF ReportChange
<1>2. CASE Validating
  <2>1. PICK c \in Companies : \/ ValidateCreditBalanceWithoutCorrection(c)
                               \/ ValidateAllCreditTracking(c)
    BY <1>2 DEF Validating
  <2> QED
    BY <2>1, BalanceChange, TrackingChange, ChangeKeepsInv
<1>3. CASE Reading
  <2>1. PICK p \in Clerks, r \in DOMAIN report, fix \in Fixes :
          \E amount \in Adjustments \cup {0, report[r].difference} :
            ReadReport(p, r, fix, amount)
    BY <1>3 DEF Reading
  <2>2. PICK amount \in Adjustments \cup {0, report[r].difference} :
          ReadReport(p, r, fix, amount)
    BY <2>1
  <2> QED
    BY <2>2, ReadingChange, ChangeKeepsInv
<1>4. CASE Correcting
  BY <1>4, CorrectingChange, ChangeKeepsInv
<1>5. CASE UNCHANGED allvars
  <2>1. Stays
    BY <1>5 DEF allvars, Stays
  <2> QED
    BY <2>1, ChangeKeepsInv DEF ReportChange
<1> QED
  BY <1>1, <1>2, <1>3, <1>4, <1>5 DEF ReconciliationNext

LEMMA InvGives ==
  ASSUME ReportInv
  PROVE  CorrectedOncePerClerk
BY DEF ReportInv, CorrectedOncePerClerk, Counted, Holding

\* However many users resolve reports at once, and whatever the ledger does,
\* each acts at most once upon a report, and only having read it while open.
THEOREM CorrectedOnce == ReconciliationSpec => []CorrectedOncePerClerk
<1>1. ReconciliationInit => ReportInv
  BY InitInv
<1>2. ReportInv /\ [ReconciliationNext]_allvars => ReportInv'
  BY NextInv
<1>3. ReportInv => CorrectedOncePerClerk
  BY InvGives
<1> QED
  BY <1>1, <1>2, <1>3, PTL DEF ReconciliationSpec

-----------------------------------------------------------------------------
(* The types of the ledger and of the reports, together: a correction writes *)
(* what a report says into the ledger.                                       *)

ReportsFine ==
  /\ report \in Seq(Report) /\ Len(report) <= MaxReports
  /\ \A r \in DOMAIN report :
       /\ report[r].open <=> report[r].corrected = 0
       /\ report[r].issue = "missing" => report[r].credit \in DOMAIN Legacy

\* A row is created for a report of a missing one only.
ClerksFine ==
  /\ clerk = [p \in Clerks |-> clerk[p]]
  /\ \A p \in Clerks :
       clerk[p] # Idle =>
         /\ clerk[p].fix \in Fixes /\ clerk[p].amount \in Int
         /\ clerk[p].report \in DOMAIN report
         /\ clerk[p].fix = "create" => report[clerk[p].report].issue = "missing"

\* The ids of the legacy credits' rows are not given to others.
RowsFine ==
  /\ issued >= Cardinality(DOMAIN Legacy)
  /\ checking \subseteq Companies
  /\ DOMAIN twin \subseteq CreditIds \ DOMAIN Legacy
  /\ \A e \in DOMAIN twin : twin[e] \in DOMAIN Legacy

ReconciledInv == TypeOK /\ ReportsFine /\ ClerksFine /\ RowsFine

LEMMA FineTypes ==
  ASSUME ReportsFine, ClerksFine, RowsFine
  PROVE  ReportsTypeOK
BY DEF ReportsFine, ClerksFine, RowsFine, ReportsTypeOK

LEMMA LegacyFacts ==
  /\ Cardinality(DOMAIN Legacy) \in Nat
  /\ IsFiniteSet(DOMAIN Legacy)
  /\ DOMAIN Legacy = 1 .. Cardinality(DOMAIN Legacy)
  /\ DOMAIN Legacy \subseteq CreditIds /\ CreditIds \subseteq Nat \ {0}
  /\ \A t \in DOMAIN Legacy : Legacy[t].company \in Companies
                              /\ Legacy[t].amount \in Nat \ {0}
<1>1. IsFiniteSet(DOMAIN Legacy)
  BY LedgerAssumption, ReconciliationAssumption, FS_Subset
<1>2. Cardinality(DOMAIN Legacy) \in Nat
  BY <1>1, FS_CardinalityType
<1> QED
  BY <1>1, <1>2, LedgerAssumption, ReconciliationAssumption

\* What the rows were issued for, and what has been applied of a transaction,
\* add up to integers.
LEMMA AmountInt ==
  ASSUME TypeOK, NEW S \in SUBSET DOMAIN credit
  PROVE  AmountIn(S) \in Int
<1> DEFINE f == [e \in S |-> credit[e].amount]
<1>1. IsFiniteSet(S)
  BY LedgerAssumption, FS_Subset DEF TypeOK
<1>2. \A e \in S : f[e] \in Int
  BY DEF TypeOK, Credit
<1> QED
  BY <1>1, <1>2, SumInt DEF AmountIn, SumFunction

LEMMA AppliedInt ==
  ASSUME TypeOK, NEW e
  PROVE  Applied(e) \in Int
<1> DEFINE S == RowsOf(TxOf(e))
           f == [g \in S |-> credit[g].used]
<1>1. S \subseteq DOMAIN credit
  BY DEF RowsOf
<1>2. IsFiniteSet(S)
  BY <1>1, LedgerAssumption, FS_Subset DEF TypeOK
<1>3. \A g \in S : f[g] \in Int
  BY <1>1 DEF TypeOK, Credit
<1>4. Applied(e) = SumFunctionOnSet(f, S)
  BY DEF Applied, SumFunction
<1> HIDE DEF S, f
<1> QED
  BY <1>2, <1>3, <1>4, SumInt

LEMMA LegacyInt ==
  ASSUME NEW c
  PROVE  LegacySum(c) \in Int
<1> DEFINE S == {u \in DOMAIN Legacy : Legacy[u].company = c}
           f == [t \in S |-> Legacy[t].amount]
<1>1. IsFiniteSet(S)
  BY LegacyFacts, FS_Subset
<1>2. \A t \in S : f[t] \in Int
  BY LegacyFacts
<1>3. LegacySum(c) = SumFunctionOnSet(f, S)
  BY DEF LegacySum, SumFunction
<1> HIDE DEF S, f
<1> QED
  BY <1>1, <1>2, <1>3, SumInt

LEMMA FineInit ==
  ASSUME ReconciliationInit
  PROVE  ReconciledInv
<1>1. TypeOK
  BY LegacyInt, LegacyFacts, LedgerAssumption DEF ReconciliationInit, TypeOK, Rare
<1>2. ReportsFine
  <2>1. report = <<>>
    BY DEF ReconciliationInit
  <2>2. report \in Seq(Report) /\ Len(report) = 0 /\ DOMAIN report = {}
    BY <2>1
  <2> QED
    BY <2>2, ReconciliationAssumption DEF ReportsFine
<1>3. ClerksFine
  BY DEF ReconciliationInit, ClerksFine
<1>4. RowsFine
  <2>1. DOMAIN twin = {} /\ issued = Cardinality(DOMAIN Legacy) /\ checking = {}
    BY DEF ReconciliationInit
  <2> QED
    BY <2>1, LegacyFacts DEF RowsFine
<1> QED
  BY <1>1, <1>2, <1>3, <1>4 DEF ReconciledInv

-----------------------------------------------------------------------------
\* No step of the ledger gives an id back.
LEMMA IssuedGrows ==
  ASSUME TypeOK, [Next]_vars
  PROVE  issued' = issued \/ issued' = issued + 1
<1>1. CASE Invoicing
  BY <1>1 DEF Invoicing, CreatePrepaymentInvoice, Issue, GenerateInvoice, InsertCycleInvoice
<1>2. CASE Changing
  <2>1. \A i : HardDeleteInvoice(i) => UNCHANGED issued
    BY Zenon DEF HardDeleteInvoice
  <2>2. ASSUME NEW i, NEW subtotal, NEW tax,
               EditInvoice(i, subtotal, tax) \/ FillCycleInvoice(i, subtotal, tax)
        PROVE  UNCHANGED issued
    BY <2>2 DEF EditInvoice, FillCycleInvoice
  <2>3. \A i : UnfinalizeInvoice(i) => UNCHANGED issued
    BY Zenon DEF UnfinalizeInvoice
  <2>4. \A i, request : ApplyCreditToInvoice(i, request) => UNCHANGED issued
    BY Zenon DEF ApplyCreditToInvoice
  <2> QED
    BY <1>2, <2>1, <2>2, <2>3, <2>4 DEF Changing
<1>3. CASE Finalizing
  <2>1. \A p, expires :
          FinalizeNegative(p, expires) => issued' = issued \/ issued' = issued + 1
    BY Zenon DEF FinalizeNegative, Issue
  <2> QED
    BY <1>3, <2>1
       DEF Finalizing, FinalizeMark, FinalizeStep, FinalizePrepayment,
           FinalizeReadCredit, FinalizeReadInvoice, FinalizeApply, Crash
<1>4. CASE Administering
  BY <1>4 DEF Administering, ExpireCredits, ManuallyExpireCredit, Expire,
              TransferCredit, UpdateCreditExpiration
<1>5. CASE Tick \/ UNCHANGED vars
  BY <1>5 DEF Tick, vars
<1> QED
  BY <1>1, <1>2, <1>3, <1>4, <1>5 DEF Next

-----------------------------------------------------------------------------
(* What the steps do to the types *)

LEMMA NewReportType ==
  ASSUME NEW c \in Companies, NEW issue \in {"balance", "missing", "inconsistent"},
         NEW e \in CreditIds \cup {0}, NEW expected \in Int, NEW actual \in Int,
         issue = "missing" => e \in DOMAIN Legacy
  PROVE  LET x == NewReport(c, issue, e, expected, actual) IN
         /\ x \in Report /\ x.open /\ x.corrected = 0
         /\ x.issue = "missing" => x.credit \in DOMAIN Legacy
<1>1. expected - actual \in Int
  OBVIOUS
<1> QED
  BY <1>1 DEF NewReport, Report

\* The comparison of dates being false, no row is overdue, and a validation of
\* the balance leaves the ledger as it is.
LEMMA ValidationQuiet ==
  ASSUME TypeOK, NEW c \in Companies, ValidateCreditBalanceWithoutCorrection(c)
  PROVE  UNCHANGED vars
<1> DEFINE unrecorded == {e \in Overdue(c) : ~credit[e].expirationTx}
<1>1. unrecorded = {}
  BY DEF Overdue, Passed
<1>2. /\ txSum' = [txSum EXCEPT ![c] = @ - AmountIn(unrecorded)]
      /\ credit' = [e \in DOMAIN credit |->
                      IF e \in unrecorded THEN Emptied(credit[e]) ELSE credit[e]]
      /\ UNCHANGED <<now, balance, invoice, issued, job, moved, spent>>
  BY DEF ValidateCreditBalanceWithoutCorrection
<1>3. AmountIn(unrecorded) = 0
  BY <1>1, SumEmpty DEF AmountIn, SumFunction
<1>4. txSum' = txSum
  <2>1. txSum \in [Companies -> Int]
    BY DEF TypeOK
  <2> HIDE DEF unrecorded
  <2> QED
    BY <1>2, <1>3, <2>1
<1>5. credit' = credit
  <2>1. credit \in [DOMAIN credit -> Credit]
    BY DEF TypeOK
  <2> HIDE DEF unrecorded
  <2> QED
    BY <1>1, <1>2, <2>1
<1> QED
  BY <1>2, <1>4, <1>5 DEF vars

LEMMA ReportsLonger ==
  ASSUME ReportsFine, ClerksFine, NEW S, S \subseteq Report,
         \A x \in S : /\ x.open /\ x.corrected = 0
                      /\ x.issue = "missing" => x.credit \in DOMAIN Legacy,
         NEW s \in Seq(S), report' = report \o s, Len(report') <= MaxReports,
         UNCHANGED clerk
  PROVE  ReportsFine' /\ ClerksFine'
<1>1. /\ report \in Seq(Report) /\ Len(report) \in Nat
      /\ DOMAIN report = 1 .. Len(report)
  BY SeqIsSeq, LenProperties DEF ReportsFine
<1>2. s \in Seq(Report) /\ Len(s) \in Nat /\ \A i \in 1 .. Len(s) : s[i] \in S
  BY SeqMonotonic, LenProperties, SeqIsSeq
<1>3. /\ report' \in Seq(Report) /\ Len(report') = Len(report) + Len(s)
      /\ \A i \in 1 .. Len(report) + Len(s) :
           report'[i] = IF i <= Len(report) THEN report[i] ELSE s[i - Len(report)]
  BY <1>1, <1>2, ConcatProperties
<1>4. DOMAIN report' = 1 .. Len(report) + Len(s)
  BY <1>3, SeqIsSeq
<1>5. \A r \in DOMAIN report : r \in DOMAIN report' /\ report'[r] = report[r]
  BY <1>1, <1>2, <1>3, <1>4
<1>6. ASSUME NEW r \in DOMAIN report' \ DOMAIN report
      PROVE  report'[r] \in S
  <2>1. r - Len(report) \in 1 .. Len(s) /\ report'[r] = s[r - Len(report)]
    BY <1>1, <1>2, <1>3, <1>4
  <2> QED
    BY <1>2, <2>1
<1>7. \A r \in DOMAIN report' :
        /\ report'[r].open <=> report'[r].corrected = 0
        /\ report'[r].issue = "missing" => report'[r].credit \in DOMAIN Legacy
  BY <1>5, <1>6 DEF ReportsFine
<1>8. ReportsFine'
  BY <1>3, <1>7 DEF ReportsFine
<1>9. ClerksFine'
  BY <1>5 DEF ClerksFine
<1> QED
  BY <1>8, <1>9

LEMMA BalanceFine ==
  ASSUME ReconciledInv, NEW c \in Companies, ValidateCreditBalanceWithoutCorrection(c)
  PROVE  ReconciledInv'
<1> USE DEF ReconciledInv
<1>1. UNCHANGED vars
  BY ValidationQuiet
<1>2. TypeOK'
  BY <1>1 DEF TypeOK, vars
<1>3. RowsFine'
  BY <1>1 DEF RowsFine, ValidateCreditBalanceWithoutCorrection, vars
<1>4. UNCHANGED clerk /\ Len(report') <= MaxReports
  BY DEF ValidateCreditBalanceWithoutCorrection
<1> DEFINE unrecorded == {e \in Overdue(c) : ~credit[e].expirationTx}
           expected == txSum[c] - AmountIn(Overdue(c)) - AmountIn(unrecorded)
           x == NewReport(c, "balance", 0, expected, balance[c])
<1>5. report' = report \/ report' = Append(report, x)
  BY DEF ValidateCreditBalanceWithoutCorrection
<1>6. CASE report' = report
  BY <1>2, <1>3, <1>4, <1>6 DEF ReportsFine, ClerksFine
<1>7. CASE report' = Append(report, x)
  <2>1. expected \in Int /\ balance[c] \in Int
    <3>1. Overdue(c) \in SUBSET DOMAIN credit /\ unrecorded \in SUBSET DOMAIN credit
      BY DEF Overdue, CreditsOf
    <3>2. AmountIn(Overdue(c)) \in Int /\ AmountIn(unrecorded) \in Int
      <4> HIDE DEF unrecorded
      <4> QED
        BY <3>1, AmountInt
    <3>3. txSum[c] \in Int /\ balance[c] \in Int
      BY DEF TypeOK
    <3> HIDE DEF unrecorded
    <3> QED
      BY <3>2, <3>3
  <2> HIDE DEF expected
  <2>2. /\ x \in Report /\ x.open /\ x.corrected = 0
        /\ x.issue = "missing" => x.credit \in DOMAIN Legacy
    <3>1. 0 \in CreditIds \cup {0} /\ "balance" # "missing"
      OBVIOUS
    <3> QED
      BY <2>1, <3>1, NewReportType
  <2> HIDE DEF x
  <2> DEFINE S == {x}
             s == <<x>>
  <2>3. report \in Seq(Report)
    BY DEF ReportsFine
  <2>4. s \in Seq(S) /\ Append(report, x) = report \o s
    BY <2>2, <2>3, AppendIsConcat
  <2>5. /\ S \subseteq Report
        /\ \A y \in S : /\ y.open /\ y.corrected = 0
                        /\ y.issue = "missing" => y.credit \in DOMAIN Legacy
    BY <2>2
  <2>6. report' = report \o s
    BY <1>7, <2>4
  <2> HIDE DEF S, s
  <2>7. ReportsFine' /\ ClerksFine'
    BY <1>4, <2>4, <2>5, <2>6, ReportsLonger
  <2> QED
    BY <1>2, <1>3, <2>7
<1> QED
  BY <1>5, <1>6, <1>7

LEMMA TrackingFine ==
  ASSUME ReconciledInv, NEW c \in Companies, ValidateAllCreditTracking(c)
  PROVE  ReconciledInv'
<1> USE DEF ReconciledInv
<1> DEFINE A == {NewReport(c, "missing", t, 0, 0) : t \in Missing(c)}
           B == {NewReport(c, "inconsistent", e, Expected(e), credit[e].remaining)
                   : e \in Inconsistent(c)}
           S == A \cup B
           Good(x) == /\ x.open /\ x.corrected = 0
                      /\ x.issue = "missing" => x.credit \in DOMAIN Legacy
<1>1. PICK absent \in Orders(A), wrong \in Orders(B) :
        report' = report \o absent \o wrong
  BY DEF ValidateAllCreditTracking
<1>2. UNCHANGED <<vars, clerk, twin>> /\ Len(report') <= MaxReports
      /\ checking' \subseteq checking
  BY DEF ValidateAllCreditTracking, ledger
<1>3. TypeOK' /\ RowsFine'
  BY <1>2 DEF TypeOK, vars, RowsFine
<1>4. \A t \in Missing(c) : /\ NewReport(c, "missing", t, 0, 0) \in Report
                            /\ Good(NewReport(c, "missing", t, 0, 0))
  <2>1. \A t \in Missing(c) : t \in DOMAIN Legacy /\ t \in CreditIds \cup {0}
    BY LegacyFacts DEF Missing
  <2>2. 0 \in Int /\ "missing" \in {"balance", "missing", "inconsistent"}
    OBVIOUS
  <2> QED
    BY <2>1, <2>2, NewReportType
<1>5. ASSUME NEW e \in Inconsistent(c)
      PROVE  LET x == NewReport(c, "inconsistent", e, Expected(e), credit[e].remaining)
             IN x \in Report /\ Good(x)
  <2>1. e \in CreditIds \cup {0} /\ credit[e] \in Credit
    BY DEF Inconsistent, CreditsOf, TypeOK
  <2>2. credit[e].amount \in Int /\ credit[e].remaining \in Int
    BY <2>1 DEF Credit
  <2>3. Expected(e) \in Int
    BY <2>2, AppliedInt DEF Expected
  <2>4. "inconsistent" # "missing" /\ "inconsistent" \in {"balance", "missing", "inconsistent"}
    OBVIOUS
  <2> QED
    BY <2>1, <2>2, <2>3, <2>4, NewReportType
<1>6. S \subseteq Report /\ \A x \in S : Good(x)
  BY <1>4, <1>5
<1>7. IsFiniteSet(A) /\ IsFiniteSet(B)
  <2>1. IsFiniteSet(Missing(c)) /\ IsFiniteSet(Inconsistent(c))
    <3>1. IsFiniteSet(CreditIds) /\ Missing(c) \subseteq CreditIds
          /\ Inconsistent(c) \subseteq CreditIds
      BY LedgerAssumption, ReconciliationAssumption DEF Missing, Inconsistent
    <3> QED
      BY <3>1, FS_Subset
  <2> DEFINE f == [t \in Missing(c) |-> NewReport(c, "missing", t, 0, 0)]
             g == [e \in Inconsistent(c) |->
                     NewReport(c, "inconsistent", e, Expected(e), credit[e].remaining)]
  <2>2. f \in Surjection(Missing(c), A) /\ g \in Surjection(Inconsistent(c), B)
    BY DEF Surjection
  <2> QED
    BY <2>1, <2>2, ImageFinite
<1> HIDE DEF A, B
<1>8. absent \in Seq(S) /\ wrong \in Seq(S) /\ absent \o wrong \in Seq(S)
  <2>1. absent \in Seq(S) /\ wrong \in Seq(S)
    BY <1>1, <1>7, OrderIsSeq, SeqMonotonic
  <2> QED
    BY <2>1, ConcatProperties
<1>9. report' = report \o (absent \o wrong)
  <2>1. report \in Seq(Report) /\ absent \in Seq(Report) /\ wrong \in Seq(Report)
    BY <1>6, <1>8, SeqMonotonic DEF ReportsFine
  <2> QED
    BY <1>1, <2>1, ConcatAssociative
<1> DEFINE s == absent \o wrong
<1>10. /\ S \subseteq Report
       /\ \A x \in S : /\ x.open /\ x.corrected = 0
                       /\ x.issue = "missing" => x.credit \in DOMAIN Legacy
  BY <1>6
<1>11. s \in Seq(S) /\ report' = report \o s /\ Len(report') <= MaxReports
       /\ UNCHANGED clerk
  BY <1>2, <1>8, <1>9
<1> HIDE DEF S, s
<1>12. ReportsFine' /\ ClerksFine'
  BY <1>10, <1>11, ReportsLonger
<1> QED
  BY <1>3, <1>12

LEMMA ReadingFine ==
  ASSUME ReconciledInv, NEW p \in Clerks, NEW r \in DOMAIN report, NEW fix \in Fixes,
         NEW amount \in Adjustments \cup {0, report[r].difference},
         ReadReport(p, r, fix, amount)
  PROVE  ReconciledInv'
<1> USE DEF ReconciledInv
<1> DEFINE x == [report |-> r, fix |-> fix, amount |-> amount]
<1>1. /\ UNCHANGED <<vars, report, checking, twin>>
      /\ clerk' = [clerk EXCEPT ![p] = x]
      /\ fix = "create" => report[r].issue = "missing"
  BY DEF ReadReport, ledger, Fits
<1>2. TypeOK' /\ RowsFine' /\ ReportsFine'
  BY <1>1 DEF TypeOK, vars, RowsFine, ReportsFine
<1>3. amount \in Int
  <2>1. report[r] \in Report
    BY SeqIsSeq, LenProperties DEF ReportsFine
  <2>2. report[r].difference \in Int
    BY <2>1 DEF Report
  <2> QED
    BY <2>2, ReconciliationAssumption
<1>4. x.report = r /\ x.fix = fix /\ x.amount = amount
  OBVIOUS
<1> HIDE DEF x
<1>5. /\ clerk' = [q \in Clerks |-> clerk'[q]]
      /\ \A q \in Clerks : clerk'[q] = IF q = p THEN x ELSE clerk[q]
  BY <1>1 DEF ClerksFine
<1>6. ClerksFine'
  BY <1>1, <1>3, <1>4, <1>5 DEF ClerksFine
<1> QED
  BY <1>2, <1>6

LEMMA SameInterval ==
  ASSUME NEW m \in Nat, NEW n \in Nat, 1 .. m = 1 .. n
  PROVE  m = n
<1>1. \A i \in Nat \ {0} : i <= m <=> i <= n
  <2> TAKE i \in Nat \ {0}
  <2>1. i \in 1 .. m <=> i \in 1 .. n
    OBVIOUS
  <2> QED
    BY <2>1
<1>2. CASE m < n
  <2>1. n \in Nat \ {0}
    BY <1>2
  <2> QED
    BY <1>1, <1>2, <2>1
<1>3. CASE n < m
  <2>1. m \in Nat \ {0}
    BY <1>3
  <2> QED
    BY <1>1, <1>3, <2>1
<1> QED
  BY <1>2, <1>3

\* A report that is closed is of the same issue and credit, and no more open.
LEMMA CloseTypes ==
  ASSUME ReportsFine, ClerksFine, NEW p \in Clerks, clerk[p] # Idle, Close(p)
  PROVE  /\ ReportsFine' /\ ClerksFine'
         /\ DOMAIN report' = DOMAIN report /\ Len(report') = Len(report)
<1> DEFINE k == clerk[p].report
           n == Len(report)
           old == report[k]
           new == [old EXCEPT !.open = FALSE, !.corrected = @ + 1]
<1>1. /\ k \in DOMAIN report /\ DOMAIN report = 1 .. n /\ n \in Nat
      /\ report \in [1 .. n -> Report]
  BY LenProperties DEF ReportsFine, ClerksFine
<1>2. old \in Report
  BY <1>1
<1>3. report' = [report EXCEPT ![k] = new]
  BY <1>1 DEF Close
<1>4. /\ new \in Report /\ ~new.open /\ new.corrected # 0
      /\ new.issue = old.issue /\ new.credit = old.credit
  <2>1. old.corrected + 1 \in Nat /\ old.corrected + 1 # 0
    BY <1>2 DEF Report
  <2> QED
    BY <1>2, <2>1 DEF Report
<1> HIDE DEF new
<1>5. /\ report'[k] = new
      /\ \A r \in DOMAIN report \ {k} : report'[r] = report[r]
      /\ DOMAIN report' = 1 .. n
  BY <1>1, <1>3
<1>6. report' \in [1 .. n -> Report]
  BY <1>1, <1>3, <1>4
<1> HIDE DEF n
<1>7. report' \in Seq(Report)
  BY <1>1, <1>6, SeqDef
<1>8. Len(report') = n
  <2>1. Len(report') \in Nat /\ DOMAIN report' = 1 .. Len(report')
    BY <1>7, LenProperties
  <2>2. 1 .. Len(report') = 1 .. n /\ n \in Nat
    BY <1>1, <1>5, <2>1
  <2> QED
    BY <2>1, <2>2, SameInterval
<1>9. \A r \in DOMAIN report :
        /\ report'[r].open <=> report'[r].corrected = 0
        /\ report'[r].issue = report[r].issue /\ report'[r].credit = report[r].credit
  BY <1>4, <1>5 DEF ReportsFine
<1>10. ReportsFine'
  BY <1>1, <1>5, <1>7, <1>8, <1>9 DEF ReportsFine, n
<1>11. ClerksFine'
  <2>1. /\ clerk' = [q \in Clerks |-> clerk'[q]]
        /\ \A q \in Clerks : clerk'[q] = IF q = p THEN Idle ELSE clerk[q]
    BY DEF Close, ClerksFine
  <2> QED
    BY <1>1, <1>5, <1>9, <2>1 DEF ClerksFine
<1> QED
  BY <1>1, <1>5, <1>8, <1>10, <1>11 DEF n

\* The report a user acts upon has its fields.
LEMMA ChosenType ==
  ASSUME ReportsFine, ClerksFine, NEW p \in Clerks, clerk[p] # Idle
  PROVE  /\ Chosen(p) \in Report
         /\ clerk[p].fix = "create" => Chosen(p).credit \in DOMAIN Legacy
<1>1. clerk[p].report \in DOMAIN report
  BY DEF ClerksFine
<1>2. report[clerk[p].report] \in Report
  BY <1>1, LenProperties DEF ReportsFine
<1> QED
  BY <1>1, <1>2 DEF Chosen, ReportsFine, ClerksFine

LEMMA CorrectionFine ==
  ASSUME TypeOK, ReportsFine, ClerksFine, NEW p \in Clerks, clerk[p] # Idle,
         ApplyCorrection(p)
  PROVE  /\ ReportsFine' /\ ClerksFine'
         /\ balance' \in [Companies -> Int] /\ txSum' \in [Companies -> Int]
<1>1. ReportsFine' /\ ClerksFine'
  BY CloseTypes DEF ApplyCorrection
<1>2. /\ Chosen(p).company \in Companies /\ Chosen(p).expected \in Int
      /\ Chosen(p).difference \in Int
  BY ChosenType DEF Report
<1>3. balance \in [Companies -> Int] /\ txSum \in [Companies -> Int]
  BY DEF TypeOK
<1>4. /\ balance' = [balance EXCEPT ![Chosen(p).company] = Chosen(p).expected]
      /\ txSum' = [txSum EXCEPT ![Chosen(p).company] = @ + Chosen(p).difference]
  BY DEF ApplyCorrection
<1>5. txSum[Chosen(p).company] + Chosen(p).difference \in Int
  BY <1>2, <1>3
<1> QED
  BY <1>1, <1>2, <1>3, <1>4, <1>5

LEMMA ResolveFine ==
  ASSUME ReconciledInv, NEW p \in Clerks, ResolveReconciliationReport(p)
  PROVE  ReconciledInv'
<1> USE DEF ReconciledInv
<1>1. /\ clerk[p] # Idle /\ ApplyCorrection(p)
      /\ UNCHANGED <<now, invoice, credit, issued, job, moved, spent, checking, twin>>
  BY DEF ResolveReconciliationReport, Acts
<1>2. /\ ReportsFine' /\ ClerksFine'
      /\ balance' \in [Companies -> Int] /\ txSum' \in [Companies -> Int]
  BY <1>1, CorrectionFine
<1> QED
  BY <1>1, <1>2 DEF TypeOK, RowsFine

\* The row of a legacy credit has the credit's id, if it has not been made; and
\* a second one an id that no row and no legacy credit has.
LEMMA CreateFine ==
  ASSUME ReconciledInv, NEW p \in Clerks, CreateMissingCreditTrackingEntry(p)
  PROVE  ReconciledInv'
<1> USE DEF ReconciledInv
<1> DEFINE t == Chosen(p).credit
           first == t \notin DOMAIN credit
           id == IF first THEN t ELSE issued + 1
           row == NewCredit(Legacy[t].company, "prepayment", NoInvoice,
                            Legacy[t].amount, Never)
<1>1. /\ clerk[p] # Idle /\ clerk[p].fix = "create" /\ ApplyCorrection(p)
      /\ id \in CreditIds /\ credit' = Put(credit, id, row)
      /\ issued' = (IF first THEN issued ELSE id)
      /\ twin' = (IF first THEN twin ELSE Put(twin, id, t))
      /\ UNCHANGED <<now, invoice, job, moved, spent, checking>>
  BY DEF CreateMissingCreditTrackingEntry, Acts
<1>2. /\ ReportsFine' /\ ClerksFine'
      /\ balance' \in [Companies -> Int] /\ txSum' \in [Companies -> Int]
  BY <1>1, CorrectionFine
<1>3. t \in DOMAIN Legacy
  BY <1>1, ChosenType
<1>4. row \in Credit
  <2>1. Never \in Dates /\ "prepayment" \in {"prepayment", "negative", "transfer"}
    BY LedgerAssumption DEF Never, Dates
  <2> HIDE DEF t
  <2> QED
    BY <1>3, <2>1, LegacyFacts, NewCreditType
<1> HIDE DEF row
<1> DEFINE n == Cardinality(DOMAIN Legacy)
<1>5. n \in Nat /\ DOMAIN Legacy = 1 .. n
  BY LegacyFacts
<1>6. issued \in Nat /\ issued >= n /\ \A e \in DOMAIN credit : e <= issued
  BY DEF TypeOK, RowsFine
<1> HIDE DEF t, n
<1>7. id \in Nat /\ issued' \in Nat /\ id <= issued' /\ issued <= issued'
  <2>1. t \in Nat /\ t <= n
    BY <1>3, <1>5
  <2> QED
    BY <1>1, <1>5, <1>6, <2>1
<1>8. ~first => id \notin DOMAIN Legacy
  BY <1>5, <1>6
<1>9. /\ DOMAIN credit' = DOMAIN credit \cup {id}
      /\ \A e \in DOMAIN credit' : credit'[e] = IF e = id THEN row ELSE credit[e]
      /\ credit' = [e \in DOMAIN credit' |-> credit'[e]]
  BY <1>1 DEF Put
<1>10. \A e \in DOMAIN credit' : e <= issued'
  <2>1. \A e \in DOMAIN credit : e \in Nat
    BY LedgerAssumption DEF TypeOK
  <2> HIDE DEF first, id
  <2> QED
    BY <1>6, <1>7, <1>9, <2>1
<1>11. /\ DOMAIN credit' \subseteq CreditIds
       /\ credit' \in [DOMAIN credit' -> Credit]
  <2> HIDE DEF first, id
  <2> QED
    BY <1>1, <1>4, <1>9 DEF TypeOK
<1>12. TypeOK'
  BY <1>1, <1>2, <1>7, <1>10, <1>11 DEF TypeOK
<1>13. /\ DOMAIN twin' \subseteq CreditIds \ DOMAIN Legacy
       /\ \A e \in DOMAIN twin' : twin'[e] \in DOMAIN Legacy
  <2>1. CASE first
    BY <1>1, <2>1 DEF RowsFine
  <2>2. CASE ~first
    <3>1. twin' = Put(twin, id, t) /\ id \notin DOMAIN Legacy /\ id \in CreditIds
      BY <1>1, <1>8, <2>2
    <3> HIDE DEF id
    <3> QED
      BY <1>3, <3>1 DEF Put, RowsFine
  <2> QED
    BY <2>1, <2>2
<1>14. RowsFine'
  <2>1. issued' >= Cardinality(DOMAIN Legacy) /\ checking' \subseteq Companies
    BY <1>1, <1>5, <1>6, <1>7 DEF n, RowsFine
  <2> QED
    BY <1>13, <2>1 DEF RowsFine
<1> QED
  BY <1>2, <1>12, <1>14

LEMMA UpdateFine ==
  ASSUME ReconciledInv, NEW p \in Clerks, UpdateCreditTrackingRemainingAmount(p)
  PROVE  ReconciledInv'
<1> USE DEF ReconciledInv
<1> DEFINE e == Chosen(p).credit
           n == Chosen(p).expected
<1>1. /\ clerk[p] # Idle
      /\ UNCHANGED <<now, invoice, issued, job, moved, spent, checking, twin>>
      /\ \/ /\ e \in DOMAIN credit /\ ApplyCorrection(p)
            /\ credit' = [credit EXCEPT ![e].remaining = n]
         \/ /\ clerk' = [clerk EXCEPT ![p] = Idle]
            /\ UNCHANGED <<credit, balance, txSum, report>>
  BY DEF UpdateCreditTrackingRemainingAmount, Acts
<1>2. n \in Int
  BY <1>1, ChosenType DEF Report
<1> HIDE DEF e, n
<1>3. CASE /\ e \in DOMAIN credit /\ ApplyCorrection(p)
           /\ credit' = [credit EXCEPT ![e].remaining = n]
  <2>1. /\ ReportsFine' /\ ClerksFine'
        /\ balance' \in [Companies -> Int] /\ txSum' \in [Companies -> Int]
    BY <1>1, <1>3, CorrectionFine
  <2>2. DOMAIN credit' = DOMAIN credit /\ credit' \in [DOMAIN credit -> Credit]
    <3>1. credit \in [DOMAIN credit -> Credit] /\ credit[e] \in Credit
      BY <1>3 DEF TypeOK
    <3>2. [credit[e] EXCEPT !.remaining = n] \in Credit
      BY <1>2, <3>1 DEF Credit
    <3> QED
      BY <1>3, <3>1, <3>2
  <2>3. TypeOK'
    BY <1>1, <2>1, <2>2 DEF TypeOK
  <2> QED
    BY <1>1, <2>1, <2>3 DEF RowsFine
<1>4. CASE /\ clerk' = [clerk EXCEPT ![p] = Idle]
           /\ UNCHANGED <<credit, balance, txSum, report>>
  <2>1. TypeOK' /\ RowsFine' /\ ReportsFine'
    BY <1>1, <1>4 DEF TypeOK, RowsFine, ReportsFine
  <2>2. /\ clerk' = [q \in Clerks |-> clerk'[q]]
        /\ \A q \in Clerks : clerk'[q] = IF q = p THEN Idle ELSE clerk[q]
    BY <1>4 DEF ClerksFine
  <2>3. ClerksFine'
    BY <1>4, <2>2 DEF ClerksFine
  <2> QED
    BY <2>1, <2>3
<1> QED
  BY <1>1, <1>3, <1>4

LEMMA AdjustFine ==
  ASSUME ReconciledInv, NEW p \in Clerks, ApplyCustomCreditAdjustment(p)
  PROVE  ReconciledInv'
<1> USE DEF ReconciledInv
<1> DEFINE c == Chosen(p).company
           n == clerk[p].amount
<1>1. /\ clerk[p] # Idle /\ Close(p)
      /\ balance' = [balance EXCEPT ![c] = @ + n]
      /\ txSum' = [txSum EXCEPT ![c] = @ + n]
      /\ UNCHANGED <<now, invoice, credit, issued, job, moved, spent, checking, twin>>
  BY DEF ApplyCustomCreditAdjustment, Acts
<1>2. c \in Companies /\ n \in Int
  BY <1>1, ChosenType DEF Report, ClerksFine
<1>3. ReportsFine' /\ ClerksFine'
  BY <1>1, CloseTypes
<1> HIDE DEF c, n
<1>4. balance' \in [Companies -> Int] /\ txSum' \in [Companies -> Int]
  <2>1. balance \in [Companies -> Int] /\ txSum \in [Companies -> Int]
    BY DEF TypeOK
  <2> QED
    BY <1>1, <1>2, <2>1
<1> QED
  BY <1>1, <1>3, <1>4 DEF TypeOK, RowsFine

LEMMA CorrectingFine ==
  ASSUME ReconciledInv, Correcting
  PROVE  ReconciledInv'
<1>1. ASSUME NEW p \in Clerks, MarkReportAsResolvedNoAction(p)
      PROVE  ReconciledInv'
  <2>1. clerk[p] # Idle /\ Close(p) /\ UNCHANGED <<vars, checking, twin>>
    BY <1>1 DEF MarkReportAsResolvedNoAction, Acts, ledger
  <2>2. ReportsFine' /\ ClerksFine'
    BY <2>1, CloseTypes DEF ReconciledInv
  <2> QED
    BY <2>1, <2>2 DEF ReconciledInv, TypeOK, vars, RowsFine
<1> QED
  BY <1>1, ResolveFine, CreateFine, UpdateFine, AdjustFine DEF Correcting

LEMMA LedgerFine ==
  ASSUME ReconciledInv, LedgerStep
  PROVE  ReconciledInv'
<1>1. Next /\ UNCHANGED <<report, checking, clerk, twin>>
  BY DEF LedgerStep
<1>2. TypeOK' /\ (issued' = issued \/ issued' = issued + 1) /\ issued \in Nat
  BY <1>1, TypeStep, IssuedGrows DEF ReconciledInv, TypeOK
<1>3. issued' >= Cardinality(DOMAIN Legacy)
  BY <1>2, LegacyFacts DEF ReconciledInv, RowsFine
<1> QED
  BY <1>1, <1>2, <1>3 DEF ReconciledInv, ReportsFine, ClerksFine, RowsFine

LEMMA ReconciledStep == ReconciledInv /\ [ReconciliationNext]_allvars => ReconciledInv'
<1> SUFFICES ASSUME ReconciledInv, [ReconciliationNext]_allvars PROVE ReconciledInv'
  OBVIOUS
<1>1. CASE Validating
  BY <1>1, BalanceFine, TrackingFine DEF Validating
<1>2. CASE Reading
  BY <1>2, ReadingFine DEF Reading
<1>3. CASE UNCHANGED allvars
  BY <1>3 DEF allvars, vars, ReconciledInv, TypeOK, ReportsFine, ClerksFine, RowsFine
<1> QED
  BY <1>1, <1>2, <1>3, CorrectingFine, LedgerFine DEF ReconciliationNext

\* The ledger and the reports always have their types, whatever corrections are
\* made from what reports say: a report is open exactly while nobody has acted
\* upon it, a row is created only for a legacy credit, and a second row of one
\* never takes the id of another.
THEOREM ReportsTyped == ReconciliationSpec => [](TypeOK /\ ReportsTypeOK)
<1>1. ReconciliationInit => ReconciledInv
  BY FineInit
<1>2. ReconciledInv => TypeOK /\ ReportsTypeOK
  BY FineTypes DEF ReconciledInv
<1> QED
  BY <1>1, <1>2, ReconciledStep, PTL DEF ReconciliationSpec

-----------------------------------------------------------------------------
(* What reconciliation leaves alone of the ledger *)

\* Beside the ledger's own steps, nothing changes an invoice, a finalization or
\* what one has moved.
LEMMA ReconciliationBills ==
  ASSUME ReconciledInv, [ReconciliationNext]_allvars
  PROVE  [Next]_vars \/ UNCHANGED <<invoice, job, moved>>
<1>1. CASE LedgerStep
  BY <1>1 DEF LedgerStep
<1>2. CASE Validating
  BY <1>2 DEF Validating, ValidateCreditBalanceWithoutCorrection,
              ValidateAllCreditTracking, ledger, vars
<1>3. CASE Reading
  BY <1>3 DEF Reading, ReadReport, ledger, vars
<1>4. CASE Correcting
  BY <1>4 DEF Correcting, ResolveReconciliationReport, CreateMissingCreditTrackingEntry,
              UpdateCreditTrackingRemainingAmount, ApplyCustomCreditAdjustment,
              MarkReportAsResolvedNoAction, ledger, vars
<1>5. CASE UNCHANGED allvars
  BY <1>5 DEF allvars, vars
<1> QED
  BY <1>1, <1>2, <1>3, <1>4, <1>5 DEF ReconciliationNext

\* Corrections change balances and rows while invoices are paid from them: still,
\* unless its totals are written again, an invoice is never allocated more than
\* its full amount.
THEOREM NeverOverCorrected == ReconciliationSpec => []NeverOverApplied
<1> DEFINE I == ReconciledInv /\ BillingInv
<1>1. ReconciliationInit => I
  <2> SUFFICES ASSUME ReconciliationInit PROVE I
    OBVIOUS
  <2>1. AllocatedIsApplied /\ OfferedWithin /\ RequestBounded /\ NeverOverApplied
    BY DEF ReconciliationInit, AllocatedIsApplied, OfferedWithin,
           RequestBounded, NeverOverApplied
  <2> QED
    BY <2>1, FineInit DEF BillingInv, ReconciledInv
<1>2. I /\ [ReconciliationNext]_allvars => I'
  <2> SUFFICES ASSUME I, [ReconciliationNext]_allvars PROVE I'
    OBVIOUS
  <2>1. ReconciledInv'
    BY ReconciledStep
  <2>2. CASE [Next]_vars
    BY <2>1, <2>2, BillingStep
  <2>3. CASE UNCHANGED <<invoice, job, moved>>
    BY <2>1, <2>3 DEF BillingInv, ReconciledInv, AllocatedIsApplied,
                      OfferedWithin, RequestBounded, NeverOverApplied, Full
  <2> QED
    BY <2>2, <2>3, ReconciliationBills
<1>3. I => NeverOverApplied
  BY DEF BillingInv
<1> QED
  BY <1>1, <1>2, <1>3, PTL DEF ReconciliationSpec

=============================================================================
