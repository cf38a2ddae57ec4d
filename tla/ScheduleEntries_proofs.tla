------------------------- MODULE ScheduleEntries_proofs -------------------------
(***************************************************************************)
(* Proofs about ScheduleEntries, for any number of users, rows and days and *)
(* any rules:                                                               *)
(*   - TypeOK;                                                              *)
(*   - StaysHidden: what a transaction writes shows no day that had been    *)
(*     taken out when it read the row;                                      *)
(*   - SplitKeepsDays.                                                      *)
(***************************************************************************)
EXTENDS ScheduleEntries, TLAPS

-----------------------------------------------------------------------------
(* Types *)

\* A pattern is not the absence of one.
LEMMA PatternNotOnce == ASSUME NEW p \in Pattern PROVE p # Once
BY DEF Pattern, Once

\* A row is not the absence of one.
LEMMA RowNotNoRow == ASSUME NEW r \in Row PROVE r # NoRow
BY DEF Row, NoRow

\* What a popup sends is a pattern.
LEMMA SentIsPattern ==
  ASSUME NEW to \in Given, NEW p \in SentPattern(to) PROVE p \in Pattern
<1> USE ScheduleAssumption DEF Days, Never
<1>1. p.rule \in Rules /\ p.start \in Given /\ p.exceptions \in SUBSET Days
  BY DEF SentPattern
<1>2. p.end \in -1 .. Never
  <2>1. p.end \in {d \in Given : d > to} \cup {Never}  BY DEF SentPattern
  <2>2. p.end \in 0 .. MaxDay \/ p.end = MaxDay + 1  BY <2>1
  <2>3. MaxDay \in Nat  OBVIOUS
  <2> HIDE ScheduleAssumption
  <2> QED  BY <2>2, <2>3
<1>3. p = [rule |-> p.rule, start |-> p.start, end |-> p.end,
           exceptions |-> p.exceptions]
  BY DEF SentPattern
<1> QED  BY <1>1, <1>2, <1>3 DEF Pattern

\* What a transaction has read, and the event it is about.
LEMMA ReadTypes ==
  ASSUME TypeOK, NEW u \in Users, HasRead(u)
  PROVE  /\ popup[u].id \in Ids /\ popup[u].day \in Days \cup {NoDay}
         /\ popup[u].row \in Row /\ popup[u].known \in SUBSET Days
<1>1. popup[u] \in {Idle} \cup Popup  BY DEF TypeOK
<1> QED  BY <1>1 DEF HasRead, Idle, Popup

\* The pattern it has read, of a row that recurs.
LEMMA RecursTypes ==
  ASSUME TypeOK, NEW u \in Users, Recurs(u)
  PROVE  /\ popup[u].row \in Row
         /\ popup[u].row.pattern \in Pattern
BY ReadTypes DEF Recurs, Row

\* The patterns that are made from another one.
LEMMA MadePatterns ==
  ASSUME NEW p \in Pattern, NEW d \in Days, NEW to \in Days
  PROVE  /\ Excepted(p, d) \in Pattern
         /\ EndedBefore(p, d) \in Pattern
         /\ Rest(p, d, to) \in Pattern
         /\ [p EXCEPT !.start = to, !.exceptions = {}] \in Pattern
<1>1. d - 1 \in -1 .. Never  BY ScheduleAssumption DEF Days, Never
<1>2. /\ p.exceptions \cup {d} \in SUBSET Days
      /\ {e \in p.exceptions : e <= d} \in SUBSET Days
      /\ {e \in p.exceptions : e > d} \in SUBSET Days
  BY DEF Pattern
<1>3. Excepted(p, d) \in Pattern  BY <1>2 DEF Excepted, Pattern
<1>4. EndedBefore(p, d) \in Pattern  BY <1>1, <1>2 DEF EndedBefore, Pattern
<1>5. Rest(p, d, to) \in Pattern  BY <1>2 DEF Rest, Pattern
<1>6. [p EXCEPT !.start = to, !.exceptions = {}] \in Pattern  BY DEF Pattern
<1> QED  BY <1>3, <1>4, <1>5, <1>6

\* The rows after a pattern is written and a row inserted.
LEMMA WithTypes ==
  ASSUME TypeOK, NEW id \in Ids, NEW p \in Pattern, NEW new \in Row,
         made < MaxRows, made' = made + 1, rows' = With(id, p, new)
  PROVE  /\ rows' \in [Ids -> Row \cup {NoRow}]
         /\ made' \in 0 .. MaxRows
         /\ \A i \in Ids : i > made' => rows'[i] = NoRow
<1> USE ScheduleAssumption DEF TypeOK, Ids
<1>1. ASSUME NEW r \in Row PROVE [r EXCEPT !.pattern = p] \in Row
  BY DEF Row
<1>2. ASSUME NEW i \in Ids
      PROVE  /\ rows'[i] \in Row \cup {NoRow}
             /\ i > made' => rows'[i] = NoRow
  <2>1. rows[i] # NoRow => [rows[i] EXCEPT !.pattern = p] \in Row  BY <1>1
  <2> QED  BY <2>1 DEF With
<1>3. rows' = [i \in Ids |-> rows'[i]]  BY DEF With
<1> QED  BY <1>2, <1>3

LEMMA WritesTypes ==
  ASSUME TypeOK, NEW u \in Users, HasRead(u),
         NEW takenOut \in SUBSET Days, NEW putBack \in SUBSET Days,
         Writes(u, takenOut, putBack)
  PROVE  /\ popup' \in [Users -> {Idle} \cup Popup]
         /\ hidden' \in [Ids -> SUBSET Days] /\ raced' \in [Ids -> SUBSET Days]
         /\ opened' \in 0 .. MaxOpened
<1>1. popup[u].id \in Ids  BY ReadTypes
<1> QED  BY <1>1 DEF Writes, TypeOK

LEMMA ClosesTypes ==
  ASSUME TypeOK, NEW u \in Users, Closes(u)
  PROVE  /\ popup' \in [Users -> {Idle} \cup Popup]
         /\ hidden' \in [Ids -> SUBSET Days] /\ raced' \in [Ids -> SUBSET Days]
         /\ opened' \in 0 .. MaxOpened
BY DEF Closes, TypeOK

\* An update may write a pattern, and insert a row of its own.
LEMMA SplitTypes ==
  ASSUME TypeOK, NEW u \in Users, NEW to \in Given,
         NEW p \in Pattern \cup {Once}, UpdateFuture(u, to, p)
  PROVE  TypeOK'
<1> DEFINE day == popup[u].day
           old == ReadRow(u).pattern
<1>1. /\ HasRead(u) /\ popup[u].id \in Ids /\ day \in Days
      /\ old \in Pattern /\ to \in Days
  BY ReadTypes, RecursTypes, ScheduleAssumption DEF UpdateFuture, Recurs, ReadRow
<1> DEFINE pattern == IF p = Once THEN Rest(old, day, to)
                      ELSE [p EXCEPT !.start = to, !.exceptions = {}]
           new == [start |-> to, pattern |-> pattern]
<1>2. EndedBefore(old, day) \in Pattern /\ pattern \in Pattern
  BY <1>1, MadePatterns
<1>3. new \in Row  BY <1>1, <1>2 DEF Row
<1>4. /\ made < MaxRows /\ made' = made + 1
      /\ rows' = With(popup[u].id, EndedBefore(old, day), new)
      /\ Writes(u, {d \in Days : d >= day}, Regained(old.end, day - 1))
  BY DEF UpdateFuture, Split
<1>5. /\ {d \in Days : d >= day} \in SUBSET Days
      /\ Regained(old.end, day - 1) \in SUBSET Days
  BY DEF Regained
<1> HIDE DEF new, pattern, day, old
<1>6. /\ rows' \in [Ids -> Row \cup {NoRow}] /\ made' \in 0 .. MaxRows
      /\ \A i \in Ids : i > made' => rows'[i] = NoRow
  BY <1>1, <1>2, <1>3, <1>4, WithTypes
<1>7. /\ popup' \in [Users -> {Idle} \cup Popup]
      /\ hidden' \in [Ids -> SUBSET Days] /\ raced' \in [Ids -> SUBSET Days]
      /\ opened' \in 0 .. MaxOpened
  BY <1>1, <1>4, <1>5, WritesTypes
<1> QED  BY <1>6, <1>7 DEF TypeOK

LEMMA SingleTypes ==
  ASSUME TypeOK, NEW u \in Users, NEW to \in Given, UpdateSingle(u, to)
  PROVE  TypeOK'
<1> DEFINE old == ReadRow(u).pattern
           new == [start |-> to, pattern |-> Once]
<1>1. HasRead(u) /\ popup[u].id \in Ids /\ old \in Pattern /\ to \in Days
  BY ReadTypes, RecursTypes, ScheduleAssumption DEF UpdateSingle, Recurs, ReadRow
<1>2. Excepted(old, to) \in Pattern  BY <1>1, MadePatterns
<1>3. new \in Row  BY <1>1 DEF Row
<1>4. /\ made < MaxRows /\ made' = made + 1
      /\ rows' = With(popup[u].id, Excepted(old, to), new)
      /\ Writes(u, {popup[u].day} \cap {to}, {})
  BY DEF UpdateSingle
<1> HIDE DEF new, old
<1>6. /\ rows' \in [Ids -> Row \cup {NoRow}] /\ made' \in 0 .. MaxRows
      /\ \A i \in Ids : i > made' => rows'[i] = NoRow
  BY <1>1, <1>2, <1>3, <1>4, WithTypes
<1>7. /\ popup' \in [Users -> {Idle} \cup Popup]
      /\ hidden' \in [Ids -> SUBSET Days] /\ raced' \in [Ids -> SUBSET Days]
      /\ opened' \in 0 .. MaxOpened
  <2>1. {popup[u].day} \cap {to} \in SUBSET Days /\ {} \in SUBSET Days  BY <1>1
  <2> QED  BY <1>1, <1>4, <2>1, WritesTypes
<1> QED  BY <1>6, <1>7 DEF TypeOK

\* A row that is there takes a new value, or goes.
LEMMA RowTypes ==
  ASSUME TypeOK, NEW id \in Ids, NEW r \in Row \cup {NoRow},
         rows[id] # NoRow \/ r = NoRow,
         rows' = [rows EXCEPT ![id] = r], UNCHANGED made
  PROVE  /\ rows' \in [Ids -> Row \cup {NoRow}] /\ made' \in 0 .. MaxRows
         /\ \A i \in Ids : i > made' => rows'[i] = NoRow
BY DEF TypeOK

\* What an update of all writes.
LEMMA AllPattern ==
  ASSUME NEW old \in Pattern, NEW p \in Pattern, NEW end \in -1 .. Never
  PROVE  [old EXCEPT !.rule = p.rule, !.end = end] \in Pattern
BY DEF Pattern

LEMMA AllTypes ==
  ASSUME TypeOK, NEW u \in Users, NEW to \in Given,
         NEW p \in Pattern \cup {Once}, UpdateAll(u, to, p)
  PROVE  TypeOK'
<1> DEFINE old == ReadRow(u).pattern
           end == IF p = Once \/ p.end = Never THEN old.end ELSE p.end
           pattern == IF p = Once THEN old
                      ELSE [old EXCEPT !.rule = p.rule, !.end = end]
           r == [start |-> to, pattern |-> pattern]
<1>1. HasRead(u) /\ popup[u].id \in Ids /\ old \in Pattern /\ to \in Days
  BY ReadTypes, RecursTypes, ScheduleAssumption DEF UpdateAll, Recurs, ReadRow
<1>2. end \in -1 .. Never  BY <1>1 DEF Pattern
<1>3. /\ rows[popup[u].id] # NoRow /\ UNCHANGED made
      /\ rows' = [rows EXCEPT ![popup[u].id] = r]
      /\ Writes(u, {}, Regained(old.end, end))
  BY DEF UpdateAll
<1> HIDE DEF end
<1>4. pattern \in Pattern  BY <1>1, <1>2, AllPattern
<1> HIDE DEF pattern
<1>5. r \in Row  BY <1>1, <1>4 DEF Row
<1> HIDE DEF r, old
<1>6. /\ rows' \in [Ids -> Row \cup {NoRow}] /\ made' \in 0 .. MaxRows
      /\ \A i \in Ids : i > made' => rows'[i] = NoRow
  BY <1>1, <1>3, <1>5, RowTypes
<1>7. Regained(old.end, end) \in SUBSET Days  BY DEF Regained
<1>8. /\ popup' \in [Users -> {Idle} \cup Popup]
      /\ hidden' \in [Ids -> SUBSET Days] /\ raced' \in [Ids -> SUBSET Days]
      /\ opened' \in 0 .. MaxOpened
  BY <1>1, <1>3, <1>7, WritesTypes
<1> QED  BY <1>6, <1>8 DEF TypeOK

LEMMA UpdateRowTypes ==
  ASSUME TypeOK, NEW u \in Users, NEW to \in Given,
         NEW p \in Pattern \cup {Once}, NEW sent \in BOOLEAN,
         UpdateRow(u, to, p, sent)
  PROVE  TypeOK'
<1> DEFINE id == popup[u].id
           r == [start |-> to, pattern |-> p]
           moved == [rows[id] EXCEPT !.start = to]
<1>1. HasRead(u) /\ id \in Ids /\ to \in Days /\ rows[id] # NoRow /\ UNCHANGED made
  BY ReadTypes, ScheduleAssumption DEF UpdateRow
<1>2. rows[id] \in Row  BY <1>1 DEF TypeOK
<1>3. r \in Row /\ moved \in Row  BY <1>1, <1>2 DEF Row
<1>4. \/ rows' = [rows EXCEPT ![id] = r] /\ Writes(u, {}, {})
      \/ rows' = [rows EXCEPT ![id] = moved] /\ Closes(u)
  <2>1. CASE sent  BY <2>1 DEF UpdateRow
  <2>2. CASE ~sent
    <3>1. rows' = [rows EXCEPT ![id].start = to] /\ Closes(u)
      BY <2>2 DEF UpdateRow
    <3>2. [rows EXCEPT ![id].start = to] = [rows EXCEPT ![id] = moved]
      OBVIOUS
    <3> QED  BY <3>1, <3>2
  <2> QED  BY <2>1, <2>2
<1> HIDE DEF r, moved, id
<1>5. /\ rows' \in [Ids -> Row \cup {NoRow}] /\ made' \in 0 .. MaxRows
      /\ \A i \in Ids : i > made' => rows'[i] = NoRow
  BY <1>1, <1>3, <1>4, RowTypes
<1>6. /\ popup' \in [Users -> {Idle} \cup Popup]
      /\ hidden' \in [Ids -> SUBSET Days] /\ raced' \in [Ids -> SUBSET Days]
      /\ opened' \in 0 .. MaxOpened
  <2>1. {} \in SUBSET Days  OBVIOUS
  <2> QED  BY <1>1, <1>4, <2>1, WritesTypes, ClosesTypes
<1> QED  BY <1>5, <1>6 DEF TypeOK

LEMMA DeletePatternTypes ==
  ASSUME TypeOK, NEW u \in Users, NEW p \in Pattern,
         NEW takenOut \in SUBSET Days, NEW putBack \in SUBSET Days,
         DeletePattern(u, p, takenOut, putBack)
  PROVE  TypeOK'
<1> DEFINE id == popup[u].id
           r == [rows[id] EXCEPT !.pattern = p]
<1>1. HasRead(u) /\ id \in Ids /\ UNCHANGED made /\ Writes(u, takenOut, putBack)
  BY ReadTypes DEF DeletePattern, Recurs
<1>2. /\ popup' \in [Users -> {Idle} \cup Popup]
      /\ hidden' \in [Ids -> SUBSET Days] /\ raced' \in [Ids -> SUBSET Days]
      /\ opened' \in 0 .. MaxOpened
  BY <1>1, WritesTypes
<1>3. CASE rows[id] = NoRow
  <2>1. UNCHANGED rows  BY <1>3 DEF DeletePattern
  <2> QED  BY <1>1, <1>2, <2>1 DEF TypeOK
<1>4. CASE rows[id] # NoRow
  <2>1. rows[id] \in Row  BY <1>1, <1>4 DEF TypeOK
  <2>2. r \in Row  BY <2>1 DEF Row
  <2>3. rows' = [rows EXCEPT ![id] = r]  BY <1>4 DEF DeletePattern
  <2> HIDE DEF r, id
  <2>4. /\ rows' \in [Ids -> Row \cup {NoRow}] /\ made' \in 0 .. MaxRows
        /\ \A i \in Ids : i > made' => rows'[i] = NoRow
    BY <1>1, <1>4, <2>2, <2>3, RowTypes
  <2> QED  BY <1>2, <2>4 DEF TypeOK
<1> QED  BY <1>3, <1>4

\* The two deletions of a part of a series.
LEMMA Deletions ==
  ASSUME TypeOK, NEW u \in Users, DeleteSingle(u) \/ DeleteFuture(u)
  PROVE  /\ HasRead(u) /\ popup[u].id \in Ids /\ popup[u].day \in Days
         /\ ReadRow(u) \in Row /\ ReadRow(u).pattern \in Pattern
         /\ ReadRow(u).pattern # Once
BY ReadTypes, RecursTypes
   DEF DeleteSingle, DeleteFuture, DeletePattern, Recurs, ReadRow

LEMMA DeleteTypes ==
  ASSUME TypeOK, NEW u \in Users, DeleteSingle(u) \/ DeleteFuture(u)
  PROVE  TypeOK'
<1>1. popup[u].day \in Days /\ ReadRow(u).pattern \in Pattern  BY Deletions
<1>2. CASE DeleteSingle(u)
  <2>1. {popup[u].day} \in SUBSET Days /\ {} \in SUBSET Days  BY <1>1
  <2> QED  BY <1>1, <1>2, <2>1, MadePatterns, DeletePatternTypes DEF DeleteSingle
<1>3. CASE DeleteFuture(u)
  <2>1. /\ {d \in Days : d >= popup[u].day} \in SUBSET Days
        /\ Regained(ReadRow(u).pattern.end, popup[u].day - 1) \in SUBSET Days
    BY DEF Regained
  <2> QED  BY <1>1, <1>3, <2>1, MadePatterns, DeletePatternTypes DEF DeleteFuture
<1> QED  BY <1>2, <1>3

LEMMA DeleteRowTypes ==
  ASSUME TypeOK, NEW u \in Users, DeleteRow(u)
  PROVE  TypeOK'
<1>1. /\ popup[u].id \in Ids /\ UNCHANGED made /\ Closes(u)
      /\ rows' = [rows EXCEPT ![popup[u].id] = NoRow]
  BY ReadTypes DEF DeleteRow
<1>2. /\ rows' \in [Ids -> Row \cup {NoRow}] /\ made' \in 0 .. MaxRows
      /\ \A i \in Ids : i > made' => rows'[i] = NoRow
  BY <1>1, RowTypes
<1> QED  BY <1>1, <1>2, ClosesTypes DEF TypeOK

LEMMA CreateTypes ==
  ASSUME TypeOK, NEW start \in Given, NEW p \in Pattern \cup {Once},
         Create(start, p)
  PROVE  TypeOK'
<1> DEFINE r == [start |-> start, pattern |-> p]
<1>1. r \in Row  BY ScheduleAssumption DEF Row
<1>2. /\ made < MaxRows /\ made' = made + 1 /\ UNCHANGED <<opened, popup, hidden, raced>>
      /\ rows' = [rows EXCEPT ![made + 1] = r]
  BY DEF Create
<1> HIDE DEF r
<1> QED  BY <1>1, <1>2, ScheduleAssumption DEF TypeOK, Ids

LEMMA ReadingTypes ==
  ASSUME TypeOK, NEW u \in Users, Read(u)
  PROVE  TypeOK'
<1>1. popup[u] \in [step : {"open"}, id : Ids, day : Days \cup {NoDay}]
  BY DEF Read, TypeOK, Popup, Idle
<1> DEFINE id == popup[u].id
           q == [step |-> "read", id |-> id, day |-> popup[u].day,
                 row |-> rows[id], known |-> hidden[id] \ raced[id]]
           next == IF rows[id] = NoRow THEN Idle ELSE q
<1>2. next \in {Idle} \cup Popup
  <2>1. CASE rows[id] = NoRow  BY <2>1
  <2>2. CASE rows[id] # NoRow
    <3>1. /\ rows[id] \in Row /\ hidden[id] \ raced[id] \in SUBSET Days
          /\ id \in Ids /\ popup[u].day \in Days \cup {NoDay}
      BY <1>1, <2>2 DEF TypeOK
    <3>2. q \in Popup  BY <3>1 DEF Popup
    <3> QED  BY <2>2, <3>2
  <2> QED  BY <2>1, <2>2
<1>3. popup' = [popup EXCEPT ![u] = next] /\ UNCHANGED <<rows, made, opened, hidden, raced>>
  BY DEF Read
<1> HIDE DEF next
<1> QED  BY <1>2, <1>3 DEF TypeOK

LEMMA OpenTypes ==
  ASSUME TypeOK, NEW u \in Users, NEW id \in Ids, NEW day \in Days \cup {NoDay},
         Open(u, id, day)
  PROVE  TypeOK'
<1> DEFINE q == [step |-> "open", id |-> id, day |-> day]
<1>1. q \in Popup  BY DEF Popup
<1>2. /\ popup' = [popup EXCEPT ![u] = q] /\ UNCHANGED <<rows, made, hidden, raced>>
      /\ opened < MaxOpened /\ opened' = opened + 1
  BY DEF Open
<1> HIDE DEF q
<1> QED  BY <1>1, <1>2, ScheduleAssumption DEF TypeOK

\* The rows, the series and what has been read keep their shape, whatever the
\* users do.
THEOREM ScheduleTypes == Spec => []TypeOK
<1>1. Init => TypeOK
  BY ScheduleAssumption DEF Init, TypeOK, Ids
<1>2. TypeOK /\ [Next]_vars => TypeOK'
  <2> SUFFICES ASSUME TypeOK, [Next]_vars PROVE TypeOK'
    OBVIOUS
  <2>1. CASE \E start \in Given : \E p \in SentPattern(start) \cup {Once} :
               Create(start, p)
    BY <2>1, SentIsPattern, CreateTypes
  <2>2. ASSUME NEW u \in Users, NEW id \in Ids, NEW day \in Days \cup {NoDay},
               Open(u, id, day)
        PROVE  TypeOK'
    BY <2>2, OpenTypes
  <2>3. ASSUME NEW u \in Users, NEW to \in Given, UpdateSingle(u, to)
        PROVE  TypeOK'
    BY <2>3, SingleTypes
  <2>4. ASSUME NEW u \in Users, NEW to \in Given,
               NEW p \in SentPattern(to) \cup {Once}, Update(u, to, p)
        PROVE  TypeOK'
    <3>1. p \in Pattern \cup {Once}  BY SentIsPattern
    <3> QED  BY <3>1, <2>4, SplitTypes, AllTypes, UpdateRowTypes DEF Update
  <2>5. ASSUME NEW u \in Users, Read(u) \/ DeleteSingle(u) \/ DeleteFuture(u)
                                \/ DeleteRow(u)
        PROVE  TypeOK'
    BY <2>5, ReadingTypes, DeleteTypes, DeleteRowTypes
  <2>6. ASSUME NEW u \in Users, End(u) PROVE TypeOK'
    BY <2>6, ClosesTypes DEF End, TypeOK
  <2>7. CASE UNCHANGED vars  BY <2>7 DEF TypeOK, vars
  <2> QED  BY <2>1, <2>2, <2>3, <2>4, <2>5, <2>6, <2>7 DEF Next
<1> QED  BY <1>1, <1>2, PTL DEF Spec

-----------------------------------------------------------------------------
(* What has been taken out of a series *)

\* A row shows none of some days because of its pattern alone: each is among
\* its exceptions or after its end.
Shuts(row, days) ==
  /\ row.pattern = Once => days = {}
  /\ row.pattern # Once =>
       \A d \in days : d \in row.pattern.exceptions \/ d > row.pattern.end

\* The inductive invariant: every row shuts out what has been taken out of it
\* with the knowledge of those who wrote it; what a transaction has read shuts
\* out what it knows of; and nothing is known of rows to come.
Shut ==
  /\ \A i \in Ids : rows[i] # NoRow => Shuts(rows[i], hidden[i] \ raced[i])
  /\ \A u \in Users : HasRead(u) => Shuts(popup[u].row, popup[u].known)
  /\ \A u \in Users : popup[u] # Idle => popup[u].id <= made
  /\ \A i \in Ids : i > made => hidden[i] = {}

\* Fewer days are shut out as well.
LEMMA ShutsFewer ==
  ASSUME NEW row, NEW days, NEW fewer \in SUBSET days, Shuts(row, days)
  PROVE  Shuts(row, fewer)
BY DEF Shuts

\* What a transaction leaves as known is what it knew of and has not put back,
\* and what it has taken out.
LEMMA WritesKnown ==
  ASSUME TypeOK, NEW u \in Users, HasRead(u),
         NEW takenOut, NEW putBack, Writes(u, takenOut, putBack)
  PROVE  LET id == popup[u].id IN
         /\ hidden'[id] \ raced'[id]
              \subseteq (popup[u].known \cup takenOut) \ putBack
         /\ \A i \in Ids \ {id} :
              hidden'[i] = hidden[i] /\ raced'[i] = raced[i]
BY ReadTypes DEF Writes, TypeOK

\* The popups after one is closed.
LEMMA ClosedShut ==
  ASSUME TypeOK, Shut, NEW u \in Users, made' \in {made, made + 1},
         popup' = [popup EXCEPT ![u] = Idle]
  PROVE  /\ \A v \in Users : HasRead(v)' => Shuts(popup'[v].row, popup'[v].known)
         /\ \A v \in Users : popup'[v] # Idle => popup'[v].id <= made'
<1> SUFFICES ASSUME NEW v \in Users
             PROVE  /\ HasRead(v)' => Shuts(popup'[v].row, popup'[v].known)
                    /\ popup'[v] # Idle => popup'[v].id <= made'
  OBVIOUS
<1>1. CASE v = u
  <2>1. popup'[v] = Idle  BY <1>1 DEF TypeOK
  <2> QED  BY <2>1 DEF HasRead, Idle
<1>2. CASE v # u
  <2>1. popup'[v] = popup[v]  BY <1>2 DEF TypeOK
  <2>2. HasRead(v)' <=> HasRead(v)  BY <2>1 DEF HasRead
  <2>3. popup[v] # Idle => popup[v].id \in Ids /\ popup[v].id <= made
    BY DEF TypeOK, Popup, Shut
  <2>4. popup'[v] # Idle => popup'[v].id <= made'
    <3>1. made \in Int  BY DEF TypeOK
    <3>2. popup[v] # Idle => popup[v].id \in Int  BY <2>3 DEF Ids
    <3> QED  BY <2>1, <2>3, <3>1, <3>2
  <2> QED  BY <2>1, <2>2, <2>4 DEF Shut
<1> QED  BY <1>1, <1>2

\* A transaction that writes a pattern which shuts out what it knew of and has
\* not put back, and what it has taken out, keeps the invariant.
LEMMA WritesShut ==
  ASSUME TypeOK, Shut, NEW u \in Users, HasRead(u),
         NEW takenOut, NEW putBack, Writes(u, takenOut, putBack),
         made' \in {made, made + 1},
         \A i \in Ids \ {popup[u].id} :
           rows'[i] = rows[i] \/ (i = made + 1 /\ made' = i),
         rows'[popup[u].id] # NoRow =>
           Shuts(rows'[popup[u].id], (popup[u].known \cup takenOut) \ putBack)
  PROVE  Shut'
<1> DEFINE id == popup[u].id
<1>1. /\ id \in Ids /\ id <= made /\ made \in Nat
  BY ReadTypes DEF TypeOK, Shut, HasRead, Idle
<1>2. /\ hidden'[id] \ raced'[id] \subseteq (popup[u].known \cup takenOut) \ putBack
      /\ \A i \in Ids \ {id} : hidden'[i] = hidden[i] /\ raced'[i] = raced[i]
  BY WritesKnown
<1>3. ASSUME NEW i \in Ids, rows'[i] # NoRow
      PROVE  Shuts(rows'[i], hidden'[i] \ raced'[i])
  <2>1. CASE i = id  BY <2>1, <1>2, <1>3, ShutsFewer
  <2>2. CASE i # id /\ rows'[i] = rows[i]  BY <2>2, <1>2, <1>3 DEF Shut
  <2>3. CASE i # id /\ i = made + 1
    <3>1. hidden[i] = {}  BY <1>1, <2>3 DEF Shut
    <3>2. hidden'[i] \ raced'[i] = {}  BY <3>1, <2>3, <1>2
    <3> QED  BY <3>2 DEF Shuts
  <2> QED  BY <2>1, <2>2, <2>3
<1>4. ASSUME NEW i \in Ids, i > made' PROVE hidden'[i] = {}
  <2>1. i > made /\ i # id  BY <1>1, <1>4 DEF Ids
  <2> QED  BY <1>2, <2>1 DEF Shut
<1>5. popup' = [popup EXCEPT ![u] = Idle]  BY DEF Writes
<1>6. /\ \A v \in Users : HasRead(v)' => Shuts(popup'[v].row, popup'[v].known)
      /\ \A v \in Users : popup'[v] # Idle => popup'[v].id <= made'
  BY <1>1, <1>5, ClosedShut
<1>7. /\ \A i \in Ids : rows'[i] # NoRow => Shuts(rows'[i], hidden'[i] \ raced'[i])
      /\ \A i \in Ids : i > made' => hidden'[i] = {}
  BY <1>3, <1>4
<1> QED  BY <1>6, <1>7 DEF Shut, Shuts, HasRead

\* The patterns that are written.
LEMMA PatternsShut ==
  ASSUME NEW row \in Row, NEW old \in Pattern, NEW known \in SUBSET Days,
         old # Once, NEW read \in Row, read.pattern = old, Shuts(read, known),
         NEW day \in Days
  PROVE  /\ row.pattern = Excepted(old, day) => Shuts(row, known \cup {day})
         /\ row.pattern = EndedBefore(old, day) =>
              Shuts(row, (known \cup {d \in Days : d >= day})
                           \ Regained(old.end, day - 1))
<1>1. \A d \in known : d \in old.exceptions \/ d > old.end  BY DEF Shuts
<1>2. /\ Excepted(old, day) \in Pattern /\ EndedBefore(old, day) \in Pattern
      /\ Excepted(old, day) # Once /\ EndedBefore(old, day) # Once
  BY MadePatterns, PatternNotOnce
<1>3. /\ Excepted(old, day).exceptions = old.exceptions \cup {day}
      /\ Excepted(old, day).end = old.end
  BY DEF Excepted, Pattern
<1>4. /\ EndedBefore(old, day).exceptions = {e \in old.exceptions : e <= day}
      /\ EndedBefore(old, day).end = day - 1
  BY DEF EndedBefore, Pattern
<1>5. ASSUME row.pattern = Excepted(old, day) PROVE Shuts(row, known \cup {day})
  BY <1>1, <1>2, <1>3, <1>5 DEF Shuts
<1>6. ASSUME row.pattern = EndedBefore(old, day)
      PROVE  Shuts(row, (known \cup {d \in Days : d >= day})
                          \ Regained(old.end, day - 1))
  <2> SUFFICES ASSUME NEW d \in Days,
                      d \in known \/ d >= day, ~(old.end < d /\ d <= day - 1)
               PROVE  (d \in old.exceptions /\ d <= day) \/ d > day - 1
    BY <1>2, <1>4, <1>6 DEF Shuts, Regained
  <2>1. old.end \in Int /\ d \in Int /\ day \in Int
    BY ScheduleAssumption DEF Pattern, Days, Never
  <2> QED  BY <1>1, <2>1
<1> QED  BY <1>5, <1>6

LEMMA PatternsWritten ==
  ASSUME TypeOK, Shut, NEW u \in Users, Recurs(u), NEW row \in Row,
         NEW day \in Days
  PROVE  LET old   == ReadRow(u).pattern
             known == popup[u].known
         IN /\ row.pattern = Excepted(old, day) => Shuts(row, known \cup {day})
            /\ row.pattern = EndedBefore(old, day) =>
                 Shuts(row, (known \cup {d \in Days : d >= day})
                              \ Regained(old.end, day - 1))
BY ReadTypes, RecursTypes, PatternsShut DEF Recurs, ReadRow, Shut

\* A row written by With, and the others.
LEMMA WithRows ==
  ASSUME TypeOK, Shut, NEW u \in Users, HasRead(u), NEW p \in Pattern, NEW new,
         rows' = With(popup[u].id, p, new)
  PROVE  /\ \A i \in Ids \ {popup[u].id} : rows'[i] = rows[i] \/ i = made + 1
         /\ rows'[popup[u].id] # NoRow =>
              rows'[popup[u].id] \in Row /\ rows'[popup[u].id].pattern = p
<1> DEFINE id == popup[u].id
<1>1. id \in Ids /\ id <= made /\ made \in Nat
  BY ReadTypes DEF TypeOK, Shut, HasRead, Idle
<1>2. id # made + 1  BY <1>1 DEF Ids
<1>3. rows[id] # NoRow =>
        /\ [rows[id] EXCEPT !.pattern = p] \in Row
        /\ [rows[id] EXCEPT !.pattern = p].pattern = p
  BY <1>1 DEF TypeOK, Row
<1> QED  BY <1>1, <1>2, <1>3 DEF With

LEMMA SplitShut ==
  ASSUME TypeOK, Shut, NEW u \in Users, NEW to \in Given,
         NEW p \in Pattern \cup {Once}, UpdateFuture(u, to, p)
  PROVE  Shut'
<1> DEFINE day == popup[u].day
           old == ReadRow(u).pattern
           row == rows'[popup[u].id]
<1>1. /\ Recurs(u) /\ HasRead(u) /\ day \in Days /\ old \in Pattern
      /\ made' = made + 1
      /\ Writes(u, {d \in Days : d >= day}, Regained(old.end, day - 1))
      /\ \E new : rows' = With(popup[u].id, EndedBefore(old, day), new)
  BY ReadTypes, RecursTypes DEF UpdateFuture, Split, Recurs, ReadRow
<1>2. EndedBefore(old, day) \in Pattern  BY <1>1, MadePatterns
<1> HIDE DEF day, old
<1>3. /\ \A i \in Ids \ {popup[u].id} : rows'[i] = rows[i] \/ i = made + 1
      /\ row # NoRow => row \in Row /\ row.pattern = EndedBefore(old, day)
  BY <1>1, <1>2, WithRows
<1>4. row # NoRow => Shuts(row, (popup[u].known \cup {d \in Days : d >= day})
                                  \ Regained(old.end, day - 1))
  BY <1>1, <1>3, PatternsWritten DEF old
<1> QED  BY <1>1, <1>3, <1>4, WritesShut

LEMMA SingleShut ==
  ASSUME TypeOK, Shut, NEW u \in Users, NEW to \in Given, UpdateSingle(u, to)
  PROVE  Shut'
<1> DEFINE old == ReadRow(u).pattern
           row == rows'[popup[u].id]
<1>1. /\ Recurs(u) /\ HasRead(u) /\ to \in Days /\ old \in Pattern
      /\ made' = made + 1
      /\ Writes(u, {popup[u].day} \cap {to}, {})
      /\ \E new : rows' = With(popup[u].id, Excepted(old, to), new)
  BY RecursTypes, ScheduleAssumption DEF UpdateSingle, Recurs, ReadRow
<1>2. Excepted(old, to) \in Pattern  BY <1>1, MadePatterns
<1> HIDE DEF old
<1>3. /\ \A i \in Ids \ {popup[u].id} : rows'[i] = rows[i] \/ i = made + 1
      /\ row # NoRow => row \in Row /\ row.pattern = Excepted(old, to)
  BY <1>1, <1>2, WithRows
<1>4. row # NoRow =>
        Shuts(row, (popup[u].known \cup ({popup[u].day} \cap {to})) \ {})
  <2>1. row # NoRow => Shuts(row, popup[u].known \cup {to})
    BY <1>1, <1>3, PatternsWritten DEF old
  <2>2. (popup[u].known \cup ({popup[u].day} \cap {to})) \ {}
          \subseteq popup[u].known \cup {to}
    OBVIOUS
  <2> QED  BY <2>1, <2>2, ShutsFewer
<1> QED  BY <1>1, <1>3, <1>4, WritesShut

LEMMA AllShut ==
  ASSUME TypeOK, Shut, NEW u \in Users, NEW to \in Given,
         NEW p \in Pattern \cup {Once}, UpdateAll(u, to, p)
  PROVE  Shut'
<1> DEFINE id == popup[u].id
           old == ReadRow(u).pattern
           known == popup[u].known
           end == IF p = Once \/ p.end = Never THEN old.end ELSE p.end
           pattern == IF p = Once THEN old
                      ELSE [old EXCEPT !.rule = p.rule, !.end = end]
           r == [start |-> to, pattern |-> pattern]
<1>1. /\ HasRead(u) /\ id \in Ids /\ old \in Pattern /\ old # Once
      /\ known \in SUBSET Days
      /\ made' = made /\ Writes(u, {}, Regained(old.end, end))
      /\ rows' = [rows EXCEPT ![id] = r]
  BY ReadTypes, RecursTypes DEF UpdateAll, Recurs, ReadRow
<1>2. end \in -1 .. Never  BY <1>1 DEF Pattern
<1>3. \A d \in known : d \in old.exceptions \/ d > old.end
  BY <1>1 DEF Shut, Shuts, ReadRow
<1>4. p = Once => end = old.end  OBVIOUS
<1> HIDE DEF end
<1>5. /\ pattern \in Pattern /\ pattern # Once
      /\ pattern.exceptions = old.exceptions /\ pattern.end = end
  <2>1. CASE p = Once  BY <1>1, <1>4, <2>1
  <2>2. CASE p # Once
    <3>1. [old EXCEPT !.rule = p.rule, !.end = end] \in Pattern
      BY <1>1, <1>2, <2>2, AllPattern
    <3> QED  BY <1>1, <2>2, <3>1, PatternNotOnce DEF Pattern
  <2> QED  BY <2>1, <2>2
<1> HIDE DEF pattern
<1>6. Shuts(r, (known \cup {}) \ Regained(old.end, end))
  <2> SUFFICES ASSUME NEW d \in known, ~(old.end < d /\ d <= end)
               PROVE  d \in old.exceptions \/ d > end
    BY <1>1, <1>5 DEF Shuts, Regained
  <2>1. d \in Int /\ old.end \in Int /\ end \in Int
    BY <1>1, <1>2, ScheduleAssumption DEF Pattern, Days, Never
  <2> QED  BY <1>3, <2>1
<1>7. rows'[id] = r /\ \A i \in Ids \ {id} : rows'[i] = rows[i]
  BY <1>1 DEF TypeOK
<1> HIDE DEF r, old, known, id
<1> QED  BY <1>1, <1>6, <1>7, WritesShut DEF id, known

LEMMA UpdateRowShut ==
  ASSUME TypeOK, Shut, NEW u \in Users, NEW to \in Given,
         NEW p \in Pattern \cup {Once}, NEW sent \in BOOLEAN,
         UpdateRow(u, to, p, sent)
  PROVE  Shut'
<1> DEFINE id == popup[u].id
           r == [start |-> to, pattern |-> p]
<1>1. HasRead(u) /\ id \in Ids /\ rows[id] # NoRow /\ made' = made
  BY ReadTypes DEF UpdateRow
<1>2. CASE sent
  <2>1. rows' = [rows EXCEPT ![id] = r] /\ Writes(u, {}, {})
    BY <1>2 DEF UpdateRow
  <2>2. (popup[u].known \cup {}) \ {} = {}
    BY <1>1 DEF UpdateRow, Shut, Shuts, ReadRow
  <2>3. Shuts(r, (popup[u].known \cup {}) \ {})  BY <2>2 DEF Shuts
  <2>4. rows'[id] = r /\ \A i \in Ids \ {id} : rows'[i] = rows[i]
    BY <1>1, <2>1 DEF TypeOK
  <2> HIDE DEF r
  <2> QED  BY <1>1, <2>1, <2>3, <2>4, WritesShut
<1>3. CASE ~sent
  <2>1. rows' = [rows EXCEPT ![id].start = to] /\ Closes(u)
    BY <1>3 DEF UpdateRow
  <2>2. rows[id] \in Row  BY <1>1 DEF TypeOK
  <2>3. \A i \in Ids : /\ rows'[i] # NoRow => rows[i] # NoRow
                       /\ rows'[i].pattern = rows[i].pattern \/ rows[i] = NoRow
    <3>1. rows'[id].pattern = rows[id].pattern
      BY <1>1, <2>1, <2>2 DEF TypeOK, Row
    <3>2. \A i \in Ids \ {id} : rows'[i] = rows[i]
      BY <2>1 DEF TypeOK
    <3> QED  BY <1>1, <3>1, <3>2
  <2>4. \A i \in Ids : rows'[i] # NoRow => Shuts(rows'[i], hidden'[i] \ raced'[i])
    BY <2>1, <2>3 DEF Closes, Shut, Shuts
  <2>5. /\ \A v \in Users : HasRead(v)' => Shuts(popup'[v].row, popup'[v].known)
        /\ \A v \in Users : popup'[v] # Idle => popup'[v].id <= made'
    BY <1>1, <2>1, ClosedShut DEF Closes
  <2>6. \A i \in Ids : i > made' => hidden'[i] = {}
    BY <1>1, <2>1 DEF Closes, Shut
  <2> QED  BY <2>4, <2>5, <2>6 DEF Shut, Shuts, HasRead
<1> QED  BY <1>2, <1>3

LEMMA DeletePatternShut ==
  ASSUME TypeOK, Shut, NEW u \in Users, NEW p \in Pattern,
         NEW takenOut, NEW putBack, DeletePattern(u, p, takenOut, putBack),
         \A row \in Row : row.pattern = p =>
           Shuts(row, (popup[u].known \cup takenOut) \ putBack)
  PROVE  Shut'
<1> DEFINE id == popup[u].id
           r == [rows[id] EXCEPT !.pattern = p]
<1>1. HasRead(u) /\ id \in Ids /\ made' = made /\ Writes(u, takenOut, putBack)
  BY ReadTypes DEF DeletePattern, Recurs
<1>2. /\ rows'[id] # NoRow => rows'[id] \in Row /\ rows'[id].pattern = p
      /\ \A i \in Ids \ {id} : rows'[i] = rows[i]
  <2>1. CASE rows[id] = NoRow
    BY <2>1 DEF DeletePattern
  <2>2. CASE rows[id] # NoRow
    <3>1. rows[id] \in Row  BY <1>1, <2>2 DEF TypeOK
    <3>2. r \in Row /\ r.pattern = p  BY <3>1 DEF Row
    <3>3. rows' = [rows EXCEPT ![id] = r]  BY <2>2 DEF DeletePattern
    <3> HIDE DEF r
    <3> QED  BY <1>1, <3>2, <3>3 DEF TypeOK
  <2> QED  BY <2>1, <2>2
<1> QED  BY <1>1, <1>2, WritesShut

LEMMA DeleteShut ==
  ASSUME TypeOK, Shut, NEW u \in Users, DeleteSingle(u) \/ DeleteFuture(u)
  PROVE  Shut'
<1> DEFINE day == popup[u].day
           old == ReadRow(u).pattern
<1>1. Recurs(u) /\ day \in Days /\ old \in Pattern
  BY Deletions DEF Recurs, ReadRow
<1>2. Excepted(old, day) \in Pattern /\ EndedBefore(old, day) \in Pattern
  BY <1>1, MadePatterns
<1>3. \A row \in Row :
        /\ row.pattern = Excepted(old, day) => Shuts(row, popup[u].known \cup {day})
        /\ row.pattern = EndedBefore(old, day) =>
             Shuts(row, (popup[u].known \cup {d \in Days : d >= day})
                          \ Regained(old.end, day - 1))
  BY <1>1, PatternsWritten
<1>4. CASE DeleteSingle(u)
  <2>1. (popup[u].known \cup {day}) \ {} = popup[u].known \cup {day}  OBVIOUS
  <2>2. DeletePattern(u, Excepted(old, day), {day}, {})
    BY <1>4 DEF DeleteSingle
  <2>3. \A row \in Row : row.pattern = Excepted(old, day) =>
          Shuts(row, (popup[u].known \cup {day}) \ {})
    BY <1>3, <2>1
  <2> HIDE DEF day, old
  <2> QED  BY <1>2, <2>2, <2>3, DeletePatternShut
<1>5. CASE DeleteFuture(u)
  <2>1. DeletePattern(u, EndedBefore(old, day), {d \in Days : d >= day},
                      Regained(old.end, day - 1))
    BY <1>5 DEF DeleteFuture
  <2> HIDE DEF day, old
  <2> QED  BY <1>2, <1>3, <2>1, DeletePatternShut
<1> QED  BY <1>4, <1>5

\* A transaction that changes no row but may delete one.
LEMMA ClosesShut ==
  ASSUME TypeOK, Shut, NEW u \in Users, Closes(u), UNCHANGED made,
         \A i \in Ids : rows'[i] = rows[i] \/ rows'[i] = NoRow
  PROVE  Shut'
<1>1. /\ \A v \in Users : HasRead(v)' => Shuts(popup'[v].row, popup'[v].known)
      /\ \A v \in Users : popup'[v] # Idle => popup'[v].id <= made'
  BY ClosedShut DEF Closes
<1>2. /\ \A i \in Ids : rows'[i] # NoRow => Shuts(rows'[i], hidden'[i] \ raced'[i])
      /\ \A i \in Ids : i > made' => hidden'[i] = {}
  BY DEF Closes, Shut
<1> QED  BY <1>1, <1>2 DEF Shut, Shuts, HasRead

LEMMA CreateShut ==
  ASSUME TypeOK, Shut, NEW start \in Given, NEW p \in Pattern \cup {Once},
         Create(start, p)
  PROVE  Shut'
<1>1. /\ made \in Nat /\ made' = made + 1 /\ UNCHANGED <<opened, popup, hidden, raced>>
      /\ \A i \in Ids : rows'[i] = rows[i] \/ i = made + 1
  BY DEF Create, TypeOK
<1>2. ASSUME NEW i \in Ids, rows'[i] # NoRow
      PROVE  Shuts(rows'[i], hidden'[i] \ raced'[i])
  <2>1. CASE rows'[i] = rows[i]  BY <1>1, <1>2, <2>1 DEF Shut
  <2>2. CASE i = made + 1
    <3>1. hidden'[i] \ raced'[i] = {}  BY <1>1, <2>2 DEF Shut
    <3> QED  BY <3>1 DEF Shuts
  <2> QED  BY <1>1, <2>1, <2>2
<1>3. \A i \in Ids : i > made' => hidden'[i] = {}
  BY <1>1 DEF Shut, Ids
<1>4. \A v \in Users : popup'[v] # Idle => popup'[v].id <= made'
  <2> SUFFICES ASSUME NEW v \in Users, popup[v] # Idle
               PROVE  popup[v].id <= made + 1
    BY <1>1
  <2>1. popup[v].id \in Ids /\ popup[v].id <= made  BY DEF Shut, TypeOK, Popup
  <2> QED  BY <1>1, <2>1 DEF Ids
<1>5. \A v \in Users : HasRead(v)' => Shuts(popup'[v].row, popup'[v].known)
  BY <1>1 DEF Shut, HasRead
<1>6. \A i \in Ids : rows'[i] # NoRow => Shuts(rows'[i], hidden'[i] \ raced'[i])
  BY <1>2
<1> QED  BY <1>3, <1>4, <1>5, <1>6 DEF Shut, Shuts, HasRead

\* A popup is opened, or its transaction begins.
LEMMA OpenReadShut ==
  ASSUME TypeOK, Shut, NEW u \in Users,
         Read(u) \/ \E id \in Ids, day \in Days \cup {NoDay} : Open(u, id, day)
  PROVE  Shut'
<1>1. UNCHANGED <<rows, made, hidden, raced>>  BY DEF Read, Open
<1>2. \A v \in Users \ {u} : popup'[v] = popup[v]  BY DEF Read, Open, TypeOK
<1>3. /\ popup'[u] # Idle => popup'[u].id <= made
      /\ HasRead(u)' => Shuts(popup'[u].row, popup'[u].known)
  <2>1. CASE Read(u)
    <3>1. popup[u] # Idle /\ popup[u].id \in Ids /\ popup[u].id <= made
      BY <2>1 DEF Read, Idle, TypeOK, Popup, Shut
    <3> DEFINE id == popup[u].id
               q == [step |-> "read", id |-> id, day |-> popup[u].day,
                     row |-> rows[id], known |-> hidden[id] \ raced[id]]
    <3>2. popup'[u] = IF rows[id] = NoRow THEN Idle ELSE q
      BY <2>1 DEF Read, TypeOK
    <3>3. CASE rows[id] = NoRow  BY <3>2, <3>3 DEF HasRead, Idle
    <3>4. CASE rows[id] # NoRow
      <4>1. popup'[u].id = id /\ popup'[u].row = rows[id]
            /\ popup'[u].known = hidden[id] \ raced[id]
        BY <3>2, <3>4
      <4> QED  BY <3>1, <3>4, <4>1 DEF Shut
    <3> QED  BY <3>3, <3>4
  <2>2. CASE \E id \in Ids, day \in Days \cup {NoDay} : Open(u, id, day)
    <3>1. PICK id \in Ids, day \in Days \cup {NoDay} : Open(u, id, day)  BY <2>2
    <3>2. popup'[u] = [step |-> "open", id |-> id, day |-> day] /\ rows[id] # NoRow
      BY <3>1 DEF Open, TypeOK
    <3>3. id <= made  BY <3>2 DEF TypeOK, Ids
    <3> QED  BY <3>2, <3>3 DEF HasRead
  <2> QED  BY <2>1, <2>2
<1>4. \A v \in Users : popup'[v] # Idle => popup'[v].id <= made'
  BY <1>1, <1>2, <1>3 DEF Shut
<1>5. \A v \in Users : HasRead(v)' => Shuts(popup'[v].row, popup'[v].known)
  <2> TAKE v \in Users
  <2>1. CASE v = u  BY <2>1, <1>3
  <2>2. CASE v # u  BY <2>2, <1>2 DEF Shut, HasRead
  <2> QED  BY <2>1, <2>2
<1>6. /\ \A i \in Ids : rows'[i] # NoRow => Shuts(rows'[i], hidden'[i] \ raced'[i])
      /\ \A i \in Ids : i > made' => hidden'[i] = {}
  BY <1>1 DEF Shut
<1> QED  BY <1>4, <1>5, <1>6 DEF Shut, Shuts, HasRead

LEMMA ShutStep ==
  ASSUME TypeOK, Shut, [Next]_vars
  PROVE  Shut'
<1>1. CASE \E start \in Given : \E p \in SentPattern(start) \cup {Once} :
             Create(start, p)
  BY <1>1, SentIsPattern, CreateShut
<1>2. ASSUME NEW u \in Users, NEW to \in Given, UpdateSingle(u, to)
      PROVE  Shut'
  BY <1>2, SingleShut
<1>3. ASSUME NEW u \in Users, NEW to \in Given,
             NEW p \in SentPattern(to) \cup {Once}, Update(u, to, p)
      PROVE  Shut'
  <2>1. p \in Pattern \cup {Once}  BY SentIsPattern
  <2> QED  BY <2>1, <1>3, SplitShut, AllShut, UpdateRowShut DEF Update
<1>4. ASSUME NEW u \in Users,
             \/ Read(u)
             \/ \E id \in Ids, day \in Days \cup {NoDay} : Open(u, id, day)
      PROVE  Shut'
  BY <1>4, OpenReadShut
<1>5. ASSUME NEW u \in Users, DeleteSingle(u) \/ DeleteFuture(u) PROVE Shut'
  BY <1>5, DeleteShut
<1>6. ASSUME NEW u \in Users, DeleteRow(u) \/ End(u) PROVE Shut'
  <2>1. \A i \in Ids : rows'[i] = rows[i] \/ rows'[i] = NoRow
    BY <1>6 DEF DeleteRow, End, TypeOK
  <2> QED  BY <1>6, <2>1, ClosesShut DEF DeleteRow, End
<1>7. CASE UNCHANGED vars
  <2>1. UNCHANGED <<rows, made, popup, hidden, raced>>  BY <1>7 DEF vars
  <2>2. /\ \A v \in Users : HasRead(v)' => Shuts(popup'[v].row, popup'[v].known)
        /\ \A v \in Users : popup'[v] # Idle => popup'[v].id <= made'
    BY <2>1 DEF Shut, HasRead
  <2>3. /\ \A i \in Ids : rows'[i] # NoRow => Shuts(rows'[i], hidden'[i] \ raced'[i])
        /\ \A i \in Ids : i > made' => hidden'[i] = {}
    BY <2>1 DEF Shut
  <2> QED  BY <2>2, <2>3 DEF Shut, Shuts, HasRead
<1> QED  BY <1>1, <1>2, <1>3, <1>4, <1>5, <1>6, <1>7 DEF Next

LEMMA ShutAlways == Spec => []Shut
<1>1. Init => Shut  BY DEF Init, Shut, HasRead, Idle
<1>2. Shut /\ TypeOK /\ [Next]_vars => Shut'  BY ShutStep
<1> QED  BY <1>1, <1>2, ScheduleTypes, PTL DEF Spec

\* What users have taken out of a series stays out of it, unless its end is
\* moved or a transaction writes what it had read before.  An occurrence that
\* is given another day is not taken out: its old day goes on being shown.
THEOREM HiddenStays == Spec => []StaysHidden
<1>1. TypeOK /\ Shut => StaysHidden
  <2> SUFFICES ASSUME TypeOK, Shut, NEW id \in Ids,
                      NEW d \in hidden[id] \cap VirtualDays(rows[id]),
                      d \notin raced[id]
               PROVE  FALSE
    BY DEF StaysHidden
  <2>1. /\ rows[id] # NoRow /\ rows[id].pattern # Once
        /\ d \in Occurrences(rows[id].pattern)
        /\ d \notin rows[id].pattern.exceptions
    BY DEF VirtualDays
  <2>2. d \in Days /\ d <= rows[id].pattern.end  BY <2>1 DEF Occurrences
  <2>3. d > rows[id].pattern.end  BY <2>1 DEF Shut, Shuts
  <2>4. rows[id].pattern \in Pattern  BY <2>1 DEF TypeOK, Row
  <2> QED
    BY <2>2, <2>3, <2>4, ScheduleAssumption DEF Pattern, Days, Never
<1> QED  BY <1>1, ScheduleTypes, ShutAlways, PTL

\* A series that is split on the day of an occurrence, by its own rule, shows
\* the same days as before in its two parts.
THEOREM SplitKeeps == Spec => SplitKeepsDays
<1> SUFFICES TypeOK /\ Shut /\ [Next]_vars =>
      (RulesGoOn =>
         \A u \in Users :
           LET id  == popup[u].id
               day == popup[u].day
           IN UpdateFuture(u, day, Once) /\ rows[id] = ReadRow(u)
                  /\ day \in Occurrences(ReadRow(u).pattern)
                  /\ ReadRow(u).start < day
                => VirtualDays(rows'[id]) \cup VirtualDays(rows'[made'])
                     = VirtualDays(rows[id]) \ {day})
  BY ScheduleTypes, ShutAlways, PTL DEF Spec, SplitKeepsDays
<1> SUFFICES ASSUME TypeOK, Shut, RulesGoOn, NEW u \in Users,
                    UpdateFuture(u, popup[u].day, Once),
                    rows[popup[u].id] = ReadRow(u),
                    popup[u].day \in Occurrences(ReadRow(u).pattern),
                    ReadRow(u).start < popup[u].day
             PROVE  VirtualDays(rows'[popup[u].id]) \cup VirtualDays(rows'[made'])
                      = VirtualDays(rows[popup[u].id]) \ {popup[u].day}
  OBVIOUS
<1> DEFINE id == popup[u].id
           day == popup[u].day
           row == rows[id]
           old == row.pattern
           kept == [row EXCEPT !.pattern = EndedBefore(old, day)]
           new == [start |-> day, pattern |-> Rest(old, day, day)]
<1>1. /\ id \in Ids /\ id <= made /\ made \in Nat /\ made < MaxRows
      /\ day \in Days /\ row \in Row /\ old \in Pattern /\ row # NoRow
  <2>1. Recurs(u) /\ HasRead(u) /\ made < MaxRows /\ day # NoDay
    BY DEF UpdateFuture, Split, Recurs
  <2>2. /\ id \in Ids /\ day \in Days /\ row \in Row /\ old \in Pattern
    BY <2>1, ReadTypes, RecursTypes DEF ReadRow
  <2> QED  BY <2>1, <2>2, RowNotNoRow DEF TypeOK, Shut, HasRead, Idle
<1>2. /\ rows' = With(id, EndedBefore(old, day), new) /\ made' = made + 1
  BY DEF UpdateFuture, Split, ReadRow
<1>3. rows'[id] = kept /\ rows'[made'] = new
  <2>1. id # made + 1 /\ made + 1 \in Ids
    BY <1>1, ScheduleAssumption DEF Ids
  <2> QED  BY <1>1, <1>2, <2>1 DEF With
<1>4. /\ EndedBefore(old, day) \in Pattern /\ Rest(old, day, day) \in Pattern
      /\ EndedBefore(old, day) # Once /\ Rest(old, day, day) # Once /\ old # Once
  BY <1>1, MadePatterns, PatternNotOnce
<1>5. kept \in Row /\ new \in Row  BY <1>1, <1>4 DEF Row
<1>6. /\ kept # NoRow /\ new # NoRow
      /\ kept.start = row.start /\ kept.pattern = EndedBefore(old, day)
      /\ new.start = day /\ new.pattern = Rest(old, day, day)
  BY <1>1, <1>5, RowNotNoRow DEF Row
<1>7. /\ EndedBefore(old, day).rule = old.rule /\ EndedBefore(old, day).start = old.start
      /\ EndedBefore(old, day).end = day - 1
      /\ EndedBefore(old, day).exceptions = {e \in old.exceptions : e <= day}
  BY <1>1 DEF EndedBefore, Pattern
<1>8. /\ Rest(old, day, day).rule = old.rule /\ Rest(old, day, day).start = day
      /\ Rest(old, day, day).end = old.end
      /\ Rest(old, day, day).exceptions = {e \in old.exceptions : e > day}
  BY <1>1 DEF Rest, Pattern
<1>9. ASSUME NEW d \in Days
      PROVE  /\ d \in VirtualDays(kept) <=>
                  /\ OnRule(old.rule, old.start, d) /\ d <= day - 1
                  /\ ~(d \in old.exceptions /\ d <= day) /\ d # row.start
             /\ d \in VirtualDays(new) <=>
                  /\ OnRule(old.rule, day, d) /\ d <= old.end
                  /\ ~(d \in old.exceptions /\ d > day) /\ d # day
             /\ d \in VirtualDays(row) <=>
                  /\ OnRule(old.rule, old.start, d) /\ d <= old.end
                  /\ d \notin old.exceptions /\ d # row.start
  <2> HIDE DEF kept, new
  <2>1. d \in VirtualDays(kept) <=>
          /\ OnRule(old.rule, old.start, d) /\ d <= day - 1
          /\ ~(d \in old.exceptions /\ d <= day) /\ d # row.start
    BY <1>4, <1>6, <1>7 DEF VirtualDays, Occurrences
  <2>2. d \in VirtualDays(new) <=>
          /\ OnRule(old.rule, day, d) /\ d <= old.end
          /\ ~(d \in old.exceptions /\ d > day) /\ d # day
    BY <1>4, <1>6, <1>8 DEF VirtualDays, Occurrences
  <2>3. d \in VirtualDays(row) <=>
          /\ OnRule(old.rule, old.start, d) /\ d <= old.end
          /\ d \notin old.exceptions /\ d # row.start
    BY <1>1, <1>4 DEF VirtualDays, Occurrences
  <2> QED  BY <2>1, <2>2, <2>3
<1>10. /\ OnRule(old.rule, old.start, day) /\ day <= old.end /\ row.start < day
       /\ old.rule \in Rules /\ old.start \in Days
       /\ old.end \in Int /\ day \in Int /\ row.start \in Int
  BY <1>1, ScheduleAssumption DEF Occurrences, ReadRow, Pattern, Row, Days, Never
<1>11. ASSUME NEW d \in Days
       PROVE  d \in VirtualDays(kept) \cup VirtualDays(new)
                <=> d \in VirtualDays(row) \ {day}
  <2>1. d \in Int  BY DEF Days
  <2>2. day <= d => (OnRule(old.rule, day, d) <=> OnRule(old.rule, old.start, d))
    BY <1>1, <1>10 DEF RulesGoOn
  <2>3. OnRule(old.rule, day, d) => day <= d
    BY <1>1, <1>10, ScheduleAssumption
  <2> HIDE DEF kept, new, row, old, day
  <2> QED  BY <1>9, <1>10, <2>1, <2>2, <2>3
<1>12. /\ VirtualDays(kept) \subseteq Days /\ VirtualDays(new) \subseteq Days
       /\ VirtualDays(row) \subseteq Days
  BY DEF VirtualDays, Occurrences
<1> HIDE DEF kept, new, row
<1> QED  BY <1>3, <1>11, <1>12 DEF row

=================================================================================
