---------------------------- MODULE ScheduleEntries ----------------------------
(***************************************************************************)
(* The schedule entries of a calendar.  A recurring entry is one row with a  *)
(* pattern; its other occurrences are computed from it when the calendar is *)
(* shown.  An update or a deletion is for one occurrence, for it and those  *)
(* after it, or for all.  Its transaction reads the row and writes back a   *)
(* pattern made from what it has read, with nothing locked in between; and  *)
(* the page it comes from may be out of date.                               *)
(*                                                                         *)
(* Time is counted in days: an entry begins after the midnight its          *)
(* exceptions are compared by, and ends on the same day.  The calendar      *)
(* shows all Days.  Rule stands for the frequency, the interval, the        *)
(* weekdays and the number of occurrences of a pattern.                     *)
(*                                                                         *)
(* An operator marked "Variant" is wrong on purpose: a run with it in the   *)
(* place of the definition that follows must find a property violated.      *)
(***************************************************************************)
EXTENDS Integers

CONSTANTS
  Users,           \* popups that are open at once
  Rules,           \* what a pattern repeats by
  OnRule(_, _, _), \* whether the rule, from a first day, comes to a day
  Holidays,        \* the days the popup excepts from a daily pattern
  MaxDay,          \* bounds the calendar
  Given,           \* bounds the days that a popup gives an entry or a series
  MaxOpened,       \* bounds the number of popups ever opened for an event
  MaxRows          \* bounds the number of rows ever inserted

Days  == 0 .. MaxDay
Never == MaxDay + 1  \* no end date

ASSUME ScheduleAssumption ==
  /\ MaxDay \in Nat /\ MaxRows \in Nat /\ MaxOpened \in Nat
  /\ Holidays \subseteq Days /\ Given \subseteq Days
  /\ \A r \in Rules, s \in Days, d \in Days :
       OnRule(r, s, d) \in BOOLEAN /\ (OnRule(r, s, d) => s <= d)

VARIABLES
  rows,   \* schedule_entries
  made,   \* the number of rows inserted so far; a row's id
  opened, \* the number of popups opened for an event so far
  popup,  \* the event a user's popup is about, and what its transaction read
  hidden, \* history: the days of a series that users have taken out of it; not
          \* the day of an occurrence that was given another
  raced   \* history: those of them that a transaction did not know of when it
          \* wrote the pattern

vars == <<rows, made, opened, popup, hidden, raced>>

-----------------------------------------------------------------------------
(* Types *)

Ids   == 1 .. MaxRows
NoRow == [start |-> -1]
Once  == [rule |-> "none"]  \* no recurrence_pattern
NoDay == -1                 \* the event is the row itself

Pattern == [rule : Rules, start : Days, end : -1 .. Never,
            exceptions : SUBSET Days]
Row     == [start : Days, pattern : Pattern \cup {Once}]

Idle  == [step |-> "idle"]
Popup == [step : {"open"}, id : Ids, day : Days \cup {NoDay}]
         \cup [step : {"read"}, id : Ids, day : Days \cup {NoDay},
               row : Row, known : SUBSET Days]

TypeOK ==
  /\ made \in 0 .. MaxRows /\ opened \in 0 .. MaxOpened
  /\ rows \in [Ids -> Row \cup {NoRow}]
  /\ \A i \in Ids : i > made => rows[i] = NoRow
  /\ popup \in [Users -> {Idle} \cup Popup]
  /\ hidden \in [Ids -> SUBSET Days] /\ raced \in [Ids -> SUBSET Days]

-----------------------------------------------------------------------------
(* Helpers *)

Occurrences(p) == {d \in Days : OnRule(p.rule, p.start, d) /\ d <= p.end}

\* The virtual entries of a row: without the day the row itself is shown on.
VirtualDays(row) ==
  IF row = NoRow \/ row.pattern = Once THEN {}
  ELSE Occurrences(row.pattern) \ (row.pattern.exceptions \cup {row.start})

Excepted(p, d) == [p EXCEPT !.exceptions = @ \cup {d}]

EndedBefore(p, d) == [p EXCEPT !.end = d - 1, !.exceptions = {e \in @ : e <= d}]

\* Variant: the new series starts afresh, as with a pattern of the popup.
RestAfresh(p, d, to) == [p EXCEPT !.start = to, !.exceptions = {}]

\* What remains of a pattern after a day, now beginning on another.
Rest(p, d, to) == [p EXCEPT !.start = to, !.exceptions = {e \in @ : e > d}]

\* The days a series gains when its end moves from one day to another.
Regained(from, to) == {d \in Days : from < d /\ d <= to}

\* A pattern as the popup sends it: with the first day it was given, and the
\* holidays, or without exceptions.
SentPattern(start) ==
  [rule : Rules, start : Given, end : {d \in Given : d > start} \cup {Never},
   exceptions : {{}, Holidays}]

\* What the popups that are open have read stays what it is; the transaction
\* of u ends, and it has written the pattern of a row.
Writes(u, takenOut, putBack) ==
  LET id == popup[u].id IN
  /\ UNCHANGED opened
  /\ popup' = [popup EXCEPT ![u] = Idle]
  /\ hidden' = [hidden EXCEPT ![id] = (@ \cup takenOut) \ putBack]
  /\ raced'  = [raced EXCEPT ![id] =
                  (@ \cup (hidden[id] \ popup[u].known)) \ takenOut]

Closes(u) ==
  popup' = [popup EXCEPT ![u] = Idle] /\ UNCHANGED <<opened, hidden, raced>>

\* The rows when p is written to the row of id, if it is still there, and a
\* new row is inserted.
With(id, p, new) ==
  [i \in Ids |-> IF i = made + 1 THEN new
                 ELSE IF i = id /\ rows[i] # NoRow
                      THEN [rows[i] EXCEPT !.pattern = p] ELSE rows[i]]

-----------------------------------------------------------------------------
(* Actions *)

Create(start, p) ==
  /\ made < MaxRows
  /\ rows' = [rows EXCEPT ![made + 1] = [start |-> start, pattern |-> p]]
  /\ made' = made + 1
  /\ UNCHANGED <<opened, popup, hidden, raced>>

\* The calendar is fetched, and a popup opened for one of its events.
Open(u, id, day) ==
  /\ popup[u] = Idle /\ opened < MaxOpened
  /\ opened' = opened + 1
  /\ rows[id] # NoRow
  /\ day \in VirtualDays(rows[id]) \cup {NoDay}
  /\ popup' = [popup EXCEPT ![u] = [step |-> "open", id |-> id, day |-> day]]
  /\ UNCHANGED <<rows, made, hidden, raced>>

\* The transaction begins: it reads the row, if it is still there.
Read(u) ==
  LET id == popup[u].id IN
  /\ popup[u].step = "open"
  /\ popup' = [popup EXCEPT ![u] =
       IF rows[id] = NoRow THEN Idle
       ELSE [step |-> "read", id |-> id, day |-> popup[u].day,
             row |-> rows[id], known |-> hidden[id] \ raced[id]]]
  /\ UNCHANGED <<rows, made, opened, hidden, raced>>

HasRead(u)  == popup[u].step = "read"
Recurs(u)   == HasRead(u) /\ popup[u].row.pattern # Once
ReadRow(u)  == popup[u].row

\* The occurrence is replaced by an entry of its own, on the day it is given
\* now.  The exception is for that day: an occurrence that is given another day
\* stays in the series on its own.
UpdateSingle(u, to) ==
  /\ Recurs(u)
  /\ made < MaxRows
  /\ made' = made + 1
  /\ rows' = With(popup[u].id, Excepted(ReadRow(u).pattern, to),
                  [start |-> to, pattern |-> Once])
  /\ Writes(u, {popup[u].day} \cap {to}, {})

\* The series ends the day before, and a new one begins: with the pattern of
\* the popup and no exceptions, or else with what remains of the old one.
Split(u, to, p) ==
  /\ made < MaxRows
  /\ made' = made + 1
  /\ LET day == popup[u].day
         old == ReadRow(u).pattern
     IN rows' = With(popup[u].id, EndedBefore(old, day),
          [start |-> to,
           pattern |-> IF p = Once THEN Rest(old, day, to)
                       ELSE [p EXCEPT !.start = to, !.exceptions = {}]])
  /\ Writes(u, {d \in Days : d >= popup[u].day},
            Regained(ReadRow(u).pattern.end, popup[u].day - 1))

\* Variant: the event may be the row itself.
SplitRecurring(u, to, p) == Recurs(u) /\ Split(u, to, p)

\* It is refused for the row itself.
UpdateFuture(u, to, p) ==
  Recurs(u) /\ popup[u].day # NoDay /\ Split(u, to, p)

\* Variant: the series starts afresh, as it does when it is split.
UpdateAllAfresh(u, to, p) ==
  /\ Recurs(u) /\ rows[popup[u].id] # NoRow /\ p # Once
  /\ rows' = [rows EXCEPT ![popup[u].id] =
       [start |-> to, pattern |-> [p EXCEPT !.exceptions = {}]]]
  /\ Writes(u, {}, {})
  /\ UNCHANGED made

\* The row takes the day the popup gives it.  Its pattern keeps its first day
\* and its exceptions, and also its end if the popup has none; without one in
\* the popup it stays as it is.
UpdateAll(u, to, p) ==
  LET id  == popup[u].id
      old == ReadRow(u).pattern
      end == IF p = Once \/ p.end = Never THEN old.end ELSE p.end
  IN
  /\ Recurs(u)
  /\ rows[id] # NoRow
  /\ rows' = [rows EXCEPT ![id] =
       [start |-> to,
        pattern |-> IF p = Once THEN old
                    ELSE [old EXCEPT !.rule = p.rule, !.end = end]]]
  /\ Writes(u, {}, Regained(old.end, end))
  /\ UNCHANGED made

\* A row that did not recur; some pages send no pattern at all.
UpdateRow(u, to, p, sent) ==
  LET id == popup[u].id IN
  /\ HasRead(u) /\ ReadRow(u).pattern = Once /\ popup[u].day = NoDay
  /\ rows[id] # NoRow
  /\ IF sent
     THEN /\ rows' = [rows EXCEPT ![id] = [start |-> to, pattern |-> p]]
          /\ Writes(u, {}, {})
     ELSE rows' = [rows EXCEPT ![id].start = to] /\ Closes(u)
  /\ UNCHANGED made

DeletePattern(u, p, takenOut, putBack) ==
  LET id == popup[u].id IN
  /\ Recurs(u) /\ popup[u].day # NoDay
  /\ rows' = IF rows[id] = NoRow THEN rows ELSE [rows EXCEPT ![id].pattern = p]
  /\ Writes(u, takenOut, putBack)
  /\ UNCHANGED made

DeleteSingle(u) ==
  DeletePattern(u, Excepted(ReadRow(u).pattern, popup[u].day),
                {popup[u].day}, {})

DeleteFuture(u) ==
  DeletePattern(u, EndedBefore(ReadRow(u).pattern, popup[u].day),
                {d \in Days : d >= popup[u].day},
                Regained(ReadRow(u).pattern.end, popup[u].day - 1))

\* The whole series; and whatever is asked for the row itself.
DeleteRow(u) ==
  /\ HasRead(u) /\ (popup[u].day = NoDay \/ ReadRow(u).pattern # Once)
  /\ rows' = [rows EXCEPT ![popup[u].id] = NoRow]
  /\ Closes(u)
  /\ UNCHANGED made

\* The popup is closed, or its transaction fails.
End(u) == popup[u] # Idle /\ Closes(u) /\ UNCHANGED <<rows, made>>

Init ==
  /\ rows = [i \in Ids |-> NoRow] /\ made = 0 /\ opened = 0
  /\ popup = [u \in Users |-> Idle]
  /\ hidden = [i \in Ids |-> {}] /\ raced = [i \in Ids |-> {}]

Update(u, to, p) ==
  \/ UpdateFuture(u, to, p) \/ UpdateAll(u, to, p)
  \/ \E sent \in BOOLEAN : UpdateRow(u, to, p, sent)

Next ==
  \/ \E start \in Given : \E p \in SentPattern(start) \cup {Once} :
       Create(start, p)
  \/ \E u \in Users :
       \/ \E id \in Ids, day \in Days \cup {NoDay} : Open(u, id, day)
       \/ Read(u)
       \/ \E to \in Given :
            \/ UpdateSingle(u, to)
            \/ \E p \in SentPattern(to) \cup {Once} : Update(u, to, p)
       \/ DeleteSingle(u) \/ DeleteFuture(u) \/ DeleteRow(u)
       \/ End(u)

Spec == Init /\ [][Next]_vars

-----------------------------------------------------------------------------
(* Properties *)

\* A day that a user has taken out of a series - by deleting the occurrence,
\* giving it an entry of its own on the same day, ending the series before it,
\* or splitting it there - is not shown in it again, until someone gives the
\* series a later end (as an out-of-date page does that ends it before a day it
\* no longer has), unless the transaction that brought it back had read the row
\* before.  So a page that is out of date brings no day back, whatever is done
\* with it, when its transaction begins after the day was taken out.  An
\* occurrence that is given another day is not taken out: the series goes on to
\* show its old day (README, section 5).
StaysHidden ==
  \A id \in Ids : hidden[id] \cap VirtualDays(rows[id]) \subseteq raced[id]

\* The rules without a number of occurrences: from one of its days on, a rule
\* goes on as from its first.
RulesGoOn ==
  \A r \in Rules, s \in Days, d \in Days, e \in Days :
    OnRule(r, s, d) /\ d <= e => (OnRule(r, d, e) <=> OnRule(r, s, e))

\* Splitting a series that nobody else has changed, without another pattern and
\* on the day of an occurrence after the row's own, neither loses nor adds
\* another day: the rest of it is shown by the old row or the new one ("This
\* and future events").
SplitKeepsDays ==
  [][RulesGoOn =>
       \A u \in Users :
         LET id  == popup[u].id
             day == popup[u].day
         IN UpdateFuture(u, day, Once) /\ rows[id] = ReadRow(u)
                /\ day \in Occurrences(ReadRow(u).pattern)
                /\ ReadRow(u).start < day
              => VirtualDays(rows'[id]) \cup VirtualDays(rows'[made'])
                   = VirtualDays(rows[id]) \ {day}]_vars

================================================================================
