------------------------------ MODULE TimeSheets ------------------------------
(***************************************************************************)
(* One time sheet and its time entries, from the draft to the approval.     *)
(* Every handler is one database transaction.  A page that is out of date   *)
(* may call any of them: what a handler does not check is not checked.      *)
(***************************************************************************)
EXTENDS Integers

CONSTANTS
  Entries,    \* the ids of time entries
  EntryTimes, \* when work may begin; an entry lasts one unit
  Decisions   \* the statuses that pages send with an entry

Status == {"DRAFT", "SUBMITTED", "APPROVED", "CHANGES_REQUESTED"}

ASSUME EntriesAssumption ==
  EntryTimes \subseteq Nat /\ Decisions \subseteq Status

VARIABLES
  sheet,  \* time_sheets.approval_status
  entry   \* time_entries

sheetvars == <<sheet, entry>>

-----------------------------------------------------------------------------
(* Types *)

\* "NEW": not inserted yet.
Entry == [start : Nat, status : Status \cup {"NEW", "DELETED"}]

SheetTypeOK == sheet \in Status /\ entry \in [Entries -> Entry]

-----------------------------------------------------------------------------
(* Helpers *)

Live     == {e \in Entries : entry[e].status \in Status}
EndOf(e) == entry[e].start + 1

\* The entries with invoiced = true: the column is read and cleared, and no
\* statement of the program sets it.
MarkedInvoiced == {}

SetStatus(s) ==
  entry' = [e \in Entries |->
              IF e \in Live THEN [entry[e] EXCEPT !.status = s] ELSE entry[e]]

-----------------------------------------------------------------------------
(* Actions *)

\* The times and the status are those the page sends: DRAFT from the sheet,
\* the approver's decision from the approval page.  A deleted entry cannot be
\* updated.
SaveTimeEntry(e, t, s) ==
  /\ entry[e].status = "NEW" => s = "DRAFT"
  /\ entry[e].status # "DELETED"
  /\ entry' = [entry EXCEPT ![e] = [start |-> t, status |-> s]]
  /\ UNCHANGED sheet

DeleteTimeEntry(e) ==
  /\ e \in Live
  /\ entry' = [entry EXCEPT ![e] = [start |-> 0, status |-> "DELETED"]]
  /\ UNCHANGED sheet

SubmitTimeSheet  == sheet' = "SUBMITTED" /\ SetStatus("SUBMITTED")
ApproveTimeSheet == sheet' = "APPROVED" /\ SetStatus("APPROVED")

BulkApproveTimeSheets == sheet = "SUBMITTED" /\ ApproveTimeSheet

\* The entries keep their status.
RequestChangesForTimeSheet ==
  /\ sheet' = "CHANGES_REQUESTED"
  /\ UNCHANGED entry

ReverseTimeSheetApproval ==
  /\ sheet = "APPROVED"
  /\ Live \cap MarkedInvoiced = {}
  /\ sheet' = "SUBMITTED" /\ SetStatus("SUBMITTED")

SheetInit ==
  /\ sheet = "DRAFT"
  /\ entry = [e \in Entries |-> [start |-> 0, status |-> "NEW"]]

SheetStep ==
  \/ \E e \in Entries :
       \/ \E t \in EntryTimes, s \in Decisions :
            SaveTimeEntry(e, t, s)
       \/ DeleteTimeEntry(e)
  \/ SubmitTimeSheet \/ ApproveTimeSheet \/ BulkApproveTimeSheets
  \/ RequestChangesForTimeSheet \/ ReverseTimeSheetApproval
================================================================================
