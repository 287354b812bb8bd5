------------------------------- MODULE Checkin -------------------------------
(***************************************************************************)
(* The attendee rows of the events of one organisation and the door: QR    *)
(* and manual scans, the undo of a mis-scan, and the scan log.             *)
(*                                                                         *)
(* A scan or an undo is one transaction on the locked attendee row.  The   *)
(* corrections of an organiser and the attendee's own cancellation take no *)
(* lock: they read the row and later Save it whole.                        *)
(***************************************************************************)
EXTENDS Integers, Sequences

CONSTANTS
    Staff,      \* requests of door staff
    Editors,    \* requests that edit attendee rows
    Attendees,  \* attendee ids
    Events,     \* event ids
    NoEvent,    \* event of a row that does not exist
    MaxLog      \* bound: logged attempts per attendee

ASSUME CheckinAssumption == NoEvent \notin Events /\ MaxLog \in Nat

VARIABLES
    attendees,      \* the attendees table
    log,            \* log[a]: outcomes of checkin_logs for a, oldest first
    op,             \* op[r]: the handler request r is in, between read and write
    attendeeCopy    \* attendeeCopy[r][a]: the row of a that r is about to save

checkinVars == <<attendees, log, op, attendeeCopy>>

Requests == Staff \cup Editors

AttendeeStatus == {"REGISTERED", "CHECKED_IN", "CANCELLED"}

\* checked_in_at is written with the status in every write and left out;
\* owned: the row belongs to a user account.
AttendeeRow == [status: AttendeeStatus \cup {"NONE"}, event: Events \cup {NoEvent},
                owned: BOOLEAN]

NoAttendee == [status |-> "NONE", event |-> NoEvent, owned |-> FALSE]

Outcome == {"CHECKED_IN", "ALREADY_CHECKED_IN", "INVALID_CODE", "CANCELLED",
            "WRONG_EVENT", "REVERTED"}

Idle(r) == op[r] = "idle"

GetAttendeeByID(a) == attendees[a] # NoAttendee

UpdateAttendee(a, row) == attendees' = [attendees EXCEPT ![a] = row]

LogAndAudit(a, outcome) ==
    /\ Len(log[a]) < MaxLog
    /\ log' = [log EXCEPT ![a] = Append(@, outcome)]

(***************************************************************************)
(* Rows appear                                                             *)
(***************************************************************************)
Register(a, ev, owned) ==
    /\ attendees[a] = NoAttendee
    /\ UpdateAttendee(a, [status |-> "REGISTERED", event |-> ev, owned |-> owned])
    /\ UNCHANGED <<log, op, attendeeCopy>>

\* A confirmed order mints its rows for the buyer (module Orders).
MintForOrder(a, ev) == Register(a, ev, TRUE)

AddManual(r, a, ev) == Idle(r) /\ Register(a, ev, FALSE)

(***************************************************************************)
(* The door                                                                *)
(***************************************************************************)
\* A payload that fails its HMAC names no attendee and logs a row nothing
\* reads; tokenOK is FALSE for a signed payload with another token.
VerdictOutcome(row, ev, tokenOK) ==
    IF ~tokenOK THEN "INVALID_CODE"
    ELSE IF row.event # ev THEN "WRONG_EVENT"
    ELSE IF row.status = "REGISTERED" THEN "CHECKED_IN"
    ELSE IF row.status = "CHECKED_IN" THEN "ALREADY_CHECKED_IN"
    ELSE "CANCELLED"

\* Mutant: any genuine code for this event flips the row again.
ApplyCheckinTwice(a, ev, tokenOK) ==
    LET outcome == IF tokenOK /\ attendees[a].event = ev
                   THEN "CHECKED_IN" ELSE VerdictOutcome(attendees[a], ev, tokenOK) IN
    /\ UpdateAttendee(a, [attendees[a] EXCEPT
            !.status = IF outcome = "CHECKED_IN" THEN "CHECKED_IN" ELSE @])
    /\ LogAndAudit(a, outcome)

ApplyCheckin(a, ev, tokenOK) ==
    LET outcome == VerdictOutcome(attendees[a], ev, tokenOK) IN
    /\ UpdateAttendee(a, [attendees[a] EXCEPT
            !.status = IF outcome = "CHECKED_IN" THEN "CHECKED_IN" ELSE @])
    /\ LogAndAudit(a, outcome)

\* Scan by code; a roster id (ApplyCheckinManual) counts as tokenOK.
Scan(r, a, ev, tokenOK) ==
    /\ Idle(r)
    /\ GetAttendeeByID(a)
    /\ ApplyCheckin(a, ev, tokenOK)
    /\ UNCHANGED <<op, attendeeCopy>>

\* Mutant: the undo is not logged.
RevertCheckinUnlogged(r, a, ev) ==
    /\ Idle(r)
    /\ attendees[a].event = ev
    /\ attendees[a].status = "CHECKED_IN"
    /\ UpdateAttendee(a, [attendees[a] EXCEPT !.status = "REGISTERED"])
    /\ UNCHANGED <<log, op, attendeeCopy>>

\* The undo; a refusal rolls the transaction back and logs nothing.
RevertCheckin(r, a, ev) ==
    /\ Idle(r)
    /\ attendees[a].event = ev
    /\ attendees[a].status = "CHECKED_IN"
    /\ UpdateAttendee(a, [attendees[a] EXCEPT !.status = "REGISTERED"])
    /\ LogAndAudit(a, "REVERTED")
    /\ UNCHANGED <<op, attendeeCopy>>

(***************************************************************************)
(* Edits: read, then Save                                                  *)
(***************************************************************************)
HoldAttendee(r, a, row) ==
    /\ Idle(r)
    /\ op' = [op EXCEPT ![r] = "saveAttendee"]
    /\ attendeeCopy' = [attendeeCopy EXCEPT ![r][a] = row]
    /\ UNCHANGED <<attendees, log>>

\* Name and e-mail are left out; what matters is the Save that follows.
CorrectName(r, a) == GetAttendeeByID(a) /\ HoldAttendee(r, a, attendees[a])

CancelMine(r, a) ==
    /\ attendees[a].owned
    /\ attendees[a].status = "REGISTERED"
    /\ HoldAttendee(r, a, [attendees[a] EXCEPT !.status = "CANCELLED"])

SaveAttendee(r) ==
    /\ op[r] = "saveAttendee"
    /\ \E a \in Attendees :
        /\ attendeeCopy[r][a] # NoAttendee
        /\ UpdateAttendee(a, attendeeCopy[r][a])
    /\ op' = [op EXCEPT ![r] = "idle"]
    /\ attendeeCopy' = [attendeeCopy EXCEPT ![r] = [a \in Attendees |-> NoAttendee]]
    /\ UNCHANGED log

-----------------------------------------------------------------------------
CheckinInit ==
    /\ attendees = [a \in Attendees |-> NoAttendee]
    /\ log = [a \in Attendees |-> <<>>]
    /\ op = [r \in Requests |-> "idle"]
    /\ attendeeCopy = [r \in Requests |-> [a \in Attendees |-> NoAttendee]]

CheckinNext ==
    \/ \E a \in Attendees, ev \in Events : MintForOrder(a, ev)
    \/ \E r \in Staff, a \in Attendees, ev \in Events :
        \/ AddManual(r, a, ev)
        \/ \E tokenOK \in BOOLEAN : Scan(r, a, ev, tokenOK)
    \/ \E r \in Editors :
        \/ \E a \in Attendees : CorrectName(r, a) \/ CancelMine(r, a)
        \/ SaveAttendee(r)

(***************************************************************************)
(* The row and the log tell the same story: an attendee counts as inside   *)
(* exactly when the last admission in the log was not undone.              *)
(***************************************************************************)
Admitted(a) ==
    \E i \in DOMAIN log[a] :
        /\ log[a][i] = "CHECKED_IN"
        /\ \A j \in DOMAIN log[a] : j > i => log[a][j] # "REVERTED"

DoorAgreesWithLog ==
    \A a \in Attendees : attendees[a].status = "CHECKED_IN" <=> Admitted(a)

\* "exactly one lands fresh, the rest report ALREADY_CHECKED_IN" (checkin
\* README): two admissions of one attendee have an undo between them.
OneFreshScan ==
    \A a \in Attendees : \A i, j \in DOMAIN log[a] :
        i < j /\ log[a][i] = "CHECKED_IN" /\ log[a][j] = "CHECKED_IN" =>
            \E k \in i..j : log[a][k] = "REVERTED"
=============================================================================
