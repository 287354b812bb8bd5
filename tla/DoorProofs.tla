------------------------------ MODULE DoorProofs ------------------------------
(***************************************************************************)
(* The door for any number of staff, editors, attendees, events, kits and  *)
(* handouts: one active handout per attendee and kit, every handout in the *)
(* scope of a kit of the attendee's event, and stock kept.  Last come the  *)
(* results that need fewer overlaps: admissions without concurrent edits,  *)
(* and the log and the holders when requests do not overlap.               *)
(*                                                                         *)
(* CreateKit and Collect decide on rows they read before their             *)
(* transaction and an edit saves a row read earlier, so the invariant also *)
(* says what requests in flight hold.                                      *)
(***************************************************************************)
EXTENDS Kits, FiniteSetTheorems, TLAPS

\* A handout that exists names a kit and an attendee.
RealHandout(x) == x.kit \in KitIds /\ x.attendee \in Attendees /\ x.status \in CollectionStatus

HandoutsReal == \A h \in HandoutIds : handouts[h] = NoHandout \/ RealHandout(handouts[h])

\* An edit holds a row of an attendee that exists, with the attendee's event.
CopiesInEvent ==
    \A r \in Requests, a \in Attendees :
        attendeeCopy[r][a] # NoAttendee =>
            /\ attendees[a] # NoAttendee
            /\ attendeeCopy[r][a].event = attendees[a].event

\* A handout in preparation is for an attendee of the event in its path.
CollectsInEvent ==
    \A r \in Requests : op[r] = "collect" =>
        /\ RealHandout(request[r].handout)
        /\ request[r].kit = request[r].handout.kit
        /\ request[r].event \in Events
        /\ attendees[request[r].handout.attendee].event = request[r].event

\* A kit in preparation has an id that no kit and no other such request has.
CreatesFresh ==
    \A r \in Requests : op[r] = "createKit" =>
        /\ request[r].kit \in KitIds
        /\ request[r].row.event \in Events
        /\ kits[request[r].kit] = NoKitRow
        /\ \A v \in Requests : op[v] = "createKit" /\ request[v].kit = request[r].kit => v = r

\* A row exists exactly when it has an event.
RowsHaveEvents ==
    /\ \A a \in Attendees : attendees[a] # NoAttendee => attendees[a].event \in Events
    /\ \A k \in KitIds : kits[k] # NoKitRow => kits[k].event \in Events

DoorInv ==
    /\ TypeOK /\ HandoutsReal /\ CopiesInEvent /\ CollectsInEvent /\ CreatesFresh /\ RowsHaveEvents
    /\ OneHandoutEach /\ HandoutsInScope

(***************************************************************************)
(* Types                                                                   *)
(***************************************************************************)
\* The empty rows have the shape of rows.
LEMMA EmptyRows ==
    /\ NoAttendee \in AttendeeRow /\ NoKitRow \in KitRow /\ NoHandout \in HandoutRow
    /\ NoRequest \in [kit: KitIds \cup {NoKit}, row: KitRow,
                      handout: HandoutRow, event: Events \cup {NoEvent}]
  BY DEF NoAttendee, AttendeeRow, NoKitRow, KitRow, NoHandout, HandoutRow, NoRequest

\* A scan's verdict is an outcome.
LEMMA VerdictTyped ==
    ASSUME NEW row, NEW ev, NEW ok
    PROVE  VerdictOutcome(row, ev, ok) \in Outcome
  BY DEF VerdictOutcome, Outcome

\* Initially every table is empty and nobody is at work.
LEMMA TypeInit == Init => TypeOK
<1> SUFFICES ASSUME Init PROVE TypeOK
  OBVIOUS
<1>1. log \in [Attendees -> Seq(Outcome)]
  BY DEF Init, CheckinInit
<1>2. QED
  BY <1>1, EmptyRows DEF Init, CheckinInit, TypeOK

\* A row appears, at the mint of an order or by hand.
LEMMA TypeRegister ==
    ASSUME TypeOK, NEW a \in Attendees, NEW ev \in Events, NEW owned \in BOOLEAN,
           Register(a, ev, owned), UNCHANGED kitVars
    PROVE  TypeOK'
  BY DEF Register, UpdateAttendee, AttendeeRow, AttendeeStatus, TypeOK, kitVars

\* The log grows by one outcome.
LEMMA TypeLog ==
    ASSUME TypeOK, NEW a \in Attendees, NEW x \in Outcome, LogAndAudit(a, x)
    PROVE  log' \in [Attendees -> Seq(Outcome)]
<1>1. log \in [Attendees -> Seq(Outcome)]
  BY DEF TypeOK
<1>2. Append(log[a], x) \in Seq(Outcome)
  BY <1>1
<1>3. QED
  BY <1>1, <1>2 DEF LogAndAudit

\* A scan or an undo changes the status of one row.
LEMMA TypeScan ==
    ASSUME TypeOK, NEW a \in Attendees, NEW ev \in Events, NEW ok \in BOOLEAN, NEW r \in Requests,
           Scan(r, a, ev, ok), UNCHANGED kitVars
    PROVE  TypeOK'
<1>1. log' \in [Attendees -> Seq(Outcome)]
  BY VerdictTyped, TypeLog DEF Scan, ApplyCheckin
<1>2. \A x \in {"CHECKED_IN", attendees[a].status} :
        [attendees[a] EXCEPT !.status = x] \in AttendeeRow
  <2>1. attendees[a] \in AttendeeRow
    BY DEF TypeOK
  <2>2. QED
    BY <2>1 DEF AttendeeRow, AttendeeStatus
<1>3. \E x \in {"CHECKED_IN", attendees[a].status} :
        attendees' = [attendees EXCEPT ![a] = [attendees[a] EXCEPT !.status = x]]
  BY DEF Scan, ApplyCheckin, UpdateAttendee
<1>4. attendees' \in [Attendees -> AttendeeRow]
  BY <1>2, <1>3 DEF TypeOK
<1>5. QED
  BY <1>1, <1>4 DEF Scan, TypeOK, kitVars

\* An undo changes the status of one row and logs it.
LEMMA TypeRevert ==
    ASSUME TypeOK, NEW a \in Attendees, NEW ev \in Events, NEW r \in Requests, Revert(r, a, ev)
    PROVE  TypeOK'
<1>1. log' \in [Attendees -> Seq(Outcome)]
  BY TypeLog DEF Revert, RevertCheckin, Outcome
<1>2. attendees' \in [Attendees -> AttendeeRow]
  <2>1. attendees \in [Attendees -> AttendeeRow]
    BY DEF TypeOK
  <2>2. [attendees[a] EXCEPT !.status = "REGISTERED"] \in AttendeeRow
    BY <2>1 DEF AttendeeRow, AttendeeStatus
  <2>3. attendees' = [attendees EXCEPT ![a] = [attendees[a] EXCEPT !.status = "REGISTERED"]]
    BY DEF Revert, RevertCheckin, UpdateAttendee
  <2>4. QED
    BY <2>1, <2>2, <2>3
<1>3. QED
  BY <1>1, <1>2 DEF Revert, RevertCheckin, TypeOK, kitVars

\* An edit takes a copy, and saves it.
LEMMA TypeEdit ==
    ASSUME TypeOK, NEW r \in Requests, UNCHANGED kitVars,
           \/ \E a \in Attendees : CorrectName(r, a) \/ CancelMine(r, a)
           \/ SaveAttendee(r)
    PROVE  TypeOK'
<1>1. ASSUME NEW a \in Attendees, NEW row \in AttendeeRow, HoldAttendee(r, a, row)
      PROVE  TypeOK'
  BY <1>1 DEF HoldAttendee, TypeOK, kitVars
<1>2. \A a \in Attendees :
        /\ attendees[a] \in AttendeeRow
        /\ [attendees[a] EXCEPT !.status = "CANCELLED"] \in AttendeeRow
  <2>1. \A a \in Attendees : attendees[a] \in AttendeeRow
    BY DEF TypeOK
  <2>2. QED
    BY <2>1 DEF AttendeeRow, AttendeeStatus
<1>3. CASE \E a \in Attendees : CorrectName(r, a) \/ CancelMine(r, a)
  BY <1>1, <1>2, <1>3 DEF CorrectName, CancelMine
<1>4. CASE SaveAttendee(r)
  <2>1. \A a \in Attendees : attendeeCopy[r][a] \in AttendeeRow
    BY DEF TypeOK
  <2>2. attendees' \in [Attendees -> AttendeeRow]
    BY <1>4, <2>1 DEF SaveAttendee, UpdateAttendee, TypeOK
  <2>3. QED
    BY <1>4, <2>2, EmptyRows DEF SaveAttendee, TypeOK, kitVars
<1>5. QED
  BY <1>3, <1>4

\* A request with something to insert.
Insert == [kit: KitIds \cup {NoKit}, row: KitRow, handout: HandoutRow, event: Events \cup {NoEvent}]

\* A request that begins holds what it has read.
LEMMA TypeHold ==
    ASSUME TypeOK, NEW r \in Requests, NEW name \in {"createKit", "collect"}, NEW x \in Insert,
           Hold(r, name, x)
    PROVE  TypeOK'
  BY DEF Hold, TypeOK, Insert

\* The catalogue and the handouts.
LEMMA TypeKits == ASSUME TypeOK, KitsNext PROVE TypeOK'
<1>1. PICK r \in Staff :
        \/ \E k \in KitIds, ev \in Events :
            \/ \E n \in KitTotals : CreateKit(r, k, ev, n) \/ UpdateKit(r, k, ev, n)
            \/ DeleteKit(r, k, ev)
            \/ \E a \in Attendees, reserve \in BOOLEAN, key \in Keys \cup {NoKey} :
                Collect(r, k, a, ev, reserve, key)
        \/ InsertKit(r)
        \/ CommitCollect(r)
        \/ RefuseCollect(r)
        \/ \E h \in HandoutIds, ev \in Events : MarkCollected(r, h, ev) \/ Void(r, h, ev)
        \/ \E a \in Attendees, ev \in Events : Revert(r, a, ev)
  BY DEF KitsNext
<1>2. r \in Requests /\ request[r] \in Insert
  BY DEF Requests, TypeOK, Insert
<1>3. ASSUME NEW k \in KitIds, NEW ev \in Events, NEW n \in KitTotals, CreateKit(r, k, ev, n)
      PROVE  TypeOK'
  <2>1. [NoRequest EXCEPT !.kit = k, !.row = [event |-> ev, total |-> n]] \in Insert
    BY EmptyRows, KitsAssumption DEF Insert, NoRequest, KitRow
  <2>2. QED
    BY <1>2, <1>3, <2>1, TypeHold DEF CreateKit
<1>4. ASSUME NEW k \in KitIds, NEW ev \in Events, NEW n \in KitTotals, UpdateKit(r, k, ev, n)
      PROVE  TypeOK'
  <2>1. [kits[k] EXCEPT !.total = n] \in KitRow
    <3>1. kits[k] \in KitRow
      BY DEF TypeOK
    <3>2. QED
      BY <3>1, KitsAssumption DEF KitRow
  <2>2. kits' = [kits EXCEPT ![k] = [kits[k] EXCEPT !.total = n]]
    BY <1>4 DEF UpdateKit
  <2>3. QED
    BY <1>4, <2>1, <2>2 DEF UpdateKit, TypeOK, checkinVars
<1>5. ASSUME NEW k \in KitIds, NEW ev \in Events, DeleteKit(r, k, ev)
      PROVE  TypeOK'
  BY <1>5, EmptyRows DEF DeleteKit, TypeOK, checkinVars
<1>6. ASSUME NEW k \in KitIds, NEW ev \in Events, NEW a \in Attendees, NEW reserve \in BOOLEAN,
             NEW key \in Keys \cup {NoKey}, Collect(r, k, a, ev, reserve, key)
      PROVE  TypeOK'
  <2> DEFINE x == [kit |-> k, attendee |-> a, key |-> key,
                   status |-> IF reserve THEN "PENDING" ELSE "COLLECTED"]
  <2>1. x \in HandoutRow
    BY DEF HandoutRow, CollectionStatus
  <2>2. [NoRequest EXCEPT !.kit = k, !.event = ev, !.handout = x] \in Insert
    BY <2>1, EmptyRows DEF Insert, NoRequest
  <2>3. QED
    BY <1>2, <1>6, <2>2, TypeHold DEF Collect
<1>7. CASE InsertKit(r)
  <2>1. kits' \in [KitIds -> KitRow]
    BY <1>2, <1>7 DEF InsertKit, TypeOK, Insert
  <2>2. QED
    BY <1>2, <1>7, <2>1, EmptyRows DEF InsertKit, Done, TypeOK
<1>8. CASE CommitCollect(r)
  <2>1. handouts' \in [HandoutIds -> HandoutRow]
    BY <1>2, <1>8 DEF CommitCollect, TypeOK, Insert
  <2>2. QED
    BY <1>2, <1>8, <2>1, EmptyRows DEF CommitCollect, Done, TypeOK
<1>9. CASE RefuseCollect(r)
  BY <1>2, <1>9, EmptyRows DEF RefuseCollect, Done, TypeOK
<1>10. ASSUME NEW h \in HandoutIds, NEW ev \in Events, MarkCollected(r, h, ev) \/ Void(r, h, ev)
       PROVE  TypeOK'
  <2>1. PICK to \in CollectionStatus :
          /\ handouts' = [handouts EXCEPT ![h].status = to]
          /\ UNCHANGED <<checkinVars, kits, request>>
    BY <1>10 DEF MarkCollected, Void, Transition, CollectionStatus
  <2>2. [handouts[h] EXCEPT !.status = to] \in HandoutRow
    <3>1. handouts[h] \in HandoutRow
      BY DEF TypeOK
    <3>2. QED
      BY <3>1 DEF HandoutRow
  <2>3. handouts' = [handouts EXCEPT ![h] = [handouts[h] EXCEPT !.status = to]]
    BY <2>1
  <2>4. QED
    BY <2>1, <2>2, <2>3 DEF TypeOK, checkinVars
<1>11. QED
  BY <1>1, <1>2, <1>3, <1>4, <1>5, <1>6, <1>7, <1>8, <1>9, <1>10, TypeRevert

\* Every step keeps the types.
LEMMA TypeNext == TypeOK /\ [Next]_doorVars => TypeOK'
<1> SUFFICES ASSUME TypeOK, [Next]_doorVars PROVE TypeOK'
  OBVIOUS
<1>1. CASE CheckinNext /\ UNCHANGED kitVars
  <2>1. Staff \subseteq Requests /\ Editors \subseteq Requests
    BY DEF Requests
  <2>2. QED
    BY <1>1, <2>1, TypeRegister, TypeScan, TypeEdit DEF CheckinNext, MintForOrder, AddManual
<1>2. CASE KitsNext
  BY <1>2, TypeKits
<1>3. CASE UNCHANGED doorVars
  BY <1>3 DEF doorVars, checkinVars, kitVars, TypeOK
<1>4. QED
  BY <1>1, <1>2, <1>3 DEF Next

\* Tables, log and requests keep their shape.
THEOREM DoorTyped == Spec => []TypeOK
  BY TypeInit, TypeNext, PTL DEF Spec
(***************************************************************************)
(* Attendees                                                               *)
(***************************************************************************)
\* A row exists exactly when it has an event.
LEMMA Existing ==
    ASSUME DoorInv
    PROVE  /\ \A a \in Attendees : attendees[a] # NoAttendee <=> attendees[a].event \in Events
           /\ \A k \in KitIds : kits[k] # NoKitRow <=> kits[k].event \in Events
<1>1. NoAttendee.event \notin Events /\ NoKitRow.event \notin Events
  BY CheckinAssumption DEF NoAttendee, NoKitRow
<1>2. QED
  BY <1>1 DEF DoorInv, RowsHaveEvents

\* No attendee disappears or moves to another event.
EventsKept ==
    \A a \in Attendees : attendees[a].event \in Events => attendees'[a].event = attendees[a].event

\* A step of the door that leaves kits and handouts alone.
LEMMA AttendeesMove ==
    ASSUME DoorInv, TypeOK', UNCHANGED kitVars, EventsKept, CopiesInEvent',
           \A a \in Attendees : attendees'[a] # NoAttendee => attendees'[a].event \in Events,
           \A r \in Requests : op'[r] \in {"collect", "createKit"} => op'[r] = op[r]
    PROVE  DoorInv'
<1>1. kits' = kits /\ handouts' = handouts /\ request' = request
  BY DEF kitVars
<1>2. HandoutsReal' /\ OneHandoutEach'
  BY <1>1 DEF DoorInv, HandoutsReal, OneHandoutEach
<1>3. CollectsInEvent'
  BY <1>1 DEF DoorInv, CollectsInEvent, EventsKept, RealHandout
<1>4. CreatesFresh'
  BY <1>1 DEF DoorInv, CreatesFresh
<1>5. RowsHaveEvents'
  BY <1>1 DEF DoorInv, RowsHaveEvents
<1>6. HandoutsInScope'
  <2>1. SUFFICES ASSUME NEW h \in HandoutIds, handouts[h] # NoHandout
                 PROVE  /\ kits[handouts[h].kit] # NoKitRow
                        /\ kits[handouts[h].kit].event = attendees'[handouts[h].attendee].event
    BY <1>1 DEF HandoutsInScope
  <2>2. RealHandout(handouts[h])
    BY <2>1 DEF DoorInv, HandoutsReal
  <2>3. /\ kits[handouts[h].kit] # NoKitRow
        /\ kits[handouts[h].kit].event = attendees[handouts[h].attendee].event
    BY <2>1 DEF DoorInv, HandoutsInScope
  <2>4. attendees[handouts[h].attendee].event \in Events
    BY <2>2, <2>3 DEF DoorInv, RowsHaveEvents, RealHandout
  <2>5. QED
    BY <2>2, <2>3, <2>4 DEF EventsKept, RealHandout
<1>7. QED
  BY <1>2, <1>3, <1>4, <1>5, <1>6 DEF DoorInv

\* One row changes, to a row of the same event or from nothing.
LEMMA RowWritten ==
    ASSUME DoorInv, TypeOK', UNCHANGED <<kitVars, op, attendeeCopy>>, NEW a \in Attendees,
           NEW row, UpdateAttendee(a, row), row.event \in Events,
           attendees[a] = NoAttendee \/ row.event = attendees[a].event
    PROVE  DoorInv'
<1>1. attendees' = [attendees EXCEPT ![a] = row] /\ attendees \in [Attendees -> AttendeeRow]
  BY DEF UpdateAttendee, DoorInv, TypeOK
<1>2. EventsKept
  BY <1>1, Existing DEF EventsKept
<1>3. \A b \in Attendees : attendees'[b] # NoAttendee => attendees'[b].event \in Events
  BY <1>1, Existing
<1>4. \A b \in Attendees : attendees[b] # NoAttendee => attendees'[b] # NoAttendee
  BY <1>1, CheckinAssumption DEF NoAttendee
<1>5. CopiesInEvent'
  BY <1>2, <1>4, Existing DEF CopiesInEvent, EventsKept, DoorInv
<1>6. QED
  BY <1>2, <1>3, <1>5, AttendeesMove

\* Rows appear, are scanned and are reverted.
LEMMA ScansKeep ==
    ASSUME DoorInv, TypeOK', UNCHANGED kitVars, NEW a \in Attendees, NEW ev \in Events,
           \/ \E owned \in BOOLEAN : Register(a, ev, owned)
           \/ \E r \in Requests, ok \in BOOLEAN : Scan(r, a, ev, ok)
           \/ \E r \in Requests : RevertCheckin(r, a, ev)
    PROVE  DoorInv'
<1>1. attendees[a] \in AttendeeRow
  BY DEF DoorInv, TypeOK
<1>2. ASSUME NEW owned \in BOOLEAN, Register(a, ev, owned) PROVE DoorInv'
  <2> DEFINE row == [status |-> "REGISTERED", event |-> ev, owned |-> owned]
  <2>1. row.event \in Events /\ attendees[a] = NoAttendee /\ UpdateAttendee(a, row)
    BY <1>2 DEF Register
  <2> HIDE DEF row
  <2>2. QED
    BY <1>2, <2>1, RowWritten DEF Register
<1>3. ASSUME NEW x, attendees[a].event \in Events,
             UpdateAttendee(a, [attendees[a] EXCEPT !.status = x]), UNCHANGED <<op, attendeeCopy>>
      PROVE  DoorInv'
  <2> DEFINE row == [attendees[a] EXCEPT !.status = x]
  <2>1. row.event = attendees[a].event
    BY <1>1 DEF AttendeeRow
  <2>2. UpdateAttendee(a, row)
    BY <1>3
  <2> HIDE DEF row
  <2>3. QED
    BY <1>3, <2>1, <2>2, RowWritten
<1>4. ASSUME NEW r \in Requests, NEW ok \in BOOLEAN, Scan(r, a, ev, ok) PROVE DoorInv'
  BY <1>3, <1>4, Existing DEF Scan, GetAttendeeByID, ApplyCheckin
<1>5. ASSUME NEW r \in Requests, RevertCheckin(r, a, ev) PROVE DoorInv'
  BY <1>3, <1>5 DEF RevertCheckin
<1>6. QED
  BY <1>2, <1>4, <1>5

\* An edit holds the row of its attendee, and later saves it.
LEMMA EditsKeep ==
    ASSUME DoorInv, TypeOK', UNCHANGED kitVars, NEW r \in Requests,
           \/ \E a \in Attendees : CorrectName(r, a) \/ CancelMine(r, a)
           \/ SaveAttendee(r)
    PROVE  DoorInv'
<1>1. /\ attendees \in [Attendees -> AttendeeRow]
      /\ attendeeCopy \in [Requests -> [Attendees -> AttendeeRow]]
      /\ op \in [Requests -> {"idle", "saveAttendee", "createKit", "collect"}]
  BY DEF DoorInv, TypeOK
<1>2. ASSUME NEW a \in Attendees, NEW row, attendees[a] # NoAttendee,
             row.event = attendees[a].event, HoldAttendee(r, a, row)
      PROVE  DoorInv'
  <2>1. attendees' = attendees
    BY <1>2 DEF HoldAttendee
  <2>2. attendeeCopy' = [attendeeCopy EXCEPT ![r] = [attendeeCopy[r] EXCEPT ![a] = row]]
    BY <1>2 DEF HoldAttendee
  <2>3. CopiesInEvent'
    <3>1. SUFFICES ASSUME NEW v \in Requests, NEW b \in Attendees, attendeeCopy'[v][b] # NoAttendee
                   PROVE  attendees[b] # NoAttendee /\ attendeeCopy'[v][b].event = attendees[b].event
      BY <2>1 DEF CopiesInEvent
    <3>2. CASE v = r /\ b = a
      BY <1>1, <1>2, <2>2, <3>2
    <3>3. CASE v # r \/ b # a
      <4>1. attendeeCopy'[v][b] = attendeeCopy[v][b]
        BY <1>1, <2>2, <3>3
      <4>2. QED
        BY <3>1, <4>1 DEF DoorInv, CopiesInEvent
    <3>4. QED
      BY <3>2, <3>3
  <2>4. \A v \in Requests : op'[v] \in {"collect", "createKit"} => op'[v] = op[v]
    BY <1>1, <1>2 DEF HoldAttendee
  <2>5. EventsKept /\ \A b \in Attendees : attendees'[b] # NoAttendee => attendees'[b].event \in Events
    BY <2>1, Existing DEF EventsKept
  <2>6. QED
    BY <2>3, <2>4, <2>5, AttendeesMove
<1>3. CASE \E a \in Attendees : CorrectName(r, a) \/ CancelMine(r, a)
  <2>1. PICK a \in Attendees : CorrectName(r, a) \/ CancelMine(r, a)
    BY <1>3
  <2>2. CASE CorrectName(r, a)
    BY <1>2, <2>2 DEF CorrectName, GetAttendeeByID
  <2>3. CASE CancelMine(r, a)
    <3>1. attendees[a] # NoAttendee
      BY <2>3 DEF CancelMine, NoAttendee
    <3>2. [attendees[a] EXCEPT !.status = "CANCELLED"].event = attendees[a].event
      BY <1>1 DEF AttendeeRow
    <3>3. QED
      BY <1>2, <2>3, <3>1, <3>2 DEF CancelMine
  <2>4. QED
    BY <2>1, <2>2, <2>3
<1>4. CASE SaveAttendee(r)
  <2>1. PICK a \in Attendees :
          attendeeCopy[r][a] # NoAttendee /\ UpdateAttendee(a, attendeeCopy[r][a])
    BY <1>4 DEF SaveAttendee
  <2>2. attendees[a] # NoAttendee /\ attendeeCopy[r][a].event = attendees[a].event
    BY <2>1 DEF DoorInv, CopiesInEvent
  <2>3. attendees' = [attendees EXCEPT ![a] = attendeeCopy[r][a]]
    BY <2>1 DEF UpdateAttendee
  <2>4. EventsKept
    BY <1>1, <2>2, <2>3 DEF EventsKept
  <2>5. \A b \in Attendees : attendees[b] # NoAttendee => attendees'[b] # NoAttendee
    BY <1>1, <2>1, <2>3
  <2>6. \A b \in Attendees : attendees'[b] # NoAttendee => attendees'[b].event \in Events
    BY <1>1, <2>2, <2>3, Existing
  <2>7. \A v \in Requests, b \in Attendees :
          attendeeCopy'[v][b] # NoAttendee => attendeeCopy'[v][b] = attendeeCopy[v][b]
    BY <1>1, <1>4 DEF SaveAttendee
  <2>8. CopiesInEvent'
    BY <2>4, <2>5, <2>7, Existing DEF CopiesInEvent, EventsKept, DoorInv
  <2>9. \A v \in Requests : op'[v] \in {"collect", "createKit"} => op'[v] = op[v]
    BY <1>1, <1>4 DEF SaveAttendee
  <2>10. QED
    BY <2>4, <2>6, <2>8, <2>9, AttendeesMove
<1>5. QED
  BY <1>3, <1>4
(***************************************************************************)
(* The catalogue                                                           *)
(***************************************************************************)
\* A step on kits and handouts disturbs four parts of the invariant at most.
LEMMA KitsMove ==
    ASSUME DoorInv, TypeOK', UNCHANGED <<attendees, attendeeCopy>>,
           HandoutsReal', CollectsInEvent', CreatesFresh', OneHandoutEach', HandoutsInScope',
           \A k \in KitIds : kits'[k] # NoKitRow => kits'[k].event \in Events
    PROVE  DoorInv'
<1>1. CopiesInEvent' /\ RowsHaveEvents'
  BY DEF DoorInv, CopiesInEvent, RowsHaveEvents
<1>2. QED
  BY <1>1 DEF DoorInv

\* A handout stays in scope while its kit keeps its event.
LEMMA ScopeKept ==
    ASSUME DoorInv, UNCHANGED <<attendees, handouts>>,
           \A k \in KitIds : kits[k].event \in Events => kits'[k].event = kits[k].event
    PROVE  HandoutsReal' /\ OneHandoutEach' /\ HandoutsInScope'
<1>1. HandoutsReal' /\ OneHandoutEach'
  BY DEF DoorInv, HandoutsReal, OneHandoutEach
<1>2. NoKitRow.event \notin Events
  BY CheckinAssumption DEF NoKitRow
<1>3. ASSUME NEW h \in HandoutIds, handouts[h] # NoHandout
      PROVE  /\ kits'[handouts[h].kit] # NoKitRow
             /\ kits'[handouts[h].kit].event = attendees[handouts[h].attendee].event
  <2>1. handouts[h].kit \in KitIds
    BY <1>3 DEF DoorInv, HandoutsReal, RealHandout
  <2>2. /\ kits[handouts[h].kit] # NoKitRow
        /\ kits[handouts[h].kit].event = attendees[handouts[h].attendee].event
    BY <1>3 DEF DoorInv, HandoutsInScope
  <2>3. QED
    BY <1>2, <2>1, <2>2, Existing
<1>4. HandoutsInScope'
  BY <1>3 DEF HandoutsInScope
<1>5. QED
  BY <1>1, <1>4

\* CreateKit picks an id that no kit and no request has.
LEMMA CreateKitKeeps ==
    ASSUME DoorInv, TypeOK', NEW r \in Requests, NEW k \in KitIds, NEW ev \in Events,
           NEW n \in KitTotals, CreateKit(r, k, ev, n)
    PROVE  DoorInv'
<1> DEFINE x == [NoRequest EXCEPT !.kit = k, !.row = [event |-> ev, total |-> n]]
<1>1. x.kit = k /\ x.row.event = ev
  BY DEF NoRequest
<1>2. /\ request' = [request EXCEPT ![r] = x] /\ op' = [op EXCEPT ![r] = "createKit"]
      /\ UNCHANGED <<attendees, attendeeCopy, kits, handouts>>
  BY DEF CreateKit, Hold
<1>3. kits[k] = NoKitRow /\ \A v \in Requests : request[v].kit # k
  BY DEF CreateKit
<1> HIDE DEF x
<1>4. op \in [Requests -> {"idle", "saveAttendee", "createKit", "collect"}] /\ DOMAIN request = Requests
  BY DEF DoorInv, TypeOK
<1>5. \A v \in Requests : v # r => op'[v] = op[v] /\ request'[v] = request[v]
  BY <1>2, <1>4
<1>6. op'[r] = "createKit" /\ request'[r] = x
  BY <1>2, <1>4
<1>7. CollectsInEvent'
  BY <1>2, <1>5, <1>6 DEF DoorInv, CollectsInEvent
<1>8. CreatesFresh'
  <2>1. \A v \in Requests : op'[v] = "createKit" /\ v # r =>
          /\ request'[v].kit \in KitIds /\ request'[v].row.event \in Events
          /\ kits'[request'[v].kit] = NoKitRow /\ request'[v].kit # k
    BY <1>2, <1>3, <1>5 DEF DoorInv, CreatesFresh
  <2>2. \A u, v \in Requests :
          u # r /\ v # r /\ op'[u] = "createKit" /\ op'[v] = "createKit"
            /\ request'[u].kit = request'[v].kit => u = v
    BY <1>5 DEF DoorInv, CreatesFresh
  <2>3. QED
    BY <1>1, <1>2, <1>3, <1>6, <2>1, <2>2 DEF CreatesFresh
<1>9. QED
  BY <1>2, <1>7, <1>8, ScopeKept, KitsMove, Existing

\* UpdateKit changes the total of a kit that exists.
LEMMA UpdateKitKeeps ==
    ASSUME DoorInv, TypeOK', NEW r \in Requests, NEW k \in KitIds, NEW ev \in Events,
           NEW n \in KitTotals, UpdateKit(r, k, ev, n)
    PROVE  DoorInv'
<1>1. /\ kits' = [kits EXCEPT ![k] = [kits[k] EXCEPT !.total = n]] /\ kits[k].event = ev
      /\ UNCHANGED <<attendees, attendeeCopy, op, handouts, request>>
  BY DEF UpdateKit, checkinVars
<1>2. kits \in [KitIds -> KitRow]
  BY DEF DoorInv, TypeOK
<1>3. \A j \in KitIds : kits'[j].event = kits[j].event /\ (j # k => kits'[j] = kits[j])
  BY <1>1, <1>2 DEF KitRow
<1>4. CollectsInEvent'
  BY <1>1 DEF DoorInv, CollectsInEvent
<1>5. CreatesFresh'
  BY <1>1, <1>3, Existing DEF DoorInv, CreatesFresh
<1>6. \A j \in KitIds : kits'[j] # NoKitRow => kits'[j].event \in Events
  BY <1>1, <1>3, Existing
<1>7. QED
  BY <1>1, <1>3, <1>4, <1>5, <1>6, ScopeKept, KitsMove

\* DeleteKit takes the handouts of the kit along.
LEMMA DeleteKitKeeps ==
    ASSUME DoorInv, TypeOK', NEW r \in Requests, NEW k \in KitIds, NEW ev \in Events,
           DeleteKit(r, k, ev)
    PROVE  DoorInv'
<1>1. /\ kits' = [kits EXCEPT ![k] = NoKitRow]
      /\ handouts' = [h \in HandoutIds |-> IF handouts[h].kit = k THEN NoHandout ELSE handouts[h]]
      /\ UNCHANGED <<attendees, attendeeCopy, op, request>>
  BY DEF DeleteKit, checkinVars
<1>2. kits \in [KitIds -> KitRow]
  BY DEF DoorInv, TypeOK
<1>3. \A h \in HandoutIds : handouts'[h] # NoHandout => handouts'[h] = handouts[h] /\ handouts[h].kit # k
  BY <1>1
<1>4. HandoutsReal'
  BY <1>3 DEF DoorInv, HandoutsReal
<1>5. OneHandoutEach'
  <2>1. SUFFICES ASSUME NEW g \in HandoutIds, NEW h \in HandoutIds, g # h, handouts'[g] # NoHandout,
                        handouts'[g].kit = handouts'[h].kit, handouts'[g].attendee = handouts'[h].attendee
                 PROVE  /\ "VOIDED" \in {handouts'[g].status, handouts'[h].status}
                        /\ handouts'[g].key = handouts'[h].key => handouts'[g].key = NoKey
    BY DEF OneHandoutEach
  <2>2. handouts'[g].kit \in KitIds
    BY <1>4, <2>1 DEF HandoutsReal, RealHandout
  <2>3. handouts'[h] # NoHandout
    BY <2>1, <2>2, KitsAssumption DEF NoHandout
  <2>4. handouts'[g] = handouts[g] /\ handouts'[h] = handouts[h]
    BY <1>3, <2>1, <2>3
  <2>5. QED
    BY <2>1, <2>4 DEF DoorInv, OneHandoutEach
<1>6. HandoutsInScope'
  BY <1>1, <1>2, <1>3 DEF DoorInv, HandoutsInScope, HandoutsReal, RealHandout
<1>7. CollectsInEvent'
  BY <1>1 DEF DoorInv, CollectsInEvent
<1>8. CreatesFresh'
  BY <1>1, <1>2 DEF DoorInv, CreatesFresh
<1>9. \A j \in KitIds : kits'[j] # NoKitRow => kits'[j].event \in Events
  BY <1>1, <1>2, Existing
<1>10. QED
  BY <1>1, <1>4, <1>5, <1>6, <1>7, <1>8, <1>9, KitsMove

\* A request ends: the others hold what they held.
LEMMA OthersKeep ==
    ASSUME DoorInv, NEW r \in Requests, Done(r)
    PROVE  /\ op'[r] = "idle"
           /\ \A v \in Requests : v # r => op'[v] = op[v] /\ request'[v] = request[v]
  BY DEF Done, DoorInv, TypeOK

\* InsertKit writes an id that was free all along.
LEMMA InsertKitKeeps ==
    ASSUME DoorInv, TypeOK', NEW r \in Requests, InsertKit(r)
    PROVE  DoorInv'
<1>1. /\ op[r] = "createKit" /\ kits' = [kits EXCEPT ![request[r].kit] = request[r].row]
      /\ UNCHANGED <<attendees, attendeeCopy, handouts>>
  BY DEF InsertKit
<1>2. /\ request[r].kit \in KitIds /\ request[r].row.event \in Events
      /\ kits[request[r].kit] = NoKitRow
  BY <1>1 DEF DoorInv, CreatesFresh
<1>3. kits \in [KitIds -> KitRow]
  BY DEF DoorInv, TypeOK
<1>4. /\ op'[r] = "idle"
      /\ \A v \in Requests : v # r => op'[v] = op[v] /\ request'[v] = request[v]
  BY OthersKeep DEF InsertKit
<1>5. CollectsInEvent'
  BY <1>1, <1>4 DEF DoorInv, CollectsInEvent
<1>6. \A v \in Requests : op'[v] = "createKit" => v # r /\ op[v] = "createKit" /\ request'[v] = request[v]
  BY <1>4
<1>7. CreatesFresh'
  <2>1. \A v \in Requests : op'[v] = "createKit" => request[v].kit # request[r].kit
    BY <1>1, <1>6 DEF DoorInv, CreatesFresh
  <2>2. \A v \in Requests : op'[v] = "createKit" =>
          /\ request'[v].kit \in KitIds /\ request'[v].row.event \in Events
          /\ kits'[request'[v].kit] = NoKitRow
    BY <1>1, <1>3, <1>6, <2>1 DEF DoorInv, CreatesFresh
  <2>3. \A u, v \in Requests :
          op'[u] = "createKit" /\ op'[v] = "createKit" /\ request'[u].kit = request'[v].kit => u = v
    BY <1>6 DEF DoorInv, CreatesFresh
  <2>4. QED
    BY <2>2, <2>3 DEF CreatesFresh
<1>8. \A j \in KitIds : kits[j].event \in Events => kits'[j].event = kits[j].event
  BY <1>1, <1>2, <1>3, Existing
<1>9. \A j \in KitIds : kits'[j] # NoKitRow => kits'[j].event \in Events
  BY <1>1, <1>2, <1>3, Existing
<1>10. QED
  BY <1>1, <1>5, <1>7, <1>8, <1>9, ScopeKept, KitsMove

(***************************************************************************)
(* Handouts                                                                *)
(***************************************************************************)
\* Collect prepares a handout for an attendee of its event.
LEMMA CollectKeeps ==
    ASSUME DoorInv, TypeOK', NEW r \in Requests, NEW k \in KitIds, NEW a \in Attendees,
           NEW ev \in Events, NEW reserve \in BOOLEAN, NEW key \in Keys \cup {NoKey},
           Collect(r, k, a, ev, reserve, key)
    PROVE  DoorInv'
<1> DEFINE want == [kit |-> k, attendee |-> a, key |-> key,
                    status |-> IF reserve THEN "PENDING" ELSE "COLLECTED"]
           x == [NoRequest EXCEPT !.kit = k, !.event = ev, !.handout = want]
<1>1. x.kit = k /\ x.event = ev /\ x.handout = want
  BY DEF NoRequest
<1>2. RealHandout(want) /\ want.kit = k /\ want.attendee = a
  BY DEF RealHandout, CollectionStatus
<1>3. /\ request' = [request EXCEPT ![r] = x] /\ op' = [op EXCEPT ![r] = "collect"]
      /\ attendees[a].event = ev /\ UNCHANGED <<attendees, attendeeCopy, kits, handouts>>
  BY DEF Collect, Hold
<1> HIDE DEF x, want
<1>4. op \in [Requests -> {"idle", "saveAttendee", "createKit", "collect"}] /\ DOMAIN request = Requests
  BY DEF DoorInv, TypeOK
<1>5. \A v \in Requests : v # r => op'[v] = op[v] /\ request'[v] = request[v]
  BY <1>3, <1>4
<1>6. op'[r] = "collect" /\ request'[r] = x
  BY <1>3, <1>4
<1>7. CollectsInEvent'
  BY <1>1, <1>2, <1>3, <1>5, <1>6 DEF DoorInv, CollectsInEvent
<1>8. \A v \in Requests : op'[v] = "createKit" => op[v] = "createKit" /\ request'[v] = request[v]
  BY <1>5, <1>6
<1>9. CreatesFresh'
  BY <1>3, <1>8 DEF DoorInv, CreatesFresh
<1>10. QED
  BY <1>3, <1>7, <1>9, ScopeKept, KitsMove, Existing

\* The transaction inserts what the two unique indexes allow.
LEMMA CommitCollectKeeps ==
    ASSUME DoorInv, TypeOK', NEW r \in Requests, CommitCollect(r)
    PROVE  DoorInv'
<1> DEFINE want == request[r].handout
<1>1. PICK new \in HandoutIds :
        handouts[new] = NoHandout /\ handouts' = [handouts EXCEPT ![new] = want]
  BY DEF CommitCollect
<1>2. op[r] = "collect" /\ MayHandOut(r) /\ UNCHANGED <<attendees, attendeeCopy, kits>>
  BY DEF CommitCollect
<1>3. /\ RealHandout(want) /\ request[r].kit = want.kit /\ request[r].event \in Events
      /\ attendees[want.attendee].event = request[r].event
  BY <1>2 DEF DoorInv, CollectsInEvent
<1>4. /\ kits[want.kit].event = request[r].event
      /\ \A h \in Active(want.kit) : handouts[h].attendee # want.attendee
      /\ ~FindByIdempotency(want.kit, want.attendee, want.key)
  BY <1>2, <1>3 DEF MayHandOut, KitInEvent, UniqueViolation
<1>5. handouts \in [HandoutIds -> HandoutRow]
  BY DEF DoorInv, TypeOK
<1> HIDE DEF want
<1>6. handouts'[new] = want /\ \A h \in HandoutIds : h # new => handouts'[h] = handouts[h]
  BY <1>1, <1>5
<1>7. HandoutsReal'
  BY <1>3, <1>6 DEF DoorInv, HandoutsReal
<1>8. \A h \in HandoutIds :
        handouts[h].kit = want.kit /\ handouts[h].attendee = want.attendee =>
            /\ handouts[h].status = "VOIDED"
            /\ handouts[h].key = want.key => want.key = NoKey
  BY <1>4 DEF Active, FindByIdempotency
<1>9. OneHandoutEach'
  <2>1. SUFFICES ASSUME NEW g \in HandoutIds, NEW h \in HandoutIds, g # h, handouts'[g] # NoHandout,
                        handouts'[g].kit = handouts'[h].kit, handouts'[g].attendee = handouts'[h].attendee
                 PROVE  /\ "VOIDED" \in {handouts'[g].status, handouts'[h].status}
                        /\ handouts'[g].key = handouts'[h].key => handouts'[g].key = NoKey
    BY DEF OneHandoutEach
  <2>2. CASE g = new
    BY <1>6, <1>8, <2>1, <2>2
  <2>3. CASE h = new
    BY <1>6, <1>8, <2>1, <2>3
  <2>4. CASE g # new /\ h # new
    BY <1>6, <2>1, <2>4 DEF DoorInv, OneHandoutEach
  <2>5. QED
    BY <2>2, <2>3, <2>4
<1>10. HandoutsInScope'
  <2>1. kits[want.kit] # NoKitRow
    BY <1>3, <1>4, CheckinAssumption DEF NoKitRow
  <2>2. QED
    BY <1>2, <1>3, <1>4, <1>6, <2>1 DEF DoorInv, HandoutsInScope
<1>11. /\ op'[r] = "idle"
       /\ \A v \in Requests : v # r => op'[v] = op[v] /\ request'[v] = request[v]
  BY OthersKeep DEF CommitCollect
<1>12. CollectsInEvent' /\ CreatesFresh'
  BY <1>2, <1>11 DEF DoorInv, CollectsInEvent, CreatesFresh
<1>13. QED
  BY <1>2, <1>7, <1>9, <1>10, <1>12, KitsMove, Existing

\* A refusal ends the request.
LEMMA RefuseKeeps ==
    ASSUME DoorInv, TypeOK', NEW r \in Requests, RefuseCollect(r)
    PROVE  DoorInv'
<1>1. UNCHANGED <<attendees, attendeeCopy, kits, handouts>>
  BY DEF RefuseCollect
<1>2. /\ op'[r] = "idle"
      /\ \A v \in Requests : v # r => op'[v] = op[v] /\ request'[v] = request[v]
  BY OthersKeep DEF RefuseCollect
<1>3. CollectsInEvent' /\ CreatesFresh'
  BY <1>1, <1>2 DEF DoorInv, CollectsInEvent, CreatesFresh
<1>4. QED
  BY <1>1, <1>3, ScopeKept, KitsMove, Existing

\* A reserved handout is collected, or a handout is voided.
LEMMA TransitionKeeps ==
    ASSUME DoorInv, TypeOK', NEW r \in Requests, NEW h \in HandoutIds, NEW ev \in Events,
           MarkCollected(r, h, ev) \/ Void(r, h, ev)
    PROVE  DoorInv'
<1>1. PICK to \in CollectionStatus :
        /\ handouts' = [handouts EXCEPT ![h].status = to]
        /\ handouts[h].status \in {"PENDING", "COLLECTED"}
        /\ UNCHANGED <<checkinVars, kits, request>>
  BY DEF MarkCollected, Void, Transition, CollectionStatus
<1>2. handouts \in [HandoutIds -> HandoutRow]
  BY DEF DoorInv, TypeOK
<1>3. \A g \in HandoutIds :
        /\ g # h => handouts'[g] = handouts[g]
        /\ handouts'[g].kit = handouts[g].kit /\ handouts'[g].attendee = handouts[g].attendee
        /\ handouts'[g].key = handouts[g].key
  BY <1>1, <1>2 DEF HandoutRow
<1>4. handouts'[h].status = to
  BY <1>1, <1>2 DEF HandoutRow
<1>5. handouts[h] # NoHandout
  BY <1>1 DEF NoHandout
<1>6. HandoutsReal'
  BY <1>3, <1>4, <1>5 DEF DoorInv, HandoutsReal, RealHandout
<1>7. OneHandoutEach'
  <2>1. SUFFICES ASSUME NEW f \in HandoutIds, NEW g \in HandoutIds, f # g, handouts'[f] # NoHandout,
                        handouts'[f].kit = handouts'[g].kit, handouts'[f].attendee = handouts'[g].attendee
                 PROVE  /\ "VOIDED" \in {handouts'[f].status, handouts'[g].status}
                        /\ handouts'[f].key = handouts'[g].key => handouts'[f].key = NoKey
    BY DEF OneHandoutEach
  <2>2. handouts[f] # NoHandout
    BY <1>3, <1>5, <2>1
  <2>3. /\ "VOIDED" \in {handouts[f].status, handouts[g].status}
        /\ handouts[f].key = handouts[g].key => handouts[f].key = NoKey
    BY <1>3, <2>1, <2>2 DEF DoorInv, OneHandoutEach
  <2>4. QED
    BY <1>1, <1>3, <2>1, <2>3
<1>8. HandoutsInScope'
  BY <1>1, <1>3, <1>5 DEF DoorInv, HandoutsInScope, checkinVars
<1>9. CollectsInEvent' /\ CreatesFresh'
  BY <1>1 DEF DoorInv, CollectsInEvent, CreatesFresh, checkinVars
<1>10. QED
  BY <1>1, <1>6, <1>7, <1>8, <1>9, KitsMove, Existing DEF checkinVars

(***************************************************************************)
(* Every step                                                              *)
(***************************************************************************)
LEMMA DoorInit == Init => DoorInv
<1> SUFFICES ASSUME Init PROVE DoorInv
  OBVIOUS
<1>1. TypeOK
  BY TypeInit
<1>2. HandoutsReal /\ CopiesInEvent /\ CollectsInEvent /\ CreatesFresh /\ RowsHaveEvents
  BY DEF Init, CheckinInit, HandoutsReal, CopiesInEvent, CollectsInEvent, CreatesFresh, RowsHaveEvents
<1>3. OneHandoutEach /\ HandoutsInScope
  BY DEF Init, OneHandoutEach, HandoutsInScope
<1>4. QED
  BY <1>1, <1>2, <1>3 DEF DoorInv

\* Every step of the door keeps the invariant.
LEMMA DoorNext == DoorInv /\ [Next]_doorVars => DoorInv'
<1> SUFFICES ASSUME DoorInv, [Next]_doorVars PROVE DoorInv'
  OBVIOUS
<1>1. TypeOK'
  BY TypeNext DEF DoorInv
<1>2. Staff \subseteq Requests /\ Editors \subseteq Requests
  BY DEF Requests
<1>3. CASE CheckinNext /\ UNCHANGED kitVars
  BY <1>1, <1>2, <1>3, ScansKeep, EditsKeep DEF CheckinNext, MintForOrder, AddManual
<1>4. CASE KitsNext
  <2>1. PICK r \in Staff :
          \/ \E k \in KitIds, ev \in Events :
              \/ \E n \in KitTotals : CreateKit(r, k, ev, n) \/ UpdateKit(r, k, ev, n)
              \/ DeleteKit(r, k, ev)
              \/ \E a \in Attendees, reserve \in BOOLEAN, key \in Keys \cup {NoKey} :
                  Collect(r, k, a, ev, reserve, key)
          \/ InsertKit(r)
          \/ CommitCollect(r)
          \/ RefuseCollect(r)
          \/ \E h \in HandoutIds, ev \in Events : MarkCollected(r, h, ev) \/ Void(r, h, ev)
          \/ \E a \in Attendees, ev \in Events : Revert(r, a, ev)
    BY <1>4 DEF KitsNext
  <2>2. r \in Requests
    BY <1>2
  <2>3. CASE \E a \in Attendees, ev \in Events : Revert(r, a, ev)
    BY <1>1, <2>2, <2>3, ScansKeep DEF Revert
  <2>4. CASE \E k \in KitIds, ev \in Events, n \in KitTotals :
               CreateKit(r, k, ev, n) \/ UpdateKit(r, k, ev, n)
    BY <1>1, <2>2, <2>4, CreateKitKeeps, UpdateKitKeeps
  <2>5. CASE \E k \in KitIds, ev \in Events : DeleteKit(r, k, ev)
    BY <1>1, <2>2, <2>5, DeleteKitKeeps
  <2>6. CASE \E k \in KitIds, ev \in Events, a \in Attendees, reserve \in BOOLEAN, key \in Keys \cup {NoKey} :
               Collect(r, k, a, ev, reserve, key)
    BY <1>1, <2>2, <2>6, CollectKeeps
  <2>7. CASE InsertKit(r) \/ CommitCollect(r) \/ RefuseCollect(r)
    BY <1>1, <2>2, <2>7, InsertKitKeeps, CommitCollectKeeps, RefuseKeeps
  <2>8. CASE \E h \in HandoutIds, ev \in Events : MarkCollected(r, h, ev) \/ Void(r, h, ev)
    BY <1>1, <2>2, <2>8, TransitionKeeps
  <2>9. QED
    BY <2>1, <2>3, <2>4, <2>5, <2>6, <2>7, <2>8
<1>5. CASE UNCHANGED doorVars
  BY <1>1, <1>5
  DEF doorVars, checkinVars, kitVars, DoorInv, HandoutsReal, CopiesInEvent, CollectsInEvent,
      CreatesFresh, RowsHaveEvents, OneHandoutEach, HandoutsInScope
<1>6. QED
  BY <1>3, <1>4, <1>5 DEF Next

\* The invariant holds throughout, with edits of attendee rows going on.
LEMMA DoorHolds == Spec => []DoorInv
  BY DoorInit, DoorNext, PTL DEF Spec

\* One active handout per attendee and kit, and one record per retried key.
THEOREM HandoutsAreSingle == Spec => []OneHandoutEach
<1>1. DoorInv => OneHandoutEach
  BY DEF DoorInv
<1>2. QED
  BY <1>1, DoorHolds, PTL

\* A handout always belongs to a kit that exists, of the attendee's event:
\* a kit deleted and re-created under a late Collect, and an attendee row
\* saved from an old copy, do not change that.
THEOREM HandoutsStayInScope == Spec => []HandoutsInScope
<1>1. DoorInv => HandoutsInScope
  BY DEF DoorInv
<1>2. QED
  BY <1>1, DoorHolds, PTL

(***************************************************************************)
(* Stock                                                                   *)
(***************************************************************************)
\* The active handouts of a kit are finitely many.
LEMMA ActiveFinite ==
    ASSUME NEW k
    PROVE  IsFiniteSet(Active(k)) /\ Cardinality(Active(k)) \in Nat
<1>1. Active(k) \in SUBSET HandoutIds
  BY DEF Active
<1>2. QED
  BY <1>1, FS_Subset, FS_CardinalityType, KitsAssumption

\* Only CommitCollect makes a handout active.
LEMMA NoNewActive ==
    ASSUME DoorInv, [Next]_doorVars, ~ \E r \in Staff : CommitCollect(r), NEW k \in KitIds
    PROVE  Active(k)' \subseteq Active(k)
<1>1. CASE UNCHANGED handouts
  BY <1>1 DEF Active
<1>2. ASSUME NEW r, NEW j \in KitIds, NEW ev \in Events, DeleteKit(r, j, ev)
      PROVE  Active(k)' \subseteq Active(k)
  BY <1>2, KitsAssumption DEF DeleteKit, Active, NoHandout
<1>3. ASSUME NEW r, NEW h \in HandoutIds, NEW ev \in Events, MarkCollected(r, h, ev) \/ Void(r, h, ev)
      PROVE  Active(k)' \subseteq Active(k)
  <2>1. PICK to \in CollectionStatus :
          /\ handouts' = [handouts EXCEPT ![h].status = to]
          /\ handouts[h].status \in {"PENDING", "COLLECTED"}
    BY <1>3 DEF MarkCollected, Void, Transition, CollectionStatus
  <2>2. handouts \in [HandoutIds -> HandoutRow]
    BY DEF DoorInv, TypeOK
  <2>3. \A g \in HandoutIds :
          handouts'[g].kit = handouts[g].kit /\ (g # h => handouts'[g] = handouts[g])
    BY <2>1, <2>2 DEF HandoutRow
  <2>4. QED
    BY <2>1, <2>3 DEF Active
<1>4. CASE CheckinNext /\ UNCHANGED kitVars
  BY <1>1, <1>4 DEF kitVars
<1>5. CASE KitsNext
  <2>1. PICK r \in Staff :
          \/ \E j \in KitIds, ev \in Events :
                \/ \E n \in KitTotals : CreateKit(r, j, ev, n) \/ UpdateKit(r, j, ev, n)
                \/ DeleteKit(r, j, ev)
                \/ \E a \in Attendees, reserve \in BOOLEAN, key \in Keys \cup {NoKey} :
                    Collect(r, j, a, ev, reserve, key)
          \/ InsertKit(r)
          \/ CommitCollect(r)
          \/ RefuseCollect(r)
          \/ \E h \in HandoutIds, ev \in Events : MarkCollected(r, h, ev) \/ Void(r, h, ev)
          \/ \E a \in Attendees, ev \in Events : Revert(r, a, ev)
    BY <1>5 DEF KitsNext
  <2>2. \A j, ev, n : CreateKit(r, j, ev, n) \/ UpdateKit(r, j, ev, n) => UNCHANGED handouts
    BY DEF CreateKit, UpdateKit, Hold
  <2>3. \A j, a, ev, reserve, key : Collect(r, j, a, ev, reserve, key) => UNCHANGED handouts
    BY DEF Collect, Hold
  <2>4. InsertKit(r) \/ RefuseCollect(r) => UNCHANGED handouts
    BY DEF InsertKit, RefuseCollect
  <2>5. \A a, ev : Revert(r, a, ev) => UNCHANGED handouts
    BY DEF Revert, kitVars
  <2>6. ~CommitCollect(r)
    OBVIOUS
  <2>7. QED
    BY <1>1, <1>2, <1>3, <2>1, <2>2, <2>3, <2>4, <2>5, <2>6
<1>6. CASE UNCHANGED doorVars
  BY <1>1, <1>6 DEF doorVars, kitVars
<1>7. QED
  BY <1>4, <1>5, <1>6 DEF Next

\* A step that adds an active handout leaves the kit within its total, on the
\* row it has locked: the last unit is handed out once.
LEMMA StockStep ==
    ASSUME DoorInv, [Next]_doorVars, NEW k \in KitIds,
           Cardinality(Active(k)') > Cardinality(Active(k))
    PROVE  Cardinality(Active(k)') <= kits'[k].total
<1>1. CASE Active(k)' \subseteq Active(k)
  <2>1. Cardinality(Active(k)') <= Cardinality(Active(k)) /\ IsFiniteSet(Active(k)')
    BY <1>1, ActiveFinite, FS_Subset
  <2>2. Cardinality(Active(k)') \in Nat /\ Cardinality(Active(k)) \in Nat
    BY <2>1, ActiveFinite, FS_CardinalityType
  <2>3. QED
    BY <2>1, <2>2
<1>2. CASE \E r \in Staff : CommitCollect(r)
  <2>1. PICK r \in Staff : CommitCollect(r)
    BY <1>2
  <2>2. PICK new \in HandoutIds : handouts' = [handouts EXCEPT ![new] = request[r].handout]
    BY <2>1 DEF CommitCollect
  <2>3. handouts \in [HandoutIds -> HandoutRow]
    BY DEF DoorInv, TypeOK
  <2>4. /\ handouts'[new] = request[r].handout
        /\ \A h \in HandoutIds : h # new => handouts'[h] = handouts[h]
    BY <2>2, <2>3
  <2>5. CASE k # request[r].handout.kit
    BY <1>1, <2>4, <2>5 DEF Active
  <2>6. CASE k = request[r].handout.kit
    <3>1. Active(k)' \in SUBSET (Active(k) \cup {new})
      BY <2>4 DEF Active
    <3>2. CountActive(k) < kits[k].total /\ kits' = kits
      BY <2>1, <2>6 DEF CommitCollect, MayHandOut
    <3>3. /\ IsFiniteSet(Active(k) \cup {new})
          /\ Cardinality(Active(k) \cup {new}) <= Cardinality(Active(k)) + 1
      <4>1. IsFiniteSet(Active(k)) /\ Cardinality(Active(k)) \in Nat
        BY ActiveFinite
      <4>2. /\ IsFiniteSet(Active(k) \cup {new})
            /\ Cardinality(Active(k) \cup {new})
                 = IF new \in Active(k) THEN Cardinality(Active(k)) ELSE Cardinality(Active(k)) + 1
        BY <4>1, FS_AddElement
      <4>3. QED
        BY <4>1, <4>2
    <3>4. Cardinality(Active(k)') <= Cardinality(Active(k) \cup {new}) /\ IsFiniteSet(Active(k)')
      BY <3>1, <3>3, FS_Subset
    <3>5. Cardinality(Active(k)') \in Nat /\ Cardinality(Active(k) \cup {new}) \in Nat
      BY <3>3, <3>4, FS_CardinalityType
    <3>7. Cardinality(Active(k)) \in Nat
      BY ActiveFinite
    <3>8. kits[k].total \in Nat
      BY DEF DoorInv, TypeOK, KitRow
    <3>9. Cardinality(Active(k)) + 1 <= kits[k].total
      BY <3>2, <3>7, <3>8 DEF CountActive
    <3>10. QED
      BY <3>2, <3>3, <3>4, <3>5, <3>7, <3>8, <3>9
  <2>7. QED
    BY <2>5, <2>6
<1>3. QED
  BY <1>1, <1>2, NoNewActive

\* Stock is kept by every step, whatever staff reserve, void, resize and
\* delete side by side.
THEOREM StockIsKept == Spec => HandoutsWithinStock
<1>1. DoorInv /\ [Next]_doorVars =>
        [\A k \in KitIds :
            Cardinality(Active(k)') > Cardinality(Active(k))
                => Cardinality(Active(k)') <= kits'[k].total]_doorVars
  BY StockStep
<1>2. QED
  BY <1>1, DoorHolds, PTL DEF Spec, HandoutsWithinStock

(***************************************************************************)
(* Rows and log                                                            *)
(***************************************************************************)
\* What a step may do to the row and the log of attendee a.
RowStep(a) ==
    LET was == attendees[a].status
        is == attendees'[a].status IN
    \/ log'[a] = log[a] /\ is = was
    \/ log'[a] = log[a] /\ attendees[a] = NoAttendee /\ is = "REGISTERED"
    \/ /\ log'[a] = Append(log[a], "CHECKED_IN") /\ was = "REGISTERED" /\ is = "CHECKED_IN"
       /\ \E r \in Staff : Idle(r)
    \/ is = was /\ \E x \in Outcome \ {"CHECKED_IN", "REVERTED"} : log'[a] = Append(log[a], x)
    \/ /\ log'[a] = Append(log[a], "REVERTED") /\ was = "CHECKED_IN" /\ is = "REGISTERED"
       /\ ~HasActiveCollections(a) /\ UNCHANGED handouts
       /\ \E r \in Staff : Idle(r)
    \/ /\ log'[a] = log[a]
       /\ \E r \in Editors : /\ op[r] = "saveAttendee" /\ attendeeCopy[r][a] # NoAttendee
                             /\ attendees'[a] = attendeeCopy[r][a]
                             /\ \A b \in Attendees : attendeeCopy'[r][b] = NoAttendee

\* An entry is appended to one log, after the ones there are.
LEMMA LogAppended ==
    ASSUME TypeOK, NEW a \in Attendees, NEW x, LogAndAudit(a, x)
    PROVE  /\ log'[a] = Append(log[a], x)
           /\ \A b \in Attendees : b # a => log'[b] = log[b]
  BY DEF LogAndAudit, TypeOK

\* One row is written.
LEMMA RowChanged ==
    ASSUME TypeOK, NEW a \in Attendees, NEW row, UpdateAttendee(a, row)
    PROVE  /\ attendees'[a] = row
           /\ \A b \in Attendees : b # a => attendees'[b] = attendees[b]
  BY DEF UpdateAttendee, TypeOK

\* A scan admits a registered attendee, or only logs.
LEMMA ScanRows ==
    ASSUME TypeOK, NEW r \in Staff, NEW a \in Attendees, NEW ev \in Events, NEW ok \in BOOLEAN,
           Scan(r, a, ev, ok), NEW b \in Attendees
    PROVE  RowStep(b)
<1> DEFINE x == VerdictOutcome(attendees[a], ev, ok)
<1>1. /\ UpdateAttendee(a, [attendees[a] EXCEPT !.status = IF x = "CHECKED_IN" THEN "CHECKED_IN" ELSE @])
      /\ LogAndAudit(a, x) /\ Idle(r)
  BY DEF Scan, ApplyCheckin
<1>2. attendees[a] \in AttendeeRow
  BY DEF TypeOK
<1>3. x \in Outcome \ {"REVERTED"} /\ (x = "CHECKED_IN" => attendees[a].status = "REGISTERED")
  BY DEF VerdictOutcome, Outcome
<1>4. /\ log'[a] = Append(log[a], x)
      /\ \A c \in Attendees : c # a => log'[c] = log[c]
  BY <1>1, LogAppended
<1>5. /\ attendees'[a] = [attendees[a] EXCEPT !.status = IF x = "CHECKED_IN" THEN "CHECKED_IN" ELSE @]
      /\ \A c \in Attendees : c # a => attendees'[c] = attendees[c]
  BY <1>1, RowChanged
<1>6. attendees'[a].status = IF x = "CHECKED_IN" THEN "CHECKED_IN" ELSE attendees[a].status
  BY <1>2, <1>5 DEF AttendeeRow
<1> HIDE DEF x
<1>7. QED
  BY <1>1, <1>3, <1>4, <1>5, <1>6 DEF RowStep

\* An undo takes one admission back.
LEMMA RevertRows ==
    ASSUME TypeOK, NEW r \in Staff, NEW a \in Attendees, NEW ev \in Events, Revert(r, a, ev), NEW b \in Attendees
    PROVE  RowStep(b)
<1>1. /\ UpdateAttendee(a, [attendees[a] EXCEPT !.status = "REGISTERED"])
      /\ LogAndAudit(a, "REVERTED") /\ attendees[a].status = "CHECKED_IN"
      /\ ~HasActiveCollections(a) /\ UNCHANGED handouts /\ Idle(r)
  BY DEF Revert, RevertCheckin, kitVars
<1>2. attendees[a] \in AttendeeRow
  BY DEF TypeOK
<1>3. /\ log'[a] = Append(log[a], "REVERTED")
      /\ \A c \in Attendees : c # a => log'[c] = log[c]
  BY <1>1, LogAppended
<1>4. /\ attendees'[a] = [attendees[a] EXCEPT !.status = "REGISTERED"]
      /\ \A c \in Attendees : c # a => attendees'[c] = attendees[c]
  BY <1>1, RowChanged
<1>5. attendees'[a].status = "REGISTERED"
  BY <1>2, <1>4 DEF AttendeeRow
<1>6. QED
  BY <1>1, <1>3, <1>4, <1>5 DEF RowStep

\* A row appears and has no log yet to answer for.
LEMMA RegisterRows ==
    ASSUME TypeOK, NEW a \in Attendees, NEW ev, NEW owned, Register(a, ev, owned), NEW b \in Attendees
    PROVE  RowStep(b)
<1>1. /\ UpdateAttendee(a, [status |-> "REGISTERED", event |-> ev, owned |-> owned])
      /\ attendees[a] = NoAttendee /\ log' = log
  BY DEF Register
<1>2. /\ attendees'[a] = [status |-> "REGISTERED", event |-> ev, owned |-> owned]
      /\ \A c \in Attendees : c # a => attendees'[c] = attendees[c]
  BY <1>1, RowChanged
<1>3. QED
  BY <1>1, <1>2 DEF RowStep

\* An edit replaces a row by the copy it holds.
LEMMA SaveRows ==
    ASSUME TypeOK, NEW r \in Editors, SaveAttendee(r), NEW b \in Attendees
    PROVE  RowStep(b)
<1>1. PICK a \in Attendees : attendeeCopy[r][a] # NoAttendee /\ UpdateAttendee(a, attendeeCopy[r][a])
  BY DEF SaveAttendee
<1>2. /\ attendees'[a] = attendeeCopy[r][a]
      /\ \A c \in Attendees : c # a => attendees'[c] = attendees[c]
  BY <1>1, RowChanged
<1>3. op[r] = "saveAttendee" /\ log' = log /\ \A c \in Attendees : attendeeCopy'[r][c] = NoAttendee
  BY DEF SaveAttendee, TypeOK, Requests
<1>4. QED
  BY <1>1, <1>2, <1>3 DEF RowStep

\* The staff's other steps touch neither rows nor log.
LEMMA KitsRows ==
    ASSUME NEW r \in Staff,
           \/ \E k \in KitIds, ev \in Events :
                \/ \E n \in KitTotals : CreateKit(r, k, ev, n) \/ UpdateKit(r, k, ev, n)
                \/ DeleteKit(r, k, ev)
                \/ \E a \in Attendees, reserve \in BOOLEAN, key \in Keys \cup {NoKey} :
                    Collect(r, k, a, ev, reserve, key)
           \/ InsertKit(r) \/ CommitCollect(r) \/ RefuseCollect(r)
           \/ \E h \in HandoutIds, ev \in Events : MarkCollected(r, h, ev) \/ Void(r, h, ev)
    PROVE  UNCHANGED <<attendees, log>>
<1>1. \A k, ev, n : CreateKit(r, k, ev, n) \/ UpdateKit(r, k, ev, n) => UNCHANGED <<attendees, log>>
  BY DEF CreateKit, UpdateKit, Hold, checkinVars
<1>2. \A k, ev : DeleteKit(r, k, ev) => UNCHANGED <<attendees, log>>
  BY DEF DeleteKit, checkinVars
<1>3. \A k, ev, a, reserve, key : Collect(r, k, a, ev, reserve, key) => UNCHANGED <<attendees, log>>
  BY DEF Collect, Hold
<1>4. InsertKit(r) \/ CommitCollect(r) \/ RefuseCollect(r) => UNCHANGED <<attendees, log>>
  BY DEF InsertKit, CommitCollect, RefuseCollect
<1>5. \A h, ev : MarkCollected(r, h, ev) \/ Void(r, h, ev) => UNCHANGED <<attendees, log>>
  BY DEF MarkCollected, Void, Transition, checkinVars
<1>6. QED
  BY <1>1, <1>2, <1>3, <1>4, <1>5

\* Every step does one of these things to every attendee.
LEMMA RowSteps ==
    ASSUME TypeOK, [Next]_doorVars, NEW b \in Attendees
    PROVE  RowStep(b)
<1>1. ASSUME UNCHANGED <<attendees, log>> PROVE RowStep(b)
  BY <1>1 DEF RowStep
<1>2. CASE CheckinNext /\ UNCHANGED kitVars
  <2>1. ASSUME NEW a \in Attendees, NEW ev \in Events, MintForOrder(a, ev) PROVE RowStep(b)
    BY <2>1, RegisterRows DEF MintForOrder
  <2>2. ASSUME NEW r \in Staff, NEW a \in Attendees, NEW ev \in Events, AddManual(r, a, ev) PROVE RowStep(b)
    BY <2>2, RegisterRows DEF AddManual
  <2>3. ASSUME NEW r \in Staff, NEW a \in Attendees, NEW ev \in Events, NEW ok \in BOOLEAN, Scan(r, a, ev, ok)
        PROVE  RowStep(b)
    BY <2>3, ScanRows
  <2>4. ASSUME NEW r \in Editors, NEW a \in Attendees, CorrectName(r, a) \/ CancelMine(r, a) PROVE RowStep(b)
    BY <1>1, <2>4 DEF CorrectName, CancelMine, HoldAttendee
  <2>5. ASSUME NEW r \in Editors, SaveAttendee(r) PROVE RowStep(b)
    BY <2>5, SaveRows
  <2>6. QED
    BY <1>2, <2>1, <2>2, <2>3, <2>4, <2>5 DEF CheckinNext
<1>3. CASE KitsNext
  <2>1. PICK r \in Staff :
          \/ \E k \in KitIds, ev \in Events :
                \/ \E n \in KitTotals : CreateKit(r, k, ev, n) \/ UpdateKit(r, k, ev, n)
                \/ DeleteKit(r, k, ev)
                \/ \E a \in Attendees, reserve \in BOOLEAN, key \in Keys \cup {NoKey} :
                    Collect(r, k, a, ev, reserve, key)
          \/ InsertKit(r) \/ CommitCollect(r) \/ RefuseCollect(r)
          \/ \E h \in HandoutIds, ev \in Events : MarkCollected(r, h, ev) \/ Void(r, h, ev)
          \/ \E a \in Attendees, ev \in Events : Revert(r, a, ev)
    BY <1>3 DEF KitsNext
  <2>2. CASE \E a \in Attendees, ev \in Events : Revert(r, a, ev)
    BY <2>2, RevertRows
  <2>3. QED
    BY <1>1, <2>1, <2>2, KitsRows
<1>4. CASE UNCHANGED doorVars
  BY <1>1, <1>4 DEF doorVars, checkinVars
<1>5. QED
  BY <1>2, <1>3, <1>4 DEF Next

(***************************************************************************)
(* One admission                                                           *)
(***************************************************************************)
\* Whoever is not inside has had every admission undone.
UndoneWhenOut ==
    \A a \in Attendees : attendees[a].status # "CHECKED_IN" =>
        \A i \in DOMAIN log[a] : log[a][i] = "CHECKED_IN" =>
            \E k \in DOMAIN log[a] : i < k /\ log[a][k] = "REVERTED"

\* What Append does to a log, entry by entry.
LEMMA LogGrows ==
    ASSUME NEW s \in Seq(Outcome), NEW x \in Outcome
    PROVE  /\ Append(s, x) \in Seq(Outcome) /\ Len(s) \in Nat
           /\ DOMAIN s = 1..Len(s) /\ DOMAIN Append(s, x) = 1..(Len(s) + 1)
           /\ \A i \in 1..Len(s) : Append(s, x)[i] = s[i]
           /\ Append(s, x)[Len(s) + 1] = x
  OBVIOUS

\* Without edits beside it, the door keeps one admission between undos.
LEMMA FreshStep ==
    ASSUME Editors = {}, TypeOK, OneFreshScan, UndoneWhenOut, [Next]_doorVars
    PROVE  OneFreshScan' /\ UndoneWhenOut'
<1>1. ASSUME NEW a \in Attendees
      PROVE  /\ \A i, j \in DOMAIN log'[a] :
                    i < j /\ log'[a][i] = "CHECKED_IN" /\ log'[a][j] = "CHECKED_IN" =>
                        \E k \in i..j : log'[a][k] = "REVERTED"
             /\ attendees'[a].status # "CHECKED_IN" =>
                    \A i \in DOMAIN log'[a] : log'[a][i] = "CHECKED_IN" =>
                        \E k \in DOMAIN log'[a] : i < k /\ log'[a][k] = "REVERTED"
  <2> DEFINE s == log[a]
             n == Len(log[a])
  <2>1. s \in Seq(Outcome)
    BY DEF TypeOK
  <2>2. /\ \A i, j \in 1..n : i < j /\ s[i] = "CHECKED_IN" /\ s[j] = "CHECKED_IN" =>
                \E k \in i..j : s[k] = "REVERTED"
        /\ attendees[a].status # "CHECKED_IN" =>
                \A i \in 1..n : s[i] = "CHECKED_IN" => \E k \in 1..n : i < k /\ s[k] = "REVERTED"
    BY <2>1, LogGrows DEF OneFreshScan, UndoneWhenOut
  <2>3. RowStep(a)
    BY RowSteps
  <2>4. CASE log'[a] = log[a] /\ (attendees'[a].status = "CHECKED_IN" \/ attendees[a].status # "CHECKED_IN")
    BY <2>4 DEF OneFreshScan, UndoneWhenOut
  <2>5. ASSUME NEW x \in Outcome, log'[a] = Append(s, x)
        PROVE  /\ n \in Nat /\ DOMAIN s = 1..n /\ DOMAIN log'[a] = 1..(n + 1)
               /\ \A i \in 1..n : log'[a][i] = s[i]
               /\ log'[a][n + 1] = x
    BY <2>1, <2>5, LogGrows
  <2>6. CASE log'[a] = Append(s, "CHECKED_IN") /\ attendees[a].status = "REGISTERED" /\ attendees'[a].status = "CHECKED_IN"
    <3>1. /\ n \in Nat /\ DOMAIN s = 1..n /\ DOMAIN log'[a] = 1..(n + 1)
          /\ \A i \in 1..n : log'[a][i] = s[i]
      BY <2>5, <2>6 DEF Outcome
    <3>2. ASSUME NEW i \in 1..(n + 1), NEW j \in 1..(n + 1), i < j,
                 log'[a][i] = "CHECKED_IN", log'[a][j] = "CHECKED_IN"
          PROVE  \E k \in i..j : log'[a][k] = "REVERTED"
      <4> HIDE DEF n, s
      <4>1. i \in 1..n /\ s[i] = "CHECKED_IN"
        BY <3>1, <3>2
      <4>2. CASE j \in 1..n
        <5>1. PICK k \in i..j : s[k] = "REVERTED"
          BY <2>2, <3>1, <3>2, <4>1, <4>2
        <5>2. k \in 1..n
          BY <3>1, <4>1, <4>2
        <5>3. QED
          BY <3>1, <5>1, <5>2
      <4>3. CASE j = n + 1
        <5>1. PICK k \in 1..n : i < k /\ s[k] = "REVERTED"
          BY <2>2, <2>6, <4>1
        <5>2. k \in i..j
          BY <3>1, <4>1, <4>3, <5>1
        <5>3. QED
          BY <3>1, <5>1, <5>2
      <4>4. QED
        BY <3>1, <4>2, <4>3
    <3>3. QED
      BY <2>6, <3>1, <3>2
  <2>7. ASSUME NEW x \in Outcome \ {"CHECKED_IN"}, log'[a] = Append(s, x),
               x = "REVERTED" \/ (attendees'[a].status # "CHECKED_IN" => attendees[a].status # "CHECKED_IN")
        PROVE  /\ \A i, j \in DOMAIN log'[a] :
                    i < j /\ log'[a][i] = "CHECKED_IN" /\ log'[a][j] = "CHECKED_IN" =>
                        \E k \in i..j : log'[a][k] = "REVERTED"
               /\ attendees'[a].status # "CHECKED_IN" =>
                    \A i \in DOMAIN log'[a] : log'[a][i] = "CHECKED_IN" =>
                        \E k \in DOMAIN log'[a] : i < k /\ log'[a][k] = "REVERTED"
    <3>1. /\ n \in Nat /\ DOMAIN s = 1..n /\ DOMAIN log'[a] = 1..(n + 1)
          /\ \A i \in 1..n : log'[a][i] = s[i]
          /\ log'[a][n + 1] = x
      BY <2>5, <2>7
    <3> HIDE DEF n, s
    <3>2. ASSUME NEW i \in 1..(n + 1), NEW j \in 1..(n + 1), i < j,
                 log'[a][i] = "CHECKED_IN", log'[a][j] = "CHECKED_IN"
          PROVE  \E k \in i..j : log'[a][k] = "REVERTED"
      <4>1. i \in 1..n /\ j \in 1..n
        BY <2>7, <3>1, <3>2
      <4>2. PICK k \in i..j : s[k] = "REVERTED"
        BY <2>2, <3>1, <3>2, <4>1
      <4>3. k \in 1..n
        BY <3>1, <4>1
      <4>4. QED
        BY <3>1, <4>2, <4>3
    <3>3. ASSUME attendees'[a].status # "CHECKED_IN", NEW i \in 1..(n + 1), log'[a][i] = "CHECKED_IN"
          PROVE  \E k \in 1..(n + 1) : i < k /\ log'[a][k] = "REVERTED"
      <4>1. i \in 1..n
        BY <2>7, <3>1, <3>3
      <4>2. CASE x = "REVERTED"
        BY <3>1, <4>1, <4>2
      <4>3. CASE attendees[a].status # "CHECKED_IN"
        <5>1. PICK k \in 1..n : i < k /\ s[k] = "REVERTED"
          BY <2>2, <3>1, <3>3, <4>1, <4>3
        <5>2. QED
          BY <3>1, <5>1
      <4>4. QED
        BY <2>7, <3>3, <4>2, <4>3
    <3>4. QED
      BY <3>1, <3>2, <3>3
  <2>8. NoAttendee.status # "CHECKED_IN"
    BY DEF NoAttendee
  <2>9. QED
    BY <2>3, <2>4, <2>6, <2>7, <2>8 DEF RowStep, Outcome
<1>2. QED
  BY <1>1 DEF OneFreshScan, UndoneWhenOut

\* "exactly one lands fresh, the rest report ALREADY_CHECKED_IN", however many
\* scanners and staff, as long as nobody edits attendee rows meanwhile.
THEOREM OneAdmission == ASSUME Editors = {} PROVE Spec => []OneFreshScan
<1>1. Init => OneFreshScan /\ UndoneWhenOut
  BY DEF Init, CheckinInit, OneFreshScan, UndoneWhenOut
<1>2. TypeOK /\ (OneFreshScan /\ UndoneWhenOut) /\ [Next]_doorVars => (OneFreshScan /\ UndoneWhenOut)'
  BY FreshStep
<1>3. QED
  BY <1>1, <1>2, DoorTyped, PTL DEF Spec

(***************************************************************************)
(* One request at a time                                                   *)
(***************************************************************************)
OneRequest == \A r, s \in Requests : r = s

Held(status) == status \in {"PENDING", "COLLECTED"}

\* An edit holds the row as it is, or as its attendee cancels it.
CopiesCurrent ==
    \A r \in Requests, a \in Attendees :
        attendeeCopy[r][a] # NoAttendee =>
            /\ op[r] = "saveAttendee"
            /\ \/ attendeeCopy[r][a].status = attendees[a].status
               \/ attendees[a].status = "REGISTERED" /\ attendeeCopy[r][a].status = "CANCELLED"

\* A handout in preparation is for somebody inside.
CollectsInside ==
    \A r \in Requests :
        op[r] = "collect" => attendees[request[r].handout.attendee].status = "CHECKED_IN"

\* Where handouts, handouts in preparation and copies come from.
Origins ==
    /\ \A h \in HandoutIds : Held(handouts'[h].status) =>
        \/ Held(handouts[h].status) /\ handouts'[h].attendee = handouts[h].attendee
        \/ \E r \in Requests : /\ op[r] = "collect" /\ handouts'[h] = request[r].handout
                              /\ UNCHANGED attendees
    /\ \A r \in Requests : op'[r] = "collect" =>
        \/ op[r] = "collect" /\ request'[r] = request[r]
        \/ attendees[request'[r].handout.attendee].status = "CHECKED_IN" /\ UNCHANGED attendees
    /\ \A r \in Requests, a \in Attendees : attendeeCopy'[r][a] # NoAttendee =>
        \/ attendeeCopy'[r][a] = attendeeCopy[r][a] /\ (op[r] = "saveAttendee" => op'[r] = "saveAttendee")
        \/ /\ op'[r] = "saveAttendee" /\ UNCHANGED attendees
           /\ \/ attendeeCopy'[r][a].status = attendees[a].status
              \/ attendees[a].status = "REGISTERED" /\ attendeeCopy'[r][a].status = "CANCELLED"

\* A step that touches neither requests nor handouts adds nothing.
LEMMA NothingNew == ASSUME UNCHANGED <<op, request, handouts, attendeeCopy>> PROVE Origins
  BY DEF Origins

\* The steps of edits.
LEMMA EditOrigins ==
    ASSUME TypeOK, NEW r \in Requests, UNCHANGED kitVars,
           \/ \E a \in Attendees : CorrectName(r, a) \/ CancelMine(r, a)
           \/ SaveAttendee(r)
    PROVE  Origins
<1>1. UNCHANGED <<handouts, request>>
  BY DEF kitVars
<1>2. ASSUME NEW a \in Attendees, CorrectName(r, a) \/ CancelMine(r, a) PROVE Origins
  <2>1. PICK row : /\ HoldAttendee(r, a, row)
                   /\ \/ row.status = attendees[a].status
                      \/ attendees[a].status = "REGISTERED" /\ row.status = "CANCELLED"
    <3>1. attendees[a] \in AttendeeRow
      BY DEF TypeOK
    <3>2. [attendees[a] EXCEPT !.status = "CANCELLED"].status = "CANCELLED"
      BY <3>1 DEF AttendeeRow
    <3>3. QED
      BY <1>2, <3>2 DEF CorrectName, CancelMine
  <2>2. /\ op' = [op EXCEPT ![r] = "saveAttendee"] /\ UNCHANGED attendees
        /\ attendeeCopy' = [attendeeCopy EXCEPT ![r][a] = row]
    BY <2>1 DEF HoldAttendee
  <2>3. /\ op'[r] = "saveAttendee" /\ \A v \in Requests : v # r => op'[v] = op[v]
        /\ attendeeCopy'[r][a] = row
        /\ \A v \in Requests, b \in Attendees : v # r \/ b # a => attendeeCopy'[v][b] = attendeeCopy[v][b]
    BY <2>2 DEF TypeOK
  <2>4. QED
    BY <1>1, <2>1, <2>2, <2>3 DEF Origins
<1>3. CASE SaveAttendee(r)
  <2>1. /\ op'[r] = "idle" /\ \A v \in Requests : v # r => op'[v] = op[v]
        /\ \A b \in Attendees : attendeeCopy'[r][b] = NoAttendee
        /\ \A v \in Requests : v # r => attendeeCopy'[v] = attendeeCopy[v]
    BY <1>3 DEF SaveAttendee, TypeOK
  <2>2. QED
    BY <1>1, <2>1 DEF Origins
<1>4. QED
  BY <1>2, <1>3

\* The steps of staff on kits and handouts.
LEMMA KitsOrigins ==
    ASSUME DoorInv, NEW r \in Requests,
           \/ \E k \in KitIds, ev \in Events :
                \/ \E n \in KitTotals : CreateKit(r, k, ev, n) \/ UpdateKit(r, k, ev, n)
                \/ DeleteKit(r, k, ev)
                \/ \E a \in Attendees, reserve \in BOOLEAN, key \in Keys \cup {NoKey} :
                    Collect(r, k, a, ev, reserve, key)
           \/ InsertKit(r) \/ CommitCollect(r) \/ RefuseCollect(r)
           \/ \E h \in HandoutIds, ev \in Events : MarkCollected(r, h, ev) \/ Void(r, h, ev)
    PROVE  Origins
<1>1. TypeOK
  BY DEF DoorInv
<1>2. ASSUME NEW k \in KitIds, NEW ev \in Events, NEW n \in KitTotals, CreateKit(r, k, ev, n) PROVE Origins
  <2>1. /\ Idle(r) /\ op' = [op EXCEPT ![r] = "createKit"] /\ UNCHANGED <<attendees, attendeeCopy, handouts>>
        /\ \A v \in Requests : v # r => request'[v] = request[v]
    BY <1>1, <1>2 DEF CreateKit, Hold, TypeOK
  <2>2. op'[r] = "createKit" /\ \A v \in Requests : v # r => op'[v] = op[v]
    BY <1>1, <2>1 DEF TypeOK
  <2>3. QED
    BY <2>1, <2>2 DEF Origins, Idle
<1>3. ASSUME NEW k \in KitIds, NEW ev \in Events, NEW n \in KitTotals, UpdateKit(r, k, ev, n) PROVE Origins
  BY <1>3, NothingNew DEF UpdateKit, checkinVars
<1>4. ASSUME NEW k \in KitIds, NEW ev \in Events, DeleteKit(r, k, ev) PROVE Origins
  <2>1. /\ UNCHANGED <<op, request, attendeeCopy>>
        /\ \A h \in HandoutIds : handouts'[h] \in {NoHandout, handouts[h]}
    BY <1>4 DEF DeleteKit, checkinVars
  <2>2. QED
    BY <2>1 DEF Origins, Held, NoHandout
<1>5. ASSUME NEW k \in KitIds, NEW ev \in Events, NEW a \in Attendees, NEW reserve \in BOOLEAN,
             NEW key \in Keys \cup {NoKey}, Collect(r, k, a, ev, reserve, key)
      PROVE  Origins
  <2> DEFINE x == [NoRequest EXCEPT !.kit = k, !.event = ev,
                     !.handout = [kit |-> k, attendee |-> a, key |-> key,
                                  status |-> IF reserve THEN "PENDING" ELSE "COLLECTED"]]
  <2>1. /\ Idle(r) /\ op' = [op EXCEPT ![r] = "collect"] /\ UNCHANGED <<attendees, attendeeCopy, handouts>>
        /\ request' = [request EXCEPT ![r] = x] /\ attendees[a].status = "CHECKED_IN"
    BY <1>5 DEF Collect, Hold
  <2>2. x.handout.attendee = a
    BY DEF NoRequest
  <2> HIDE DEF x
  <2>3. /\ op'[r] = "collect" /\ request'[r] = x
        /\ \A v \in Requests : v # r => op'[v] = op[v] /\ request'[v] = request[v]
    BY <1>1, <2>1 DEF TypeOK
  <2>4. QED
    BY <2>1, <2>2, <2>3 DEF Origins, Idle
<1>6. CASE InsertKit(r) \/ RefuseCollect(r)
  <2>1. UNCHANGED <<attendees, attendeeCopy, handouts>> /\ Done(r) /\ op[r] # "saveAttendee"
    BY <1>6 DEF InsertKit, RefuseCollect
  <2>2. QED
    BY <2>1, OthersKeep DEF Origins
<1>7. CASE CommitCollect(r)
  <2>1. /\ UNCHANGED <<attendees, attendeeCopy>> /\ Done(r) /\ op[r] = "collect"
        /\ \E h \in HandoutIds : handouts' = [handouts EXCEPT ![h] = request[r].handout]
    BY <1>7 DEF CommitCollect
  <2>2. \A h \in HandoutIds : handouts'[h] \in {handouts[h], request[r].handout}
    BY <1>1, <2>1 DEF TypeOK
  <2>3. QED
    BY <2>1, <2>2, OthersKeep DEF Origins
<1>8. ASSUME NEW h \in HandoutIds, NEW ev \in Events, MarkCollected(r, h, ev) \/ Void(r, h, ev) PROVE Origins
  <2>1. PICK to \in CollectionStatus :
          /\ handouts' = [handouts EXCEPT ![h].status = to] /\ Held(handouts[h].status)
          /\ UNCHANGED <<op, request, attendeeCopy>>
    BY <1>8 DEF MarkCollected, Void, Transition, CollectionStatus, checkinVars, Held
  <2>2. \A g \in HandoutIds :
          handouts'[g].attendee = handouts[g].attendee /\ (g # h => handouts'[g] = handouts[g])
    BY <1>1, <2>1 DEF TypeOK, HandoutRow
  <2>3. QED
    BY <2>1, <2>2 DEF Origins
<1>9. QED
  BY <1>2, <1>3, <1>4, <1>5, <1>6, <1>7, <1>8

\* Every step.
LEMMA AllOrigins == ASSUME DoorInv, [Next]_doorVars PROVE Origins
<1>1. Staff \subseteq Requests /\ Editors \subseteq Requests
  BY DEF Requests
<1>2. TypeOK
  BY DEF DoorInv
<1>3. CASE CheckinNext /\ UNCHANGED kitVars
  <2>1. ASSUME NEW a \in Attendees, NEW ev \in Events,
               \/ MintForOrder(a, ev)
               \/ \E r \in Staff : AddManual(r, a, ev) \/ \E ok \in BOOLEAN : Scan(r, a, ev, ok)
        PROVE  Origins
    BY <1>3, <2>1, NothingNew DEF MintForOrder, AddManual, Register, Scan, kitVars
  <2>2. ASSUME NEW r \in Editors,
               \/ \E a \in Attendees : CorrectName(r, a) \/ CancelMine(r, a)
               \/ SaveAttendee(r)
        PROVE  Origins
    BY <1>1, <1>2, <1>3, <2>2, EditOrigins
  <2>3. QED
    BY <1>3, <2>1, <2>2 DEF CheckinNext
<1>4. CASE KitsNext
  <2>1. PICK r \in Staff :
          \/ \E k \in KitIds, ev \in Events :
                \/ \E n \in KitTotals : CreateKit(r, k, ev, n) \/ UpdateKit(r, k, ev, n)
                \/ DeleteKit(r, k, ev)
                \/ \E a \in Attendees, reserve \in BOOLEAN, key \in Keys \cup {NoKey} :
                    Collect(r, k, a, ev, reserve, key)
          \/ InsertKit(r) \/ CommitCollect(r) \/ RefuseCollect(r)
          \/ \E h \in HandoutIds, ev \in Events : MarkCollected(r, h, ev) \/ Void(r, h, ev)
          \/ \E a \in Attendees, ev \in Events : Revert(r, a, ev)
    BY <1>4 DEF KitsNext
  <2>2. ASSUME NEW a \in Attendees, NEW ev \in Events, Revert(r, a, ev) PROVE Origins
    BY <2>2, NothingNew DEF Revert, RevertCheckin, kitVars
  <2>3. QED
    BY <1>1, <2>1, <2>2, KitsOrigins
<1>5. CASE UNCHANGED doorVars
  BY <1>5, NothingNew DEF doorVars, checkinVars, kitVars
<1>6. QED
  BY <1>3, <1>4, <1>5 DEF Next

\* Served one at a time, rows, log and handouts stay in step.
AloneInv == DoorAgreesWithLog /\ HoldersAreInside /\ CopiesCurrent /\ CollectsInside

\* Somebody inside stays inside, unless an undo finds no handout.
LEMMA InsideStays ==
    ASSUME OneRequest, DoorInv, AloneInv, [Next]_doorVars, NEW a \in Attendees,
           attendees[a].status = "CHECKED_IN", attendees'[a].status # "CHECKED_IN"
    PROVE  /\ ~HasActiveCollections(a) /\ UNCHANGED handouts
           /\ \E r \in Staff : Idle(r)
<1>1. RowStep(a)
  BY RowSteps DEF DoorInv
<1>2. Editors \subseteq Requests /\ NoAttendee.status # "CHECKED_IN"
  BY DEF Requests, NoAttendee
<1>3. QED
  BY <1>1, <1>2 DEF RowStep, AloneInv, CopiesCurrent

\* The step of one request.
LEMMA AloneStep ==
    ASSUME OneRequest, DoorInv, AloneInv, [Next]_doorVars
    PROVE  AloneInv'
<1>1. TypeOK /\ Origins /\ \A a \in Attendees : RowStep(a)
  BY AllOrigins, RowSteps DEF DoorInv
<1>2. Staff \subseteq Requests /\ Editors \subseteq Requests
  BY DEF Requests
<1>3. HoldersAreInside'
  <2> SUFFICES ASSUME NEW h \in HandoutIds, Held(handouts'[h].status)
               PROVE  attendees'[handouts'[h].attendee].status = "CHECKED_IN"
    BY DEF HoldersAreInside, Held
  <2> DEFINE a == handouts'[h].attendee
  <2>1. CASE Held(handouts[h].status) /\ a = handouts[h].attendee
    <3>1. attendees[a].status = "CHECKED_IN" /\ HasActiveCollections(a)
      BY <2>1 DEF AloneInv, HoldersAreInside, HasActiveCollections, Held
    <3>2. a \in Attendees
      BY <2>1 DEF DoorInv, HandoutsReal, RealHandout, NoHandout, Held
    <3>3. QED
      BY <3>1, <3>2, InsideStays
  <2>2. CASE \E r \in Requests : op[r] = "collect" /\ handouts'[h] = request[r].handout /\ UNCHANGED attendees
    BY <2>2 DEF AloneInv, CollectsInside
  <2>3. QED
    BY <1>1, <2>1, <2>2 DEF Origins
<1>4. CollectsInside'
  <2> SUFFICES ASSUME NEW r \in Requests, op'[r] = "collect"
               PROVE  attendees'[request'[r].handout.attendee].status = "CHECKED_IN"
    BY DEF CollectsInside
  <2>1. CASE op[r] = "collect" /\ request'[r] = request[r]
    <3>1. request[r].handout.attendee \in Attendees
      BY <2>1 DEF DoorInv, CollectsInEvent, RealHandout
    <3>2. attendees[request[r].handout.attendee].status = "CHECKED_IN"
      BY <2>1 DEF AloneInv, CollectsInside
    <3>3. ~ \E v \in Staff : Idle(v)
      BY <1>2, <2>1 DEF OneRequest, Idle
    <3>4. QED
      BY <2>1, <3>1, <3>2, <3>3, InsideStays
  <2>2. CASE attendees[request'[r].handout.attendee].status = "CHECKED_IN" /\ UNCHANGED attendees
    BY <2>2
  <2>3. QED
    BY <1>1, <2>1, <2>2 DEF Origins
<1>5. CopiesCurrent'
  <2> SUFFICES ASSUME NEW r \in Requests, NEW a \in Attendees, attendeeCopy'[r][a] # NoAttendee
               PROVE  /\ op'[r] = "saveAttendee"
                      /\ \/ attendeeCopy'[r][a].status = attendees'[a].status
                         \/ attendees'[a].status = "REGISTERED" /\ attendeeCopy'[r][a].status = "CANCELLED"
    BY DEF CopiesCurrent
  <2>1. CASE attendeeCopy'[r][a] = attendeeCopy[r][a] /\ (op[r] = "saveAttendee" => op'[r] = "saveAttendee")
    <3>1. /\ op[r] = "saveAttendee" /\ op'[r] = "saveAttendee"
          /\ \/ attendeeCopy[r][a].status = attendees[a].status
             \/ attendees[a].status = "REGISTERED" /\ attendeeCopy[r][a].status = "CANCELLED"
      BY <2>1 DEF AloneInv, CopiesCurrent
    <3>2. attendees[a] # NoAttendee
      BY <2>1 DEF DoorInv, CopiesInEvent
    <3>3. /\ ~ \E v \in Staff : Idle(v)
          /\ \A v \in Editors : v = r
      BY <1>2, <3>1 DEF OneRequest, Idle
    <3>4. attendees'[a].status = attendees[a].status
      BY <1>1, <3>2, <3>3 DEF RowStep
    <3>5. QED
      BY <2>1, <3>1, <3>4
  <2>2. CASE /\ op'[r] = "saveAttendee" /\ UNCHANGED attendees
             /\ \/ attendeeCopy'[r][a].status = attendees[a].status
                \/ attendees[a].status = "REGISTERED" /\ attendeeCopy'[r][a].status = "CANCELLED"
    BY <2>2
  <2>3. QED
    BY <1>1, <2>1, <2>2 DEF Origins
<1>6. DoorAgreesWithLog'
  <2> SUFFICES ASSUME NEW a \in Attendees
               PROVE  attendees'[a].status = "CHECKED_IN" <=> Admitted(a)'
    BY DEF DoorAgreesWithLog
  <2>1. /\ attendees[a].status = "CHECKED_IN" <=> Admitted(a)
        /\ log[a] \in Seq(Outcome) /\ NoAttendee.status # "CHECKED_IN"
    BY <1>1 DEF AloneInv, DoorAgreesWithLog, TypeOK, NoAttendee
  <2>2. CASE log'[a] = log[a]
    <3>1. Admitted(a)' <=> Admitted(a)
      BY <2>2 DEF Admitted
    <3>2. attendees'[a].status = "CHECKED_IN" <=> attendees[a].status = "CHECKED_IN"
      <4>1. CASE attendees[a].status = "CHECKED_IN" /\ attendees'[a].status # "CHECKED_IN"
        BY <1>1, <1>2, <2>1, <2>2, <4>1, LogGrows DEF RowStep, AloneInv, CopiesCurrent, Outcome
      <4>2. CASE attendees[a].status # "CHECKED_IN" /\ attendees'[a].status = "CHECKED_IN"
        BY <1>1, <1>2, <2>1, <2>2, <4>2, LogGrows DEF RowStep, AloneInv, CopiesCurrent, Outcome
      <4>3. QED
        BY <4>1, <4>2
    <3>3. QED
      BY <2>1, <3>1, <3>2
  <2>3. ASSUME NEW x \in Outcome, log'[a] = Append(log[a], x)
        PROVE  /\ x = "CHECKED_IN" => Admitted(a)'
               /\ x = "REVERTED" => ~Admitted(a)'
               /\ x \notin {"CHECKED_IN", "REVERTED"} => (Admitted(a)' <=> Admitted(a))
    <3>1. /\ Len(log[a]) \in Nat /\ DOMAIN log[a] = 1..Len(log[a]) /\ DOMAIN log'[a] = 1..(Len(log[a]) + 1)
          /\ \A i \in 1..Len(log[a]) : log'[a][i] = log[a][i]
          /\ log'[a][Len(log[a]) + 1] = x
      BY <2>1, <2>3, LogGrows
    <3>2. x = "CHECKED_IN" => Admitted(a)'
      BY <3>1 DEF Admitted
    <3>3. x = "REVERTED" => ~Admitted(a)'
      BY <3>1 DEF Admitted
    <3>4. x \notin {"CHECKED_IN", "REVERTED"} => (Admitted(a)' <=> Admitted(a))
      <4> SUFFICES ASSUME x # "CHECKED_IN", x # "REVERTED"
                   PROVE  Admitted(a)' <=> Admitted(a)
        OBVIOUS
      <4>1. ASSUME Admitted(a)' PROVE Admitted(a)
        <5>1. PICK i \in DOMAIN log'[a] :
                /\ log'[a][i] = "CHECKED_IN"
                /\ \A j \in DOMAIN log'[a] : j > i => log'[a][j] # "REVERTED"
          BY <4>1 DEF Admitted
        <5>2. i \in DOMAIN log[a]
          BY <3>1, <5>1
        <5>3. /\ log[a][i] = "CHECKED_IN"
              /\ \A j \in DOMAIN log[a] : j > i => log[a][j] # "REVERTED"
          BY <3>1, <5>1, <5>2
        <5>4. QED
          BY <5>2, <5>3 DEF Admitted
      <4>2. ASSUME Admitted(a) PROVE Admitted(a)'
        <5>1. PICK i \in DOMAIN log[a] :
                /\ log[a][i] = "CHECKED_IN"
                /\ \A j \in DOMAIN log[a] : j > i => log[a][j] # "REVERTED"
          BY <4>2 DEF Admitted
        <5>2. i \in DOMAIN log'[a] /\ log'[a][i] = "CHECKED_IN"
          BY <3>1, <5>1
        <5>3. \A j \in DOMAIN log'[a] : j > i => log'[a][j] # "REVERTED"
          BY <3>1, <5>1
        <5>4. QED
          BY <5>2, <5>3 DEF Admitted
      <4>3. QED
        BY <4>1, <4>2
    <3>5. QED
      BY <3>2, <3>3, <3>4
  <2>4. QED
    BY <1>1, <2>1, <2>2, <2>3 DEF RowStep, Outcome
<1>7. QED
  BY <1>3, <1>4, <1>5, <1>6 DEF AloneInv

\* The invariant of a door that serves one request at a time.
LEMMA AloneHolds == ASSUME OneRequest PROVE Spec => []AloneInv
<1>1. Init => AloneInv
  BY DEF Init, CheckinInit, AloneInv, DoorAgreesWithLog, Admitted, HoldersAreInside, CopiesCurrent,
         CollectsInside, NoAttendee, NoHandout
<1>2. DoorInv /\ AloneInv /\ [Next]_doorVars => AloneInv'
  BY AloneStep
<1>3. QED
  BY <1>1, <1>2, DoorHolds, PTL DEF Spec

\* One request at a time, the log tells who is inside: the row says CHECKED_IN
\* exactly when the last admission was not undone.
THEOREM LogTellsWhoIsIn == ASSUME OneRequest PROVE Spec => []DoorAgreesWithLog
<1>1. AloneInv => DoorAgreesWithLog
  BY DEF AloneInv
<1>2. QED
  BY <1>1, AloneHolds, PTL

\* One request at a time, a handout stays with somebody inside: the guard on
\* the undo and the check before the handout are enough together.
THEOREM HoldersStayInside == ASSUME OneRequest PROVE Spec => []HoldersAreInside
<1>1. AloneInv => HoldersAreInside
  BY DEF AloneInv
<1>2. QED
  BY <1>1, AloneHolds, PTL
=============================================================================
