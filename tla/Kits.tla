--------------------------------- MODULE Kits ---------------------------------
(***************************************************************************)
(* Kits handed out at the door: the kit catalogue, the handouts, and the   *)
(* coupling with check-in in both directions.  A handout asks whether the  *)
(* attendee is checked in before its transaction starts; an undo of the    *)
(* check-in asks for open handouts in its own transaction.                 *)
(*                                                                         *)
(* Collect, UpdateKit and DeleteKit lock the kit row; MarkCollected and    *)
(* Void lock the handout row only.                                         *)
(***************************************************************************)
EXTENDS Checkin, FiniteSets

CONSTANTS
    KitIds,         \* kit ids
    HandoutIds,     \* kit_collections ids
    KitTotals,      \* bound: values of quantity_total an organiser enters
    Keys,           \* idempotency keys tablets send
    NoKey,          \* a request without an idempotency key
    NoKit,          \* kit of a handout that does not exist
    NoOne,          \* attendee of a handout that does not exist
    KitLimits       \* values of MaxKitsPerEvent a plan may grant

ASSUME KitsAssumption ==
    /\ KitTotals \subseteq Nat \ {0}
    /\ NoKey \notin Keys
    /\ NoKit \notin KitIds
    /\ NoOne \notin Attendees
    /\ KitLimits \subseteq Nat
    /\ IsFiniteSet(HandoutIds)

VARIABLES
    kits,       \* the kits table
    handouts,   \* the kit_collections table
    request     \* request[r]: what r is about to insert, a kit or a handout

kitVars == <<kits, handouts, request>>

doorVars == <<checkinVars, kitVars>>

KitRow == [event: Events \cup {NoEvent}, total: Nat]

NoKitRow == [event |-> NoEvent, total |-> 0]

CollectionStatus == {"PENDING", "COLLECTED", "VOIDED"}

HandoutRow == [kit: KitIds \cup {NoKit}, attendee: Attendees \cup {NoOne},
               key: Keys \cup {NoKey}, status: CollectionStatus \cup {"NONE"}]

NoHandout == [kit |-> NoKit, attendee |-> NoOne, key |-> NoKey, status |-> "NONE"]

NoRequest == [kit |-> NoKit, row |-> NoKitRow, handout |-> NoHandout, event |-> NoEvent]

Hold(r, name, req) ==
    /\ Idle(r)
    /\ op' = [op EXCEPT ![r] = name]
    /\ request' = [request EXCEPT ![r] = req]
    /\ UNCHANGED <<attendees, log, attendeeCopy, kits, handouts>>

Done(r) ==
    /\ op' = [op EXCEPT ![r] = "idle"]
    /\ request' = [request EXCEPT ![r] = NoRequest]

(***************************************************************************)
(* Queries                                                                 *)
(***************************************************************************)
ListKitsByEvent(ev) == {k \in KitIds : kits[k].event = ev}

Active(k) == {h \in HandoutIds : handouts[h].kit = k /\ handouts[h].status # "VOIDED"}

\* Mutant: the count forgets the reserved units.
CountActiveCollected(k) ==
    Cardinality({h \in HandoutIds : handouts[h].kit = k /\ handouts[h].status = "COLLECTED"})

CountActive(k) == Cardinality(Active(k))

CountCollected(k) == Cardinality({h \in Active(k) : handouts[h].status = "COLLECTED"})

\* Mutant: reserved units do not keep an attendee checked in.
HasCollectedHandouts(a) ==
    \E h \in HandoutIds : handouts[h].attendee = a /\ handouts[h].status = "COLLECTED"

HasActiveCollections(a) ==
    \E h \in HandoutIds :
        handouts[h].attendee = a /\ handouts[h].status \in {"PENDING", "COLLECTED"}

FindByIdempotency(k, a, key) ==
    \E h \in HandoutIds :
        key # NoKey /\ <<handouts[h].kit, handouts[h].attendee, handouts[h].key>> = <<k, a, key>>

\* Mutant: there is no index on active handouts.
NoActiveIndex(k, a, key) == FALSE

\* The two partial unique indexes of kit_collections.
UniqueViolation(k, a, key) ==
    \/ \E h \in Active(k) : handouts[h].attendee = a
    \/ FindByIdempotency(k, a, key)

(***************************************************************************)
(* The catalogue                                                           *)
(***************************************************************************)
\* The plan's limit is read outside the transaction that inserts, and is that
\* of the plan of the moment.
CreateKit(r, k, ev, n) ==
    /\ kits[k] = NoKitRow
    /\ \A v \in Requests : request[v].kit # k
    /\ \E limit \in KitLimits : Cardinality(ListKitsByEvent(ev)) < limit
    /\ Hold(r, "createKit", [NoRequest EXCEPT !.kit = k, !.row = [event |-> ev, total |-> n]])

InsertKit(r) ==
    /\ op[r] = "createKit"
    /\ kits' = [kits EXCEPT ![request[r].kit] = request[r].row]
    /\ Done(r)
    /\ UNCHANGED <<attendees, log, attendeeCopy, handouts>>

\* The clamp counts COLLECTED handouts; reserved ones are not counted.
UpdateKit(r, k, ev, n) ==
    /\ Idle(r)
    /\ kits[k].event = ev
    /\ n >= CountCollected(k)
    /\ kits' = [kits EXCEPT ![k].total = n]
    /\ UNCHANGED <<checkinVars, handouts, request>>

\* Deleting cascades to the handouts, all VOIDED by then.
DeleteKit(r, k, ev) ==
    /\ Idle(r)
    /\ kits[k].event = ev
    /\ CountActive(k) = 0
    /\ kits' = [kits EXCEPT ![k] = NoKitRow]
    /\ handouts' = [h \in HandoutIds |->
                        IF handouts[h].kit = k THEN NoHandout ELSE handouts[h]]
    /\ UNCHANGED <<checkinVars, request>>

(***************************************************************************)
(* Handing out                                                             *)
(***************************************************************************)
\* Bound: a Collect starts only while an unused handout id is left for it.
IdsLeft ==
    Cardinality({r \in Requests : op[r] = "collect"})
        < Cardinality({h \in HandoutIds : handouts[h] = NoHandout})

\* AttendeeStatusInEvent, read before the transaction.
Collect(r, k, a, ev, reserve, key) ==
    /\ IdsLeft
    /\ attendees[a].event = ev
    /\ attendees[a].status = "CHECKED_IN"
    /\ Hold(r, "collect",
            [NoRequest EXCEPT !.kit = k, !.event = ev,
                !.handout = [kit |-> k, attendee |-> a, key |-> key,
                             status |-> IF reserve THEN "PENDING" ELSE "COLLECTED"]])

\* Mutant: the kit of another event is handed out.
AnyEventKit(r) == kits[request[r].kit] # NoKitRow

\* The kit is still there, and of the event in the request's path.
KitInEvent(r) == kits[request[r].kit].event = request[r].event

MayHandOut(r) ==
    LET want == request[r].handout IN
    /\ KitInEvent(r)
    /\ ~FindByIdempotency(want.kit, want.attendee, want.key)
    /\ CountActive(want.kit) < kits[want.kit].total
    /\ ~UniqueViolation(want.kit, want.attendee, want.key)

\* The transaction on the locked kit row; the attendee is not read again.
CommitCollect(r) ==
    /\ op[r] = "collect"
    /\ MayHandOut(r)
    /\ \E h \in HandoutIds :
        /\ handouts[h] = NoHandout
        /\ handouts' = [handouts EXCEPT ![h] = request[r].handout]
    /\ Done(r)
    /\ UNCHANGED <<attendees, log, attendeeCopy, kits>>

\* Gone, replayed (the existing record is the answer), exhausted, or a duplicate.
RefuseCollect(r) ==
    /\ op[r] = "collect"
    /\ ~MayHandOut(r)
    /\ Done(r)
    /\ UNCHANGED <<attendees, log, attendeeCopy, kits, handouts>>

\* A handout changes state on its own locked row.
Transition(r, h, ev, to, from) ==
    /\ Idle(r)
    /\ handouts[h].status \in from
    /\ kits[handouts[h].kit].event = ev
    /\ handouts' = [handouts EXCEPT ![h].status = to]
    /\ UNCHANGED <<checkinVars, kits, request>>

MarkCollected(r, h, ev) == Transition(r, h, ev, "COLLECTED", {"PENDING"})

Void(r, h, ev) == Transition(r, h, ev, "VOIDED", {"PENDING", "COLLECTED"})

\* The undo of a check-in, guarded by the handouts.
Revert(r, a, ev) ==
    /\ ~HasActiveCollections(a)
    /\ RevertCheckin(r, a, ev)
    /\ UNCHANGED kitVars

-----------------------------------------------------------------------------
Init ==
    /\ CheckinInit
    /\ kits = [k \in KitIds |-> NoKitRow]
    /\ handouts = [h \in HandoutIds |-> NoHandout]
    /\ request = [r \in Requests |-> NoRequest]

KitsNext ==
    \E r \in Staff :
        \/ \E k \in KitIds, ev \in Events :
            \/ \E n \in KitTotals : CreateKit(r, k, ev, n) \/ UpdateKit(r, k, ev, n)
            \/ DeleteKit(r, k, ev)
            \/ \E a \in Attendees, reserve \in BOOLEAN, key \in Keys \cup {NoKey} :
                Collect(r, k, a, ev, reserve, key)
        \/ InsertKit(r)
        \/ CommitCollect(r)
        \/ RefuseCollect(r)
        \/ \E h \in HandoutIds, ev \in Events : MarkCollected(r, h, ev) \/ Void(r, h, ev)
        \/ \E a \in Attendees, ev \in Events : Revert(r, a, ev)

Next == (CheckinNext /\ UNCHANGED kitVars) \/ KitsNext

Spec == Init /\ [][Next]_doorVars

(***************************************************************************)
(* Every variable keeps its shape.                                         *)
(***************************************************************************)
TypeOK ==
    /\ attendees \in [Attendees -> AttendeeRow]
    /\ log \in [Attendees -> Seq(Outcome)]
    /\ op \in [Requests -> {"idle", "saveAttendee", "createKit", "collect"}]
    /\ attendeeCopy \in [Requests -> [Attendees -> AttendeeRow]]
    /\ kits \in [KitIds -> KitRow]
    /\ handouts \in [HandoutIds -> HandoutRow]
    /\ request \in [Requests -> [kit: KitIds \cup {NoKit}, row: KitRow,
                                 handout: HandoutRow, event: Events \cup {NoEvent}]]

\* "One active collection per attendee per kit", and a tablet's retries
\* converge on one record, whatever else the door does meanwhile.
OneHandoutEach ==
    \A g, h \in HandoutIds :
        /\ g # h
        /\ handouts[g] # NoHandout
        /\ <<handouts[g].kit, handouts[g].attendee>> = <<handouts[h].kit, handouts[h].attendee>>
        => /\ "VOIDED" \in {handouts[g].status, handouts[h].status}
           /\ handouts[g].key = handouts[h].key => handouts[g].key = NoKey

\* A handout belongs to a kit that exists, of the attendee's own event: no
\* delete, re-create or late Collect leaves one pointing elsewhere.
HandoutsInScope ==
    \A h \in HandoutIds :
        handouts[h] # NoHandout =>
            /\ kits[handouts[h].kit] # NoKitRow
            /\ kits[handouts[h].kit].event = attendees[handouts[h].attendee].event

\* The oversell guard: a step that adds an active handout leaves the kit
\* within its total.
HandoutsWithinStock ==
    [][\A k \in KitIds :
        Cardinality(Active(k)') > Cardinality(Active(k))
            => Cardinality(Active(k)') <= kits'[k].total]_doorVars

\* Who holds a handout is checked in: a revert is refused "while non-voided
\* handouts exist - void first, then revert" (kit README).
HoldersAreInside ==
    \A h \in HandoutIds :
        handouts[h].status \in {"PENDING", "COLLECTED"} =>
            attendees[handouts[h].attendee].status = "CHECKED_IN"
=============================================================================
