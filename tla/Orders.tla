-------------------------------- MODULE Orders --------------------------------
(***************************************************************************)
(* The order domain on top of ticketing: claiming inventory, cancelling,   *)
(* the hold deadline and the sweeper, with the attendee rows and the       *)
(* confirmation e-mail a free order commits in its own transaction.        *)
(*                                                                         *)
(* An order row is read without a lock, changed in memory and saved whole  *)
(* in a later transaction.                                                 *)
(***************************************************************************)
EXTENDS Ticketing

CONSTANTS
    OrderIds,       \* order ids
    Keys,           \* (user, idempotency key) pairs a client may send
    NoKey,          \* a request without an idempotency key
    NoTypeId,       \* type of an order row that does not exist
    RosterRooms,    \* bound: seats the plan leaves to orders, see below
    SweepBatch      \* rows one run of the sweeper loads (100 in the code)

ASSUME OrdersAssumption ==
    /\ IsFiniteSet(OrderIds)
    /\ NoKey \notin Keys
    /\ NoTypeId \notin Types
    /\ RosterRooms \subseteq Nat
    /\ SweepBatch \in Nat \ {0}

VARIABLES
    orders,     \* the orders table
    orderCopy,  \* orderCopy[w][o]: the copy of order o that request w holds
    lapsed,     \* orders whose expires_at has passed
    seats,      \* seats[o][u]: status of the attendee row of unit u of order o
    mailed      \* orders whose confirmation e-mail job was enqueued

orderVars == <<orders, orderCopy, lapsed, seats, mailed>>

Units == 0..(MaxPerOrder - 1)

OrderStatus == {"PENDING_PAYMENT", "CONFIRMED", "CANCELLED", "EXPIRED"}

Live == {"PENDING_PAYMENT", "CONFIRMED"}

OrderRow == [status: OrderStatus \cup {"NONE"}, ty: Types \cup {NoTypeId},
             qty: Nat, free: BOOLEAN, key: Keys \cup {NoKey},
             session: BOOLEAN, paid: BOOLEAN]

NoOrder == [status |-> "NONE", ty |-> NoTypeId, qty |-> 0, free |-> FALSE,
            key |-> NoKey, session |-> FALSE, paid |-> FALSE]

(***************************************************************************)
(* Requests in flight                                                      *)
(***************************************************************************)
Loaded(w) == {o \in OrderIds : orderCopy[w][o] # NoOrder}

HoldOrders(w, rows, name) ==
    /\ Idle(w)
    /\ op' = [op EXCEPT ![w] = name]
    /\ orderCopy' = [orderCopy EXCEPT ![w] = rows]

HoldOrder(w, o, row, name) ==
    HoldOrders(w, [[i \in OrderIds |-> NoOrder] EXCEPT ![o] = row], name)

DropOrders(w) == orderCopy' = [orderCopy EXCEPT ![w] = [o \in OrderIds |-> NoOrder]]

\* UpdateOrder is Save: every column of the copy replaces the stored row.
UpdateOrder(o, row) == orders' = [orders EXCEPT ![o] = row]

(***************************************************************************)
(* Queries                                                                 *)
(***************************************************************************)
GetOrderByID(o) == orders[o] # NoOrder

\* Replays are keyed; an empty key matches nothing (NULL in the table).
KeyTaken(k) == k # NoKey /\ \E o \in OrderIds : orders[o].key = k

\* UNIQUE (user_id, idempotency_key) refuses the insert.
UniqueViolation(k) == KeyTaken(k)

\* CountRoster, the part that orders fill: rows still holding a seat
\* (REGISTERED; check-in keeps it).
Roster == {s \in OrderIds \X Units : seats[s[1]][s[2]] = "REGISTERED"}

\* MaxAttendeesPerEvent less the other rows of the roster.  Both move between
\* two checks: the limit with the plan ("Existing usage is grandfathered"), the
\* rows with AddManual, which registers walk-ins and asks no plan.
CheckAttendeeCapacity(qty) ==
    \E room \in RosterRooms : Cardinality(Roster) + qty <= room

\* Mutant: the comparison with the deadline is the wrong way round.
UnexpiredPending ==
    {o \in OrderIds \ lapsed : orders[o].status = "PENDING_PAYMENT"}

ExpiredPending ==
    {o \in lapsed : orders[o].status = "PENDING_PAYMENT"}

(***************************************************************************)
(* CreateOrder                                                             *)
(***************************************************************************)
\* Replay lookup, availability, caps; the order is built in memory with its
\* price snapshot.  Refusals change nothing and are no step.
CreateOrder(w, o, t, qty, k) ==
    /\ orders[o] = NoOrder
    /\ \A v \in Workers : orderCopy[v][o] = NoOrder
    /\ ~KeyTaken(k)
    /\ \E published \in BOOLEAN, phase \in {"before", "open", "after"} :
        InspectType(t, published, phase)
    /\ qty <= MaxPerOrder
    /\ CheckAttendeeCapacity(qty)
    /\ HoldOrder(w, o,
            [status |-> IF types[t].free THEN "CONFIRMED" ELSE "PENDING_PAYMENT",
             ty |-> t, qty |-> qty, free |-> types[t].free, key |-> k,
             session |-> FALSE, paid |-> FALSE],
            "createOrder")
    /\ UNCHANGED <<types, typeCopy, orders, lapsed, seats, mailed>>

\* MintForOrder: one REGISTERED row per unit, existing (order, unit) kept.
MintForOrder(o, qty) ==
    seats' = [seats EXCEPT ![o] =
        [u \in Units |-> IF u < qty /\ @[u] = "NONE" THEN "REGISTERED" ELSE @[u]]]

\* The claim transaction: hold, insert, and for a free order mint and e-mail.
CommitOrder(w) ==
    /\ op[w] = "createOrder"
    /\ \E o \in Loaded(w) :
        LET row == orderCopy[w][o] IN
        /\ ReserveTx(row.ty, row.qty)
        /\ ~UniqueViolation(row.key)
        /\ UpdateOrder(o, row)
        /\ IF row.status = "CONFIRMED"
           THEN MintForOrder(o, row.qty) /\ mailed' = mailed \cup {o}
           ELSE UNCHANGED <<seats, mailed>>
    /\ DropOrders(w)
    /\ Finish(w)
    /\ UNCHANGED <<typeCopy, lapsed>>

\* The reservation is refused, or UNIQUE(user_id, idempotency_key) fails the
\* insert: the transaction rolls back, reservation included.
RollbackOrder(w) ==
    /\ op[w] = "createOrder"
    /\ \E o \in Loaded(w) :
        LET row == orderCopy[w][o] IN
        ~CanReserve(row.ty, row.qty) \/ UniqueViolation(row.key)
    /\ DropOrders(w)
    /\ Finish(w)
    /\ UNCHANGED <<types, typeCopy, orders, lapsed, seats, mailed>>

(***************************************************************************)
(* CancelOrder: any live order, by its owner or an organisation admin      *)
(***************************************************************************)
\* Mutant: cancelling frees the idempotency key.
CancelOrderFreesKey(w, o) ==
    /\ GetOrderByID(o)
    /\ orders[o].status \in Live
    /\ HoldOrder(w, o, [orders[o] EXCEPT !.key = NoKey], "cancelOrder")
    /\ UNCHANGED <<types, typeCopy, orders, lapsed, seats, mailed>>

CancelOrder(w, o) ==
    /\ GetOrderByID(o)
    /\ orders[o].status \in Live
    /\ HoldOrder(w, o, orders[o], "cancelOrder")
    /\ UNCHANGED <<types, typeCopy, orders, lapsed, seats, mailed>>

\* Mutant: the payment is cleared with the cancellation.
CommitCancelForgetsPayment(w) ==
    /\ op[w] = "cancelOrder"
    /\ \E o \in Loaded(w) :
        LET row == orderCopy[w][o] IN
        /\ ReleaseTx(row.ty, row.qty)
        /\ UpdateOrder(o, [row EXCEPT !.status = "CANCELLED", !.paid = FALSE])
    /\ DropOrders(w)
    /\ Finish(w)
    /\ UNCHANGED <<typeCopy, lapsed, seats, mailed>>

\* Release, then Save the copy as CANCELLED.  Attendee rows are not touched.
CommitCancel(w) ==
    /\ op[w] = "cancelOrder"
    /\ \E o \in Loaded(w) :
        LET row == orderCopy[w][o] IN
        /\ ReleaseTx(row.ty, row.qty)
        /\ UpdateOrder(o, [row EXCEPT !.status = "CANCELLED"])
    /\ DropOrders(w)
    /\ Finish(w)
    /\ UNCHANGED <<typeCopy, lapsed, seats, mailed>>

RollbackCancel(w) ==
    /\ op[w] = "cancelOrder"
    /\ \E o \in Loaded(w) : ~CanRelease(orderCopy[w][o].ty, orderCopy[w][o].qty)
    /\ DropOrders(w)
    /\ Finish(w)
    /\ UNCHANGED <<types, typeCopy, orders, lapsed, seats, mailed>>

(***************************************************************************)
(* The hold deadline and the sweeper job                                   *)
(***************************************************************************)
\* The clock passes expires_at of a hold.
HoldLapses(o) ==
    /\ orders[o].status = "PENDING_PAYMENT"
    /\ o \notin lapsed
    /\ lapsed' = lapsed \cup {o}
    /\ UNCHANGED <<ticketingVars, orders, orderCopy, seats, mailed>>

\* SweepExpired loads one batch of overdue rows (no ORDER BY: any batch).
SweepExpired(w) ==
    /\ ExpiredPending # {}
    /\ \E batch \in SUBSET ExpiredPending :
        /\ batch # {}
        /\ Cardinality(batch) <= SweepBatch
        /\ batch = ExpiredPending \/ Cardinality(batch) = SweepBatch
        /\ HoldOrders(w, [o \in OrderIds |-> IF o \in batch THEN orders[o] ELSE NoOrder],
                      "sweep")
    /\ UNCHANGED <<types, typeCopy, orders, lapsed, seats, mailed>>

\* The loop of SweepExpired moves on to its next row, or returns.
NextOfBatch(w, o) ==
    /\ orderCopy' = [orderCopy EXCEPT ![w][o] = NoOrder]
    /\ op' = [op EXCEPT ![w] = IF Loaded(w) = {o} THEN "idle" ELSE "sweep"]

\* Mutant: the hold expires and keeps its units.
ExpireWithoutRelease(w, o) ==
    /\ op[w] = "sweep"
    /\ o \in Loaded(w)
    /\ UpdateOrder(o, [orderCopy[w][o] EXCEPT !.status = "EXPIRED"])
    /\ NextOfBatch(w, o)
    /\ UNCHANGED <<types, typeCopy, lapsed, seats, mailed>>

\* expireOne: release, then Save the copy taken when the batch was loaded.
ExpireOne(w, o) ==
    /\ op[w] = "sweep"
    /\ o \in Loaded(w)
    /\ ReleaseTx(orderCopy[w][o].ty, orderCopy[w][o].qty)
    /\ UpdateOrder(o, [orderCopy[w][o] EXCEPT !.status = "EXPIRED"])
    /\ NextOfBatch(w, o)
    /\ UNCHANGED <<typeCopy, lapsed, seats, mailed>>

\* A row that cannot be released is logged and skipped until the next run.
SkipOne(w, o) ==
    /\ op[w] = "sweep"
    /\ o \in Loaded(w)
    /\ ~CanRelease(orderCopy[w][o].ty, orderCopy[w][o].qty)
    /\ NextOfBatch(w, o)
    /\ UNCHANGED <<types, typeCopy, orders, lapsed, seats, mailed>>

(***************************************************************************)
(* The attendee's own cancellation frees the seat, not the inventory       *)
(***************************************************************************)
CancelMine(o, u) ==
    /\ seats[o][u] = "REGISTERED"
    /\ seats' = [seats EXCEPT ![o][u] = "CANCELLED"]
    /\ UNCHANGED <<ticketingVars, orders, orderCopy, lapsed, mailed>>

-----------------------------------------------------------------------------
OrdersInit ==
    /\ orders = [o \in OrderIds |-> NoOrder]
    /\ orderCopy = [w \in Workers |-> [o \in OrderIds |-> NoOrder]]
    /\ lapsed = {}
    /\ seats = [o \in OrderIds |-> [u \in Units |-> "NONE"]]
    /\ mailed = {}

OrdersNext ==
    \/ \E w \in Workers :
        \/ \E o \in OrderIds, t \in Types, qty \in 1..MaxPerOrder,
              k \in Keys \cup {NoKey} : CreateOrder(w, o, t, qty, k)
        \/ CommitOrder(w) \/ RollbackOrder(w)
        \/ \E o \in OrderIds : CancelOrder(w, o)
        \/ CommitCancel(w) \/ RollbackCancel(w)
        \/ SweepExpired(w)
        \/ \E o \in OrderIds : ExpireOne(w, o) \/ SkipOne(w, o)
    \/ \E o \in OrderIds :
        \/ HoldLapses(o)
        \/ \E u \in Units : CancelMine(o, u)
=============================================================================
