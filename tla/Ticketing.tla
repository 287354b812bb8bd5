------------------------------ MODULE Ticketing ------------------------------
(***************************************************************************)
(* The ticketing domain: the ticket_types table of one event, the          *)
(* organiser's handlers that edit it, and the row-locked Reserve / Release *)
(* operations the order domain joins to its own transactions.              *)
(*                                                                         *)
(* A handler is two steps: one that reads rows, checks them and keeps a    *)
(* copy in memory, and one that writes.  The write is GORM's Save, which   *)
(* stores every column of the copy, so whatever another request committed  *)
(* in between is overwritten.  A database transaction is one step.         *)
(***************************************************************************)
EXTENDS Integers, FiniteSets, Functions

CONSTANTS
    Workers,        \* goroutines: HTTP requests, webhook deliveries, jobs
    Types,          \* ticket type ids
    Totals,         \* bound: values of quantity_total an organiser enters
    Prices,         \* bound: an organiser may enter free (TRUE), priced (FALSE)
    MaxPerOrder,    \* max_per_order of every type
    Capacities      \* bound: capacities an organiser gives the event

ASSUME TicketingAssumption ==
    /\ IsFiniteSet(Types)
    /\ Totals \subseteq Nat \ {0}
    /\ Prices \subseteq BOOLEAN
    /\ MaxPerOrder \in Nat \ {0}
    /\ Capacities \subseteq Nat

VARIABLES
    types,      \* the ticket_types table
    typeCopy,   \* typeCopy[w][t]: the row of t that request w is about to write
    op          \* op[w]: the handler request w is in, between read and write

ticketingVars == <<types, typeCopy, op>>

TicketStatus == {"DRAFT", "ACTIVE", "PAUSED"}

TypeRow == [status: TicketStatus \cup {"NONE"}, total: Nat, sold: Nat,
            free: BOOLEAN, deleted: BOOLEAN]

NoType == [status |-> "NONE", total |-> 0, sold |-> 0,
           free |-> FALSE, deleted |-> FALSE]

(***************************************************************************)
(* Requests in flight                                                      *)
(***************************************************************************)
Idle(w) == op[w] = "idle"

\* Request w has read and checked its rows; it holds row as its copy of t.
HoldType(w, t, row, name) ==
    /\ Idle(w)
    /\ op' = [op EXCEPT ![w] = name]
    /\ typeCopy' = [typeCopy EXCEPT ![w][t] = row]
    /\ UNCHANGED types

DropTypes(w) == typeCopy' = [typeCopy EXCEPT ![w] = [t \in Types |-> NoType]]

Finish(w) == op' = [op EXCEPT ![w] = "idle"]

(***************************************************************************)
(* Queries                                                                 *)
(***************************************************************************)
\* First(&t, "id = ?") skips soft-deleted rows.
GetTypeByID(t) == types[t].status # "NONE" /\ ~types[t].deleted

AllocatedTotal(except) ==
    SumFunctionOnSet([t \in Types |-> types[t].total],
                     {t \in Types \ {except} : GetTypeByID(t)})

\* UpdateEvent changes the capacity whatever is allocated, so each check may
\* meet another one; no capacity is one that all types together fit.
CheckEventHeadroom(t, qty) ==
    \E capacity \in Capacities : AllocatedTotal(t) + qty <= capacity

\* For sale now: published comes from the event domain's cache, phase from
\* the clock and the sale window.  The reason for a refusal is left out.
Availability(row, published, phase) ==
    published /\ row.status = "ACTIVE" /\ phase = "open" /\ row.sold < row.total

InspectType(t, published, phase) ==
    GetTypeByID(t) /\ Availability(types[t], published, phase)

(***************************************************************************)
(* Row-locked inventory, joined to the caller's transaction                *)
(***************************************************************************)
\* Mutant: the locked row is not compared with its total.
CanReserveSoldOut(t, n) ==
    n > 0 /\ GetTypeByID(t) /\ types[t].status = "ACTIVE" /\ n <= MaxPerOrder

CanReserve(t, n) ==
    /\ n > 0
    /\ GetTypeByID(t)
    /\ types[t].status = "ACTIVE"
    /\ n <= MaxPerOrder
    /\ types[t].sold + n <= types[t].total

\* Mutant: releasing trusts its caller.
CanReleaseBelowZero(t, n) == n > 0 /\ GetTypeByID(t)

CanRelease(t, n) ==
    /\ n > 0
    /\ GetTypeByID(t)
    /\ types[t].sold - n >= 0

AddSold(t, n) == types' = [types EXCEPT ![t].sold = @ + n]

ReserveTx(t, n) == CanReserve(t, n) /\ AddSold(t, n)

ReleaseTx(t, n) == CanRelease(t, n) /\ AddSold(t, -n)

(***************************************************************************)
(* Organiser handlers: read and check                                      *)
(***************************************************************************)
CreateType(w, t, qty, free) ==
    /\ types[t] = NoType
    /\ \A v \in Workers : typeCopy[v][t] = NoType
    /\ CheckEventHeadroom(t, qty)
    /\ HoldType(w, t, [NoType EXCEPT !.status = "DRAFT", !.total = qty,
                                     !.free = free], "saveType")

\* Mutant: the quantity may be cut below what was sold.
UpdateTypeBelowSold(w, t, qty, free) ==
    /\ GetTypeByID(t)
    /\ CheckEventHeadroom(t, qty)
    /\ HoldType(w, t, [types[t] EXCEPT !.total = qty, !.free = free], "saveType")

UpdateType(w, t, qty, free) ==
    /\ GetTypeByID(t)
    /\ qty >= types[t].sold
    /\ CheckEventHeadroom(t, qty)
    /\ HoldType(w, t, [types[t] EXCEPT !.total = qty, !.free = free], "saveType")

SetStatus(w, t, to, from) ==
    /\ GetTypeByID(t)
    /\ types[t].status \in from
    /\ HoldType(w, t, [types[t] EXCEPT !.status = to], "saveType")

Activate(w, t) == SetStatus(w, t, "ACTIVE", {"DRAFT", "PAUSED"})

Pause(w, t) == SetStatus(w, t, "PAUSED", {"ACTIVE"})

DeleteType(w, t) ==
    /\ GetTypeByID(t)
    /\ types[t].sold = 0
    /\ HoldType(w, t, types[t], "deleteType")

(***************************************************************************)
(* Organiser handlers: write                                               *)
(***************************************************************************)
\* Save stores the whole copy, quantity_sold and deleted_at included; on a
\* row deleted meanwhile GORM falls back to an upsert, which revives it.
SaveType(w) ==
    /\ op[w] = "saveType"
    /\ \E t \in Types :
        /\ typeCopy[w][t] # NoType
        /\ types' = [types EXCEPT ![t] = typeCopy[w][t]]
    /\ DropTypes(w)
    /\ Finish(w)

\* Delete on a model with deleted_at only stamps it; sold is not read again.
CommitDelete(w) ==
    /\ op[w] = "deleteType"
    /\ \E t \in Types :
        /\ typeCopy[w][t] # NoType
        /\ types' = [types EXCEPT ![t].deleted = TRUE]
    /\ DropTypes(w)
    /\ Finish(w)

-----------------------------------------------------------------------------
TicketingInit ==
    /\ types = [t \in Types |-> NoType]
    /\ typeCopy = [w \in Workers |-> [t \in Types |-> NoType]]
    /\ op = [w \in Workers |-> "idle"]

TicketingNext ==
    \E w \in Workers :
        \/ \E t \in Types :
            \/ \E qty \in Totals, free \in Prices :
                CreateType(w, t, qty, free) \/ UpdateType(w, t, qty, free)
            \/ Activate(w, t)
            \/ Pause(w, t)
            \/ DeleteType(w, t)
        \/ SaveType(w)
        \/ CommitDelete(w)

(***************************************************************************)
(* quantity_sold never passes quantity_total and never drops below zero in *)
(* the stored row, whatever the interleaving of reservations, releases and *)
(* organiser edits: "sold can never overshoot" (ticketing README).         *)
(***************************************************************************)
SoldWithinTotal == \A t \in Types : types[t].sold \in 0..types[t].total
=============================================================================
