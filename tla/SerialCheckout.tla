---------------------------- MODULE SerialCheckout ----------------------------
(***************************************************************************)
(* What the checkout promises when requests do not overlap: the properties *)
(* the code states for itself, checked with a single worker.               *)
(***************************************************************************)
EXTENDS Payments

\* quantity_sold of every type is what the live orders hold (CreateOrder,
\* CancelOrder, SweepExpired): the checkout implements the ticket ledger.
Ledger == INSTANCE TicketLedger WITH
    capacity <- [t \in Types |-> IF GetTypeByID(t) THEN types[t].total ELSE 0],
    sold     <- [t \in Types |-> types[t].sold],
    state    <- [o \in OrderIds |->
                    CASE orders[o].status = "NONE"            -> "none"
                      [] orders[o].status = "PENDING_PAYMENT" -> "held"
                      [] orders[o].status = "CONFIRMED"       -> "sold"
                      [] OTHER                                -> "released"],
    units    <- [o \in OrderIds |->
                    [t \in Types |-> IF orders[o].ty = t THEN orders[o].qty ELSE 0]]

\* Every step of the checkout is a step of the ledger or leaves it alone.
ImplementsLedger == Ledger!Spec

\* The accounting carried over to the tables: stock, orders and deletions.
ExactStock == Ledger!ExactAndNeverOversold

\* A live order can always be released: its ticket type is not deleted
\* (DeleteType refuses types with sales).
LiveOrderHasType ==
    \A o \in OrderIds : orders[o].status \in Live => GetTypeByID(orders[o].ty)

\* CANCELLED and EXPIRED are final, and a recorded payment stays recorded.
DeadStaysDead ==
    [][\A o \in OrderIds :
        /\ orders[o].status \in {"CANCELLED", "EXPIRED"} => orders'[o] = orders[o]
        /\ orders[o].paid => orders'[o].paid]_vars

\* Stock, orders and types agree with each other: CreateOrder, CancelOrder, the
\* sweeper, DeleteType and the edits of types keep both tables in step, one
\* request at a time, whatever capacity and plan limit each check meets.
StockAccounted == ExactStock /\ LiveOrderHasType

\* "unpaid holds must never pin inventory forever": every hold ends, paid,
\* cancelled or expired by the sweeper, and its type can then be released.
HoldsEnd ==
    \A o \in OrderIds :
        (orders[o].status = "PENDING_PAYMENT") ~> (orders[o].status # "PENDING_PAYMENT")
=============================================================================
