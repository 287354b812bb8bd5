-------------------------- MODULE CheckoutInvariants --------------------------
(***************************************************************************)
(* Why the safety properties of Payments hold: what is true of the copies  *)
(* requests hold in memory while other requests commit.  A Save stores a   *)
(* copy whole, so every fact about the tables needs its counterpart about  *)
(* the copies; together they are preserved by every step.                  *)
(***************************************************************************)
EXTENDS Payments

\* A copy of a ticket type, whenever it is saved, is a type not oversold.
CopiesInStock ==
    \A w \in Workers, t \in Types : typeCopy[w][t].sold \in 0..typeCopy[w][t].total

\* Only an order that was paid for, or is free, waits in memory as CONFIRMED.
CopiesPaid ==
    \A w \in Workers, o \in OrderIds :
        orderCopy[w][o].status = "CONFIRMED" /\ ~orderCopy[w][o].free
            => stripe[o] = "paid"

\* A handler that works on an existing order has its claim right, however
\* old the rest of the copy is.
CopiesMatch ==
    \A w \in Workers : \A o \in Loaded(w) :
        op[w] # "createOrder" =>
            orders[o] # NoOrder /\ Claim(orderCopy[w][o]) = Claim(orders[o])

\* An order under construction is known to its request alone; it is built
\* CONFIRMED exactly when it costs nothing, for a quantity within the limit.
DraftsAreFresh ==
    \A w \in Workers : \A o \in Loaded(w) :
        op[w] = "createOrder" =>
            /\ orders[o] = NoOrder
            /\ \A v \in Workers \ {w} : o \notin Loaded(v)
            /\ orderCopy[w][o].free <=> orderCopy[w][o].status = "CONFIRMED"
            /\ orderCopy[w][o].qty \in 1..MaxPerOrder

\* An order that does not exist has no attendees.
NoOrderNoSeats ==
    \A o \in OrderIds : orders[o] = NoOrder => \A u \in Units : seats[o][u] = "NONE"

StockInv == SoldWithinTotal /\ CopiesInStock

PaidInv == ConfirmedIsPaid /\ CopiesPaid

ClaimInv ==
    /\ CopiesMatch
    /\ DraftsAreFresh
    /\ OneOrderPerKey
    /\ NoOrderNoSeats
    /\ FreeOrderComplete

\* The invariant every step preserves, for any number of requests in flight.
CheckoutInv == StockInv /\ PaidInv /\ ClaimInv
=============================================================================
