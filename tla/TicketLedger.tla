----------------------------- MODULE TicketLedger -----------------------------
(***************************************************************************)
(* What selling tickets promises, with no requests, copies or payments: a  *)
(* claim takes its units from a ticket type once and gives them back at    *)
(* most once, and a type is never offered below what was taken from it.    *)
(***************************************************************************)
EXTENDS Integers, Functions

CONSTANTS Types, OrderIds, Totals, MaxPerOrder

VARIABLES
    capacity,   \* units a type offers
    sold,       \* units taken from it
    state,      \* state[o]: "none", "held", "sold" or "released"
    units       \* units[o][t]: the units of t that order o claimed

ledgerVars == <<capacity, sold, state, units>>

Active == {"held", "sold"}

Offer(t, n) ==
    /\ n >= sold[t]
    /\ capacity' = [capacity EXCEPT ![t] = n]
    /\ UNCHANGED <<sold, state, units>>

TakeUnits(o, t, n, as) ==
    /\ state[o] = "none"
    /\ sold[t] + n <= capacity[t]
    /\ sold' = [sold EXCEPT ![t] = @ + n]
    /\ state' = [state EXCEPT ![o] = as]
    /\ units' = [units EXCEPT ![o][t] = n]
    /\ UNCHANGED capacity

Confirm(o) ==
    /\ state[o] = "held"
    /\ state' = [state EXCEPT ![o] = "sold"]
    /\ UNCHANGED <<capacity, sold, units>>

GiveBack(o) ==
    /\ state[o] \in Active
    /\ state' = [state EXCEPT ![o] = "released"]
    /\ sold' = [t \in Types |-> sold[t] - units[o][t]]
    /\ UNCHANGED <<capacity, units>>

Init ==
    /\ capacity = [t \in Types |-> 0]
    /\ sold = [t \in Types |-> 0]
    /\ state = [o \in OrderIds |-> "none"]
    /\ units = [o \in OrderIds |-> [t \in Types |-> 0]]

Next ==
    \/ \E t \in Types, n \in Totals \cup {0} : Offer(t, n)
    \/ \E o \in OrderIds, t \in Types, n \in 1..MaxPerOrder, as \in Active :
        TakeUnits(o, t, n, as)
    \/ \E o \in OrderIds : Confirm(o) \/ GiveBack(o)

Spec == Init /\ [][Next]_ledgerVars

\* Units of t claimed by the orders that are still active.
ActiveUnits(t) ==
    SumFunctionOnSet([o \in OrderIds |-> units[o][t]],
                     {o \in OrderIds : state[o] \in Active})

\* The ledger is exact and never oversold: quantity_sold is the sum of the
\* active claims, and that sum fits what the type offers.
ExactAndNeverOversold ==
    \A t \in Types : sold[t] = ActiveUnits(t) /\ sold[t] <= capacity[t]
=============================================================================
