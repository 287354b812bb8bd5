------------------------------- MODULE Payments -------------------------------
(***************************************************************************)
(* The payment domain and the composition of the three domains that sell a *)
(* ticket.  A buyer asks for a Stripe Checkout session, pays on Stripe's   *)
(* page whenever he likes, and Stripe delivers a webhook at least once:    *)
(* delayed, repeated, and again after a crash until it is answered 200.    *)
(* The order id names the session: sessions are idempotency-keyed by order.*)
(***************************************************************************)
EXTENDS Orders

CONSTANT MaxFaults      \* bound: database errors and crashes in a behaviour

ASSUME PaymentsAssumption == MaxFaults \in Nat

VARIABLES
    stripe,     \* stripe[o]: the checkout session of order o at Stripe
    unacked,    \* paid sessions whose webhook Stripe still has to deliver
    faults      \* database errors and crashes so far

paymentVars == <<stripe, unacked, faults>>

vars == <<ticketingVars, orderVars, paymentVars>>

(***************************************************************************)
(* CreateCheckout                                                          *)
(***************************************************************************)
\* CheckoutDetail: the status is read here and the deadline is not.
CreateCheckout(w, o) ==
    /\ GetOrderByID(o)
    /\ orders[o].status = "PENDING_PAYMENT"
    /\ GetTypeByID(orders[o].ty)
    /\ ~orders[o].free
    /\ HoldOrder(w, o, orders[o], "checkout")
    /\ UNCHANGED <<types, typeCopy, orders, lapsed, seats, mailed, paymentVars>>

\* The session exists; SetStripeSession reads the order again and checks it.
SetStripeSession(w) ==
    /\ op[w] = "checkout"
    /\ \E o \in Loaded(w) :
        /\ orders[o].status \in Live
        /\ orderCopy' = [orderCopy EXCEPT ![w][o] = [orders[o] EXCEPT !.session = TRUE]]
    /\ op' = [op EXCEPT ![w] = "linkSession"]
    /\ UNCHANGED <<types, typeCopy, orders, lapsed, seats, mailed, paymentVars>>

\* The order died meanwhile: the buyer gets an error, not the payment page.
RejectSession(w) ==
    /\ op[w] = "checkout"
    /\ \E o \in Loaded(w) : orders[o].status \notin Live
    /\ DropOrders(w)
    /\ Finish(w)
    /\ UNCHANGED <<types, typeCopy, orders, lapsed, seats, mailed, paymentVars>>

\* Save the copy with the session id and hand the payment page to the buyer.
CommitSession(w) ==
    /\ op[w] = "linkSession"
    /\ \E o \in Loaded(w) :
        /\ UpdateOrder(o, orderCopy[w][o])
        /\ stripe' = [stripe EXCEPT ![o] = IF @ = "none" THEN "open" ELSE @]
    /\ DropOrders(w)
    /\ Finish(w)
    /\ UNCHANGED <<types, typeCopy, lapsed, seats, mailed, unacked, faults>>

(***************************************************************************)
(* Stripe (external): the buyer pays, the webhook is delivered             *)
(***************************************************************************)
BuyerPays(o) ==
    /\ stripe[o] = "open"
    /\ stripe' = [stripe EXCEPT ![o] = "paid"]
    /\ unacked' = unacked \cup {o}
    /\ UNCHANGED <<ticketingVars, orderVars, faults>>

(***************************************************************************)
(* HandleWebhook, for a signed checkout.session event that says paid       *)
(***************************************************************************)
\* Mutant: a completed session counts as paid, whatever its payment_status.
MarkPaidUngated(w, o) ==
    /\ stripe[o] # "none"
    /\ orders[o].status = "PENDING_PAYMENT"
    /\ HoldOrder(w, o, [orders[o] EXCEPT !.status = "CONFIRMED",
                                         !.session = TRUE, !.paid = TRUE], "markPaid")
    /\ UNCHANGED <<types, typeCopy, orders, lapsed, seats, mailed, paymentVars>>

\* Mutant: a late payment confirms an order that was given up.
MarkPaidAnyStatus(w, o) ==
    /\ stripe[o] = "paid"
    /\ orders[o].status # "CONFIRMED"
    /\ HoldOrder(w, o, [orders[o] EXCEPT !.status = "CONFIRMED",
                                         !.session = TRUE, !.paid = TRUE], "markPaid")
    /\ UNCHANGED <<types, typeCopy, orders, lapsed, seats, mailed, paymentVars>>

\* MarkPaid accepts the order; its copy is what the transaction will save.
MarkPaid(w, o) ==
    /\ stripe[o] = "paid"
    /\ GetOrderByID(o)
    /\ orders[o].status = "PENDING_PAYMENT"
    /\ HoldOrder(w, o, [orders[o] EXCEPT !.status = "CONFIRMED",
                                         !.session = TRUE, !.paid = TRUE], "markPaid")
    /\ UNCHANGED <<types, typeCopy, orders, lapsed, seats, mailed, paymentVars>>

\* Already CONFIRMED: success.  Any other status: rejected.  Both answer 200.
IgnorePaid(w, o) ==
    /\ Idle(w)
    /\ stripe[o] = "paid"
    /\ orders[o].status # "PENDING_PAYMENT"
    /\ unacked' = unacked \ {o}
    /\ UNCHANGED <<ticketingVars, orderVars, stripe, faults>>

\* Save only: no attendee is minted and no e-mail is enqueued here.
CommitPaid(w) ==
    /\ op[w] = "markPaid"
    /\ \E o \in Loaded(w) :
        /\ UpdateOrder(o, orderCopy[w][o])
        /\ unacked' = unacked \ {o}
    /\ DropOrders(w)
    /\ Finish(w)
    /\ UNCHANGED <<types, typeCopy, lapsed, seats, mailed, stripe, faults>>

(***************************************************************************)
(* Faults                                                                  *)
(***************************************************************************)
\* A crash or a lost connection ends the request with no effect.
Crash(w) ==
    /\ ~Idle(w)
    /\ faults < MaxFaults
    /\ faults' = faults + 1
    /\ DropTypes(w)
    /\ DropOrders(w)
    /\ Finish(w)
    /\ UNCHANGED <<types, orders, lapsed, seats, mailed, stripe, unacked>>

\* The database refuses the fulfilment transaction: the webhook handler
\* answers 200 to every error but a bad signature.
FailPaid(w) ==
    /\ op[w] = "markPaid"
    /\ faults < MaxFaults
    /\ faults' = faults + 1
    /\ unacked' = unacked \ Loaded(w)
    /\ DropOrders(w)
    /\ Finish(w)
    /\ UNCHANGED <<types, typeCopy, orders, lapsed, seats, mailed, stripe>>

-----------------------------------------------------------------------------
PaymentsInit ==
    /\ stripe = [o \in OrderIds |-> "none"]
    /\ unacked = {}
    /\ faults = 0

PaymentsNext ==
    \/ \E w \in Workers :
        \/ \E o \in OrderIds :
            CreateCheckout(w, o) \/ MarkPaid(w, o) \/ IgnorePaid(w, o)
        \/ SetStripeSession(w) \/ RejectSession(w) \/ CommitSession(w)
        \/ CommitPaid(w)
        \/ Crash(w) \/ FailPaid(w)
    \/ \E o \in OrderIds : BuyerPays(o)

Init == TicketingInit /\ OrdersInit /\ PaymentsInit

Next ==
    \/ TicketingNext /\ UNCHANGED <<orderVars, paymentVars>>
    \/ OrdersNext /\ UNCHANGED paymentVars
    \/ PaymentsNext

Spec == Init /\ [][Next]_vars

(***************************************************************************)
(* Fairness.  A request that was started runs to its end; the clock goes   *)
(* on; River starts the periodic sweep every five minutes whatever the     *)
(* requests are doing;                                                     *)
(* Stripe keeps delivering a webhook that was not answered.  Nothing makes *)
(* a buyer pay, an organiser act or a request arrive.                      *)
(***************************************************************************)
Proceed(w) ==
    \/ SaveType(w) /\ UNCHANGED <<orderVars, paymentVars>>
    \/ CommitDelete(w) /\ UNCHANGED <<orderVars, paymentVars>>
    \/ CommitOrder(w) /\ UNCHANGED paymentVars
    \/ RollbackOrder(w) /\ UNCHANGED paymentVars
    \/ CommitCancel(w) /\ UNCHANGED paymentVars
    \/ RollbackCancel(w) /\ UNCHANGED paymentVars
    \/ \E o \in OrderIds : (ExpireOne(w, o) \/ SkipOne(w, o)) /\ UNCHANGED paymentVars
    \/ SetStripeSession(w) \/ RejectSession(w) \/ CommitSession(w) \/ CommitPaid(w)

SweepStarts == \E w \in Workers : SweepExpired(w) /\ UNCHANGED paymentVars

WebhookArrives(o) ==
    o \in unacked /\ \E w \in Workers : MarkPaid(w, o) \/ IgnorePaid(w, o)

FairSpec ==
    /\ Spec
    /\ \A w \in Workers : WF_vars(Proceed(w))
    /\ \A o \in OrderIds : WF_vars(HoldLapses(o) /\ UNCHANGED paymentVars)
    /\ SF_vars(SweepStarts)
    /\ \A o \in OrderIds : SF_vars(WebhookArrives(o))

(***************************************************************************)
(* Every variable keeps its shape: rows of the tables, copies held by the  *)
(* requests, Stripe's view of a session.                                   *)
(***************************************************************************)
OpNames == {"idle", "saveType", "deleteType", "createOrder", "cancelOrder",
            "sweep", "checkout", "linkSession", "markPaid"}

TypeOK ==
    /\ types \in [Types -> TypeRow]
    /\ typeCopy \in [Workers -> [Types -> TypeRow]]
    /\ op \in [Workers -> OpNames]
    /\ orders \in [OrderIds -> OrderRow]
    /\ orderCopy \in [Workers -> [OrderIds -> OrderRow]]
    /\ lapsed \in SUBSET OrderIds
    /\ seats \in [OrderIds -> [Units -> {"NONE", "REGISTERED", "CANCELLED"}]]
    /\ mailed \in SUBSET OrderIds
    /\ stripe \in [OrderIds -> {"none", "open", "paid"}]
    /\ unacked \in SUBSET OrderIds
    /\ faults \in 0..MaxFaults

(***************************************************************************)
(* What holds for any number of concurrent requests                        *)
(***************************************************************************)
\* A client that repeats a request with its idempotency key, even while the
\* first is in flight, never ends up with two orders (CreateOrder replay
\* lookup and the UNIQUE constraint behind it).
OneOrderPerKey ==
    \A o1, o2 \in OrderIds :
        orders[o1].key # NoKey /\ orders[o1].key = orders[o2].key => o1 = o2

\* A priced order reaches CONFIRMED only after Stripe collected the money:
\* no stale Save of a cancel, a sweep or a checkout can confirm it for free.
ConfirmedIsPaid ==
    \A o \in OrderIds :
        orders[o].status = "CONFIRMED" /\ ~orders[o].free => stripe[o] = "paid"

\* The claim transaction of a free order is all or nothing: the order, one
\* attendee row per unit and the confirmation e-mail exist together.
FreeOrderComplete ==
    \A o \in OrderIds :
        orders[o].free =>
            /\ o \in mailed
            /\ {u \in Units : seats[o][u] # "NONE"} = 0..(orders[o].qty - 1)

Claim(row) == <<row.ty, row.qty, row.free, row.key>>

\* What was bought is never rewritten: Save stores every column of a copy
\* that may be old, and still type, quantity, price and key survive.
ClaimNeverRewritten ==
    [][\A o \in OrderIds :
        orders[o] # NoOrder => Claim(orders'[o]) = Claim(orders[o])]_vars
=============================================================================
