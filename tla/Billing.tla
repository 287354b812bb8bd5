------------------------------- MODULE Billing -------------------------------
(***************************************************************************)
(* Organization subscriptions over Stripe Billing: checkout, the Customer  *)
(* Portal and the five billing events of the webhook.                      *)
(*                                                                         *)
(* No handler takes a lock or opens a transaction.  Each one reads the     *)
(* row, changes its copy and saves all columns, so a handler is a read     *)
(* step that leaves the copy in op[w] and a write step.  Time is the       *)
(* number of days left of a grace window: Day counts every stamp down, in  *)
(* the table and in the copies.                                            *)
(*                                                                         *)
(* The variable ordered is chosen once: TRUE is a deployment where events  *)
(* arrive in the order they were sent and requests run one at a time,      *)
(* FALSE one where neither is guaranteed, which is what Stripe promises.   *)
(* Every row is written with a customer id, so a row stands for one.       *)
(***************************************************************************)
EXTENDS Integers, FiniteSets

CONSTANTS
    Orgs,       \* organizations
    Subs,       \* checkout sessions and the subscriptions bought with them
    Workers,    \* concurrent requests, webhook deliveries included
    NoSub,      \* the empty stripe_subscription_id
    GraceDays,  \* PastDueGraceDays
    MaxEvents,  \* bound: events Stripe ever sends, delivered in order
    Alone,      \* the worker that serves every request when order is guaranteed
    RacingSubs, \* bound: the sessions opened when order is not guaranteed
    MaxRacing,  \* bound: the events sent when order is not guaranteed
    MaxLost     \* bound: deliveries that go wrong, delivered in order

ASSUME BillingAssumption ==
    /\ NoSub \notin Subs /\ Alone \in Workers /\ RacingSubs \subseteq Subs
    /\ GraceDays \in Nat \ {0} /\ MaxLost \in Nat
    /\ MaxEvents \in Nat /\ MaxRacing \in 0..MaxEvents

VARIABLES
    rows,       \* org_subscriptions, by organization
    stripe,     \* Stripe's own subscriptions
    events,     \* events Stripe has sent and not seen answered
    sent,       \* number of events ever sent
    lost,       \* number of deliveries that went wrong, delivered in order
    missed,     \* history: what a database error dropped, delivered in order
    op,         \* op[w]: what request w does next
    ordered     \* the deployment, see above

vars == <<rows, stripe, events, sent, lost, missed, op, ordered>>

Plans == {"FREE", "PRO", "SCALE"}
Paid == {"PRO", "SCALE"}
SubStatus == {"ACTIVE", "PAST_DUE", "CANCELED"}

NoGrace == -1

OrgSubscription ==
    [plan: Plans \cup {"none"}, status: SubStatus, sub: Subs \cup {NoSub},
     cancel: BOOLEAN, grace: {NoGrace} \cup 0..GraceDays]

\* An organization without a row.
NoRow == [plan |-> "none", status |-> "ACTIVE", sub |-> NoSub,
          cancel |-> FALSE, grace |-> NoGrace]

StripeStatus == {"none", "open", "active", "past_due", "unpaid", "paused", "canceled"}

StripeSub == [org: Orgs, plan: Paid, status: StripeStatus, cancel: BOOLEAN]

EventKinds == {"completed", "invoicePaid", "invoiceFailed", "updated", "deleted"}

\* What is remembered of an event that a database error dropped.
Miss == [sub: Subs, kind: EventKinds]

\* An event carries the subscription as it was when the event was sent.
Event == [n: 1..MaxEvents, kind: EventKinds, sub: Subs, status: StripeStatus, cancel: BOOLEAN]

Op == [do: {"idle"}]
      \cup [do: {"customer", "createCustomer", "session"}, org: Orgs, plan: Paid]
      \cup [do: {"upsertCustomer"}, org: Orgs, plan: Paid, found: BOOLEAN]
      \cup [do: {"upsert"}, org: Orgs, row: OrgSubscription, found: BOOLEAN, event: Event]
      \cup [do: {"save"}, org: Orgs, row: OrgSubscription, event: Event]

Idle(w) == op[w].do = "idle"
Doing(w, what) == op[w].do = what
Hold(w, next) == op' = [op EXCEPT ![w] = next]
Done(w) == Hold(w, [do |-> "idle"])

\* A request may start now.
MayStart(w) == Idle(w) /\ (ordered => w = Alone)

HasRow(o) == rows[o].plan # "none"

GetBySubscriptionID(s) == {o \in Orgs : rows[o].sub = s}

(***************************************************************************)
(* Entitlements                                                            *)
(***************************************************************************)
EntitlementFor(o) ==
    LET r == rows[o] IN
    IF \/ r.status = "ACTIVE" /\ HasRow(o)
       \/ r.status = "PAST_DUE" /\ (r.grace = NoGrace \/ r.grace > 0)
    THEN r.plan ELSE "FREE"

(***************************************************************************)
(* Checkout                                                                *)
(***************************************************************************)
\* The caller is an owner and the plan has a price; a refused call is no step.
StartCheckout(w, o, p) ==
    /\ MayStart(w)
    /\ ~(rows[o].status = "ACTIVE" /\ rows[o].plan = p /\ rows[o].sub # NoSub)
    /\ Hold(w, [do |-> "customer", org |-> o, plan |-> p])
    /\ UNCHANGED <<rows, stripe, events, sent, lost, missed, ordered>>

\* The row names the customer, or Stripe creates one.
GetOrCreateCustomer(w) ==
    /\ Doing(w, "customer")
    /\ Hold(w, [op[w] EXCEPT !.do = IF HasRow(op[w].org) THEN "session" ELSE "createCustomer"])
    /\ UNCHANGED <<rows, stripe, events, sent, lost, missed, ordered>>

\* Upsert looks for the row first ...
FindCustomerRow(w) ==
    /\ Doing(w, "createCustomer")
    /\ Hold(w, [do |-> "upsertCustomer", org |-> op[w].org, plan |-> op[w].plan,
                found |-> HasRow(op[w].org)])
    /\ UNCHANGED <<rows, stripe, events, sent, lost, missed, ordered>>

\* Mutant: the plan is granted when the checkout starts.
GrantedCustomerRow == [NoRow EXCEPT !.plan = "PRO"]

NewCustomerRow == [NoRow EXCEPT !.plan = "FREE"]

\* ... and then creates it, or saves over all its columns.
UpsertCustomer(w) ==
    /\ Doing(w, "upsertCustomer")
    /\ op[w].found \/ ~HasRow(op[w].org)
    /\ rows' = [rows EXCEPT ![op[w].org] = NewCustomerRow]
    /\ Hold(w, [do |-> "session", org |-> op[w].org, plan |-> op[w].plan])
    /\ UNCHANGED <<stripe, events, sent, lost, missed, ordered>>

\* The insert meets the unique org_id: the request fails.
CustomerConflict(w) ==
    /\ Doing(w, "upsertCustomer")
    /\ ~op[w].found /\ HasRow(op[w].org)
    /\ Done(w)
    /\ UNCHANGED <<rows, stripe, events, sent, lost, missed, ordered>>

CreateSubscriptionCheckout(w, s) ==
    /\ Doing(w, "session")
    /\ stripe[s].status = "none" /\ (ordered \/ s \in RacingSubs)
    /\ stripe' = [stripe EXCEPT ![s] = [org |-> op[w].org, plan |-> op[w].plan,
                                        status |-> "open", cancel |-> FALSE]]
    /\ Done(w)
    /\ UNCHANGED <<rows, events, sent, lost, missed, ordered>>

\* A query or a call to Stripe fails and the request with it.
CheckoutFails(w) ==
    /\ op[w].do \in {"customer", "createCustomer", "upsertCustomer", "session"}
    /\ Done(w)
    /\ UNCHANGED <<rows, stripe, events, sent, lost, missed, ordered>>

\* The portal opens for an organization that has a customer.
CreatePortalSession(o) == HasRow(o)

(***************************************************************************)
(* Stripe                                                                  *)
(***************************************************************************)
EventOf(s, kind, next, n) ==
    [n |-> n, kind |-> kind, sub |-> s, status |-> next.status, cancel |-> next.cancel]

EventsLeft(k) == sent + k <= IF ordered THEN MaxEvents ELSE MaxRacing

\* Stripe moves subscription s to next and sends one event of kind k.
Send(s, next, k) ==
    /\ EventsLeft(1)
    /\ stripe' = [stripe EXCEPT ![s] = next]
    /\ events' = events \cup {EventOf(s, k, next, sent + 1)}
    /\ sent' = sent + 1
    /\ UNCHANGED <<rows, lost, missed, op, ordered>>

Send2(s, next, k1, k2) ==
    /\ EventsLeft(2)
    /\ stripe' = [stripe EXCEPT ![s] = next]
    /\ events' = events \cup {EventOf(s, k1, next, sent + 1), EventOf(s, k2, next, sent + 2)}
    /\ sent' = sent + 2
    /\ UNCHANGED <<rows, lost, missed, op, ordered>>

Becomes(s, status) == [stripe[s] EXCEPT !.status = status]

BuyerSubscribes(s) ==
    /\ stripe[s].status = "open"
    /\ \/ Send2(s, Becomes(s, "active"), "completed", "invoicePaid")
       \/ Send2(s, Becomes(s, "active"), "invoicePaid", "completed")

InvoiceIsPaid(s) ==
    \/ stripe[s].status = "active" /\ Send(s, stripe[s], "invoicePaid")
    \/ /\ stripe[s].status \in {"past_due", "unpaid"}
       /\ Send2(s, Becomes(s, "active"), "invoicePaid", "updated")

InvoiceFails(s) ==
    \/ stripe[s].status = "active" /\ Send2(s, Becomes(s, "past_due"), "invoiceFailed", "updated")
    \/ stripe[s].status = "past_due" /\ Send(s, stripe[s], "invoiceFailed")

StripeGivesUp(s) ==
    /\ stripe[s].status = "past_due"
    /\ \/ Send(s, Becomes(s, "unpaid"), "updated")
       \/ Send(s, Becomes(s, "canceled"), "deleted")

PausesOrResumes(s) ==
    \/ stripe[s].status = "active" /\ Send(s, Becomes(s, "paused"), "updated")
    \/ stripe[s].status = "paused" /\ Send(s, Becomes(s, "active"), "updated")

\* The owner cancels at the period's end, or changes their mind.
PortalCancels(s) ==
    /\ CreatePortalSession(stripe[s].org)
    /\ stripe[s].status \in {"active", "past_due"}
    /\ Send(s, [stripe[s] EXCEPT !.cancel = ~@], "updated")

PeriodEnds(s) ==
    /\ stripe[s].status = "active" /\ stripe[s].cancel
    /\ Send(s, Becomes(s, "canceled"), "deleted")

(***************************************************************************)
(* The webhook                                                             *)
(***************************************************************************)
\* Out of order, a second delivery is two requests that receive one event.
LossesLeft == ordered /\ lost < MaxLost

\* Every outcome past the signature check is answered 200, which ends the
\* event unless the answer is lost: then Stripe sends the event again.
StripeWebhook(e) ==
    \/ events' = events \ {e} /\ UNCHANGED lost
    \/ LossesLeft /\ lost' = lost + 1 /\ UNCHANGED events

\* Request w receives event e.
Receives(w, e) ==
    /\ MayStart(w)
    /\ e \in events
    /\ ordered => \A f \in events : e.n <= f.n

\* GetSubscription may fail, which leaves the flag as it was.
CancelFlags(e, old) == {stripe[e.sub].cancel, old}

OnCheckoutCompleted(w, e) ==
    /\ e.kind = "completed" /\ Receives(w, e)
    /\ LET o == stripe[e.sub].org IN
        \E c \in CancelFlags(e, FALSE) :
            Hold(w, [do |-> "upsert", org |-> o, found |-> HasRow(o), event |-> e,
                     row |-> [NoRow EXCEPT !.plan = stripe[e.sub].plan, !.sub = e.sub, !.cancel = c]])
    /\ UNCHANGED <<rows, stripe, events, sent, lost, missed, ordered>>

\* The other handlers change a copy of the row and hold it for Save.
HoldCopy(w, e, o, row) ==
    /\ Hold(w, [do |-> "save", org |-> o, row |-> row, event |-> e])
    /\ UNCHANGED <<rows, stripe, events, sent, lost, missed, ordered>>

OnInvoicePaid(w, e) ==
    /\ e.kind = "invoicePaid" /\ Receives(w, e)
    /\ \E o \in GetBySubscriptionID(e.sub), c \in BOOLEAN :
        /\ c \in CancelFlags(e, rows[o].cancel)
        /\ HoldCopy(w, e, o, [rows[o] EXCEPT !.status = "ACTIVE", !.grace = NoGrace, !.cancel = c])

\* Mutant: every failure stamps a new window.
RestampedGrace(row) == GraceDays

\* Mutant: the window is left to a job that never comes.
UnstampedGrace(row) == row.grace

\* The first failure stamps the window, a repeat keeps it.
FailureGrace(row) == IF row.status # "PAST_DUE" THEN GraceDays ELSE row.grace

OnInvoiceFailed(w, e) ==
    /\ e.kind = "invoiceFailed" /\ Receives(w, e)
    /\ \E o \in GetBySubscriptionID(e.sub) :
        HoldCopy(w, e, o, [rows[o] EXCEPT !.status = "PAST_DUE", !.grace = FailureGrace(rows[o])])

\* Mutant: unpaid falls into the default branch.
UnpaidKept(row, status) ==
    CASE status = "active" -> [row EXCEPT !.status = "ACTIVE", !.grace = NoGrace]
      [] status = "past_due" -> [row EXCEPT !.status = "PAST_DUE", !.grace = FailureGrace(row)]
      [] OTHER -> row

\* The switch of onSubscriptionUpdated; "paused" takes its default branch.
Synced(row, status) ==
    CASE status = "active" -> [row EXCEPT !.status = "ACTIVE", !.grace = NoGrace]
      [] status = "past_due" -> [row EXCEPT !.status = "PAST_DUE", !.grace = FailureGrace(row)]
      [] status \in {"canceled", "unpaid"} -> [row EXCEPT !.status = "CANCELED", !.grace = NoGrace]
      [] OTHER -> row

\* Subscriptions carry no plan metadata (only sessions do): the plan stays.
OnSubscriptionUpdated(w, e) ==
    /\ e.kind = "updated" /\ Receives(w, e)
    /\ \E o \in GetBySubscriptionID(e.sub) :
        HoldCopy(w, e, o, [Synced(rows[o], e.status) EXCEPT !.cancel = e.cancel])

\* Mutant: the row keeps its status until its grace is over.
DeletedIntoGrace(w, e) ==
    /\ e.kind = "deleted" /\ Receives(w, e)
    /\ \E o \in GetBySubscriptionID(e.sub) :
        HoldCopy(w, e, o, [rows[o] EXCEPT !.cancel = TRUE])

OnSubscriptionDeleted(w, e) ==
    /\ e.kind = "deleted" /\ Receives(w, e)
    /\ \E o \in GetBySubscriptionID(e.sub) :
        HoldCopy(w, e, o, [rows[o] EXCEPT !.status = "CANCELED", !.grace = NoGrace])

\* An event of a subscription no row names is acknowledged and dropped.
UnknownSubscription(w, e) ==
    /\ e.kind # "completed" /\ Receives(w, e)
    /\ GetBySubscriptionID(e.sub) = {}
    /\ StripeWebhook(e)
    /\ UNCHANGED <<rows, stripe, sent, missed, op, ordered>>

\* Event e meets a database error and is acknowledged all the same: Stripe
\* will not send it again, and nothing was written.
Misses(e) ==
    /\ \/ ~ordered /\ UNCHANGED <<lost, missed>>
       \/ LossesLeft /\ lost' = lost + 1 /\ missed' = missed \cup {[sub |-> e.sub, kind |-> e.kind]}
    /\ events' = events \ {e}
    /\ UNCHANGED <<rows, stripe, sent, ordered>>

\* The error of GetBySubscriptionID.
FailsToRead(w, e) ==
    /\ e.kind # "completed" /\ Receives(w, e)
    /\ Misses(e)
    /\ UNCHANGED op

\* The error of Upsert or Save.
FailsToWrite(w) ==
    /\ op[w].do \in {"upsert", "save"}
    /\ Misses(op[w].event)
    /\ Done(w)

Upsert(w) ==
    /\ Doing(w, "upsert")
    /\ rows' = IF op[w].found \/ ~HasRow(op[w].org)
               THEN [rows EXCEPT ![op[w].org] = op[w].row]
               ELSE rows       \* unique org_id; the error is acknowledged too
    /\ StripeWebhook(op[w].event)
    /\ Done(w)
    /\ UNCHANGED <<stripe, sent, missed, ordered>>

\* An update carries the status and the flag: it mends what was missed.
Mended(e) == IF e.kind = "updated" THEN {m \in missed : m.sub # e.sub} ELSE missed

Save(w) ==
    /\ Doing(w, "save")
    /\ rows' = [rows EXCEPT ![op[w].org] = op[w].row]
    /\ missed' = Mended(op[w].event)
    /\ StripeWebhook(op[w].event)
    /\ Done(w)
    /\ UNCHANGED <<stripe, sent, ordered>>

\* The process dies before it writes.
Crash(w) ==
    /\ op[w].do \in {"upsert", "save"}
    /\ LossesLeft
    /\ lost' = lost + 1
    /\ Done(w)
    /\ UNCHANGED <<rows, stripe, events, sent, missed, ordered>>

(***************************************************************************)
(* Time                                                                    *)
(***************************************************************************)
DayLess(row) == [row EXCEPT !.grace = IF @ > 0 THEN @ - 1 ELSE @]

Day ==
    /\ \/ \E o \in Orgs : rows[o].grace > 0
       \/ \E w \in Workers : op[w].do = "save" /\ op[w].row.grace > 0
    /\ rows' = [o \in Orgs |-> DayLess(rows[o])]
    /\ op' = [w \in Workers |-> IF op[w].do = "save"
                                THEN [op[w] EXCEPT !.row = DayLess(op[w].row)] ELSE op[w]]
    /\ UNCHANGED <<stripe, events, sent, lost, missed, ordered>>

-----------------------------------------------------------------------------
Init ==
    /\ rows = [o \in Orgs |-> NoRow]
    /\ stripe \in [Subs -> [org: Orgs, plan: {"PRO"}, status: {"none"}, cancel: {FALSE}]]
    /\ \A s, t \in Subs : stripe[s] = stripe[t]
    /\ events = {} /\ missed = {} /\ sent = 0 /\ lost = 0
    /\ op = [w \in Workers |-> [do |-> "idle"]]
    /\ ordered \in BOOLEAN

StripeNext ==
    \E s \in Subs :
        \/ BuyerSubscribes(s) \/ InvoiceIsPaid(s) \/ InvoiceFails(s) \/ StripeGivesUp(s)
        \/ PausesOrResumes(s) \/ PortalCancels(s) \/ PeriodEnds(s)

Deliver(w) ==
    \E e \in events :
        \/ OnCheckoutCompleted(w, e) \/ OnInvoicePaid(w, e) \/ OnInvoiceFailed(w, e)
        \/ OnSubscriptionUpdated(w, e) \/ OnSubscriptionDeleted(w, e)
        \/ UnknownSubscription(w, e) \/ FailsToRead(w, e)

\* The steps of a request that has begun.
Proceed(w) ==
    \/ GetOrCreateCustomer(w) \/ FindCustomerRow(w) \/ UpsertCustomer(w) \/ CustomerConflict(w)
    \/ CheckoutFails(w) \/ \E s \in Subs : CreateSubscriptionCheckout(w, s)
    \/ Upsert(w) \/ Save(w) \/ FailsToWrite(w)

Next ==
    \/ StripeNext
    \/ Day
    \/ \E w \in Workers :
        \/ \E o \in Orgs, p \in Paid : StartCheckout(w, o, p)
        \/ Proceed(w) \/ Deliver(w) \/ Crash(w)

\* A request that has begun runs on; Stripe repeats an event until it is
\* answered, and no stream of checkouts keeps it out;
\* days pass.
Fairness ==
    /\ WF_vars(Day)
    /\ \A w \in Workers : WF_vars(Proceed(w))
    /\ SF_vars(\E w \in Workers : Deliver(w))

Spec == Init /\ [][Next]_vars /\ Fairness

-----------------------------------------------------------------------------
\* Rows, copies, Stripe's side and the events keep their shape.
TypeOK ==
    /\ rows \in [Orgs -> OrgSubscription]
    /\ stripe \in [Subs -> StripeSub]
    /\ events \subseteq Event /\ missed \subseteq Miss
    /\ sent \in 0..MaxEvents /\ lost \in 0..MaxLost
    /\ op \in [Workers -> Op]
    /\ ordered \in BOOLEAN

\* EntitlementFor gives the paid plan to a PAST_DUE row without a deadline,
\* for ever.  However events are duplicated, reordered and handled side by
\* side, no handler leaves such a row.
PastDueHasDeadline == \A o \in Orgs : rows[o].status = "PAST_DUE" => rows[o].grace # NoGrace

\* A row that grants a paid plan names a subscription that this organization
\* bought at this plan.  The column has no unique index and GetBySubscriptionID
\* takes the first match: no interleaving gives one organization's purchase
\* to another.
PaidTierWasBought ==
    \A o \in Orgs : rows[o].plan \in Paid =>
        LET s == rows[o].sub IN
        /\ s # NoSub
        /\ stripe[s].org = o /\ stripe[s].plan = rows[o].plan
        /\ stripe[s].status \notin {"none", "open"}

\* What a status at Stripe makes of the row.
StatusFor(status) ==
    CASE status = "active" -> {"ACTIVE"}
      [] status = "past_due" -> {"PAST_DUE"}
      [] status \in {"canceled", "unpaid"} -> {"CANCELED"}
      [] OTHER -> SubStatus

\* An event about subscription s was dropped and no update came since.
Missed(s) == \E m \in missed : m.sub = s

\* Delivered in order and one at a time, duplicates included, the events
\* bring the row to Stripe's own status and cancel flag once all are answered:
\* onInvoicePaid and onSubscriptionUpdated write the same columns from
\* different sources.  An event lost to a database error leaves the row
\* behind Stripe until the next update of the subscription, and no longer.
SettledAgrees ==
    (ordered /\ events = {} /\ \A w \in Workers : Idle(w)) =>
        \A o \in Orgs : rows[o].sub # NoSub /\ ~Missed(rows[o].sub) =>
            /\ rows[o].status \in StatusFor(stripe[rows[o].sub].status)
            /\ rows[o].cancel = stripe[rows[o].sub].cancel

\* "First failure stamps it; repeat failures never extend it": a row that
\* stays PAST_DUE never moves its deadline, though two kinds of event stamp
\* it and Stripe repeats both.
GraceNeverExtended ==
    [][ordered => \A o \in Orgs :
         (rows[o].status = "PAST_DUE" /\ rows'[o].status = "PAST_DUE")
            => rows'[o].grace <= rows[o].grace]_vars

\* No organization stays on a paid tier unpaid: PAST_DUE ends, by payment, by
\* cancellation or in the Free entitlement, whatever the delivery.
PastDueEnds ==
    \A o \in Orgs :
        (rows[o].status = "PAST_DUE")
            ~> (rows[o].status # "PAST_DUE" \/ EntitlementFor(o) = "FREE")

\* The deletion of subscription s was acknowledged and never applied.
DeletionMissed(s) == [sub |-> s, kind |-> "deleted"] \in missed

\* A subscription canceled at Stripe ends at the Free entitlement or is
\* replaced by a newer purchase, although events may need sending twice and
\* earlier ones may have been lost; only a database error at the deletion
\* itself, which the code acknowledges, leaves the paid plan in place.
CanceledEndsFree ==
    \A o \in Orgs, s \in Subs :
        (ordered /\ rows[o].sub = s /\ stripe[s].status = "canceled")
            ~> (EntitlementFor(o) = "FREE" \/ rows[o].sub # s \/ DeletionMissed(s))
=============================================================================
