---------------------------- MODULE BillingProofs ----------------------------
(***************************************************************************)
(* Billing keeps its rows typed, dated and bought, for any number of       *)
(* organizations, subscriptions, requests and events, delivered in any     *)
(* order; delivered in order, it ends where Stripe stands.                 *)
(*                                                                         *)
(* Neither is inductive: a handler saves a copy it took before other       *)
(* handlers ran, or before Stripe moved on.  BillingInv therefore speaks   *)
(* of the copies too, and of the events, whose subscription Stripe has     *)
(* already charged.  SettledInv adds, for events that come in order, what  *)
(* those that wait will still write: the last one about a subscription     *)
(* says what Stripe says, and a row agrees with Stripe unless one waits.   *)
(***************************************************************************)
EXTENDS Billing, TLAPS

\* A row that is PAST_DUE has a deadline.
Dated(r) == r.status = "PAST_DUE" => r.grace # NoGrace

\* Subscription s has been paid for at Stripe.
Charged(st, s) == st[s].status \notin {"none", "open"}

\* A row with a paid plan names a subscription o bought at that plan.
Bought(st, o, r) ==
    r.plan \in Paid =>
        /\ r.sub \in Subs
        /\ st[r.sub].org = o /\ st[r.sub].plan = r.plan
        /\ Charged(st, r.sub)

Sound(st, o, r) == Dated(r) /\ Bought(st, o, r)

\* The request w holds a row it will write.
HoldsRow(w) == op[w].do \in {"upsert", "save"}

RowsSound == \A o \in Orgs : Sound(stripe, o, rows[o])
CopiesSound == \A w \in Workers : HoldsRow(w) => Sound(stripe, op[w].org, op[w].row)
EventsCharged == \A e \in events : Charged(stripe, e.sub)

BillingInv == TypeOK /\ RowsSound /\ CopiesSound /\ EventsCharged

(***************************************************************************)
(* Records                                                                 *)
(***************************************************************************)
\* What a request holds, by what it does next.
LEMMA OpFields ==
    ASSUME NEW x \in Op
    PROVE  /\ x.do \in {"customer", "createCustomer", "session", "upsertCustomer"}
                => x.org \in Orgs /\ x.plan \in Paid
           /\ x.do = "upsertCustomer" => x.found \in BOOLEAN
           /\ x.do \in {"upsert", "save"}
                => x.org \in Orgs /\ x.row \in OrgSubscription /\ x.event \in Event
           /\ x.do = "upsert" => x.found \in BOOLEAN
  BY DEF Op

\* The rows the handlers build from scratch are rows.
LEMMA NewRows ==
    /\ NoRow \in OrgSubscription /\ NewCustomerRow \in OrgSubscription
    /\ \A st, o : Sound(st, o, NoRow) /\ Sound(st, o, NewCustomerRow)
  BY BillingAssumption
  DEF NoRow, NewCustomerRow, OrgSubscription, Plans, Paid, SubStatus, NoGrace, Sound, Dated, Bought

\* A day changes neither what a row grants nor whether it has a deadline.
LEMMA DayKeeps ==
    ASSUME NEW r \in OrgSubscription
    PROVE  /\ DayLess(r) \in OrgSubscription
           /\ \A st, o : Sound(st, o, r) => Sound(st, o, DayLess(r))
  BY BillingAssumption DEF DayLess, OrgSubscription, NoGrace, Sound, Dated, Bought

\* The window a failure stamps is a deadline.
LEMMA FailureDates ==
    ASSUME NEW r \in OrgSubscription, Dated(r)
    PROVE  FailureGrace(r) \in 0..GraceDays
  BY BillingAssumption DEF FailureGrace, OrgSubscription, Dated, NoGrace

\* A copy with the same plan and subscription is bought as the row is.
LEMMA SamePurchase ==
    ASSUME NEW st, NEW o, NEW r, NEW q, Sound(st, o, r),
           q.plan = r.plan, q.sub = r.sub, Dated(q)
    PROVE  Sound(st, o, q)
  BY DEF Sound, Bought

\* The switch of onSubscriptionUpdated keeps the purchase and dates the row.
LEMMA SyncedRow ==
    ASSUME NEW r \in OrgSubscription, Dated(r), NEW x \in StripeStatus, NEW c \in BOOLEAN
    PROVE  LET q == [Synced(r, x) EXCEPT !.cancel = c] IN
           q \in OrgSubscription /\ Dated(q) /\ q.plan = r.plan /\ q.sub = r.sub
<1>1. FailureGrace(r) \in 0..GraceDays
  BY FailureDates
<1>2. /\ Synced(r, x) \in OrgSubscription /\ Dated(Synced(r, x))
      /\ Synced(r, x).plan = r.plan /\ Synced(r, x).sub = r.sub
  <2>1. CASE x = "active"
    BY <2>1 DEF Synced, OrgSubscription, SubStatus, Dated
  <2>2. CASE x = "past_due"
    <3>1. Synced(r, x) = [r EXCEPT !.status = "PAST_DUE", !.grace = FailureGrace(r)]
      BY <2>2 DEF Synced
    <3>2. FailureGrace(r) # NoGrace /\ FailureGrace(r) \in {NoGrace} \cup 0..GraceDays
      BY <1>1, BillingAssumption DEF NoGrace
    <3>3. QED
      BY <3>1, <3>2 DEF OrgSubscription, SubStatus, Dated
  <2>3. CASE x \in {"canceled", "unpaid"}
    BY <2>3 DEF Synced, OrgSubscription, SubStatus, Dated
  <2>4. CASE x \notin {"active", "past_due", "canceled", "unpaid"}
    BY <2>4 DEF Synced
  <2>5. QED
    BY <2>1, <2>2, <2>3, <2>4
<1>3. QED
  BY <1>2 DEF OrgSubscription, Dated

(***************************************************************************)
(* Steps that leave the rows or Stripe alone                               *)
(***************************************************************************)
\* What Stripe has charged stays charged, to the same organization.
Onward(st, nx) ==
    \A s \in Subs : Charged(st, s) =>
        Charged(nx, s) /\ nx[s].org = st[s].org /\ nx[s].plan = st[s].plan

\* So a sound row or copy stays sound while Stripe moves on.
LEMMA OnwardSound ==
    ASSUME NEW st, NEW nx, Onward(st, nx), NEW o, NEW r, Sound(st, o, r)
    PROVE  Sound(nx, o, r)
  BY DEF Onward, Sound, Bought

\* A step of Stripe's on one subscription, with the events it sends.
LEMMA StripeMoves ==
    ASSUME BillingInv, NEW s \in Subs, NEW next \in StripeSub,
           stripe' = [stripe EXCEPT ![s] = next],
           next.org = stripe[s].org, next.plan = stripe[s].plan,
           next.status \notin {"none", "open"},
           NEW new \in SUBSET Event, events' = events \cup new, \A e \in new : e.sub = s,
           sent' \in 0..MaxEvents, UNCHANGED <<rows, lost, missed, op, ordered>>
    PROVE  BillingInv'
<1>1. TypeOK'
  BY DEF BillingInv, TypeOK
<1>2. Onward(stripe, stripe')
  BY DEF Onward, Charged, BillingInv, TypeOK
<1>3. RowsSound'
  BY <1>2, OnwardSound DEF RowsSound, BillingInv
<1>4. CopiesSound'
  BY <1>2, OnwardSound DEF CopiesSound, HoldsRow, BillingInv
<1>5. EventsCharged'
  <2>1. SUFFICES ASSUME NEW e \in events' PROVE Charged(stripe', e.sub)
    BY DEF EventsCharged
  <2>2. CASE e \in events
    BY <1>2, <2>2 DEF Onward, EventsCharged, BillingInv, TypeOK, Event
  <2>3. CASE e \in new
    BY <2>3 DEF Charged, BillingInv, TypeOK
  <2>4. QED
    BY <2>2, <2>3
<1>6. QED
  BY <1>1, <1>3, <1>4, <1>5 DEF BillingInv

LEMMA SendKeeps ==
    ASSUME BillingInv, NEW s \in Subs, NEW next \in StripeSub, NEW k \in EventKinds,
           next.org = stripe[s].org, next.plan = stripe[s].plan,
           next.status \notin {"none", "open"}, Send(s, next, k)
    PROVE  BillingInv'
<1>1. sent \in Nat /\ sent + 1 <= MaxEvents
  BY BillingAssumption DEF Send, EventsLeft, BillingInv, TypeOK
<1>2. sent' \in 0..MaxEvents /\ sent + 1 \in 1..MaxEvents
  BY <1>1, BillingAssumption DEF Send
<1>3. EventOf(s, k, next, sent + 1) \in Event /\ EventOf(s, k, next, sent + 1).sub = s
  BY <1>2 DEF EventOf, Event, StripeSub
<1>4. /\ {EventOf(s, k, next, sent + 1)} \in SUBSET Event
      /\ \A e \in {EventOf(s, k, next, sent + 1)} : e.sub = s
  BY <1>3
<1>5. QED
  BY <1>2, <1>4, StripeMoves DEF Send

LEMMA Send2Keeps ==
    ASSUME BillingInv, NEW s \in Subs, NEW next \in StripeSub,
           NEW k1 \in EventKinds, NEW k2 \in EventKinds,
           next.org = stripe[s].org, next.plan = stripe[s].plan,
           next.status \notin {"none", "open"}, Send2(s, next, k1, k2)
    PROVE  BillingInv'
<1> DEFINE new == {EventOf(s, k1, next, sent + 1), EventOf(s, k2, next, sent + 2)}
<1>1. sent \in Nat /\ sent + 2 <= MaxEvents
  BY BillingAssumption DEF Send2, EventsLeft, BillingInv, TypeOK
<1>2. sent' \in 0..MaxEvents /\ sent + 1 \in 1..MaxEvents /\ sent + 2 \in 1..MaxEvents
  BY <1>1, BillingAssumption DEF Send2
<1>3. new \in SUBSET Event /\ \A e \in new : e.sub = s
  BY <1>2 DEF EventOf, Event, StripeSub
<1>4. events' = events \cup new
  BY DEF Send2
<1> HIDE DEF new
<1>5. QED
  BY <1>2, <1>3, <1>4, StripeMoves DEF Send2

\* The subscription with another status keeps its buyer and its plan.
LEMMA BecomesSub ==
    ASSUME BillingInv, NEW s \in Subs, NEW x \in StripeStatus
    PROVE  /\ Becomes(s, x) \in StripeSub /\ Becomes(s, x).status = x
           /\ Becomes(s, x).org = stripe[s].org /\ Becomes(s, x).plan = stripe[s].plan
  BY DEF Becomes, StripeSub, BillingInv, TypeOK

\* Every step of Stripe's keeps the invariant.
LEMMA StripeKeeps == ASSUME BillingInv, StripeNext PROVE BillingInv'
<1>1. PICK s \in Subs :
        \/ BuyerSubscribes(s) \/ InvoiceIsPaid(s) \/ InvoiceFails(s) \/ StripeGivesUp(s)
        \/ PausesOrResumes(s) \/ PortalCancels(s) \/ PeriodEnds(s)
  BY DEF StripeNext
<1> USE DEF EventKinds, StripeStatus
<1>2. stripe[s] \in StripeSub
  BY DEF BillingInv, TypeOK
<1>3. CASE BuyerSubscribes(s)
  BY <1>3, BecomesSub, Send2Keeps DEF BuyerSubscribes
<1>4. CASE InvoiceIsPaid(s)
  BY <1>2, <1>4, BecomesSub, SendKeeps, Send2Keeps DEF InvoiceIsPaid
<1>5. CASE InvoiceFails(s)
  BY <1>2, <1>5, BecomesSub, SendKeeps, Send2Keeps DEF InvoiceFails
<1>6. CASE StripeGivesUp(s)
  BY <1>6, BecomesSub, SendKeeps DEF StripeGivesUp
<1>7. CASE PausesOrResumes(s)
  BY <1>7, BecomesSub, SendKeeps DEF PausesOrResumes
<1>8. CASE PortalCancels(s)
  <2> DEFINE next == [stripe[s] EXCEPT !.cancel = ~@]
  <2>1. /\ next \in StripeSub /\ next.org = stripe[s].org /\ next.plan = stripe[s].plan
        /\ next.status = stripe[s].status
    BY <1>2 DEF StripeSub
  <2>2. Send(s, next, "updated") /\ stripe[s].status \in {"active", "past_due"}
    BY <1>8 DEF PortalCancels
  <2> HIDE DEF next
  <2>3. QED
    BY <2>1, <2>2, SendKeeps
<1>9. CASE PeriodEnds(s)
  BY <1>9, BecomesSub, SendKeeps DEF PeriodEnds
<1>10. QED
  BY <1>1, <1>3, <1>4, <1>5, <1>6, <1>7, <1>8, <1>9

(***************************************************************************)
(* The steps of a request                                                  *)
(***************************************************************************)
\* A request goes on to x, perhaps after writing a row; Stripe stands still.
LEMMA RequestMoves ==
    ASSUME BillingInv, NEW w \in Workers, NEW x \in Op, Hold(w, x),
           x.do \in {"upsert", "save"} => Sound(stripe, x.org, x.row),
           NEW o \in Orgs, NEW r \in OrgSubscription,
           rows' = [rows EXCEPT ![o] = r], Sound(stripe, o, r),
           events' \subseteq events, lost' \in 0..MaxLost, missed' \subseteq missed \cup Miss,
           UNCHANGED <<stripe, sent, ordered>>
    PROVE  BillingInv'
<1>1. TypeOK'
  BY DEF BillingInv, TypeOK, Hold
<1>2. RowsSound'
  BY DEF RowsSound, BillingInv, TypeOK
<1>3. CopiesSound'
  BY DEF CopiesSound, HoldsRow, Hold, BillingInv, TypeOK
<1>4. EventsCharged'
  BY DEF EventsCharged, BillingInv
<1>5. QED
  BY <1>1, <1>2, <1>3, <1>4 DEF BillingInv

\* The same, when it writes nothing.
LEMMA RequestReads ==
    ASSUME BillingInv, NEW w \in Workers, NEW x \in Op, Hold(w, x),
           x.do \in {"upsert", "save"} => Sound(stripe, x.org, x.row),
           events' \subseteq events, lost' \in 0..MaxLost, missed' \subseteq missed \cup Miss,
           UNCHANGED <<rows, stripe, sent, ordered>>
    PROVE  BillingInv'
<1>1. TypeOK'
  BY DEF BillingInv, TypeOK, Hold
<1>2. RowsSound'
  BY DEF RowsSound, BillingInv
<1>3. CopiesSound'
  BY DEF CopiesSound, HoldsRow, Hold, BillingInv, TypeOK
<1>4. EventsCharged'
  BY DEF EventsCharged, BillingInv
<1>5. QED
  BY <1>1, <1>2, <1>3, <1>4 DEF BillingInv

\* An answer takes an event away or leaves it, within the bound on losses.
LEMMA Answers ==
    ASSUME BillingInv, NEW e, StripeWebhook(e)
    PROVE  events' \subseteq events /\ lost' \in 0..MaxLost
  BY BillingAssumption DEF StripeWebhook, LossesLeft, BillingInv, TypeOK

\* StartCheckout and the steps that follow it.
LEMMA CheckoutKeeps ==
    ASSUME BillingInv, NEW w \in Workers,
           \/ \E o \in Orgs, p \in Paid : StartCheckout(w, o, p)
           \/ GetOrCreateCustomer(w) \/ FindCustomerRow(w) \/ UpsertCustomer(w)
           \/ CustomerConflict(w) \/ CheckoutFails(w)
    PROVE  BillingInv'
<1>1. op[w] \in Op /\ lost \in 0..MaxLost
  BY DEF BillingInv, TypeOK
<1>2. [do |-> "idle"] \in Op
  BY DEF Op
<1>3. ASSUME NEW o \in Orgs, NEW p \in Paid, StartCheckout(w, o, p) PROVE BillingInv'
  <2>1. [do |-> "customer", org |-> o, plan |-> p] \in Op
    BY DEF Op
  <2>2. QED
    BY <1>1, <1>3, <2>1, RequestReads DEF StartCheckout
<1>4. CASE GetOrCreateCustomer(w)
  <2> DEFINE x == [op[w] EXCEPT !.do = IF HasRow(op[w].org) THEN "session" ELSE "createCustomer"]
  <2>1. op[w] \in [do: {"customer", "createCustomer", "session"}, org: Orgs, plan: Paid]
    BY <1>1, <1>4 DEF Op, GetOrCreateCustomer, Doing
  <2>2. x \in [do: {"customer", "createCustomer", "session"}, org: Orgs, plan: Paid]
    BY <2>1
  <2>3. x \in Op /\ x.do \notin {"upsert", "save"}
    BY <2>2 DEF Op
  <2>4. Hold(w, x) /\ UNCHANGED <<rows, stripe, events, sent, lost, missed, ordered>>
    BY <1>4 DEF GetOrCreateCustomer
  <2> HIDE DEF x
  <2>5. QED
    BY <1>1, <2>3, <2>4, RequestReads
<1>5. CASE FindCustomerRow(w)
  <2> DEFINE x == [do |-> "upsertCustomer", org |-> op[w].org, plan |-> op[w].plan,
                   found |-> HasRow(op[w].org)]
  <2>1. op[w].org \in Orgs /\ op[w].plan \in Paid
    BY <1>1, <1>5, OpFields DEF FindCustomerRow, Doing
  <2>2. HasRow(op[w].org) \in BOOLEAN
    BY DEF HasRow
  <2>3. x \in Op /\ x.do \notin {"upsert", "save"}
    BY <2>1, <2>2 DEF Op
  <2>4. Hold(w, x) /\ UNCHANGED <<rows, stripe, events, sent, lost, missed, ordered>>
    BY <1>5 DEF FindCustomerRow
  <2> HIDE DEF x
  <2>5. QED
    BY <1>1, <2>3, <2>4, RequestReads
<1>6. CASE UpsertCustomer(w)
  <2> DEFINE x == [do |-> "session", org |-> op[w].org, plan |-> op[w].plan]
  <2>1. op[w].org \in Orgs /\ op[w].plan \in Paid
    BY <1>1, <1>6, OpFields DEF UpsertCustomer, Doing
  <2>2. x \in Op /\ x.do \notin {"upsert", "save"}
    BY <2>1 DEF Op
  <2>3. /\ Hold(w, x) /\ rows' = [rows EXCEPT ![op[w].org] = NewCustomerRow]
        /\ UNCHANGED <<stripe, events, sent, lost, missed, ordered>>
    BY <1>6 DEF UpsertCustomer
  <2> HIDE DEF x
  <2>4. QED
    BY <1>1, <2>1, <2>2, <2>3, NewRows, RequestMoves
<1>7. CASE CustomerConflict(w)
  BY <1>1, <1>2, <1>7, RequestReads DEF CustomerConflict, Done
<1>8. CASE CheckoutFails(w)
  BY <1>1, <1>2, <1>8, RequestReads DEF CheckoutFails, Done
<1>9. QED
  BY <1>3, <1>4, <1>5, <1>6, <1>7, <1>8

\* A session opens only for an identifier Stripe has not used: no row, copy
\* or event names it yet.
LEMMA SessionKeeps ==
    ASSUME BillingInv, NEW w \in Workers, NEW s \in Subs, CreateSubscriptionCheckout(w, s)
    PROVE  BillingInv'
<1>1. op[w] \in Op /\ op[w].org \in Orgs /\ op[w].plan \in Paid
  BY OpFields DEF CreateSubscriptionCheckout, Doing, BillingInv, TypeOK
<1>2. [do |-> "idle"] \in Op
  BY DEF Op
<1>3. TypeOK'
  BY <1>1, <1>2
  DEF CreateSubscriptionCheckout, Done, Hold, BillingInv, TypeOK, StripeSub, StripeStatus
<1>4. Onward(stripe, stripe')
  BY DEF Onward, Charged, CreateSubscriptionCheckout, BillingInv, TypeOK
<1>5. RowsSound'
  BY <1>4, OnwardSound DEF RowsSound, BillingInv, CreateSubscriptionCheckout
<1>6. CopiesSound'
  BY <1>4, OnwardSound
  DEF CopiesSound, HoldsRow, BillingInv, TypeOK, CreateSubscriptionCheckout, Done, Hold
<1>7. EventsCharged'
  BY <1>4 DEF Onward, EventsCharged, BillingInv, TypeOK, Event, CreateSubscriptionCheckout
<1>8. QED
  BY <1>3, <1>5, <1>6, <1>7 DEF BillingInv

(***************************************************************************)
(* The webhook                                                             *)
(***************************************************************************)
\* The handler of a completed checkout builds a row its organization bought.
LEMMA CompletedKeeps ==
    ASSUME BillingInv, NEW w \in Workers, NEW e \in events, OnCheckoutCompleted(w, e)
    PROVE  BillingInv'
<1> DEFINE o == stripe[e.sub].org
<1>1. e \in Event /\ e.sub \in Subs /\ stripe[e.sub] \in StripeSub /\ lost \in 0..MaxLost
  BY DEF BillingInv, TypeOK, Event
<1>2. o \in Orgs /\ stripe[e.sub].plan \in Paid /\ Charged(stripe, e.sub)
  BY <1>1 DEF StripeSub, BillingInv, EventsCharged
<1>3. PICK c \in CancelFlags(e, FALSE) :
        Hold(w, [do |-> "upsert", org |-> o, found |-> HasRow(o), event |-> e,
                 row |-> [NoRow EXCEPT !.plan = stripe[e.sub].plan, !.sub = e.sub, !.cancel = c]])
  BY DEF OnCheckoutCompleted
<1> DEFINE r == [NoRow EXCEPT !.plan = stripe[e.sub].plan, !.sub = e.sub, !.cancel = c]
           x == [do |-> "upsert", org |-> o, found |-> HasRow(o), event |-> e, row |-> r]
<1>4. c \in BOOLEAN
  BY <1>1 DEF CancelFlags, StripeSub
<1>5. /\ r \in OrgSubscription /\ r.plan = stripe[e.sub].plan /\ r.sub = e.sub
      /\ r.status = "ACTIVE"
  BY <1>1, <1>2, <1>4 DEF NoRow, OrgSubscription, Plans, Paid, SubStatus, NoGrace
<1> HIDE DEF r
<1>6. Sound(stripe, o, r)
  BY <1>1, <1>2, <1>5 DEF Sound, Dated, Bought
<1>7. HasRow(o) \in BOOLEAN
  BY DEF HasRow
<1> HIDE DEF o
<1>8. x \in Op /\ x.org = o /\ x.row = r
  BY <1>1, <1>2, <1>5, <1>7 DEF Op
<1>9. Hold(w, x) /\ UNCHANGED <<rows, stripe, events, sent, lost, missed, ordered>>
  BY <1>3 DEF OnCheckoutCompleted, r, o
<1> HIDE DEF x
<1>10. QED
  BY <1>1, <1>6, <1>8, <1>9, RequestReads

\* A handler that holds a copy with the row's plan and subscription, dated.
LEMMA CopyKeeps ==
    ASSUME BillingInv, NEW w \in Workers, NEW e \in events, NEW o \in Orgs,
           NEW r \in OrgSubscription, Dated(r), r.plan = rows[o].plan, r.sub = rows[o].sub,
           HoldCopy(w, e, o, r)
    PROVE  BillingInv'
<1> DEFINE x == [do |-> "save", org |-> o, row |-> r, event |-> e]
<1>1. e \in Event /\ lost \in 0..MaxLost
  BY DEF BillingInv, TypeOK
<1>2. x \in Op /\ x.org = o /\ x.row = r
  BY <1>1 DEF Op
<1>3. Sound(stripe, o, r)
  BY SamePurchase DEF BillingInv, RowsSound
<1>4. Hold(w, x) /\ UNCHANGED <<rows, stripe, events, sent, lost, missed, ordered>>
  BY DEF HoldCopy
<1> HIDE DEF x
<1>5. QED
  BY <1>1, <1>2, <1>3, <1>4, RequestReads

\* An event that is missed is taken away, and remembered when order counts.
LEMMA MissTyped ==
    ASSUME BillingInv, NEW e \in Event, Misses(e)
    PROVE  /\ events' \subseteq events /\ lost' \in 0..MaxLost /\ missed' \subseteq missed \cup Miss
           /\ UNCHANGED <<rows, stripe, sent, ordered>>
  BY BillingAssumption DEF Misses, LossesLeft, Miss, Event, BillingInv, TypeOK

\* A database error changes no row.
LEMMA FailureKeeps ==
    ASSUME BillingInv, NEW w \in Workers,
           FailsToWrite(w) \/ \E e \in events : FailsToRead(w, e)
    PROVE  BillingInv'
<1>1. CASE FailsToWrite(w)
  <2>1. op[w].event \in Event
    BY <1>1, OpFields DEF FailsToWrite, BillingInv, TypeOK
  <2>2. [do |-> "idle"] \in Op
    BY DEF Op
  <2>3. Hold(w, [do |-> "idle"]) /\ Misses(op[w].event)
    BY <1>1 DEF FailsToWrite, Done
  <2>4. QED
    BY <2>1, <2>2, <2>3, MissTyped, RequestReads
<1>2. CASE \E e \in events : FailsToRead(w, e)
  <2>1. PICK e \in events : FailsToRead(w, e)
    BY <1>2
  <2>2. e \in Event /\ Misses(e) /\ UNCHANGED op
    BY <2>1 DEF FailsToRead, BillingInv, TypeOK
  <2>3. /\ events' \subseteq events /\ lost' \in 0..MaxLost /\ missed' \subseteq missed \cup Miss
        /\ UNCHANGED <<rows, stripe, sent, ordered>>
    BY <2>2, MissTyped
  <2>4. QED
    BY <2>2, <2>3 DEF BillingInv, TypeOK, RowsSound, CopiesSound, HoldsRow, EventsCharged
<1>3. QED
  BY <1>1, <1>2

\* Every delivery keeps the invariant.
LEMMA DeliverKeeps == ASSUME BillingInv, NEW w \in Workers, Deliver(w) PROVE BillingInv'
<1>1. PICK e \in events :
        \/ OnCheckoutCompleted(w, e) \/ OnInvoicePaid(w, e) \/ OnInvoiceFailed(w, e)
        \/ OnSubscriptionUpdated(w, e) \/ OnSubscriptionDeleted(w, e)
        \/ UnknownSubscription(w, e) \/ FailsToRead(w, e)
  BY DEF Deliver
<1>2. e \in Event /\ e.status \in StripeStatus /\ e.cancel \in BOOLEAN
  BY DEF BillingInv, TypeOK, Event
<1>3. \A o \in Orgs : rows[o] \in OrgSubscription /\ Dated(rows[o])
  BY DEF BillingInv, TypeOK, RowsSound, Sound
<1>4. CASE OnCheckoutCompleted(w, e)
  BY <1>4, CompletedKeeps
<1>5. CASE OnInvoicePaid(w, e)
  <2>1. PICK o \in Orgs, c \in BOOLEAN :
          HoldCopy(w, e, o, [rows[o] EXCEPT !.status = "ACTIVE", !.grace = NoGrace, !.cancel = c])
    BY <1>5 DEF OnInvoicePaid, GetBySubscriptionID
  <2> DEFINE r == [rows[o] EXCEPT !.status = "ACTIVE", !.grace = NoGrace, !.cancel = c]
  <2>2. r \in OrgSubscription /\ Dated(r) /\ r.plan = rows[o].plan /\ r.sub = rows[o].sub
    BY <1>3 DEF OrgSubscription, SubStatus, Dated
  <2>3. HoldCopy(w, e, o, r)
    BY <2>1
  <2> HIDE DEF r
  <2>4. QED
    BY <2>2, <2>3, CopyKeeps
<1>6. CASE OnInvoiceFailed(w, e)
  <2>1. PICK o \in Orgs :
          HoldCopy(w, e, o, [rows[o] EXCEPT !.status = "PAST_DUE", !.grace = FailureGrace(rows[o])])
    BY <1>6 DEF OnInvoiceFailed, GetBySubscriptionID
  <2> DEFINE r == [rows[o] EXCEPT !.status = "PAST_DUE", !.grace = FailureGrace(rows[o])]
  <2>2. FailureGrace(rows[o]) \in 0..GraceDays /\ FailureGrace(rows[o]) # NoGrace
    BY <1>3, FailureDates, BillingAssumption DEF NoGrace
  <2>3. r \in OrgSubscription /\ Dated(r) /\ r.plan = rows[o].plan /\ r.sub = rows[o].sub
    BY <1>3, <2>2 DEF OrgSubscription, SubStatus, Dated
  <2>4. HoldCopy(w, e, o, r)
    BY <2>1
  <2> HIDE DEF r
  <2>5. QED
    BY <2>3, <2>4, CopyKeeps
<1>7. CASE OnSubscriptionUpdated(w, e)
  <2>1. PICK o \in Orgs : HoldCopy(w, e, o, [Synced(rows[o], e.status) EXCEPT !.cancel = e.cancel])
    BY <1>7 DEF OnSubscriptionUpdated, GetBySubscriptionID
  <2> DEFINE r == [Synced(rows[o], e.status) EXCEPT !.cancel = e.cancel]
  <2>2. r \in OrgSubscription /\ Dated(r) /\ r.plan = rows[o].plan /\ r.sub = rows[o].sub
    BY <1>2, <1>3, SyncedRow
  <2>3. HoldCopy(w, e, o, r)
    BY <2>1
  <2> HIDE DEF r
  <2>4. QED
    BY <2>2, <2>3, CopyKeeps
<1>8. CASE OnSubscriptionDeleted(w, e)
  <2>1. PICK o \in Orgs :
          HoldCopy(w, e, o, [rows[o] EXCEPT !.status = "CANCELED", !.grace = NoGrace])
    BY <1>8 DEF OnSubscriptionDeleted, GetBySubscriptionID
  <2> DEFINE r == [rows[o] EXCEPT !.status = "CANCELED", !.grace = NoGrace]
  <2>2. r \in OrgSubscription /\ Dated(r) /\ r.plan = rows[o].plan /\ r.sub = rows[o].sub
    BY <1>3 DEF OrgSubscription, SubStatus, Dated
  <2>3. HoldCopy(w, e, o, r)
    BY <2>1
  <2> HIDE DEF r
  <2>4. QED
    BY <2>2, <2>3, CopyKeeps
<1>9. CASE UnknownSubscription(w, e)
  <2>1. events' \subseteq events /\ lost' \in 0..MaxLost /\ UNCHANGED <<rows, stripe, sent, missed, op, ordered>>
    BY <1>9, Answers DEF UnknownSubscription
  <2>2. QED
    BY <2>1 DEF BillingInv, TypeOK, RowsSound, CopiesSound, HoldsRow, EventsCharged
<1>10. CASE FailsToRead(w, e)
  BY <1>10, FailureKeeps
<1>11. QED
  BY <1>1, <1>4, <1>5, <1>6, <1>7, <1>8, <1>9, <1>10

\* Upsert and Save write a copy that was sound when it was made, and still is.
LEMMA WriteKeeps == ASSUME BillingInv, NEW w \in Workers, Upsert(w) \/ Save(w) PROVE BillingInv'
<1>1. op[w] \in Op /\ op[w].do \in {"upsert", "save"}
  BY DEF Upsert, Save, Doing, BillingInv, TypeOK
<1>2. op[w].org \in Orgs /\ op[w].row \in OrgSubscription /\ Sound(stripe, op[w].org, op[w].row)
  BY <1>1, OpFields DEF BillingInv, CopiesSound, HoldsRow
<1>3. [do |-> "idle"] \in Op
  BY DEF Op
<1>4. /\ events' \subseteq events /\ lost' \in 0..MaxLost /\ missed' \subseteq missed
      /\ Hold(w, [do |-> "idle"]) /\ UNCHANGED <<stripe, sent, ordered>>
  BY Answers DEF Upsert, Save, Mended, Done
<1>5. CASE rows' = [rows EXCEPT ![op[w].org] = op[w].row]
  BY <1>2, <1>3, <1>4, <1>5, RequestMoves
<1>6. CASE UNCHANGED rows
  BY <1>3, <1>4, <1>6, RequestReads
<1>7. QED
  BY <1>5, <1>6 DEF Upsert, Save

\* A crash drops the copy.
LEMMA CrashKeeps == ASSUME BillingInv, NEW w \in Workers, Crash(w) PROVE BillingInv'
<1>1. [do |-> "idle"] \in Op
  BY DEF Op
<1>2. lost' \in 0..MaxLost
  BY BillingAssumption DEF Crash, LossesLeft, BillingInv, TypeOK
<1>3. QED
  BY <1>1, <1>2, RequestReads DEF Crash, Done

\* A day counts every window down, in the table and in the copies.
LEMMA DayKeepsAll == ASSUME BillingInv, Day PROVE BillingInv'
<1>1. /\ rows \in [Orgs -> OrgSubscription] /\ op \in [Workers -> Op]
      /\ UNCHANGED <<stripe, events, sent, lost, missed, ordered>>
  BY DEF BillingInv, TypeOK, Day
<1>2. rows' \in [Orgs -> OrgSubscription]
  BY <1>1, DayKeeps DEF Day
<1>3. ASSUME NEW w \in Workers
      PROVE  /\ op'[w] \in Op
             /\ op'[w].do \in {"upsert", "save"} => Sound(stripe, op'[w].org, op'[w].row)
  <2>1. CASE op[w].do = "save"
    <3>1. op[w] \in [do: {"save"}, org: Orgs, row: OrgSubscription, event: Event]
      BY <1>1, <2>1 DEF Op
    <3>2. op[w].row \in OrgSubscription /\ Sound(stripe, op[w].org, op[w].row)
      BY <2>1, <3>1 DEF BillingInv, CopiesSound, HoldsRow
    <3>3. DayLess(op[w].row) \in OrgSubscription /\ Sound(stripe, op[w].org, DayLess(op[w].row))
      BY <3>2, DayKeeps
    <3>4. op'[w] = [op[w] EXCEPT !.row = DayLess(op[w].row)]
      BY <2>1 DEF Day
    <3>5. op'[w] \in [do: {"save"}, org: Orgs, row: OrgSubscription, event: Event]
      BY <3>1, <3>3, <3>4
    <3>6. op'[w].org = op[w].org /\ op'[w].row = DayLess(op[w].row)
      BY <3>1, <3>4
    <3>7. QED
      BY <3>3, <3>5, <3>6 DEF Op
  <2>2. CASE op[w].do # "save"
    BY <1>1, <2>2 DEF Day, BillingInv, CopiesSound, HoldsRow
  <2>3. QED
    BY <2>1, <2>2
<1>4. op' \in [Workers -> Op]
  BY <1>3 DEF Day
<1>5. TypeOK'
  BY <1>1, <1>2, <1>4 DEF BillingInv, TypeOK
<1>6. RowsSound'
  BY <1>1, DayKeeps DEF RowsSound, BillingInv, Day
<1>7. CopiesSound'
  BY <1>1, <1>3 DEF CopiesSound, HoldsRow
<1>8. EventsCharged'
  BY <1>1 DEF EventsCharged, BillingInv
<1>9. QED
  BY <1>5, <1>6, <1>7, <1>8 DEF BillingInv

\* Initially there are no rows, no events and no requests.
LEMMA InitBilling == Init => BillingInv
<1> SUFFICES ASSUME Init PROVE BillingInv
  OBVIOUS
<1>1. [do |-> "idle"] \in Op
  BY DEF Op
<1>2. TypeOK
  <2>1. stripe \in [Subs -> StripeSub]
    BY DEF Init, StripeSub, StripeStatus, Paid
  <2>2. rows \in [Orgs -> OrgSubscription] /\ op \in [Workers -> Op]
    BY <1>1, NewRows DEF Init
  <2>3. sent \in 0..MaxEvents /\ lost \in 0..MaxLost
    BY BillingAssumption DEF Init
  <2>4. QED
    BY <2>1, <2>2, <2>3 DEF Init, TypeOK
<1>3. RowsSound
  BY NewRows DEF Init, RowsSound
<1>4. CopiesSound /\ EventsCharged
  BY DEF Init, CopiesSound, HoldsRow, EventsCharged
<1>5. QED
  BY <1>2, <1>3, <1>4 DEF BillingInv

\* Every step keeps the invariant.
LEMMA NextBilling == BillingInv /\ [Next]_vars => BillingInv'
<1> SUFFICES ASSUME BillingInv, [Next]_vars PROVE BillingInv'
  OBVIOUS
<1>1. CASE StripeNext
  BY <1>1, StripeKeeps
<1>2. CASE Day
  BY <1>2, DayKeepsAll
<1>3. ASSUME NEW w \in Workers,
             \/ \E o \in Orgs, p \in Paid : StartCheckout(w, o, p)
             \/ Proceed(w) \/ Deliver(w) \/ Crash(w)
      PROVE  BillingInv'
  <2>1. CASE \E s \in Subs : CreateSubscriptionCheckout(w, s)
    BY <2>1, SessionKeeps
  <2>2. CASE Upsert(w) \/ Save(w)
    BY <2>2, WriteKeeps
  <2>3. CASE Deliver(w)
    BY <2>3, DeliverKeeps
  <2>4. CASE Crash(w)
    BY <2>4, CrashKeeps
  <2>5. CASE FailsToWrite(w)
    BY <2>5, FailureKeeps
  <2>6. QED
    BY <1>3, <2>1, <2>2, <2>3, <2>4, <2>5, CheckoutKeeps DEF Proceed
<1>4. CASE UNCHANGED vars
  BY <1>4 DEF vars, BillingInv, TypeOK, RowsSound, CopiesSound, HoldsRow, EventsCharged
<1>5. QED
  BY <1>1, <1>2, <1>3, <1>4 DEF Next

(***************************************************************************)
(* Events delivered in order                                               *)
(***************************************************************************)
\* The statuses an event may leave in a row: "paused" keeps the old one.
Writes(e) ==
    CASE e.kind \in {"completed", "invoicePaid"} -> {"ACTIVE"}
      [] e.kind = "invoiceFailed" -> {"PAST_DUE"}
      [] e.kind = "deleted" -> {"CANCELED"}
      [] OTHER -> StatusFor(e.status)

\* An event about s waits; so does one that carries its cancel flag.
Waits(s) == \E e \in events : e.sub = s
FlagWaits(s) == \E e \in events : e.sub = s /\ e.kind = "updated"

\* Only rows of a purchase name a subscription.
RowsBought == \A o \in Orgs : rows[o].sub # NoSub => rows[o].plan \in Paid
CopiesBought == \A w \in Workers : HoldsRow(w) => (op[w].row.sub # NoSub => op[w].row.plan \in Paid)
Numbered == \A e \in events : e.n <= sent
NewFlags == \A s \in Subs : stripe[s].status \in {"none", "open"} => ~stripe[s].cancel

Booked == RowsBought /\ CopiesBought /\ Numbered /\ NewFlags

\* The last event about a subscription says what Stripe says, its last update
\* carries the flag, and before the checkout is recorded no change of the
\* flag has been applied.
LastWord ==
    \A e \in events : (\A f \in events : f.sub = e.sub => f.n <= e.n)
                          => Writes(e) \subseteq StatusFor(stripe[e.sub].status)
LastFlag ==
    \A e \in events :
        e.kind = "updated" /\ (\A f \in events : f.sub = e.sub /\ f.kind = "updated" => f.n <= e.n)
            => (e.cancel <=> stripe[e.sub].cancel)
FirstFlag ==
    \A e \in events : e.kind = "completed" /\ stripe[e.sub].cancel =>
        \E f \in events : f.sub = e.sub /\ f.kind = "updated" /\ f.n > e.n

\* A row agrees with Stripe unless an event about it waits or was missed.
RowAgrees(r) ==
    r.sub # NoSub /\ ~Missed(r.sub) =>
        /\ ~Waits(r.sub) => r.status \in StatusFor(stripe[r.sub].status)
        /\ ~FlagWaits(r.sub) => (r.cancel <=> stripe[r.sub].cancel)
RowsAgree == \A o \in Orgs : RowAgrees(rows[o])

\* A request holds what the oldest event says.
Follows(x) ==
    LET e == x.event IN
    /\ e \in events /\ \A f \in events : e.n <= f.n
    /\ x.row.sub = e.sub /\ x.row.status \in Writes(e)
    /\ e.kind = "updated" => (x.row.cancel <=> e.cancel)
    /\ e.kind # "updated" /\ ~FlagWaits(e.sub) /\ ~Missed(e.sub) => (x.row.cancel <=> stripe[e.sub].cancel)

\* Its copy never moves the deadline of the row away.
Sooner(x) ==
    /\ x.do = "upsert" => x.row.status = "ACTIVE" /\ (x.found <=> HasRow(x.org))
    /\ x.do = "save" /\ rows[x.org].status = "PAST_DUE" /\ x.row.status = "PAST_DUE"
           => x.row.grace <= rows[x.org].grace

\* One request at a time, that of Alone.
OneRequest == \A w \in Workers : ~Idle(w) => w = Alone
CopiesFollow == \A w \in Workers : HoldsRow(w) => Follows(op[w]) /\ Sooner(op[w])

InOrder ==
    ordered => OneRequest /\ LastWord /\ LastFlag /\ FirstFlag /\ RowsAgree /\ CopiesFollow

SettledInv == BillingInv /\ Booked /\ InOrder

(***************************************************************************)
(* What Stripe sends                                                       *)
(***************************************************************************)
\* The types that every step below uses.
LEMMA Shapes ==
    ASSUME BillingInv
    PROVE  /\ rows \in [Orgs -> OrgSubscription] /\ stripe \in [Subs -> StripeSub]
           /\ op \in [Workers -> Op] /\ events \subseteq Event /\ sent \in Nat
           /\ \A e \in events : e.n \in Nat /\ e.sub \in Subs /\ e.sub # NoSub
<1>1. sent \in Nat
  BY BillingAssumption DEF BillingInv, TypeOK
<1>2. \A e \in events : e.n \in Nat /\ e.sub \in Subs
  BY BillingAssumption DEF BillingInv, TypeOK, Event
<1>3. QED
  BY <1>1, <1>2, BillingAssumption DEF BillingInv, TypeOK

\* New events about s come after all others, their last one says what Stripe
\* says, and a changed flag comes with an update.
LEMMA NewsInOrder ==
    ASSUME SettledInv, NEW s \in Subs, NEW next \in StripeSub,
           stripe' = [stripe EXCEPT ![s] = next], next.status \notin {"none", "open"},
           NEW new \in SUBSET Event, new # {}, events' = events \cup new,
           sent' \in Nat, sent' >= sent, UNCHANGED <<rows, missed, op, ordered>>,
           \A e \in new : /\ e.sub = s /\ sent < e.n /\ e.n <= sent' /\ (e.cancel <=> next.cancel)
                          /\ (e.kind = "completed" => ~next.cancel)
                          /\ (\A f \in new : f.n <= e.n) => Writes(e) \subseteq StatusFor(next.status),
           (next.cancel <=> stripe[s].cancel) \/ \E e \in new : e.kind = "updated"
    PROVE  Booked' /\ InOrder'
<1>1. /\ rows \in [Orgs -> OrgSubscription] /\ stripe \in [Subs -> StripeSub]
      /\ op \in [Workers -> Op] /\ events \subseteq Event /\ sent \in Nat
      /\ \A e \in events : e.n \in Nat /\ e.sub \in Subs /\ e.sub # NoSub
  BY Shapes DEF SettledInv
<1>2. stripe'[s] = next /\ \A t \in Subs \ {s} : stripe'[t] = stripe[t]
  BY <1>1
<1>3. \A e \in new : e.n \in Nat /\ e.sub \in Subs
  BY BillingAssumption DEF Event
<1>4. \A e \in events : e.n <= sent
  BY DEF SettledInv, Booked, Numbered
<1>5. \A e \in events, f \in new : e.n < f.n
  BY <1>1, <1>3, <1>4
<1>6. Booked'
  <2>1. Numbered'
    BY <1>1, <1>3, <1>4 DEF Numbered
  <2>2. NewFlags'
    BY <1>2 DEF NewFlags, SettledInv, Booked
  <2>3. QED
    BY <2>1, <2>2 DEF SettledInv, Booked, RowsBought, CopiesBought, HoldsRow
<1>7. ASSUME ordered PROVE InOrder'
  <2>1. OneRequest /\ LastWord /\ LastFlag /\ FirstFlag /\ RowsAgree /\ CopiesFollow
    BY <1>7 DEF SettledInv, InOrder
  <2>2. OneRequest'
    BY <2>1 DEF OneRequest, Idle
  <2>3. LastWord'
    <3>1. SUFFICES ASSUME NEW e \in events', \A f \in events' : f.sub = e.sub => f.n <= e.n
                   PROVE  Writes(e) \subseteq StatusFor(stripe'[e.sub].status)
      BY DEF LastWord, Writes, StatusFor
    <3>2. CASE e \in new
      BY <1>2, <3>1, <3>2
    <3>3. CASE e \in events
      <4>1. e.sub # s
        BY <1>1, <1>3, <1>5, <3>1, <3>3
      <4>2. Writes(e) \subseteq StatusFor(stripe[e.sub].status)
        BY <2>1, <3>1, <3>3 DEF LastWord
      <4>3. QED
        BY <1>1, <1>2, <3>3, <4>1, <4>2
    <3>4. QED
      BY <3>1, <3>2, <3>3
  <2>4. LastFlag'
    <3>1. SUFFICES ASSUME NEW e \in events', e.kind = "updated",
                          \A f \in events' : f.sub = e.sub /\ f.kind = "updated" => f.n <= e.n
                   PROVE  e.cancel <=> stripe'[e.sub].cancel
      BY DEF LastFlag
    <3>2. CASE e \in new
      BY <1>2, <3>2
    <3>3. CASE e \in events
      <4>1. e.cancel <=> stripe[e.sub].cancel
        BY <2>1, <3>1, <3>3 DEF LastFlag
      <4>2. CASE e.sub # s
        BY <1>1, <1>2, <3>3, <4>1, <4>2
      <4>3. CASE e.sub = s
        <5>1. \A f \in new : f.kind # "updated"
          BY <1>1, <1>3, <1>5, <3>1, <3>3, <4>3
        <5>2. QED
          BY <1>2, <4>1, <4>3, <5>1
      <4>4. QED
        BY <4>2, <4>3
    <3>4. QED
      BY <3>1, <3>2, <3>3
  <2>5. FirstFlag'
    <3>1. SUFFICES ASSUME NEW e \in events', e.kind = "completed", stripe'[e.sub].cancel
                   PROVE  \E f \in events' : f.sub = e.sub /\ f.kind = "updated" /\ f.n > e.n
      BY DEF FirstFlag
    <3>2. CASE e \in new
      BY <1>2, <3>1, <3>2
    <3>3. CASE e \in events /\ stripe[e.sub].cancel
      BY <2>1, <3>1, <3>3 DEF FirstFlag
    <3>4. CASE e \in events /\ ~stripe[e.sub].cancel
      <4>1. e.sub = s
        BY <1>1, <1>2, <3>1, <3>4
      <4>2. PICK f \in new : f.kind = "updated"
        BY <1>2, <3>1, <3>4, <4>1
      <4>3. f.n > e.n
        BY <1>1, <1>3, <1>5, <3>4, <4>2
      <4>4. QED
        BY <4>1, <4>2, <4>3
    <3>5. QED
      BY <3>1, <3>2, <3>3, <3>4
  <2>6. \A r \in OrgSubscription : RowAgrees(r) => RowAgrees(r)'
    <3>1. SUFFICES ASSUME NEW r \in OrgSubscription, RowAgrees(r), r.sub # NoSub, ~Missed(r.sub)
                   PROVE  /\ ~Waits(r.sub)' => r.status \in StatusFor(stripe'[r.sub].status)
                          /\ ~FlagWaits(r.sub)' => (r.cancel <=> stripe'[r.sub].cancel)
      BY DEF RowAgrees, Missed, StatusFor
    <3>2. r.sub \in Subs
      BY <3>1 DEF OrgSubscription
    <3>3. (Waits(r.sub) => Waits(r.sub)') /\ (FlagWaits(r.sub) => FlagWaits(r.sub)')
      BY DEF Waits, Missed, FlagWaits
    <3>4. CASE r.sub # s
      BY <1>2, <3>1, <3>2, <3>3, <3>4 DEF RowAgrees
    <3>5. CASE r.sub = s
      <4>1. Waits(s)' /\ (~FlagWaits(s)' => (next.cancel <=> stripe[s].cancel))
        BY DEF Waits, Missed, FlagWaits
      <4>2. QED
        BY <1>2, <3>1, <3>3, <3>5, <4>1 DEF RowAgrees
    <3>6. QED
      BY <3>4, <3>5
  <2>7. RowsAgree'
    BY <1>1, <2>1, <2>6 DEF RowsAgree, RowAgrees
  <2>8. CopiesFollow'
    <3>1. SUFFICES ASSUME NEW w \in Workers, HoldsRow(w) PROVE Follows(op[w])' /\ Sooner(op[w])'
      BY DEF CopiesFollow, HoldsRow
    <3>2. PICK x : x = op[w]
      OBVIOUS
    <3>3. Follows(x) /\ Sooner(x)
      BY <2>1, <3>1, <3>2 DEF CopiesFollow
    <3>4. PICK e \in events : e = x.event
      BY <3>3 DEF Follows
    <3>5. \A f \in events' : e.n <= f.n
      BY <1>1, <1>3, <1>5, <3>3, <3>4 DEF Follows
    <3>6. ~FlagWaits(e.sub)' => (next.cancel <=> stripe[s].cancel) \/ e.sub # s
      BY DEF FlagWaits
    <3>7. FlagWaits(e.sub) => FlagWaits(e.sub)'
      BY DEF FlagWaits
    <3>8. e.kind # "updated" /\ ~FlagWaits(e.sub)' /\ ~Missed(e.sub) => (x.row.cancel <=> stripe'[e.sub].cancel)
      BY <1>1, <1>2, <3>3, <3>4, <3>6, <3>7 DEF Follows
    <3>9. Follows(x)'
      BY <3>3, <3>4, <3>5, <3>8 DEF Follows, Missed, Writes, StatusFor
    <3>10. Sooner(x)'
      BY <3>3 DEF Sooner, HasRow
    <3>11. QED
      BY <3>2, <3>9, <3>10 DEF Follows, Sooner
  <2>9. QED
    BY <2>2, <2>3, <2>4, <2>5, <2>7, <2>8 DEF InOrder
<1>8. QED
  BY <1>6, <1>7 DEF InOrder

\* One event, of a kind that says next's status.
LEMMA SendInOrder ==
    ASSUME SettledInv, NEW s \in Subs, NEW next \in StripeSub, NEW k \in EventKinds \ {"completed"},
           next.status \notin {"none", "open"}, Send(s, next, k),
           \A e : e.kind = k /\ e.status = next.status => Writes(e) \subseteq StatusFor(next.status),
           (next.cancel <=> stripe[s].cancel) \/ k = "updated"
    PROVE  Booked' /\ InOrder'
<1>1. sent \in Nat /\ sent + 1 <= MaxEvents /\ sent' = sent + 1
  BY Shapes, BillingAssumption DEF SettledInv, Send, EventsLeft
<1>2. PICK e : e = EventOf(s, k, next, sent + 1)
  OBVIOUS
<1>3. sent + 1 \in 1..MaxEvents
  BY <1>1, BillingAssumption
<1>4. /\ e.n = sent + 1 /\ e.kind = k /\ e.sub = s /\ e.status = next.status
      /\ (e.cancel <=> next.cancel)
  BY <1>2 DEF EventOf
<1>5. e \in Event
  BY <1>2, <1>3 DEF EventOf, Event, StripeSub
<1>6. events' = events \cup {e} /\ stripe' = [stripe EXCEPT ![s] = next] /\ UNCHANGED <<rows, missed, op, ordered>>
  BY <1>2 DEF Send
<1>7. {e} \in SUBSET Event /\ {e} # {} /\ Writes(e) \subseteq StatusFor(next.status)
  BY <1>4, <1>5
<1>8. PICK new : new = {e}
  OBVIOUS
<1>9. \A f \in new : f = e
  BY <1>8
<1>10. new \in SUBSET Event /\ new # {} /\ events' = events \cup new /\ e \in new
  BY <1>6, <1>7, <1>8
<1>11. \A f \in new : /\ f.sub = s /\ sent < f.n /\ f.n <= sent' /\ (f.cancel <=> next.cancel)
                      /\ (f.kind = "completed" => ~next.cancel)
                      /\ (\A g \in new : g.n <= f.n) => Writes(f) \subseteq StatusFor(next.status)
  BY <1>1, <1>4, <1>7, <1>9
<1>12. (next.cancel <=> stripe[s].cancel) \/ \E f \in new : f.kind = "updated"
  BY <1>4, <1>10
<1>13. sent' \in Nat /\ sent' >= sent
  BY <1>1
<1>14. QED
  BY <1>6, <1>10, <1>11, <1>12, <1>13, NewsInOrder

\* Two events, the second of which says next's status.
LEMMA Send2InOrder ==
    ASSUME SettledInv, NEW s \in Subs, NEW next \in StripeSub, NEW k1 \in EventKinds, NEW k2 \in EventKinds,
           next.status \notin {"none", "open"}, Send2(s, next, k1, k2),
           \A e : e.kind = k2 /\ e.status = next.status => Writes(e) \subseteq StatusFor(next.status),
           next.cancel <=> stripe[s].cancel,
           "completed" \in {k1, k2} => ~next.cancel
    PROVE  Booked' /\ InOrder'
<1>1. sent \in Nat /\ sent + 2 <= MaxEvents /\ sent' = sent + 2
  BY Shapes, BillingAssumption DEF SettledInv, Send2, EventsLeft
<1>2. PICK d, e : d = EventOf(s, k1, next, sent + 1) /\ e = EventOf(s, k2, next, sent + 2)
  OBVIOUS
<1>3. sent + 1 \in 1..MaxEvents /\ sent + 2 \in 1..MaxEvents
  BY <1>1, BillingAssumption
<1>4. /\ e.n = sent + 2 /\ e.kind = k2 /\ e.sub = s /\ e.status = next.status
      /\ (e.cancel <=> next.cancel)
      /\ d.n = sent + 1 /\ d.kind = k1 /\ d.sub = s /\ (d.cancel <=> next.cancel)
  BY <1>2 DEF EventOf
<1>5. d \in Event /\ e \in Event
  BY <1>2, <1>3 DEF EventOf, Event, StripeSub
<1>6. /\ events' = events \cup {d, e} /\ stripe' = [stripe EXCEPT ![s] = next]
      /\ UNCHANGED <<rows, missed, op, ordered>>
  BY <1>2 DEF Send2
<1>7. Writes(e) \subseteq StatusFor(next.status)
  BY <1>4
<1>8. PICK new : new = {d, e}
  OBVIOUS
<1>9. \A f \in new : f = d \/ f = e
  BY <1>8
<1>10. new \in SUBSET Event /\ new # {} /\ events' = events \cup new /\ e \in new
  BY <1>5, <1>6, <1>8
<1>11. ASSUME NEW f \in new
       PROVE  /\ f.sub = s /\ sent < f.n /\ f.n <= sent' /\ (f.cancel <=> next.cancel)
              /\ (f.kind = "completed" => ~next.cancel)
              /\ (\A g \in new : g.n <= f.n) => Writes(f) \subseteq StatusFor(next.status)
  <2>1. f.sub = s /\ sent < f.n /\ f.n <= sent' /\ (f.cancel <=> next.cancel)
    BY <1>1, <1>4, <1>9
  <2>2. f.kind = "completed" => ~next.cancel
    BY <1>4, <1>9
  <2>3. (\A g \in new : g.n <= f.n) => f = e
    BY <1>1, <1>4, <1>9, <1>10
  <2>4. QED
    BY <1>7, <2>1, <2>2, <2>3
<1>12. sent' \in Nat /\ sent' >= sent
  BY <1>1
<1>13. QED
  BY <1>6, <1>10, <1>11, <1>12, NewsInOrder

\* The last event of each kind says what Stripe says.
LEMMA Says ==
    \A e : /\ e.kind = "updated" => Writes(e) \subseteq StatusFor(e.status)
           /\ e.kind \in {"completed", "invoicePaid"} /\ e.status = "active" => Writes(e) \subseteq StatusFor(e.status)
           /\ e.kind = "invoiceFailed" /\ e.status = "past_due" => Writes(e) \subseteq StatusFor(e.status)
           /\ e.kind = "deleted" /\ e.status = "canceled" => Writes(e) \subseteq StatusFor(e.status)
<1>1. ASSUME NEW e, e.kind = "updated" PROVE Writes(e) \subseteq StatusFor(e.status)
  BY <1>1 DEF Writes
<1>2. ASSUME NEW e, e.kind \in {"completed", "invoicePaid"}, e.status = "active"
      PROVE  Writes(e) \subseteq StatusFor(e.status)
  BY <1>2 DEF Writes, StatusFor
<1>3. ASSUME NEW e, e.kind = "invoiceFailed", e.status = "past_due" PROVE Writes(e) \subseteq StatusFor(e.status)
  BY <1>3 DEF Writes, StatusFor
<1>4. ASSUME NEW e, e.kind = "deleted", e.status = "canceled" PROVE Writes(e) \subseteq StatusFor(e.status)
  BY <1>4 DEF Writes, StatusFor
<1>5. QED
  BY <1>1, <1>2, <1>3, <1>4

LEMMA StripeInOrder == ASSUME SettledInv, StripeNext PROVE Booked' /\ InOrder'
<1>1. PICK s \in Subs :
        \/ BuyerSubscribes(s) \/ InvoiceIsPaid(s) \/ InvoiceFails(s) \/ StripeGivesUp(s)
        \/ PausesOrResumes(s) \/ PortalCancels(s) \/ PeriodEnds(s)
  BY DEF StripeNext
<1>2. BillingInv /\ stripe[s] \in StripeSub
  BY DEF SettledInv, BillingInv, TypeOK
<1>3. ASSUME NEW x \in StripeStatus
      PROVE  /\ Becomes(s, x) \in StripeSub /\ Becomes(s, x).status = x
             /\ (Becomes(s, x).cancel <=> stripe[s].cancel)
  BY <1>2 DEF Becomes, StripeSub
<1> USE DEF EventKinds, StripeStatus
<1>4. CASE BuyerSubscribes(s)
  <2>1. ~stripe[s].cancel
    BY <1>4 DEF BuyerSubscribes, SettledInv, Booked, NewFlags
  <2>2. CASE Send2(s, Becomes(s, "active"), "completed", "invoicePaid")
    BY <1>3, <2>1, <2>2, Says, Send2InOrder
  <2>3. CASE Send2(s, Becomes(s, "active"), "invoicePaid", "completed")
    BY <1>3, <2>1, <2>3, Says, Send2InOrder
  <2>4. QED
    BY <1>4, <2>2, <2>3 DEF BuyerSubscribes
<1>5. CASE InvoiceIsPaid(s)
  <2>1. CASE stripe[s].status = "active" /\ Send(s, stripe[s], "invoicePaid")
    BY <1>2, <2>1, Says, SendInOrder
  <2>2. CASE Send2(s, Becomes(s, "active"), "invoicePaid", "updated")
    BY <1>3, <2>2, Says, Send2InOrder
  <2>3. QED
    BY <1>5, <2>1, <2>2 DEF InvoiceIsPaid
<1>6. CASE InvoiceFails(s)
  <2>1. CASE Send2(s, Becomes(s, "past_due"), "invoiceFailed", "updated")
    BY <1>3, <2>1, Says, Send2InOrder
  <2>2. CASE stripe[s].status = "past_due" /\ Send(s, stripe[s], "invoiceFailed")
    BY <1>2, <2>2, Says, SendInOrder
  <2>3. QED
    BY <1>6, <2>1, <2>2 DEF InvoiceFails
<1>7. CASE StripeGivesUp(s)
  <2>1. CASE Send(s, Becomes(s, "unpaid"), "updated")
    BY <1>3, <2>1, Says, SendInOrder
  <2>2. CASE Send(s, Becomes(s, "canceled"), "deleted")
    BY <1>3, <2>2, Says, SendInOrder
  <2>3. QED
    BY <1>7, <2>1, <2>2 DEF StripeGivesUp
<1>8. CASE PausesOrResumes(s)
  BY <1>3, <1>8, Says, SendInOrder DEF PausesOrResumes
<1>9. CASE PortalCancels(s)
  <2>1. PICK next : next = [stripe[s] EXCEPT !.cancel = ~@]
    OBVIOUS
  <2>2. next \in StripeSub /\ next.status = stripe[s].status
    BY <1>2, <2>1 DEF StripeSub
  <2>3. Send(s, next, "updated") /\ stripe[s].status \in {"active", "past_due"}
    BY <1>9, <2>1 DEF PortalCancels
  <2>4. QED
    BY <2>2, <2>3, Says, SendInOrder
<1>10. CASE PeriodEnds(s)
  BY <1>3, <1>10, Says, SendInOrder DEF PeriodEnds
<1>11. QED
  BY <1>1, <1>4, <1>5, <1>6, <1>7, <1>8, <1>9, <1>10

(***************************************************************************)
(* One request at a time                                                   *)
(***************************************************************************)
\* The oldest event is answered, or stays when the answer is lost; only an
\* update makes up for what was missed, of its own subscription.
LEMMA AnswersInOrder ==
    ASSUME SettledInv, ordered, NEW e \in events, \A f \in events : e.n <= f.n,
           events' = events \/ events' = events \ {e}, UNCHANGED <<stripe, sent, ordered>>,
           \A s : s # e.sub => (Missed(s)' <=> Missed(s)),
           e.kind # "updated" => (Missed(e.sub) => Missed(e.sub)')
    PROVE  /\ LastWord' /\ LastFlag' /\ FirstFlag'
           /\ \A r : r.sub # e.sub /\ RowAgrees(r) => RowAgrees(r)'
           /\ \A x : Follows(x) /\ x.event = e => RowAgrees(x.row)'
<1>1. LastWord /\ LastFlag /\ FirstFlag
  BY DEF SettledInv, InOrder
<1>2. \A f \in events : f.n \in Nat
  BY Shapes DEF SettledInv
<1>3. \A f \in events : f # e => f \in events'
  OBVIOUS
<1>4. \A f \in events' : f \in events
  OBVIOUS
<1>5. LastWord'
  <2>1. SUFFICES ASSUME NEW d \in events', \A f \in events' : f.sub = d.sub => f.n <= d.n
                 PROVE  Writes(d) \subseteq StatusFor(stripe[d.sub].status)
    BY DEF LastWord, Writes, StatusFor
  <2>2. \A f \in events : f.sub = d.sub => f.n <= d.n
    BY <1>3, <1>4, <2>1
  <2>3. QED
    BY <1>1, <1>4, <2>1, <2>2 DEF LastWord
<1>6. LastFlag'
  <2>1. SUFFICES ASSUME NEW d \in events', d.kind = "updated",
                        \A f \in events' : f.sub = d.sub /\ f.kind = "updated" => f.n <= d.n
                 PROVE  d.cancel <=> stripe[d.sub].cancel
    BY DEF LastFlag
  <2>2. \A f \in events : f.sub = d.sub /\ f.kind = "updated" => f.n <= d.n
    BY <1>3, <1>4, <2>1
  <2>3. QED
    BY <1>1, <1>4, <2>1, <2>2 DEF LastFlag
<1>7. FirstFlag'
  <2>1. SUFFICES ASSUME NEW d \in events', d.kind = "completed", stripe[d.sub].cancel
                 PROVE  \E f \in events' : f.sub = d.sub /\ f.kind = "updated" /\ f.n > d.n
    BY DEF FirstFlag
  <2>2. PICK f \in events : f.sub = d.sub /\ f.kind = "updated" /\ f.n > d.n
    BY <1>1, <1>4, <2>1 DEF FirstFlag
  <2>3. e.n <= d.n /\ d.n \in Nat /\ f.n \in Nat
    BY <1>2, <1>4
  <2>4. f # e
    BY <2>2, <2>3
  <2>5. QED
    BY <1>3, <2>2, <2>4
<1>8. ASSUME NEW r, r.sub # e.sub, RowAgrees(r) PROVE RowAgrees(r)'
  <2>1. (Waits(r.sub) => Waits(r.sub)') /\ (FlagWaits(r.sub) => FlagWaits(r.sub)')
    BY <1>3, <1>8 DEF Waits, FlagWaits
  <2>2. QED
    BY <1>8, <2>1 DEF RowAgrees, StatusFor
<1>9. ASSUME NEW x, Follows(x), x.event = e PROVE RowAgrees(x.row)'
  <2>1. /\ x.row.sub = e.sub /\ x.row.status \in Writes(e)
        /\ e.kind = "updated" => (x.row.cancel <=> e.cancel)
        /\ e.kind # "updated" /\ ~FlagWaits(e.sub) /\ ~Missed(e.sub) => (x.row.cancel <=> stripe[e.sub].cancel)
    BY <1>9 DEF Follows
  <2>2. ASSUME ~Waits(e.sub)' PROVE x.row.status \in StatusFor(stripe[e.sub].status)
    <3>1. \A f \in events : f.sub = e.sub => f = e
      BY <1>3, <2>2 DEF Waits
    <3>2. \A f \in events : f.sub = e.sub => f.n <= e.n
      BY <1>2, <3>1
    <3>3. QED
      BY <1>1, <2>1, <3>2 DEF LastWord
  <2>3. ASSUME ~FlagWaits(e.sub)', ~Missed(e.sub)' PROVE x.row.cancel <=> stripe[e.sub].cancel
    <3>1. \A f \in events : f.sub = e.sub /\ f.kind = "updated" => f = e
      BY <1>3, <2>3 DEF FlagWaits
    <3>2. CASE e.kind = "updated"
      <4>1. \A f \in events : f.sub = e.sub /\ f.kind = "updated" => f.n <= e.n
        BY <1>2, <3>1
      <4>2. QED
        BY <1>1, <2>1, <3>2, <4>1 DEF LastFlag
    <3>3. CASE e.kind # "updated"
      <4>1. ~FlagWaits(e.sub)
        BY <3>1, <3>3 DEF FlagWaits
      <4>2. QED
        BY <2>1, <2>3, <3>3, <4>1
    <3>4. QED
      BY <3>2, <3>3
  <2>4. QED
    BY <2>1, <2>2, <2>3 DEF RowAgrees, StatusFor
<1>10. QED
  BY <1>5, <1>6, <1>7, <1>8, <1>9

\* A request goes on to x without writing.
LEMMA ReadsInOrder ==
    ASSUME SettledInv, NEW w \in Workers, ordered => w = Alone, NEW x \in Op, Hold(w, x),
           x.do \in {"upsert", "save"} => (x.row.sub # NoSub => x.row.plan \in Paid),
           ordered /\ x.do \in {"upsert", "save"} => Follows(x) /\ Sooner(x),
           UNCHANGED <<rows, stripe, events, sent, missed, ordered>>
    PROVE  Booked' /\ InOrder'
<1>1. op \in [Workers -> Op]
  BY Shapes DEF SettledInv
<1>2. op'[w] = x /\ \A v \in Workers \ {w} : op'[v] = op[v]
  BY <1>1 DEF Hold
<1>3. Booked'
  BY <1>2 DEF SettledInv, Booked, RowsBought, CopiesBought, HoldsRow, Numbered, NewFlags
<1>4. ASSUME ordered PROVE InOrder'
  <2>1. OneRequest /\ LastWord /\ LastFlag /\ FirstFlag /\ RowsAgree /\ w = Alone
    BY <1>4 DEF SettledInv, InOrder
  <2>2. OneRequest' /\ \A v \in Workers \ {w} : op'[v].do = "idle"
    BY <1>2, <2>1 DEF OneRequest, Idle
  <2>3. LastWord' /\ LastFlag' /\ FirstFlag'
    BY <2>1 DEF LastWord, LastFlag, FirstFlag, Writes, StatusFor
  <2>4. RowsAgree'
    BY <2>1 DEF RowsAgree, RowAgrees, Waits, Missed, FlagWaits, StatusFor
  <2>5. CopiesFollow'
    <3>1. SUFFICES ASSUME HoldsRow(w)' PROVE Follows(op[w])' /\ Sooner(op[w])'
      BY <2>2 DEF CopiesFollow, HoldsRow
    <3>2. Follows(x)' /\ Sooner(x)'
      BY <1>2, <1>4, <3>1 DEF HoldsRow, Follows, Missed, Sooner, HasRow, FlagWaits, Writes, StatusFor
    <3>3. QED
      BY <1>2, <3>2 DEF Follows, Sooner
  <2>6. QED
    BY <2>2, <2>3, <2>4, <2>5 DEF InOrder
<1>5. QED
  BY <1>3, <1>4 DEF InOrder

\* A request writes row r, if it writes at all, and is left with x.
LEMMA WritesInOrder ==
    ASSUME SettledInv, NEW w \in Workers, ordered => w = Alone,
           NEW x \in Op, x.do \notin {"upsert", "save"}, Hold(w, x),
           NEW o \in Orgs, NEW r \in OrgSubscription, rows' = [rows EXCEPT ![o] = r] \/ (~ordered /\ rows' = rows),
           r.sub # NoSub => r.plan \in Paid, events' \subseteq events,
           UNCHANGED <<stripe, sent, ordered>>,
           ordered => /\ LastWord' /\ LastFlag' /\ FirstFlag' /\ RowAgrees(r)'
                      /\ \A p \in Orgs \ {o} : RowAgrees(rows[p]) => RowAgrees(rows[p])'
    PROVE  Booked' /\ InOrder'
<1>1. op \in [Workers -> Op] /\ rows \in [Orgs -> OrgSubscription]
  BY Shapes DEF SettledInv
<1>2. op'[w] = x /\ \A v \in Workers \ {w} : op'[v] = op[v]
  BY <1>1 DEF Hold
<1>3. Booked'
  BY <1>1, <1>2 DEF SettledInv, Booked, RowsBought, CopiesBought, HoldsRow, Numbered, NewFlags
<1>4. ASSUME ordered PROVE InOrder'
  <2>1. OneRequest /\ RowsAgree /\ w = Alone
    BY <1>4 DEF SettledInv, InOrder
  <2>2. OneRequest' /\ \A v \in Workers \ {w} : op'[v].do = "idle"
    BY <1>2, <2>1 DEF OneRequest, Idle
  <2>3. rows'[o] = r /\ \A p \in Orgs \ {o} : rows'[p] = rows[p]
    BY <1>1, <1>4
  <2>4. RowsAgree'
    <3>1. SUFFICES ASSUME NEW p \in Orgs PROVE RowAgrees(rows[p])'
      BY DEF RowsAgree, RowAgrees
    <3>2. CASE p = o
      BY <1>4, <2>3, <3>2 DEF RowAgrees
    <3>3. CASE p # o
      <4>1. rows'[p] = rows[p] /\ RowAgrees(rows[p])
        BY <2>1, <2>3, <3>3 DEF RowsAgree
      <4>2. PICK q : q = rows[p]
        OBVIOUS
      <4>3. RowAgrees(q)'
        BY <1>4, <3>3, <4>1, <4>2 DEF RowAgrees
      <4>4. QED
        BY <4>1, <4>2, <4>3 DEF RowAgrees
    <3>4. QED
      BY <3>2, <3>3
  <2>5. CopiesFollow'
    BY <1>2, <2>2 DEF CopiesFollow, HoldsRow
  <2>6. QED
    BY <1>4, <2>2, <2>4, <2>5 DEF InOrder
<1>5. QED
  BY <1>3, <1>4 DEF InOrder

LEMMA Served ==
    ASSUME SettledInv, NEW w \in Workers, MayStart(w) \/ ~Idle(w)
    PROVE  ordered => w = Alone
  BY DEF SettledInv, InOrder, OneRequest, MayStart

\* Nothing is answered: rows agree as they did.
LEMMA NothingSaid ==
    ASSUME SettledInv, UNCHANGED <<stripe, events, sent, missed, ordered>>
    PROVE  /\ ordered => LastWord' /\ LastFlag' /\ FirstFlag'
           /\ \A r : RowAgrees(r) => RowAgrees(r)'
<1>1. ordered => LastWord' /\ LastFlag' /\ FirstFlag'
  BY DEF SettledInv, InOrder, LastWord, LastFlag, FirstFlag, Writes, StatusFor
<1>2. \A r : RowAgrees(r) => RowAgrees(r)'
  BY DEF RowAgrees, Waits, Missed, FlagWaits, StatusFor
<1>3. QED
  BY <1>1, <1>2

\* StartCheckout and the steps that follow it.
LEMMA CheckoutInOrder ==
    ASSUME SettledInv, NEW w \in Workers,
           \/ \E o \in Orgs, p \in Paid : StartCheckout(w, o, p)
           \/ GetOrCreateCustomer(w) \/ FindCustomerRow(w) \/ UpsertCustomer(w)
           \/ CustomerConflict(w) \/ CheckoutFails(w)
    PROVE  Booked' /\ InOrder'
<1>1. op[w] \in Op
  BY Shapes DEF SettledInv
<1>2. [do |-> "idle"] \in Op
  BY DEF Op
<1>3. ordered => w = Alone
  BY Served DEF StartCheckout, GetOrCreateCustomer, FindCustomerRow, UpsertCustomer, CustomerConflict,
                CheckoutFails, Doing, Idle
<1>4. ASSUME NEW x \in Op, x.do \notin {"upsert", "save"}, Hold(w, x),
             UNCHANGED <<rows, stripe, events, sent, missed, ordered>>
      PROVE  Booked' /\ InOrder'
  BY <1>3, <1>4, ReadsInOrder
<1>5. ASSUME NEW o \in Orgs, NEW p \in Paid, StartCheckout(w, o, p) PROVE Booked' /\ InOrder'
  <2>1. PICK x : x = [do |-> "customer", org |-> o, plan |-> p]
    OBVIOUS
  <2>2. x \in Op /\ x.do = "customer"
    BY <2>1 DEF Op
  <2>3. QED
    BY <1>4, <1>5, <2>1, <2>2 DEF StartCheckout
<1>6. CASE GetOrCreateCustomer(w)
  <2>1. PICK x : x = [op[w] EXCEPT !.do = IF HasRow(op[w].org) THEN "session" ELSE "createCustomer"]
    OBVIOUS
  <2>2. op[w] \in [do: {"customer", "createCustomer", "session"}, org: Orgs, plan: Paid]
    BY <1>1, <1>6 DEF Op, GetOrCreateCustomer, Doing
  <2>3. x \in [do: {"customer", "createCustomer", "session"}, org: Orgs, plan: Paid]
    BY <2>1, <2>2
  <2>4. x \in Op /\ x.do \notin {"upsert", "save"}
    BY <2>3 DEF Op
  <2>5. Hold(w, x) /\ UNCHANGED <<rows, stripe, events, sent, missed, ordered>>
    BY <1>6, <2>1 DEF GetOrCreateCustomer
  <2>6. QED
    BY <1>4, <2>4, <2>5
<1>7. CASE FindCustomerRow(w)
  <2>1. PICK x : x = [do |-> "upsertCustomer", org |-> op[w].org, plan |-> op[w].plan, found |-> HasRow(op[w].org)]
    OBVIOUS
  <2>2. op[w].org \in Orgs /\ op[w].plan \in Paid
    BY <1>1, <1>7, OpFields DEF FindCustomerRow, Doing
  <2>3. HasRow(op[w].org) \in BOOLEAN
    BY DEF HasRow
  <2>4. x \in Op /\ x.do \notin {"upsert", "save"}
    BY <2>1, <2>2, <2>3 DEF Op
  <2>5. Hold(w, x) /\ UNCHANGED <<rows, stripe, events, sent, missed, ordered>>
    BY <1>7, <2>1 DEF FindCustomerRow
  <2>6. QED
    BY <1>4, <2>4, <2>5
<1>8. CASE UpsertCustomer(w)
  <2>1. PICK x : x = [do |-> "session", org |-> op[w].org, plan |-> op[w].plan]
    OBVIOUS
  <2>2. op[w].org \in Orgs /\ op[w].plan \in Paid
    BY <1>1, <1>8, OpFields DEF UpsertCustomer, Doing
  <2>3. x \in Op /\ x.do \notin {"upsert", "save"}
    BY <2>1, <2>2 DEF Op
  <2>4. /\ Hold(w, x) /\ rows' = [rows EXCEPT ![op[w].org] = NewCustomerRow]
        /\ UNCHANGED <<stripe, events, sent, missed, ordered>>
    BY <1>8, <2>1 DEF UpsertCustomer
  <2>5. NewCustomerRow \in OrgSubscription /\ NewCustomerRow.sub = NoSub
    BY NewRows DEF NewCustomerRow, NoRow
  <2>6. PICK r \in OrgSubscription : r = NewCustomerRow /\ r.sub = NoSub
    BY <2>5
  <2>7. RowAgrees(r)'
    BY <2>6 DEF RowAgrees
  <2>8. PICK o \in Orgs : o = op[w].org
    BY <2>2
  <2>9. \A p \in Orgs \ {o} : RowAgrees(rows[p]) => RowAgrees(rows[p])'
    <3>1. SUFFICES ASSUME NEW p \in Orgs \ {o}, RowAgrees(rows[p]) PROVE RowAgrees(rows[p])'
      OBVIOUS
    <3>2. rows'[p] = rows[p]
      BY <2>4, <2>8, Shapes DEF SettledInv
    <3>3. QED
      BY <2>4, <3>1, <3>2, NothingSaid DEF RowAgrees
  <2>10. QED
    BY <1>3, <2>3, <2>4, <2>6, <2>7, <2>8, <2>9, NothingSaid, WritesInOrder
<1>9. CASE CustomerConflict(w)
  <2>1. PICK x : x = [do |-> "idle"]
    OBVIOUS
  <2>2. x \in Op /\ x.do \notin {"upsert", "save"}
    BY <1>2, <2>1
  <2>3. QED
    BY <1>4, <1>9, <2>1, <2>2 DEF CustomerConflict, Done
<1>10. CASE CheckoutFails(w)
  <2>1. PICK x : x = [do |-> "idle"]
    OBVIOUS
  <2>2. x \in Op /\ x.do \notin {"upsert", "save"}
    BY <1>2, <2>1
  <2>3. QED
    BY <1>4, <1>10, <2>1, <2>2 DEF CheckoutFails, Done
<1>11. QED
  BY <1>5, <1>6, <1>7, <1>8, <1>9, <1>10

\* No row, copy or event names a session that is opened.
LEMMA SessionInOrder ==
    ASSUME SettledInv, NEW w \in Workers, NEW s \in Subs, CreateSubscriptionCheckout(w, s)
    PROVE  Booked' /\ InOrder'
<1>1. /\ rows \in [Orgs -> OrgSubscription] /\ stripe \in [Subs -> StripeSub]
      /\ op \in [Workers -> Op] /\ events \subseteq Event
      /\ \A e \in events : e.sub \in Subs /\ e.sub # NoSub
  BY Shapes DEF SettledInv
<1>2. /\ stripe[s].status = "none" /\ UNCHANGED <<rows, events, sent, missed, ordered>>
      /\ \A t \in Subs \ {s} : stripe'[t] = stripe[t]
      /\ ~stripe'[s].cancel
      /\ op'[w].do = "idle" /\ \A v \in Workers \ {w} : op'[v] = op[v]
  BY <1>1 DEF CreateSubscriptionCheckout, Done, Hold
<1>3. \A e \in events : e.sub # s
  BY <1>2 DEF SettledInv, BillingInv, EventsCharged, Charged
<1>4. \A o \in Orgs : rows[o].sub # s
  BY <1>2, BillingAssumption DEF SettledInv, Booked, RowsBought, BillingInv, RowsSound, Sound, Bought, Charged
<1>5. ordered => w = Alone
  BY Served DEF CreateSubscriptionCheckout, Doing, Idle
<1>6. Booked'
  <2>1. RowsBought' /\ CopiesBought' /\ Numbered'
    BY <1>2 DEF SettledInv, Booked, RowsBought, CopiesBought, HoldsRow, Numbered
  <2>2. NewFlags'
    BY <1>2 DEF NewFlags, SettledInv, Booked
  <2>3. QED
    BY <2>1, <2>2 DEF Booked
<1>7. ASSUME ordered PROVE InOrder'
  <2>1. OneRequest /\ LastWord /\ LastFlag /\ FirstFlag /\ RowsAgree
    BY <1>7 DEF SettledInv, InOrder
  <2>2. OneRequest' /\ \A v \in Workers : op'[v].do = "idle"
    BY <1>2, <1>5, <1>7, <2>1 DEF OneRequest, Idle
  <2>3. \A e \in events : stripe'[e.sub] = stripe[e.sub]
    BY <1>1, <1>2, <1>3
  <2>4. LastWord'
    <3>1. SUFFICES ASSUME NEW e \in events, \A f \in events : f.sub = e.sub => f.n <= e.n
                   PROVE  Writes(e) \subseteq StatusFor(stripe'[e.sub].status)
      BY <1>2 DEF LastWord, Writes, StatusFor
    <3>2. QED
      BY <2>1, <2>3, <3>1 DEF LastWord
  <2>5. LastFlag'
    BY <1>2, <2>1, <2>3 DEF LastFlag
  <2>6. FirstFlag'
    BY <1>2, <2>1, <2>3 DEF FirstFlag
  <2>7. RowsAgree'
    <3>1. SUFFICES ASSUME NEW o \in Orgs, rows[o].sub # NoSub, ~Missed(rows[o].sub)
                   PROVE  /\ ~Waits(rows[o].sub) => rows[o].status \in StatusFor(stripe'[rows[o].sub].status)
                          /\ ~FlagWaits(rows[o].sub) => (rows[o].cancel <=> stripe'[rows[o].sub].cancel)
      BY <1>2 DEF RowsAgree, RowAgrees, Waits, Missed, FlagWaits, StatusFor
    <3>2. rows[o].sub \in Subs
      BY <1>1, <3>1 DEF OrgSubscription
    <3>3. stripe'[rows[o].sub] = stripe[rows[o].sub]
      BY <1>2, <1>4, <3>2
    <3>4. QED
      BY <2>1, <3>1, <3>3 DEF RowsAgree, RowAgrees
  <2>8. CopiesFollow'
    BY <2>2 DEF CopiesFollow, HoldsRow
  <2>9. QED
    BY <2>2, <2>4, <2>5, <2>6, <2>7, <2>8 DEF InOrder
<1>8. QED
  BY <1>2, <1>6, <1>7 DEF InOrder

\* A handler that is given the oldest event holds what it says.
LEMMA HeldInOrder ==
    ASSUME SettledInv, NEW w \in Workers, NEW e \in events, Receives(w, e),
           NEW o \in Orgs, rows[o].sub = e.sub, NEW r \in OrgSubscription, HoldCopy(w, e, o, r),
           r.plan = rows[o].plan, r.sub = e.sub, r.status \in Writes(e),
           e.kind = "updated" => (r.cancel <=> e.cancel),
           e.kind # "updated" => (r.cancel <=> rows[o].cancel) \/ (r.cancel <=> stripe[e.sub].cancel),
           rows[o].status = "PAST_DUE" /\ r.status = "PAST_DUE" => r.grace = rows[o].grace
    PROVE  Booked' /\ InOrder'
<1>1. /\ rows \in [Orgs -> OrgSubscription] /\ e \in Event /\ e.sub # NoSub
  BY Shapes DEF SettledInv
<1>2. PICK x : x = [do |-> "save", org |-> o, row |-> r, event |-> e]
  OBVIOUS
<1>3. x.do = "save" /\ x.org = o /\ x.row = r /\ x.event = e
  BY <1>2
<1>4. x \in Op
  BY <1>1, <1>2 DEF Op
<1>5. Hold(w, x) /\ UNCHANGED <<rows, stripe, events, sent, missed, ordered>>
  BY <1>2 DEF HoldCopy
<1>6. r.sub # NoSub => r.plan \in Paid
  BY DEF SettledInv, Booked, RowsBought
<1>7. ASSUME ordered PROVE Follows(x) /\ Sooner(x)
  <2>1. \A f \in events : e.n <= f.n
    BY <1>7 DEF Receives
  <2>2. RowAgrees(rows[o])
    BY <1>7 DEF SettledInv, InOrder, RowsAgree
  <2>3. ~FlagWaits(e.sub) /\ ~Missed(e.sub) => (rows[o].cancel <=> stripe[e.sub].cancel)
    BY <1>1, <2>2 DEF RowAgrees
  <2>4. Follows(x)
    BY <1>3, <2>1, <2>3 DEF Follows
  <2>5. rows[o].status = "PAST_DUE" /\ r.status = "PAST_DUE" => r.grace <= rows[o].grace
    <3>1. rows[o].grace \in Int
      BY <1>1, BillingAssumption DEF OrgSubscription, NoGrace
    <3>2. QED
      BY <3>1
  <2>6. Sooner(x)
    BY <1>3, <2>5 DEF Sooner
  <2>7. QED
    BY <2>4, <2>6
<1>8. ordered => w = Alone
  BY DEF Receives, MayStart
<1>9. QED
  BY <1>3, <1>4, <1>5, <1>6, <1>7, <1>8, ReadsInOrder

LEMMA CompletedInOrder ==
    ASSUME SettledInv, NEW w \in Workers, NEW e \in events, OnCheckoutCompleted(w, e)
    PROVE  Booked' /\ InOrder'
<1>1. /\ e \in Event /\ e.sub \in Subs /\ e.sub # NoSub /\ stripe[e.sub] \in StripeSub
  BY Shapes DEF SettledInv
<1>2. PICK o, p : o = stripe[e.sub].org /\ p = stripe[e.sub].plan
  OBVIOUS
<1>3. o \in Orgs /\ p \in Paid
  BY <1>1, <1>2 DEF StripeSub
<1>4. PICK c \in CancelFlags(e, FALSE) :
        Hold(w, [do |-> "upsert", org |-> o, found |-> HasRow(o), event |-> e,
                 row |-> [NoRow EXCEPT !.plan = p, !.sub = e.sub, !.cancel = c]])
  BY <1>2 DEF OnCheckoutCompleted
<1>5. PICK r : r = [NoRow EXCEPT !.plan = p, !.sub = e.sub, !.cancel = c]
  OBVIOUS
<1>6. c \in BOOLEAN /\ ((c <=> stripe[e.sub].cancel) \/ ~c)
  BY <1>1, <1>4 DEF CancelFlags, StripeSub
<1>7. r \in OrgSubscription /\ r.plan = p /\ r.sub = e.sub /\ r.status = "ACTIVE" /\ (r.cancel <=> c)
  BY <1>1, <1>3, <1>5, <1>6 DEF NoRow, OrgSubscription, Plans, Paid, SubStatus, NoGrace
<1>8. HasRow(o) \in BOOLEAN
  BY DEF HasRow
<1>9. PICK x : x = [do |-> "upsert", org |-> o, found |-> HasRow(o), event |-> e, row |-> r]
  OBVIOUS
<1>10. x \in Op
  BY <1>1, <1>3, <1>7, <1>8, <1>9 DEF Op
<1>11. x.do = "upsert" /\ x.org = o /\ (x.found <=> HasRow(o)) /\ x.event = e /\ x.row = r
  BY <1>9
<1>12. Hold(w, x) /\ UNCHANGED <<rows, stripe, events, sent, missed, ordered>>
  BY <1>4, <1>5, <1>9 DEF OnCheckoutCompleted
<1>13. Receives(w, e) /\ e.kind = "completed"
  BY DEF OnCheckoutCompleted
<1>14. ASSUME ordered PROVE Follows(x) /\ Sooner(x)
  <2>1. \A f \in events : e.n <= f.n
    BY <1>13, <1>14 DEF Receives
  <2>2. ~FlagWaits(e.sub) => (r.cancel <=> stripe[e.sub].cancel)
    <3>1. ~FlagWaits(e.sub) => ~stripe[e.sub].cancel
      BY <1>13, <1>14 DEF SettledInv, InOrder, FirstFlag, FlagWaits
    <3>2. QED
      BY <1>6, <1>7, <3>1
  <2>3. r.status \in Writes(e)
    BY <1>7, <1>13 DEF Writes
  <2>4. Follows(x)
    BY <1>7, <1>11, <1>13, <2>1, <2>2, <2>3 DEF Follows
  <2>5. Sooner(x)
    BY <1>7, <1>11 DEF Sooner
  <2>6. QED
    BY <2>4, <2>5
<1>15. ordered => w = Alone
  BY <1>13 DEF Receives, MayStart
<1>16. r.sub # NoSub => r.plan \in Paid
  BY <1>3, <1>7
<1>17. QED
  BY <1>10, <1>11, <1>12, <1>14, <1>15, <1>16, ReadsInOrder

\* The answer to an event, or the loss of it.
LEMMA AnswersOne ==
    ASSUME NEW e, StripeWebhook(e)
    PROVE  (events' = events \/ events' = events \ {e}) /\ events' \subseteq events
  BY DEF StripeWebhook

\* An event no row is about changes no row's agreement.
LEMMA UnknownInOrder ==
    ASSUME SettledInv, NEW w \in Workers, NEW e \in events, UnknownSubscription(w, e)
    PROVE  Booked' /\ InOrder'
<1>1. /\ Receives(w, e) /\ \A o \in Orgs : rows[o].sub # e.sub
      /\ events' = events \/ events' = events \ {e}
      /\ events' \subseteq events /\ UNCHANGED <<rows, stripe, sent, missed, op, ordered>>
  BY AnswersOne DEF UnknownSubscription, GetBySubscriptionID
<1>2. Booked'
  BY <1>1 DEF SettledInv, Booked, RowsBought, CopiesBought, HoldsRow, Numbered, NewFlags
<1>3. ASSUME ordered PROVE InOrder'
  <2>1. OneRequest /\ RowsAgree /\ (\A f \in events : e.n <= f.n) /\ Idle(w) /\ w = Alone
    BY <1>1, <1>3 DEF SettledInv, InOrder, Receives, MayStart
  <2>2. LastWord' /\ LastFlag' /\ FirstFlag' /\ \A r : r.sub # e.sub /\ RowAgrees(r) => RowAgrees(r)'
    <3>1. \A s : Missed(s)' <=> Missed(s)
      BY <1>1 DEF Missed
    <3>2. QED
      BY <1>1, <1>3, <2>1, <3>1, AnswersInOrder
  <2>3. RowsAgree'
    <3>1. SUFFICES ASSUME NEW o \in Orgs PROVE RowAgrees(rows[o])'
      BY DEF RowsAgree, RowAgrees
    <3>2. PICK r : r = rows[o]
      OBVIOUS
    <3>3. RowAgrees(r)'
      BY <1>1, <2>1, <2>2, <3>2 DEF RowsAgree
    <3>4. QED
      BY <1>1, <3>2, <3>3 DEF RowAgrees
  <2>4. OneRequest' /\ \A v \in Workers : op'[v].do = "idle"
    BY <1>1, <2>1 DEF OneRequest, Idle
  <2>5. CopiesFollow'
    BY <2>4 DEF CopiesFollow, HoldsRow
  <2>6. QED
    BY <2>2, <2>3, <2>4, <2>5 DEF InOrder
<1>4. QED
  BY <1>1, <1>2, <1>3 DEF InOrder

\* An event that is missed changes no row, and excuses those it is about.
LEMMA MissInOrder ==
    ASSUME SettledInv, NEW w \in Workers, FailsToWrite(w) \/ \E e \in events : FailsToRead(w, e)
    PROVE  Booked' /\ InOrder'
<1>1. PICK e : /\ Misses(e)
               /\ \/ FailsToWrite(w) /\ e = op[w].event
                  \/ FailsToRead(w, e) /\ e \in events
  BY DEF FailsToWrite, FailsToRead
<1>2. /\ events' = events \ {e} /\ UNCHANGED <<rows, stripe, sent, ordered>>
      /\ ordered => missed' = missed \cup {[sub |-> e.sub, kind |-> e.kind]}
  <2>1. Misses(e)
    BY <1>1
  <2>2. QED
    BY <2>1 DEF Misses
<1>3. /\ \A v \in Workers : op'[v] = op[v] \/ op'[v].do = "idle"
      /\ ordered => w = Alone /\ op'[w].do = "idle"
  <2>1. CASE FailsToWrite(w)
    BY <2>1, Served, Shapes DEF FailsToWrite, Done, Hold, Idle, SettledInv
  <2>2. CASE FailsToRead(w, e)
    BY <2>2 DEF FailsToRead, Receives, MayStart, Idle
  <2>3. QED
    BY <1>1, <2>1, <2>2
<1>4. Booked'
  BY <1>2, <1>3 DEF SettledInv, Booked, RowsBought, CopiesBought, HoldsRow, Numbered, NewFlags
<1>5. ASSUME ordered PROVE InOrder'
  <2>1. OneRequest /\ RowsAgree
    BY <1>5 DEF SettledInv, InOrder
  <2>2. e \in events /\ \A f \in events : e.n <= f.n
    <3>1. CASE FailsToWrite(w) /\ e = op[w].event
      <4>1. PICK x : x = op[w]
        OBVIOUS
      <4>2. Follows(x) /\ x.event = e
        BY <1>5, <3>1, <4>1 DEF SettledInv, InOrder, CopiesFollow, HoldsRow, FailsToWrite
      <4>3. QED
        BY <4>2 DEF Follows
    <3>2. CASE FailsToRead(w, e) /\ e \in events
      BY <1>5, <3>2 DEF FailsToRead, Receives
    <3>3. QED
      BY <1>1, <3>1, <3>2
  <2>3. Missed(e.sub)' /\ \A s : s # e.sub => (Missed(s)' <=> Missed(s))
    <3>1. PICK m : m = [sub |-> e.sub, kind |-> e.kind]
      OBVIOUS
    <3>2. m.sub = e.sub /\ missed' = missed \cup {m}
      BY <1>2, <1>5, <3>1
    <3>3. QED
      BY <3>2 DEF Missed
  <2>4. LastWord' /\ LastFlag' /\ FirstFlag' /\ \A r : r.sub # e.sub /\ RowAgrees(r) => RowAgrees(r)'
    BY <1>2, <1>5, <2>2, <2>3, AnswersInOrder
  <2>5. RowsAgree'
    <3>1. SUFFICES ASSUME NEW o \in Orgs PROVE RowAgrees(rows[o])'
      BY DEF RowsAgree, RowAgrees
    <3>2. PICK r : r = rows[o]
      OBVIOUS
    <3>3. ASSUME r.sub = e.sub PROVE RowAgrees(r)'
      BY <2>3, <3>3 DEF RowAgrees
    <3>4. ASSUME r.sub # e.sub PROVE RowAgrees(r)'
      BY <2>1, <2>4, <3>2, <3>4 DEF RowsAgree
    <3>5. RowAgrees(r)'
      BY <3>3, <3>4
    <3>6. QED
      BY <1>2, <3>2, <3>5 DEF RowAgrees
  <2>6. OneRequest' /\ \A v \in Workers : op'[v].do = "idle"
    BY <1>3, <1>5, <2>1 DEF OneRequest, Idle
  <2>7. CopiesFollow'
    BY <2>6 DEF CopiesFollow, HoldsRow
  <2>8. QED
    BY <2>4, <2>5, <2>6, <2>7 DEF InOrder
<1>6. QED
  BY <1>2, <1>4, <1>5 DEF InOrder

LEMMA DeliverInOrder == ASSUME SettledInv, NEW w \in Workers, Deliver(w) PROVE Booked' /\ InOrder'
<1>1. PICK e \in events :
        \/ OnCheckoutCompleted(w, e) \/ OnInvoicePaid(w, e) \/ OnInvoiceFailed(w, e)
        \/ OnSubscriptionUpdated(w, e) \/ OnSubscriptionDeleted(w, e)
        \/ UnknownSubscription(w, e) \/ FailsToRead(w, e)
  BY DEF Deliver
<1>2. e \in Event /\ e.status \in StripeStatus /\ e.cancel \in BOOLEAN /\ stripe[e.sub] \in StripeSub
  BY DEF SettledInv, BillingInv, TypeOK, Event
<1>3. \A o \in Orgs : rows[o] \in OrgSubscription /\ Dated(rows[o])
  BY DEF SettledInv, BillingInv, TypeOK, RowsSound, Sound
<1>4. CASE OnInvoicePaid(w, e)
  <2>1. PICK o \in GetBySubscriptionID(e.sub), c \in BOOLEAN :
          /\ c \in CancelFlags(e, rows[o].cancel)
          /\ HoldCopy(w, e, o, [rows[o] EXCEPT !.status = "ACTIVE", !.grace = NoGrace, !.cancel = c])
    BY <1>4 DEF OnInvoicePaid
  <2>2. o \in Orgs /\ rows[o].sub = e.sub /\ Receives(w, e) /\ e.kind = "invoicePaid"
    BY <1>4, <2>1 DEF OnInvoicePaid, GetBySubscriptionID
  <2>3. PICK r : r = [rows[o] EXCEPT !.status = "ACTIVE", !.grace = NoGrace, !.cancel = c]
    OBVIOUS
  <2>4. /\ r \in OrgSubscription /\ r.plan = rows[o].plan /\ r.sub = rows[o].sub /\ r.status = "ACTIVE"
        /\ (r.cancel <=> c)
    BY <1>3, <2>2, <2>3 DEF OrgSubscription, SubStatus
  <2>5. (c <=> rows[o].cancel) \/ (c <=> stripe[e.sub].cancel)
    BY <2>1 DEF CancelFlags
  <2>6. r.status \in Writes(e)
    BY <2>2, <2>4 DEF Writes
  <2>7. HoldCopy(w, e, o, r)
    BY <2>1, <2>3
  <2>8. QED
    BY <2>2, <2>4, <2>5, <2>6, <2>7, HeldInOrder
<1>5. CASE OnInvoiceFailed(w, e)
  <2>1. PICK o \in GetBySubscriptionID(e.sub) :
          HoldCopy(w, e, o, [rows[o] EXCEPT !.status = "PAST_DUE", !.grace = FailureGrace(rows[o])])
    BY <1>5 DEF OnInvoiceFailed
  <2>2. o \in Orgs /\ rows[o].sub = e.sub /\ Receives(w, e) /\ e.kind = "invoiceFailed"
    BY <1>5, <2>1 DEF OnInvoiceFailed, GetBySubscriptionID
  <2>3. PICK r : r = [rows[o] EXCEPT !.status = "PAST_DUE", !.grace = FailureGrace(rows[o])]
    OBVIOUS
  <2>4. FailureGrace(rows[o]) \in 0..GraceDays
    BY <1>3, <2>2, FailureDates
  <2>5. /\ r \in OrgSubscription /\ r.plan = rows[o].plan /\ r.sub = rows[o].sub /\ r.status = "PAST_DUE"
        /\ (r.cancel <=> rows[o].cancel) /\ r.grace = FailureGrace(rows[o])
    BY <1>3, <2>2, <2>3, <2>4 DEF OrgSubscription, SubStatus
  <2>6. r.status \in Writes(e)
    BY <2>2, <2>5 DEF Writes
  <2>7. rows[o].status = "PAST_DUE" => r.grace = rows[o].grace
    BY <2>5 DEF FailureGrace
  <2>8. HoldCopy(w, e, o, r)
    BY <2>1, <2>3
  <2>9. QED
    BY <2>2, <2>5, <2>6, <2>7, <2>8, HeldInOrder
<1>6. CASE OnSubscriptionUpdated(w, e)
  <2>1. PICK o \in GetBySubscriptionID(e.sub) :
          HoldCopy(w, e, o, [Synced(rows[o], e.status) EXCEPT !.cancel = e.cancel])
    BY <1>6 DEF OnSubscriptionUpdated
  <2>2. o \in Orgs /\ rows[o].sub = e.sub /\ Receives(w, e) /\ e.kind = "updated"
    BY <1>6, <2>1 DEF OnSubscriptionUpdated, GetBySubscriptionID
  <2>3. PICK q, r : q = Synced(rows[o], e.status) /\ r = [q EXCEPT !.cancel = e.cancel]
    OBVIOUS
  <2>4. r \in OrgSubscription /\ r.plan = rows[o].plan /\ r.sub = rows[o].sub
    BY <1>2, <1>3, <2>2, <2>3, SyncedRow
  <2>5. /\ q.status \in StatusFor(e.status) /\ q \in OrgSubscription
        /\ rows[o].status = "PAST_DUE" /\ q.status = "PAST_DUE" => q.grace = rows[o].grace
    <3>1. rows[o] \in OrgSubscription /\ FailureGrace(rows[o]) \in 0..GraceDays
      BY <1>3, <2>2, FailureDates
    <3>2. PICK z : z = rows[o]
      OBVIOUS
    <3>3. CASE e.status = "active"
      BY <2>3, <3>1, <3>3 DEF Synced, StatusFor, OrgSubscription, SubStatus
    <3>4. CASE e.status = "past_due"
      <4>1. q = [z EXCEPT !.status = "PAST_DUE", !.grace = FailureGrace(z)]
        BY <2>3, <3>2, <3>4 DEF Synced
      <4>2. q.status = "PAST_DUE" /\ q.grace = FailureGrace(z) /\ q \in OrgSubscription
        BY <3>1, <3>2, <4>1 DEF OrgSubscription, SubStatus
      <4>3. QED
        BY <3>2, <3>4, <4>2 DEF StatusFor, FailureGrace
    <3>5. CASE e.status \in {"canceled", "unpaid"}
      BY <2>3, <3>1, <3>5 DEF Synced, StatusFor, OrgSubscription, SubStatus
    <3>6. CASE e.status \notin {"active", "past_due", "canceled", "unpaid"}
      <4>1. q = rows[o]
        BY <2>3, <3>6 DEF Synced
      <4>2. StatusFor(e.status) = SubStatus
        BY <3>6 DEF StatusFor
      <4>3. QED
        BY <3>1, <4>1, <4>2 DEF OrgSubscription
    <3>7. QED
      BY <3>3, <3>4, <3>5, <3>6
  <2>6. r.status = q.status /\ r.grace = q.grace /\ (r.cancel <=> e.cancel)
    BY <2>3, <2>5 DEF OrgSubscription
  <2>7. r.status \in Writes(e)
    BY <2>2, <2>5, <2>6 DEF Writes
  <2>8. HoldCopy(w, e, o, r)
    BY <2>1, <2>3
  <2>9. QED
    BY <2>2, <2>4, <2>5, <2>6, <2>7, <2>8, HeldInOrder
<1>7. CASE OnSubscriptionDeleted(w, e)
  <2>1. PICK o \in GetBySubscriptionID(e.sub) :
          HoldCopy(w, e, o, [rows[o] EXCEPT !.status = "CANCELED", !.grace = NoGrace])
    BY <1>7 DEF OnSubscriptionDeleted
  <2>2. o \in Orgs /\ rows[o].sub = e.sub /\ Receives(w, e) /\ e.kind = "deleted"
    BY <1>7, <2>1 DEF OnSubscriptionDeleted, GetBySubscriptionID
  <2>3. PICK r : r = [rows[o] EXCEPT !.status = "CANCELED", !.grace = NoGrace]
    OBVIOUS
  <2>4. /\ r \in OrgSubscription /\ r.plan = rows[o].plan /\ r.sub = rows[o].sub /\ r.status = "CANCELED"
        /\ (r.cancel <=> rows[o].cancel)
    BY <1>3, <2>2, <2>3 DEF OrgSubscription, SubStatus
  <2>5. r.status \in Writes(e)
    BY <2>2, <2>4 DEF Writes
  <2>6. HoldCopy(w, e, o, r)
    BY <2>1, <2>3
  <2>7. QED
    BY <2>2, <2>4, <2>5, <2>6, HeldInOrder
<1>8. CASE FailsToRead(w, e)
  BY <1>8, MissInOrder
<1>9. QED
  BY <1>1, <1>4, <1>5, <1>6, <1>7, <1>8, CompletedInOrder, UnknownInOrder

\* Upsert and Save write what the oldest event says.
LEMMA WriteInOrder == ASSUME SettledInv, NEW w \in Workers, Upsert(w) \/ Save(w) PROVE Booked' /\ InOrder'
<1>1. /\ rows \in [Orgs -> OrgSubscription] /\ op[w] \in Op /\ op[w].do \in {"upsert", "save"}
      /\ ordered => w = Alone
  BY Shapes, Served DEF SettledInv, Upsert, Save, Doing, Idle
<1>2. PICK y : y = op[w]
  OBVIOUS
<1>3. y.org \in Orgs /\ y.row \in OrgSubscription /\ (y.row.sub # NoSub => y.row.plan \in Paid)
      /\ Sound(stripe, y.org, y.row)
  BY <1>1, <1>2, OpFields DEF SettledInv, Booked, CopiesBought, HoldsRow, BillingInv, CopiesSound
<1>4. PICK x : x = [do |-> "idle"]
  OBVIOUS
<1>5. x \in Op /\ x.do \notin {"upsert", "save"}
  BY <1>4 DEF Op
<1>6. /\ Hold(w, x) /\ UNCHANGED <<stripe, sent, ordered>> /\ events' \subseteq events
      /\ events' = events \/ events' = events \ {y.event}
  BY <1>2, <1>4, AnswersOne DEF Upsert, Save, Done
<1>7. rows' = [rows EXCEPT ![y.org] = y.row] \/ (~ordered /\ rows' = rows)
  <2>1. ordered /\ y.do = "upsert" => y.found \/ ~HasRow(y.org)
    BY <1>1, <1>2 DEF SettledInv, InOrder, CopiesFollow, HoldsRow, Sooner
  <2>2. QED
    BY <1>2, <2>1 DEF Upsert, Save, Doing
<1>8. ASSUME ordered
      PROVE  /\ LastWord' /\ LastFlag' /\ FirstFlag' /\ RowAgrees(y.row)'
             /\ \A p \in Orgs \ {y.org} : RowAgrees(rows[p]) => RowAgrees(rows[p])'
  <2>1. Follows(y)
    BY <1>1, <1>2, <1>8 DEF SettledInv, InOrder, CopiesFollow, HoldsRow
  <2>2. PICK e \in events : e = y.event /\ y.row.sub = e.sub /\ \A f \in events : e.n <= f.n
    BY <2>1 DEF Follows
  <2>3. /\ LastWord' /\ LastFlag' /\ FirstFlag' /\ RowAgrees(y.row)'
        /\ \A r : r.sub # e.sub /\ RowAgrees(r) => RowAgrees(r)'
    <3>1. missed' = Mended(e) \/ missed' = missed
      BY <1>2, <2>2 DEF Upsert, Save
    <3>2. /\ \A s : s # e.sub => (Missed(s)' <=> Missed(s))
          /\ e.kind # "updated" => (Missed(e.sub) => Missed(e.sub)')
      BY <3>1 DEF Mended, Missed
    <3>3. QED
      BY <1>6, <1>8, <2>1, <2>2, <3>2, AnswersInOrder
  <2>4. e.sub \in Subs /\ e.sub # NoSub
    BY <2>2, Shapes DEF SettledInv
  <2>5. stripe[e.sub].org = y.org
    BY <1>3, <2>2, <2>4 DEF Sound, Bought
  <2>6. ASSUME NEW p \in Orgs \ {y.org}, RowAgrees(rows[p]) PROVE RowAgrees(rows[p])'
    <3>1. rows[p].sub # e.sub
      BY <2>4, <2>5 DEF SettledInv, Booked, RowsBought, BillingInv, RowsSound, Sound, Bought
    <3>2. rows'[p] = rows[p]
      BY <1>1, <1>7
    <3>3. PICK r : r = rows[p]
      OBVIOUS
    <3>4. RowAgrees(r)'
      BY <2>3, <2>6, <3>1, <3>3
    <3>5. QED
      BY <3>2, <3>3, <3>4 DEF RowAgrees
  <2>7. QED
    BY <2>3, <2>6
<1>9. QED
  BY <1>1, <1>3, <1>5, <1>6, <1>7, <1>8, WritesInOrder

LEMMA CrashInOrder == ASSUME SettledInv, NEW w \in Workers, Crash(w) PROVE Booked' /\ InOrder'
<1>1. PICK x : x = [do |-> "idle"]
  OBVIOUS
<1>2. x \in Op /\ x.do \notin {"upsert", "save"} /\ Hold(w, x)
  BY <1>1 DEF Op, Crash, Done
<1>3. ordered => w = Alone
  BY Served DEF Crash, Idle
<1>4. QED
  BY <1>2, <1>3, ReadsInOrder DEF Crash

\* A day counts a window and its copy down alike.
LEMMA DayMonotone ==
    ASSUME NEW r \in OrgSubscription
    PROVE  /\ DayLess(r).sub = r.sub /\ DayLess(r).status = r.status /\ DayLess(r).plan = r.plan
           /\ DayLess(r).cancel <=> r.cancel
           /\ DayLess(r).grace <= r.grace
           /\ \A q \in OrgSubscription : q.grace <= r.grace => DayLess(q).grace <= DayLess(r).grace
<1>1. \A q \in OrgSubscription : q.grace \in Int /\ q.grace >= -1
  BY BillingAssumption DEF OrgSubscription, NoGrace
<1>2. ASSUME NEW q \in OrgSubscription
      PROVE  /\ DayLess(q).sub = q.sub /\ DayLess(q).status = q.status /\ DayLess(q).plan = q.plan
             /\ DayLess(q).cancel <=> q.cancel
             /\ DayLess(q).grace = IF q.grace > 0 THEN q.grace - 1 ELSE q.grace
  BY DEF DayLess, OrgSubscription
<1>3. ASSUME NEW q \in OrgSubscription, q.grace <= r.grace PROVE DayLess(q).grace <= DayLess(r).grace
  BY <1>1, <1>2, <1>3
<1>4. DayLess(r).grace <= r.grace
  BY <1>1, <1>2
<1>5. QED
  BY <1>2, <1>3, <1>4

LEMMA DayInOrder == ASSUME SettledInv, Day PROVE Booked' /\ InOrder'
<1>1. /\ rows \in [Orgs -> OrgSubscription] /\ op \in [Workers -> Op]
      /\ UNCHANGED <<stripe, events, sent, missed, ordered>>
  BY Shapes DEF SettledInv, Day
<1>2. ASSUME NEW o \in Orgs
      PROVE  /\ rows'[o].sub = rows[o].sub /\ rows'[o].status = rows[o].status /\ rows'[o].plan = rows[o].plan
             /\ rows'[o].cancel <=> rows[o].cancel
  BY <1>1, DayMonotone DEF Day
<1>3. ASSUME NEW w \in Workers
      PROVE  /\ op'[w].do = op[w].do
             /\ op[w].do # "save" => op'[w] = op[w]
             /\ op[w].do = "save" =>
                   /\ op[w].row \in OrgSubscription /\ op[w].org \in Orgs
                   /\ op'[w].org = op[w].org /\ op'[w].event = op[w].event
                   /\ op'[w].row = DayLess(op[w].row)
  <2>1. CASE op[w].do = "save"
    <3>1. op[w] \in [do: {"save"}, org: Orgs, row: OrgSubscription, event: Event]
      BY <1>1, <2>1 DEF Op
    <3>2. op'[w] = [op[w] EXCEPT !.row = DayLess(op[w].row)]
      BY <2>1 DEF Day
    <3>3. QED
      BY <2>1, <3>1, <3>2
  <2>2. CASE op[w].do # "save"
    BY <2>2 DEF Day
  <2>3. QED
    BY <2>1, <2>2
<1>4. Booked'
  <2>1. RowsBought'
    BY <1>2 DEF SettledInv, Booked, RowsBought
  <2>2. CopiesBought'
    <3>1. SUFFICES ASSUME NEW w \in Workers, HoldsRow(w)', op'[w].row.sub # NoSub PROVE op'[w].row.plan \in Paid
      BY DEF CopiesBought, HoldsRow
    <3>2. HoldsRow(w)
      BY <1>3, <3>1 DEF HoldsRow
    <3>3. op'[w].row.sub = op[w].row.sub /\ op'[w].row.plan = op[w].row.plan
      BY <1>3, DayMonotone
    <3>4. QED
      BY <3>1, <3>2, <3>3 DEF SettledInv, Booked, CopiesBought
  <2>3. QED
    BY <1>1, <2>1, <2>2 DEF SettledInv, Booked, Numbered, NewFlags
<1>5. ASSUME ordered PROVE InOrder'
  <2>1. OneRequest /\ RowsAgree /\ CopiesFollow
    BY <1>5 DEF SettledInv, InOrder
  <2>2. LastWord' /\ LastFlag' /\ FirstFlag'
    BY <1>1, <1>5, NothingSaid
  <2>3. OneRequest'
    BY <1>3, <2>1 DEF OneRequest, Idle
  <2>4. RowsAgree'
    <3>1. \A o \in Orgs : RowAgrees(rows[o])
      BY <2>1 DEF RowsAgree
    <3>2. QED
      BY <1>1, <1>2, <3>1 DEF RowsAgree, RowAgrees, Waits, Missed, FlagWaits, StatusFor
  <2>5. CopiesFollow'
    <3>1. SUFFICES ASSUME NEW w \in Workers, HoldsRow(w)' PROVE Follows(op[w])' /\ Sooner(op[w])'
      BY DEF CopiesFollow
    <3>2. PICK x, y : x = op[w] /\ y = op'[w]
      OBVIOUS
    <3>3. /\ x.do \in {"upsert", "save"} /\ Follows(x) /\ Sooner(x) /\ y.do = x.do
      BY <1>3, <2>1, <3>1, <3>2 DEF CopiesFollow, HoldsRow
    <3>4. CASE x.do = "upsert"
      <4>1. y = x /\ x.org \in Orgs
        BY <1>1, <1>3, <3>2, <3>4, OpFields
      <4>2. Follows(y)'
        BY <1>1, <3>3, <4>1 DEF Follows, Missed, Writes, StatusFor, FlagWaits
      <4>3. Sooner(y)'
        BY <1>2, <3>3, <3>4, <4>1 DEF Sooner, HasRow
      <4>4. QED
        BY <3>2, <4>2, <4>3 DEF Follows, Sooner
    <3>5. CASE x.do = "save"
      <4>1. /\ x.row \in OrgSubscription /\ x.org \in Orgs /\ y.org = x.org /\ y.event = x.event
            /\ y.row = DayLess(x.row)
        BY <1>3, <3>2, <3>5
      <4>2. /\ y.row.sub = x.row.sub /\ y.row.status = x.row.status /\ (y.row.cancel <=> x.row.cancel)
        BY <4>1, DayMonotone
      <4>3. Follows(y)'
        BY <1>1, <3>3, <4>1, <4>2 DEF Follows, Missed, Writes, StatusFor, FlagWaits
      <4>4. rows'[x.org] = DayLess(rows[x.org]) /\ rows[x.org] \in OrgSubscription
        BY <1>1, <4>1 DEF Day
      <4>5. Sooner(y)'
        BY <1>2, <3>3, <3>5, <4>1, <4>2, <4>4, DayMonotone DEF Sooner
      <4>6. QED
        BY <3>2, <4>3, <4>5 DEF Follows, Sooner
    <3>6. QED
      BY <3>3, <3>4, <3>5
  <2>6. QED
    BY <2>2, <2>3, <2>4, <2>5 DEF InOrder
<1>6. QED
  BY <1>1, <1>4, <1>5 DEF InOrder

\* Initially nothing waits and no row names a subscription.
LEMMA SettledStart == Init => SettledInv
<1> SUFFICES ASSUME Init PROVE SettledInv
  OBVIOUS
<1>1. BillingInv /\ events = {} /\ \A w \in Workers : op[w].do = "idle"
  BY InitBilling DEF Init
<1>2. \A o \in Orgs : rows[o].sub = NoSub
  BY DEF Init, NoRow
<1>3. \A s \in Subs : ~stripe[s].cancel
  BY DEF Init
<1>4. Booked
  BY <1>1, <1>2, <1>3 DEF Booked, RowsBought, CopiesBought, HoldsRow, Numbered, NewFlags
<1>5. InOrder
  BY <1>1, <1>2 DEF InOrder, OneRequest, Idle, LastWord, LastFlag, FirstFlag, RowsAgree, RowAgrees,
                    CopiesFollow, HoldsRow
<1>6. QED
  BY <1>1, <1>4, <1>5 DEF SettledInv

LEMMA SettledStep == SettledInv /\ [Next]_vars => SettledInv'
<1> SUFFICES ASSUME SettledInv, [Next]_vars PROVE SettledInv'
  OBVIOUS
<1>1. BillingInv'
  BY NextBilling DEF SettledInv
<1>2. ASSUME NEW w \in Workers,
             \/ \E o \in Orgs, p \in Paid : StartCheckout(w, o, p)
             \/ Proceed(w) \/ Deliver(w) \/ Crash(w)
      PROVE  Booked' /\ InOrder'
  <2>1. CASE \E s \in Subs : CreateSubscriptionCheckout(w, s)
    BY <2>1, SessionInOrder
  <2>2. CASE Upsert(w) \/ Save(w)
    BY <2>2, WriteInOrder
  <2>3. CASE Deliver(w)
    BY <2>3, DeliverInOrder
  <2>4. CASE Crash(w)
    BY <2>4, CrashInOrder
  <2>5. CASE FailsToWrite(w)
    BY <2>5, MissInOrder
  <2>6. QED
    BY <1>2, <2>1, <2>2, <2>3, <2>4, <2>5, CheckoutInOrder DEF Proceed
<1>3. CASE UNCHANGED vars
  <2>1. UNCHANGED <<rows, stripe, events, sent, missed, op, ordered>>
    BY <1>3 DEF vars
  <2>2. Booked'
    BY <2>1 DEF SettledInv, Booked, RowsBought, CopiesBought, HoldsRow, Numbered, NewFlags
  <2>3. InOrder'
    BY <2>1 DEF SettledInv, InOrder, OneRequest, Idle, LastWord, LastFlag, FirstFlag, RowsAgree, RowAgrees,
                CopiesFollow, HoldsRow, Follows, Sooner, Waits, Missed, FlagWaits, Writes, StatusFor, HasRow
  <2>4. QED
    BY <1>1, <2>2, <2>3 DEF SettledInv
<1>4. CASE StripeNext
  BY <1>1, <1>4, StripeInOrder DEF SettledInv
<1>5. CASE Day
  BY <1>1, <1>5, DayInOrder DEF SettledInv
<1>6. QED
  BY <1>1, <1>2, <1>3, <1>4, <1>5 DEF Next, SettledInv

(***************************************************************************)
(* Theorems                                                                *)
(***************************************************************************)
\* The invariant holds throughout, in whatever order events are applied.
LEMMA BillingHolds == Spec => []BillingInv
  BY InitBilling, NextBilling, PTL DEF Spec

\* Rows, copies and events keep their shape; a grace window in particular
\* never leaves 0..GraceDays, however often Stripe repeats a failure.
THEOREM BillingTyped == Spec => []TypeOK
<1>1. BillingInv => TypeOK
  BY DEF BillingInv
<1>2. QED
  BY <1>1, BillingHolds, PTL

\* No row is PAST_DUE without a deadline, so EntitlementFor never grants a
\* paid plan without end: two kinds of event stamp the window, four write
\* the status, and each saves a copy read before the others.
THEOREM PastDueIsDated == Spec => []PastDueHasDeadline
<1>1. BillingInv => PastDueHasDeadline
  BY DEF BillingInv, RowsSound, Sound, Dated, PastDueHasDeadline
<1>2. QED
  BY <1>1, BillingHolds, PTL

\* A paid plan in a row was bought by that organization, at that plan: no
\* interleaving of checkouts and events gives it to another.
THEOREM PaidTiersAreBought == Spec => []PaidTierWasBought
<1>1. BillingInv => PaidTierWasBought
  BY BillingAssumption
  DEF BillingInv, RowsSound, Sound, Bought, Charged, PaidTierWasBought
<1>2. QED
  BY <1>1, BillingHolds, PTL

\* The invariant of ordered deliveries.
LEMMA SettledHolds == Spec => []SettledInv
  BY SettledStart, SettledStep, PTL DEF Spec

\* Delivered in order and one at a time, repeated or not, the events leave
\* the row of every organization with Stripe's status and cancel flag, for
\* any number of subscriptions and events, unless one about its subscription
\* was lost to a database error after the last update.
THEOREM EventsSettle == Spec => []SettledAgrees
<1>1. ASSUME SettledInv, ordered, events = {}, NEW o \in Orgs, rows[o].sub # NoSub, ~Missed(rows[o].sub)
      PROVE  /\ rows[o].status \in StatusFor(stripe[rows[o].sub].status)
             /\ rows[o].cancel = stripe[rows[o].sub].cancel
  <2>1. RowAgrees(rows[o])
    BY <1>1 DEF SettledInv, InOrder, RowsAgree
  <2>2. /\ rows[o].status \in StatusFor(stripe[rows[o].sub].status)
        /\ rows[o].cancel <=> stripe[rows[o].sub].cancel
    BY <1>1, <2>1 DEF RowAgrees, Waits, Missed, FlagWaits
  <2>3. rows[o].sub \in Subs /\ rows[o].cancel \in BOOLEAN /\ stripe[rows[o].sub].cancel \in BOOLEAN
    <3>1. rows[o] \in OrgSubscription /\ \A s \in Subs : stripe[s] \in StripeSub
      BY <1>1, Shapes DEF SettledInv
    <3>2. rows[o].sub \in Subs /\ rows[o].cancel \in BOOLEAN
      BY <1>1, <3>1 DEF OrgSubscription
    <3>3. QED
      BY <3>1, <3>2 DEF StripeSub
  <2>4. QED
    BY <2>2, <2>3
<1>2. SettledInv => SettledAgrees
  BY <1>1 DEF SettledAgrees
<1>3. QED
  BY <1>2, SettledHolds, PTL

\* Delivered in order, no step moves the deadline of a row that stays
\* PAST_DUE away: a save writes a copy whose window was counted down with the
\* row's, and only the first failure stamps one.
THEOREM DeadlinesStand == Spec => GraceNeverExtended
<1>1. ASSUME SettledInv, [Next]_vars, ordered, NEW o \in Orgs,
             rows[o].status = "PAST_DUE", rows'[o].status = "PAST_DUE"
      PROVE  rows'[o].grace <= rows[o].grace
  <2>1. rows \in [Orgs -> OrgSubscription] /\ op \in [Workers -> Op]
    BY <1>1, Shapes DEF SettledInv
  <2>2. rows[o].grace \in Int
    BY <2>1, BillingAssumption DEF OrgSubscription, NoGrace
  <2>3. CASE UNCHANGED rows
    BY <2>2, <2>3
  <2>4. ASSUME NEW w \in Workers, UpsertCustomer(w) PROVE rows'[o].grace <= rows[o].grace
    <3>1. op[w].org \in Orgs
      BY <2>1, <2>4, OpFields DEF UpsertCustomer, Doing
    <3>2. rows' = [rows EXCEPT ![op[w].org] = NewCustomerRow] /\ NewCustomerRow.status = "ACTIVE"
      BY <2>4 DEF UpsertCustomer, NewCustomerRow, NoRow
    <3>3. rows'[o] = rows[o] \/ rows'[o] = NewCustomerRow
      BY <2>1, <3>1, <3>2
    <3>4. QED
      BY <1>1, <2>2, <3>2, <3>3
  <2>5. ASSUME NEW w \in Workers, Upsert(w) \/ Save(w) PROVE rows'[o].grace <= rows[o].grace
    <3>1. PICK y : y = op[w]
      OBVIOUS
    <3>2. y.do \in {"upsert", "save"} /\ y.org \in Orgs
      BY <2>1, <2>5, <3>1, OpFields DEF Upsert, Save, Doing
    <3>3. Sooner(y)
      BY <1>1, <3>1, <3>2 DEF SettledInv, InOrder, CopiesFollow, HoldsRow
    <3>4. rows' = [rows EXCEPT ![y.org] = y.row] \/ rows' = rows
      BY <2>5, <3>1 DEF Upsert, Save
    <3>5. CASE rows'[o] = rows[o]
      BY <2>2, <3>5
    <3>6. CASE o = y.org /\ rows'[o] = y.row
      BY <1>1, <3>2, <3>3, <3>6 DEF Sooner
    <3>7. QED
      BY <2>1, <3>2, <3>4, <3>5, <3>6
  <2>6. CASE Day
    BY <2>1, <2>6, DayMonotone DEF Day
  <2>7. CASE StripeNext
    BY <2>3, <2>7
    DEF StripeNext, BuyerSubscribes, InvoiceIsPaid, InvoiceFails, StripeGivesUp, PausesOrResumes, PortalCancels,
        PeriodEnds, Send, Send2
  <2>8. ASSUME NEW w \in Workers, Deliver(w) \/ Crash(w) PROVE UNCHANGED rows
    BY <2>8 DEF Deliver, Crash, OnCheckoutCompleted, OnInvoicePaid, OnInvoiceFailed, OnSubscriptionUpdated,
                OnSubscriptionDeleted, UnknownSubscription, FailsToRead, Misses, HoldCopy
  <2>9. ASSUME NEW w \in Workers,
               \/ \E c \in Orgs, p \in Paid : StartCheckout(w, c, p)
               \/ GetOrCreateCustomer(w) \/ FindCustomerRow(w) \/ CustomerConflict(w) \/ CheckoutFails(w)
               \/ FailsToWrite(w) \/ \E s \in Subs : CreateSubscriptionCheckout(w, s)
        PROVE  UNCHANGED rows
    BY <2>9 DEF FailsToWrite, Misses, StartCheckout, GetOrCreateCustomer, FindCustomerRow, CustomerConflict, CheckoutFails,
                CreateSubscriptionCheckout
  <2>10. CASE UNCHANGED vars
    BY <2>3, <2>10 DEF vars
  <2>11. QED
    BY <1>1, <2>3, <2>4, <2>5, <2>6, <2>7, <2>8, <2>9, <2>10 DEF Next, Proceed
<1>2. SettledInv /\ [Next]_vars =>
          (ordered => \A o \in Orgs :
             (rows[o].status = "PAST_DUE" /\ rows'[o].status = "PAST_DUE")
                => rows'[o].grace <= rows[o].grace)
  BY <1>1
<1>3. QED
  BY <1>2, SettledHolds, PTL DEF Spec, GraceNeverExtended
=============================================================================
