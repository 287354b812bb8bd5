# Rallya: specifications, checks and proofs

Rallya (`src/`) is a multi-tenant event platform: a modular monolith in Go over Postgres, with River for
background jobs, Casbin for permissions and Stripe for payments. This directory models how it sells
tickets and lets people in, how accounts, organizations, events and subscriptions live, and how a
request gets through the API to any of them. TLC checks the models on small instances; TLAPS proves
every safety property that a passing run checks for every instance, and the refinement of the ticket
ledger.

## Inventory

| Component (`src/internal/`) | State | Operations that change it | Hard behaviours |
|---|---|---|---|
| `ticketing` | `ticket_types` | CreateType, UpdateType, Activate, Pause, DeleteType, Reserve/Release | unlocked read then whole-row Save against row-locked reservations; headroom checked outside the transaction |
| `order` | `orders` | CreateOrder, CancelOrder, MarkPaid, SetStripeSession, SweepExpired | unlocked read then Save; hold deadline; sweeper in batches; idempotency keys |
| `payment` | none (Stripe holds it) | CreateCheckout, HandleWebhook | webhooks late, repeated, after death of the order; errors acknowledged |
| `attendee` | `attendees` | MintForOrder, AddManual, CorrectName, CancelMine, ApplyCheckin, RevertCheckin | locked flips against unlocked edits |
| `checkin` | `checkin_logs` | Scan, ScanBatch, Revert | two devices, one code; revert against handouts |
| `kit` | `kits`, `kit_collections` | CreateKit, UpdateKit, DeleteKit, Collect, MarkCollected, Void | eligibility read before the transaction; last unit; retries |
| `subscription` | `org_subscriptions` | StartCheckout, customer creation, five Stripe billing events | events out of order, repeated, side by side; every handler reads, then saves all columns; database errors acknowledged; grace window |
| `auth` | users, sessions, tokens, login attempts | Register, VerifyEmail, VerifyByCode, Login, Refresh, Logout, ForgotPassword, ResetPassword | refresh rotation and OTP attempts under concurrency; reset against a login in flight |
| `organization` | orgs, members, invites, role definitions and assignments, API keys | membership, invite and role handlers, deletion | last-owner guard and quotas outside the transaction |
| `iam` | Casbin's grouping and policy rows | EnsureOrg, SyncMembership, SyncCustomGrouping, EnsureCustomRole, Drop; RequirePermission reads | written after the commit, best effort, and read without the writers' lock |
| `admin` | none of its own; rewrites Casbin's rows | ReseedOrgPolicies, SyncUserPolicies | a repair that fails half way or races a membership change |
| `event`, `cache` | `events`, `event_images`, files; cached public payloads | Create, Update, Publish, Unpublish, Cancel, Delete, covers, gallery, GetPublicEvent | stale Save; cache filled after the purge; files deleted after a commit, an organization's before it |
| `ratelimit` | counters | Allow | window boundary, fail-open |
| handlers, middleware, routers | none | one route per operation | rights are read in three places at three moments |
| `audit`, `notification`, `media`, `cmd` | append-only rows, jobs, files | | I/O, start-up |

How they interact: `order` joins ticketing's `ReserveTx`/`ReleaseTx` and attendee's `MintForOrder` to
its own transactions; `payment` calls `order` (CheckoutDetail, SetStripeSession, MarkPaid) and forwards
billing events to `subscription`; `organization` writes Casbin's rows through `iam` after its commits
and `admin` repairs them; the middleware of `auth`, `organization` and `iam` guards every route;
deleting an organization deletes its `event` files; `checkin` flips rows through `attendee` and asks
`kit` before an undo; `kit` asks `attendee` before a handout; `subscription`'s limits are read by
`order`, `kit`, `event` and `organization`; every domain writes audit rows in its own transaction.

What makes them correct: stock is never oversold and always accounted for; nobody is confirmed
without paying; a claim is all or nothing and happens once per key; an unpaid hold ends; a code lets
one person in once; a kit is handed out once, to someone inside, within stock; a revoked session stays
revoked and a password change ends the sessions before it; a paid tier was bought and ends when it is
not paid for; an organization keeps an owner and Casbin allows what the tables say; a cancelled event
stays cancelled, its payload does not outlive its changes and its files are there; nobody is served
without the membership, the credential and the role that the route is documented to need.

## Modules

| Module | Models | Extends |
|---|---|---|
| `Ticketing` | ticket types and their handlers | |
| `Orders` | claims, cancellation, deadline, sweeper; the attendee rows of an order | `Ticketing` |
| `Payments` | checkout sessions, Stripe, webhooks, faults; **the composed specification of the checkout** | `Orders` |
| `CheckoutInvariants` | the inductive invariants of `Payments` | `Payments` |
| `TicketLedger` | abstract specification: units taken once, given back at most once | |
| `SerialCheckout` | refinement of `TicketLedger`, and what holds without overlap | `Payments` |
| `CheckoutClaims` | statements of the repository's documents the code does not keep | `SerialCheckout` |
| `CheckoutProofs` | theorems about `Payments`, however requests overlap | `CheckoutInvariants` |
| `LedgerProofs` | theorems about `SerialCheckout`: the accounts and the refinement of `TicketLedger` | `SerialCheckout`, `CheckoutProofs` |
| `Checkin` | attendee rows, door scans, undo, edits | |
| `Kits` | kits and handouts; **the composed specification of the door** | `Checkin` |
| `DoorProofs` | theorems about `Kits` | `Kits` |
| `Sessions` | accounts: verification, sessions, refresh rotation, password reset | |
| `SessionsProofs` | theorems about `Sessions` | `Sessions` |
| `Billing` | subscriptions: checkout, portal, Stripe's side, the billing webhook, the passing of days | |
| `BillingProofs` | theorems about `Billing` | `Billing` |
| `Iam` | Casbin's rows of one organization, the seeded matrices, the matcher | |
| `Membership` | the organization, its members and invites | `Iam` |
| `Organization` | custom roles, the Casbin writes after a commit, the admin's repairs; **the composed specification of an organization** | `Membership` |
| `OrganizationProofs` | theorems about `Organization` | `Organization` |
| `Events` | event rows, covers, gallery, files and the public cache | |
| `EventsProofs` | theorems about `Events` | `Events` |
| `Routes` | the table of HTTP routes: what each asks, answers and documents | |
| `Api` | one request through its middleware chain while rights change | `Iam`, `Routes` |
| `ApiProofs` | theorems about `Api`, and the table of routes row by row | `Api` |
| `MCPayments`, `MCSerial`, `MCClaims`, `MCKits`, `MCSessions`, `MCBilling`, `MCOrganization`, `MCEvents`, `MCApi` | instances for TLC | |

### From code to state and actions

A handler of this code usually reads rows without a lock, checks them, changes a copy in memory and
writes the copy later. It is modelled as two actions: one named after the handler, which reads, checks
and keeps the copy (`typeCopy`, `orderCopy`, `attendeeCopy`, `request`, with `op` naming the handler),
and one for the write (`SaveType`, `CommitCancel`, ...). Anything may happen in between. The reads of
one handler are one step: the later transaction reads again what it relies on, except where the code
does not, and then the copy is what the model uses.

A database transaction is one step. Under read committed this is justified by the row locks the code
takes: `Reserve`/`Release` lock the ticket type, scans and undos the attendee, `Collect`, `UpdateKit`
and `DeleteKit` the kit, `MarkCollected` and `Void` the handout; every unlocked write is a single
statement. GORM's `Save` writes every column of the copy, quantity_sold and status included, and on a
soft-deleted row falls back to an upsert that revives it.

A refusal that changes nothing is no step. A refusal that ends a request in flight is one
(`RollbackOrder`, `RejectSession`, `RefuseCollect`, ...).

Checkout details:

* A session at Stripe is named by its order: the provider sends `order-<id>` as idempotency key, so a
  second CreateCheckout gets the same session. The buyer gets the payment page when
  SetStripeSession has saved the session; he may pay at any time afterwards.
* A webhook may be delivered to any idle worker as long as the session is paid (repeats included), and
  must be delivered while it is not answered (`unacked`). MarkPaid covers signature and status checks
  of HandleWebhook; `FailPaid` is a database error in its transaction, which the handler answers 200.
* `Crash` ends a request between its two steps, which is also what a lost connection does.
* An order's `free`, `ty`, `qty`, `key` are the columns a buyer cares about; `paid` is `paid_at`.
* `PENDING` is never written by the code and is left out. `max_per_order` is a constant for all types
  (in the code it may be absent, meaning no limit).
* Capacities and plan limits move in the code without regard to what is there: UpdateEvent lowers an
  event's capacity below what is allocated, a lapse or a downgrade lowers a plan's limits ("Existing usage
  is grandfathered"). So every check chooses the limit it meets: `Capacities`, `RosterRooms`,
  `MemberLimits`, `EventLimits`, `KitLimits` are sets, and no property bounds a count by a limit.
* The roster in `Orders` is the rows that orders mint. AddManual registers walk-ins without asking the
  plan; its rows are part of the room that CheckAttendeeCapacity finds, and are rows of their own in
  `Checkin`. CancelMine is one step in `Orders`; its race with the door is in `Checkin`, where it is two.
* Whether the event is published and the sale window open is a free choice at every CreateOrder.
* Audit rows and e-mails commit with their transaction; of these only the confirmation e-mail of an
  order is kept (`mailed`).

Door details: checked_in_at moves with the status and is left out; names and e-mails are left out, so
CorrectName is just a read and a later Save; a payload whose HMAC fails logs a row without attendee
that nothing reads, and is left out; a batch scan is a sequence of scans. Deleting a kit cascades to
its handouts.

Account details: `op[r]` is a record with what the handler remembers between its unlocked reads and its
transaction. Writes are column updates with a `revoked_at IS NULL` condition, so a copy is never saved.
A link and a code are always issued together and share an id in `mails`, in order of creation. An
UPDATE does not see rows that an overlapping transaction inserts: `CommitResend` and `CommitForgot`
invalidate all the rows their request could know (`known`) and any subset of the later ones. Time is a
set of flags: `recent` for the resend throttle, `...Lapsed` for lifetimes. A refresh token has the
lifetime of its session and starts later, so the session's expiry decides. `Logout` runs behind
RequireAuth. `sessions[s].pwd` and `stale` are history: the password that opened the session, and
whether it had changed when the row was inserted. Welcome mail, profiles and login_attempts are
written and never read; `users.status` is never changed by the code of `auth` and stays ACTIVE there
(`Api` has the suspension).

Billing, organization and event modules have a Boolean chosen in Init, `ordered` or `serial`, that
says which deployment the behaviour is about: TRUE serves one request at a time (and, for billing,
delivers events in the order they were sent), FALSE lets requests overlap and events arrive in any
order. A property with the flag as its hypothesis is one that overlap breaks (see below); one without
it holds in both. In this way one run covers both and says which is which.

Billing details: no handler takes a lock or opens a transaction. A handler reads the row, changes its
copy and saves all columns: two steps, with the copy in `op[w]`. Upsert looks for the row, then creates
it or saves over it; the unique `org_id` refuses a second create. Stripe's side is external and written
from the events the code subscribes to: a subscription opens as a checkout session, becomes active,
past_due, unpaid, paused or canceled, and each move sends the events Stripe documents. An event stays in
`events` until it is answered; a lost answer or a `Crash` leaves it there. The webhook answers 200 to
every outcome after the signature check, so a database error in the handler ends the event too, with
nothing written: `FailsToRead` (GetBySubscriptionID) and `FailsToWrite` (Upsert, Save). The history
variable `missed` keeps which kind of event of which subscription was lost that way until an update of
the subscription, which carries status and flag, is saved. A delivery that goes wrong, by a lost answer,
a crash or an error, counts against `MaxLost` when events come in order. Time is the days left of a
grace window; `Day` counts all of them down, in the table and in the copies, so a stamp is the moment it
names. Price ids, periods and amounts are left out.

Organization details: a request passes RequireOrgContext and RequirePermission and the checks of its
service (one step, no lock), commits its transaction (second step), and then writes Casbin's rows, one
step for each write, in `op[w].todo`. A failed Casbin write is logged and dropped (`SyncFails`).
SyncMembership is two writes under LockWrite, a sweep and an add; RequirePermission reads the enforcer
without that lock, so the state in between is visible. `admin`'s repairs are requests of the same shape.
Deleting an organization is a soft delete of its row: memberships stay. Users, invites and roles are
ids; tokens and e-mail addresses are the user they are sent to. The quota is read before the transaction
(`RoomForMember`). InviteLapses is the clock.

Event details: a writer reads the row, checks it, and where there is one uploads the file (one step),
saves the whole copy (second step), and then deletes files and purges the cache (`op[w].todo`). Save on
a row deleted since revives it. Deleting the organization is the other way round, "Assets first":
DeleteOrg lists the files, `CleanAssets` deletes them, and only then comes the transaction, which may
fail (`DeleteOrgFails`) after files are gone; `RemovalFails` is a listing or a removal that fails, or
the end of the process between. `cleaned` is history: the files such a deletion took. Files are numbered
as they are stored, so a file is never stored twice under one name. A cache entry has its TTL, one
minute, or none when it is stored with TTL 0. The cached payload is the title and the cover, which stand
for all public columns.

API details: `Routes` has one record for each route the routers register: its scope, its
RequirePermission gate, the role its service asks the membership row for, the statuses its handler
answers and the role and failures its comment and annotations promise. `Api` sends one request through
the chain Limit, RequireAuth, RequireOrgContext, RequirePermission or RequireSuperAdmin, handler,
service, each a step that reads its own state; between steps the caller's role, custom roles, account,
session and key change, and Casbin follows later or never. `req.seen` collects the roles the caller had
during the request, `req.rows` those Casbin had: history, read by the properties only. What a handler
does with the tables is in the other modules.

## Runs

| Run | Bounds | Shows |
|---|---|---|
| `FreeClaims` | 2 requests, 1 type, 2 free orders of 1-2 units, 1 key | `ClaimNeverRewritten`, and `CheckoutInv`, the invariant of the proofs, with `FreeOrderComplete` and `OneOrderPerKey` in it |
| `PaidClaims` | 2 requests, 1 type, 2 priced orders | `TypeOK`, `SoldWithinTotal`, `ConfirmedIsPaid` |
| `Serial` | 1 request, 2 types, 2 orders of 1-2 units, both prices, limits of 1 or 2 | the ledger is implemented (`ImplementsLedger`); `StockAccounted`, which is `ExactStock` and `LiveOrderHasType`; `DeadStaysDead` |
| `SerialHoldsEnd` | 1 request, 2 priced orders, batch of 1, 1 fault | `HoldsEnd` under `FairSpec` |
| `DoorSerial` | 1 request that also edits, 2 attendees, 2 kits | `HoldersAreInside`, `DoorAgreesWithLog` |
| `DoorRaces` | 2 staff, 2 attendees, 2 events, 2 handouts, 1 key | `OneFreshScan`, `OneHandoutEach`, `HandoutsInScope`, `HandoutsWithinStock` |
| `Accounts` | 2 requests, 1 user, 2 passwords, 1 session, 2 tokens, 1 reset, 2 verification mails, a limit of 1 guess | `RevocationIsFinal`, `ResetEndsSessions`, `GuessesBounded`, `UnverifiedHoldsMail` |
| `Billing` | 1 organization, 2 sessions, 2 requests, grace of 2 days, 6 events in order or 4 racing, 1 delivery in order that goes wrong, any number racing that meet an error | `PastDueHasDeadline`, `PaidTierWasBought`, `SettledAgrees` (but for subscriptions that missed an event), `GraceNeverExtended`, and under fairness `PastDueEnds` and `CanceledEndsFree` (but for a missed deletion) |
| `Organization` | 3 users, 1 custom role, 2 invites, quotas of 1 or 2, 2 requests, 5 served in turn or 4 overlapping, 1 lost write | `OneFixedRole` for any overlap; `KeepsAnOwner`, `CasbinAgrees`, `RepairHeals` and `MembershipSound` (the types, `HeldRolesExist`, `OnePendingInvite`, `InviteEndsOnce`) in turn |
| `Events` | 2 events, quotas of 1 or 2, 2 titles, 2 slugs, 2 files, 2 requests, 5 served in turn or 4 overlapping, 1 failure | `StalePayloadEnds` for any overlap; `CacheFresh`, `FilesSound` (the types and `CoverStored`: a cover's file is there or went with a deletion of the organization), `NoLeakedFiles`, `CancelledIsFinal` in turn |
| `Api` | every route, each credential, 1 caller, 1 custom role, 1 change of rights at any point of the request | `RemovedIsOut`, `DeadCredentialIsOut`, `KeyStaysInScope`, `ServedAsDocumented`, and `RightsAgree` (`GateAndServiceAgree`, `DocumentedRoleSuffices`, `RefusalsDocumented`) |
| `RaceOversell` | smallest that shows it | a violation, see below |

The bounds are small because every race here is between two requests over one row: a read, another
request's commit, a Save. Two workers, two orders and stock of one or two units contain it; a type whose
stock is smaller than the demand, a sweeper batch smaller than the backlog, a kit at its last unit and a
log long enough for scan and undo are all reached. Faults are bounded by `MaxFaults`, the log by
`MaxLog`, handouts by their ids (`IdsLeft`). `CHECK_DEADLOCK FALSE` is set for the checkout runs: ids
are never reused, so when all types are deleted and all orders are dead nothing is left to do. It is set
for `Accounts`, `Billing`, `Organization` and `Events` too, whose requests, events or ids are bounded in
number. The door runs and `Api` check deadlock.

`Organization` uses symmetry of users and workers, which nothing in it tells apart; the runs with
liveness use none. Two users cannot show a demotion of one owner by another beside a third's invite, so
it has three; two requests are enough for every read-commit-sync overlap. `Api` allows one change
because a chain reads each piece of state at most twice: one change between the reads is what separates
them. Six events let a subscription be bought, fail and recover; when order is guaranteed one worker
(`Alone`) serves everything, which any other could as well. One organization is enough for `Billing`'s
run because rows of different organizations meet only in GetBySubscriptionID; that this never mixes them
up is `PaidTiersAreBought`, proved for any number.

`Serial` and `DoorSerial` use one worker on purpose. What they check is what the documents promise; it
holds when requests do not overlap, and with two workers most of it does not: both parts of
`StockAccounted`, `DeadStaysDead` and `HoldersAreInside` have two-worker counterexamples (a stale Save,
or a check outside the transaction).

### Fairness (`FairSpec`)

Weak fairness of `Proceed(w)`: a request that was started goes on to its next step. Weak fairness of
`HoldLapses`: the clock runs. Strong fairness of `SweepStarts`: River inserts the sweep job every five
minutes and retries it, and requests keep finishing, so a worker comes free again and again. Strong
fairness of `WebhookArrives`: Stripe repeats a delivery that was not answered 200. Nothing makes a buyer
pay, a request arrive or an organiser act.

`Billing`: weak fairness of `Proceed(w)` and `Day`, and strong fairness of a delivery, since Stripe
repeats an event until it is answered and requests that keep a worker busy end. Nothing makes Stripe
charge or the owner cancel. `Events`: weak fairness of `Proceed(w)` and of `Expire(e)`, Redis' own
expiry. The purge may fail; the TTL alone has to be enough.

### Disagreements with the repository's documents

`RaceOversell` is a run: an organiser's edit, read before a reservation and saved after it, writes the
old quantity_sold back, and the units are sold twice (ticketing README: "`Reserve()`/`Release()`
already prevent oversell").

The others are seen in the models and have no run of their own.

Checkout and door:
* MarkPaid confirms without minting attendees or sending the e-mail (attendee README: "Mint is
  synchronous inside the confirmation tx (free checkout + MarkPaid)").
* A database error during fulfilment is answered 200, and Stripe stops delivering.
* A type deleted on a stale quantity_sold leaves a hold that can never be released.
* A stale name correction undoes a check-in, and the code admits again.
* CancelOrder leaves the attendee rows REGISTERED: CancelForOrder has no caller.

Subscription:
* StartCheckout's comment says that buying while subscribed is rejected; only the same plan is.
* Two first checkouts of one organization: the later Upsert may write its FREE row over a plan bought
  in between. Late or overlapping events overwrite newer ones; `SettledAgrees` needs `ordered`.
* A database error while a billing event is handled is answered 200 as if it were a rejection, although
  payment_handler.go:86 acknowledges errors because "Stripe must not retry what we deliberately reject" and
  HandleWebhook's comment counts on Stripe's retries. A missed completion never grants the plan that was
  bought; a missed deletion leaves a row ACTIVE on its paid plan for ever.
* A plan change in the portal never reaches the row: subscriptions carry no plan metadata.

Organization and iam:
* Quotas are checks of new writes: a plan that shrinks leaves more members, events and kits than it allows,
  one request at a time too ("only new writes trip limits").
* The last-owner guard, the quotas and the checks of invites and roles run outside the transaction and
  fail when requests overlap; every property with `serial` has an overlapping counterexample.
* Two syncs in the reverse order of their commits leave Casbin with the older role until a repair.
* SyncUserPolicies is said to converge to the membership truth; for someone still a member it does not
  remove a custom role no longer assigned. ReseedOrgPolicies does not remove extra rows of a defined role.
* AssignRole swallows a unique violation inside a transaction that Postgres has then aborted.
* Deleting an organization is said to hard-delete memberships; they and the slug stay.

Events:
* A stale Save undoes a Cancel or a delete; UpdateEvent does not look at the status at all.
* The first gallery image becomes the cover and shares its file: replacing or clearing the cover deletes
  the file under the gallery row.
* "Empty slugs auto-uniquify per org": the search for a free slug does not see deleted rows, whose slug the
  unique index still holds, so a create can fail.
* DeleteOrgAssets is said to be "called by org delete after rows cascade" (event_service.go:748); DeleteOrg
  calls it first (org_service.go:258-260). When the transaction then fails, live events show covers
  whose files are gone, and `CoverStored` follows the files that went.
* The cache's comment says that a zero TTL expires at once; with go-redis it means no expiry.
* A public event of a deleted organization is still served by its id; two racing Publish announce twice.

API:
* DeleteEvent's comment says OWNER; the ADMIN matrix grants `event:delete`. `ServedAsDocumented`
  excepts that route.
* Several handlers answer 400 or 402 where the annotations list neither; AcceptInvite's say 400 for
  another address where the code answers 403.
* `apiKeyObjects` leaves out `kit`. Routes without a gate look at a key's organization but not at its scopes.
* Retry-After is rounded to the nearest second and may be early.

## Proofs

The theorem modules state each property a passing run checks as a theorem about the same specification,
for every value of the constants that satisfies the named assumptions. Where a run is about requests that
do not overlap, so is its theorem, with that as its hypothesis or in the property itself. `IsFiniteSet`
in the assumptions says that a table's ids, which stand for rows that exist at one time, are finite in
number; it is there where a property counts or adds rows.

### Checkout

`CheckoutProofs` is about `Spec` of `Payments`, from `TicketingAssumption`, `OrdersAssumption` and
`PaymentsAssumption`: any number of workers and keys, and any finite number of types and orders.

| Theorem | Statement |
|---|---|
| `TypeCorrect` | `Spec => []TypeOK` |
| `NeverOversoldInTable` | `Spec => []SoldWithinTotal` |
| `NoFreeRide` | `Spec => []ConfirmedIsPaid` |
| `ReplaysAreSafe` | `Spec => []OneOrderPerKey` |
| `FreeOrdersAreComplete` | `Spec => []FreeOrderComplete` |
| `ClaimsAreImmutable` | `Spec => ClaimNeverRewritten` |
| `CheckoutIsSound` | `Spec => []CheckoutInv` |

None of these properties is inductive: a Save stores a copy taken long ago, so each fact about a table
needs the same fact about the copies in memory. `CheckoutInvariants` states them: a copy of a type is
never oversold (`CopiesInStock`), a copy waiting as CONFIRMED is free or paid (`CopiesPaid`), a copy of
an existing order has its claim right (`CopiesMatch`), an order under construction is known to one
request only (`DraftsAreFresh`), and an order that does not exist has no seats (`NoOrderNoSeats`).
`FreeClaims` checks their conjunction `CheckoutInv` with TLC. Each proof has one step per action and, for
the temporal theorem, combines initial states and steps by PTL. `TypeCorrect` needs no strengthening:
quantity_sold stays a natural number because Release checks the locked row.

What the stock theorem does and does not say: the stored quantity_sold is within quantity_total for any
interleaving. That it equals what live orders hold is true without overlap only, which is the next
section, and `RaceOversell` shows the difference.

### Checkout without overlap

`LedgerProofs` is about the same `Spec`, with the hypothesis `OneRequest` (all workers are one worker),
as in the run `Serial`. Requests do not overlap then, but a request may still crash or fail between its
steps, webhooks come late and repeat, holds lapse, and the sweeper works through its batch.

| Theorem | Statement |
|---|---|
| `AccountsHold` | `OneRequest => (Spec => []SerialInv)` |
| `StockIsAccounted` | `OneRequest => (Spec => []StockAccounted)` |
| `TheDeadStayDead` | `OneRequest => (Spec => DeadStaysDead)` |
| `TheLedgerIsImplemented` | `OneRequest => (Spec => ImplementsLedger)` |

The invariant `SerialInv` has two halves. `Accounts` is about the tables: quantity_sold is the sum over
live orders (`Exact`), nothing is sold of a type that is gone (`GoneIsUnsold`, without which a deletion
would strand a hold), live orders name a type (`HoldersAreSound`), and totals are ones an organiser
entered. `EditsCurrent` and `OrdersCurrent` are about the copies: what a request is about to save is the
row of the table, or that row with the change its handler makes, and what DeleteType checked, that
nothing was sold, still holds. This is just what two requests break. Capacity and plan play no part,
since each check may meet other limits. The proof first shows that every step is of one of five kinds
(`StepOfAKind`): it leaves types and orders alone, edits a type, takes units for a new order, gives back
those of a live order, or marks a live order. `Accounts`, `DeadStaysDead` and the refinement are each
proved per kind instead of per action.

The sums are `SumFunctionOnSet` of the community modules, a fold, about which no theorem is available.
The first part of the module proves the equation of the recursive function behind it, that every finite
set has its sum, and what adding, removing or changing one term does, each by a smallest counterexample
among the subsets of a finite set (`FS_StrictSubsetOrderingWellFounded`, `WFMin`), which needs no
induction rule.

The refinement maps a type's capacity to quantity_total while the type is on offer and to 0 when it is
deleted, an order's state to held, sold or released, and its units to type and quantity. Creating,
editing and deleting a type is an `Offer`; CreateOrder's commit a `TakeUnits`; MarkPaid's a `Confirm`; a
cancellation or a sweep a `GiveBack`; everything else a stutter. The guard of `Offer` is
`SoldWithinTotal`, that of `TakeUnits` the locked check in ReserveTx, and that a `GiveBack` takes off
what the order took is `ReleaseTx` with an order whose claim was never rewritten.

### Door

`DoorProofs` is about `Spec` of `Kits`, from `CheckinAssumption` and `KitsAssumption`: any number of
staff, editors, attendees, events and kits, and finitely many handouts. Three theorems have a hypothesis:
no edits of attendees (`Editors = {}`, as in `DoorRaces`), or one request at a time (`OneRequest`, as in
`DoorSerial`).

| Theorem | Statement |
|---|---|
| `DoorTyped` | `Spec => []TypeOK` |
| `HandoutsAreSingle` | `Spec => []OneHandoutEach` |
| `HandoutsStayInScope` | `Spec => []HandoutsInScope` |
| `StockIsKept` | `Spec => HandoutsWithinStock` |
| `OneAdmission` | with `Editors = {}`: `Spec => []OneFreshScan` |
| `LogTellsWhoIsIn` | with `OneRequest`: `Spec => []DoorAgreesWithLog` |
| `HoldersStayInside` | with `OneRequest`: `Spec => []HoldersAreInside` |

CreateKit and Collect decide on rows they read before their transaction, and an edit of an attendee saves
a row read earlier. So the invariant `DoorInv` adds what requests in flight hold: the handout in
preparation is for an attendee of the event in its path (`CollectsInEvent`), a copy of an attendee has
the attendee's event (`CopiesInEvent`), a kit in preparation has an id no kit and no other request has
(`CreatesFresh`), and a handout that exists names a kit and an attendee (`HandoutsReal`).
`HandoutsInScope` then survives a kit deleted and re-created under a late Collect because the locked row
is compared with the event of the path. `StockIsKept` needs no induction on handouts: only
`CommitCollect` adds an active one, and it counts under the kit's lock.

`OneFreshScan` compares entries of the log, but a scan looks only at the row. `UndoneWhenOut` ties them
together: whoever is not CHECKED_IN has an undo in the log after each of his admissions. The last two
need `AloneInv`: the copy that an edit will save is the row of the table (`CopiesCurrent`), and the
attendee of a Collect in flight is still inside (`CollectsInside`). With an editor beside the staff all
three are false: a stale correction writes the old status back.

### Accounts

`SessionsProofs` is about `Spec` of `Sessions`, from `SessionsAssumption` only: any number of requests
(finitely many), users, sessions, tokens and mails.

| Theorem | Statement |
|---|---|
| `AccountsTyped` | `Spec => []TypeOK` |
| `ResetsAreThorough` | `Spec => []ResetEndsSessions` |
| `RevocationsAreFinal` | `Spec => RevocationIsFinal` |
| `GuessesAreBounded` | `Spec => []GuessesBounded` |
| `NobodyIsLockedOut` | `Spec => []UnverifiedHoldsMail` |

The strengthening is `Linked`: what a pending transaction remembers still exists when it commits, and
rows that belong to a user belong to a registered one. Without it a reset could write a password for an
address that never registered, and a registration could change the password under a session.
`GuessesBounded` counts the guesses in flight together with the stored attempts and is inductive with the
types. The proofs also cover what the bounds of `Accounts` leave out: overlapping resends (three mails)
and double rotation (three tokens).

`ResetEndsSessions` excepts `stale` sessions: a login that compared the old password before a reset and
inserts its session after it is not ended by that reset. Single use of a refresh or reset token holds for
requests that do not overlap; two that read the same unused token both commit.

### Billing

`BillingProofs` is about `Spec` of `Billing`, from `BillingAssumption`: any number of organizations,
sessions, requests, events and deliveries that go wrong, in either deployment.

| Theorem | Statement |
|---|---|
| `BillingTyped` | `Spec => []TypeOK` |
| `PastDueIsDated` | `Spec => []PastDueHasDeadline` |
| `PaidTiersAreBought` | `Spec => []PaidTierWasBought` |
| `EventsSettle` | `Spec => []SettledAgrees` |
| `DeadlinesStand` | `Spec => GraceNeverExtended` |

The inductive invariant `BillingInv` says of every copy a handler holds what the properties say of the
rows (`CopiesSound`), because Save writes the copy whatever happened since, and of every event that
Stripe has charged its subscription (`EventsCharged`), because onCheckoutCompleted builds a row from the
event alone. It is kept because Stripe never moves a charged subscription to another buyer, to another
plan or back to an open session (`Onward`), and because the handlers after the first only ever copy plan
and subscription from the row. Lemmas with one proof step per action carry it through Stripe's steps, the
checkout, the five handlers, the writes, a crash and the passing of a day.

The last two are about events delivered in order (`ordered`) and rest on `SettledInv`. Agreement once
everything is answered is the end of a chain of facts about what is still to come. Of the events that
wait, the last about a subscription says what Stripe says (`LastWord`), the last update carries its flag
(`LastFlag`), and before a checkout is recorded no flag was applied (`FirstFlag`). A row agrees with
Stripe unless an event about it waits (`RowsAgree`), and a request in flight holds what the oldest event
says (`Follows`). `Booked` keeps a subscription with the organization that bought it, so that an event
is applied to one row. `RowsAgree`, and what `Follows` says of the flag, except the subscriptions that
`missed` names; a saved update takes its subscription off that list because it carries everything a
missed event would have said. For the deadline, a copy that goes from PAST_DUE to PAST_DUE never has a
later one than the row (`Sooner`): the handler stamps a row only when it enters PAST_DUE, and repeats
find the stamp.

### Organizations

`OrganizationProofs` is about `Spec` of `Organization`, from `IamAssumption` and `MembershipAssumption`:
any finite number of users, custom roles and invites, any number of requests, failed writes and grants.

| Theorem | Statement |
|---|---|
| `NobodyHasTwoRoles` | `Spec => []OneFixedRole` |
| `AnOwnerRemains` | `Spec => []KeepsAnOwner` |
| `MembersAreSound` | `Spec => []MembershipSound` |
| `RepairsHeal` | `Spec => []RepairHeals` |
| `CasbinInStep` | `Spec => []CasbinAgrees` |

Five invariants build on one another. `Shape` types the tables, Casbin's rows and the writes that pending
requests still have to make. `FixedInv` adds to `OneFixedRole`, for any overlap, that whoever is about to
add a role is alone in doing so and has swept the user's rows (`SweptFirst`): this is the lock of
SyncMembership. `SerialInv`, for requests served in turn, has what the checks of the request in flight
found and still holds at its commit (`Ready`), and that the tables agree (`TablesSound`): an organization
that lives has an owner, custom roles are held by members and defined, nobody has two
open invites. `HealInv` says what a repair has left to write: each write is right, and what is still
wrong is among the writes to come. `AgreeInv` says the same of every request and all of Casbin: every row
agrees with the tables or a write still to come (`ToCome`) makes it agree. `CasbinAgrees` is that
invariant with nothing to come. It excepts lost writes, which is what repairs are for.

### Events

`EventsProofs` is about `Spec` of `Events`, from `EventsAssumption`: any number of requests, titles,
uploads and failures, and finitely many event ids and slugs.

| Theorem | Statement |
|---|---|
| `FilesAreSound` | `Spec => []FilesSound` |
| `CacheIsFresh` | `Spec => []CacheFresh` |
| `NothingLeaks` | `Spec => []NoLeakedFiles` |
| `CancellationIsFinal` | `Spec => CancelledIsFinal` |

Between a transaction and its clean-up a replaced file still lies in storage and a cached payload is
stale. So the invariant says what the request in flight owes: which files it will drop and that a
clean-up after a commit drops no cover of a live event, while the cover a request is about to save is in
storage or in `cleaned`, and a deletion of the organization with no fault drops every file of a live
event (`Promise`); that every file in storage is attached to a live event or in the hands of a request
(`NoneLost`, `Held`), and that a stale payload has its purge coming (`PurgeComes`). `Owned`, that no
file belongs to two events, is what makes dropping safe; it holds because files are numbered as they are
stored. The choice of a free slug needs the smallest of a set of numbers (`NatLessThanWellFounded`,
`WFMin`). The types hold however requests overlap.

### API

`ApiProofs` is about `Spec` of `Api`, from `IamAssumption`: any finite set of custom roles with any
permissions of the role registry. `MaxChanges` is free: any number of changes of rights during a request.

| Theorem | Statement |
|---|---|
| `OnlyMembersInside` | `Spec => []RemovedIsOut` |
| `DeadCredentialsRefused` | `Spec => []DeadCredentialIsOut` |
| `KeysStayInScope` | `Spec => []KeyStaysInScope` |
| `ServedRolesDocumented` | `Spec => []ServedAsDocumented` |
| `RightsAreAgreed` | `Spec => []RightsAgree` |

Two invariants meet. `Memory` says what a request remembers of the roles and rows the caller had while it
ran. `Passage` says, stage by stage, what a request that came this far has shown: a good credential past
RequireAuth, a membership past RequireOrgContext, a role that passes past RequirePermission, no key where
keys are turned away. What the two say about a *route* depends on the table, so `RouteSound` states how
gate, role check and comment have to fit, and a lemma per router proves it for every record of `Routes`.
A route that asked for a weaker role than its comment names would fail there.

### Only model-checked

Liveness (`HoldsEnd`, `PastDueEnds`, `CanceledEndsFree`, `StalePayloadEnds`) rests on fairness, whose
`ENABLED` the prover cannot expand. These stay with TLC and its bounds. So does the oversell that
`RaceOversell` finds, which is a behaviour and not a theorem. Every safety invariant and action property
of the passing runs has a theorem.

## Not modelled

* `notification`, `media`: e-mail and push jobs, image processing. They hold no state other parts
  act on; that a job commits with its transaction is in `Orders` (`mailed`).
* `audit`: rows are appended and only listed; their routes are in `Routes`.
* `cmd`, configuration, start-up, River's own queue: wiring. Which middleware guards which route is in `Routes`.
* `ratelimit`: a window that has room or not is a free choice in `Api`; the counting itself is left out.
* Of `organization`: renaming, notification preferences and issuing an API key, which write columns
  nothing else reads. A key that ends is in `Api`.
* List and get handlers and their filters, request parsing beyond "the input cannot be read",
  the generated API description (`src/docs`), tests and seeds.

## Plan

1. A theorem about `OneFreshScan` with editors that touch other attendees only, in place of `Editors = {}`.
2. What of `StockAccounted` survives overlap when no type is edited: reservations and releases lock their rows.
3. `RateLimit`: the fixed window and its fail-open path.
