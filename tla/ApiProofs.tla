------------------------------ MODULE ApiProofs ------------------------------
(***************************************************************************)
(* The API, for any custom roles, whatever they grant, and any number of   *)
(* changes to the caller's rights during a request.                        *)
(*                                                                         *)
(* The routes are a fixed table: what the proofs need of them is stated    *)
(* once (RouteSound) and checked row by row.  The rest follows the request *)
(* through its stages: what each stage has read stays recorded in the      *)
(* roles and rows seen while the request ran.                              *)
(***************************************************************************)
EXTENDS Api, TLAPS

(***************************************************************************)
(* Routes                                                                  *)
(***************************************************************************)
\* The weakest role that the seeded matrices let through a gate.
Least(p) ==
    IF p \in MemberPermissions THEN "MEMBER" ELSE IF p \in AdminPermissions THEN "ADMIN" ELSE "OWNER"

\* The failures a route's annotations list cover what its stages may answer to
\* a caller with a session, except where the matrix or the role check lets
\* every member through.
Permitted(r) ==
    /\ r.scope # "public" => 401 \in r.fails
    /\ r.scope = "org" => 404 \in r.fails
    /\ r.scope = "admin" => 403 \in r.fails
    /\ r.gate # NoGate => 403 \in r.fails \/ Least(r.gate) = "MEMBER"
    /\ r.min # "ANY" => r.denied \in r.fails \/ (r.scope = "org" /\ r.min = "MEMBER")

\* The gate, the role check and the comment of a route agree: the role the
\* comment names is the weakest one the matrices let through the gate, and the
\* service asks for no other.
RouteSound(r) ==
    /\ r.scope \in {"public", "user", "org", "admin"}
    /\ {r.ok, r.denied, r.gone, r.nokey} \cup r.errs \subseteq Nat
    /\ r.min \in {"ANY", "OWN", "OWNER", "ADMIN", "MEMBER"} /\ r.doc \in {"ANY", "OWNER", "ADMIN", "MEMBER"}
    /\ r.scope = "org" => r.doc # "ANY" /\ r.min # "OWN"
    /\ r.own => r.gate = NoGate /\ r.doc \in {"ANY", "MEMBER"}
    /\ r.own \/ r.min \in {"ANY", r.doc}
    /\ r.gate # NoGate =>
          /\ r.scope = "org"
          /\ r = DeleteEvent \/ r.doc = Least(r.gate)
          /\ r.min \in {"ANY", Least(r.gate)}
    /\ (r.scope = "org" /\ r.gate = NoGate /\ r.min = "ANY") => r.doc = "MEMBER"
    /\ Permitted(r)

\* The matrices, pair by pair.
LEMMA Matrices ==
    /\ \A o, a : <<o, a>> \in MemberPermissions <=> o \in {"org", "member", "event", "ticket"} /\ a = "read"
    /\ \A o, a : <<o, a>> \in AdminPermissions <=>
          \/ o = "org" /\ a \in {"read", "update"}
          \/ o = "member" /\ a \in {"read", "create", "delete"}
          \/ o = "invite" /\ a \in {"read", "create", "delete"}
          \/ o = "event" /\ a \in {"read", "create", "update", "delete", "publish"}
          \/ o = "ticket" /\ a \in {"read", "create", "update", "delete"}
          \/ o = "attendee" /\ a \in {"read", "create", "update"}
          \/ o = "checkin" /\ a \in {"read", "create", "update"}
          \/ o = "kit" /\ a \in {"read", "create", "update", "delete"}
          \/ o \in {"audit", "role"} /\ a = "read"
          \/ o = "apikey" /\ a \in {"read", "create", "delete"}
  BY DEF MemberPermissions, AdminPermissions, Of

\* A permission is a gate.
LEMMA PairsAreGates == \A o, a : <<o, a>> # NoGate
<1>1. TAKE o, a
<1>2. Len(<<o, a>>) = 2 /\ Len(<<>>) = 0
  OBVIOUS
<1>3. QED
  BY <1>2 DEF NoGate

\* Access with a field changed.
LEMMA NoKeysAccess ==
    \A status, scope, gate, min, own, denied, doc :
        LET a == NoKeys(status, Access(scope, gate, min, own, denied, doc)) IN
        /\ a.scope = scope /\ a.gate = gate /\ a.min = min /\ a.own = own
        /\ a.denied = denied /\ a.gone = 404 /\ a.nokey = status /\ a.doc = doc
<1>1. TAKE status, scope, gate, min, own, denied, doc
<1>2. PICK a : a = Access(scope, gate, min, own, denied, doc)
  OBVIOUS
<1>3. DOMAIN a = {"scope", "gate", "min", "own", "denied", "gone", "nokey", "doc"}
  BY <1>2 DEF Access
<1>4. /\ a.scope = scope /\ a.gate = gate /\ a.min = min /\ a.own = own
      /\ a.denied = denied /\ a.gone = 404 /\ a.doc = doc
  BY <1>2 DEF Access
<1>5. PICK b : b = [a EXCEPT !.nokey = status]
  OBVIOUS
<1>6. /\ b.scope = scope /\ b.gate = gate /\ b.min = min /\ b.own = own
      /\ b.denied = denied /\ b.gone = 404 /\ b.nokey = status /\ b.doc = doc
  BY <1>3, <1>4, <1>5
<1>7. NoKeys(status, Access(scope, gate, min, own, denied, doc)) = b
  BY <1>2, <1>5 DEF NoKeys
<1>8. QED
  BY <1>6, <1>7

LEMMA OwnersOnlyAccess ==
    /\ OwnersOnly.scope = "org" /\ OwnersOnly.gate = NoGate /\ OwnersOnly.min = "OWNER"
    /\ OwnersOnly.own = FALSE /\ OwnersOnly.denied = 403 /\ OwnersOnly.gone = 403
    /\ OwnersOnly.nokey = 0 /\ OwnersOnly.doc = "OWNER"
<1>1. PICK a : a = Ungated("OWNER", FALSE, "OWNER")
  OBVIOUS
<1>2. /\ DOMAIN a = {"scope", "gate", "min", "own", "denied", "gone", "nokey", "doc"}
      /\ a.scope = "org" /\ a.gate = NoGate /\ a.min = "OWNER" /\ a.own = FALSE
      /\ a.denied = 403 /\ a.nokey = 0 /\ a.doc = "OWNER"
  BY <1>1 DEF Ungated, Access
<1>3. OwnersOnly = [a EXCEPT !.gone = 403]
  BY <1>1 DEF OwnersOnly
<1>4. QED
  BY <1>2, <1>3

LEMMA AuthRoutesSound == \A r \in AuthRoutes : RouteSound(r)
  BY Matrices, PairsAreGates, NoKeysAccess DEF
      AuthRoutes, RouteSound, Least, Permitted, Handler, Access, Public, Signed, Register,
      VerifyEmail, VerifyByCode, ResendVerification, Login, Refresh, ForgotPassword,
      ResetPassword, Logout, Me

LEMMA OrgRoutesSound == \A r \in OrgRoutes : RouteSound(r)
  BY Matrices, PairsAreGates, NoKeysAccess DEF
      OrgRoutes, RouteSound, Least, Permitted, Handler, Access, Signed, Checked, Ungated,
      orgErrorStatus, apiKeyErrorStatus, CreateOrg, ListMyOrgs, GetOrg, UpdateOrg, DeleteOrg,
      ListMembers, AddMember, UpdateMemberRole, RemoveMember, InviteMember, ListInvites,
      RevokeInvite, AcceptInvite, DeclineInvite, UpdateMyPreferences, ListRoles, DefineRole,
      UpdateRole, DeleteRole, AssignRole, UnassignRole, CreateApiKey, ListApiKeys, RevokeApiKey

LEMMA EventRoutesSound == \A r \in EventRoutes : RouteSound(r)
  BY Matrices, PairsAreGates DEF
      EventRoutes, RouteSound, Least, Permitted, Handler, Access, Public, Gated,
      eventErrorStatus, CreateEvent, ListOrgEvents, GetOrgEvent, UpdateEvent, DeleteEvent,
      PublishEvent, UnpublishEvent, CancelEvent, UploadCover, UploadGallery, ListImages,
      ListPublicEvents, GetPublicEvent

LEMMA TicketRoutesSound == \A r \in TicketRoutes : RouteSound(r)
  BY Matrices, PairsAreGates DEF
      TicketRoutes, RouteSound, Least, Permitted, Handler, Access, Public, Gated,
      ticketErrorStatus, CreateTicket, ListTickets, GetTicket, UpdateTicket, DeleteTicket,
      ActivateTicket, PauseTicket, ListPublicTickets

LEMMA OrderRoutesSound == \A r \in OrderRoutes : RouteSound(r)
  BY Matrices, PairsAreGates DEF
      OrderRoutes, RouteSound, Least, Permitted, Handler, Access, Signed, OwnOrManaged,
      orderErrorStatus, CreateOrder, ListMyOrders, GetOrder, CancelOrder

LEMMA PaymentRoutesSound == \A r \in PaymentRoutes : RouteSound(r)
  BY Matrices, PairsAreGates DEF
      PaymentRoutes, RouteSound, Least, Permitted, Handler, Access, Public, OwnRow,
      paymentErrorStatus, CreateCheckout, StripeWebhook

LEMMA SubscriptionRoutesSound == \A r \in SubscriptionRoutes : RouteSound(r)
  BY Matrices, PairsAreGates, OwnersOnlyAccess DEF
      SubscriptionRoutes, RouteSound, Least, Permitted, Handler, Access, Public, Ungated,
      subWireError, GetPlans, GetSubscription, StartCheckout, CreatePortalSession

LEMMA AttendeeRoutesSound == \A r \in AttendeeRoutes : RouteSound(r)
  BY Matrices, PairsAreGates DEF
      AttendeeRoutes, RouteSound, Least, Permitted, Handler, Access, Signed, OwnRow, Gated,
      attendeeErrorStatus, AddAttendee, ListRoster, CorrectAttendee, ListMine, GetMine, CancelMine

LEMMA CheckinRoutesSound == \A r \in CheckinRoutes : RouteSound(r)
  BY Matrices, PairsAreGates DEF
      CheckinRoutes, RouteSound, Least, Permitted, Handler, Access, Gated, checkinErrorStatus,
      Scan, ScanBatch, Stats, Revert

LEMMA KitRoutesSound == \A r \in KitRoutes : RouteSound(r)
  BY Matrices, PairsAreGates DEF
      KitRoutes, RouteSound, Least, Permitted, Handler, Access, Gated, kitErrorStatus, CreateKit,
      ListKits, UpdateKit, DeleteKit, Collect, MarkCollected, Void, ListCollections,
      ListKitCollections

LEMMA AuditRoutesSound == \A r \in AuditRoutes : RouteSound(r)
  BY Matrices, PairsAreGates DEF
      AuditRoutes, RouteSound, Least, Permitted, Handler, Access, Platform, Gated, auditError,
      ListOrg, ListPlatform

LEMMA AdminRoutesSound == \A r \in AdminRoutes : RouteSound(r)
  BY Matrices, PairsAreGates DEF
      AdminRoutes, RouteSound, Least, Permitted, Handler, Access, Platform, adminErrorStatus,
      ListOrgs, AdminGetOrg, SearchUsers, GetUser, ListUserOrders, ReseedOrgPolicies,
      SyncUserPolicies

\* Every row of the table.
LEMMA RoutesSound == \A r \in Routes : RouteSound(r)
  BY AuthRoutesSound, OrgRoutesSound, EventRoutesSound, TicketRoutesSound, OrderRoutesSound,
     PaymentRoutesSound, SubscriptionRoutesSound, AttendeeRoutesSound, CheckinRoutesSound,
     KitRoutesSound, AuditRoutesSound, AdminRoutesSound
  DEF Routes

\* The gates that a fixed role passes.
Passes(q, p) == p \in Seeded(q) \/ Wildcard \in Seeded(q)

\* It passes those whose weakest role it ranks with.
LEMMA MatrixLevels ==
    ASSUME NEW q \in FixedRoles, NEW p
    PROVE  Passes(q, p) <=> Level(q) >= Level(Least(p))
<1>1. Wildcard \notin AdminPermissions /\ Wildcard \notin MemberPermissions
  BY Matrices DEF Wildcard
<1>2. MemberPermissions \subseteq AdminPermissions
  BY DEF MemberPermissions, AdminPermissions, Of
<1>3. CASE q = "OWNER"
  BY <1>3 DEF Passes, Seeded, Level, Least
<1>4. CASE q = "ADMIN"
  BY <1>1, <1>2, <1>4 DEF Passes, Seeded, Level, Least
<1>5. CASE q = "MEMBER"
  BY <1>1, <1>5 DEF Passes, Seeded, Level, Least
<1>6. QED
  BY <1>3, <1>4, <1>5 DEF FixedRoles

(***************************************************************************)
(* Caller and request                                                      *)
(***************************************************************************)
\* The caller's rows and the policies.
World ==
    /\ role \in MemberRoles /\ assigned \subseteq CustomRoles
    /\ groups \subseteq {caller} \X AllRoles
    /\ policies = [r \in AllRoles |-> IF r \in CustomRoles THEN Grants ELSE Seeded(r)]

\* The roles that Casbin knows the caller by.
Rows == {r \in AllRoles : <<caller, r>> \in groups}

Fields ==
    {"route", "via", "scopes", "here", "super", "at", "answer", "by", "own",
     "live", "settled", "seen", "rows"}

\* What a request in flight remembers: the roles and rows the caller had while
\* it ran, whether Casbin was in step all along, and whether the credential was
\* good at the start.
Remembers ==
    /\ DOMAIN req = Fields /\ req.route \in Routes
    /\ role \in req.seen /\ req.seen \subseteq MemberRoles
    /\ Rows \subseteq req.rows /\ req.rows \subseteq AllRoles
    /\ req.settled => Settled /\ req.seen = {role} /\ req.rows = Rows
    /\ \A via : (via = req.via /\ ~req.live) => ~Live(via)

Memory == World /\ (req # NoRequest => Remembers)

\* The second of a row is its role.
LEMMA RowsAre ==
    ASSUME NEW G, G \subseteq {caller} \X AllRoles
    PROVE  {x[2] : x \in G} = {r \in AllRoles : <<caller, r>> \in G}
  OBVIOUS

\* The rows derived from tables; a change of the role or of an assignment
\* changes them.
LEMMA Derived ==
    ASSUME NEW r \in MemberRoles, NEW A \in SUBSET CustomRoles
    PROVE  /\ RowsOf(r, A) \subseteq {caller} \X AllRoles
           /\ \A q \in AllRoles : <<caller, q>> \in RowsOf(r, A) <=> (q \in A \/ (q = r /\ r # NotMember))
           /\ \A q \in FixedRoles : <<caller, q>> \in RowsOf(r, A) <=> q = r
  BY IamAssumption DEF RowsOf, AllRoles, MemberRoles, FixedRoles, NotMember

\* What a stage leaves of the request as it was.
Kept ==
    /\ DOMAIN req' = Fields
    /\ req'.route = req.route /\ req'.via = req.via /\ req'.scopes = req.scopes
    /\ req'.here = req.here /\ req'.super = req.super /\ req'.live = req.live
    /\ req'.settled = req.settled /\ req'.seen = req.seen /\ req'.rows = req.rows

\* A stage lets the request pass, refuses it, or serves it.
LEMMA PassKeeps ==
    ASSUME DOMAIN req = Fields, NEW at, Pass(at)
    PROVE  Kept /\ req'.at = at /\ req' # NoRequest
  BY DEF Pass, Kept, Fields, NoRequest

LEMMA RefuseKeeps ==
    ASSUME DOMAIN req = Fields, NEW status, Refuse(status)
    PROVE  Kept /\ req'.at = "done" /\ req'.by = req.at /\ req'.answer = status /\ req' # NoRequest
  BY DEF Refuse, Kept, Fields, NoRequest

\* Where the request of a stage goes.
Moves == \E at : Pass(at)
Ends == \E status : Refuse(status)

\* A stage reads and changes nothing but the request.
StageStep ==
    /\ req # NoRequest /\ UnchangedWorld
    /\ Kept /\ req' # NoRequest

LEMMA StageSteps ==
    ASSUME Memory,
           Limit \/ RequireAuth \/ RequireOrgContext \/ RequirePermission \/ RequireSuperAdmin
           \/ Handle \/ Serve
    PROVE  StageStep
<1>1. req # NoRequest /\ UnchangedWorld
  <2>1. /\ UnchangedWorld
        /\ \/ Open("limit") \/ Open("auth") \/ Open("context") \/ Open("gate")
           \/ Open("super") \/ Open("handler") \/ Open("service")
    BY DEF Limit, RequireAuth, RequireOrgContext, RequirePermission, RequireSuperAdmin, Handle, Serve
  <2>2. QED
    BY <2>1 DEF Open, NoRequest
<1>2. DOMAIN req = Fields
  BY <1>1 DEF Memory, Remembers
<1>3. CASE Moves \/ Ends
  BY <1>1, <1>2, <1>3, PassKeeps, RefuseKeeps DEF Moves, Ends, StageStep
<1>4. CASE \E mine, status :
             req' = [req EXCEPT !.at = "done", !.answer = status, !.own = mine, !.by = "rule"]
  BY <1>1, <1>2, <1>4 DEF StageStep, Kept, Fields, NoRequest
<1>5. CASE Serve
  BY <1>3, <1>4, <1>5 DEF Serve, Ends
<1>6. CASE Limit \/ RequireAuth \/ RequireOrgContext \/ RequirePermission \/ RequireSuperAdmin \/ Handle
  <2>1. Moves \/ Ends
    BY <1>6 DEF Limit, RequireAuth, RequireOrgContext, RequirePermission, RequireSuperAdmin,
                Handle, Moves, Ends
  <2>2. QED
    BY <1>3, <2>1
<1>7. QED
  BY <1>5, <1>6

\* A change of the caller's rights is noted by the request that runs.
LEMMA WatchedKeeps ==
    ASSUME DOMAIN req = Fields, Watched, req # NoRequest
    PROVE  /\ DOMAIN req' = Fields /\ req' # NoRequest
           /\ req'.route = req.route /\ req'.via = req.via /\ req'.scopes = req.scopes
           /\ req'.here = req.here /\ req'.super = req.super /\ req'.live = req.live
           /\ req'.at = req.at /\ req'.by = req.by
           /\ req'.seen = req.seen \cup {role'}
           /\ req'.rows = req.rows \cup {x[2] : x \in groups'}
           /\ req'.settled = (req.settled /\ groups' = RowsOf(role', assigned'))
<1>1. PICK s, w, t : /\ s = req.seen \cup {role'} /\ w = req.rows \cup {x[2] : x \in groups'}
                     /\ t = (req.settled /\ groups' = RowsOf(role', assigned'))
  OBVIOUS
<1>2. req' = [req EXCEPT !.seen = s, !.rows = w, !.settled = t]
  BY <1>1 DEF Watched
<1>3. DOMAIN NoRequest = {"at"}
  BY DEF NoRequest
<1>4. QED
  BY <1>1, <1>2, <1>3 DEF Fields

\* Another request changes the caller's rows: what is remembered keeps up.
LEMMA WatchedRemembers ==
    ASSUME Memory, World', Watched, UNCHANGED <<account, session, key>>,
           (req # NoRequest /\ req.settled) => groups' # RowsOf(role', assigned')
    PROVE  Memory'
<1>1. CASE req = NoRequest
  BY <1>1 DEF Memory, Watched
<1>2. CASE req # NoRequest
  <2>1. Remembers
    BY <1>2 DEF Memory
  <2>2. /\ DOMAIN req' = Fields /\ req' # NoRequest
        /\ req'.route = req.route /\ req'.via = req.via /\ req'.live = req.live
        /\ req'.seen = req.seen \cup {role'}
        /\ req'.rows = req.rows \cup {x[2] : x \in groups'}
        /\ req'.settled = (req.settled /\ groups' = RowsOf(role', assigned'))
    BY <1>2, <2>1, WatchedKeeps DEF Remembers
  <2>3. {x[2] : x \in groups'} = Rows'
    BY RowsAre DEF World, Rows
  <2>4. ~req'.settled
    BY <1>2, <2>2
  <2>5. \A v : (v = req'.via /\ ~req'.live) => ~Live(v)'
    <3>1. \A v : Live(v)' <=> Live(v)
      BY DEF Live
    <3>2. QED
      BY <2>1, <2>2, <3>1 DEF Remembers
  <2>6. role' \in req'.seen /\ req'.seen \subseteq MemberRoles
    BY <2>1, <2>2 DEF Remembers, World
  <2>7. Rows' \subseteq req'.rows /\ req'.rows \subseteq AllRoles
    BY <2>1, <2>2, <2>3 DEF Remembers, Rows
  <2>8. Remembers'
    BY <2>1, <2>2, <2>4, <2>5, <2>6, <2>7 DEF Remembers
  <2>9. QED
    BY <2>8 DEF Memory
<1>3. QED
  BY <1>1, <1>2

LEMMA MemoryStep == Memory /\ [Next]_apiVars => Memory'
<1> SUFFICES ASSUME Memory, [Next]_apiVars PROVE Memory'
  OBVIOUS
<1>0. World /\ (req # NoRequest => Remembers)
  BY DEF Memory
<1>1. CASE UNCHANGED apiVars
  BY <1>1 DEF apiVars, Memory, World, Remembers, Rows, Settled, Live
<1>2. ASSUME NEW r \in Routes, NEW via, NEW scopes, NEW here, NEW super, Begin(r, via, scopes, here, super)
      PROVE  Memory'
  <2>1. UnchangedWorld /\ World'
    BY <1>0, <1>2 DEF Begin, UnchangedWorld, World
  <2>2. {x[2] : x \in groups} = Rows
    BY <1>0, RowsAre DEF World, Rows
  <2>3. /\ DOMAIN req' = Fields /\ req'.route = r /\ req'.via = via
        /\ req'.seen = {role} /\ req'.rows = Rows
    BY <1>2, <2>2 DEF Begin, Fields
  <2>4. req'.live = Live(via) /\ req'.settled = Settled
    BY <1>2 DEF Begin
  <2>5. (Settled' <=> Settled) /\ Rows' = Rows /\ (Live(via)' <=> Live(via))
    BY <2>1 DEF UnchangedWorld, Settled, Rows, Live
  <2>6. req'.settled => Settled'
    BY <2>4, <2>5 DEF Settled
  <2>7. \A v : (v = req'.via /\ ~req'.live) => ~Live(v)'
    BY <2>3, <2>4, <2>5
  <2>8. /\ role' \in req'.seen /\ req'.seen \subseteq MemberRoles /\ req'.seen = {role'}
        /\ Rows' = req'.rows /\ req'.rows \subseteq AllRoles
    BY <1>0, <2>1, <2>3, <2>5 DEF UnchangedWorld, World, Rows
  <2>9. QED
    BY <1>2, <2>1, <2>3, <2>6, <2>7, <2>8 DEF Memory, Remembers
<1>3. CASE Limit \/ RequireAuth \/ RequireOrgContext \/ RequirePermission \/ RequireSuperAdmin
           \/ Handle \/ Serve
  <2>1. StageStep
    BY <1>3, StageSteps
  <2>2. World' /\ (Settled' <=> Settled) /\ Rows' = Rows
    BY <1>0, <2>1 DEF StageStep, UnchangedWorld, World, Settled, Rows
  <2>3. \A v : Live(v)' <=> Live(v)
    BY <2>1 DEF StageStep, UnchangedWorld, Live
  <2>4. Remembers
    BY <1>0, <2>1 DEF StageStep
  <2>5. Remembers'
    BY <2>1, <2>2, <2>3, <2>4 DEF StageStep, UnchangedWorld, Kept, Remembers
  <2>6. QED
    BY <2>2, <2>5 DEF Memory
<1>4. CASE Respond
  BY <1>0, <1>4 DEF Respond, UnchangedWorld, Memory, World
<1>5. ASSUME NEW r \in MemberRoles, ChangeRole(r) PROVE Memory'
  <2>1. /\ role' = r /\ r # role /\ Watched
        /\ UNCHANGED <<groups, policies, account, session, key>>
    BY <1>5 DEF ChangeRole, Change
  <2>2. World'
    BY <1>0, <1>5, <2>1 DEF World, ChangeRole
  <2>3. (req # NoRequest /\ req.settled) => groups' # RowsOf(role', assigned')
    <3>2. SUFFICES ASSUME req # NoRequest, req.settled, groups' = RowsOf(r, assigned') PROVE FALSE
      BY <2>1
    <3>3. groups = RowsOf(role, assigned)
      BY <1>0, <3>2 DEF Remembers, Settled
    <3>4. \A q \in FixedRoles : <<caller, q>> \in groups <=> q = role
      BY <1>0, <3>3, Derived DEF World
    <3>5. \A q \in FixedRoles : <<caller, q>> \in groups <=> q = r
      BY <2>1, <2>2, <3>2, Derived DEF World
    <3>6. QED
      BY <1>0, <2>1, <3>4, <3>5 DEF World, MemberRoles
  <2>4. QED
    BY <2>1, <2>2, <2>3, WatchedRemembers
<1>6. ASSUME NEW c \in CustomRoles, AssignOrUnassign(c) PROVE Memory'
  <2>1. /\ UNCHANGED <<groups, policies, role, account, session, key>> /\ Watched /\ role # NotMember
        /\ assigned' = IF c \in assigned THEN assigned \ {c} ELSE assigned \cup {c}
    BY <1>6 DEF AssignOrUnassign, Change
  <2>2. World'
    BY <1>0, <2>1 DEF World
  <2>3. (req # NoRequest /\ req.settled) => groups' # RowsOf(role', assigned')
    <3>2. SUFFICES ASSUME req # NoRequest, req.settled, groups = RowsOf(role, assigned') PROVE FALSE
      BY <2>1
    <3>3. groups = RowsOf(role, assigned)
      BY <1>0, <3>2 DEF Remembers, Settled
    <3>4. c \in AllRoles /\ c # role
      BY <1>0, <2>1, IamAssumption DEF World, MemberRoles, AllRoles
    <3>5. <<caller, c>> \in groups <=> c \in assigned
      BY <1>0, <3>3, <3>4, Derived DEF World
    <3>6. <<caller, c>> \in groups <=> c \in assigned'
      BY <1>0, <2>1, <2>2, <3>2, <3>4, Derived DEF World
    <3>7. QED
      BY <2>1, <3>5, <3>6
  <2>4. QED
    BY <2>1, <2>2, <2>3, WatchedRemembers
<1>7. CASE SyncCasbin
  <2>1. /\ ~Settled /\ groups' = RowsOf(role, assigned) /\ Watched
        /\ UNCHANGED <<policies, role, assigned, account, session, key>>
    BY <1>7 DEF SyncCasbin
  <2>2. World'
    BY <1>0, <2>1, Derived DEF World
  <2>3. CASE req = NoRequest
    BY <2>1, <2>2, <2>3 DEF Watched, Memory
  <2>4. CASE req # NoRequest
    <3>1. ~req.settled
      BY <1>0, <2>1, <2>4 DEF Remembers
    <3>2. QED
      BY <2>1, <2>2, <3>1, WatchedRemembers
  <2>5. QED
    BY <2>3, <2>4
<1>8. CASE Suspend \/ RevokeSession \/ KeyEnds
  <2>1. /\ UNCHANGED <<groups, policies, role, assigned, req>>
        /\ \A via : ~Live(via) => ~Live(via)'
    BY <1>8 DEF Suspend, RevokeSession, KeyEnds, Change, Live
  <2>2. World' /\ Settled' = Settled /\ Rows' = Rows
    BY <1>0, <2>1 DEF World, Settled, Rows
  <2>3. CASE req # NoRequest
    <3>1. Remembers
      BY <1>0, <2>3
    <3>2. \A v : (v = req'.via /\ ~req'.live) => ~Live(v)'
      BY <2>1, <3>1 DEF Remembers
    <3>3. Remembers'
      BY <2>1, <2>2, <3>1, <3>2 DEF Remembers, Live
    <3>4. QED
      BY <2>2, <3>3 DEF Memory
  <2>4. QED
    BY <2>1, <2>2, <2>3 DEF Memory
<1>9. QED
  BY <1>1, <1>2, <1>3, <1>4, <1>5, <1>6, <1>7, <1>8 DEF Next

LEMMA MemoryHolds == Spec => []Memory
<1>1. Init => Memory
  <2> SUFFICES ASSUME Init PROVE Memory
    OBVIOUS
  <2>1. assigned \subseteq CustomRoles
    BY DEF Init
  <2>2. QED
    BY <2>1, Derived DEF Init, Memory, World
<1>2. QED
  BY <1>1, MemoryStep, PTL DEF Spec

(***************************************************************************)
(* The way through the stages                                              *)
(***************************************************************************)
\* Where the request is, or who answered it.
Stage == IF req.at = "done" THEN req.by ELSE req.at

\* A request is at a stage of its route.
OnItsWay ==
    /\ Stage = "auth" => req.route.scope # "public"
    /\ Stage = "context" => req.route.scope = "org"
    /\ Stage = "gate" => req.route.scope = "org" /\ req.route.gate # NoGate
    /\ Stage = "super" => req.route.scope = "admin"

\* Past RequireAuth the credential was good at the start.
SignedIn ==
    (Stage \in {"context", "gate", "super", "handler", "service", "rule"} /\ req.route.scope # "public") =>
        req.live

\* Past RequireOrgContext the caller was a member, a key one of this organization.
Inside ==
    (Stage \in {"gate", "handler", "service", "rule"} /\ req.route.scope = "org") =>
        req.seen # {NotMember} /\ (req.via = "key" => req.here)

\* Past RequirePermission a key's snapshot covers the gate, and Casbin knew the
\* caller by a role that passes.
LetThrough ==
    (Stage \in {"handler", "service", "rule"} /\ req.route.scope = "org" /\ req.route.gate # NoGate) =>
        /\ req.via = "key" => req.scopes # "foreign" /\ req.route.gate[1] # "apikey"
        /\ \/ req.super
           \/ \E r \in req.rows : req.route.gate \in policies[r] \/ Wildcard \in policies[r]

\* Past RequireSuperAdmin it is no key; past the handler it is none where keys
\* are turned away.
NoKey ==
    /\ (Stage \in {"handler", "service", "rule"} /\ req.route.scope = "admin") => req.via # "key"
    /\ Stage \in {"service", "rule"} => (req.via # "key" \/ req.route.nokey = 0)

\* Served: the role suffices, or the service asks for none.
Ranked ==
    (req.at = "done" /\ req.by = "rule") =>
        \/ req.route.min = "ANY" \/ req.route.own
        \/ req.route.min # "OWN" /\ Outranks(req.seen, req.route.min)

\* Refused: with which status, and for what is still the case.
RefusedRightly ==
    req.at = "done" =>
        /\ req.by = "auth" => req.answer = 401
        /\ req.by = "context" => req.answer = 404 \/ req.via = "key"
        /\ req.by = "super" => req.answer = 403
        /\ req.by = "gate" => /\ req.answer = 403
                              /\ req.via = "key" \/ (~req.super /\ ~Enforce(caller, req.route.gate))
        /\ req.by = "service" =>
              /\ req.route.min # "ANY"
              /\ \/ req.route.scope = "org" /\ role = NotMember
                 \/ /\ req.answer = req.route.denied
                    /\ req.route.min = "OWN" \/ Level(role) < Level(req.route.min)

Way ==
    /\ OnItsWay /\ SignedIn /\ Inside /\ LetThrough /\ NoKey /\ Ranked /\ RefusedRightly

Passage == req # NoRequest => Way

\* A request that passes on keeps what the stages before it found.
LEMMA LimitPasses ==
    ASSUME Memory, Passage, Limit
    PROVE  Way'
<1> USE DEF StageStep, Kept, Way, Stage, OnItsWay, SignedIn, Inside, LetThrough, NoKey, Ranked, RefusedRightly
<1>1. StageStep /\ Remembers /\ Way /\ req.at = "limit"
  BY StageSteps DEF Limit, StageStep, Memory, Passage, Open
<1>2. CASE Pass(IF req.route.scope = "public" THEN "handler" ELSE "auth")
  <2>1. req'.at = IF req.route.scope = "public" THEN "handler" ELSE "auth"
    BY <1>1, <1>2, PassKeeps DEF Remembers
  <2>2. req.route.scope = "public" \/ req'.at = "auth"
    BY <2>1
  <2>3. QED
    BY <1>1, <2>1
<1>3. CASE Refuse(429)
  <2>1. req'.at = "done" /\ req'.by = "limit"
    BY <1>1, <1>3, RefuseKeeps DEF Remembers
  <2>2. QED
    BY <1>1, <2>1
<1>4. QED
  BY <1>2, <1>3 DEF Limit

LEMMA AuthPasses ==
    ASSUME Memory, Passage, RequireAuth
    PROVE  Way'
<1> USE DEF StageStep, Kept, Way, Stage, OnItsWay, SignedIn, Inside, LetThrough, NoKey, Ranked, RefusedRightly
<1>1. StageStep /\ Remembers /\ Way /\ req.at = "auth"
  BY StageSteps DEF RequireAuth, StageStep, Memory, Passage, Open
<1>2. PICK next : next = CASE req.route.scope = "org" -> "context"
                           [] req.route.scope = "admin" -> "super"
                           [] OTHER -> "handler"
  OBVIOUS
<1>3. CASE Authenticates(req.via) /\ Pass(next)
  <2>1. req'.at = next
    BY <1>1, <1>3, PassKeeps DEF Remembers
  <2>2. req.live
    BY <1>1, <1>3 DEF Remembers, Authenticates
  <2>3. \/ next = "context" /\ req.route.scope = "org"
        \/ next = "super" /\ req.route.scope = "admin"
        \/ next = "handler" /\ req.route.scope \notin {"org", "admin"}
    <3>1. CASE req.route.scope = "org"
      BY <1>2, <3>1
    <3>2. CASE req.route.scope = "admin"
      BY <1>2, <3>2
    <3>3. CASE req.route.scope \notin {"org", "admin"}
      BY <1>2, <3>3
    <3>4. QED
      BY <3>1, <3>2, <3>3
  <2>4. QED
    BY <1>1, <2>1, <2>2, <2>3
<1>4. CASE Refuse(401)
  <2>1. req'.at = "done" /\ req'.by = "auth" /\ req'.answer = 401
    BY <1>1, <1>4, RefuseKeeps DEF Remembers
  <2>2. QED
    BY <1>1, <2>1
<1>5. QED
  BY <1>2, <1>3, <1>4 DEF RequireAuth

LEMMA ContextPasses ==
    ASSUME Memory, Passage, RequireOrgContext
    PROVE  Way'
<1> USE DEF StageStep, Kept, Way, Stage, OnItsWay, SignedIn, Inside, LetThrough, NoKey, Ranked, RefusedRightly
<1>1. StageStep /\ Remembers /\ req.at = "context"
  BY StageSteps DEF RequireOrgContext, StageStep, Memory, Passage, Open
<1>2. req.route.scope = "org" /\ (req.route.scope # "public" => req.live)
  BY <1>1 DEF Passage
<1>3. PICK next : next = IF req.route.gate = NoGate THEN "handler" ELSE "gate"
  OBVIOUS
<1>4. CASE resolveMembership /\ KeyOfThisOrg /\ Pass(next)
  <2>1. req'.at = next
    BY <1>1, <1>4, PassKeeps DEF Remembers
  <2>2. req.seen # {NotMember} /\ (req.via = "key" => req.here)
    BY <1>1, <1>4 DEF Remembers, resolveMembership, KeyOfThisOrg
  <2>3. QED
    BY <1>1, <1>2, <1>3, <2>1, <2>2
<1>5. CASE Refuse(404) \/ (~KeyOfThisOrg /\ Refuse(403))
  <2>1. req'.at = "done" /\ req'.by = "context" /\ (req'.answer = 404 \/ req.via = "key")
    BY <1>1, <1>5, RefuseKeeps DEF Remembers, KeyOfThisOrg
  <2>2. QED
    BY <1>1, <1>2, <2>1
<1>6. QED
  BY <1>3, <1>4, <1>5 DEF RequireOrgContext

LEMMA PermissionPasses ==
    ASSUME Memory, Passage, RequirePermission
    PROVE  Way'
<1> USE DEF StageStep, Kept, Way, Stage, OnItsWay, SignedIn, Inside, LetThrough, NoKey, Ranked, RefusedRightly
<1>1. StageStep /\ Remembers /\ req.at = "gate"
  BY StageSteps DEF RequirePermission, StageStep, Memory, Passage, Open
<1>2. /\ req.route.scope = "org" /\ req.route.gate # NoGate /\ req.live
      /\ req.seen # {NotMember} /\ (req.via = "key" => req.here)
  BY <1>1 DEF Passage
<1>3. CASE /\ apiKeyScopeAllows /\ KeyMayAsk /\ (req.super \/ Enforce(caller, req.route.gate))
           /\ Pass("handler")
  <2>1. req'.at = "handler"
    BY <1>1, <1>3, PassKeeps DEF Remembers
  <2>2. req.via = "key" => req.scopes # "foreign" /\ req.route.gate[1] # "apikey"
    BY <1>3 DEF apiKeyScopeAllows, KeyMayAsk
  <2>3. req.super \/ \E r \in req.rows : req.route.gate \in policies[r] \/ Wildcard \in policies[r]
    BY <1>1, <1>3 DEF Enforce, Remembers, Rows
  <2>4. policies' = policies
    BY <1>1 DEF UnchangedWorld
  <2>5. QED
    BY <1>1, <1>2, <2>1, <2>2, <2>3, <2>4
<1>4. CASE /\ ~(apiKeyScopeAllows /\ KeyMayAsk /\ (req.super \/ Enforce(caller, req.route.gate)))
           /\ Refuse(403)
  <2>1. req'.at = "done" /\ req'.by = "gate" /\ req'.answer = 403
    BY <1>1, <1>4, RefuseKeeps DEF Remembers
  <2>2. req.via = "key" \/ (~req.super /\ ~Enforce(caller, req.route.gate))
    BY <1>4 DEF apiKeyScopeAllows, KeyMayAsk
  <2>3. PICK p : p = req.route.gate
    OBVIOUS
  <2>4. Enforce(caller, p)' <=> Enforce(caller, p)
    BY <1>1 DEF UnchangedWorld, Enforce
  <2>5. req'.via = "key" \/ (~req'.super /\ ~Enforce(caller, req.route.gate)')
    BY <1>1, <2>2, <2>3, <2>4 DEF Enforce
  <2>6. QED
    BY <1>1, <1>2, <2>1, <2>5
<1>5. QED
  BY <1>3, <1>4 DEF RequirePermission

LEMMA SuperPasses ==
    ASSUME Memory, Passage, RequireSuperAdmin
    PROVE  Way'
<1> USE DEF StageStep, Kept, Way, Stage, OnItsWay, SignedIn, Inside, LetThrough, NoKey, Ranked, RefusedRightly
<1>1. StageStep /\ Remembers /\ req.at = "super"
  BY StageSteps DEF RequireSuperAdmin, StageStep, Memory, Passage, Open
<1>2. req.route.scope = "admin" /\ req.live
  BY <1>1 DEF Passage
<1>3. CASE req.via # "key" /\ Pass("handler")
  <2>1. req'.at = "handler"
    BY <1>1, <1>3, PassKeeps DEF Remembers
  <2>2. QED
    BY <1>1, <1>2, <1>3, <2>1
<1>4. CASE Refuse(403)
  <2>1. req'.at = "done" /\ req'.by = "super" /\ req'.answer = 403
    BY <1>1, <1>4, RefuseKeeps DEF Remembers
  <2>2. QED
    BY <1>1, <1>2, <2>1
<1>5. QED
  BY <1>3, <1>4 DEF RequireSuperAdmin

LEMMA HandlerPasses ==
    ASSUME Memory, Passage, Handle
    PROVE  Way'
<1> USE DEF StageStep, Kept, Way, Stage, OnItsWay, SignedIn, Inside, LetThrough, NoKey, Ranked, RefusedRightly
<1>1. StageStep /\ Remembers /\ Way /\ req.at = "handler" /\ policies' = policies
  BY StageSteps DEF Handle, StageStep, Memory, Passage, Open, UnchangedWorld
<1>2. CASE ~(req.via = "key" /\ req.route.nokey # 0) /\ Pass("service")
  <2>1. req'.at = "service"
    BY <1>1, <1>2, PassKeeps DEF Remembers
  <2>2. QED
    BY <1>1, <1>2, <2>1
<1>3. CASE \E status : Refuse(status)
  <2>1. req'.at = "done" /\ req'.by = "handler"
    BY <1>1, <1>3, RefuseKeeps DEF Remembers
  <2>2. QED
    BY <1>1, <2>1
<1>4. QED
  BY <1>2, <1>3 DEF Handle

\* The service: every member of a route that asks for a role is ranked.
LEMMA ServicePasses ==
    ASSUME Memory, Passage, Serve
    PROVE  Way'
<1> USE DEF StageStep, Kept, Way, Stage, OnItsWay, SignedIn, Inside, LetThrough, NoKey, Ranked, RefusedRightly
<1>1. StageStep /\ Remembers /\ Way /\ req.at = "service" /\ policies' = policies /\ role' = role
  BY StageSteps DEF Serve, StageStep, Memory, Passage, Open, UnchangedWorld
<1>2. PICK r, mine :
        /\ r = req.route /\ mine \in (IF r.own THEN BOOLEAN ELSE {FALSE})
        /\ LET member == r.min # "ANY" /\ r.scope = "org" => role # NotMember
               suffices == r.min = "ANY" \/ mine \/ RoleSuffices(role, r.min)
           IN \/ ~member /\ Refuse(r.gone)
              \/ member /\ ~suffices /\ Refuse(r.denied)
              \/ /\ member /\ suffices
                 /\ \E status : req' = [req EXCEPT !.at = "done", !.answer = status, !.own = mine, !.by = "rule"]
  BY DEF Serve
<1>3. r = req.route /\ (mine => r.own)
  BY <1>2
<1>4. /\ Level(role) \in Nat /\ Level(r.min) \in Nat
  BY DEF Level
<1>5. CASE r.min # "ANY" /\ r.scope = "org" /\ role = NotMember /\ Refuse(r.gone)
  <2>1. req'.at = "done" /\ req'.by = "service"
    BY <1>1, <1>5, RefuseKeeps DEF Remembers
  <2>2. QED
    BY <1>1, <1>3, <1>5, <2>1
<1>6. CASE r.min # "ANY" /\ ~RoleSuffices(role, r.min) /\ Refuse(r.denied)
  <2>1. req'.at = "done" /\ req'.by = "service" /\ req'.answer = r.denied
    BY <1>1, <1>6, RefuseKeeps DEF Remembers
  <2>2. r.min = "OWN" \/ Level(role) < Level(r.min)
    BY <1>4, <1>6 DEF RoleSuffices
  <2>3. QED
    BY <1>1, <1>3, <1>6, <2>1, <2>2
<1>7. CASE \E status : /\ req' = [req EXCEPT !.at = "done", !.answer = status, !.own = mine, !.by = "rule"]
                       /\ r.min = "ANY" \/ mine \/ RoleSuffices(role, r.min)
  <2>1. req'.at = "done" /\ req'.by = "rule"
    BY <1>1, <1>7 DEF Remembers, Fields
  <2>2. r.min = "ANY" \/ r.own \/ (r.min # "OWN" /\ Outranks(req.seen, r.min))
    BY <1>1, <1>3, <1>7 DEF RoleSuffices, Outranks, Remembers
  <2>3. Outranks(req'.seen, r.min) <=> Outranks(req.seen, r.min)
    BY <1>1
  <2>4. QED
    BY <1>1, <1>3, <2>1, <2>2, <2>3 DEF Outranks
<1>8. QED
  BY <1>2, <1>5, <1>6, <1>7

\* A change of the caller's rights takes nothing away from what was found.
LEMMA ChangePasses ==
    ASSUME Memory, Passage, req # NoRequest, req.at # "done", policies' = policies,
           Watched \/ req' = req
    PROVE  Way'
<1> USE DEF Way, Stage, OnItsWay, SignedIn, Inside, LetThrough, NoKey, Ranked, RefusedRightly
<1>1. Remembers /\ Way
  BY DEF Memory, Passage
<1>2. /\ req'.route = req.route /\ req'.via = req.via /\ req'.scopes = req.scopes
      /\ req'.here = req.here /\ req'.super = req.super /\ req'.live = req.live
      /\ req'.at = req.at /\ req.seen \subseteq req'.seen /\ req.rows \subseteq req'.rows
  BY <1>1, WatchedKeeps DEF Remembers
<1>3. req'.seen = {NotMember} => req.seen = {NotMember}
  BY <1>1, <1>2 DEF Remembers
<1>4. LetThrough'
  BY <1>1, <1>2
<1>5. QED
  BY <1>1, <1>2, <1>3, <1>4

LEMMA PassageStep == Memory /\ Passage /\ [Next]_apiVars => Passage'
<1> SUFFICES ASSUME Memory, Passage, [Next]_apiVars, req' # NoRequest PROVE Way'
  BY DEF Passage
<1>1. CASE UNCHANGED apiVars
  <2>1. req' = req /\ policies' = policies /\ groups' = groups /\ role' = role
    BY <1>1 DEF apiVars
  <2>2. Way
    BY <2>1 DEF Passage
  <2>3. /\ OnItsWay' /\ SignedIn' /\ Inside' /\ LetThrough' /\ NoKey' /\ Ranked'
    BY <2>1, <2>2 DEF Way, Stage, OnItsWay, SignedIn, Inside, LetThrough, NoKey, Ranked
  <2>4. \A p : Enforce(caller, p)' <=> Enforce(caller, p)
    BY <2>1 DEF Enforce
  <2>5. RefusedRightly'
    BY <2>1, <2>2, <2>4 DEF Way, RefusedRightly
  <2>6. QED
    BY <2>3, <2>5 DEF Way
<1>2. ASSUME NEW r \in Routes, NEW via, NEW scopes, NEW here, NEW super, Begin(r, via, scopes, here, super)
      PROVE  Way'
  <2>1. req'.at = "limit"
    BY <1>2 DEF Begin
  <2>2. QED
    BY <2>1 DEF Way, Stage, OnItsWay, SignedIn, Inside, LetThrough, NoKey, Ranked, RefusedRightly
<1>3. CASE Respond
  BY <1>3 DEF Respond
<1>4. CASE (\E r \in MemberRoles : ChangeRole(r)) \/ (\E c \in CustomRoles : AssignOrUnassign(c)) \/ SyncCasbin
  <2>1. Watched /\ req.at # "done" /\ policies' = policies
    BY <1>4 DEF ChangeRole, AssignOrUnassign, SyncCasbin, Change
  <2>2. req = NoRequest => req' = req
    BY <2>1 DEF Watched
  <2>3. QED
    BY <2>1, <2>2, ChangePasses
<1>5. CASE Suspend \/ RevokeSession \/ KeyEnds
  BY <1>5, ChangePasses DEF Suspend, RevokeSession, KeyEnds, Change
<1>6. QED
  BY <1>1, <1>2, <1>3, <1>4, <1>5, LimitPasses, AuthPasses, ContextPasses, PermissionPasses,
     SuperPasses, HandlerPasses, ServicePasses DEF Next

LEMMA PassageHolds == Spec => []Passage
<1>1. Init => Passage
  BY DEF Init, Passage
<1>2. QED
  BY <1>1, PassageStep, MemoryHolds, PTL DEF Spec

(***************************************************************************)
(* Who is served                                                           *)
(***************************************************************************)
\* A grouping that outlived the membership, or the superadmin bypass of the
\* matcher, does not stand in for the membership row.
THEOREM OnlyMembersInside == Spec => []RemovedIsOut
<1>1. Memory /\ Passage => RemovedIsOut
  BY DEF Memory, Passage, RemovedIsOut, Served, Done, Way, Inside, Stage, NoRequest
<1>2. QED
  BY <1>1, MemoryHolds, PassageHolds, PTL

\* No request that starts after its account was suspended, its session or its
\* key revoked is served on a signed-in route.
THEOREM DeadCredentialsRefused == Spec => []DeadCredentialIsOut
<1>1. Memory /\ Passage => DeadCredentialIsOut
  BY DEF Memory, Passage, DeadCredentialIsOut, Served, Done, Way, SignedIn, Stage, NoRequest
<1>2. QED
  BY <1>1, MemoryHolds, PassageHolds, PTL

\* A key stays in its organization and in its snapshot, and manages neither
\* keys nor the platform, on any of the routes.
THEOREM KeysStayInScope == Spec => []KeyStaysInScope
<1>1. Logout.nokey = 401
  <2>1. PICK a : a = Signed
    OBVIOUS
  <2>2. "nokey" \in DOMAIN a
    BY <2>1 DEF Signed, Access
  <2>3. NoKeys(401, a).nokey = 401
    BY <2>2 DEF NoKeys
  <2>4. QED
    BY <2>1, <2>3 DEF Logout, Handler
<1>2. Memory /\ Passage => KeyStaysInScope
  <2> SUFFICES ASSUME Memory, Passage, Served, req.via = "key"
               PROVE  /\ req.route.scope = "org" => req.here
                      /\ req.route.gate # NoGate => req.scopes # "foreign" /\ req.route.gate[1] # "apikey"
                      /\ req.route.scope # "admin" /\ req.route # Logout
    BY DEF KeyStaysInScope
  <2>1. Remembers /\ Way /\ Stage = "rule"
    BY DEF Memory, Passage, Served, Done, Stage, NoRequest
  <2>2. RouteSound(req.route)
    BY <2>1, RoutesSound DEF Remembers
  <2>3. req.route.gate # NoGate => req.route.scope = "org"
    BY <2>2 DEF RouteSound
  <2>4. req.route.nokey = 0
    BY <2>1 DEF Way, NoKey
  <2>5. QED
    BY <1>1, <2>1, <2>3, <2>4 DEF Way, Inside, LetThrough, NoKey
<1>3. QED
  BY <1>2, MemoryHolds, PassageHolds, PTL

\* The policies, role by role.
LEMMA PoliciesAre ==
    ASSUME World, NEW r \in AllRoles
    PROVE  IF r \in CustomRoles THEN policies[r] = Grants ELSE policies[r] = Seeded(r) /\ r \in FixedRoles
  BY IamAssumption DEF World, AllRoles

\* No custom role holds the wildcard.
LEMMA NoWildcard == Wildcard \notin Grants
<1>1. Wildcard \notin RoleRegistry
  BY DEF Wildcard, RoleRegistry, AdminPermissions, Of
<1>2. QED
  BY <1>1, IamAssumption

\* The role a comment names is the role that is served.
THEOREM ServedRolesDocumented == Spec => []ServedAsDocumented
<1>1. Memory /\ Passage => ServedAsDocumented
  <2> SUFFICES ASSUME Memory, Passage, Served, req.route.scope = "org", req.route # DeleteEvent,
                      ~Outranks(req.seen, req.route.doc)
               PROVE  /\ req.route.min = "ANY" /\ req.route.gate # NoGate
                      /\ \/ req.super
                         \/ Outranks(req.rows, req.route.doc)
                         \/ req.route.gate \in Grants /\ req.rows \cap CustomRoles # {}
    BY DEF ServedAsDocumented
  <2>1. World /\ Remembers /\ Way /\ Stage = "rule"
    BY DEF Memory, Passage, Served, Done, Stage, NoRequest
  <2>2. PICK r : r = req.route /\ RouteSound(r)
    BY <2>1, RoutesSound DEF Remembers
  <2>3. \A q : Level(q) \in Nat
    BY DEF Level
  <2>4. \E q \in req.seen : q \in FixedRoles
    BY <2>1 DEF Way, Inside, Remembers, MemberRoles
  <2>5. \A q \in FixedRoles : Level(q) >= 1
    BY DEF Level, FixedRoles
  <2>6. r.doc # "MEMBER"
    BY <2>2, <2>3, <2>4, <2>5 DEF Outranks, Level
  <2>7. ~r.own
    BY <2>2, <2>6 DEF RouteSound
  <2>8. r.min = "ANY"
    <3>1. CASE r.min = r.doc
      BY <2>1, <2>2, <2>7, <3>1 DEF Way, Ranked, Served, Done
    <3>2. QED
      BY <2>2, <2>7, <3>1 DEF RouteSound
  <2>9. r.gate # NoGate /\ r.doc = Least(r.gate)
    BY <2>2, <2>6, <2>8 DEF RouteSound
  <2>10. CASE ~req.super
    <3>1. PICK q \in req.rows : r.gate \in policies[q] \/ Wildcard \in policies[q]
      BY <2>1, <2>2, <2>9, <2>10 DEF Way, LetThrough
    <3>2. q \in AllRoles
      BY <2>1, <3>1 DEF Remembers
    <3>3. CASE q \in CustomRoles
      BY <2>1, <2>2, <2>8, <2>9, <3>1, <3>2, <3>3, PoliciesAre, NoWildcard
    <3>4. CASE q \notin CustomRoles
      <4>1. q \in FixedRoles /\ policies[q] = Seeded(q)
        BY <2>1, <3>2, <3>4, PoliciesAre
      <4>2. Level(q) >= Level(Least(r.gate))
        BY <3>1, <4>1, MatrixLevels DEF Passes
      <4>3. QED
        BY <2>2, <2>8, <2>9, <3>1, <4>2 DEF Outranks
    <3>5. QED
      BY <3>3, <3>4
  <2>11. QED
    BY <2>2, <2>8, <2>9, <2>10
<1>2. QED
  BY <1>1, MemoryHolds, PassageHolds, PTL

(***************************************************************************)
(* Who is turned away                                                      *)
(***************************************************************************)
\* As long as Casbin is in step, the caller holds the row of the membership,
\* and rows of custom roles besides.
LEMMA SettledRows ==
    ASSUME Memory, req # NoRequest, req.settled
    PROVE  /\ req.seen = {role} /\ role \in MemberRoles
           /\ \A q \in req.rows : q \in AllRoles /\ (q \notin CustomRoles => q = role /\ q \in FixedRoles)
           /\ \A q \in FixedRoles : <<caller, q>> \in groups <=> q = role
<1>1. World /\ Remembers
  BY DEF Memory
<1>2. req.seen = {role} /\ req.rows = Rows /\ groups = RowsOf(role, assigned)
  BY <1>1 DEF Remembers, Settled
<1>3. \A q \in FixedRoles : <<caller, q>> \in groups <=> q = role
  BY <1>1, <1>2, Derived DEF World
<1>4. QED
  BY <1>1, <1>2, <1>3 DEF World, Rows, AllRoles

\* Casbin then lets the caller through every gate that the role passes.
LEMMA RankPasses ==
    ASSUME Memory, req # NoRequest, req.settled, role # NotMember,
           NEW p, Level(role) >= Level(Least(p))
    PROVE  Enforce(caller, p)
<1>1. role \in FixedRoles /\ <<caller, role>> \in groups
  BY SettledRows DEF MemberRoles
<1>2. role \in AllRoles /\ policies[role] = Seeded(role)
  BY <1>1, PoliciesAre, IamAssumption DEF Memory, AllRoles
<1>3. Passes(role, p)
  BY <1>1, MatrixLevels
<1>4. QED
  BY <1>1, <1>2, <1>3 DEF Enforce, Passes

\* What is known of a request that was answered.
LEMMA Answered ==
    ASSUME Memory, Passage, Done
    PROVE  /\ req # NoRequest /\ World /\ Remembers /\ Way /\ Stage = req.by
           /\ RouteSound(req.route)
<1>1. req # NoRequest
  BY DEF Done, NoRequest
<1>2. World /\ Remembers /\ Way /\ Stage = req.by
  BY <1>1 DEF Memory, Passage, Done, Stage
<1>3. QED
  BY <1>1, <1>2, RoutesSound DEF Remembers

\* Levels are numbers, and only a caller without a row is at none.
LEMMA Levels ==
    /\ \A q : Level(q) \in Nat /\ Level(q) <= Level("OWNER")
    /\ \A q \in FixedRoles : Level(q) >= Level("MEMBER")
    /\ Level(NotMember) < Level("MEMBER")
    /\ \A p : Least(p) \in FixedRoles
  BY DEF Level, FixedRoles, NotMember, Least

LEMMA GatesAgree == Memory /\ Passage => GateAndServiceAgree
<1> SUFFICES ASSUME Memory, Passage, Done, req.by = "service", req.route.gate # NoGate, req.settled,
                    ~req.super, req.rows \cap CustomRoles = {}
             PROVE  FALSE
  BY DEF GateAndServiceAgree
<1>1. req # NoRequest /\ World /\ Remembers /\ Way /\ Stage = "service"
  BY Answered
<1>2. PICK r : r = req.route /\ RouteSound(r)
  BY Answered
<1>3. r.scope = "org" /\ r.gate # NoGate /\ r.min \in {"ANY", Least(r.gate)}
  BY <1>2 DEF RouteSound
<1>4. PICK q \in req.rows : r.gate \in policies[q] \/ Wildcard \in policies[q]
  BY <1>1, <1>2, <1>3 DEF Way, LetThrough
<1>5. q \in AllRoles /\ q \notin CustomRoles /\ q = role /\ q \in FixedRoles
  BY <1>1, <1>4, SettledRows
<1>6. policies[q] = Seeded(q)
  BY <1>1, <1>5, PoliciesAre
<1>7. Level(role) >= Level(Least(r.gate))
  BY <1>4, <1>5, <1>6, MatrixLevels DEF Passes
<1>8. role # NotMember
  BY <1>5 DEF FixedRoles, NotMember
<1>9. r.min # "ANY" /\ (r.min = "OWN" \/ Level(role) < Level(r.min))
  BY <1>1, <1>2, <1>8 DEF Way, RefusedRightly, Done
<1>10. r.min = Least(r.gate) /\ Least(r.gate) # "OWN"
  BY <1>3, <1>9, Levels DEF FixedRoles
<1>11. QED
  BY <1>7, <1>9, <1>10, Levels

LEMMA DocumentedSuffices == Memory /\ Passage => DocumentedRoleSuffices
<1> SUFFICES ASSUME Memory, Passage, Done, req.by \in {"gate", "service"}, req.settled,
                    req.via = "session", ~req.route.own, Outranks(req.seen, req.route.doc)
             PROVE  FALSE
  BY DEF DocumentedRoleSuffices
<1>1. req # NoRequest /\ World /\ Remembers /\ Way /\ Stage = req.by
  BY Answered
<1>2. PICK r : r = req.route /\ RouteSound(r)
  BY Answered
<1>3. Level(role) >= Level(r.doc) /\ role \in MemberRoles
  BY <1>1, <1>2, SettledRows DEF Outranks
<1>4. CASE req.by = "gate"
  <2>1. r.gate # NoGate /\ ~Enforce(caller, r.gate)
    BY <1>1, <1>2, <1>4 DEF Way, OnItsWay, RefusedRightly, Done
  <2>2. Level(r.doc) >= Level(Least(r.gate))
    <3>1. CASE r = DeleteEvent
      <4>1. r.doc = "OWNER"
        BY <3>1 DEF DeleteEvent, Handler, Gated, Access
      <4>2. QED
        BY <4>1, Levels
    <3>2. QED
      BY <1>2, <2>1, <3>1, Levels DEF RouteSound
  <2>3. Level(role) >= Level(Least(r.gate)) /\ role # NotMember
    BY <1>3, <2>2, Levels
  <2>4. QED
    BY <1>1, <2>1, <2>3, RankPasses
<1>5. CASE req.by = "service"
  <2>1. /\ r.min # "ANY"
        /\ \/ r.scope = "org" /\ role = NotMember
           \/ r.min = "OWN" \/ Level(role) < Level(r.min)
    BY <1>1, <1>2, <1>5 DEF Way, RefusedRightly, Done
  <2>2. r.min = r.doc /\ r.min # "OWN"
    BY <1>2, <2>1 DEF RouteSound
  <2>3. r.doc \in FixedRoles
    BY <1>2, <2>1, <2>2 DEF RouteSound, FixedRoles
  <2>4. role # NotMember
    BY <1>3, <2>3, Levels
  <2>5. QED
    BY <1>3, <2>1, <2>2, <2>4, Levels
<1>6. QED
  BY <1>4, <1>5

LEMMA RefusalsListed == Memory /\ Passage => RefusalsDocumented
<1> SUFFICES ASSUME Memory, Passage, Done, req.by \in {"auth", "context", "super", "gate", "service"},
                    req.settled, req.via # "key"
             PROVE  req.answer \in req.route.fails
  BY DEF RefusalsDocumented
<1>1. req # NoRequest /\ World /\ Remembers /\ Way /\ Stage = req.by
  BY Answered
<1>2. PICK r : r = req.route /\ RouteSound(r) /\ Permitted(r)
  BY Answered DEF RouteSound
<1>3. OnItsWay /\ Inside /\ RefusedRightly
  BY <1>1 DEF Way
<1>4. req.seen = {role} /\ role \in MemberRoles
  BY <1>1, SettledRows
<1>5. CASE req.by = "auth"
  BY <1>1, <1>2, <1>3, <1>5 DEF OnItsWay, RefusedRightly, Done, Permitted
<1>6. CASE req.by = "context"
  BY <1>1, <1>2, <1>3, <1>6 DEF OnItsWay, RefusedRightly, Done, Permitted
<1>7. CASE req.by = "super"
  BY <1>1, <1>2, <1>3, <1>7 DEF OnItsWay, RefusedRightly, Done, Permitted
<1>8. CASE req.by = "gate"
  <2>1. r.scope = "org" /\ r.gate # NoGate /\ req.answer = 403 /\ ~Enforce(caller, r.gate)
    BY <1>1, <1>2, <1>3, <1>8 DEF OnItsWay, RefusedRightly, Done
  <2>2. role # NotMember
    BY <1>1, <1>2, <1>3, <1>4, <1>8, <2>1 DEF Inside
  <2>3. role \in FixedRoles
    BY <1>4, <2>2 DEF MemberRoles
  <2>4. Least(r.gate) # "MEMBER"
    <3>1. SUFFICES ASSUME Least(r.gate) = "MEMBER" PROVE FALSE
      OBVIOUS
    <3>2. Level(role) >= Level(Least(r.gate))
      BY <2>3, <3>1, Levels
    <3>3. QED
      BY <1>1, <2>1, <2>2, <3>2, RankPasses
  <2>5. QED
    BY <1>2, <2>1, <2>4 DEF Permitted
<1>9. CASE req.by = "service"
  <2>1. /\ r.min # "ANY"
        /\ \/ r.scope = "org" /\ role = NotMember
           \/ req.answer = r.denied /\ (r.min = "OWN" \/ Level(role) < Level(r.min))
    BY <1>1, <1>2, <1>3, <1>9 DEF RefusedRightly, Done
  <2>2. r.scope = "org" => role # NotMember
    BY <1>1, <1>2, <1>3, <1>4, <1>9 DEF Inside
  <2>3. ~(r.scope = "org" /\ r.min = "MEMBER")
    <3>1. SUFFICES ASSUME r.scope = "org", r.min = "MEMBER" PROVE FALSE
      OBVIOUS
    <3>2. role \in FixedRoles
      BY <1>4, <2>2, <3>1 DEF MemberRoles
    <3>3. Level(role) < Level("MEMBER")
      BY <2>1, <2>2, <3>1
    <3>4. QED
      BY <3>2, <3>3, Levels
  <2>4. QED
    BY <1>2, <2>1, <2>2, <2>3 DEF Permitted
<1>10. QED
  BY <1>5, <1>6, <1>7, <1>8, <1>9

\* The matrices seeded into Casbin, the role checks of the services and the
\* comments and annotations of the handlers agree, on every route and whatever
\* custom roles there are.
THEOREM RightsAreAgreed == Spec => []RightsAgree
<1>1. Memory /\ Passage => RightsAgree
  BY GatesAgree, DocumentedSuffices, RefusalsListed DEF RightsAgree
<1>2. QED
  BY <1>1, MemoryHolds, PassageHolds, PTL
=============================================================================
