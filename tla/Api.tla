--------------------------------- MODULE Api ---------------------------------
(***************************************************************************)
(* A request through the middleware chain of its route, against the state  *)
(* each stage reads for itself: the limiter's window (Limit), the session, *)
(* account or API key (RequireAuth), the membership row                    *)
(* (RequireOrgContext), Casbin's rows (RequirePermission), and the         *)
(* membership row again (the service's role check).  Between any two of    *)
(* these reads another request may change the caller's role, suspend the   *)
(* account or revoke the key, and Casbin's rows follow the tables late or, *)
(* after a failed sync, not at all.                                        *)
(***************************************************************************)
EXTENDS Iam, Routes

CONSTANTS
    MaxChanges      \* changes to the caller's rights, per behaviour

VARIABLES
    role,       \* the caller's membership row in the organization, or NotMember
    assigned,   \* custom roles the caller is assigned in the tables
    account,    \* "ACTIVE" or "SUSPENDED"
    session,    \* the caller's session is not revoked
    key,        \* the caller's API key is neither revoked nor expired
    changes,    \* changes so far
    req         \* the request in flight, or NoRequest

apiVars == <<groups, policies, role, assigned, account, session, key, changes, req>>

caller == CHOOSE u \in Users : TRUE
MemberRoles == FixedRoles \cup {NotMember}
NoRequest == [at |-> "none"]

\* What SyncMembership and SyncCustomGrouping derive from the tables.
RowsOf(r, custom) == {caller} \X (({r} \ {NotMember}) \cup custom)

Settled == groups = RowsOf(role, assigned)

Live(via) ==
    /\ account = "ACTIVE"
    /\ CASE via = "session" -> session
         [] via = "key" -> key
         [] OTHER -> FALSE

Init ==
    /\ role \in MemberRoles
    /\ assigned \in IF role = NotMember THEN {{}} ELSE SUBSET CustomRoles
    /\ groups = RowsOf(role, assigned)
    /\ policies = [r \in AllRoles |-> IF r \in CustomRoles THEN Grants ELSE Seeded(r)]
    /\ account = "ACTIVE" /\ session = TRUE /\ key = TRUE
    /\ changes = 0
    /\ req = NoRequest

(***************************************************************************)
(* The chain                                                               *)
(***************************************************************************)
Open(at) == req.at = at
Pass(at) == req' = [req EXCEPT !.at = at]
Refuse(status) == req' = [req EXCEPT !.at = "done", !.answer = status, !.by = req.at]
UnchangedWorld == UNCHANGED <<groups, policies, role, assigned, account, session, key, changes>>

\* A request to route r.  A key carries the scopes of its snapshot, none
\* ("all"), or ones that cover this route or not, and its organization is this
\* one or another.
Begin(r, via, scopes, here, super) ==
    /\ req = NoRequest
    /\ req' = [route |-> r, via |-> via, scopes |-> scopes, here |-> here, super |-> super,
               at |-> "limit", answer |-> 0,
               by |-> "nobody", own |-> FALSE,
               live |-> Live(via), settled |-> Settled, seen |-> {role}, rows |-> {x[2] : x \in groups}]
    /\ UnchangedWorld

\* The window of the caller's address has room, or the store failed and the
\* limiter lets the request through; which of the two is left open, and so is
\* how the windows of other callers move.
Limit ==
    /\ Open("limit")
    /\ \/ Pass(IF req.route.scope = "public" THEN "handler" ELSE "auth")
       \/ Refuse(429)
    /\ UnchangedWorld

\* Mutant: a key outlives the account that made it.
KeyAlone(via) == IF via = "key" THEN key ELSE Live(via)

Authenticates(via) == Live(via)

RequireAuth ==
    /\ Open("auth")
    /\ IF Authenticates(req.via)
       THEN Pass(CASE req.route.scope = "org" -> "context"
                   [] req.route.scope = "admin" -> "super"
                   [] OTHER -> "handler")
       ELSE Refuse(401)
    /\ UnchangedWorld

\* Mutant: the organization is found, its membership is left to Casbin.
ResolvesOrg == TRUE

resolveMembership == role # NotMember

KeyOfThisOrg == req.via # "key" \/ req.here

RequireOrgContext ==
    /\ Open("context")
    /\ IF ~resolveMembership THEN Refuse(404)
       ELSE IF ~KeyOfThisOrg THEN Refuse(403)
       ELSE Pass(IF req.route.gate = NoGate THEN "handler" ELSE "gate")
    /\ UnchangedWorld

\* Mutant: the snapshot of the key is not consulted.
ScopesIgnored == TRUE

apiKeyScopeAllows == req.via # "key" \/ req.scopes \in {"all", "covering"}

KeyMayAsk == req.via # "key" \/ req.route.gate[1] # "apikey"

RequirePermission ==
    /\ Open("gate")
    /\ IF apiKeyScopeAllows /\ KeyMayAsk /\ (req.super \/ Enforce(caller, req.route.gate))
       THEN Pass("handler")
       ELSE Refuse(403)
    /\ UnchangedWorld

RequireSuperAdmin ==
    /\ Open("super")
    /\ IF req.via # "key" /\ req.super THEN Pass("handler") ELSE Refuse(403)
    /\ UnchangedWorld

\* The handler turns keys away where it must, and reads its input.
Handle ==
    /\ Open("handler")
    /\ \/ req.via = "key" /\ req.route.nokey # 0 /\ Refuse(req.route.nokey)
       \/ ~(req.via = "key" /\ req.route.nokey # 0) /\ req.route.parses /\ Refuse(400)
       \/ ~(req.via = "key" /\ req.route.nokey # 0) /\ Pass("service")
    /\ UnchangedWorld

\* Mutant: the service asks for one level less.
RoleBelow(r, min) == min # "OWN" /\ Level(r) + 1 >= Level(min)

RoleSuffices(r, min) == min # "OWN" /\ Level(r) >= Level(min)

\* The service reads the membership row again, then does its work or refuses it
\* by rules of its own.
Serve ==
    /\ Open("service")
    /\ \E mine \in IF req.route.own THEN BOOLEAN ELSE {FALSE} :
          LET r == req.route
              member == r.min # "ANY" /\ r.scope = "org" => role # NotMember
              suffices == r.min = "ANY" \/ mine \/ RoleSuffices(role, r.min)
          IN \/ ~member /\ Refuse(r.gone)
             \/ member /\ ~suffices /\ Refuse(r.denied)
             \/ /\ member /\ suffices
                /\ \E status \in r.errs \cup {r.ok} :
                      req' = [req EXCEPT !.at = "done", !.answer = status, !.own = mine, !.by = "rule"]
    /\ UnchangedWorld

Respond ==
    /\ Open("done")
    /\ req' = NoRequest
    /\ UnchangedWorld

(***************************************************************************)
(* Other requests                                                          *)
(***************************************************************************)
\* The request in flight remembers what the caller was while it ran.
Watched ==
    req' = IF req = NoRequest THEN req
           ELSE [req EXCEPT !.seen = @ \cup {role'}, !.rows = @ \cup {x[2] : x \in groups'},
                            !.settled = @ /\ groups' = RowsOf(role', assigned')]

Change ==
    /\ changes < MaxChanges
    /\ req.at # "done"
    /\ changes' = changes + 1
    /\ UNCHANGED policies

\* A membership is added, changed or removed; a removal takes the assignments.
ChangeRole(r) ==
    /\ Change
    /\ r # role
    /\ role' = r
    /\ assigned' = IF r = NotMember THEN {} ELSE assigned
    /\ UNCHANGED <<groups, account, session, key>>
    /\ Watched

AssignOrUnassign(c) ==
    /\ Change
    /\ role # NotMember
    /\ assigned' = IF c \in assigned THEN assigned \ {c} ELSE assigned \cup {c}
    /\ UNCHANGED <<groups, role, account, session, key>>
    /\ Watched

\* The sync that follows a commit, if it is not lost.
SyncCasbin ==
    /\ ~Settled
    /\ req.at # "done"
    /\ groups' = RowsOf(role, assigned)
    /\ UNCHANGED <<policies, role, assigned, account, session, key, changes>>
    /\ Watched

Suspend ==
    /\ Change
    /\ account = "ACTIVE"
    /\ account' = "SUSPENDED"
    /\ UNCHANGED <<groups, role, assigned, session, key, req>>

RevokeSession ==
    /\ Change
    /\ session
    /\ session' = FALSE
    /\ UNCHANGED <<groups, role, assigned, account, key, req>>

KeyEnds ==
    /\ Change
    /\ key
    /\ key' = FALSE
    /\ UNCHANGED <<groups, role, assigned, account, session, req>>

\* What a route does not look at is not varied.
Vias(r) == IF r.scope = "public" THEN {"anonymous"} ELSE {"anonymous", "session", "key"}
Scopes(r, via) == IF via = "key" /\ r.gate # NoGate THEN {"all", "covering", "foreign"} ELSE {"all"}
Heres(r, via) == IF via = "key" /\ r.scope = "org" THEN BOOLEAN ELSE {TRUE}
Supers(r) == IF r.scope = "admin" \/ r.gate # NoGate THEN BOOLEAN ELSE {FALSE}

Next ==
    \/ \E r \in Routes : \E via \in Vias(r) :
          \E scopes \in Scopes(r, via), here \in Heres(r, via), super \in Supers(r) : Begin(r, via, scopes, here, super)
    \/ Limit \/ RequireAuth \/ RequireOrgContext \/ RequirePermission \/ RequireSuperAdmin \/ Handle \/ Serve \/ Respond
    \/ \E r \in MemberRoles : ChangeRole(r)
    \/ \E c \in CustomRoles : AssignOrUnassign(c)
    \/ SyncCasbin \/ Suspend \/ RevokeSession \/ KeyEnds

Spec == Init /\ [][Next]_apiVars

(***************************************************************************)
(* Properties                                                              *)
(***************************************************************************)
Done == req.at = "done"
Served == Done /\ req.by = "rule" /\ req.answer = req.route.ok
Outranks(roles, min) == \E r \in roles : Level(r) >= Level(min)

\* The role a handler's comment names is the role that is served: on a route
\* whose service checks the membership row, the caller held that role in the
\* tables at some moment of the request, whatever Casbin said; on a route that
\* only has its gate, the caller held it in the tables or in Casbin's rows, or a
\* custom role that grants the gate, or is a superadmin.  (DeleteEvent's comment
\* says OWNER and its permission is in the ADMIN matrix.)
ServedAsDocumented ==
    Served /\ req.route.scope = "org" /\ req.route # DeleteEvent =>
        \/ Outranks(req.seen, req.route.doc)
        \/ /\ req.route.min = "ANY" /\ req.route.gate # NoGate
           /\ \/ req.super
              \/ Outranks(req.rows, req.route.doc)
              \/ req.route.gate \in Grants /\ req.rows \cap CustomRoles # {}

\* A request to an organization's routes is served only to a caller who was a
\* member while it ran: a grouping that outlived the membership, or the
\* superadmin bypass of the matcher, does not stand in for the row.
RemovedIsOut == Served /\ req.route.scope = "org" => req.seen # {NotMember}

\* Once the account is suspended, the session revoked or the key revoked or
\* expired, no request that starts afterwards is served on a signed-in route.
DeadCredentialIsOut == Served /\ req.route.scope # "public" => req.live

\* A key is confined to its organization on every organization route, to its
\* snapshot on every gated route, and never manages keys or the platform.
KeyStaysInScope ==
    Served /\ req.via = "key" =>
        /\ req.route.scope = "org" => req.here
        /\ req.route.gate # NoGate => req.scopes # "foreign" /\ req.route.gate[1] # "apikey"
        /\ req.route.scope # "admin" /\ req.route # Logout

\* The matrices seeded into Casbin and the role checks of the services agree: a
\* caller whose rows are in step with the tables, who holds no custom role, is
\* never let through a gate only to be turned away by the service's role check.
GateAndServiceAgree ==
    Done /\ req.by = "service" /\ req.route.gate # NoGate /\ req.settled =>
        req.super \/ req.rows \cap CustomRoles # {}

\* A signed-in caller whose rows are in step with the tables and who has the role
\* that a handler's comment names is not turned away for lack of rights.
DocumentedRoleSuffices ==
    Done /\ req.by \in {"gate", "service"} /\ req.settled /\ req.via = "session" /\ ~req.route.own =>
        ~Outranks(req.seen, req.route.doc)

\* A refusal for want of a credential, a membership or a right is one of the
\* failures that the handler's annotations list, for a caller who signs in with
\* a session and whose rows are in step with the tables.
RefusalsDocumented ==
    Done /\ req.by \in {"auth", "context", "super", "gate", "service"} /\ req.settled /\ req.via # "key" =>
        req.answer \in req.route.fails

\* The three places that decide on rights (Casbin's matrices, the role checks of
\* the services, the comments and annotations of the handlers) agree on every
\* route, at every point where a caller can be turned away.
RightsAgree == GateAndServiceAgree /\ DocumentedRoleSuffices /\ RefusalsDocumented
=============================================================================
