----------------------------- MODULE Membership -----------------------------
(***************************************************************************)
(* One organization: its members, invites and custom roles, the Casbin     *)
(* rows derived from them, and the platform admin's repairs.               *)
(*                                                                         *)
(* A request passes RequireOrgContext and RequirePermission and checks in  *)
(* its service without a lock (one step), commits a transaction (a second  *)
(* step) and then writes Casbin's rows, best effort (op[w].todo, one step  *)
(* per row change).  RequirePermission reads the enforcer without taking   *)
(* the mutex that LockWrite holds, so the step between SyncMembership's    *)
(* sweep and its add is visible.  Requests that fail a check change        *)
(* nothing and are not steps.                                              *)
(*                                                                         *)
(* The variable serial is chosen once: TRUE serves one request at a time.  *)
(***************************************************************************)
EXTENDS Iam

CONSTANTS
    Workers,        \* concurrent requests
    Invites,        \* invite ids 1..n, in creation order
    NoUser,
    MemberLimits,   \* the member quotas a plan may grant
    MaxRequests,    \* bound: requests ever served, one at a time
    MaxRacing,      \* bound: requests ever served when they overlap
    MaxFaults       \* bound: Casbin writes that fail

ASSUME MembershipAssumption ==
    /\ NoUser \notin Users
    /\ IsFiniteSet(Invites) /\ Invites = 1..Cardinality(Invites)
    /\ MemberLimits \subseteq Nat /\ MaxRequests \in Nat /\ MaxRacing \in Nat /\ MaxFaults \in Nat

VARIABLES
    org,        \* "none", "live" or "deleted"
    members,    \* organization_memberships: the role of each user
    invites,    \* organization_invites
    defs,       \* role_definitions: the permissions of each role, {} if undefined
    assigned,   \* member_custom_roles
    op,         \* op[w]: what request w does next
    served,     \* number of requests begun
    faults,     \* number of Casbin writes that failed
    serial      \* the deployment, see above

tables == <<org, members, invites, defs, assigned>>
vars == <<tables, groups, policies, op, served, faults, serial>>

Roles == FixedRoles \cup {"none"}

Level(r) == CASE r = "OWNER" -> 3 [] r = "ADMIN" -> 2 [] r = "MEMBER" -> 1 [] OTHER -> 0

Invite == [user: Users \cup {NoUser}, role: FixedRoles,
           accepted: BOOLEAN, declined: BOOLEAN, lapsed: BOOLEAN]

NoInvite == [user |-> NoUser, role |-> "MEMBER",
             accepted |-> FALSE, declined |-> FALSE, lapsed |-> FALSE]

\* Casbin writes a request still has to make.
SyncOps ==
    [k: {"role"}, user: Users, role: Roles] \cup [k: {"add"}, user: Users, role: FixedRoles]
    \cup [k: {"custom"}, user: Users, role: CustomRoles, grant: BOOLEAN]
    \cup [k: {"ensure"}, role: CustomRoles, perms: SUBSET Grants]
    \cup [k: {"drop"}, role: CustomRoles]
    \cup [k: {"orphans"}, defined: SUBSET CustomRoles]
    \cup [k: {"seed", "unseed"}]

SyncRole(u, r) == [k |-> "role", user |-> u, role |-> r]
SyncCustom(u, c, grant) == [k |-> "custom", user |-> u, role |-> c, grant |-> grant]
Ensure(c, perms) == [k |-> "ensure", role |-> c, perms |-> perms]
Drop(c) == [k |-> "drop", role |-> c]

IsMember(u) == members[u] # "none"
CountMembers == Cardinality({u \in Users : IsMember(u)})
CountOwners == Cardinality({u \in Users : members[u] = "OWNER"})
Holders(c) == {u \in Users : <<u, c>> \in assigned}
ListUserCustomRoles(u) == {c \in CustomRoles : <<u, c>> \in assigned}

Idle(w) == op[w].do = "idle"
Doing(w, what) == op[w].do = what
Hold(w, next) == op' = [op EXCEPT ![w] = next]

\* Some order of a set, for the loops of the code.
SomeSeq(S) == CHOOSE s \in [1..Cardinality(S) -> S] : \A x \in S : \E i \in DOMAIN s : s[i] = x

\* Request w may start; it has passed its checks and holds its transaction.
Start(w, next) ==
    /\ Idle(w)
    /\ serial => \A v \in Workers : Idle(v)
    /\ served < IF serial THEN MaxRequests ELSE MaxRacing
    /\ served' = served + 1
    /\ Hold(w, next)
    /\ UNCHANGED <<tables, groups, policies, faults, serial>>

\* The transaction is committed; the Casbin writes follow.
Then(w, todo) ==
    /\ Hold(w, IF todo = <<>> THEN [do |-> "idle"] ELSE [do |-> "sync", todo |-> todo])
    /\ UNCHANGED <<groups, policies, served, faults, serial>>

(***************************************************************************)
(* Access                                                                  *)
(***************************************************************************)
\* RequireOrgContext: a membership row of an organization that is not deleted.
InOrg(u) == org = "live" /\ IsMember(u)

\* RequireOrgContext, then RequirePermission.
Admitted(u, obj, act) == InOrg(u) /\ Enforce(u, <<obj, act>>)

RequireRole(u, min) == InOrg(u) /\ Level(members[u]) >= Level(min)

\* Mutant: the guard counts the owner that is leaving as one that stays.
NoOwnerAtAll == CountOwners <= 0

LastOwner == CountOwners <= 1

\* The member quota of the plan in force.  The plan may change between two
\* requests, by upgrade, cancellation or lapse, and a smaller one leaves the
\* members there are: every check meets a limit of its own.
QuotaReached(limit) == CountMembers >= limit

RoomForMember == \E limit \in MemberLimits : ~QuotaReached(limit)

(***************************************************************************)
(* The organization                                                        *)
(***************************************************************************)
\* Creates the organization of this model; its slug is its own.
CreateOrg(w, u) ==
    /\ org = "none" /\ \A v \in Workers : Idle(v)
    /\ Start(w, [do |-> "createOrg", user |-> u])

CommitCreateOrg(w) ==
    /\ Doing(w, "createOrg")
    /\ org' = "live"
    /\ members' = [members EXCEPT ![op[w].user] = "OWNER"]
    /\ UNCHANGED <<invites, defs, assigned>>
    /\ Then(w, <<[k |-> "seed"], SyncRole(op[w].user, "OWNER")>>)

\* The member list is read before the transaction.
DeleteOrg(w, g) ==
    /\ Admitted(g, "org", "delete") /\ RequireRole(g, "OWNER")
    /\ Start(w, [do |-> "deleteOrg", seen |-> {u \in Users : IsMember(u)}])

\* A soft delete: no row of the organization goes with it.
CommitDeleteOrg(w) ==
    /\ Doing(w, "deleteOrg")
    /\ org' = "deleted"
    /\ UNCHANGED <<members, invites, defs, assigned>>
    /\ LET seen == SomeSeq(op[w].seen) IN
        Then(w, Append([i \in DOMAIN seen |-> SyncRole(seen[i], "none")], [k |-> "unseed"]))

(***************************************************************************)
(* Members                                                                 *)
(***************************************************************************)
AddMember(w, g, t, r) ==
    /\ Admitted(g, "member", "create") /\ RequireRole(g, "ADMIN")
    /\ Level(members[g]) >= Level(r)
    /\ RoomForMember /\ ~IsMember(t)
    /\ Start(w, [do |-> "addMember", user |-> t, role |-> r])

\* The row is unique per user: a second insert fails and rolls back.
CommitAddMember(w) ==
    /\ Doing(w, "addMember")
    /\ UNCHANGED <<org, invites, defs, assigned>>
    /\ \/ /\ ~IsMember(op[w].user)
          /\ members' = [members EXCEPT ![op[w].user] = op[w].role]
          /\ Then(w, <<SyncRole(op[w].user, op[w].role)>>)
       \/ IsMember(op[w].user) /\ UNCHANGED members /\ Then(w, <<>>)

UpdateMemberRole(w, g, t, r) ==
    /\ Admitted(g, "member", "update") /\ RequireRole(g, "OWNER")
    /\ IsMember(t)
    /\ (members[t] = "OWNER" /\ r # "OWNER") => ~LastOwner
    /\ Start(w, [do |-> "updateRole", user |-> t, role |-> r])

\* UPDATE ... WHERE: no row, no change, and the sync follows all the same.
CommitUpdateMemberRole(w) ==
    /\ Doing(w, "updateRole")
    /\ members' = IF IsMember(op[w].user)
                  THEN [members EXCEPT ![op[w].user] = op[w].role] ELSE members
    /\ UNCHANGED <<org, invites, defs, assigned>>
    /\ Then(w, <<SyncRole(op[w].user, op[w].role)>>)

\* Not gated by a permission: anyone may leave.
RemoveMember(w, g, t) ==
    /\ InOrg(g) /\ IsMember(t)
    /\ g # t => /\ Level(members[g]) >= Level("ADMIN")
                /\ members[t] = "OWNER" => members[g] = "OWNER"
    /\ members[t] = "OWNER" => ~LastOwner
    /\ Start(w, [do |-> "removeMember", user |-> t])

CommitRemoveMember(w) ==
    /\ Doing(w, "removeMember")
    /\ LET t == op[w].user
           customs == SomeSeq(ListUserCustomRoles(t)) IN
        /\ members' = [members EXCEPT ![t] = "none"]
        /\ assigned' = assigned \ ({t} \X CustomRoles)
        /\ UNCHANGED <<org, invites, defs>>
        /\ Then(w, <<SyncRole(t, "none")>>
                     \o [i \in DOMAIN customs |-> SyncCustom(t, customs[i], FALSE)])

(***************************************************************************)
(* Invites                                                                 *)
(***************************************************************************)
Pending(n) == /\ invites[n].user # NoUser
              /\ ~invites[n].accepted /\ ~invites[n].declined /\ ~invites[n].lapsed

\* Invites of u that nobody consumed; the expiry is not looked at.
Unconsumed(u) == {n \in Invites : /\ invites[n].user = u
                                  /\ ~invites[n].accepted /\ ~invites[n].declined}

FreeInvite(n) == invites[n] = NoInvite /\ \A k \in Invites : k < n => invites[k] # NoInvite

InviteMember(w, g, t, r) ==
    /\ Admitted(g, "invite", "create") /\ RequireRole(g, "ADMIN")
    /\ Level(members[g]) >= Level(r) /\ ~IsMember(t)
    /\ Start(w, [do |-> "invite", user |-> t, role |-> r])

\* The newest unconsumed invite is superseded (stamped declined).
CommitInvite(w) ==
    /\ Doing(w, "invite")
    /\ \E n \in Invites :
        LET old == Unconsumed(op[w].user) IN
        /\ FreeInvite(n)
        /\ invites' = [k \in Invites |->
                        IF k = n THEN [NoInvite EXCEPT !.user = op[w].user, !.role = op[w].role]
                        ELSE IF k \in old /\ \A j \in old : j <= k
                        THEN [invites[k] EXCEPT !.declined = TRUE] ELSE invites[k]]
    /\ UNCHANGED <<org, members, defs, assigned>>
    /\ Then(w, <<>>)

InviteLapses(n) ==
    /\ Pending(n)
    /\ invites' = [invites EXCEPT ![n].lapsed = TRUE]
    /\ UNCHANGED <<org, members, defs, assigned, groups, policies, op, served, faults, serial>>

RevokeInvite(w, g, n) ==
    /\ Admitted(g, "invite", "delete") /\ RequireRole(g, "ADMIN")
    /\ Pending(n)
    /\ Start(w, [do |-> "consume", invite |-> n])

DeclineInvite(w, n) ==
    /\ Pending(n)
    /\ Start(w, [do |-> "consume", invite |-> n])

\* ConsumeInvite stamps without looking at the other stamp.
CommitConsume(w) ==
    /\ Doing(w, "consume")
    /\ invites' = [invites EXCEPT ![op[w].invite].declined = TRUE]
    /\ UNCHANGED <<org, members, defs, assigned>>
    /\ Then(w, <<>>)

Acceptable(n) == Pending(n)

AcceptInvite(w, n) ==
    /\ org = "live" /\ Acceptable(n)
    /\ IsMember(invites[n].user) \/ RoomForMember
    /\ Start(w, [do |-> "accept", invite |-> n, known |-> IsMember(invites[n].user)])

\* A member who accepts only consumes the invite.
CommitAccept(w) ==
    /\ Doing(w, "accept")
    /\ LET n == op[w].invite
           u == invites[n].user IN
        /\ UNCHANGED <<org, defs, assigned>>
        /\ \/ /\ op[w].known
              /\ invites' = [invites EXCEPT ![n].accepted = TRUE]
              /\ UNCHANGED members /\ Then(w, <<>>)
           \/ /\ ~op[w].known /\ ~IsMember(u)
              /\ invites' = [invites EXCEPT ![n].accepted = TRUE]
              /\ members' = [members EXCEPT ![u] = invites[n].role]
              /\ Then(w, <<SyncRole(u, invites[n].role)>>)
           \/ /\ ~op[w].known /\ IsMember(u)
              /\ UNCHANGED <<invites, members>> /\ Then(w, <<>>)
=============================================================================
