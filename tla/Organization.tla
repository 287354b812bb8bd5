---------------------------- MODULE Organization ----------------------------
(***************************************************************************)
(* Custom roles, the Casbin writes that follow a commit, the platform      *)
(* admin's repairs, and the specification of one organization.             *)
(***************************************************************************)
EXTENDS Membership

CONSTANT MaxCustomRoles     \* definitions an organization may have

Defined == {c \in CustomRoles : defs[c] # {}}

(***************************************************************************)
(* Custom roles                                                            *)
(***************************************************************************)
\* normalizeRolePermissions rejects the empty set.
DefineRole(w, g, c, perms) ==
    /\ Admitted(g, "role", "create") /\ RequireRole(g, "OWNER")
    /\ perms # {}
    /\ c \notin Defined /\ Cardinality(Defined) < MaxCustomRoles
    /\ Start(w, [do |-> "defineRole", role |-> c, perms |-> perms])

\* The name is unique: a second insert fails.
CommitDefineRole(w) ==
    /\ Doing(w, "defineRole")
    /\ UNCHANGED <<org, members, invites, assigned>>
    /\ LET c == op[w].role IN
        \/ /\ c \notin Defined
           /\ defs' = [defs EXCEPT ![c] = op[w].perms]
           /\ Then(w, <<Ensure(c, op[w].perms)>>)
        \/ c \in Defined /\ UNCHANGED defs /\ Then(w, <<>>)

UpdateRole(w, g, c, perms) ==
    /\ Admitted(g, "role", "update") /\ RequireRole(g, "OWNER")
    /\ perms # {} /\ c \in Defined
    /\ Start(w, [do |-> "updateCustom", role |-> c, perms |-> perms])

\* Save inserts the row again when it is gone.
CommitUpdateRole(w) ==
    /\ Doing(w, "updateCustom")
    /\ defs' = [defs EXCEPT ![op[w].role] = op[w].perms]
    /\ UNCHANGED <<org, members, invites, assigned>>
    /\ Then(w, <<Drop(op[w].role), Ensure(op[w].role, op[w].perms)>>)

\* Mutant: a role is deleted under its holders.
DeleteAssigned(w, g, c) ==
    /\ Admitted(g, "role", "delete") /\ RequireRole(g, "OWNER")
    /\ c \in Defined
    /\ Start(w, [do |-> "deleteRole", role |-> c])

DeleteRole(w, g, c) ==
    /\ Admitted(g, "role", "delete") /\ RequireRole(g, "OWNER")
    /\ c \in Defined /\ Holders(c) = {}
    /\ Start(w, [do |-> "deleteRole", role |-> c])

CommitDeleteRole(w) ==
    /\ Doing(w, "deleteRole")
    /\ defs' = [defs EXCEPT ![op[w].role] = {}]
    /\ UNCHANGED <<org, members, invites, assigned>>
    /\ Then(w, <<Drop(op[w].role)>>)

AssignRole(w, g, t, c) ==
    /\ Admitted(g, "role", "update") /\ RequireRole(g, "OWNER")
    /\ c \in Defined /\ IsMember(t)
    /\ Start(w, [do |-> "assign", user |-> t, role |-> c])

\* The insert of a role already held is swallowed; the transaction it ran in
\* is aborted, and whether its commit reports that is the driver's choice.
CommitAssignRole(w) ==
    /\ Doing(w, "assign")
    /\ LET row == <<op[w].user, op[w].role>> IN
        /\ assigned' = assigned \cup {row}
        /\ UNCHANGED <<org, members, invites, defs>>
        /\ \/ Then(w, <<SyncCustom(op[w].user, op[w].role, TRUE)>>)
           \/ row \in assigned /\ Then(w, <<>>)

UnassignRole(w, g, t, c) ==
    /\ Admitted(g, "role", "update") /\ RequireRole(g, "OWNER")
    /\ c \in Defined
    /\ Start(w, [do |-> "unassign", user |-> t, role |-> c])

CommitUnassignRole(w) ==
    /\ Doing(w, "unassign")
    /\ assigned' = assigned \ {<<op[w].user, op[w].role>>}
    /\ UNCHANGED <<org, members, invites, defs>>
    /\ Then(w, <<SyncCustom(op[w].user, op[w].role, FALSE)>>)

(***************************************************************************)
(* The platform admin's repairs                                            *)
(***************************************************************************)
\* Mutant: only the organizations the user belongs to are visited.
RepairMembersOnly(u) ==
    IF IsMember(u)
    THEN LET customs == SomeSeq(ListUserCustomRoles(u)) IN
         <<SyncRole(u, members[u])>> \o [i \in DOMAIN customs |-> SyncCustom(u, customs[i], TRUE)]
    ELSE <<>>

\* SyncUserPolicies: fixed row and custom rows from the tables; without a
\* membership, every grouping the user has goes.
RepairOfUser(u) ==
    IF IsMember(u)
    THEN LET customs == SomeSeq(ListUserCustomRoles(u)) IN
         <<SyncRole(u, members[u])>> \o [i \in DOMAIN customs |-> SyncCustom(u, customs[i], TRUE)]
    ELSE LET stale == SomeSeq({c \in CustomRoles : <<u, c>> \in groups}) IN
         [i \in DOMAIN stale |-> SyncCustom(u, stale[i], FALSE)]
         \o (IF \E r \in FixedRoles : <<u, r>> \in groups THEN <<SyncRole(u, "none")>> ELSE <<>>)

SyncUserPolicies(w, u) ==
    /\ Start(w, [do |-> "repair", user |-> u, since |-> faults, todo |-> RepairOfUser(u)])

\* ReseedOrgPolicies: the fixed roles' rows, the definitions' rows, no orphan.
ReseedOrgPolicies(w) ==
    /\ org = "live"
    /\ LET known == SomeSeq(Defined) IN
        Start(w, [do |-> "repair", user |-> NoUser, since |-> faults,
                  todo |-> <<[k |-> "seed"]>>
                           \o [i \in DOMAIN known |-> Ensure(known[i], defs[known[i]])]
                           \o <<[k |-> "orphans", defined |-> Defined]>>])

(***************************************************************************)
(* Casbin writes                                                           *)
(***************************************************************************)
NextOp(w) == Head(op[w].todo)

Writing(w) == op[w].do \in {"sync", "repair"} /\ op[w].todo # <<>>

\* Between sweep and add the writer holds LockWrite.
Locked(w) == \E v \in Workers \ {w} : Writing(v) /\ NextOp(v).k = "add"

\* The write is done, todo remains.
Rest(w, todo) ==
    /\ Hold(w, IF todo = <<>> /\ Doing(w, "sync") THEN [do |-> "idle"] ELSE [op[w] EXCEPT !.todo = todo])
    /\ UNCHANGED <<tables, served, faults, serial>>

SyncMembership(w) ==
    /\ Writing(w) /\ ~Locked(w)
    /\ \/ /\ NextOp(w).k = "role"
          /\ SweepFixedRoles(NextOp(w).user)
          /\ Rest(w, IF NextOp(w).role = "none" THEN Tail(op[w].todo)
                     ELSE <<[NextOp(w) EXCEPT !.k = "add"]>> \o Tail(op[w].todo))
       \/ /\ NextOp(w).k = "add"
          /\ AddGrouping(NextOp(w).user, NextOp(w).role)
          /\ Rest(w, Tail(op[w].todo))

SyncOthers(w) ==
    /\ Writing(w) /\ ~Locked(w)
    /\ LET x == NextOp(w) IN
        \/ x.k = "custom" /\ SyncCustomGrouping(x.user, x.role, x.grant)
        \/ x.k = "ensure" /\ EnsureCustomRolePolicies(x.role, x.perms)
        \/ x.k = "drop" /\ RemoveCustomRolePolicies(x.role)
        \/ x.k = "orphans" /\ RemoveOrphans(x.defined)
        \/ x.k = "seed" /\ SeedOrgPolicies
        \/ x.k = "unseed" /\ RemoveOrgPolicies
    /\ Rest(w, Tail(op[w].todo))

\* A write fails and the request goes on to the next (a repair gives up), or
\* the process dies with all of them.
SyncFails(w) ==
    /\ Writing(w)
    /\ faults < MaxFaults /\ faults' = faults + 1
    /\ \/ op' = [op EXCEPT ![w] = [do |-> "idle"]]
       \/ /\ Doing(w, "sync") /\ Tail(op[w].todo) # <<>>
          /\ op' = [op EXCEPT ![w].todo = Tail(@)]
    /\ UNCHANGED <<tables, groups, policies, served, serial>>

RepairDone(w) ==
    /\ Doing(w, "repair") /\ op[w].todo = <<>>
    /\ Hold(w, [do |-> "idle"])
    /\ UNCHANGED <<tables, groups, policies, served, faults, serial>>

-----------------------------------------------------------------------------
Init ==
    /\ org = "none"
    /\ members = [u \in Users |-> "none"]
    /\ invites = [n \in Invites |-> NoInvite]
    /\ defs = [c \in CustomRoles |-> {}]
    /\ assigned = {}
    /\ groups = {}
    /\ policies = [r \in AllRoles |-> {}]
    /\ op = [w \in Workers |-> [do |-> "idle"]]
    /\ served = 0 /\ faults = 0
    /\ serial \in BOOLEAN

Begin(w) ==
    \/ \E u \in Users : CreateOrg(w, u) \/ DeleteOrg(w, u) \/ SyncUserPolicies(w, u)
    \/ \E g, t \in Users, r \in FixedRoles :
        AddMember(w, g, t, r) \/ UpdateMemberRole(w, g, t, r) \/ InviteMember(w, g, t, r)
    \/ \E g, t \in Users : RemoveMember(w, g, t)
    \/ \E g \in Users, n \in Invites : RevokeInvite(w, g, n)
    \/ \E n \in Invites : DeclineInvite(w, n) \/ AcceptInvite(w, n)
    \/ \E g \in Users, c \in CustomRoles, perms \in SUBSET Grants :
        DefineRole(w, g, c, perms) \/ UpdateRole(w, g, c, perms)
    \/ \E g \in Users, c \in CustomRoles : DeleteRole(w, g, c)
    \/ \E g, t \in Users, c \in CustomRoles : AssignRole(w, g, t, c) \/ UnassignRole(w, g, t, c)
    \/ ReseedOrgPolicies(w)

Commit(w) ==
    \/ CommitCreateOrg(w) \/ CommitDeleteOrg(w)
    \/ CommitAddMember(w) \/ CommitUpdateMemberRole(w) \/ CommitRemoveMember(w)
    \/ CommitInvite(w) \/ CommitConsume(w) \/ CommitAccept(w)
    \/ CommitDefineRole(w) \/ CommitUpdateRole(w) \/ CommitDeleteRole(w)
    \/ CommitAssignRole(w) \/ CommitUnassignRole(w) \/ RepairDone(w)

Sync(w) == SyncMembership(w) \/ SyncOthers(w)

Next ==
    \/ \E w \in Workers : Begin(w) \/ Commit(w) \/ Sync(w) \/ SyncFails(w)
    \/ \E n \in Invites : InviteLapses(n)

Spec == Init /\ [][Next]_vars

-----------------------------------------------------------------------------
\* Tables, Casbin rows and pending requests keep their shape.
TypeOK ==
    /\ org \in {"none", "live", "deleted"}
    /\ members \in [Users -> Roles]
    /\ invites \in [Invites -> Invite]
    /\ defs \in [CustomRoles -> SUBSET Grants]
    /\ assigned \subseteq Users \X CustomRoles
    /\ groups \subseteq Users \X AllRoles
    /\ policies \in [AllRoles -> SUBSET Permissions]
    /\ \A w \in Workers : Writing(w) => \A i \in DOMAIN op[w].todo : op[w].todo[i] \in SyncOps
    /\ served \in 0..(MaxRequests + MaxRacing) /\ faults \in 0..MaxFaults

Quiet == \A w \in Workers : Idle(w)

\* guardLastOwner: one request at a time, a live organization always has an
\* owner, whoever demotes, removes or leaves whom.
KeepsAnOwner == (serial /\ org = "live") => CountOwners > 0

\* However syncs overlap, fail or are repaired, nobody holds two fixed roles
\* at once: a demotion never leaves the stronger row beside the weaker.
OneFixedRole ==
    \A u \in Users : \A r, q \in FixedRoles :
        (<<u, r>> \in groups /\ <<u, q>> \in groups) => r = q

\* What the tables say user u may do.
Entitled(u, p) ==
    \/ IsMember(u) /\ (p \in Seeded(members[u]) \/ Wildcard \in Seeded(members[u]))
    \/ \E c \in CustomRoles : <<u, c>> \in assigned /\ p \in defs[c]

\* Served one at a time and with no Casbin write lost, between requests
\* Casbin allows exactly what memberships, assignments and definitions say:
\* thirteen kinds of commit and the two repairs keep two stores in step.
CasbinAgrees ==
    (serial /\ faults = 0 /\ Quiet /\ org = "live") =>
        \A u \in Users, p \in Permissions \ {Wildcard} : Enforce(u, p) <=> Entitled(u, p)

\* Whatever writes were lost before, the admin's SyncUserPolicies, when all
\* its own writes arrive, leaves the user the one fixed role of the tables
\* and every custom role they assign; without a membership it leaves nothing.
RepairHeals ==
    \A w \in Workers :
        (serial /\ Doing(w, "repair") /\ op[w].user # NoUser /\ op[w].todo = <<>> /\ op[w].since = faults) =>
            LET u == op[w].user
                held == {r \in AllRoles : <<u, r>> \in groups} IN
            IF IsMember(u)
            THEN held \cap FixedRoles = {members[u]} /\ ListUserCustomRoles(u) \subseteq held
            ELSE held = {}

\* A custom role is held by members only and has a definition: removals take
\* the role along and a role cannot be deleted under its holders.
HeldRolesExist ==
    serial => \A u \in Users, c \in CustomRoles :
        <<u, c>> \in assigned => IsMember(u) /\ c \in Defined

\* "Supersedes pending invites": an address has one open invite, so revoking
\* the one the list shows closes the door.
OnePendingInvite ==
    serial => \A u \in Users : Cardinality({n \in Invites : invites[n].user = u /\ Pending(n)}) <= 1

\* "Accepted invites cannot be declined", nor declined, revoked or superseded
\* ones accepted.
InviteEndsOnce ==
    serial => \A n \in Invites : ~(invites[n].accepted /\ invites[n].declined)

\* Tables and pending requests keep their shape, and, one request at a time,
\* members, invites and custom roles agree, whichever of the handlers ran before.
MembershipSound == TypeOK /\ HeldRolesExist /\ OnePendingInvite /\ InviteEndsOnce
=============================================================================
