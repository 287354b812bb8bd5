--------------------------------- MODULE Iam ---------------------------------
(***************************************************************************)
(* Casbin's rows for one organization: groupings (user to role) and        *)
(* policies (role to permissions), the permission matrices seeded for it,  *)
(* and what the matcher of model.conf allows.                              *)
(*                                                                         *)
(* The rows are derived from the tables of the organization domain and are *)
(* written after its transactions, one change at a time under LockWrite.   *)
(***************************************************************************)
EXTENDS Integers, FiniteSets, Sequences

CONSTANTS
    Users,          \* registered users
    CustomRoles,    \* names of custom roles, never a fixed or reserved name
    Grants          \* permissions that custom roles are made of

VARIABLES
    groups,     \* g rows: <<user, role>>
    policies    \* p rows: the permissions of each role

FixedRoles == {"OWNER", "ADMIN", "MEMBER"}
AllRoles == FixedRoles \cup CustomRoles

Of(obj, acts) == {obj} \X acts

AdminPermissions ==
    Of("org", {"read", "update"})
    \cup Of("member", {"read", "create", "delete"})
    \cup Of("invite", {"read", "create", "delete"})
    \cup Of("event", {"read", "create", "update", "delete", "publish"})
    \cup Of("ticket", {"read", "create", "update", "delete"})
    \cup Of("attendee", {"read", "create", "update"})
    \cup Of("checkin", {"read", "create", "update"})
    \cup Of("kit", {"read", "create", "update", "delete"})
    \cup Of("audit", {"read"}) \cup Of("role", {"read"})
    \cup Of("apikey", {"read", "create", "delete"})

\* Mutant: members see the events, and not their tickets.
NoTickets == {<<"org", "read">>, <<"member", "read">>, <<"event", "read">>}

MemberPermissions == {<<"org", "read">>, <<"member", "read">>, <<"event", "read">>, <<"ticket", "read">>}

\* What a custom role may grant.
RoleRegistry == AdminPermissions \cup Of("role", {"create", "update", "delete"})

Wildcard == <<"*", "*">>

\* Permissions the routes ask for or a role may hold.
Permissions ==
    RoleRegistry \cup {Wildcard, <<"org", "delete">>, <<"member", "update">>}

ASSUME IamAssumption ==
    /\ CustomRoles \cap FixedRoles = {}
    /\ Grants \subseteq RoleRegistry
    /\ IsFiniteSet(Users) /\ IsFiniteSet(CustomRoles)

Seeded(r) ==
    CASE r = "OWNER" -> {Wildcard}
      [] r = "ADMIN" -> AdminPermissions
      [] r = "MEMBER" -> MemberPermissions
      [] OTHER -> {}

\* The matcher, within the organization.
Enforce(u, p) ==
    \E r \in AllRoles : <<u, r>> \in groups /\ (p \in policies[r] \/ Wildcard \in policies[r])

(***************************************************************************)
(* Writes                                                                  *)
(***************************************************************************)
\* Adds the missing rows, leaves the others alone.
SeedOrgPolicies ==
    /\ policies' = [r \in AllRoles |-> policies[r] \cup Seeded(r)]
    /\ UNCHANGED groups

RemoveOrgPolicies ==
    /\ policies' = [r \in AllRoles |-> {}]
    /\ groups' = {}

\* Mutant: a role change adds its row to the ones there are.
NoSweep(u) == UNCHANGED <<groups, policies>>

\* SyncMembership sweeps the user's fixed rows ...
SweepFixedRoles(u) ==
    /\ groups' = groups \ ({u} \X FixedRoles)
    /\ UNCHANGED policies

\* ... and adds the one of the new role.
AddGrouping(u, r) ==
    /\ groups' = groups \cup {<<u, r>>}
    /\ UNCHANGED policies

SyncCustomGrouping(u, c, grant) ==
    /\ groups' = IF grant THEN groups \cup {<<u, c>>} ELSE groups \ {<<u, c>>}
    /\ UNCHANGED policies

EnsureCustomRolePolicies(c, perms) ==
    /\ policies' = [policies EXCEPT ![c] = @ \cup perms]
    /\ UNCHANGED groups

\* Mutant: an update leaves the role's old rows.
KeepCustomRolePolicies(c) == UNCHANGED <<groups, policies>>

RemoveCustomRolePolicies(c) ==
    /\ policies' = [policies EXCEPT ![c] = {}]
    /\ UNCHANGED groups

\* The custom rows of roles that have no definition.
RemoveOrphans(defined) ==
    /\ policies' = [r \in AllRoles |-> IF r \in FixedRoles \cup defined THEN policies[r] ELSE {}]
    /\ UNCHANGED groups
=============================================================================
