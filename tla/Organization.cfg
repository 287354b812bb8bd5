CONSTANTS
    Users = {u1, u2, u3}
    CustomRoles = {c1}
    Grants <- MCGrants
    Workers = {w1, w2}
    Invites = {1, 2}
    NoUser = NoUser
    MemberLimits = {1, 2}
    MaxRequests = 5
    MaxRacing = 4
    MaxFaults = 1
    MaxCustomRoles = 1
SPECIFICATION Spec
INVARIANTS KeepsAnOwner OneFixedRole CasbinAgrees RepairHeals MembershipSound
SYMMETRY Symmetry
CHECK_DEADLOCK FALSE
