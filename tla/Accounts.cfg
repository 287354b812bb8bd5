CONSTANTS
    Requests = {r1, r2}
    Users = {u1}
    Passwords = {p1, p2}
    NoPassword = NoPassword
    SessionIds = {s1}
    TokenIds = {k1, k2}
    ResetIds = {f1}
    MaxIssues = 2
    NoUser = NoUser
    NoSession = NoSession
    OTPMaxAttempts = 1
SYMMETRY Symmetry
SPECIFICATION Spec
INVARIANTS ResetEndsSessions GuessesBounded UnverifiedHoldsMail
PROPERTIES RevocationIsFinal
CHECK_DEADLOCK FALSE
