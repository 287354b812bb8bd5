CONSTANTS
    Orgs = {o1}
    Subs = {s1, s2}
    Workers = {w1, w2}
    Alone = w1
    NoSub = NoSub
    GraceDays = 2
    MaxEvents = 6
    MaxRacing = 4
    RacingSubs = {s1}
    MaxLost = 1
SPECIFICATION Spec
INVARIANTS PastDueHasDeadline PaidTierWasBought SettledAgrees
PROPERTIES GraceNeverExtended PastDueEnds CanceledEndsFree
CHECK_DEADLOCK FALSE
