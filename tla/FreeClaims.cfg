CONSTANTS
    Workers = {w1, w2}
    Types = {t1}
    OrderIds = {o1, o2}
    Keys = {k1}
    NoKey = NoKey
    NoTypeId = NoTypeId
    Totals = {1, 2}
    Prices = {TRUE}
    MaxPerOrder = 2
    Capacities = {1, 2}
    RosterRooms = {1, 2}
    SweepBatch = 2
    MaxFaults = 0
SYMMETRY Symmetry
SPECIFICATION Spec
INVARIANTS CheckoutInv
CHECK_DEADLOCK FALSE
PROPERTIES ClaimNeverRewritten
