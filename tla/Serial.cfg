CONSTANTS
    Workers = {w1}
    Types = {t1, t2}
    OrderIds = {o1, o2}
    Keys = {}
    NoKey = NoKey
    NoTypeId = NoTypeId
    Totals = {1, 2}
    Prices = {TRUE, FALSE}
    MaxPerOrder = 2
    Capacities = {1, 2}
    RosterRooms = {1, 2}
    SweepBatch = 1
    MaxFaults = 0
SYMMETRY Symmetry
SPECIFICATION Spec
INVARIANTS StockAccounted
PROPERTIES ImplementsLedger DeadStaysDead
CHECK_DEADLOCK FALSE
