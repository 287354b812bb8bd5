CONSTANTS
    Workers = {w1, w2}
    Types = {t1}
    OrderIds = {o1, o2}
    Keys = {}
    NoKey = NoKey
    NoTypeId = NoTypeId
    Totals = {1}
    Prices = {FALSE}
    MaxPerOrder = 1
    Capacities = {1, 2}
    RosterRooms = {1}
    SweepBatch = 1
    MaxFaults = 0
SYMMETRY Symmetry
SPECIFICATION Spec
INVARIANT NoOversell
CHECK_DEADLOCK FALSE
