CONSTANTS
    Workers = {w1}
    Types = {t1}
    OrderIds = {o1, o2}
    Keys = {}
    NoKey = NoKey
    NoTypeId = NoTypeId
    Totals = {1, 2}
    Prices = {FALSE}
    MaxPerOrder = 1
    Capacities = {1, 2}
    RosterRooms = {1, 2}
    SweepBatch = 1
    MaxFaults = 1
SPECIFICATION FairSpec
PROPERTY HoldsEnd
CHECK_DEADLOCK FALSE
