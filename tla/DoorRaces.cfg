SPECIFICATION Spec
CONSTANTS
    Staff = {s1, s2}
    Editors = {}
    Attendees = {a1, a2}
    Events = {e1, e2}
    NoEvent = NoEvent
    KitIds = {k1}
    HandoutIds = {h1, h2}
    KitTotals = {1, 2}
    Keys = {i1}
    NoKey = NoKey
    NoKit = NoKit
    NoOne = NoOne
    KitLimits = {1, 2}
    MaxLog = 2
SYMMETRY Symmetry
INVARIANTS OneHandoutEach OneFreshScan HandoutsInScope
PROPERTIES HandoutsWithinStock
