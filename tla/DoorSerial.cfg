SPECIFICATION Spec
CONSTANTS
    Staff = {w}
    Editors = {w}
    Attendees = {a1, a2}
    Events = {e1}
    NoEvent = NoEvent
    KitIds = {k1, k2}
    HandoutIds = {h1, h2}
    KitTotals = {1}
    Keys = {i1}
    NoKey = NoKey
    NoKit = NoKit
    NoOne = NoOne
    KitLimits = {1, 2}
    MaxLog = 3
SYMMETRY Symmetry
INVARIANTS HoldersAreInside DoorAgreesWithLog
