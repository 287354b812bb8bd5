CONSTANTS
    Ids = {e1, e2}
    Titles = {t1, t2}
    Slugs = {1, 2}
    Workers = {w1, w2}
    EventLimits = {1, 2}
    MaxRequests = 5
    MaxRacing = 4
    MaxUploads = 2
    MaxFaults = 1
SPECIFICATION Spec
INVARIANTS CacheFresh FilesSound NoLeakedFiles
PROPERTIES CancelledIsFinal StalePayloadEnds
CHECK_DEADLOCK FALSE
