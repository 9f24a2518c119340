\* A run that began before the deletion ends after it.
CONSTANTS
    Item = {i1}
    User = {u1}
    Reader = {r1}
    Worker = worker
    NoItem = noItem
    ReplyLimit = 1
    MaxEdits = 1
    MaxFaults = 0
    MaxCrashes = 0
SPECIFICATION Spec
CHECK_DEADLOCK FALSE
PROPERTY DeletedStays
