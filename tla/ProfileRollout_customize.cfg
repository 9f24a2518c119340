SPECIFICATION Spec
CONSTANTS
    Conn = {c1}
    Val = {v1, v2}
    NoVal = NoVal
    Agent = {a1}
    MaxChanges = 2
    MaxFaults = 1

PROPERTIES CustomizeChangesNothing
CHECK_DEADLOCK FALSE
