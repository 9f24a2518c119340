CONSTANTS
    User = {u1}
    Sidebar = sidebar
    Worker = worker
    Operations = {"create", "delete", "refresh"}
    MaxFaults = 1
    MaxCrashes = 0
SPECIFICATION DeletingSpec
PROPERTY DeleteRemoves
CHECK_DEADLOCK FALSE
