SPECIFICATION Spec
CONSTANTS
    User = {u1, u2}
    Sidebar = sidebar
    Worker = worker
    Operations = {"create", "start", "restart", "delete", "update", "rollout", "refresh"}
    MaxFaults = 1
    MaxCrashes = 1
CHECK_DEADLOCK FALSE
SYMMETRY Symmetry
INVARIANTS
    TypeOK
    NoOrphan
