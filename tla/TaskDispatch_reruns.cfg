SPECIFICATION Spec
CONSTANTS
    Task = {t1}
    Thread = {d1, d2}
    User = {u1, u2}
    Worker = w
    NoTask = NoTask
    RunOutcomes = {"done"}
    MaxAttempts = 2
    MaxCrashes = 0
    MaxFaults = 0
    Requests = {"create", "rerun"}
    MayDelete = FALSE
CHECK_DEADLOCK FALSE
SYMMETRY Symmetry
INVARIANTS
    TypeOK
    SubmittedOnce
PROPERTIES
    KeepsTheBooks
