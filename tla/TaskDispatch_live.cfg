SPECIFICATION FairSpec
CONSTANTS
    Task = {t1}
    Thread = {d1}
    User = {u1}
    Worker = w
    NoTask = NoTask
    RunOutcomes = {"done"}
    MaxAttempts = 1
    MaxCrashes = 1
    MaxFaults = 1
    Requests = {"create", "dispatch", "cancel"}
    MayDelete = TRUE
CHECK_DEADLOCK FALSE
INVARIANTS
    WithdrawnNeverSubmitted
PROPERTIES
    QueuedIsServed
    ActiveSettles
