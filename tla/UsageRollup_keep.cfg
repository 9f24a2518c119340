SPECIFICATION FairSpec
CONSTANTS
    Run = {r1, r2}
    Panel = {p1}
    Worker = worker
    Window = 2
    Retention = 2
    LastDay = 4
    MaxAborts = 1
INVARIANTS
    TypeOK
    SumsSurvive
PROPERTIES
    EndedIsCounted
