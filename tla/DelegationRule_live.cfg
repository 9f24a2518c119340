\* One item, the worker, one manual run, a dispatcher thread; all may fail once.
CONSTANTS
    Item = {i1}
    User = {u1}
    Reader = {r1}
    Worker = worker
    NoItem = noItem
    ReplyLimit = 1
    MaxEdits = 1
    MaxFaults = 1
    MaxCrashes = 1
SPECIFICATION FairSpec
CHECK_DEADLOCK FALSE
INVARIANT TypeOK
INVARIANT OneTask
PROPERTY KeepsTheEvents
PROPERTY DueIsRun
PROPERTY FoundIsTasked
PROPERTY DoneIsAnswered
