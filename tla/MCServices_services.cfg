SPECIFICATION Spec
CONSTANTS
    Problem = {p1}
    Writer = {w1, w2}
    Server = {s1}
    QueueSize = 1
    Budget = 2
    DedupWindow = 1
    Retention = 1
    Cap = 1
    GroupLimit = 2
    MaxSeen = 3
    MaxClock = 2
    Owner = {o1}
    Viewer = {v1, v2, v3}
    Insiders = {v2, v3}
    Refreshes = {v1, v3}
    Files = {v1}
    AnyoneEnabled = TRUE
    Session <- MCSession
    Nobody = nobody
    TTL = 1
    MaxChanges = 1
    Patience = 1
    MaxTokens = 1
    MaxInstant = 2
    Chat = {r1}
    Visible = TRUE
    Enabled = {"bridge"}
    Models = {"m1"}
    Saved = "m1"
    MaxEvents = 3
    Handler = {h1, h2}
    Title = {"", "t"}
    Setting = {"", "s"}
    MaxWrites = 3
    Rules <- MCRules
    Poll = {"worker", "run"}
    Beside = {"timer"}
    PageSize = 2
    Interval = 2
    Created = 2
    MaxActs = 2
    MaxTicks = 4
    Schedules <- MCSchedules
    Connections <- MCConnections
    Posts <- MCPosts
    Edits <- MCEdits
    Tab = {t1, t2}
    MaxTime = 2
    MaxRequests = 3
    Person = {"boss", "ann"}
    Bootstrap = "boss"
    HasPassword = TRUE
    Listed = {"ann"}
    Clerk = {c1, c2}
    Visitor = {i1, i2}
    CheckInterval = 0
    Lifetime = 2
    MaxDeeds = 2
    MaxMoment = 2
INVARIANTS ErrorsAddUp AnswersAreRecent RowTellsRun RowKept WorkIsWhatWasAsked RuleStaysRunnable MembersHold
PROPERTY ViewersAnswered
CHECK_DEADLOCK FALSE
