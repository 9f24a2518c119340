SPECIFICATION FairSpec
CONSTANTS
    User = {u1}
    Sidebar = sidebar
    Worker = worker
    Operations = {"create", "start", "stop", "refresh", "idle"}
    MaxFaults = 1
    MaxCrashes = 0
PROPERTIES
    RowFollowsCluster
    IdleIsStopped
