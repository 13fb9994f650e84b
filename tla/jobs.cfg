SPECIFICATION Spec
CONSTANTS
    a = a
    b = b
    None = None
    Jobs = {b}
    Nodes = {n1, n2}
    JobType <- MCUpload
    Priority <- MCPriority
    Shards = {"normal"}
    Shard <- MCShard
    Budget = 1
    Slots = 2
    MaxAttempts = 1
    Deletable = {b}
    Restarts = {n1, n2}
    Counted = {b}
    MaxCrashes = 2
    MaxSwitches = 2
INVARIANTS
    TypeOK
    OneLiveRunner
    RunsAreAskedFor
