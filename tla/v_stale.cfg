SPECIFICATION FairSpec
CONSTANTS
    a = a
    b = b
    None = None
    Jobs = {a, b}
    Nodes = {n1, n2}
    JobType <- MCMixed
    Priority <- MCPriority
    Shards = {"high", "normal"}
    Shard <- MCShard
    Budget = 1
    Slots = 1
    MaxAttempts = 2
    Deletable = {}
    Restarts = {}
    Counted = {}
    MaxCrashes = 1
    MaxSwitches = 0
PROPERTIES
    CrashedJobsAreRequeued
