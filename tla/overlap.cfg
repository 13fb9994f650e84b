SPECIFICATION Spec
CONSTANTS
    t1 = t1
    t2 = t2
    null = null
    None = null
    Tasks = {t1}
    DispatchIds = {d1, d2}
    Agents = {a1}
    Browsers = {}
    Workers = {w1, w2}
    MaxTime = 0
    MaxFired = 1
    BatchSize = 1
    MaxCrashes = 0
    MaxLockDrops = 1
    Patches = {}
    PatchStates = {}
    Approvals = {FALSE}
    ExecutionType <- MCExternal
    SchedDates <- Now
    RemDates <- Never
    DueDates <- Never
SYMMETRY Interchangeable
INVARIANTS
    OneRowPerRequest
    OneLiveHolder
