SPECIFICATION FairSpec
CONSTANTS
    t1 = t1
    t2 = t2
    null = null
    None = null
    Tasks = {t1, t2}
    DispatchIds = {d1}
    Agents = {}
    Browsers = {}
    Workers = {w1, w2}
    MaxTime = 1
    MaxFired = 4
    BatchSize = 1
    MaxCrashes = 1
    MaxLockDrops = 0
    Patches = {}
    PatchStates = {}
    Approvals = {TRUE, FALSE}
    ExecutionType <- MCInternal
    SchedDates <- NowOrLater
    RemDates <- NowOrLater
    DueDates <- Never
INVARIANTS
    OncePerDate
PROPERTIES
    ClaimsEnd
    RemindersAreDelivered
    SchedulesAreAttempted
