SPECIFICATION FairSpec
CHECK_DEADLOCK FALSE
CONSTANTS
    None = None
    Runs = {r1}
    Plan <- MCPlan
    Rank <- MCRank
    Rules <- MCRules
    Nodes = {n1, n2}
    Handlers = {h1}
    Deciders = {h1}
    Requests = {q1, q2}
    MaxSwitches = 1
    MaxFailures = 1
INVARIANTS
    TypeOK
    ApprovedBeforeExecution
    InlineIsNotRaced
    OneStepper
    JobsFollowRuns
PROPERTIES
    ImplementsRunLifecycle
    StagedRunsAreDecided
