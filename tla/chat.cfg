SPECIFICATION Spec
CONSTANTS
    None = None
    Turns = {m1, m2}
    Runs = {r1, r2}
    Nodes = {n1, n2}
    MaxFaults = 1
INVARIANTS
    TypeOK
    InterruptedWasStopped
    RegisteredIsInFlight
    PlaceholderHasRun
PROPERTIES
    RowsSettle
CHECK_DEADLOCK FALSE
