\* The cost breaker: tasks of two alerts race for the ceiling while the clock
\* moves on and the pruner deletes; the pipeline stops after the suppression
\* checks (no model configured).
SPECIFICATION Spec
CONSTANTS
    Keys = {k1, k2}
    k1 = k1
    k2 = k2
    Hour = 1
    Day = 1
    Backoff = 0
    Grace = 0
    Retention = 1
    Integrations = {}
    Faults = {"crash"}
    MaxRunsPerHour = 2
    MaxUsdPerDay = 0
    Handlers = {h1}
    h1 = h1
    Dispatchers = {d1}
    d1 = d1
    People = {}
    MaxBatch = 1
    MaxRuns = 3
    MaxTasks = 3
    MaxTime = 3
INVARIANTS
    SpendersWithinCeiling
