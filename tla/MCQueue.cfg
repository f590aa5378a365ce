\* The queue: one webhook request at a time, two dispatch requests, the
\* operator's own trigger and mode switch, the breaker, database errors and
\* crashes. Without GitHub, which the queue does not depend on.
SPECIFICATION Spec
CONSTANTS
    Keys = {k1}
    k1 = k1
    Hour = 1
    Day = 1
    Backoff = 1
    Grace = 1
    Retention = 0
    Integrations = {"llm"}
    Faults = {"database", "crash"}
    MaxRunsPerHour = 2
    MaxUsdPerDay = 0
    Handlers = {h1}
    h1 = h1
    Dispatchers = {d1, d2}
    d1 = d1
    d2 = d2
    People = {"manual", "mode"}
    MaxBatch = 1
    MaxRuns = 2
    MaxTasks = 2
    MaxTime = 2
SYMMETRY Symmetry
INVARIANTS
    QueuedIsIdle
    OneQueuedPerKey
