\* Two deliveries of the same alert at once, in manual mode or autopilot.
SPECIFICATION Spec
CONSTANTS
    Keys = {k1}
    k1 = k1
    Hour = 1
    Day = 1
    Backoff = 1
    Grace = 1
    Retention = 0
    Integrations = {"llm", "github"}
    Faults = {}
    MaxRunsPerHour = 0
    MaxUsdPerDay = 0
    Handlers = {h1, h2}
    h1 = h1
    h2 = h2
    Dispatchers = {d1}
    d1 = d1
    People = {}
    MaxBatch = 1
    MaxRuns = 2
    MaxTasks = 2
    MaxTime = 1
INVARIANT OneOpenRunPerKey
