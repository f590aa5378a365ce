\* One webhook request at a time, with the triage and investigation phases.
SPECIFICATION Spec
CONSTANTS
    Keys = {k1}
    k1 = k1
    Hour = 1
    Day = 1
    Backoff = 1
    Grace = 1
    Retention = 0
    Integrations = {"triage", "investigation", "llm", "github"}
    Faults = {}
    MaxRunsPerHour = 0
    MaxUsdPerDay = 0
    Handlers = {h1}
    h1 = h1
    Dispatchers = {d1}
    d1 = d1
    People = {}
    MaxBatch = 1
    MaxRuns = 2
    MaxTasks = 2
    MaxTime = 1
INVARIANT OneOpenRunPerKey
