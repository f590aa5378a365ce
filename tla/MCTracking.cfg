\* Pull requests and the poller under every kind of failure, with both models
\* on, and pull requests that may be reopened.
SPECIFICATION Spec
CONSTANTS
    Keys = {k1}
    k1 = k1
    Hour = 1
    Day = 1
    Backoff = 1
    Grace = 1
    Retention = 0
    Integrations = {"triage", "investigation", "llm", "github"}
    Faults = {"database", "outage", "reply", "crash"}
    MaxRunsPerHour = 0
    MaxUsdPerDay = 1
    Handlers = {h1}
    h1 = h1
    Dispatchers = {d1}
    d1 = d1
    People = {"reopen", "backfill"}
    MaxBatch = 1
    MaxRuns = 2
    MaxTasks = 2
    MaxTime = 2
INVARIANTS
    TypeOK
    RecordedMergeIsReal
