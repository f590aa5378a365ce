\* Progress when nothing fails: every integration on, the operator dispatches
\* what is parked, people close and merge pull requests.
SPECIFICATION FairSpec
CONSTANTS
    Keys = {k1}
    k1 = k1
    Hour = 1
    Day = 1
    Backoff = 0
    Grace = 0
    Retention = 0
    Integrations = {"triage", "investigation", "llm", "github"}
    Faults = {}
    MaxRunsPerHour = 2
    MaxUsdPerDay = 0
    Handlers = {h1}
    h1 = h1
    Dispatchers = {d1}
    d1 = d1
    People = {"backfill"}
    MaxBatch = 1
    MaxRuns = 2
    MaxTasks = 2
    MaxTime = 1
PROPERTIES
    EveryRunSettles
    TrackedPrIsRecorded
