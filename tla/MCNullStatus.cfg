\* The poller as the code has it: nobody writes pr_status but the poller.
SPECIFICATION FairSpec
CONSTANTS
    Keys = {k1}
    k1 = k1
    Hour = 1
    Day = 1
    Backoff = 1
    Grace = 1
    Retention = 0
    Integrations = {"llm", "github"}
    Faults = {}
    MaxRunsPerHour = 0
    MaxUsdPerDay = 0
    Handlers = {h1}
    h1 = h1
    Dispatchers = {d1}
    d1 = d1
    People = {}
    MaxBatch = 1
    MaxRuns = 1
    MaxTasks = 1
    MaxTime = 1
PROPERTY ClosedPrIsRecorded
