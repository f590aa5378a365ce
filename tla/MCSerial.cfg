\* One webhook request at a time, no triage or investigation, no operator's
\* own trigger; the process may crash at any point.
SPECIFICATION Spec
CONSTANTS
    Keys = {k1}
    k1 = k1
    Hour = 1
    Day = 2
    Backoff = 1
    Grace = 1
    Retention = 0
    Integrations = {"llm", "github"}
    Faults = {"crash", "outage"}
    MaxRunsPerHour = 3
    MaxUsdPerDay = 0
    Handlers = {h1}
    h1 = h1
    Dispatchers = {d1}
    d1 = d1
    People = {"mode", "backfill"}
    MaxBatch = 2
    MaxRuns = 2
    MaxTasks = 3
    MaxTime = 3
INVARIANTS
    AtMostOneOpenPr
    OpenPrSuppresses
PROPERTIES
    ImplementsLifecycle
