\* The evidence about an alert of every kind, in a cluster where the delivery
\* is suspended at one place or none, with failing requests, a cluster that
\* changes meanwhile, two collections at once and an upgrade of Flux.
SPECIFICATION Spec
CONSTANTS
    Collections = {"one", "two"}
    Worlds <- MCWorlds
    Specs <- MCSpecs
    SpecShows <- KeptOfSpecs
    SpecHolds <- AllOfSpecs
    Illegal = {"../x"}
    MaxPods = 2
    ScanLimit = 3
    MaxEvents = 2
    MaxSources = 2
    MaxDepth = 4
    MaxHops = 2
    ScopeLabels = {"namespace"}
    Services = {"api"}
    Ignored = {"Watchdog"}
    Answers <- MCAnswers
    Ttl = 1
    Failures = {"request", "garbled"}
    MaxFailures = 1
CHECK_DEADLOCK FALSE
INVARIANTS
    EvidenceTypeOK
    ReadsAreGranted
    HeldDeliveryStopsTheRun
    SilenceIsComplete
    TheSickPodIsShown
    OwnAlertOnly
    StaleNoLongerThanTtl
    EventsBelong
    SecretsStayOut
    RoundTripsAreBounded
