SPECIFICATION Spec
CONSTANTS
    Processes = {"agent", "dashboard", "evaluation"}
    Migrating = {"agent", "evaluation"}
    Lasting = {"agent", "dashboard"}
    Newest = 2
    OwnTable = {2}
    MaxCrashes = 1
    Tabs = {"one", "two"}
    Worlds <- AllWorlds
    Licenses <- AllLicenses
    Packs <- AllPacks
INVARIANTS
    ConsoleTypeOK
    VersionIsTrue
    UpMeansMigrated
    LapsedKeyIsNotUsed
    ProxyIsLetIn
PROPERTIES
    EveryPodServes
    TripHolds
    LicenseIsApplied
CHECK_DEADLOCK FALSE
