\* From the diagnosis to the pull request: every edit of a small file against
\* what may have become of it, and a repository with a chart, a version
\* reference and two attempts, with failing requests, lost answers and crashes.
SPECIFICATION Spec
CONSTANTS
    Attempts = {"first", "second"}
    Worlds <- AllWorlds
    TextNames = {"main.py", "old.py", "new.py", "values.yaml", "d.yaml", "Chart.yaml"}
    CiNames = {".github"}
    DeployNames = {"Dockerfile"}
    MaxAffected = 2
    Threshold = 3
    Checked = {"main.py", "values.yaml"}
    Broken = {"(("}
    Ruled <- MCRuled
    Failures = {"request", "reply", "crash"}
    MaxSecond = 2
CHECK_DEADLOCK FALSE
INVARIANTS
    DeliveryTypeOK
    IntendedResult
    HallucinationRefused
    WrittenIsVerified
    PrCarriesThePatch
    BranchesAreExclusive
    OnlyAgreedFilesChange
    DeclaredBumpIsDeliverable
    NeverBlind
PROPERTY ImplementsDelivery
