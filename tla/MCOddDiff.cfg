\* Diffs whose sections the parser does not keep apart.  github_client.py:444
\* has it that a mismatch of any hunk aborts the pull request; the hunks of the
\* first of two sections for one file, and what follows a removed line that
\* begins with "-- ", are lost before anything is compared.
SPECIFICATION Spec
CONSTANTS
    Attempts = {"first"}
    Worlds <- OddWorlds
    TextNames = {"main.py"}
    CiNames = {".github"}
    DeployNames = {"Dockerfile"}
    MaxAffected = 2
    Threshold = 3
    Checked = {"main.py"}
    Broken = {"(("}
    Ruled <- MCRuled
    Failures = {}
    MaxSecond = 1
CHECK_DEADLOCK FALSE
INVARIANT HallucinationRefused
