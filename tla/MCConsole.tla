------------------------------- MODULE MCConsole -------------------------------
(***************************************************************************)
(* Settings for TLC: a database that starts, and four worlds on one that has. *)
(***************************************************************************)
EXTENDS ConsoleProperties

AllPacks == <<
    [id |-> "jvm", signed |-> TRUE, overlays |->
        <<[stage |-> "triage", stack |-> "java", file |-> "text"],
          [stage |-> "synthesis", stack |-> "java", file |-> "text"],
          [stage |-> "investigation", stack |-> "java", file |-> "unreadable"],
          [stage |-> "triage", stack |-> "none", file |-> "text"]>>],
    [id |-> "other", signed |-> FALSE, overlays |->
        <<[stage |-> "triage", stack |-> "java", file |-> "text"]>>],
    [id |-> "tuned", signed |-> TRUE, overlays |->
        <<[stage |-> "triage", stack |-> "java", file |-> "missing"],
          [stage |-> "synthesis", stack |-> "java", file |-> "text"]>>] >>

AllLicenses ==
    "trial" :> [packs |-> {"jvm", "tuned"}, until |-> 1] @@
    "paid" :> [packs |-> {"jvm"}, until |-> 2]

Quiet ==
    [settled |-> TRUE, processes |-> {"agent", "dashboard"},
     settings |-> [key \in {} |-> Blank] @@ [key \in {} |-> Blank],
     ceilings |-> [agent |-> 0, dashboard |-> 50],
     licenseEnv |-> Blank, tokenEnv |-> Blank, packToken |-> {}, stack |-> "java",
     tabs |-> {}, forms |-> {}, keys |-> {}, tokens |-> {},
     saves |-> 0, failures |-> 0, presses |-> FALSE, alerts |-> FALSE, last |-> 0]

AllWorlds ==
    "start" :> [Quiet EXCEPT !.settled = FALSE, !.processes = Processes] @@
    "settings" :> [Quiet EXCEPT !.tabs = Tabs, !.alerts = TRUE, !.saves = 2,
                                !.ceilings = [agent |-> 1, dashboard |-> 50],
                                !.forms = {[mode |-> "typo", ceiling |-> -1]}] @@
    "license" :> [Quiet EXCEPT !.tabs = Tabs, !.saves = 2, !.failures = 1,
                               !.keys = {Blank, "paid"}] @@
    "packs" :> [Quiet EXCEPT !.tabs = {"one"}, !.saves = 1, !.alerts = TRUE,
                             !.keys = {"typo", "paid"}, !.licenseEnv = "trial",
                             !.packToken = {"tuned"}, !.last = 2] @@
    "token" :> [Quiet EXCEPT !.tabs = Tabs, !.saves = 1, !.failures = 1, !.presses = TRUE,
                             !.settings = "max_runs_per_hour" :> 0,
                             !.tokens = {"new"}, !.tokenEnv = "old"]
=============================================================================
