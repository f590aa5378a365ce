--------------------------- MODULE ConsoleProperties ---------------------------
(***************************************************************************)
(* What the settings, the license, the shared secret and the start of the  *)
(* processes promise, over the specification of Console.                   *)
(***************************************************************************)
EXTENDS Console

Texts == UNION {World.keys, World.tokens, {World.licenseEnv, World.tokenEnv}, Modes}
(* Types: the schema's, and those of the two processes on it.  The stored  *)
(* settings are values that the forms' clamps allow                        *)
(* (src/dashboard/settings_routes.py:225-235).                             *)
ConsoleTypeOK ==
    /\ SchemaTypeOK
    /\ world \in DOMAIN AllOf
    /\ DOMAIN settings \subseteq
         {"processing_mode", "max_runs_per_hour", "license_key", "api_auth_token"}
    /\ Stored("processing_mode", "manual") \in Modes
    /\ \A p \in {"agent", "dashboard"} : Ceiling(p) \in Nat
    /\ override \in Texts \cup {Blank}
    /\ loaded => Starting("agent", "up")
    /\ \A t \in World.tabs :
          /\ fetches[t].pc \in {"none", "asked", "apply"}
          /\ tabs[t].pc \in {"idle", "read", "write", "forward", "check"}
          /\ tabs[t].pc \in {"read", "write"} <=> tabs[t].left # <<>>
          /\ tabs[t].pc # "idle" => DashboardServes
    /\ task.pc \in {"idle", "trip_read", "trip", "triage", "investigation", "synthesis"}
    /\ saves \in 0..World.saves /\ failures \in 0..World.failures
    /\ now \in 0..World.last

(* A license that the deployment was never given, or whose time was over   *)
(* when the prompt was built, adds no pack to it: the verdict is never     *)
(* kept (src/agent/license.py:173-178), although the key is, by an agent   *)
(* that hears of its replacement late.                                     *)
LapsedKeyIsNotUsed ==
    prompt.pack # Blank =>
        \/ prompt.pack \in World.packToken
        \/ \E key \in given \cap DOMAIN Licenses :
              prompt.pack \in Licenses[key].packs /\ prompt.at < Licenses[key].until

(* The agent refuses what the dashboard forwards for an operator only when *)
(* the secret has changed on the way, or one of the two could not read it: *)
(* both ask the table anew (src/api/auth.py:44, trigger_routes.py:121).    *)
ProxyIsLetIn == \A t \in World.tabs : tabs[t].refused => tabs[t].excused

(* In whatever order the processes start, die and are released, agent and  *)
(* dashboard serve in the end, on a schema with all that they read.        *)
EveryPodServes ==
    <>[]\A p \in Lasting : Starting(p, "up") /\ 0..image[p] \subseteq columns

(* While a ceiling stands and the alert goes on, the breaker's switch to   *)
(* manual outlives every form that still shows the mode from before it     *)
(* (src/dashboard/settings_routes.py:257).                                 *)
TripHolds ==
    (World.alerts /\ <>[](Ceiling("agent") > 0)) => <>[](Mode = "manual")

(* As long as the license's status is asked for, the key in force is the   *)
(* stored one in the end, whichever requests overtook each other and       *)
(* whatever the agent was when it was saved (src/api/license_api.py:10).   *)
LicenseIsApplied ==
    []<><<\E t \in World.tabs : ApplyKey(t)>>_vars
        => <>[](AgentServes => override = Stored("license_key", Blank))
=============================================================================
