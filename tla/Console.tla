-------------------------------- MODULE Console --------------------------------
(***************************************************************************)
(* The settings that the dashboard writes and the agent reads: the pages   *)
(* and forms of src/dashboard/settings_routes.py, the license key and the  *)
(* overlays of packs (src/agent/license.py, entitlements.py, prompts.py,   *)
(* packs.py, src/api/license_api.py), the shared secret of src/api/auth.py,*)
(* the trigger's proxy, and the agent's own write when the breaker trips.  *)
(* The two processes start as in Schema.                                   *)
(*                                                                         *)
(* Settings are written one by one, each read and then inserted or updated *)
(* in a transaction of its own.  The form's other settings behave like the *)
(* ceiling, which stands for them.                                         *)
(***************************************************************************)
EXTENDS Schema, Sequences, SequencesExt, TLC

CONSTANTS
    Tabs,      \* the operators' browser tabs
    Worlds,    \* name -> what the two processes are started with
    Licenses,  \* license key -> the packs it grants, and until when
    Packs      \* the directories of packs, in their order

ASSUME ConsoleAssumption ==
    /\ {"agent", "dashboard"} \subseteq Processes
    /\ \A w \in DOMAIN Worlds : Worlds[w].processes \subseteq Processes

VARIABLES
    world,     \* which of the Worlds this is
    settings,  \* the table of settings: key -> value
    override,  \* agent: the license key of the settings, or Blank
    loaded,    \* agent: has its start read the license key
    fetches,   \* agent: requests of the license's status, by tab
    task,      \* agent: the pipeline of an alert that fires again and again
    prompt,    \* agent: the overlay of the prompt last sent, and when
    tabs,      \* dashboard: what the operator sees and does
    given,     \* license keys that the deployment was given so far
    saves,     \* forms saved so far
    failures,  \* reads of the database that failed
    now        \* the clock of the licenses

consoleVars == <<world, settings, override, loaded, fetches, task, prompt, tabs,
                 given, saves, failures, now>>
vars == <<schemaVars, consoleVars>>

(* TLC evaluates a definition once, and a substituted constant every time. *)
AllOf == Worlds
World == AllOf[world]

Blank == ""
NoPage == [mode |-> Blank, ceiling |-> -1]
Modes == {"autopilot", "manual"}

(* What the forms and the trip write of each setting: the forms clamp.     *)
Fits(w, key, value) ==
    \/ key = "processing_mode" /\ value \in Modes
    \/ key = "max_runs_per_hour" /\ value \in Nat
    \/ key = "license_key" /\ value \in w.keys
    \/ key = "api_auth_token" /\ value \in w.tokens

(* What is in the database at the start was written in the same way, and   *)
(* the ceilings of the environment are numbers or 0 for none.              *)
ASSUME WorldsAreTyped ==
    \A w \in DOMAIN AllOf :
        /\ \A key \in DOMAIN AllOf[w].settings : Fits(AllOf[w], key, AllOf[w].settings[key])
        /\ {AllOf[w].ceilings["agent"], AllOf[w].ceilings["dashboard"]} \subseteq Nat
        /\ \A form \in AllOf[w].forms : form.ceiling \in Int
        /\ {AllOf[w].saves, AllOf[w].failures, AllOf[w].last} \subseteq Nat

IdleTab == [pc |-> "idle", page |-> NoPage, left |-> <<>>, was |-> <<>>,
            token |-> Blank, excused |-> FALSE, refused |-> FALSE]
IdleTask == [pc |-> "idle", was |-> <<>>]
NoFetch == [pc |-> "none", key |-> Blank]

Init ==
    /\ world \in DOMAIN AllOf
    /\ SchemaInit
    /\ World.settled => version = Newest /\ \A p \in Processes : image[p] = Newest
    /\ settings = World.settings
    /\ override = Blank /\ loaded = FALSE
    /\ fetches = [t \in World.tabs |-> NoFetch]
    /\ task = IdleTask
    /\ prompt = [pack |-> Blank, at |-> 0]
    /\ tabs = [t \in World.tabs |-> IdleTab]
    /\ given = {World.licenseEnv} \cup
               (IF "license_key" \in DOMAIN settings THEN {settings["license_key"]} ELSE {})
    /\ saves = 0 /\ failures = 0 /\ now = 0

-----------------------------------------------------------------------------
Seen(key) == IF key \in DOMAIN settings THEN <<settings[key]>> ELSE <<>>
Stored(key, default) == IF key \in DOMAIN settings THEN settings[key] ELSE default

(* get_processing_mode: an unknown value is autopilot.                     *)
Mode == IF Stored("processing_mode", Blank) \in Modes
        THEN settings["processing_mode"] ELSE "autopilot"

(* The setting, or else the environment of the process that asks.          *)
Ceiling(process) == Stored("max_runs_per_hour", World.ceilings[process])

DashboardServes == Starting("dashboard", "up") /\ 0..image["dashboard"] \subseteq columns
AgentServes == Starting("agent", "up") /\ loaded

Tab(t, label) == tabs[t].pc = label
TabBecomes(t, tab) == tabs' = [tabs EXCEPT ![t] = tab]
TaskIs(label) == task.pc = label

SchemaStays == UNCHANGED schemaVars
AgentStays == UNCHANGED <<override, loaded, fetches, task, prompt>>
OnlyTabs == SchemaStays /\ AgentStays /\ UNCHANGED <<world, settings, given, saves, failures, now>>
OnlyTask == SchemaStays /\ UNCHANGED <<world, settings, override, loaded, fetches, tabs,
                                       given, saves, failures, now>>

-----------------------------------------------------------------------------
(* Writing a setting: session.get, and then an insert or an update.        *)

Put(key, value) ==
    [k \in DOMAIN settings \cup {key} |-> IF k = key THEN value ELSE settings[k]]

(* Mutant of Written: a row that has been seen is not written again.       *)
WrittenIfNew(key, value, was) ==
    IF was # <<>> THEN settings ELSE Put(key, value)

(* The settings after the write: no update is sent for the value that was  *)
(* seen, whatever has been written since.                                  *)
Written(key, value, was) ==
    IF was = <<value>> THEN settings ELSE Put(key, value)

(* Two first writes of one key both insert: the later one fails.           *)
Conflicts(key, was) == was = <<>> /\ key \in DOMAIN settings

-----------------------------------------------------------------------------
(* The settings page.                                                      *)

(* The page shows what is stored, and the dashboard's own environment for  *)
(* the rest; it asks the agent for the license, unless that is down.       *)
Open(t) ==
    /\ Tab(t, "idle") /\ DashboardServes
    /\ TabBecomes(t, [tabs[t] EXCEPT !.page =
                        [mode |-> Mode, ceiling |-> Ceiling("dashboard")]])
    /\ fetches' = IF AgentServes /\ fetches[t].pc = "none"
                  THEN [fetches EXCEPT ![t] = [@ EXCEPT !.pc = "asked"]] ELSE fetches
    /\ SchemaStays
    /\ UNCHANGED <<world, settings, override, loaded, task, prompt, given, saves,
                   failures, now>>

(* Mutant of FormRows: a ceiling is stored as it was typed.                *)
FormRowsAsTyped(form) ==
    <<<<"max_runs_per_hour", form.ceiling>>,
      <<"processing_mode", IF form.mode \in Modes THEN form.mode ELSE "autopilot">>>>

(* settings_save: what the page showed or something else.                  *)
FormRows(form) ==
    <<<<"max_runs_per_hour", IF form.ceiling < 0 THEN 0 ELSE form.ceiling>>,
      <<"processing_mode", IF form.mode \in Modes THEN form.mode ELSE "autopilot">>>>

Submit(t, rows) ==
    /\ Tab(t, "idle") /\ DashboardServes
    /\ tabs[t].page # NoPage
    /\ saves < World.saves /\ saves' = saves + 1
    /\ TabBecomes(t, [tabs[t] EXCEPT !.pc = "read", !.left = rows])
    /\ SchemaStays /\ AgentStays
    /\ UNCHANGED <<world, settings, given, failures, now>>

SaveForm(t) == \E form \in {tabs[t].page} \cup World.forms : Submit(t, FormRows(form))
SaveLicense(t) == \E key \in World.keys : Submit(t, <<<<"license_key", key>>>>)
SaveToken(t) == \E token \in World.tokens : Submit(t, <<<<"api_auth_token", token>>>>)

ReadRow(t) ==
    /\ Tab(t, "read")
    /\ TabBecomes(t, [tabs[t] EXCEPT !.pc = "write",
                        !.was = Seen(Head(tabs[t].left)[1])])
    /\ OnlyTabs

(* A request that is on its way when the secret changes is excused.        *)
Excused(t, changes) == [tabs[t] EXCEPT !.excused = @ \/ changes]

WriteRow(t) ==
    /\ Tab(t, "write")
    /\ LET key == Head(tabs[t].left)[1]
           value == Head(tabs[t].left)[2]
           rest == Tail(tabs[t].left)
       IN  IF Conflicts(key, tabs[t].was)
           THEN /\ TabBecomes(t, [tabs[t] EXCEPT !.pc = "idle", !.left = <<>>,
                                                !.was = <<>>])
                /\ UNCHANGED <<settings, given>>
           ELSE /\ settings' = Written(key, value, tabs[t].was)
                /\ given' = IF key = "license_key" THEN given \cup {value} ELSE given
                /\ tabs' = [u \in World.tabs |->
                     LET tab == Excused(u, key = "api_auth_token" /\ settings' # settings)
                     IN  IF u # t THEN tab
                         ELSE [tab EXCEPT !.left = rest, !.was = <<>>,
                                          !.pc = IF rest = <<>> THEN "idle" ELSE "read"]]
    /\ SchemaStays /\ AgentStays
    /\ UNCHANGED <<world, saves, failures, now>>

-----------------------------------------------------------------------------
(* The license.                                                            *)

(* Mutant of Applied: a blank key is no news.                              *)
AppliedUnlessBlank(key) == IF key = Blank THEN override ELSE key

(* set_active_license_key: blank falls back to the environment.            *)
Applied(key) == key

(* refresh_active_license at the start of the agent; an error of the       *)
(* database leaves the override as it is.                                  *)
LoadLicense ==
    /\ Starting("agent", "up") /\ ~loaded
    /\ loaded' = TRUE
    /\ \/ override' = Applied(Stored("license_key", Blank)) /\ UNCHANGED failures
       \/ /\ failures < World.failures /\ failures' = failures + 1
          /\ UNCHANGED override
    /\ SchemaStays
    /\ UNCHANGED <<world, settings, fetches, task, prompt, tabs, given, saves, now>>

FetchBecomes(t, fetch) ==
    /\ fetches' = [fetches EXCEPT ![t] = fetch]
    /\ SchemaStays
    /\ UNCHANGED <<world, settings, loaded, task, prompt, tabs, given, saves, now>>

(* ... and at every request of the license's status.                       *)
ReadKey(t) ==
    /\ fetches[t].pc = "asked"
    /\ UNCHANGED override
    /\ \/ /\ FetchBecomes(t, [pc |-> "apply", key |-> Stored("license_key", Blank)])
          /\ UNCHANGED failures
       \/ /\ failures < World.failures /\ failures' = failures + 1
          /\ FetchBecomes(t, NoFetch)

ApplyKey(t) ==
    /\ fetches[t].pc = "apply"
    /\ override' = Applied(fetches[t].key)
    /\ FetchBecomes(t, NoFetch)
    /\ UNCHANGED failures

(* verify_license, at every question: a key that is no license, or whose   *)
(* time is over, grants nothing.                                           *)
Granted(key) ==
    IF key \in DOMAIN Licenses /\ now < Licenses[key].until
    THEN Licenses[key].packs ELSE {}

EffectiveKey == IF override # Blank THEN override ELSE World.licenseEnv

(* Mutant of IsPackEnabled: what was granted once stays granted.           *)
IsPackEnabledForever(pack) ==
    \E key \in given \cap DOMAIN Licenses : pack \in Licenses[key].packs

IsPackEnabled(pack) == pack \in Granted(EffectiveKey) \cup World.packToken

(* load_packs_into: a pack that is not signed is skipped, and an overlay   *)
(* without a text; a file that cannot be read ends its pack and keeps what *)
(* is registered; the last overlay of a stage and stack replaces others.   *)
Readable(overlays) ==
    LET broken == SelectInSeq(overlays, LAMBDA o : o.file = "unreadable")
    IN  SelectSeq(IF broken = 0 THEN overlays ELSE SubSeq(overlays, 1, broken - 1),
                  LAMBDA o : o.file = "text")

Registered(overlays, pack) ==
    IF ~pack.signed THEN overlays
    ELSE FoldLeft(LAMBDA reg, o : <<o.stage, o.stack>> :> pack.id @@ reg,
                  overlays, Readable(pack.overlays))

Overlays == FoldLeft(Registered, [o \in {} |-> Blank], Packs)

(* PromptResolver.resolve: the pack whose overlay is added, or none.       *)
Resolve(stage, stack) ==
    IF <<stage, stack>> \in DOMAIN Overlays /\ IsPackEnabled(Overlays[<<stage, stack>>])
    THEN Overlays[<<stage, stack>>] ELSE Blank

-----------------------------------------------------------------------------
(* The agent at work on an alert.                                          *)

Fire ==
    /\ TaskIs("idle") /\ AgentServes /\ World.alerts
    /\ Mode = "autopilot"
    /\ task' = [task EXCEPT !.pc = IF Ceiling("agent") > 0 THEN "trip_read" ELSE "triage"]
    /\ OnlyTask /\ UNCHANGED prompt

TripRead ==
    /\ TaskIs("trip_read")
    /\ task' = [pc |-> "trip", was |-> Seen("processing_mode")]
    /\ OnlyTask /\ UNCHANGED prompt

(* A trip whose insert fails fails its run, and nothing else.              *)
Trip ==
    /\ TaskIs("trip")
    /\ settings' = IF Conflicts("processing_mode", task.was) THEN settings
                   ELSE Written("processing_mode", "manual", task.was)
    /\ task' = IdleTask
    /\ SchemaStays
    /\ UNCHANGED <<world, override, loaded, fetches, prompt, tabs, given, saves,
                   failures, now>>

Stage(stage, next) ==
    /\ TaskIs(stage)
    /\ prompt' = [pack |-> Resolve(stage, World.stack), at |-> now]
    /\ task' = [task EXCEPT !.pc = next]
    /\ OnlyTask

-----------------------------------------------------------------------------
(* The trigger's and the dispatch's proxy.                                 *)

(* resolve_api_token: the setting, unless it is blank.                     *)
ApiToken == IF Stored("api_auth_token", Blank) # Blank
            THEN settings["api_auth_token"] ELSE World.tokenEnv

(* Mutant of ForwardedToken: the dashboard forwards what it was started    *)
(* with.                                                                   *)
ForwardedTokenOfEnv == World.tokenEnv

ForwardedToken == ApiToken

(* When the setting cannot be read, the token of the environment is used.  *)
Failing ==
    /\ failures < World.failures /\ failures' = failures + 1
    /\ UNCHANGED <<world, settings, given, saves, now>>

OnlyTabsBut(excuse) ==
    /\ SchemaStays /\ AgentStays
    /\ IF excuse THEN Failing ELSE UNCHANGED <<world, settings, given, saves, failures, now>>

(* An operator who knows the secret.                                       *)
Press(t) ==
    /\ Tab(t, "idle") /\ DashboardServes /\ World.presses
    /\ TabBecomes(t, [tabs[t] EXCEPT !.pc = "forward", !.refused = FALSE])
    /\ OnlyTabs

Forward(t, fails) ==
    /\ Tab(t, "forward")
    /\ TabBecomes(t, [tabs[t] EXCEPT !.pc = IF AgentServes THEN "check" ELSE "idle",
                                     !.token = IF fails THEN World.tokenEnv
                                               ELSE ForwardedToken,
                                     !.excused = fails])
    /\ OnlyTabsBut(fails)

(* require_inbound_auth of the agent: no token, no check.                  *)
Check(t, fails) ==
    /\ Tab(t, "check")
    /\ LET expected == IF fails THEN World.tokenEnv ELSE ApiToken
       IN  TabBecomes(t, [tabs[t] EXCEPT !.pc = "idle",
                            !.refused = expected \notin {Blank, tabs[t].token},
                            !.excused = @ \/ fails])
    /\ OnlyTabsBut(fails)

Proxying(t) ==
    \/ Press(t)
    \/ \E fails \in BOOLEAN : Forward(t, fails) \/ Check(t, fails)

-----------------------------------------------------------------------------
(* What is lost with a process: all that it was doing, but not the pages   *)
(* that browsers show.                                                     *)
Lost(p) ==
    /\ IF p = "agent"
       THEN /\ override' = Blank /\ loaded' = FALSE
            /\ fetches' = [t \in World.tabs |-> NoFetch]
            /\ task' = IdleTask
            /\ tabs' = [t \in World.tabs |->
                          IF Tab(t, "check") THEN [tabs[t] EXCEPT !.pc = "idle"] ELSE tabs[t]]
       ELSE /\ UNCHANGED <<override, loaded, fetches, task>>
            /\ tabs' = IF p # "dashboard" THEN tabs
                       ELSE [t \in World.tabs |->
                               [IdleTab EXCEPT !.page = tabs[t].page]]
    /\ UNCHANGED <<world, settings, prompt, given, saves, failures, now>>

Boots(p) == (Start(p) \/ Boot(p)) /\ UNCHANGED consoleVars
Crashes(p) == Crash(p) /\ Lost(p)
Deploys(p) == (\E revision \in Revisions : Deploy(p, revision)) /\ Lost(p)

Tick ==
    /\ now < World.last
    /\ now' = now + 1
    /\ SchemaStays /\ AgentStays
    /\ UNCHANGED <<world, settings, tabs, given, saves, failures>>

-----------------------------------------------------------------------------
Saving(t) == ReadRow(t) \/ WriteRow(t)
Fetching(t) == ReadKey(t) \/ ApplyKey(t)
Alert == Fire \/ TripRead \/ Trip \/ Stage("triage", "investigation")
         \/ Stage("investigation", "synthesis") \/ Stage("synthesis", "idle")

Next ==
    \/ \E p \in World.processes : Boots(p) \/ Crashes(p) \/ Deploys(p)
    \/ LoadLicense \/ Alert \/ Tick
    \/ \E t \in World.tabs :
          \/ Open(t) \/ SaveForm(t) \/ SaveLicense(t) \/ SaveToken(t)
          \/ Saving(t) \/ Fetching(t)
          \/ Proxying(t)

(* Kubernetes starts the agent and the dashboard again, a release reaches  *)
(* them in the end, requests that are under way go on, and an alert that   *)
(* nobody resolves fires again.                                            *)
Fairness ==
    /\ \A p \in Lasting : WF_vars(Boots(p)) /\ WF_vars(Deploys(p))
    /\ WF_vars(LoadLicense) /\ WF_vars(Alert)
    /\ \A t \in Tabs : WF_vars(t \in World.tabs /\ (Saving(t) \/ Fetching(t)))

Spec == Init /\ [][Next]_vars /\ Fairness
=============================================================================
