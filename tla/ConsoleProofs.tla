------------------------------ MODULE ConsoleProofs ------------------------------
(***************************************************************************)
(* Proofs about the agent and the dashboard on their shared database: what *)
(* they do with the settings leaves the schema alone, and a request that   *)
(* the dashboard forwards carries the secret that the agent will ask for,  *)
(* as long as neither is excused.                                          *)
(***************************************************************************)
EXTENDS ConsoleProperties, SchemaProofs

LEMMA WorldProcesses == world \in DOMAIN AllOf => World.processes \subseteq Processes
BY ConsoleAssumption DEF World, AllOf

LEMMA ConsoleStepsSchema ==
    world \in DOMAIN AllOf /\ [Next]_vars
        => [SchemaNext]_schemaVars /\ world' = world
<1> SUFFICES ASSUME world \in DOMAIN AllOf, [Next]_vars
             PROVE  [SchemaNext]_schemaVars /\ world' = world
  OBVIOUS
<1>1. CASE UNCHANGED vars
  BY <1>1 DEF vars, consoleVars
<1>2. ASSUME NEW p \in World.processes, Boots(p) \/ Crashes(p) \/ Deploys(p)
      PROVE  SchemaNext /\ world' = world
  <2>1. p \in Processes
    BY <1>2, WorldProcesses
  <2> QED
    BY <1>2, <2>1 DEF Boots, Crashes, Deploys, Lost, SchemaNext, consoleVars
<1>3. CASE LoadLicense \/ Alert \/ Tick
  BY <1>3 DEF LoadLicense, Alert, Tick, Fire, TripRead, Trip, Stage, OnlyTask, SchemaStays
<1>4. ASSUME NEW t \in World.tabs,
             Open(t) \/ SaveForm(t) \/ SaveLicense(t) \/ SaveToken(t)
      PROVE  SchemaStays /\ world' = world
  BY <1>4 DEF Open, SaveForm, SaveLicense, SaveToken, Submit
<1>5. ASSUME NEW t \in World.tabs, Saving(t) \/ Fetching(t)
      PROVE  SchemaStays /\ world' = world
  BY <1>5 DEF Saving, Fetching, ReadRow, WriteRow, ReadKey, ApplyKey, FetchBecomes, OnlyTabs
<1>6. ASSUME NEW t \in World.tabs, Proxying(t) PROVE SchemaStays /\ world' = world
  BY <1>6 DEF Proxying, Press, Forward, Check, OnlyTabs, OnlyTabsBut, Failing
<1> QED
  BY <1>1, <1>2, <1>3, <1>4, <1>5, <1>6 DEF Next, SchemaStays

(* The agent and the dashboard with all that they do are processes that    *)
(* start on one database, so that what is proved of those holds of them.   *)
THEOREM ConsoleImplementsSchema == Spec => SchemaSpec
<1>1. Init => SchemaInit /\ world \in DOMAIN AllOf
  BY DEF Init
<1>2. world \in DOMAIN AllOf /\ [Next]_vars => (world \in DOMAIN AllOf)'
  BY ConsoleStepsSchema DEF AllOf
<1> QED
  BY <1>1, <1>2, ConsoleStepsSchema, PTL DEF Spec, SchemaSpec

(* The version in the database promises nothing that is not there, and the *)
(* agent serves only on a schema with all that its models have, whatever   *)
(* else goes on.                                                           *)
THEOREM ConsoleSchemaIsTrue == Spec => [](VersionIsTrue /\ UpMeansMigrated)
BY ConsoleImplementsSchema, VersionsAreTrue, ServingIsMigrated, PTL

-----------------------------------------------------------------------------
TabFields == {"pc", "page", "left", "was", "token", "excused", "refused"}

(* The record of a tab; its page and the rows that it has left can be      *)
(* anything here.                                                          *)
IsTab(tab) ==
    /\ tab = [f \in TabFields |-> tab[f]]
    /\ tab.excused \in BOOLEAN /\ tab.refused \in BOOLEAN

(* A request before the agent carries the secret of the moment.            *)
CarriesSecret(tab, secret) ==
    /\ tab.pc = "check" /\ ~tab.excused => tab.token = secret
    /\ tab.pc = "forward" => ~tab.refused
    /\ tab.refused => tab.excused

ProxyInv ==
    /\ tabs = [t \in World.tabs |-> tabs[t]]
    /\ \A t \in World.tabs : IsTab(tabs[t]) /\ CarriesSecret(tabs[t], ApiToken)

LEMMA InitProxy == Init => ProxyInv
<1>1. IsTab(IdleTab)
  BY DEF IsTab, TabFields, IdleTab
<1>2. CarriesSecret(IdleTab, ApiToken)
  BY DEF CarriesSecret, IdleTab
<1>3. Init => tabs = [t \in World.tabs |-> IdleTab]
  BY DEF Init
<1> QED
  BY <1>1, <1>2, <1>3 DEF ProxyInv

(* A step in which the secret stays and one tab changes.                   *)
LEMMA OneTabKeeps ==
    ASSUME ProxyInv, NEW t \in World.tabs, NEW tab, tabs' = [tabs EXCEPT ![t] = tab],
           IsTab(tab), CarriesSecret(tab, ApiToken),
           ApiToken' = ApiToken, world' = world
    PROVE  ProxyInv'
BY DEF ProxyInv, CarriesSecret, IsTab, World, AllOf

(* A step in which the secret and all tabs stay.                           *)
LEMMA NoTabKeeps ==
    ASSUME ProxyInv, tabs' = tabs, ApiToken' = ApiToken, world' = world
    PROVE  ProxyInv'
BY DEF ProxyInv, CarriesSecret, IsTab, World, AllOf

LEMMA SecretStays ==
    ASSUME world' = world, UNCHANGED settings PROVE ApiToken' = ApiToken
BY DEF ApiToken, Stored, World, AllOf

(* Writing another setting leaves the secret alone.                        *)
LEMMA OtherKeysKeepSecret ==
    ASSUME NEW key, NEW value, NEW was, key # "api_auth_token", world' = world,
           settings' = Written(key, value, was)
    PROVE  ApiToken' = ApiToken
<1>1. "api_auth_token" \in DOMAIN settings' <=> "api_auth_token" \in DOMAIN settings
  BY DEF Written, Put
<1>2. "api_auth_token" \in DOMAIN settings
          => settings'["api_auth_token"] = settings["api_auth_token"]
  BY DEF Written, Put
<1> QED
  BY <1>1, <1>2 DEF ApiToken, Stored, World, AllOf

-----------------------------------------------------------------------------
(* What an operator does at the trigger.                                   *)
LEMMA PressKeeps ==
    ASSUME ProxyInv, NEW t \in World.tabs, Press(t) PROVE ProxyInv'
<1>1. ApiToken' = ApiToken /\ world' = world
  BY SecretStays DEF Press, OnlyTabs
<1>2. IsTab(tabs[t]) /\ CarriesSecret(tabs[t], ApiToken)
  BY DEF ProxyInv
<1>3. /\ IsTab([tabs[t] EXCEPT !.pc = "forward", !.refused = FALSE])
      /\ CarriesSecret([tabs[t] EXCEPT !.pc = "forward", !.refused = FALSE], ApiToken)
  BY <1>2 DEF IsTab, TabFields, CarriesSecret
<1> QED
  BY <1>1, <1>3, OneTabKeeps DEF Press, TabBecomes

(* What is forwarded is the secret that the agent asks for, unless the     *)
(* dashboard could not read it.                                            *)
LEMMA ForwardKeeps ==
    ASSUME ProxyInv, NEW t \in World.tabs, NEW fails \in BOOLEAN, Forward(t, fails)
    PROVE  ProxyInv'
<1>1. ApiToken' = ApiToken /\ world' = world
  BY SecretStays DEF Forward, OnlyTabsBut, Failing
<1>2. IsTab(tabs[t]) /\ CarriesSecret(tabs[t], ApiToken) /\ tabs[t].pc = "forward"
  BY DEF ProxyInv, Forward, Tab
<1> DEFINE label == IF AgentServes THEN "check" ELSE "idle"
           token == IF fails THEN World.tokenEnv ELSE ForwardedToken
           tab == [tabs[t] EXCEPT !.pc = label, !.token = token, !.excused = fails]
<1>3. /\ tabs' = [tabs EXCEPT ![t] = tab]
      /\ label \in {"check", "idle"}
      /\ ~fails => token = ApiToken
  BY DEF Forward, TabBecomes, ForwardedToken
<1> HIDE DEF label, token
<1>4. IsTab(tab) /\ CarriesSecret(tab, ApiToken)
  BY <1>2, <1>3 DEF IsTab, TabFields, CarriesSecret
<1> QED
  BY <1>1, <1>3, <1>4, OneTabKeeps

LEMMA CheckKeeps ==
    ASSUME ProxyInv, NEW t \in World.tabs, NEW fails \in BOOLEAN, Check(t, fails)
    PROVE  ProxyInv'
<1>1. ApiToken' = ApiToken /\ world' = world
  BY SecretStays DEF Check, OnlyTabsBut, Failing
<1>2. IsTab(tabs[t]) /\ CarriesSecret(tabs[t], ApiToken) /\ tabs[t].pc = "check"
  BY DEF ProxyInv, Check, Tab
<1> DEFINE expected == IF fails THEN World.tokenEnv ELSE ApiToken
           refused == expected \notin {Blank, tabs[t].token}
           excused == tabs[t].excused \/ fails
           tab == [tabs[t] EXCEPT !.pc = "idle", !.refused = refused, !.excused = excused]
<1>3. tabs' = [tabs EXCEPT ![t] = tab]
  BY DEF Check, TabBecomes
<1>4. refused \in BOOLEAN /\ excused \in BOOLEAN /\ (refused => excused)
  BY <1>2 DEF CarriesSecret, IsTab
<1> HIDE DEF refused, excused
<1>5. IsTab(tab) /\ CarriesSecret(tab, ApiToken)
  BY <1>2, <1>4 DEF IsTab, TabFields, CarriesSecret
<1> QED
  BY <1>1, <1>3, <1>5, OneTabKeeps

LEMMA PageKeeps ==
    ASSUME ProxyInv, NEW t \in World.tabs,
           Open(t) \/ SaveForm(t) \/ SaveLicense(t) \/ SaveToken(t) \/ ReadRow(t)
    PROVE  ProxyInv'
<1>1. ApiToken' = ApiToken /\ world' = world
  BY SecretStays DEF Open, SaveForm, SaveLicense, SaveToken, Submit, ReadRow, OnlyTabs
<1>2. IsTab(tabs[t]) /\ CarriesSecret(tabs[t], ApiToken)
  BY DEF ProxyInv
<1>3. CASE Open(t)
  <2>1. PICK page : tabs' = [tabs EXCEPT ![t] = [tabs[t] EXCEPT !.page = page]]
    BY <1>3 DEF Open, TabBecomes
  <2>2. /\ IsTab([tabs[t] EXCEPT !.page = page])
        /\ CarriesSecret([tabs[t] EXCEPT !.page = page], ApiToken)
    BY <1>2 DEF IsTab, TabFields, CarriesSecret
  <2> QED
    BY <1>1, <2>1, <2>2, OneTabKeeps
<1>4. ASSUME NEW rows, Submit(t, rows) PROVE ProxyInv'
  <2>1. tabs' = [tabs EXCEPT ![t] = [tabs[t] EXCEPT !.pc = "read", !.left = rows]]
    BY <1>4 DEF Submit, TabBecomes
  <2>2. /\ IsTab([tabs[t] EXCEPT !.pc = "read", !.left = rows])
        /\ CarriesSecret([tabs[t] EXCEPT !.pc = "read", !.left = rows], ApiToken)
    BY <1>2 DEF IsTab, TabFields, CarriesSecret
  <2> QED
    BY <1>1, <2>1, <2>2, OneTabKeeps
<1>5. CASE ReadRow(t)
  <2>1. PICK was : tabs' = [tabs EXCEPT ![t] = [tabs[t] EXCEPT !.pc = "write", !.was = was]]
    BY <1>5 DEF ReadRow, TabBecomes
  <2>2. /\ IsTab([tabs[t] EXCEPT !.pc = "write", !.was = was])
        /\ CarriesSecret([tabs[t] EXCEPT !.pc = "write", !.was = was], ApiToken)
    BY <1>2 DEF IsTab, TabFields, CarriesSecret
  <2> QED
    BY <1>1, <2>1, <2>2, OneTabKeeps
<1> QED
  BY <1>3, <1>4, <1>5 DEF SaveForm, SaveLicense, SaveToken

(* A write that changes the secret excuses every request on its way.       *)
LEMMA WriteRowKeeps ==
    ASSUME ProxyInv, NEW t \in World.tabs, WriteRow(t) PROVE ProxyInv'
<1> DEFINE key == Head(tabs[t].left)[1]
           value == Head(tabs[t].left)[2]
           rest == Tail(tabs[t].left)
           changes == key = "api_auth_token" /\ settings' # settings
<1>0. world' = world
  BY DEF WriteRow
<1>1. CASE Conflicts(key, tabs[t].was)
  <2>1. ApiToken' = ApiToken
    BY <1>0, <1>1, SecretStays DEF WriteRow
  <2>2. tabs' = [tabs EXCEPT ![t] = [tabs[t] EXCEPT !.pc = "idle", !.left = <<>>, !.was = <<>>]]
    BY <1>1 DEF WriteRow, TabBecomes
  <2>3. /\ IsTab([tabs[t] EXCEPT !.pc = "idle", !.left = <<>>, !.was = <<>>])
        /\ CarriesSecret([tabs[t] EXCEPT !.pc = "idle", !.left = <<>>, !.was = <<>>], ApiToken)
    BY DEF ProxyInv, IsTab, TabFields, CarriesSecret
  <2> QED
    BY <1>0, <2>1, <2>2, <2>3, OneTabKeeps
<1>2. CASE ~Conflicts(key, tabs[t].was)
  <2>1. /\ settings' = Written(key, value, tabs[t].was)
        /\ tabs' = [u \in World.tabs |->
              IF u # t THEN Excused(u, changes)
              ELSE [Excused(u, changes) EXCEPT !.left = rest, !.was = <<>>,
                                               !.pc = IF rest = <<>> THEN "idle" ELSE "read"]]
    BY <1>2 DEF WriteRow
  <2>2. ~changes => ApiToken' = ApiToken
    BY <1>0, <2>1, SecretStays, OtherKeysKeepSecret
  <2>3. changes \in BOOLEAN
    OBVIOUS
  <2> HIDE DEF key, value, rest, changes
  <2>4. \A u \in World.tabs :
           /\ IsTab(Excused(u, changes))
           /\ Excused(u, changes).pc = tabs[u].pc
           /\ Excused(u, changes).token = tabs[u].token
           /\ Excused(u, changes).refused = tabs[u].refused
           /\ Excused(u, changes).excused = (tabs[u].excused \/ changes)
    BY <2>3 DEF ProxyInv, IsTab, TabFields, Excused
  <2>5. World' = World
    BY <1>0 DEF World, AllOf
  <2>6. ASSUME NEW u \in World.tabs
        PROVE  IsTab(tabs'[u]) /\ CarriesSecret(tabs'[u], ApiToken')
    <3>1. CarriesSecret(Excused(u, changes), ApiToken')
      BY <2>2, <2>4 DEF ProxyInv, CarriesSecret
    <3> DEFINE old == Excused(u, changes)
               label == IF rest = <<>> THEN "idle" ELSE "read"
    <3>2. IsTab(old) /\ CarriesSecret(old, ApiToken') /\ label \in {"idle", "read"}
      BY <2>4, <3>1
    <3>3. \/ tabs'[u] = old
          \/ tabs'[u] = [old EXCEPT !.left = rest, !.was = <<>>, !.pc = label]
      BY <2>1
    <3> HIDE DEF old, label
    <3> QED
      BY <3>2, <3>3 DEF IsTab, TabFields, CarriesSecret
  <2> QED
    BY <2>1, <2>5, <2>6 DEF ProxyInv
<1> QED
  BY <1>1, <1>2

(* What the agent does on its own changes neither a tab nor the secret.    *)
LEMMA AgentKeeps ==
    ASSUME ProxyInv, LoadLicense \/ Alert \/ Tick PROVE ProxyInv'
<1>1. CASE LoadLicense \/ Tick
  BY <1>1, SecretStays, NoTabKeeps DEF LoadLicense, Tick
<1>2. CASE Fire \/ TripRead
  BY <1>2, SecretStays, NoTabKeeps DEF Fire, TripRead, OnlyTask
<1>3. ASSUME NEW stage, NEW next, Stage(stage, next) PROVE ProxyInv'
  BY <1>3, SecretStays, NoTabKeeps DEF Stage, OnlyTask
<1>4. CASE Trip
  <2>1. world' = world /\ tabs' = tabs
    BY <1>4 DEF Trip
  <2>2. settings' = settings \/ settings' = Written("processing_mode", "manual", task.was)
    BY <1>4 DEF Trip
  <2>3. ApiToken' = ApiToken
    BY <2>1, <2>2, SecretStays, OtherKeysKeepSecret
  <2> QED
    BY <2>1, <2>3, NoTabKeeps
<1> QED
  BY <1>1, <1>2, <1>3, <1>4 DEF Alert

LEMMA FetchingKeeps ==
    ASSUME ProxyInv, NEW t \in World.tabs, Fetching(t) PROVE ProxyInv'
BY SecretStays, NoTabKeeps DEF Fetching, ReadKey, ApplyKey, FetchBecomes

(* A process that dies takes its requests with it.                         *)
LEMMA LostKeeps == ASSUME ProxyInv, NEW p, Lost(p) PROVE ProxyInv'
<1>1. world' = world /\ ApiToken' = ApiToken /\ World' = World
  BY SecretStays DEF Lost, World, AllOf
<1>2. \A t \in World.tabs : IsTab(tabs[t]) /\ CarriesSecret(tabs[t], ApiToken)
  BY DEF ProxyInv
<1>3. CASE p = "agent"
  <2>1. tabs' = [t \in World.tabs |->
                  IF Tab(t, "check") THEN [tabs[t] EXCEPT !.pc = "idle"] ELSE tabs[t]]
    BY <1>3 DEF Lost
  <2>2. \A t \in World.tabs : /\ IsTab([tabs[t] EXCEPT !.pc = "idle"])
                              /\ CarriesSecret([tabs[t] EXCEPT !.pc = "idle"], ApiToken)
    BY <1>2 DEF IsTab, TabFields, CarriesSecret
  <2> QED
    BY <1>1, <1>2, <2>1, <2>2 DEF ProxyInv
<1>4. CASE p = "dashboard"
  <2>1. tabs' = [t \in World.tabs |-> [IdleTab EXCEPT !.page = tabs[t].page]]
    BY <1>4 DEF Lost
  <2>2. ASSUME NEW page PROVE /\ IsTab([IdleTab EXCEPT !.page = page])
                              /\ CarriesSecret([IdleTab EXCEPT !.page = page], ApiToken)
    <3>1. IsTab(IdleTab) /\ IdleTab.pc = "idle" /\ ~IdleTab.refused
      BY DEF IsTab, TabFields, IdleTab
    <3> QED
      BY <3>1 DEF IsTab, TabFields, CarriesSecret
  <2> QED
    BY <1>1, <2>1, <2>2 DEF ProxyInv
<1>5. CASE p \notin {"agent", "dashboard"}
  BY <1>1, <1>5, NoTabKeeps DEF Lost
<1> QED
  BY <1>3, <1>4, <1>5

LEMMA NextProxy == ProxyInv /\ [Next]_vars => ProxyInv'
<1> SUFFICES ASSUME ProxyInv, [Next]_vars PROVE ProxyInv'
  OBVIOUS
<1>1. CASE UNCHANGED consoleVars
  BY <1>1, SecretStays, NoTabKeeps DEF consoleVars
<1>2. ASSUME NEW p, Boots(p) \/ Crashes(p) \/ Deploys(p) PROVE ProxyInv'
  BY <1>1, <1>2, LostKeeps DEF Boots, Crashes, Deploys
<1>3. ASSUME NEW t \in World.tabs, Saving(t) \/ Proxying(t) PROVE ProxyInv'
  BY <1>3, PageKeeps, WriteRowKeeps, PressKeeps, ForwardKeeps, CheckKeeps
     DEF Saving, Proxying
<1> QED
  BY <1>1, <1>2, <1>3, AgentKeeps, PageKeeps, FetchingKeeps DEF Next, vars

(* However many operators, whatever secrets they save and whichever        *)
(* process dies: the agent refuses a request of the dashboard only when    *)
(* the secret changed while it was on its way, or could not be read.       *)
THEOREM ForwardedRequestsAreLetIn == Spec => []ProxyIsLetIn
<1>1. ProxyInv => ProxyIsLetIn
  BY DEF ProxyInv, CarriesSecret, ProxyIsLetIn
<1> QED
  BY <1>1, InitProxy, NextProxy, PTL DEF Spec

-----------------------------------------------------------------------------
(* The license keys.  Wherever the agent has a key from, it is one that    *)
(* the deployment was given: what can lapse in between is the verdict.     *)

Known == given \cup {Blank}

KeysAreKnown ==
    /\ World.licenseEnv \in given
    /\ override \in Known
    /\ Stored("license_key", Blank) \in Known
    /\ fetches \in [World.tabs -> [pc : {"none", "asked", "apply"}, key : Known]]

LicenseInv == KeysAreKnown /\ LapsedKeyIsNotUsed

LEMMA InitLicense == Init => LicenseInv
<1> SUFFICES ASSUME Init PROVE LicenseInv
  OBVIOUS
<1>1. /\ World.licenseEnv \in given
      /\ "license_key" \in DOMAIN settings => settings["license_key"] \in given
  BY DEF Init
<1>2. fetches \in [World.tabs -> [pc : {"none", "asked", "apply"}, key : Known]]
  BY DEF Init, NoFetch, Known
<1>3. override \in Known /\ Stored("license_key", Blank) \in Known
  BY <1>1 DEF Init, Known, Stored
<1>4. LapsedKeyIsNotUsed
  BY DEF Init, LapsedKeyIsNotUsed
<1> QED
  BY <1>1, <1>2, <1>3, <1>4 DEF LicenseInv, KeysAreKnown

(* A step that makes no prompt keeps what there is.                        *)
LEMMA KnownKeysStay ==
    ASSUME LicenseInv, world' = world, prompt' = prompt,
           given \subseteq given',
           override' \in Known', Stored("license_key", Blank)' \in Known',
           fetches' \in [World.tabs -> [pc : {"none", "asked", "apply"}, key : Known']]
    PROVE  LicenseInv'
BY DEF LicenseInv, KeysAreKnown, LapsedKeyIsNotUsed, World, AllOf

LEMMA SettingsStay ==
    ASSUME LicenseInv, UNCHANGED <<world, prompt, settings, given>>,
           override' \in Known,
           fetches' \in [World.tabs -> [pc : {"none", "asked", "apply"}, key : Known]]
    PROVE  LicenseInv'
<1>1. Stored("license_key", Blank)' = Stored("license_key", Blank) /\ Known' = Known
  BY DEF Stored, Known
<1> QED
  BY <1>1, KnownKeysStay DEF LicenseInv, KeysAreKnown

LEMMA OtherKeysKeepLicense ==
    ASSUME NEW key, NEW value, NEW was, key # "license_key",
           settings' = Written(key, value, was)
    PROVE  Stored("license_key", Blank)' = Stored("license_key", Blank)
<1>1. "license_key" \in DOMAIN settings' <=> "license_key" \in DOMAIN settings
  BY DEF Written, Put
<1>2. "license_key" \in DOMAIN settings
          => settings'["license_key"] = settings["license_key"]
  BY DEF Written, Put
<1> QED
  BY <1>1, <1>2 DEF Stored

LEMMA WriteRowKeepsLicense ==
    ASSUME LicenseInv, NEW t \in World.tabs, WriteRow(t) PROVE LicenseInv'
<1> DEFINE key == Head(tabs[t].left)[1]
           value == Head(tabs[t].left)[2]
<1>1. UNCHANGED <<world, prompt, override, fetches>>
  BY DEF WriteRow, AgentStays
<1>2. /\ override \in Known
      /\ fetches \in [World.tabs -> [pc : {"none", "asked", "apply"}, key : Known]]
      /\ Stored("license_key", Blank) \in Known
  BY DEF LicenseInv, KeysAreKnown
<1>3. CASE UNCHANGED <<settings, given>>
  BY <1>1, <1>2, <1>3, SettingsStay
<1>4. CASE /\ settings' = Written(key, value, tabs[t].was)
           /\ given' = IF key = "license_key" THEN given \cup {value} ELSE given
  <2>1. given \subseteq given' /\ Known \subseteq Known'
    BY <1>4 DEF Known
  <2>2. Stored("license_key", Blank)' \in Known'
    <3>1. CASE key # "license_key"
      BY <1>2, <1>4, <2>1, <3>1, OtherKeysKeepLicense
    <3>2. CASE key = "license_key" /\ settings' = settings
      BY <1>2, <2>1, <3>2 DEF Stored
    <3>3. CASE key = "license_key" /\ settings' = Put(key, value)
      BY <1>4, <3>3 DEF Put, Stored, Known
    <3> QED
      BY <1>4, <3>1, <3>2, <3>3 DEF Written
  <2> QED
    BY <1>1, <1>2, <2>1, <2>2, KnownKeysStay
<1> QED
  BY <1>3, <1>4 DEF WriteRow

LEMMA TabsKeepLicense ==
    ASSUME LicenseInv, NEW t \in World.tabs,
           \/ Open(t) \/ SaveForm(t) \/ SaveLicense(t) \/ SaveToken(t)
           \/ Saving(t) \/ Proxying(t)
    PROVE  LicenseInv'
<1>1. /\ override \in Known
      /\ fetches \in [World.tabs -> [pc : {"none", "asked", "apply"}, key : Known]]
  BY DEF LicenseInv, KeysAreKnown
<1>2. CASE Open(t)
  <2>1. UNCHANGED <<world, prompt, settings, given, override>>
    BY <1>2 DEF Open
  <2>2. fetches' \in [World.tabs -> [pc : {"none", "asked", "apply"}, key : Known]]
    BY <1>1, <1>2 DEF Open
  <2> QED
    BY <1>1, <2>1, <2>2, SettingsStay
<1>3. CASE SaveForm(t) \/ SaveLicense(t) \/ SaveToken(t) \/ ReadRow(t) \/ Proxying(t)
  <2>1. UNCHANGED <<world, prompt, settings, given, override, fetches>>
    BY <1>3 DEF SaveForm, SaveLicense, SaveToken, Submit, ReadRow, Proxying,
                Press, Forward, Check, OnlyTabs, OnlyTabsBut, Failing, AgentStays
  <2> QED
    BY <1>1, <2>1, SettingsStay
<1> QED
  BY <1>2, <1>3, WriteRowKeepsLicense DEF Saving

(* The key that is asked about is the one in force: a verdict is asked for *)
(* at every prompt.                                                        *)
LEMMA StageKeepsLicense ==
    ASSUME LicenseInv, NEW stage, NEW next, Stage(stage, next)
    PROVE  LicenseInv'
<1>1. UNCHANGED <<world, settings, given, override, fetches>>
  BY DEF Stage, OnlyTask
<1>2. prompt'.pack = Resolve(stage, World.stack) /\ prompt'.at = now
  BY DEF Stage
<1>3. KeysAreKnown'
  BY <1>1 DEF LicenseInv, KeysAreKnown, Known, Stored, World, AllOf
<1>4. Resolve(stage, World.stack) # Blank => IsPackEnabled(Resolve(stage, World.stack))
  BY DEF Resolve
<1>5. EffectiveKey \in given
  BY DEF LicenseInv, KeysAreKnown, Known, EffectiveKey
<1>6. LapsedKeyIsNotUsed'
  BY <1>1, <1>2, <1>4, <1>5 DEF LapsedKeyIsNotUsed, IsPackEnabled, Granted, World, AllOf
<1> QED
  BY <1>3, <1>6 DEF LicenseInv

LEMMA AgentKeepsLicense ==
    ASSUME LicenseInv,
           LoadLicense \/ Alert \/ Tick \/ \E t \in World.tabs : Fetching(t)
    PROVE  LicenseInv'
<1>1. /\ override \in Known /\ Stored("license_key", Blank) \in Known
      /\ fetches \in [World.tabs -> [pc : {"none", "asked", "apply"}, key : Known]]
  BY DEF LicenseInv, KeysAreKnown
<1>2. Blank \in Known
  BY DEF Known
<1>3. CASE LoadLicense \/ Tick \/ Fire \/ TripRead
  <2>1. UNCHANGED <<world, prompt, settings, given, fetches>>
    BY <1>3 DEF LoadLicense, Tick, Fire, TripRead, OnlyTask, AgentStays
  <2>2. override' \in Known
    BY <1>1, <1>3 DEF LoadLicense, Applied, Tick, Fire, TripRead, OnlyTask, AgentStays
  <2> QED
    BY <1>1, <2>1, <2>2, SettingsStay
<1>4. ASSUME NEW t \in World.tabs, Fetching(t) PROVE LicenseInv'
  <2>1. UNCHANGED <<world, prompt, settings, given>>
    BY <1>4 DEF Fetching, ReadKey, ApplyKey, FetchBecomes
  <2>2. override' \in Known
    BY <1>1, <1>4 DEF Fetching, ReadKey, ApplyKey, Applied
  <2>3. fetches' \in [World.tabs -> [pc : {"none", "asked", "apply"}, key : Known]]
    BY <1>1, <1>2, <1>4 DEF Fetching, ReadKey, ApplyKey, FetchBecomes, NoFetch
  <2> QED
    BY <2>1, <2>2, <2>3, SettingsStay
<1>5. CASE Trip
  <2>1. UNCHANGED <<world, prompt, given, override, fetches>>
    BY <1>5 DEF Trip
  <2>2. \/ settings' = settings
        \/ settings' = Written("processing_mode", "manual", task.was)
    BY <1>5 DEF Trip
  <2>3. Stored("license_key", Blank)' \in Known' /\ Known' = Known
    BY <1>1, <2>1, <2>2, OtherKeysKeepLicense DEF Known, Stored
  <2> QED
    BY <1>1, <2>1, <2>3, KnownKeysStay
<1> QED
  BY <1>3, <1>4, <1>5, StageKeepsLicense DEF Alert

LEMMA LostKeepsLicense == ASSUME LicenseInv, NEW p, Lost(p) PROVE LicenseInv'
<1>1. /\ override \in Known /\ Blank \in Known
      /\ fetches \in [World.tabs -> [pc : {"none", "asked", "apply"}, key : Known]]
  BY DEF LicenseInv, KeysAreKnown, Known
<1>2. UNCHANGED <<world, prompt, settings, given>>
  BY DEF Lost
<1>3. override' \in Known
  BY <1>1 DEF Lost
<1>4. fetches' \in [World.tabs -> [pc : {"none", "asked", "apply"}, key : Known]]
  BY <1>1 DEF Lost, NoFetch
<1> QED
  BY <1>2, <1>3, <1>4, SettingsStay

LEMMA NextLicense == LicenseInv /\ [Next]_vars => LicenseInv'
<1> SUFFICES ASSUME LicenseInv, [Next]_vars PROVE LicenseInv'
  OBVIOUS
<1>1. CASE UNCHANGED consoleVars
  BY <1>1, SettingsStay DEF consoleVars, LicenseInv, KeysAreKnown
<1>2. ASSUME NEW p, Boots(p) \/ Crashes(p) \/ Deploys(p) PROVE LicenseInv'
  BY <1>1, <1>2, LostKeepsLicense DEF Boots, Crashes, Deploys
<1> QED
  BY <1>1, <1>2, TabsKeepLicense, AgentKeepsLicense DEF Next, vars

(* Whichever keys are saved, read late or forgotten with a process: no     *)
(* prompt gets the overlay of a pack that no key of this deployment grants *)
(* at that moment.                                                         *)
THEOREM PacksAreLicensed == Spec => []LapsedKeyIsNotUsed
<1>1. LicenseInv => LapsedKeyIsNotUsed
  BY DEF LicenseInv
<1> QED
  BY <1>1, InitLicense, NextLicense, PTL DEF Spec

-----------------------------------------------------------------------------
(* The types.  A setting is worth what the rows of the forms are, and a    *)
(* page is at work only while the dashboard serves.                        *)

Rows == ({"processing_mode"} \X Modes) \cup ({"max_runs_per_hour"} \X Nat)
            \cup ({"license_key"} \X World.keys) \cup ({"api_auth_token"} \X World.tokens)

IsKey(key) == key \in World.keys \cup {Blank, World.licenseEnv}

IsTyped(tab) ==
    /\ tab.pc \in {"idle", "read", "write", "forward", "check"}
    /\ tab.page.ceiling \in Int
    /\ tab.left \in Seq(Rows)
    /\ tab.pc \in {"read", "write"} <=> tab.left # <<>>

Works(tab) == tab.pc # "idle" => DashboardServes

SettingsFit == \A key \in DOMAIN settings : <<key, settings[key]>> \in Rows

Fetches == [World.tabs -> [pc : {"none", "asked", "apply"},
                           key : World.keys \cup {Blank, World.licenseEnv}]]

Tasks == [pc : {"idle", "trip_read", "trip", "triage", "investigation", "synthesis"},
          was : {task.was}]

Counted ==
    /\ saves \in 0..World.saves /\ failures \in 0..World.failures
    /\ now \in 0..World.last

AgentTyped ==
    /\ IsKey(override) /\ fetches \in Fetches
    /\ loaded => Starting("agent", "up")
    /\ task \in Tasks

TypeInv ==
    /\ world \in DOMAIN AllOf
    /\ SettingsFit /\ AgentTyped /\ Counted
    /\ \A t \in World.tabs : IsTyped(tabs[t]) /\ Works(tabs[t])

LEMMA FitsIsRow ==
    ASSUME world \in DOMAIN AllOf, NEW key, NEW value
    PROVE  <<key, value>> \in Rows <=> Fits(World, key, value)
BY DEF Rows, Fits

LEMMA WorldIsTyped ==
    ASSUME world \in DOMAIN AllOf
    PROVE  /\ \A key \in DOMAIN World.settings : <<key, World.settings[key]>> \in Rows
           /\ World.ceilings["agent"] \in Nat /\ World.ceilings["dashboard"] \in Nat
           /\ \A form \in World.forms : form.ceiling \in Int
           /\ World.saves \in Nat /\ World.failures \in Nat /\ World.last \in Nat
<1>1. /\ \A key \in DOMAIN World.settings : Fits(World, key, World.settings[key])
      /\ {World.ceilings["agent"], World.ceilings["dashboard"]} \subseteq Nat
      /\ \A form \in World.forms : form.ceiling \in Int
      /\ {World.saves, World.failures, World.last} \subseteq Nat
  BY WorldsAreTyped DEF World
<1> QED
  BY <1>1, FitsIsRow

(* What the settings are worth, read with the defaults.                    *)
LEMMA SettingsAreWorth ==
    ASSUME world \in DOMAIN AllOf, SettingsFit
    PROVE  /\ Mode \in Modes /\ Stored("processing_mode", "manual") \in Modes
           /\ \A p \in {"agent", "dashboard"} : Ceiling(p) \in Nat
           /\ IsKey(Stored("license_key", Blank))
<1>1. "processing_mode" \in DOMAIN settings => settings["processing_mode"] \in Modes
  BY DEF SettingsFit, Rows
<1>2. "max_runs_per_hour" \in DOMAIN settings => settings["max_runs_per_hour"] \in Nat
  BY DEF SettingsFit, Rows
<1>3. "license_key" \in DOMAIN settings => settings["license_key"] \in World.keys
  BY DEF SettingsFit, Rows
<1>4. Mode \in Modes /\ Stored("processing_mode", "manual") \in Modes
  BY <1>1 DEF Mode, Stored, Modes, Blank
<1>5. \A p \in {"agent", "dashboard"} : Ceiling(p) \in Nat
  BY <1>2, WorldIsTyped DEF Ceiling, Stored
<1>6. IsKey(Stored("license_key", Blank))
  BY <1>3 DEF IsKey, Stored
<1> QED
  BY <1>4, <1>5, <1>6

LEMMA TypesSuffice ==
    ASSUME TypeInv, ProxyInv, SchemaTypeOK PROVE ConsoleTypeOK
<1>1. DOMAIN settings \subseteq
          {"processing_mode", "max_runs_per_hour", "license_key", "api_auth_token"}
  BY DEF TypeInv, SettingsFit, Rows
<1>2. override \in Texts \cup {Blank}
  BY DEF TypeInv, AgentTyped, IsKey, Texts
<1>3. \A t \in World.tabs : fetches[t].pc \in {"none", "asked", "apply"}
  BY DEF TypeInv, AgentTyped, Fetches
<1> QED
  BY <1>1, <1>2, <1>3, SettingsAreWorth
  DEF TypeInv, AgentTyped, ConsoleTypeOK, Counted, IsTyped, Works, Tasks

-----------------------------------------------------------------------------
(* The types at the start, and in the steps of the tabs.                   *)

LEMMA InitTypes == Init => TypeInv
<1> SUFFICES ASSUME Init PROVE TypeInv
  OBVIOUS
<1>1. world \in DOMAIN AllOf /\ settings = World.settings
  BY DEF Init
<1>2. SettingsFit
  BY <1>1, WorldIsTyped DEF SettingsFit
<1>3. AgentTyped
  BY DEF Init, AgentTyped, IsKey, Fetches, NoFetch, Tasks, IdleTask
<1>4. Counted
  BY <1>1, WorldIsTyped DEF Init, Counted
<1>5. IsTyped(IdleTab) /\ Works(IdleTab)
  BY DEF IsTyped, Works, IdleTab, NoPage
<1> QED
  BY <1>1, <1>2, <1>3, <1>4, <1>5 DEF Init, TypeInv

(* The world stays, and with it all that is typed by it.                   *)
LEMMA SameTypes ==
    ASSUME world' = world
    PROVE  World' = World /\ Rows' = Rows
BY DEF World, AllOf, Rows

LEMMA SchemaStaysServes ==
    ASSUME SchemaStays
    PROVE  /\ DashboardServes' = DashboardServes
           /\ Starting("agent", "up")' = Starting("agent", "up")
BY DEF SchemaStays, schemaVars, DashboardServes, Starting

(* A step of one tab that writes nothing, with one request for a license.  *)
LEMMA OneTabTyped ==
    ASSUME TypeInv, ProxyInv, NEW t \in World.tabs, NEW tab,
           tabs' = [tabs EXCEPT ![t] = tab], IsTyped(tab), Works(tab), SchemaStays,
           UNCHANGED <<world, settings, override, loaded, task, now>>,
           fetches' \in Fetches, Counted'
    PROVE  TypeInv'
<1>1. World' = World /\ Rows' = Rows
  BY SameTypes
<1>2. DashboardServes' = DashboardServes /\ Starting("agent", "up")' = Starting("agent", "up")
  BY SchemaStaysServes
<1>3. SettingsFit' /\ world' \in DOMAIN AllOf'
  BY <1>1 DEF TypeInv, SettingsFit, AllOf
<1>4. AgentTyped'
  BY <1>1, <1>2 DEF TypeInv, AgentTyped, IsKey, Fetches, Tasks
<1>5. ASSUME NEW u \in World.tabs PROVE (IsTyped(tabs[u]) /\ Works(tabs[u]))'
  <2>1. tabs'[u] = tab \/ tabs'[u] = tabs[u]
    BY DEF ProxyInv
  <2>2. IsTyped(tabs[u]) /\ Works(tabs[u])
    BY DEF TypeInv
  <2> QED
    BY <1>1, <1>2, <2>1, <2>2 DEF IsTyped, Works
<1> QED
  BY <1>1, <1>3, <1>4, <1>5 DEF TypeInv

(* A step that leaves the tabs alone.                                      *)
LEMMA NoTabTyped ==
    ASSUME TypeInv, SchemaStays, UNCHANGED <<world, tabs>>,
           SettingsFit', AgentTyped', Counted'
    PROVE  TypeInv'
<1>1. World' = World /\ Rows' = Rows
  BY SameTypes
<1>2. DashboardServes' = DashboardServes
  BY SchemaStaysServes
<1>3. ASSUME NEW t \in World.tabs PROVE (IsTyped(tabs[t]) /\ Works(tabs[t]))'
  BY <1>1, <1>2 DEF TypeInv, IsTyped, Works
<1> QED
  BY <1>1, <1>3 DEF TypeInv, AllOf

LEMMA FitsStays ==
    ASSUME SettingsFit, UNCHANGED <<world, settings>> PROVE SettingsFit'
BY SameTypes DEF SettingsFit

LEMMA CountersStay ==
    ASSUME Counted, UNCHANGED <<world, saves, failures, now>> PROVE Counted'
BY DEF Counted, World, AllOf

(* A failed read is counted.                                               *)
LEMMA FailureCounts ==
    ASSUME TypeInv, failures < World.failures, failures' = failures + 1,
           UNCHANGED <<world, saves, now>>
    PROVE  Counted'
BY WorldIsTyped DEF TypeInv, Counted, World, AllOf

LEMMA WriteFits ==
    ASSUME SettingsFit, world' = world, NEW key, NEW value, NEW was,
           <<key, value>> \in Rows, settings' = Written(key, value, was)
    PROVE  SettingsFit'
<1>1. Rows' = Rows
  BY SameTypes
<1>2. CASE settings' = settings
  BY <1>1, <1>2 DEF SettingsFit
<1>3. CASE settings' = Put(key, value)
  BY <1>1, <1>3 DEF SettingsFit, Put
<1> QED
  BY <1>2, <1>3 DEF Written

LEMMA FormRowsFit ==
    ASSUME NEW form, form.ceiling \in Int
    PROVE  FormRows(form) \in Seq(Rows) /\ FormRows(form) # <<>>
<1> DEFINE n == IF form.ceiling < 0 THEN 0 ELSE form.ceiling
           m == IF form.mode \in Modes THEN form.mode ELSE "autopilot"
<1>1. n \in Nat /\ m \in Modes
  BY DEF Modes
<1> HIDE DEF n, m
<1>2. <<"max_runs_per_hour", n>> \in Rows /\ <<"processing_mode", m>> \in Rows
  BY <1>1 DEF Rows
<1>3. <<<<"max_runs_per_hour", n>>, <<"processing_mode", m>>>> \in Seq(Rows)
  BY <1>2
<1> QED
  BY <1>3 DEF FormRows, n, m

LEMMA SubmitTyped ==
    ASSUME TypeInv, ProxyInv, NEW t \in World.tabs, NEW rows,
           rows \in Seq(Rows), rows # <<>>, Submit(t, rows)
    PROVE  TypeInv'
<1> DEFINE tab == [tabs[t] EXCEPT !.pc = "read", !.left = rows]
<1>1. IsTyped(tabs[t]) /\ IsTab(tabs[t]) /\ DashboardServes
  BY DEF TypeInv, ProxyInv, Submit
<1>2. IsTyped(tab) /\ Works(tab)
  BY <1>1 DEF IsTyped, Works, IsTab, TabFields
<1>3. Counted'
  BY WorldIsTyped DEF TypeInv, Counted, Submit, World, AllOf
<1> QED
  BY <1>2, <1>3, OneTabTyped DEF Submit, TabBecomes, AgentStays, TypeInv, AgentTyped

LEMMA PageTyped ==
    ASSUME TypeInv, ProxyInv, NEW t \in World.tabs,
           Open(t) \/ SaveForm(t) \/ SaveLicense(t) \/ SaveToken(t) \/ ReadRow(t)
    PROVE  TypeInv'
<1>1. IsTyped(tabs[t]) /\ Works(tabs[t]) /\ IsTab(tabs[t]) /\ fetches \in Fetches
  BY DEF TypeInv, ProxyInv, AgentTyped
<1>2. CASE Open(t)
  <2> DEFINE page == [mode |-> Mode, ceiling |-> Ceiling("dashboard")]
             tab == [tabs[t] EXCEPT !.page = page]
  <2>1. page.ceiling \in Int
    BY SettingsAreWorth DEF TypeInv
  <2> HIDE DEF page
  <2>2. IsTyped(tab) /\ Works(tab)
    BY <1>1, <2>1 DEF IsTyped, Works, IsTab, TabFields
  <2>3. tabs' = [tabs EXCEPT ![t] = tab]
    BY <1>2 DEF Open, TabBecomes, page
  <2>4. fetches' \in Fetches
    BY <1>1, <1>2 DEF Open, Fetches
  <2>5. Counted'
    BY <1>2, CountersStay DEF Open, TypeInv
  <2> QED
    BY <1>2, <2>2, <2>3, <2>4, <2>5, OneTabTyped DEF Open
<1>3. CASE SaveForm(t)
  <2>1. PICK form \in {tabs[t].page} \cup World.forms : Submit(t, FormRows(form))
    BY <1>3 DEF SaveForm
  <2>2. form.ceiling \in Int
    BY <1>1, WorldIsTyped DEF IsTyped, TypeInv
  <2> QED
    BY <2>1, <2>2, FormRowsFit, SubmitTyped
<1>4. ASSUME NEW key, NEW value, <<key, value>> \in Rows, Submit(t, <<<<key, value>>>>)
      PROVE  TypeInv'
  <2>1. <<<<key, value>>>> \in Seq(Rows) /\ <<<<key, value>>>> # <<>>
    BY <1>4
  <2> QED
    BY <1>4, <2>1, SubmitTyped
<1>5. CASE SaveLicense(t)
  BY <1>4, <1>5 DEF SaveLicense, Rows
<1>6. CASE SaveToken(t)
  BY <1>4, <1>6 DEF SaveToken, Rows
<1>7. CASE ReadRow(t)
  <2>1. PICK was : tabs' = [tabs EXCEPT ![t] = [tabs[t] EXCEPT !.pc = "write", !.was = was]]
    BY <1>7 DEF ReadRow, TabBecomes
  <2>2. /\ IsTyped([tabs[t] EXCEPT !.pc = "write", !.was = was])
        /\ Works([tabs[t] EXCEPT !.pc = "write", !.was = was])
    BY <1>1, <1>7 DEF IsTyped, Works, IsTab, TabFields, ReadRow, Tab
  <2>3. SchemaStays /\ UNCHANGED <<world, settings, override, loaded, fetches, task,
                                    saves, failures, now>>
    BY <1>7 DEF ReadRow, OnlyTabs, AgentStays
  <2> QED
    BY <1>1, <2>1, <2>2, <2>3, OneTabTyped, CountersStay DEF TypeInv
<1> QED
  BY <1>2, <1>3, <1>5, <1>6, <1>7

LEMMA WriteRowTyped ==
    ASSUME TypeInv, ProxyInv, NEW t \in World.tabs, WriteRow(t) PROVE TypeInv'
<1> DEFINE key == Head(tabs[t].left)[1]
           value == Head(tabs[t].left)[2]
           rest == Tail(tabs[t].left)
           changes == key = "api_auth_token" /\ settings' # settings
<1>1. /\ UNCHANGED <<world, override, loaded, fetches, task, saves, failures, now>>
      /\ SchemaStays /\ tabs[t].pc = "write"
  BY DEF WriteRow, AgentStays, Tab
<1>2. /\ tabs[t].left \in Seq(Rows) /\ tabs[t].left # <<>> /\ DashboardServes
      /\ SettingsFit /\ Counted /\ AgentTyped
  BY <1>1 DEF TypeInv, IsTyped, Works
<1>3. Head(tabs[t].left) \in Rows /\ rest \in Seq(Rows)
  BY <1>2
<1>4. <<key, value>> \in Rows
  BY <1>3 DEF Rows
<1>5. CASE Conflicts(key, tabs[t].was)
  <2> DEFINE tab == [tabs[t] EXCEPT !.pc = "idle", !.left = <<>>, !.was = <<>>]
  <2>1. tabs' = [tabs EXCEPT ![t] = tab] /\ UNCHANGED settings
    BY <1>5 DEF WriteRow, TabBecomes
  <2>2. IsTyped(tab) /\ Works(tab)
    BY DEF TypeInv, ProxyInv, IsTyped, Works, IsTab, TabFields
  <2> QED
    BY <1>1, <1>2, <2>1, <2>2, OneTabTyped, CountersStay DEF AgentTyped
<1>6. CASE ~Conflicts(key, tabs[t].was)
  <2> HIDE DEF key, value, rest, changes
  <2>1. /\ settings' = Written(key, value, tabs[t].was)
        /\ tabs' = [u \in World.tabs |->
              IF u # t THEN Excused(u, changes)
              ELSE [Excused(u, changes) EXCEPT !.left = rest, !.was = <<>>,
                                               !.pc = IF rest = <<>> THEN "idle" ELSE "read"]]
    BY <1>6 DEF WriteRow, key, value, rest, changes
  <2>2. SettingsFit'
    BY <1>1, <1>2, <1>4, <2>1, WriteFits
  <2>3. World' = World /\ Rows' = Rows
    BY <1>1, SameTypes
  <2>4. /\ DashboardServes' = DashboardServes
        /\ Starting("agent", "up")' = Starting("agent", "up")
    BY <1>1, SchemaStaysServes
  <2>5. AgentTyped' /\ Counted'
    BY <1>1, <1>2, <2>3, <2>4, CountersStay DEF AgentTyped, IsKey, Fetches, Tasks
  <2>6. ASSUME NEW u \in World.tabs PROVE (IsTyped(tabs[u]) /\ Works(tabs[u]))'
    <3> DEFINE old == Excused(u, changes)
               label == IF rest = <<>> THEN "idle" ELSE "read"
    <3>1. /\ IsTyped(old) /\ old = [f \in TabFields |-> old[f]]
      BY DEF TypeInv, ProxyInv, IsTyped, IsTab, TabFields, Excused
    <3>2. \/ tabs'[u] = old
          \/ tabs'[u] = [old EXCEPT !.left = rest, !.was = <<>>, !.pc = label]
      BY <2>1
    <3>3. label \in {"idle", "read"} /\ (label = "read" <=> rest # <<>>)
      OBVIOUS
    <3> HIDE DEF old, label
    <3>4. rest \in Seq(Rows)
      BY <1>3 DEF rest
    <3>5. IsTyped(tabs'[u])
      BY <3>1, <3>2, <3>3, <3>4 DEF IsTyped, TabFields
    <3> QED
      BY <1>2, <2>3, <2>4, <3>5 DEF IsTyped, Works
  <2> QED
    BY <1>1, <2>2, <2>3, <2>5, <2>6 DEF TypeInv, AllOf
<1> QED
  BY <1>5, <1>6

LEMMA ProxyingTyped ==
    ASSUME TypeInv, ProxyInv, NEW t \in World.tabs, Proxying(t) PROVE TypeInv'
<1> DEFINE becomes(label, token, excused, refused) ==
             /\ tabs' = [tabs EXCEPT ![t] = [tabs[t] EXCEPT !.pc = label, !.token = token,
                                                !.excused = excused, !.refused = refused]]
             /\ tabs[t].pc \in {"idle", "forward", "check"}
             /\ label \in {"forward", "check", "idle"} /\ (label # "idle" => DashboardServes)
<1>1. IsTyped(tabs[t]) /\ Works(tabs[t]) /\ IsTab(tabs[t]) /\ fetches \in Fetches
  BY DEF TypeInv, ProxyInv, AgentTyped
<1>2. /\ SchemaStays /\ UNCHANGED <<world, settings, override, loaded, fetches, task, saves, now>>
      /\ \/ UNCHANGED failures
         \/ failures < World.failures /\ failures' = failures + 1
  BY DEF Proxying, Press, Forward, Check, OnlyTabs, OnlyTabsBut, Failing, AgentStays
<1>3. Counted'
  BY <1>2, CountersStay, FailureCounts DEF TypeInv
<1>4. PICK label, token, excused, refused : becomes(label, token, excused, refused)
  <2>1. CASE Press(t)
    <3>1. [tabs[t] EXCEPT !.pc = "forward", !.refused = FALSE] =
          [tabs[t] EXCEPT !.pc = "forward", !.token = tabs[t].token,
                          !.excused = tabs[t].excused, !.refused = FALSE]
      BY <1>1 DEF IsTab, TabFields
    <3>2. becomes("forward", tabs[t].token, tabs[t].excused, FALSE)
      BY <2>1, <3>1 DEF Press, TabBecomes, Tab
    <3> HIDE DEF becomes
    <3> QED
      BY <3>2
  <2>2. ASSUME NEW fails \in BOOLEAN, Forward(t, fails)
        PROVE  \E label, token, excused, refused : becomes(label, token, excused, refused)
    <3> DEFINE label == IF AgentServes THEN "check" ELSE "idle"
               token == IF fails THEN World.tokenEnv ELSE ForwardedToken
    <3>1. [tabs[t] EXCEPT !.pc = label, !.token = token, !.excused = fails] =
          [tabs[t] EXCEPT !.pc = label, !.token = token, !.excused = fails,
                          !.refused = tabs[t].refused]
      BY <1>1 DEF IsTab, TabFields
    <3>2. tabs' = [tabs EXCEPT ![t] = [tabs[t] EXCEPT !.pc = label, !.token = token,
                                                     !.excused = fails]]
      BY <2>2 DEF Forward, TabBecomes
    <3>3. tabs[t].pc = "forward" /\ DashboardServes /\ label \in {"check", "idle"}
      BY <1>1, <2>2 DEF Forward, Tab, Works
    <3> HIDE DEF label, token
    <3>4. becomes(label, token, fails, tabs[t].refused)
      BY <3>1, <3>2, <3>3
    <3> HIDE DEF becomes
    <3> QED
      BY <3>4
  <2>3. ASSUME NEW fails \in BOOLEAN, Check(t, fails)
        PROVE  \E label, token, excused, refused : becomes(label, token, excused, refused)
    <3>1. PICK refused, excused :
             tabs' = [tabs EXCEPT ![t] = [tabs[t] EXCEPT !.pc = "idle", !.refused = refused,
                                                        !.excused = excused]]
      BY <2>3 DEF Check, TabBecomes
    <3>2. [tabs[t] EXCEPT !.pc = "idle", !.refused = refused, !.excused = excused] =
          [tabs[t] EXCEPT !.pc = "idle", !.token = tabs[t].token,
                          !.excused = excused, !.refused = refused]
      BY <1>1 DEF IsTab, TabFields
    <3>3. becomes("idle", tabs[t].token, excused, refused)
      BY <2>3, <3>1, <3>2 DEF Check, Tab
    <3> HIDE DEF becomes
    <3> QED
      BY <3>3
  <2> HIDE DEF becomes
  <2> QED
    BY <2>1, <2>2, <2>3 DEF Proxying
<1> DEFINE tab == [tabs[t] EXCEPT !.pc = label, !.token = token,
                                  !.excused = excused, !.refused = refused]
<1>5. IsTyped(tab) /\ Works(tab)
  BY <1>1, <1>4 DEF IsTyped, Works, IsTab, TabFields
<1> QED
  BY <1>1, <1>2, <1>3, <1>4, <1>5, OneTabTyped

-----------------------------------------------------------------------------
(* ... and in those of the agent and of the clock.                         *)

LEMMA LicenseTyped ==
    ASSUME TypeInv, LoadLicense \/ \E t \in World.tabs : Fetching(t) PROVE TypeInv'
<1>1. /\ IsKey(override) /\ fetches \in Fetches /\ task \in Tasks
      /\ IsKey(Stored("license_key", Blank)) /\ IsKey(Blank)
  BY SettingsAreWorth DEF TypeInv, AgentTyped, IsKey
<1>2. /\ SchemaStays /\ UNCHANGED <<world, settings, task, tabs, saves, now>>
      /\ \/ UNCHANGED failures
         \/ failures < World.failures /\ failures' = failures + 1
  BY DEF LoadLicense, Fetching, ReadKey, ApplyKey, FetchBecomes
<1>3. Counted' /\ SettingsFit'
  <2>1. Counted /\ SettingsFit
    BY DEF TypeInv
  <2>2. Counted'
    BY <1>2, <2>1, CountersStay, FailureCounts
  <2>3. UNCHANGED <<world, settings>>
    BY <1>2
  <2>4. SettingsFit'
    BY <2>1, <2>3, FitsStays
  <2> QED
    BY <2>2, <2>4
<1>4. World' = World /\ Starting("agent", "up")' = Starting("agent", "up")
  BY <1>2, SameTypes, SchemaStaysServes
<1>5. CASE LoadLicense
  <2>1. IsKey(override') /\ fetches' = fetches /\ Starting("agent", "up")
    BY <1>1, <1>5 DEF LoadLicense, Applied
  <2>2. AgentTyped'
    BY <1>1, <1>2, <1>4, <2>1 DEF AgentTyped, IsKey, Fetches, Tasks
  <2> QED
    BY <1>2, <1>3, <2>2, NoTabTyped
<1>6. ASSUME NEW t \in World.tabs, Fetching(t) PROVE TypeInv'
  <2>1. IsKey(fetches[t].key) /\ loaded' = loaded
    BY <1>1, <1>6 DEF Fetches, IsKey, Fetching, ReadKey, ApplyKey, FetchBecomes
  <2>2. IsKey(override')
    BY <1>1, <1>6, <2>1 DEF Fetching, ReadKey, ApplyKey, Applied
  <2>3. fetches' \in Fetches
    BY <1>1, <1>6 DEF Fetching, ReadKey, ApplyKey, FetchBecomes, NoFetch, Fetches, IsKey
  <2>4. AgentTyped'
    BY <1>1, <1>2, <1>4, <2>1, <2>2, <2>3
    DEF TypeInv, AgentTyped, IsKey, Fetches, Tasks
  <2> QED
    BY <1>2, <1>3, <2>4, NoTabTyped
<1> QED
  BY <1>5, <1>6

LEMMA TaskTyped ==
    ASSUME TypeInv, Alert PROVE TypeInv'
<1>1. /\ SchemaStays /\ UNCHANGED <<world, override, loaded, fetches, tabs, saves,
                                   failures, now>>
  BY DEF Alert, Fire, TripRead, Trip, Stage, OnlyTask
<1>2. task' \in Tasks'
  BY DEF TypeInv, AgentTyped, Alert, Fire, TripRead, Trip, Stage, IdleTask, Tasks
<1>3. SettingsFit'
  <2>1. CASE UNCHANGED settings
    BY <1>1, <2>1, FitsStays DEF TypeInv
  <2>2. CASE settings' = Written("processing_mode", "manual", task.was)
    <3>1. <<"processing_mode", "manual">> \in Rows
      BY DEF Rows, Modes
    <3> QED
      BY <1>1, <2>2, <3>1, WriteFits DEF TypeInv
  <2> QED
    BY <2>1, <2>2 DEF Alert, Fire, TripRead, Trip, Stage, OnlyTask
<1>4. World' = World /\ Starting("agent", "up")' = Starting("agent", "up")
  BY <1>1, SameTypes, SchemaStaysServes
<1>5. AgentTyped' /\ Counted'
  BY <1>1, <1>2, <1>4, CountersStay DEF TypeInv, AgentTyped, IsKey, Fetches
<1> QED
  BY <1>1, <1>3, <1>5, NoTabTyped

LEMMA TickTyped == ASSUME TypeInv, Tick PROVE TypeInv'
<1>1. SchemaStays /\ UNCHANGED <<world, settings, tabs, override, loaded, fetches, task>>
  BY DEF Tick, AgentStays
<1>2. World' = World /\ Starting("agent", "up")' = Starting("agent", "up")
  BY <1>1, SameTypes, SchemaStaysServes
<1>3. Counted'
  BY <1>2, WorldIsTyped DEF TypeInv, Counted, Tick
<1>4. AgentTyped' /\ SettingsFit'
  BY <1>1, <1>2, FitsStays DEF TypeInv, AgentTyped, IsKey, Fetches, Tasks
<1> QED
  BY <1>1, <1>3, <1>4, NoTabTyped

(* A process that starts was not up, and takes nothing from the schema.    *)
LEMMA BootsTyped ==
    ASSUME TypeInv, SchemaTypeOK, NEW p \in World.processes, Boots(p) PROVE TypeInv'
<1>1. UNCHANGED consoleVars /\ p \in Processes
  BY WorldProcesses DEF Boots, TypeInv
<1>2. pc[p] # "up" /\ columns \subseteq columns' /\ image' = image
      /\ \E label : pc' = [pc EXCEPT ![p] = label]
  BY DEF Boots, Start, Boot, Detect, ReadTables, CreateAll, Stamp, ReadVersion, Upgrade,
         Starting, Moves, NoChange
<1>3. \A q \in {"agent", "dashboard"} : Starting(q, "up") => Starting(q, "up")'
  BY <1>2, ConsoleAssumption DEF SchemaTypeOK, Starting
<1>4. DashboardServes => DashboardServes'
  BY <1>2, <1>3 DEF DashboardServes
<1>5. World' = World /\ Rows' = Rows
  BY <1>1, SameTypes DEF consoleVars
<1>6. AgentTyped' /\ SettingsFit' /\ Counted'
  BY <1>1, <1>3, <1>5, FitsStays, CountersStay
  DEF consoleVars, TypeInv, AgentTyped, IsKey, Fetches, Tasks
<1>7. ASSUME NEW t \in World.tabs PROVE (IsTyped(tabs[t]) /\ Works(tabs[t]))'
  BY <1>1, <1>4, <1>5 DEF consoleVars, TypeInv, IsTyped, Works
<1> QED
  BY <1>1, <1>5, <1>6, <1>7 DEF TypeInv, AllOf, consoleVars

(* A process that dies leaves the schema, and no work of its own.          *)
LEMMA LostTyped ==
    ASSUME TypeInv, ProxyInv, SchemaTypeOK, NEW p \in World.processes,
           Crashes(p) \/ Deploys(p)
    PROVE  TypeInv'
<1>1. Lost(p) /\ p \in Processes /\ columns' = columns
  BY WorldProcesses DEF Crashes, Deploys, Crash, Deploy, TypeInv
<1>2. \A q \in Processes \ {p} : pc'[q] = pc[q] /\ image'[q] = image[q]
  BY DEF Crashes, Deploys, Crash, Deploy, Moves, SchemaTypeOK
<1>3. UNCHANGED <<world, settings, saves, failures, now>>
  BY <1>1 DEF Lost
<1>4. World' = World /\ Rows' = Rows
  BY <1>3, SameTypes
<1>5. SettingsFit' /\ Counted'
  BY <1>3, FitsStays, CountersStay DEF TypeInv
<1>6. AgentTyped'
  <2>1. CASE p = "agent"
    BY <1>1, <1>4, <2>1 DEF Lost, AgentTyped, IsKey, Fetches, NoFetch, Tasks, IdleTask
  <2>2. CASE p # "agent"
    <3>1. Starting("agent", "up")' = Starting("agent", "up")
      BY <1>2, <2>2, ConsoleAssumption DEF Starting
    <3>2. UNCHANGED <<override, loaded, fetches, task>>
      BY <1>1, <2>2 DEF Lost
    <3> QED
      BY <1>4, <3>1, <3>2 DEF TypeInv, AgentTyped, IsKey, Fetches, Tasks
  <2> QED
    BY <2>1, <2>2
<1>7. ASSUME NEW t \in World.tabs PROVE (IsTyped(tabs[t]) /\ Works(tabs[t]))'
  <2>1. IsTyped(tabs[t]) /\ Works(tabs[t]) /\ IsTab(tabs[t])
    BY DEF TypeInv, ProxyInv
  <2>2. CASE p = "dashboard"
    <3>1. tabs'[t] = [IdleTab EXCEPT !.page = tabs[t].page]
      BY <1>1, <2>2 DEF Lost
    <3>2. IsTyped(tabs'[t]) /\ tabs'[t].pc = "idle"
      BY <2>1, <3>1 DEF IsTyped, IdleTab
    <3> QED
      BY <1>4, <3>2 DEF IsTyped, Works
  <2>3. CASE p # "dashboard"
    <3>1. DashboardServes' = DashboardServes
      BY <1>1, <1>2, <2>3, ConsoleAssumption DEF DashboardServes, Starting
    <3>2. \/ tabs'[t] = tabs[t]
          \/ tabs[t].pc = "check" /\ tabs'[t] = [tabs[t] EXCEPT !.pc = "idle"]
      BY <1>1, <2>3 DEF Lost, Tab
    <3>3. IsTyped(tabs'[t]) /\ (tabs'[t].pc # "idle" => DashboardServes)
      BY <2>1, <3>2 DEF IsTyped, Works, IsTab, TabFields
    <3> QED
      BY <1>4, <3>1, <3>3 DEF IsTyped, Works
  <2> QED
    BY <2>2, <2>3
<1> QED
  BY <1>3, <1>4, <1>5, <1>6, <1>7 DEF TypeInv, AllOf

LEMMA StutterTyped == ASSUME TypeInv, UNCHANGED vars PROVE TypeInv'
<1>1. SchemaStays /\ UNCHANGED consoleVars
  BY DEF vars, SchemaStays
<1>2. World' = World /\ Starting("agent", "up")' = Starting("agent", "up")
  BY <1>1, SameTypes, SchemaStaysServes DEF consoleVars
<1>3. AgentTyped' /\ SettingsFit' /\ Counted'
  BY <1>1, <1>2, FitsStays, CountersStay
  DEF consoleVars, TypeInv, AgentTyped, IsKey, Fetches, Tasks
<1> QED
  BY <1>1, <1>3, NoTabTyped DEF consoleVars

LEMMA NextConsoleTypes ==
    TypeInv /\ ProxyInv /\ SchemaTypeOK /\ [Next]_vars => TypeInv'
<1> SUFFICES ASSUME TypeInv, ProxyInv, SchemaTypeOK, [Next]_vars PROVE TypeInv'
  OBVIOUS
<1>1. ASSUME NEW p \in World.processes, Boots(p) \/ Crashes(p) \/ Deploys(p) PROVE TypeInv'
  BY <1>1, BootsTyped, LostTyped
<1>2. CASE LoadLicense \/ Alert \/ Tick
  BY <1>2, LicenseTyped, TaskTyped, TickTyped
<1>3. ASSUME NEW t \in World.tabs,
             \/ Open(t) \/ SaveForm(t) \/ SaveLicense(t) \/ SaveToken(t)
             \/ Saving(t) \/ Fetching(t) \/ Proxying(t)
      PROVE  TypeInv'
  BY <1>3, PageTyped, WriteRowTyped, LicenseTyped, ProxyingTyped DEF Saving
<1> QED
  BY <1>1, <1>2, <1>3, StutterTyped DEF Next

(* The types, for every number of tabs and every order of their writes:    *)
(* what is stored is what the forms' clamps allow, although a page shows   *)
(* values that were read long ago and writes them back; and a request is   *)
(* at work only while the dashboard serves.                                *)
THEOREM SettingsAreTyped == Spec => []ConsoleTypeOK
<1>1. Spec => []ProxyInv
  BY InitProxy, NextProxy, PTL DEF Spec
<1>2. Spec => []SchemaTypeOK
  BY ConsoleImplementsSchema, SchemaInvHolds, SchemaInvSuffices, PTL
<1>3. Spec => []TypeInv
  BY <1>1, <1>2, InitTypes, NextConsoleTypes, PTL DEF Spec
<1> QED
  BY <1>1, <1>2, <1>3, TypesSuffice, PTL
=============================================================================
