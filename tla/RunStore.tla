------------------------------ MODULE RunStore ------------------------------
(***************************************************************************)
(* The `run` table (src/db/models.py) and the queries and writes that the  *)
(* agent makes on it (src/db/repository.py, src/agent/dedup.py).           *)
(*                                                                         *)
(* The table is a function whose domain is the set of the ids of the rows  *)
(* that exist.  A write reads the row by id, returns at once when the      *)
(* pruner has deleted it, and otherwise commits: every operator below is   *)
(* one such transaction, a function from tables to tables.                 *)
(*                                                                         *)
(* Columns that no decision of the agent reads back (texts, logs, token    *)
(* counts, latencies) are left out.                                        *)
(***************************************************************************)
EXTENDS Naturals, FiniteSets, Functions

CONSTANTS
    Keys,       \* the dedup keys, "alertname:service:severity" in lower case
    Hour,       \* window of the runs-per-hour ceiling, in ticks of the clock
    Day,        \* window of the spend ceiling
    Backoff,    \* patch_backoff_minutes; 0 disables the backoff
    Grace,      \* post_merge_grace_minutes
    Retention   \* run_retention_days; 0 disables the pruner

ASSUME WindowsAssumption ==
    /\ Hour \in Nat
    /\ Day \in Nat
    /\ Backoff \in Nat
    /\ Grace \in Nat
    /\ Retention \in Nat

(* What the pipeline can tell of an alert: its dedup key, and whether the  *)
(* pre-filter lets it through (firing, not informational, not ignored, not *)
(* held by Flux, and of a service in the registry).                        *)
Alert == [key : Keys, actionable : BOOLEAN]

TerminalStatuses == {"done", "skipped", "failed"}
ActiveStatuses == {"pending", "triaging", "collecting", "investigating",
                   "generating", "posting"}
Statuses == {"queued"} \cup ActiveStatuses \cup TerminalStatuses

PrStatuses == {"null", "open", "closed", "merged"}

NoPr == 0
NoTime == 0

(* `pr` names the pull request by the task that opened it; `mergedAt` is   *)
(* NoTime until the merge has been observed (the clock starts at 1).       *)
Row == [alert : Alert, created : Nat, status : Statuses, spent : BOOLEAN,
        pr : Nat, prStatus : PrStatuses, mergedAt : Nat]

-----------------------------------------------------------------------------
(* Writes.                                                                 *)

FreshRow(alert, now) ==
    [alert |-> alert, created |-> now, status |-> "pending", spent |-> FALSE,
     pr |-> NoPr, prStatus |-> "null", mergedAt |-> NoTime]

Put(f, x, v) == [y \in DOMAIN f \cup {x} |-> IF y = x THEN v ELSE f[y]]

CreateRun(store, r, alert, now) == Put(store, r, FreshRow(alert, now))

UpdateStatus(store, r, s) ==
    IF r \in DOMAIN store THEN [store EXCEPT ![r].status = s] ELSE store

RecordLlmResponse(store, r) ==
    IF r \in DOMAIN store THEN [store EXCEPT ![r].spent = TRUE] ELSE store

RecordPr(store, r, pr) ==
    IF r \in DOMAIN store THEN [store EXCEPT ![r].pr = pr] ELSE store

(* Mutant of UpdatePrStatus: the merge is never stamped.                   *)
UpdatePrStatusUnstamped(store, r, s, now) ==
    IF r \in DOMAIN store THEN [store EXCEPT ![r].prStatus = s] ELSE store

(* The merge is stamped the first time it is observed.                     *)
UpdatePrStatus(store, r, s, now) ==
    IF r \in DOMAIN store
    THEN [store EXCEPT ![r].prStatus = s,
                       ![r].mergedAt = IF s = "merged" /\ @ = NoTime
                                       THEN now ELSE @]
    ELSE store

DeleteOlder(store, now) ==
    Restrict(store, {r \in DOMAIN store : store[r].created + Retention >= now})

-----------------------------------------------------------------------------
(* Queries: the set of the rows that the SQL selects.                      *)

(* Mutants of OpenStatuses: one phase is left out of the list.             *)
OpenStatusesWithoutQueued == {"pending", "collecting", "generating", "posting"}
OpenStatusesWithoutPosting == {"queued", "pending", "collecting", "generating"}

(* dedup._OPEN_STATUSES, as the code lists them.                           *)
OpenStatuses == {"queued", "pending", "collecting", "generating", "posting"}

FindOpenRun(store, key) ==
    {r \in DOMAIN store : /\ store[r].alert.key = key
                          /\ store[r].status \in OpenStatuses}

(* Mutant of FindBlockingOpenPr: NULL is not taken for open.               *)
FindTrackedOpenPr(store, key, self) ==
    {r \in DOMAIN store \ {self} :
        /\ store[r].alert.key = key
        /\ store[r].pr # NoPr
        /\ store[r].prStatus = "open"}

FindBlockingOpenPr(store, key, self) ==
    {r \in DOMAIN store \ {self} :
        /\ store[r].alert.key = key
        /\ store[r].pr # NoPr
        /\ store[r].prStatus \notin {"closed", "merged"}}

FindRecentUnproductive(store, key, self, now) ==
    {r \in DOMAIN store \ {self} :
        /\ store[r].alert.key = key
        /\ store[r].pr = NoPr
        /\ store[r].status \in {"done", "failed"}
        /\ store[r].created + Backoff >= now}

(* The caller looks at the latest merge only: some merge is within its     *)
(* grace exactly when the latest is.                                       *)
FindMergedWithinGrace(store, key, self, now) ==
    {r \in DOMAIN store \ {self} :
        /\ store[r].alert.key = key
        /\ store[r].prStatus = "merged"
        /\ store[r].mergedAt # NoTime
        /\ now < store[r].mergedAt + Grace}

RunsSince(store, now) ==
    {r \in DOMAIN store : store[r].created + Hour >= now}

(* Every run that reached synthesis counts for one unit of money.          *)
SpendersSince(store, now) ==
    {r \in DOMAIN store : store[r].created + Day >= now /\ store[r].spent}

(* SQL: `pr_status NOT IN (...)` is not true of NULL.                      *)
ListOpenPrs(store) ==
    {r \in DOMAIN store :
        /\ store[r].pr # NoPr
        /\ store[r].prStatus \notin {"null", "closed", "merged"}}

ListQueued(store) == {r \in DOMAIN store : store[r].status = "queued"}
=============================================================================
