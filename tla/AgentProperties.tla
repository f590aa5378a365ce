-------------------------- MODULE AgentProperties --------------------------
(***************************************************************************)
(* What the agent should guarantee, in whole or under the conditions that  *)
(* each comment names.                                                     *)
(***************************************************************************)
EXTENDS Agent

(* Every variable has the type that its declaration announces.             *)
TypeOK ==
    /\ lastRun \in Nat
    /\ DOMAIN runs \subseteq 1..lastRun
    /\ \A r \in DOMAIN runs : runs[r] \in Row
    /\ tasks \in Seq(Task)
    /\ mode \in Modes
    /\ DOMAIN prs \subseteq DOMAIN tasks
    /\ \A t \in DOMAIN prs : prs[t] \in {"open", "closed", "merged"}
    /\ now \in Nat
    /\ handlers \in [Handlers -> Handler]
    /\ dispatchers \in [Dispatchers -> Dispatcher]
    /\ poller \in Poller

-----------------------------------------------------------------------------
(* The queue.                                                              *)

(* A run waiting for dispatch has no pipeline at work on it, so that       *)
(* dispatching it in place (trigger_dispatch) starts the only one.         *)
QueuedIsIdle ==
    \A t \in DOMAIN tasks :
        Live(t) /\ tasks[t].run \in DOMAIN runs
            => runs[tasks[t].run].status # "queued"

(* The queue never holds one alert twice.  This is what the duplicate      *)
(* check of the webhook is for (dedup.py: "that's how 2,419 queued rows    *)
(* accumulate in manual mode").  Two requests at once break it.            *)
OneQueuedPerKey ==
    \A r, q \in ListQueued(runs) :
        runs[r].alert.key = runs[q].alert.key => r = q

(* One alert has at most one run that is waiting or in flight.             *)
OneOpenRunPerKey ==
    \A r, q \in DOMAIN runs :
        /\ runs[r].alert.key = runs[q].alert.key
        /\ runs[r].status \notin TerminalStatuses
        /\ runs[q].status \notin TerminalStatuses
        => r = q

-----------------------------------------------------------------------------
(* Pull requests.                                                          *)

(* At most one pull request per alert is open on GitHub, through crashes   *)
(* at any point (process_alert's open-PR suppression together with the     *)
(* webhook's duplicate check).                                             *)
AtMostOneOpenPr ==
    \A p, q \in DOMAIN prs :
        /\ prs[p] = "open" /\ prs[q] = "open"
        /\ tasks[p].alert.key = tasks[q].alert.key
        => p = q

(* A pull request that is open on GitHub keeps later firings of its alert  *)
(* out: its run is on record with it as not yet closed, or has not settled *)
(* (even when the process died between creating and recording it).         *)
OpenPrSuppresses ==
    \A p \in DOMAIN prs :
        prs[p] = "open" =>
            /\ tasks[p].run \in DOMAIN runs
            /\ LET row == runs[tasks[p].run]
               IN  \/ row.status \notin TerminalStatuses
                   \/ row.pr = p /\ row.prStatus \notin {"closed", "merged"}

(* A run is on record as merged only when the pull request it carries has  *)
(* been merged, whatever the poller saw, missed or asked before a crash:   *)
(* the grace window and the next attempt's context rest on it.             *)
RecordedMergeIsReal ==
    \A r \in DOMAIN runs :
        runs[r].prStatus = "merged" =>
            /\ runs[r].pr \in DOMAIN prs
            /\ prs[runs[r].pr] = "merged"
            /\ runs[r].mergedAt \in 1..now

-----------------------------------------------------------------------------
(* Cost breaker.                                                           *)

(* The rows of the last hour whose pipeline the breaker let through.       *)
LetThrough ==
    {r \in RunsSince(runs, now) :
        \E t \in DOMAIN tasks : tasks[t].run = r /\ tasks[t].gate = "checked"}

(* However many runs race for it, the breaker lets fewer runs of any hour  *)
(* through than the ceiling: a row is inserted before it counts, so there  *)
(* is no window between the check and its effect.  Operator-initiated runs *)
(* and runs whose check raised are outside of it by design.                *)
SpendersWithinCeiling ==
    MaxRunsPerHour > 0 => Cardinality(LetThrough) < MaxRunsPerHour

-----------------------------------------------------------------------------
(* Progress.                                                               *)

Busy(r) == r \in DOMAIN runs /\ runs[r].status \in ActiveStatuses

(* Without failures every run that is under way settles, is parked for the *)
(* operator, or is pruned: no interleaving leaves a row that would         *)
(* suppress its alert for ever.                                            *)
EveryRunSettles ==
    \A r \in 1..MaxRuns : Busy(r) ~> ~Busy(r)

Unobserved(r) ==
    /\ r \in DOMAIN runs /\ runs[r].pr # NoPr
    /\ runs[r].prStatus \notin {"closed", "merged"}
    /\ prs[runs[r].pr] # "open"

(* A pull request that is closed or merged on GitHub is in time recorded   *)
(* as such, and stops suppressing its alert.                               *)
ClosedPrIsRecorded ==
    \A r \in 1..MaxRuns : Unobserved(r) ~> ~Unobserved(r)

(* The same for the rows whose pr_status has been set to "open".           *)
TrackedPrIsRecorded ==
    \A r \in 1..MaxRuns :
        Unobserved(r) /\ runs[r].prStatus = "open" ~> ~Unobserved(r)

-----------------------------------------------------------------------------
(* Refinement: the run table behaves as RunLifecycle promises.             *)
Lifecycle == INSTANCE RunLifecycle
    WITH Runs <- 1..MaxRuns,
         status <- [r \in DOMAIN runs |-> runs[r].status],
         key <- [r \in DOMAIN runs |-> runs[r].alert.key]

ImplementsLifecycle == Lifecycle!Spec
=============================================================================
