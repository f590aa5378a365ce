------------------------------ MODULE Pipeline ------------------------------
(***************************************************************************)
(* process_alert (src/agent/processor.py): the pipeline that a background  *)
(* task runs on one row of the run table.  Any number of tasks run         *)
(* interleaved in one event loop; a task gives up control at every         *)
(* database transaction and at every call of a model, of Loki, Prometheus  *)
(* or GitHub, so each of those is one action.  `pc` names what the task    *)
(* does next.                                                              *)
(*                                                                         *)
(* The settings read at the start (triage and investigation on or off, the *)
(* confidence thresholds) and the answers of the models appear only in the *)
(* branch they decide, as a choice.                                        *)
(***************************************************************************)
EXTENDS RunStore, Sequences

CONSTANTS
    Integrations,    \* subset of {"triage", "investigation", "llm", "github"}
    Faults,          \* subset of {"database", "outage", "reply", "crash"}
    MaxRunsPerHour,  \* 0 disables the ceiling
    MaxUsdPerDay     \* 0 disables the ceiling

ASSUME CeilingsAssumption ==
    /\ Integrations \subseteq {"triage", "investigation", "llm", "github"}
    /\ Faults \subseteq {"database", "outage", "reply", "crash"}
    /\ MaxRunsPerHour \in Nat
    /\ MaxUsdPerDay \in Nat

VARIABLES
    runs,   \* the run table: a function from the ids that exist to rows
    tasks,  \* the background tasks, in the order they were created
    mode,   \* the setting processing_mode
    prs,    \* GitHub: task -> state of the pull request that it created
    now     \* the wall clock

pipelineVars == <<runs, tasks, mode, prs, now>>

Modes == {"autopilot", "manual"}

(* "enforced" and "exempt" are the two values of enforce_cost_breaker; an  *)
(* enforced task becomes "checked" when its count of the last hour's runs  *)
(* is under the ceiling, and "failsafe" when the breaker raised.           *)
Gates == {"enforced", "exempt", "checked", "failsafe"}

Ended == {"ended", "killed"}

Labels == {"settings", "breaker", "budget", "trip", "park", "dedup", "backoff",
           "grace", "skip", "triage", "triaging", "collect", "collecting",
           "investigate", "investigating", "generate", "generating", "record",
           "post", "opening", "recordpr", "patchfailed", "recordskip",
           "notify", "finish", "fail"} \cup Ended

Task == [pc : Labels, run : Nat, alert : Alert, gate : Gates, patch : BOOLEAN]

NewTask(r, alert, gate) ==
    [pc |-> "settings", run |-> r, alert |-> alert, gate |-> gate,
     patch |-> FALSE]

Live(t) == tasks[t].pc \notin Ended

-----------------------------------------------------------------------------
At(t, l) == tasks[t].pc = l

Goto(t, l) == tasks' = [tasks EXCEPT ![t].pc = l]

GotoGated(t, l, gate) ==
    tasks' = [tasks EXCEPT ![t] = [@ EXCEPT !.pc = l, !.gate = gate]]

GotoPatched(t, l, patch) ==
    tasks' = [tasks EXCEPT ![t] = [@ EXCEPT !.pc = l, !.patch = patch]]

SetStatus(t, s) == runs' = UpdateStatus(runs, tasks[t].run, s)

(* A step that changes nothing but the table and the task itself.          *)
Local == UNCHANGED <<mode, prs, now>>

(* A step that only reads.                                                 *)
ReadOnly == Local /\ UNCHANGED runs

-----------------------------------------------------------------------------
(* Settings, pre-filter, cost breaker.                                     *)

FilterSkips(t) ==
    /\ At(t, "settings")
    /\ ~tasks[t].alert.actionable
    /\ SetStatus(t, "skipped") /\ Goto(t, "ended") /\ Local

FilterPasses(t) ==
    /\ At(t, "settings")
    /\ tasks[t].alert.actionable
    /\ Goto(t, IF tasks[t].gate = "enforced" THEN "breaker" ELSE "dedup")
    /\ ReadOnly

(* Mutant of RunsCeilingReached: the ceiling itself is still let through.  *)
RunsCeilingExceeded ==
    /\ MaxRunsPerHour > 0
    /\ Cardinality(RunsSince(runs, now)) > MaxRunsPerHour

RunsCeilingReached ==
    /\ MaxRunsPerHour > 0
    /\ Cardinality(RunsSince(runs, now)) >= MaxRunsPerHour

SpendCeilingReached ==
    /\ MaxUsdPerDay > 0
    /\ Cardinality(SpendersSince(runs, now)) >= MaxUsdPerDay

CountRuns(t) ==
    /\ At(t, "breaker")
    /\ IF RunsCeilingReached THEN Goto(t, "trip")
                             ELSE GotoGated(t, "budget", "checked")
    /\ ReadOnly

SumSpend(t) ==
    /\ At(t, "budget")
    /\ Goto(t, IF SpendCeilingReached THEN "trip" ELSE "dedup")
    /\ ReadOnly

BreakerErrs(t) ==
    /\ "database" \in Faults
    /\ At(t, "breaker") \/ At(t, "budget")
    /\ GotoGated(t, "dedup", "failsafe")
    /\ ReadOnly

(* Mutant of Trip: the row's status is written where the mode belongs.     *)
TripWritesStatus(t) ==
    /\ At(t, "trip")
    /\ mode' = "queued"
    /\ Goto(t, "park")
    /\ UNCHANGED <<runs, prs, now>>

(* Tripping commits twice: the mode, then the row.                         *)
Trip(t) ==
    /\ At(t, "trip")
    /\ mode' = "manual"
    /\ Goto(t, "park")
    /\ UNCHANGED <<runs, prs, now>>

(* Mutant of Park: the return after parking is missing.                    *)
ParkWithoutReturn(t) ==
    /\ At(t, "park")
    /\ SetStatus(t, "queued") /\ Goto(t, "dedup") /\ Local

Park(t) ==
    /\ At(t, "park")
    /\ SetStatus(t, "queued") /\ Goto(t, "ended") /\ Local

-----------------------------------------------------------------------------
(* Suppression.                                                            *)

CheckOpenPr(t) ==
    /\ At(t, "dedup")
    /\ LET blockers == FindBlockingOpenPr(runs, tasks[t].alert.key, tasks[t].run)
       IN  Goto(t, IF blockers # {} THEN "skip" ELSE "backoff")
    /\ ReadOnly

CheckBackoff(t) ==
    /\ At(t, "backoff")
    /\ LET recent ==
             FindRecentUnproductive(runs, tasks[t].alert.key, tasks[t].run, now)
       IN  Goto(t, IF Backoff > 0 /\ recent # {} THEN "skip" ELSE "grace")
    /\ ReadOnly

CheckGrace(t) ==
    /\ At(t, "grace")
    /\ LET deploying ==
             FindMergedWithinGrace(runs, tasks[t].alert.key, tasks[t].run, now)
       IN  Goto(t, IF deploying # {} \/ "llm" \notin Integrations
                   THEN "skip" ELSE "triage")
    /\ ReadOnly

Skip(t) ==
    /\ At(t, "skip")
    /\ SetStatus(t, "skipped") /\ Goto(t, "ended") /\ Local

-----------------------------------------------------------------------------
(* Triage, context, investigation, synthesis.                              *)

StartTriage(t) ==
    /\ "triage" \in Integrations
    /\ At(t, "triage")
    /\ SetStatus(t, "triaging") /\ Goto(t, "triaging") /\ Local

(* The model's answer is recorded; a confident "skip" ends the run, and an *)
(* error falls through to the full pipeline.                               *)
TriageAnswers(t) ==
    /\ At(t, "triaging")
    /\ \E next \in {"collect", "skip"} : Goto(t, next)
    /\ ReadOnly

(* Straight from "triage" when triage is off or the severity bypasses it.  *)
StartCollecting(t) ==
    /\ At(t, "triage") \/ At(t, "collect")
    /\ SetStatus(t, "collecting") /\ Goto(t, "collecting") /\ Local

(* A suspended Flux object found in the context ends the run.              *)
RecordContext(t) ==
    /\ At(t, "collecting")
    /\ \E next \in {"investigate", "skip"} : Goto(t, next)
    /\ ReadOnly

StartInvestigating(t) ==
    /\ "investigation" \in Integrations
    /\ At(t, "investigate")
    /\ SetStatus(t, "investigating") /\ Goto(t, "investigating") /\ Local

InvestigationAnswers(t) ==
    /\ At(t, "investigating")
    /\ Goto(t, "generate")
    /\ ReadOnly

StartGenerating(t) ==
    /\ At(t, "investigate") \/ At(t, "generate")
    /\ SetStatus(t, "generating") /\ Goto(t, "generating") /\ Local

(* `patch`: the answer holds a patch and its confidence is not below the   *)
(* threshold.                                                              *)
SynthesisAnswers(t) ==
    /\ At(t, "generating")
    /\ \E patch \in BOOLEAN : GotoPatched(t, "record", patch)
    /\ ReadOnly

RecordSynthesis(t) ==
    /\ At(t, "record")
    /\ runs' = RecordLlmResponse(runs, tasks[t].run)
    /\ Goto(t, "post") /\ Local

-----------------------------------------------------------------------------
(* Outcomes.                                                               *)

(* Mutant of StartPosting: the run is settled before its outcome is known. *)
StartPostingDone(t) ==
    /\ At(t, "post")
    /\ SetStatus(t, "done")
    /\ Goto(t, IF "github" \in Integrations /\ tasks[t].patch
               THEN "opening" ELSE "recordskip")
    /\ Local

StartPosting(t) ==
    /\ At(t, "post")
    /\ SetStatus(t, "posting")
    /\ Goto(t, IF "github" \in Integrations /\ tasks[t].patch
               THEN "opening" ELSE "recordskip")
    /\ Local

OpenPr(t) ==
    /\ At(t, "opening")
    /\ prs' = Put(prs, t, "open")
    /\ Goto(t, "recordpr")
    /\ UNCHANGED <<runs, mode, now>>

(* The diff does not apply, does not validate or touches a protected path. *)
RefusePatch(t) ==
    /\ At(t, "opening")
    /\ Goto(t, "patchfailed")
    /\ ReadOnly

(* Mutant of OpenPrErrs: the exception ends the task.                      *)
OpenPrErrsUncaught(t) ==
    /\ At(t, "opening")
    /\ Goto(t, "ended")
    /\ ReadOnly

(* Any other exception of open_pr, before GitHub created the pull request. *)
OpenPrErrs(t) ==
    /\ At(t, "opening")
    /\ Goto(t, "recordskip")
    /\ ReadOnly

(* The same exception after GitHub created it: the answer was lost.        *)
OpenPrLosesReply(t) ==
    /\ "reply" \in Faults
    /\ At(t, "opening")
    /\ prs' = Put(prs, t, "open")
    /\ Goto(t, "recordskip")
    /\ UNCHANGED <<runs, mode, now>>

RecordOpenedPr(t) ==
    /\ At(t, "recordpr")
    /\ runs' = RecordPr(runs, tasks[t].run, t)
    /\ Goto(t, "notify") /\ Local

RecordNoPr(t) ==
    /\ At(t, "recordskip")
    /\ runs' = RecordPr(runs, tasks[t].run, NoPr)
    /\ Goto(t, "notify") /\ Local

RecordRefusal(t) ==
    /\ At(t, "patchfailed")
    /\ runs' = RecordPr(runs, tasks[t].run, NoPr)
    /\ Goto(t, "fail") /\ Local

(* Errors of the notifier are recorded on the row and go no further.       *)
Notify(t) ==
    /\ At(t, "notify")
    /\ Goto(t, "finish")
    /\ ReadOnly

Finish(t) ==
    /\ At(t, "finish")
    /\ SetStatus(t, "done") /\ Goto(t, "ended") /\ Local

RecordFailure(t) ==
    /\ At(t, "fail")
    /\ SetStatus(t, "failed") /\ Goto(t, "ended") /\ Local

-----------------------------------------------------------------------------
(* Errors.  A database call that raises has committed nothing.             *)

(* Labels whose step is a transaction under the outer except.  That of     *)
(* record_pr(url) is inside the try of open_pr, the breaker catches its    *)
(* own errors, and a failure to record the failure is only logged.         *)
CaughtByPipeline ==
    Labels \ (Ended \cup {"breaker", "budget", "opening", "recordpr", "fail"})

DatabaseErrs(t) ==
    /\ "database" \in Faults
    /\ \/ tasks[t].pc \in CaughtByPipeline /\ Goto(t, "fail")
       \/ At(t, "recordpr") /\ Goto(t, "recordskip")
       \/ At(t, "fail") /\ Goto(t, "ended")
    /\ ReadOnly

(* The collector or the synthesis model raises.                            *)
OutsideErrs(t) ==
    /\ "outage" \in Faults
    /\ At(t, "collecting") \/ At(t, "generating")
    /\ Goto(t, "fail")
    /\ ReadOnly

-----------------------------------------------------------------------------
(* One step of the code when nothing fails, and the failures.              *)
Advance(t) ==
    \/ FilterSkips(t) \/ FilterPasses(t)
    \/ CountRuns(t) \/ SumSpend(t) \/ Trip(t) \/ Park(t)
    \/ CheckOpenPr(t) \/ CheckBackoff(t) \/ CheckGrace(t) \/ Skip(t)
    \/ StartTriage(t) \/ TriageAnswers(t)
    \/ StartCollecting(t) \/ RecordContext(t)
    \/ StartInvestigating(t) \/ InvestigationAnswers(t)
    \/ StartGenerating(t) \/ SynthesisAnswers(t) \/ RecordSynthesis(t)
    \/ StartPosting(t) \/ OpenPr(t) \/ RefusePatch(t) \/ OpenPrErrs(t)
    \/ RecordOpenedPr(t) \/ RecordNoPr(t) \/ RecordRefusal(t)
    \/ Notify(t) \/ Finish(t) \/ RecordFailure(t)

Fail(t) ==
    \/ BreakerErrs(t) \/ OpenPrLosesReply(t)
    \/ DatabaseErrs(t) \/ OutsideErrs(t)
=============================================================================
