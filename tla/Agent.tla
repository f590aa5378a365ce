-------------------------------- MODULE Agent --------------------------------
(***************************************************************************)
(* The whole agent process and its surroundings: the webhook handlers      *)
(* (src/api/main.py), the operator's trigger pages                         *)
(* (src/api/trigger_routes.py), the pull-request poller and the run pruner *)
(* (src/agent/pr_poller.py, src/agent/run_pruner.py), the people who close *)
(* and merge pull requests, the clock, and crashes of the process.         *)
(*                                                                         *)
(* All of them share the run table, the mode setting and GitHub with the   *)
(* pipeline tasks of module Pipeline.                                      *)
(***************************************************************************)
EXTENDS Pipeline

CONSTANTS
    Handlers,     \* webhook requests that may be in progress together
    Dispatchers,  \* dispatch requests that may be in progress together
    People,       \* subset of {"manual", "mode", "reopen", "backfill"}
    MaxBatch,     \* alerts in one webhook request
    MaxRuns,      \* bound of the model: rows ever created
    MaxTasks,     \* bound of the model: tasks ever created
    MaxTime       \* bound of the model: the last tick of the clock

ASSUME BoundsAssumption ==
    /\ People \subseteq {"manual", "mode", "reopen", "backfill"}
    /\ MaxBatch \in Nat /\ MaxRuns \in Nat
    /\ MaxTasks \in Nat /\ MaxTime \in Nat

VARIABLES
    lastRun,      \* the last id given to a row; ids are never reused
    handlers,     \* the webhook requests
    dispatchers,  \* the POST /trigger/dispatch requests
    poller        \* the pull-request poller

agentVars == <<lastRun, handlers, dispatchers, poller>>
vars == <<runs, tasks, mode, prs, now, lastRun, handlers, dispatchers, poller>>

NoRun == 0

(* `batch` holds the alerts not yet handled, `run` the row just inserted.  *)
Handler == [pc : {"idle", "check", "create", "park"}, mode : Modes,
            batch : Seq(Alert), run : Nat]

Dispatcher == [pc : {"idle"}] \cup [pc : {"reset"}, run : Nat, alert : Alert]

(* `left` holds the rows still to be visited, each with the pull request   *)
(* it had when it was listed; `seen` is the state GitHub gave for `run`.   *)
Poller == [left : SUBSET (Nat \X Nat), run : Nat, seen : PrStatuses]

IdleHandler == [pc |-> "idle", mode |-> "autopilot", batch |-> <<>>,
                run |-> NoRun]
IdleDispatcher == [pc |-> "idle"]
IdlePoller == [left |-> {}, run |-> NoRun, seen |-> "null"]

Init ==
    /\ runs = [r \in {} |-> NoRun]
    /\ tasks = <<>>
    /\ mode \in Modes
    /\ prs = [t \in {} |-> "null"]
    /\ now = 1
    /\ lastRun = 0
    /\ handlers = [h \in Handlers |-> IdleHandler]
    /\ dispatchers = [d \in Dispatchers |-> IdleDispatcher]
    /\ poller = IdlePoller

-----------------------------------------------------------------------------
Insert(alert) ==
    /\ lastRun < MaxRuns
    /\ lastRun' = lastRun + 1
    /\ runs' = CreateRun(runs, lastRun + 1, alert, now)

(* asyncio.create_task.                                                    *)
Spawn(r, alert, gate) ==
    /\ Len(tasks) < MaxTasks
    /\ tasks' = Append(tasks, NewTask(r, alert, gate))

-----------------------------------------------------------------------------
(* POST /webhook.  The mode is read once for the whole batch.              *)

Receive(h) ==
    /\ handlers[h].pc = "idle"
    /\ \E n \in 1..MaxBatch : \E batch \in [1..n -> Alert] :
          handlers' = [handlers EXCEPT ![h] =
              [pc |-> "check", mode |-> mode, batch |-> batch, run |-> NoRun]]
    /\ UNCHANGED <<pipelineVars, lastRun, dispatchers, poller>>

NextAlert(h) ==
    handlers' = [handlers EXCEPT ![h] =
        IF Len(@.batch) <= 1 THEN IdleHandler
        ELSE [pc |-> "check", mode |-> @.mode, batch |-> Tail(@.batch),
              run |-> NoRun]]

CheckDuplicate(h) ==
    /\ handlers[h].pc = "check"
    /\ IF FindOpenRun(runs, Head(handlers[h].batch).key) # {}
       THEN NextAlert(h)
       ELSE handlers' = [handlers EXCEPT ![h].pc = "create"]
    /\ UNCHANGED <<pipelineVars, lastRun, dispatchers, poller>>

CreateRunning(h) ==
    /\ handlers[h].pc = "create"
    /\ handlers[h].mode = "autopilot"
    /\ LET alert == Head(handlers[h].batch)
       IN  Insert(alert) /\ Spawn(lastRun + 1, alert, "enforced")
    /\ NextAlert(h)
    /\ UNCHANGED <<mode, prs, now, dispatchers, poller>>

CreateParked(h) ==
    /\ handlers[h].pc = "create"
    /\ handlers[h].mode = "manual"
    /\ Insert(Head(handlers[h].batch))
    /\ handlers' = [handlers EXCEPT ![h] =
                        [@ EXCEPT !.pc = "park", !.run = lastRun + 1]]
    /\ UNCHANGED <<tasks, mode, prs, now, dispatchers, poller>>

ParkQueued(h) ==
    /\ handlers[h].pc = "park"
    /\ runs' = UpdateStatus(runs, handlers[h].run, "queued")
    /\ NextAlert(h)
    /\ UNCHANGED <<tasks, mode, prs, now, lastRun, dispatchers, poller>>

(* A database error ends the request: the rest of the batch is lost.       *)
HandlerErrs(h) ==
    /\ "database" \in Faults
    /\ handlers[h].pc # "idle"
    /\ handlers' = [handlers EXCEPT ![h] = IdleHandler]
    /\ UNCHANGED <<pipelineVars, lastRun, dispatchers, poller>>

HandlerStep(h) ==
    CheckDuplicate(h) \/ CreateRunning(h) \/ CreateParked(h) \/ ParkQueued(h)

-----------------------------------------------------------------------------
(* POST /trigger/dispatch/{run_id}: run a queued row in place.             *)

DispatchRead(d) ==
    /\ dispatchers[d].pc = "idle"
    /\ \E r \in ListQueued(runs) :
          dispatchers' = [dispatchers EXCEPT ![d] =
              [pc |-> "reset", run |-> r, alert |-> runs[r].alert]]
    /\ UNCHANGED <<pipelineVars, lastRun, handlers, poller>>

DispatchReset(d) ==
    /\ dispatchers[d].pc = "reset"
    /\ runs' = UpdateStatus(runs, dispatchers[d].run, "pending")
    /\ Spawn(dispatchers[d].run, dispatchers[d].alert, "exempt")
    /\ dispatchers' = [dispatchers EXCEPT ![d] = IdleDispatcher]
    /\ UNCHANGED <<mode, prs, now, lastRun, handlers, poller>>

DispatchErrs(d) ==
    /\ "database" \in Faults
    /\ dispatchers[d].pc = "reset"
    /\ dispatchers' = [dispatchers EXCEPT ![d] = IdleDispatcher]
    /\ UNCHANGED <<pipelineVars, lastRun, handlers, poller>>

(* POST /trigger: replay or synthesize an alert, with no duplicate check.  *)
TriggerManually ==
    /\ "manual" \in People
    /\ \E alert \in Alert : Insert(alert) /\ Spawn(lastRun + 1, alert, "exempt")
    /\ UNCHANGED <<mode, prs, now, handlers, dispatchers, poller>>

SetMode ==
    /\ "mode" \in People
    /\ mode' \in Modes
    /\ UNCHANGED <<runs, tasks, prs, now, agentVars>>

-----------------------------------------------------------------------------
(* The poller.  It runs only when GitHub is configured.                    *)

PollList ==
    /\ "github" \in Integrations
    /\ poller.left = {} /\ poller.run = NoRun
    /\ poller' = [poller EXCEPT !.left =
                      {<<r, runs[r].pr>> : r \in ListOpenPrs(runs)}]
    /\ UNCHANGED <<pipelineVars, lastRun, handlers, dispatchers>>

(* Mutant of PollAsk: only a merge is worth recording.                     *)
PollAskForMerge ==
    /\ poller.run = NoRun
    /\ \E listed \in poller.left :
          LET state == prs[listed[2]]
          IN  poller' = IF state # "merged"
                        THEN [poller EXCEPT !.left = @ \ {listed}]
                        ELSE [left |-> poller.left \ {listed},
                              run |-> listed[1], seen |-> state]
    /\ UNCHANGED <<pipelineVars, lastRun, handlers, dispatchers>>

(* Asks GitHub for the pull request of one listed row.  A status equal to  *)
(* the listed one, which is "open", is not written.                        *)
PollAsk ==
    /\ poller.run = NoRun
    /\ \E listed \in poller.left :
          LET state == prs[listed[2]]
          IN  poller' = IF state = "open"
                        THEN [poller EXCEPT !.left = @ \ {listed}]
                        ELSE [left |-> poller.left \ {listed},
                              run |-> listed[1], seen |-> state]
    /\ UNCHANGED <<pipelineVars, lastRun, handlers, dispatchers>>

PollWrite ==
    /\ poller.run # NoRun
    /\ runs' = UpdatePrStatus(runs, poller.run, poller.seen, now)
    /\ poller' = [poller EXCEPT !.run = NoRun, !.seen = "null"]
    /\ UNCHANGED <<tasks, mode, prs, now, lastRun, handlers, dispatchers>>

(* An error of one row's visit is logged and the loop goes on.             *)
PollErrs ==
    /\ \/ /\ "database" \in Faults
          /\ poller.run # NoRun
          /\ poller' = [poller EXCEPT !.run = NoRun, !.seen = "null"]
       \/ /\ "outage" \in Faults
          /\ poller.run = NoRun
          /\ \E listed \in poller.left :
                poller' = [poller EXCEPT !.left = @ \ {listed}]
    /\ UNCHANGED <<pipelineVars, lastRun, handlers, dispatchers>>

PollStep == PollList \/ PollAsk \/ PollWrite

-----------------------------------------------------------------------------
(* The pruner.                                                             *)
Prune ==
    /\ Retention > 0
    /\ runs' = DeleteOlder(runs, now)
    /\ UNCHANGED <<tasks, mode, prs, now, agentVars>>

-----------------------------------------------------------------------------
(* Surroundings.                                                           *)

CloseOrMerge ==
    /\ \E p \in DOMAIN prs : \E s \in {"closed", "merged"} :
          prs[p] = "open" /\ prs' = [prs EXCEPT ![p] = s]
    /\ UNCHANGED <<runs, tasks, mode, now, agentVars>>

Reopen ==
    /\ "reopen" \in People
    /\ \E p \in DOMAIN prs : prs[p] = "closed" /\ prs' = [prs EXCEPT ![p] = "open"]
    /\ UNCHANGED <<runs, tasks, mode, now, agentVars>>

(* Someone writes "open" into the pr_status of a row with a pull request.  *)
(* No code of the agent does, and a row with NULL there is never polled.   *)
BackfillPrStatus ==
    /\ "backfill" \in People
    /\ \E r \in DOMAIN runs :
          /\ runs[r].pr # NoPr /\ runs[r].prStatus = "null"
          /\ runs' = UpdatePrStatus(runs, r, "open", now)
    /\ UNCHANGED <<tasks, mode, prs, now, agentVars>>

Tick ==
    /\ now < MaxTime
    /\ now' = now + 1
    /\ UNCHANGED <<runs, tasks, mode, prs, agentVars>>

(* The process dies and starts again: the database and GitHub keep their   *)
(* state, every request and task is gone, and nothing resumes a row.       *)
Crash ==
    /\ "crash" \in Faults
    /\ tasks' = [t \in DOMAIN tasks |->
                    IF Live(t) THEN [tasks[t] EXCEPT !.pc = "killed"]
                    ELSE tasks[t]]
    /\ handlers' = [h \in Handlers |-> IdleHandler]
    /\ dispatchers' = [d \in Dispatchers |-> IdleDispatcher]
    /\ poller' = IdlePoller
    /\ UNCHANGED <<runs, mode, prs, now, lastRun>>

-----------------------------------------------------------------------------
PipelineStep ==
    /\ \E t \in DOMAIN tasks : Advance(t) \/ Fail(t)
    /\ UNCHANGED agentVars

RequestStep ==
    \/ \E h \in Handlers : Receive(h) \/ HandlerStep(h) \/ HandlerErrs(h)
    \/ \E d \in Dispatchers : DispatchRead(d) \/ DispatchReset(d) \/ DispatchErrs(d)
    \/ TriggerManually \/ SetMode

BackgroundStep == PollStep \/ PollErrs \/ Prune

Surroundings == CloseOrMerge \/ Reopen \/ BackfillPrStatus \/ Tick \/ Crash

Next == PipelineStep \/ RequestStep \/ BackgroundStep \/ Surroundings

Spec == Init /\ [][Next]_vars

(* The event loop runs every task and request that can go on, the models   *)
(* and GitHub answer, and the poller's timer fires for ever.               *)
TaskAdvances(t) == t \in DOMAIN tasks /\ Advance(t) /\ UNCHANGED agentVars

Fairness ==
    /\ \A t \in 1..MaxTasks : WF_vars(TaskAdvances(t))
    /\ \A h \in Handlers : WF_vars(HandlerStep(h))
    /\ \A d \in Dispatchers : WF_vars(DispatchReset(d))
    /\ WF_vars(PollStep)

FairSpec == Spec /\ Fairness
=============================================================================
