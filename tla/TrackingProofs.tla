---------------------------- MODULE TrackingProofs ----------------------------
(***************************************************************************)
(* Proofs about the record that the run table keeps of pull requests.      *)
(* The table and GitHub are written by three hands that never meet: the    *)
(* task that opens a pull request, the people who close or merge it, and   *)
(* the poller, which asks about it and writes later.  The record is right  *)
(* because a row has one task at a time and its pull request, once         *)
(* recorded, is never replaced.                                            *)
(***************************************************************************)
EXTENDS QueueProofs

(* Two dispatch requests that both read a row before either resets it      *)
(* start two tasks on it, each of which records its own outcome over the   *)
(* other's: what follows is for one dispatch request at a time.            *)
OneDispatchAtATime == \A d, e \in Dispatchers : d = e

-----------------------------------------------------------------------------
(* What every step of a task does to its phase and its pull request.       *)

(* The task has settled what its row says of a pull request.               *)
Recorded == {"notify", "finish", "fail"}

(* The task may have opened a pull request.                                *)
Opened == {"recordpr", "recordskip"} \cup Recorded \cup Ended

(* The task has found no open pull request and may still open its own.     *)
Cleared == {"backoff", "grace", "triage", "triaging", "collect", "collecting",
            "investigate", "investigating", "generate", "generating",
            "record", "post", "opening"}

(* The status of its row while a task is at a label.                       *)
InPhase(l, s) ==
    \/ s = "pending" /\ l \in {"settings", "breaker", "budget", "trip", "park",
                               "dedup", "backoff", "grace", "skip", "triage",
                               "fail"}
    \/ s = "triaging" /\ l \in {"triaging", "collect", "skip", "fail"}
    \/ s = "collecting" /\ l \in {"collecting", "investigate", "skip", "fail"}
    \/ s = "investigating" /\ l \in {"investigating", "generate", "fail"}
    \/ s = "generating" /\ l \in {"generating", "record", "post", "fail"}
    \/ s = "posting" /\ l \in {"opening", "recordpr", "patchfailed",
                               "recordskip"} \cup Recorded

(* Either no status changes and the task stays in its phase, or it writes  *)
(* the status of the phase that it enters, which may follow the old one.   *)
StatusStep(t) ==
    \/ /\ \A r \in DOMAIN runs : runs'[r].status = runs[r].status
       /\ Live(t)' => \A s \in Statuses :
             InPhase(tasks[t].pc, s) => InPhase(tasks'[t].pc, s)
    \/ \E s \in Statuses :
          /\ runs' = UpdateStatus(runs, tasks[t].run, s)
          /\ IF Live(t)' THEN InPhase(tasks'[t].pc, s)
                         ELSE s \in TerminalStatuses \cup {"queued"}
          /\ s = "queued" => tasks[t].pc = "park"
          /\ s = "triaging" => "triage" \in Integrations
          /\ s = "investigating" => "investigation" \in Integrations
          /\ \A o \in Statuses :
                InPhase(tasks[t].pc, o) => s \in Lifecycle!Follows(o)

(* The columns about pull requests stay as they are, or the task records   *)
(* its pull request or that it has none.                                   *)
PrColumnsKept ==
    \A r \in DOMAIN runs : /\ runs'[r].pr = runs[r].pr
                           /\ runs'[r].prStatus = runs[r].prStatus
                           /\ runs'[r].mergedAt = runs[r].mergedAt

RecordStep(t) ==
    \/ /\ PrColumnsKept
       /\ "database" \notin Faults => tasks[t].pc # "recordpr"
    \/ /\ tasks[t].pc = "recordpr" /\ tasks'[t].pc \in Recorded
       /\ runs' = RecordPr(runs, tasks[t].run, t)
    \/ /\ tasks[t].pc \in {"recordskip", "patchfailed"}
       /\ tasks'[t].pc \in Recorded
       /\ runs' = RecordPr(runs, tasks[t].run, NoPr)

(* A pull request is opened once, by the step that leaves "opening".       *)
OpenStep(t) ==
    \/ prs' = prs
    \/ /\ tasks[t].pc = "opening" /\ prs' = Put(prs, t, "open") /\ runs' = runs
       /\ \/ tasks'[t].pc = "recordpr"
          \/ "reply" \in Faults /\ tasks'[t].pc = "recordskip"

LabelStep(t) ==
    /\ tasks[t].pc \in Opened => tasks'[t].pc \in Opened
    /\ tasks[t].pc \in Recorded => tasks'[t].pc \in Recorded \cup Ended
    /\ tasks'[t].pc \in Cleared =>
          \/ tasks[t].pc \in Cleared
          \/ /\ FindBlockingOpenPr(runs, tasks[t].alert.key, tasks[t].run) = {}
             /\ prs' = prs

PhaseStep(t) ==
    /\ StatusStep(t) /\ RecordStep(t) /\ OpenStep(t) /\ LabelStep(t)

(* A status written to the table touches no other column.                  *)
LEMMA UpdateStatusKeeps ==
    ASSUME NEW store, RowTable(store), NEW r, NEW s, NEW q \in DOMAIN store
    PROVE  /\ UpdateStatus(store, r, s)[q].pr = store[q].pr
           /\ UpdateStatus(store, r, s)[q].prStatus = store[q].prStatus
           /\ UpdateStatus(store, r, s)[q].mergedAt = store[q].mergedAt
           /\ UpdateStatus(store, r, s)[q].alert = store[q].alert
           /\ UpdateStatus(store, r, s)[q].status
                 = IF q = r THEN s ELSE store[q].status
BY DEF RowTable, UpdateStatus, Row

(* Nor does the record of a pull request.                                  *)
LEMMA RecordPrKeeps ==
    ASSUME NEW store, RowTable(store), NEW r, NEW pr, NEW q \in DOMAIN store
    PROVE  /\ RecordPr(store, r, pr)[q].pr = IF q = r THEN pr ELSE store[q].pr
           /\ RecordPr(store, r, pr)[q].prStatus = store[q].prStatus
           /\ RecordPr(store, r, pr)[q].mergedAt = store[q].mergedAt
           /\ RecordPr(store, r, pr)[q].alert = store[q].alert
           /\ RecordPr(store, r, pr)[q].status = store[q].status
BY DEF RowTable, RecordPr, Row

(* Nor does the record of a synthesis.                                     *)
LEMMA RecordLlmResponseKeeps ==
    ASSUME NEW store, RowTable(store), NEW r, NEW q \in DOMAIN store
    PROVE  /\ RecordLlmResponse(store, r)[q].pr = store[q].pr
           /\ RecordLlmResponse(store, r)[q].prStatus = store[q].prStatus
           /\ RecordLlmResponse(store, r)[q].mergedAt = store[q].mergedAt
           /\ RecordLlmResponse(store, r)[q].alert = store[q].alert
           /\ RecordLlmResponse(store, r)[q].status = store[q].status
BY DEF RowTable, RecordLlmResponse, Row

(* Each action of the pipeline does so.                                   *)
LEMMA AdvancePhases ==
    ASSUME tasks \in Seq(Task), RowTable(runs),
           NEW t \in DOMAIN tasks, Advance(t)
    PROVE  PhaseStep(t)
<1> USE DEF At, ReadOnly, Local, Live, Ended, Labels, OnlyMoves, PhaseStep, LabelStep,
            OpenStep, RecordStep, PrColumnsKept, StatusStep, InPhase, Recorded, Opened, Cleared
<1>1. CASE FilterSkips(t)
  BY <1>1, GotoMoves, UpdateStatusKeeps DEF FilterSkips, SetStatus, Statuses, ActiveStatuses,
         TerminalStatuses, Lifecycle!Follows, Lifecycle!Settled
<1>2. CASE FilterPasses(t)
  BY <1>2, GotoMoves DEF FilterPasses
<1>3. CASE CountRuns(t)
  BY <1>3, GotoMoves, GateMoves DEF CountRuns, Gates
<1>4. CASE SumSpend(t)
  BY <1>4, GotoMoves DEF SumSpend
<1>5. CASE Trip(t)
  BY <1>5, GotoMoves DEF Trip
<1>6. CASE Park(t)
  BY <1>6, GotoMoves, UpdateStatusKeeps DEF Park, SetStatus, Statuses, ActiveStatuses,
         TerminalStatuses, Lifecycle!Follows, Lifecycle!Settled
<1>7. CASE CheckOpenPr(t)
  BY <1>7, GotoMoves DEF CheckOpenPr
<1>8. CASE CheckBackoff(t)
  BY <1>8, GotoMoves DEF CheckBackoff
<1>9. CASE CheckGrace(t)
  BY <1>9, GotoMoves DEF CheckGrace
<1>10. CASE Skip(t)
  BY <1>10, GotoMoves, UpdateStatusKeeps DEF Skip, SetStatus, Statuses, ActiveStatuses,
         TerminalStatuses, Lifecycle!Follows, Lifecycle!Settled
<1>11. CASE StartTriage(t)
  BY <1>11, GotoMoves, UpdateStatusKeeps DEF StartTriage, SetStatus, Statuses, ActiveStatuses,
         TerminalStatuses, Lifecycle!Follows, Lifecycle!Settled
<1>12. CASE TriageAnswers(t)
  BY <1>12, GotoMoves DEF TriageAnswers
<1>13. CASE StartCollecting(t)
  BY <1>13, GotoMoves, UpdateStatusKeeps DEF StartCollecting, SetStatus, Statuses, ActiveStatuses,
         TerminalStatuses, Lifecycle!Follows, Lifecycle!Settled
<1>14. CASE RecordContext(t)
  BY <1>14, GotoMoves DEF RecordContext
<1>15. CASE StartInvestigating(t)
  BY <1>15, GotoMoves, UpdateStatusKeeps DEF StartInvestigating, SetStatus, Statuses, ActiveStatuses,
         TerminalStatuses, Lifecycle!Follows, Lifecycle!Settled
<1>16. CASE InvestigationAnswers(t)
  BY <1>16, GotoMoves DEF InvestigationAnswers
<1>17. CASE StartGenerating(t)
  BY <1>17, GotoMoves, UpdateStatusKeeps DEF StartGenerating, SetStatus, Statuses, ActiveStatuses,
         TerminalStatuses, Lifecycle!Follows, Lifecycle!Settled
<1>18. CASE SynthesisAnswers(t)
  BY <1>18, PatchMoves DEF SynthesisAnswers
<1>19. CASE RecordSynthesis(t)
  BY <1>19, GotoMoves, RecordLlmResponseKeeps DEF RecordSynthesis
<1>20. CASE StartPosting(t)
  BY <1>20, GotoMoves, UpdateStatusKeeps DEF StartPosting, SetStatus, Statuses, ActiveStatuses,
         TerminalStatuses, Lifecycle!Follows, Lifecycle!Settled
<1>21. CASE OpenPr(t)
  BY <1>21, GotoMoves DEF OpenPr
<1>22. CASE RefusePatch(t)
  BY <1>22, GotoMoves DEF RefusePatch
<1>23. CASE OpenPrErrs(t)
  BY <1>23, GotoMoves DEF OpenPrErrs
<1>24. CASE RecordOpenedPr(t)
  BY <1>24, GotoMoves, RecordPrKeeps DEF RecordOpenedPr
<1>25. CASE RecordNoPr(t)
  BY <1>25, GotoMoves, RecordPrKeeps DEF RecordNoPr
<1>26. CASE RecordRefusal(t)
  BY <1>26, GotoMoves, RecordPrKeeps DEF RecordRefusal
<1>27. CASE Notify(t)
  BY <1>27, GotoMoves DEF Notify
<1>28. CASE Finish(t)
  BY <1>28, GotoMoves, UpdateStatusKeeps DEF Finish, SetStatus, Statuses, ActiveStatuses,
         TerminalStatuses, Lifecycle!Follows, Lifecycle!Settled
<1>29. CASE RecordFailure(t)
  BY <1>29, GotoMoves, UpdateStatusKeeps DEF RecordFailure, SetStatus, Statuses, ActiveStatuses,
         TerminalStatuses, Lifecycle!Follows, Lifecycle!Settled
<1> QED
  BY <1>1, <1>2, <1>3, <1>4, <1>5, <1>6, <1>7, <1>8, <1>9, <1>10, <1>11, <1>12, <1>13, <1>14, <1>15, <1>16, <1>17, <1>18, <1>19, <1>20, <1>21, <1>22, <1>23, <1>24, <1>25, <1>26, <1>27, <1>28, <1>29 DEF Advance

(* So does each of its failures.                                           *)
LEMMA FailPhases ==
    ASSUME tasks \in Seq(Task), RowTable(runs),
           NEW t \in DOMAIN tasks, Fail(t)
    PROVE  PhaseStep(t)
<1> USE DEF At, ReadOnly, Local, Live, Ended, Labels, OnlyMoves, PhaseStep, LabelStep,
            OpenStep, RecordStep, PrColumnsKept, StatusStep, InPhase, Recorded, Opened, Cleared
<1>1. CASE BreakerErrs(t)
  BY <1>1, GotoMoves, GateMoves DEF BreakerErrs, Gates
<1>2. CASE OpenPrLosesReply(t)
  BY <1>2, GotoMoves DEF OpenPrLosesReply
<1>3. CASE DatabaseErrs(t)
  BY <1>3, GotoMoves DEF DatabaseErrs, CaughtByPipeline
<1>4. CASE OutsideErrs(t)
  BY <1>4, GotoMoves DEF OutsideErrs
<1> QED
  BY <1>1, <1>2, <1>3, <1>4 DEF Fail

-----------------------------------------------------------------------------
(* A row has one task at a time.                                           *)

(* No task is at work on the row, and none has ever opened a pull request  *)
(* for it.                                                                 *)
Idle(r) ==
    \A t \in DOMAIN tasks : tasks[t].run = r => ~Live(t) /\ t \notin DOMAIN prs

(* A task at work is alone on its row, as a dispatch request will leave    *)
(* it, because a row in the queue is idle.                                 *)
Alone ==
    /\ \A t, u \in DOMAIN tasks :
          Live(t) /\ tasks[u].run = tasks[t].run /\ u # t
              => ~Live(u) /\ u \notin DOMAIN prs
    /\ \A r \in DOMAIN runs : runs[r].status = "queued" => Idle(r)
    /\ \A d \in Dispatchers : dispatchers[d].pc = "reset" =>
          /\ Idle(dispatchers[d].run)
          /\ dispatchers[d].run \in DOMAIN runs
                => runs[dispatchers[d].run].status = "queued"

(* A pull request has been opened by a task that has left "opening".       *)
PrsAreOpened == \A t \in DOMAIN prs : tasks[t].pc \in Opened

(* The row of a task at work has the status of the task's phase.           *)
Phased ==
    \A t \in DOMAIN tasks : Live(t) /\ tasks[t].run \in DOMAIN runs
        => InPhase(tasks[t].pc, runs[tasks[t].run].status)

(* A task, and a dispatch request, works on the alert of its row.          *)
OwnAlert ==
    /\ \A t \in DOMAIN tasks :
          tasks[t].run \in DOMAIN runs => runs[tasks[t].run].alert = tasks[t].alert
    /\ \A d \in Dispatchers :
          dispatchers[d].pc = "reset" /\ dispatchers[d].run \in DOMAIN runs
              => runs[dispatchers[d].run].alert = dispatchers[d].alert

RowInv == QueueInv /\ Alone /\ PrsAreOpened /\ Phased /\ OwnAlert

(* No phase has its row queued or settled.                                 *)
LEMMA PhaseIsUnsettled ==
    ASSUME NEW l, NEW s, InPhase(l, s)
    PROVE  /\ s \notin TerminalStatuses /\ s # "queued" /\ s \in Statuses
           /\ l \notin Ended
BY DEF InPhase, TerminalStatuses, Statuses, ActiveStatuses, Ended, Recorded

(* What a task's step leaves of the table, whatever it writes.             *)
LEMMA PhaseStepTypes ==
    ASSUME TypeInv, NEW t \in DOMAIN tasks, Advance(t) \/ Fail(t)
    PROVE  /\ TaskStep(t) /\ PhaseStep(t)
           /\ DOMAIN tasks' = DOMAIN tasks
           /\ \A u \in DOMAIN tasks : /\ tasks'[u].run = tasks[u].run
                                      /\ tasks'[u].alert = tasks[u].alert
                                      /\ u # t => tasks'[u] = tasks[u]
           /\ DOMAIN runs' = DOMAIN runs
           /\ \A r \in DOMAIN runs : runs'[r].alert = runs[r].alert
           /\ \A r \in DOMAIN runs :
                 r # tasks[t].run => runs'[r].status = runs[r].status
           /\ Live(t)
<1>1. TaskStep(t) /\ PhaseStep(t)
  BY AdvanceSteps, FailSteps, AdvancePhases, FailPhases DEF TypeInv, TypeOK, RowTable
<1>2. /\ DOMAIN runs' = DOMAIN runs
      /\ \A r \in DOMAIN runs : runs'[r].alert = runs[r].alert
      /\ \A r \in DOMAIN runs :
            r # tasks[t].run => runs'[r].status = runs[r].status
  BY <1>1, OwnRowTypes DEF TaskStep
<1> QED
  BY <1>1, <1>2 DEF TaskStep, OnlyMoves

(* A step of a task keeps it alone on its row and in its phase.            *)
LEMMA PipelineRows ==
    ASSUME RowInv, PipelineStep
    PROVE  Alone' /\ PrsAreOpened' /\ Phased' /\ OwnAlert'
<1>1. PICK t \in DOMAIN tasks : Advance(t) \/ Fail(t)
  BY DEF PipelineStep
<1>2. /\ TypeInv /\ Alone /\ PrsAreOpened /\ Phased /\ OwnAlert
      /\ RowTable(runs) /\ DOMAIN prs \subseteq DOMAIN tasks
      /\ UNCHANGED <<lastRun, handlers, dispatchers, poller>>
  BY DEF RowInv, QueueInv, BreakerInv, PipelineStep, agentVars, TypeInv, TypeOK, RowTable
<1>3. /\ TaskStep(t) /\ PhaseStep(t)
      /\ DOMAIN tasks' = DOMAIN tasks
      /\ \A u \in DOMAIN tasks : /\ tasks'[u].run = tasks[u].run
                                 /\ tasks'[u].alert = tasks[u].alert
                                 /\ u # t => tasks'[u] = tasks[u]
      /\ DOMAIN runs' = DOMAIN runs
      /\ \A r \in DOMAIN runs : runs'[r].alert = runs[r].alert
      /\ \A r \in DOMAIN runs :
            r # tasks[t].run => runs'[r].status = runs[r].status
      /\ Live(t)
  BY <1>1, <1>2, PhaseStepTypes
<1>4. /\ \A u \in DOMAIN tasks : Live(u)' => Live(u)
      /\ \A u \in DOMAIN tasks : u # t => (Live(u)' <=> Live(u))
  BY <1>3 DEF Live
<1>5. /\ DOMAIN prs' \subseteq DOMAIN prs \cup {t}
      /\ t \in DOMAIN prs' /\ t \notin DOMAIN prs
            => tasks[t].pc = "opening" /\ tasks'[t].pc \in Opened
  BY <1>3 DEF PhaseStep, OpenStep, Put, Opened
<1>6. ASSUME tasks[t].run \in DOMAIN runs
      PROVE  LET r == tasks[t].run
             IN  /\ Live(t)' => InPhase(tasks'[t].pc, runs'[r].status)
                 /\ runs'[r].status = "queued"
                       => tasks[t].pc = "park" /\ ~Live(t)'
  <2> DEFINE r == tasks[t].run
  <2>1. InPhase(tasks[t].pc, runs[r].status) /\ runs[r] \in Row
    BY <1>2, <1>3, <1>6 DEF Phased, RowTable
  <2>2. CASE /\ runs'[r].status = runs[r].status
             /\ Live(t)' => \A s \in Statuses :
                   InPhase(tasks[t].pc, s) => InPhase(tasks'[t].pc, s)
    BY <2>1, <2>2, PhaseIsUnsettled
  <2>3. ASSUME NEW s \in Statuses, runs' = UpdateStatus(runs, r, s),
               IF Live(t)' THEN InPhase(tasks'[t].pc, s)
                           ELSE s \in TerminalStatuses \cup {"queued"},
               s = "queued" => tasks[t].pc = "park"
        PROVE  /\ Live(t)' => InPhase(tasks'[t].pc, runs'[r].status)
               /\ runs'[r].status = "queued"
                     => tasks[t].pc = "park" /\ ~Live(t)'
    <3>1. runs'[r].status = s
      BY <1>2, <1>6, <2>3, UpdateStatusKeeps
    <3> QED
      BY <2>3, <3>1, PhaseIsUnsettled
  <2> QED
    BY <1>3, <1>6, <2>2, <2>3 DEF PhaseStep, StatusStep
<1>7. t \in DOMAIN prs => tasks[t].pc # "park"
  BY <1>2 DEF PrsAreOpened, Opened, Recorded, Ended
<1>8. ASSUME NEW r, Idle(r) PROVE Idle(r)'
  BY <1>3, <1>4, <1>5, <1>8 DEF Idle
<1>9. Alone'
  <2>1. ASSUME NEW v \in DOMAIN tasks', NEW u \in DOMAIN tasks', Live(v)',
               tasks'[u].run = tasks'[v].run, u # v
        PROVE  ~Live(u)' /\ u \notin DOMAIN prs'
    <3>1. Live(v) /\ tasks[u].run = tasks[v].run /\ ~Live(u) /\ u \notin DOMAIN prs
      BY <1>2, <1>3, <1>4, <2>1 DEF Alone
    <3> QED
      BY <1>3, <1>4, <1>5, <3>1
  <2>2. ASSUME NEW r \in DOMAIN runs', runs'[r].status = "queued" PROVE Idle(r)'
    <3>1. CASE runs[r].status = "queued"
      BY <1>2, <1>3, <1>8, <3>1 DEF Alone
    <3>2. CASE runs[r].status # "queued"
      <4>1. r = tasks[t].run /\ tasks[t].pc = "park" /\ ~Live(t)'
        BY <1>3, <1>6, <2>2, <3>2
      <4>2. t \notin DOMAIN prs'
        BY <1>5, <1>7, <4>1
      <4>3. \A u \in DOMAIN tasks : tasks[u].run = r /\ u # t
                => ~Live(u) /\ u \notin DOMAIN prs
        BY <1>2, <1>3, <4>1 DEF Alone
      <4> QED
        BY <1>3, <1>4, <1>5, <4>1, <4>2, <4>3 DEF Idle
    <3> QED
      BY <3>1, <3>2
  <2>3. ASSUME NEW d \in Dispatchers, dispatchers'[d].pc = "reset"
        PROVE  /\ Idle(dispatchers[d].run)'
               /\ dispatchers[d].run \in DOMAIN runs'
                     => runs'[dispatchers[d].run].status = "queued"
    <3>1. /\ Idle(dispatchers[d].run)
          /\ dispatchers[d].run \in DOMAIN runs
                => runs[dispatchers[d].run].status = "queued"
      BY <1>2, <2>3 DEF Alone
    <3>2. dispatchers[d].run # tasks[t].run
      BY <1>3, <3>1 DEF Idle
    <3> QED
      BY <1>2, <1>3, <1>8, <3>1, <3>2
  <2> QED
    BY <1>2, <2>1, <2>2, <2>3 DEF Alone
<1>10. PrsAreOpened'
  BY <1>2, <1>3, <1>5 DEF PrsAreOpened, PhaseStep, LabelStep
<1>11. Phased'
  <2> SUFFICES ASSUME NEW u \in DOMAIN tasks', Live(u)', tasks'[u].run \in DOMAIN runs'
               PROVE  InPhase(tasks'[u].pc, runs'[tasks'[u].run].status)
    BY DEF Phased
  <2>1. CASE u = t
    BY <1>3, <1>6, <2>1
  <2>2. CASE u # t
    <3>1. Live(u) /\ tasks'[u] = tasks[u] /\ tasks[u].run # tasks[t].run
      BY <1>2, <1>3, <1>4, <2>2 DEF Alone
    <3> QED
      BY <1>2, <1>3, <3>1 DEF Phased
  <2> QED
    BY <2>1, <2>2
<1>12. OwnAlert'
  BY <1>2, <1>3 DEF OwnAlert
<1> QED
  BY <1>9, <1>10, <1>11, <1>12

(* A quiet step that neither opens a pull request nor gives a task         *)
(* another alert.                                                          *)
QuietForRows ==
    /\ Quiet
    /\ DOMAIN prs' = DOMAIN prs
    /\ \A t \in DOMAIN tasks : tasks'[t].alert = tasks[t].alert
    /\ \A t \in DOMAIN prs : tasks[t].pc \in Opened => tasks'[t].pc \in Opened

LEMMA QuietRows ==
    ASSUME RowInv, QuietForRows
    PROVE  Alone' /\ PrsAreOpened' /\ Phased' /\ OwnAlert'
<1>1. Alone /\ PrsAreOpened /\ Phased /\ OwnAlert
  BY DEF RowInv
<1>2. \A t \in DOMAIN tasks' :
         /\ t \in DOMAIN tasks /\ tasks'[t].run = tasks[t].run
         /\ tasks'[t].alert = tasks[t].alert
         /\ Live(t)' => Live(t) /\ tasks'[t] = tasks[t]
  BY DEF QuietForRows, Quiet, Live
<1>3. \A d \in Dispatchers :
         dispatchers'[d].pc = "reset" => dispatchers'[d] = dispatchers[d]
  BY DEF QuietForRows, Quiet
<1>4. ASSUME NEW r, Idle(r) PROVE Idle(r)'
  BY <1>2, <1>4 DEF Idle, QuietForRows
<1>5. /\ DOMAIN runs' \subseteq DOMAIN runs /\ DOMAIN prs' = DOMAIN prs
      /\ \A r \in DOMAIN runs' : /\ runs'[r].status = runs[r].status
                                 /\ runs'[r].alert = runs[r].alert
  BY DEF QuietForRows, Quiet
<1>6. Alone'
  <2>1. \A t, u \in DOMAIN tasks' :
           Live(t)' /\ tasks'[u].run = tasks'[t].run /\ u # t
              => ~Live(u)' /\ u \notin DOMAIN prs'
    BY <1>1, <1>2, <1>5 DEF Alone
  <2>2. ASSUME NEW r \in DOMAIN runs', runs'[r].status = "queued" PROVE Idle(r)'
    BY <1>1, <1>4, <1>5, <2>2 DEF Alone
  <2>3. ASSUME NEW d \in Dispatchers, dispatchers'[d].pc = "reset"
        PROVE  /\ Idle(dispatchers[d].run)'
               /\ dispatchers'[d].run \in DOMAIN runs'
                     => runs'[dispatchers'[d].run].status = "queued"
    BY <1>1, <1>3, <1>4, <1>5, <2>3 DEF Alone
  <2> QED
    BY <2>1, <2>2, <2>3 DEF Alone
<1>7. PrsAreOpened'
  BY <1>1, <1>5 DEF PrsAreOpened, QuietForRows
<1>8. Phased'
  BY <1>1, <1>2, <1>5 DEF Phased
<1>9. OwnAlert'
  BY <1>1, <1>2, <1>3, <1>5 DEF OwnAlert
<1> QED
  BY <1>6, <1>7, <1>8, <1>9

(* The people, the poller, the pruner, the clock and a crash are quiet for *)
(* the rows.                                                               *)
LEMMA OutsideRows ==
    ASSUME RowInv, BackgroundStep \/ SetMode \/ Surroundings
    PROVE  QuietForRows
<1>1. TypeInv /\ tasks \in Seq(Task) /\ DOMAIN prs \subseteq DOMAIN tasks
  BY DEF RowInv, QueueInv, BreakerInv, TypeInv, TypeOK
<1>2. Quiet
  BY <1>1, OutsideQuiet
<1>3. DOMAIN prs' = DOMAIN prs
  BY DEF BackgroundStep, PollStep, SetMode, Surroundings, PollList, PollAsk,
         PollWrite, PollErrs, Prune, CloseOrMerge, Reopen, BackfillPrStatus,
         Tick, Crash, pipelineVars
<1>4. CASE Crash
  <2>1. \A t \in DOMAIN tasks : /\ tasks'[t].alert = tasks[t].alert
                                /\ tasks'[t].pc \in {tasks[t].pc, "killed"}
    BY <1>1, <1>4 DEF Crash, Task
  <2> QED
    BY <1>1, <1>2, <1>3, <2>1 DEF QuietForRows, Opened, Ended
<1>5. CASE ~Crash
  <2>1. tasks' = tasks
    BY <1>5 DEF BackgroundStep, PollStep, SetMode, Surroundings, PollList,
         PollAsk, PollWrite, PollErrs, Prune, CloseOrMerge, Reopen,
         BackfillPrStatus, Tick, pipelineVars
  <2> QED
    BY <1>2, <1>3, <2>1 DEF QuietForRows
<1> QED
  BY <1>4, <1>5

(* A new row is idle, and a new task on it is alone in its first phase.    *)
LEMMA InsertRows ==
    ASSUME RowInv, NEW alert \in Alert, Insert(alert), prs' = prs,
           UNCHANGED dispatchers,
           \/ tasks' = tasks
           \/ \E gate \in Gates : Spawn(lastRun + 1, alert, gate)
    PROVE  Alone' /\ PrsAreOpened' /\ Phased' /\ OwnAlert'
<1>1. /\ TypeInv /\ Allocated /\ Alone /\ PrsAreOpened /\ Phased /\ OwnAlert
      /\ tasks \in Seq(Task) /\ lastRun \in Nat
      /\ DOMAIN prs \subseteq DOMAIN tasks
  BY DEF RowInv, QueueInv, BreakerInv, TypeInv, TypeOK
<1>2. /\ DOMAIN runs' = DOMAIN runs \cup {lastRun + 1}
      /\ lastRun + 1 \notin DOMAIN runs
      /\ \A r \in DOMAIN runs : runs'[r] = runs[r]
      /\ runs'[lastRun + 1] = FreshRow(alert, now)
  BY <1>1, InsertTypes
<1>3. runs'[lastRun + 1].status = "pending" /\ runs'[lastRun + 1].alert = alert
  BY <1>2 DEF FreshRow
<1>4. /\ \A t \in DOMAIN tasks : tasks[t].run # lastRun + 1
      /\ \A d \in Dispatchers :
            dispatchers[d].pc = "reset" => dispatchers[d].run # lastRun + 1
  BY <1>1 DEF Allocated
<1>5. /\ DOMAIN tasks \subseteq DOMAIN tasks'
      /\ \A t \in DOMAIN tasks : tasks'[t] = tasks[t]
      /\ \A t \in DOMAIN tasks' \ DOMAIN tasks :
            /\ t = Len(tasks) + 1 /\ tasks'[t].run = lastRun + 1
            /\ tasks'[t].alert = alert /\ tasks'[t].pc = "settings"
            /\ t \notin DOMAIN prs
  <2>1. CASE tasks' = tasks
    BY <2>1
  <2>2. CASE \E gate \in Gates : Spawn(lastRun + 1, alert, gate)
    <3>1. PICK gate \in Gates : Spawn(lastRun + 1, alert, gate)
      BY <2>2
    <3>2. lastRun + 1 \in Nat
      BY <1>1
    <3>3. /\ DOMAIN tasks' = DOMAIN tasks \cup {Len(tasks) + 1}
          /\ Len(tasks) + 1 \notin DOMAIN tasks
          /\ \A t \in DOMAIN tasks : tasks'[t] = tasks[t]
          /\ tasks'[Len(tasks) + 1] = NewTask(lastRun + 1, alert, gate)
      BY <1>1, <3>1, <3>2, SpawnTypes
    <3>4. /\ tasks'[Len(tasks) + 1].run = lastRun + 1
          /\ tasks'[Len(tasks) + 1].alert = alert
          /\ tasks'[Len(tasks) + 1].pc = "settings"
      BY <3>3 DEF NewTask
    <3> QED
      BY <1>1, <3>3, <3>4
  <2> QED
    BY <2>1, <2>2
<1>6. ASSUME NEW r, r # lastRun + 1, Idle(r) PROVE Idle(r)'
  BY <1>5, <1>6 DEF Idle, Live
<1>7. Alone'
  <2>1. \A t, u \in DOMAIN tasks' :
           Live(t)' /\ tasks'[u].run = tasks'[t].run /\ u # t
              => ~Live(u)' /\ u \notin DOMAIN prs'
    BY <1>1, <1>4, <1>5 DEF Alone, Live
  <2>2. ASSUME NEW r \in DOMAIN runs', runs'[r].status = "queued" PROVE Idle(r)'
    BY <1>1, <1>2, <1>3, <1>6, <2>2 DEF Alone
  <2>3. ASSUME NEW d \in Dispatchers, dispatchers'[d].pc = "reset"
        PROVE  /\ Idle(dispatchers[d].run)'
               /\ dispatchers'[d].run \in DOMAIN runs'
                     => runs'[dispatchers'[d].run].status = "queued"
    BY <1>1, <1>2, <1>4, <1>6, <2>3 DEF Alone
  <2> QED
    BY <2>1, <2>2, <2>3 DEF Alone
<1>8. PrsAreOpened'
  BY <1>1, <1>5 DEF PrsAreOpened
<1>9. Phased'
  BY <1>1, <1>2, <1>3, <1>4, <1>5 DEF Phased, Live, InPhase
<1>10. OwnAlert'
  BY <1>1, <1>2, <1>3, <1>4, <1>5 DEF OwnAlert
<1> QED
  BY <1>7, <1>8, <1>9, <1>10

(* Parking puts a row into the queue on which no task has ever worked.     *)
LEMMA ParkRows ==
    ASSUME RowInv, NEW h \in Handlers, ParkQueued(h)
    PROVE  Alone' /\ PrsAreOpened' /\ Phased' /\ OwnAlert'
<1>1. /\ SoleParker /\ Alone /\ PrsAreOpened /\ Phased /\ OwnAlert
      /\ RowTable(runs) /\ handlers[h].pc = "park"
      /\ runs' = UpdateStatus(runs, handlers[h].run, "queued")
      /\ UNCHANGED <<tasks, prs, dispatchers>>
  BY DEF RowInv, QueueInv, BreakerInv, TypeInv, TypeOK, RowTable, ParkQueued
<1>2. /\ \A t \in DOMAIN tasks : tasks[t].run # handlers[h].run
      /\ \A d \in Dispatchers :
            dispatchers[d].pc = "reset" => dispatchers[d].run # handlers[h].run
  BY <1>1 DEF SoleParker, Resetting
<1>3. /\ DOMAIN runs' = DOMAIN runs
      /\ \A r \in DOMAIN runs : runs'[r].alert = runs[r].alert
      /\ \A r \in DOMAIN runs :
            r # handlers[h].run => runs'[r].status = runs[r].status
  BY <1>1, UpdateStatusKeeps DEF UpdateStatus
<1>4. \A r : Idle(r)' <=> Idle(r)
  BY <1>1 DEF Idle, Live
<1>5. Idle(handlers[h].run)
  BY <1>2 DEF Idle
<1>6. Alone'
  BY <1>1, <1>2, <1>3, <1>4, <1>5 DEF Alone, Live
<1>7. PrsAreOpened' /\ Phased' /\ OwnAlert'
  BY <1>1, <1>2, <1>3 DEF PrsAreOpened, Phased, OwnAlert, Live
<1> QED
  BY <1>6, <1>7

(* A dispatch request finds its row idle when it reads it, and still finds *)
(* it so when it resets it and starts its task.                            *)
LEMMA DispatchRows ==
    ASSUME OneDispatchAtATime, RowInv, NEW d \in Dispatchers,
           DispatchRead(d) \/ DispatchReset(d) \/ DispatchErrs(d)
    PROVE  Alone' /\ PrsAreOpened' /\ Phased' /\ OwnAlert'
<1>1. /\ TypeInv /\ Allocated /\ Alone /\ PrsAreOpened /\ Phased /\ OwnAlert
      /\ RowTable(runs) /\ tasks \in Seq(Task) /\ DOMAIN prs \subseteq DOMAIN tasks
      /\ dispatchers \in [Dispatchers -> Dispatcher]
  BY DEF RowInv, QueueInv, BreakerInv, TypeInv, TypeOK, RowTable
<1>2. CASE DispatchRead(d) \/ DispatchErrs(d)
  <2>1. UNCHANGED <<runs, tasks, prs>>
    BY <1>2 DEF DispatchRead, DispatchErrs, pipelineVars
  <2>2. \A e \in Dispatchers : dispatchers'[e].pc = "reset" =>
           \/ dispatchers'[e] = dispatchers[e]
           \/ /\ dispatchers'[e].run \in ListQueued(runs)
              /\ dispatchers'[e].alert = runs[dispatchers'[e].run].alert
    <3>1. CASE DispatchErrs(d)
      BY <1>1, <3>1 DEF DispatchErrs, IdleDispatcher
    <3>2. ASSUME NEW r \in ListQueued(runs), dispatchers' = [dispatchers EXCEPT ![d] =
                    [pc |-> "reset", run |-> r, alert |-> runs[r].alert]]
          PROVE  \A e \in Dispatchers :
                    \/ dispatchers'[e] = dispatchers[e]
                    \/ /\ dispatchers'[e].run \in ListQueued(runs)
                       /\ dispatchers'[e].alert = runs[dispatchers'[e].run].alert
      BY <1>1, <3>2
    <3> QED
      BY <1>2, <3>1, <3>2 DEF DispatchRead
  <2>3. \A r : Idle(r)' <=> Idle(r)
    BY <2>1 DEF Idle, Live
  <2>4. \A e \in Dispatchers : dispatchers'[e].pc = "reset" =>
           /\ Idle(dispatchers'[e].run)
           /\ dispatchers'[e].run \in DOMAIN runs =>
                 /\ runs[dispatchers'[e].run].status = "queued"
                 /\ runs[dispatchers'[e].run].alert = dispatchers'[e].alert
    BY <1>1, <2>2 DEF Alone, OwnAlert, ListQueued
  <2>5. Alone' /\ OwnAlert'
    BY <1>1, <2>1, <2>3, <2>4 DEF Alone, OwnAlert, Live
  <2>6. PrsAreOpened' /\ Phased'
    BY <1>1, <2>1 DEF PrsAreOpened, Phased, Live
  <2> QED
    BY <2>5, <2>6
<1>3. CASE DispatchReset(d)
  <2> DEFINE r == dispatchers[d].run
  <2>1. /\ r \in Nat /\ dispatchers[d].alert \in Alert
        /\ Idle(r) /\ runs' = UpdateStatus(runs, r, "pending")
        /\ Spawn(r, dispatchers[d].alert, "exempt") /\ "exempt" \in Gates
        /\ r \in DOMAIN runs => runs[r].alert = dispatchers[d].alert
        /\ prs' = prs
    BY <1>1, <1>3 DEF DispatchReset, Dispatcher, Alone, OwnAlert, Gates
  <2>2. \A e \in Dispatchers : dispatchers'[e].pc # "reset"
    BY <1>1, <1>3 DEF DispatchReset, IdleDispatcher, OneDispatchAtATime
  <2> DEFINE alert == dispatchers[d].alert
  <2> HIDE DEF r, alert
  <2>3. /\ DOMAIN runs' = DOMAIN runs
        /\ \A q \in DOMAIN runs : runs'[q].alert = runs[q].alert
        /\ \A q \in DOMAIN runs :
              runs'[q].status = IF q = r THEN "pending" ELSE runs[q].status
    BY <1>1, <2>1, UpdateStatusKeeps DEF UpdateStatus
  <2>4. /\ DOMAIN tasks' = DOMAIN tasks \cup {Len(tasks) + 1}
        /\ Len(tasks) + 1 \notin DOMAIN tasks
        /\ \A t \in DOMAIN tasks : tasks'[t] = tasks[t]
        /\ tasks'[Len(tasks) + 1].run = r
        /\ tasks'[Len(tasks) + 1].pc = "settings"
        /\ tasks'[Len(tasks) + 1].alert = alert
    <3>1. /\ DOMAIN tasks' = DOMAIN tasks \cup {Len(tasks) + 1}
          /\ Len(tasks) + 1 \notin DOMAIN tasks
          /\ \A t \in DOMAIN tasks : tasks'[t] = tasks[t]
          /\ tasks'[Len(tasks) + 1] = NewTask(r, dispatchers[d].alert, "exempt")
      BY <1>1, <2>1, SpawnTypes
    <3> QED
      BY <3>1 DEF NewTask, alert
  <2>5. ASSUME NEW q, q # r, Idle(q) PROVE Idle(q)'
    BY <2>1, <2>4, <2>5 DEF Idle, Live
  <2>6. \A t \in DOMAIN tasks :
           /\ Live(t)' <=> Live(t)
           /\ tasks[t].run = r => ~Live(t) /\ t \notin DOMAIN prs
    BY <2>1, <2>4 DEF Live, Idle
  <2>7. Len(tasks) + 1 \notin DOMAIN prs
    BY <1>1, <2>4
  <2>8. Alone'
    <3>1. \A t, u \in DOMAIN tasks' :
             Live(t)' /\ tasks'[u].run = tasks'[t].run /\ u # t
                => ~Live(u)' /\ u \notin DOMAIN prs'
      BY <1>1, <2>1, <2>4, <2>6, <2>7 DEF Alone
    <3>2. ASSUME NEW q \in DOMAIN runs', runs'[q].status = "queued" PROVE Idle(q)'
      BY <1>1, <2>3, <2>5, <3>2 DEF Alone
    <3> QED
      BY <2>2, <3>1, <3>2 DEF Alone
  <2>9. PrsAreOpened'
    BY <1>1, <2>1, <2>4 DEF PrsAreOpened
  <2>10. Phased'
    BY <1>1, <2>3, <2>4, <2>6 DEF Phased, InPhase
  <2>11. OwnAlert'
    BY SMTT(20), <1>1, <2>1, <2>2, <2>3, <2>4 DEF OwnAlert, alert
  <2> QED
    BY <2>8, <2>9, <2>10, <2>11
<1> QED
  BY <1>2, <1>3

(* A step of a webhook request keeps every task alone and in its phase.    *)
LEMMA HandlerRows ==
    ASSUME RowInv, NEW h \in Handlers,
           Receive(h) \/ HandlerStep(h) \/ HandlerErrs(h)
    PROVE  Alone' /\ PrsAreOpened' /\ Phased' /\ OwnAlert'
<1>1. TypeInv
  BY DEF RowInv, QueueInv, BreakerInv
<1>2. CASE Receive(h) \/ CheckDuplicate(h) \/ HandlerErrs(h)
  <2>1. Quiet
    BY <1>1, <1>2, CheckingQuiet
  <2>2. QuietForRows
    BY <1>2, <2>1 DEF QuietForRows, Receive, CheckDuplicate, HandlerErrs, pipelineVars
  <2> QED
    BY <2>2, QuietRows
<1>3. CASE CreateRunning(h) \/ CreateParked(h)
  <2>1. handlers[h].pc = "create" /\ Insert(Head(handlers[h].batch))
        /\ UNCHANGED <<prs, dispatchers>>
    BY <1>3 DEF CreateRunning, CreateParked
  <2>2. Head(handlers[h].batch) \in Alert
    BY <1>1, <2>1 DEF TypeInv, TypeOK, References, Handler
  <2>3. \/ tasks' = tasks
        \/ \E gate \in Gates : Spawn(lastRun + 1, Head(handlers[h].batch), gate)
    BY <1>3 DEF CreateRunning, CreateParked, Gates
  <2> QED
    BY <2>1, <2>2, <2>3, InsertRows
<1>4. CASE ParkQueued(h)
  BY <1>4, ParkRows
<1> QED
  BY <1>2, <1>3, <1>4 DEF HandlerStep

(* Every step does.                                                        *)
LEMMA NextRows == OneDispatchAtATime /\ RowInv /\ [Next]_vars => RowInv'
<1> SUFFICES ASSUME OneDispatchAtATime, RowInv, [Next]_vars PROVE RowInv'
  OBVIOUS
<1>1. QueueInv'
  BY NextQueue DEF RowInv
<1> SUFFICES Alone' /\ PrsAreOpened' /\ Phased' /\ OwnAlert'
  BY <1>1 DEF RowInv
<1>2. CASE PipelineStep
  BY <1>2, PipelineRows
<1>3. CASE BackgroundStep \/ SetMode \/ Surroundings
  BY <1>3, OutsideRows, QuietRows
<1>4. CASE \E h \in Handlers : Receive(h) \/ HandlerStep(h) \/ HandlerErrs(h)
  BY <1>4, HandlerRows
<1>5. CASE \E d \in Dispatchers : DispatchRead(d) \/ DispatchReset(d) \/ DispatchErrs(d)
  BY <1>5, DispatchRows
<1>6. CASE TriggerManually
  BY <1>6, InsertRows DEF TriggerManually, Gates
<1>7. CASE UNCHANGED vars
  <2>1. QuietForRows
    BY <1>7 DEF vars, QuietForRows, Quiet
  <2> QED
    BY <2>1, QuietRows
<1> QED
  BY <1>2, <1>3, <1>4, <1>5, <1>6, <1>7 DEF Next, RequestStep

LEMMA InitRows == Init => RowInv
<1> SUFFICES ASSUME Init PROVE RowInv
  OBVIOUS
<1>1. QueueInv
  BY InitQueue
<1>2. DOMAIN tasks = {} /\ DOMAIN runs = {} /\ DOMAIN prs = {}
      /\ \A d \in Dispatchers : dispatchers[d].pc # "reset"
  BY DEF Init, IdleDispatcher
<1> QED
  BY <1>1, <1>2 DEF RowInv, Alone, PrsAreOpened, Phased, OwnAlert

-----------------------------------------------------------------------------
(* What the table says of pull requests.                                   *)

(* The states of a pull request that GitHub never leaves.                  *)
Final == IF "reopen" \in People THEN {"merged"} ELSE {"closed", "merged"}

(* A row has no pull request before its task has recorded one.             *)
Unrecorded ==
    /\ \A t \in DOMAIN tasks :
          Live(t) /\ tasks[t].pc \notin Recorded /\ tasks[t].run \in DOMAIN runs
              => runs[tasks[t].run].pr = NoPr
    /\ \A r \in DOMAIN runs : runs[r].status = "queued" => runs[r].pr = NoPr
    /\ \A h \in Handlers :
          handlers[h].pc = "park" /\ handlers[h].run \in DOMAIN runs
              => runs[handlers[h].run].pr = NoPr

(* A state on record that can no longer change is that of the row's pull   *)
(* request, and a merge has been stamped.                                  *)
RecordIsReal ==
    /\ now >= 1
    /\ \A r \in DOMAIN runs :
          /\ runs[r].pr = NoPr => runs[r].prStatus = "null"
          /\ runs[r].mergedAt <= now
          /\ runs[r].prStatus \in Final => prs[runs[r].pr] = runs[r].prStatus
          /\ runs[r].prStatus = "merged" => runs[r].mergedAt >= 1

(* The rows that the poller visits still have the pull request with which  *)
(* they were listed, and what it is about to write is still so.            *)
PollerIsCurrent ==
    /\ \A listed \in poller.left :
          /\ listed[1] \in 1..lastRun /\ listed[2] # NoPr
          /\ listed[1] \in DOMAIN runs => runs[listed[1]].pr = listed[2]
    /\ poller.run # NoRun =>
          /\ poller.run \in 1..lastRun
          /\ poller.seen \in {"closed", "merged"}
          /\ poller.run \in DOMAIN runs =>
                /\ runs[poller.run].pr # NoPr
                /\ poller.seen \in Final => prs[runs[poller.run].pr] = poller.seen

TrackInv == RowInv /\ Unrecorded /\ RecordIsReal /\ PollerIsCurrent

(* What most steps leave alone: GitHub's final states, the rows' columns   *)
(* about pull requests, and what the poller has found out.                 *)
FinalStays ==
    /\ DOMAIN prs \subseteq DOMAIN prs'
    /\ \A p \in DOMAIN prs : prs[p] \in Final => prs'[p] = prs[p]

RowsStay ==
    \A r \in DOMAIN runs' : r \in DOMAIN runs =>
        /\ runs'[r].pr = runs[r].pr
        /\ runs'[r].prStatus = runs[r].prStatus
        /\ runs'[r].mergedAt = runs[r].mergedAt

RowsAreFresh ==
    \A r \in DOMAIN runs' : r \notin DOMAIN runs =>
        /\ r \notin 1..lastRun
        /\ runs'[r].pr = NoPr
        /\ runs'[r].prStatus = "null"
        /\ runs'[r].mergedAt = NoTime

PollerStays ==
    /\ poller'.left \subseteq poller.left
    /\ \/ poller'.run = poller.run /\ poller'.seen = poller.seen
       \/ poller'.run = NoRun

(* Such a step keeps the record and the poller right.                      *)
LEMMA AsideKeeps ==
    ASSUME TypeInv, TypeInv', RecordIsReal, PollerIsCurrent,
           FinalStays, RowsStay, RowsAreFresh, PollerStays,
           now' >= now, lastRun' >= lastRun
    PROVE  RecordIsReal' /\ PollerIsCurrent'
<1>1. /\ now \in Nat /\ now' \in Nat /\ lastRun \in Nat /\ lastRun' \in Nat
      /\ \A r \in DOMAIN runs : runs[r] \in Row
      /\ \A r \in DOMAIN runs : runs[r].pr # NoPr => runs[r].pr \in DOMAIN prs
      /\ Final \subseteq {"closed", "merged"}
      /\ "null" \notin Final /\ "merged" # "null"
  BY DEF TypeInv, TypeInv, TypeOK, References, Final
<1>2. ASSUME NEW r \in DOMAIN runs'
      PROVE  /\ runs'[r].pr = NoPr => runs'[r].prStatus = "null"
             /\ runs'[r].mergedAt <= now'
             /\ runs'[r].prStatus \in Final => prs'[runs'[r].pr] = runs'[r].prStatus
             /\ runs'[r].prStatus = "merged" => runs'[r].mergedAt >= 1
  <2>1. CASE r \in DOMAIN runs
    <3>1. /\ runs'[r].pr = runs[r].pr /\ runs'[r].prStatus = runs[r].prStatus
          /\ runs'[r].mergedAt = runs[r].mergedAt /\ runs[r].mergedAt \in Nat
      BY <1>1, <2>1 DEF RowsStay, Row
    <3>2. /\ runs[r].pr = NoPr => runs[r].prStatus = "null"
          /\ runs[r].mergedAt <= now
          /\ runs[r].prStatus \in Final => prs[runs[r].pr] = runs[r].prStatus
          /\ runs[r].prStatus = "merged" => runs[r].mergedAt >= 1
      BY <2>1 DEF RecordIsReal
    <3>3. runs[r].mergedAt <= now'
      BY <1>1, <3>1, <3>2
    <3>4. runs[r].prStatus \in Final => prs'[runs[r].pr] = runs[r].prStatus
      BY <1>1, <2>1, <3>2 DEF FinalStays
    <3> QED
      BY <3>1, <3>2, <3>3, <3>4
  <2>2. CASE r \notin DOMAIN runs
    BY <1>1, <2>2 DEF RowsAreFresh, NoTime
  <2> QED
    BY <2>1, <2>2
<1>3. RecordIsReal'
  <2>1. now' >= 1
    BY <1>1 DEF RecordIsReal
  <2> QED
    BY <1>2, <2>1 DEF RecordIsReal
<1>4. ASSUME NEW r \in 1..lastRun
      PROVE  r \in 1..lastRun' /\ (r \in DOMAIN runs' => r \in DOMAIN runs)
  BY <1>1, <1>4 DEF RowsAreFresh
<1>5. \A listed \in poller'.left :
         /\ listed[1] \in 1..lastRun' /\ listed[2] # NoPr
         /\ listed[1] \in DOMAIN runs' => runs'[listed[1]].pr = listed[2]
  BY <1>4 DEF PollerIsCurrent, PollerStays, RowsStay
<1>6. ASSUME poller'.run # NoRun
      PROVE  /\ poller'.run \in 1..lastRun'
             /\ poller'.seen \in {"closed", "merged"}
             /\ poller'.run \in DOMAIN runs' =>
                   /\ runs'[poller'.run].pr # NoPr
                   /\ poller'.seen \in Final
                         => prs'[runs'[poller'.run].pr] = poller'.seen
  <2>1. /\ poller'.run = poller.run /\ poller'.seen = poller.seen
        /\ poller.run \in 1..lastRun
    BY <1>6 DEF PollerStays, PollerIsCurrent
  <2>2. ASSUME poller.run \in DOMAIN runs'
        PROVE  /\ poller.run \in DOMAIN runs /\ runs[poller.run].pr # NoPr
               /\ runs'[poller.run].pr = runs[poller.run].pr
               /\ poller.seen \in Final => prs[runs[poller.run].pr] = poller.seen
    BY <1>4, <1>6, <2>1, <2>2 DEF PollerIsCurrent, RowsStay
  <2> QED
    BY <1>1, <1>4, <1>6, <2>1, <2>2 DEF PollerIsCurrent, FinalStays
<1> QED
  BY <1>3, <1>5, <1>6 DEF PollerIsCurrent

(* A task opens a pull request under a name that GitHub does not know yet, *)
(* and records an outcome on a row that has none and that no poll visits.  *)
LEMMA PipelineTracks ==
    ASSUME TrackInv, PipelineStep
    PROVE  Unrecorded' /\ RecordIsReal' /\ PollerIsCurrent'
<1>1. PICK t \in DOMAIN tasks : Advance(t) \/ Fail(t)
  BY DEF PipelineStep
<1>2. /\ TypeInv /\ SoleParker /\ Alone /\ PrsAreOpened /\ Phased
      /\ Unrecorded /\ RecordIsReal /\ PollerIsCurrent
      /\ RowTable(runs) /\ now \in Nat /\ lastRun \in Nat
      /\ UNCHANGED <<lastRun, handlers, dispatchers, poller>>
  BY DEF TrackInv, RowInv, QueueInv, BreakerInv, PipelineStep, agentVars, TypeInv,
         TypeOK, RowTable
<1>3. TypeInv' /\ now' = now
  BY <1>1, <1>2, PipelineTypes, PhaseStepTypes DEF TaskStep
<1>4. /\ TaskStep(t) /\ PhaseStep(t)
      /\ DOMAIN tasks' = DOMAIN tasks
      /\ \A u \in DOMAIN tasks : /\ tasks'[u].run = tasks[u].run
                                 /\ u # t => tasks'[u] = tasks[u]
      /\ DOMAIN runs' = DOMAIN runs
      /\ Live(t)
  BY <1>1, <1>2, PhaseStepTypes
<1>5. FinalStays
  <2>1. tasks[t].pc = "opening" => t \notin DOMAIN prs
    BY <1>2 DEF PrsAreOpened, Opened, Recorded, Ended
  <2> QED
    BY <1>4, <2>1 DEF PhaseStep, OpenStep, FinalStays, Put
<1>6. \/ PrColumnsKept
      \/ /\ tasks[t].pc \notin Recorded /\ tasks'[t].pc \in Recorded
         /\ \E pr : runs' = RecordPr(runs, tasks[t].run, pr) /\ pr \in {t, NoPr}
  BY <1>4 DEF PhaseStep, RecordStep, Recorded
<1>7. /\ \A r \in DOMAIN runs : r # tasks[t].run =>
            /\ runs'[r].pr = runs[r].pr
            /\ runs'[r].prStatus = runs[r].prStatus
            /\ runs'[r].mergedAt = runs[r].mergedAt
      /\ PrColumnsKept \/ (tasks[t].pc \notin Recorded /\ tasks'[t].pc \in Recorded)
  <2>1. ASSUME NEW pr, runs' = RecordPr(runs, tasks[t].run, pr)
        PROVE  \A r \in DOMAIN runs : r # tasks[t].run =>
                  /\ runs'[r].pr = runs[r].pr
                  /\ runs'[r].prStatus = runs[r].prStatus
                  /\ runs'[r].mergedAt = runs[r].mergedAt
    BY <1>2, <2>1, RecordPrKeeps
  <2> QED
    BY <1>6, <2>1 DEF PrColumnsKept
<1>8. Unrecorded'
  <2>1. ASSUME NEW u \in DOMAIN tasks', Live(u)', tasks'[u].pc \notin Recorded,
               tasks'[u].run \in DOMAIN runs'
        PROVE  runs'[tasks'[u].run].pr = NoPr
    <3>1. CASE u = t
      <4>1. tasks[t].pc \notin Recorded /\ PrColumnsKept
        BY <1>4, <1>7, <2>1, <3>1 DEF PhaseStep, LabelStep, Live
      <4>2. runs[tasks[t].run].pr = NoPr
        BY <1>2, <1>4, <2>1, <3>1, <4>1 DEF Unrecorded
      <4> QED
        BY <1>4, <2>1, <3>1, <4>1, <4>2 DEF PrColumnsKept
    <3>2. CASE u # t
      <4>1. tasks'[u] = tasks[u] /\ Live(u)
        BY <1>4, <2>1, <3>2 DEF Live
      <4>2. tasks[u].run # tasks[t].run
        BY <1>2, <1>4, <3>2, <4>1 DEF Alone
      <4> QED
        BY <1>2, <1>4, <1>7, <2>1, <4>1, <4>2 DEF Unrecorded
    <3> QED
      BY <3>1, <3>2
  <2>2. ASSUME NEW r \in DOMAIN runs', runs'[r].status = "queued"
        PROVE  runs'[r].pr = NoPr
    <3>1. CASE runs[r].status = "queued"
      <4>1. r # tasks[t].run /\ runs[r].pr = NoPr
        BY <1>2, <1>4, <2>2, <3>1 DEF Alone, Idle, Unrecorded
      <4> QED
        BY <1>4, <1>7, <2>2, <4>1
    <3>2. CASE runs[r].status # "queued"
      <4>1. r = tasks[t].run /\ tasks[t].pc = "park" /\ tasks'[t].pc = "ended"
        BY <1>2, <1>4, <2>2, <3>2, OwnRowQueued
      <4>2. PrColumnsKept /\ runs[r].pr = NoPr
        BY <1>2, <1>4, <1>7, <2>2, <4>1 DEF Unrecorded, Recorded
      <4> QED
        BY <1>4, <2>2, <4>2 DEF PrColumnsKept
    <3> QED
      BY <3>1, <3>2
  <2>3. ASSUME NEW h \in Handlers, handlers'[h].pc = "park",
               handlers'[h].run \in DOMAIN runs'
        PROVE  runs'[handlers'[h].run].pr = NoPr
    BY <1>2, <1>4, <1>7, <2>3 DEF SoleParker, Unrecorded
  <2> QED
    BY <2>1, <2>2, <2>3 DEF Unrecorded
<1>9. CASE PrColumnsKept
  <2>1. RowsStay /\ RowsAreFresh /\ PollerStays
    BY <1>2, <1>4, <1>9 DEF RowsStay, RowsAreFresh, PollerStays, PrColumnsKept
  <2> QED
    BY <1>2, <1>3, <1>5, <1>8, <2>1, AsideKeeps
<1>10. ASSUME NEW pr, runs' = RecordPr(runs, tasks[t].run, pr),
              tasks[t].pc \notin Recorded
       PROVE  RecordIsReal' /\ PollerIsCurrent'
  <2> DEFINE r == tasks[t].run
  <2>1. r \in DOMAIN runs => runs[r].pr = NoPr /\ runs[r].prStatus = "null"
    BY <1>2, <1>4, <1>10 DEF Unrecorded, RecordIsReal
  <2>2. \A q \in DOMAIN runs :
           /\ runs'[q].pr = IF q = r THEN pr ELSE runs[q].pr
           /\ runs'[q].prStatus = runs[q].prStatus
           /\ runs'[q].mergedAt = runs[q].mergedAt
    BY <1>2, <1>10, RecordPrKeeps
  <2>3. \A q \in DOMAIN runs : runs[q].pr # NoPr => runs[q].pr \in DOMAIN prs
    BY <1>2 DEF TypeInv, References
  <2>4. "null" \notin Final /\ "null" # "merged"
    BY DEF Final
  <2> HIDE DEF r
  <2>5. RecordIsReal'
    BY <1>2, <1>3, <1>4, <1>5, <2>1, <2>2, <2>3, <2>4 DEF RecordIsReal, FinalStays
  <2>6. PollerIsCurrent'
    BY <1>2, <1>4, <1>5, <2>1, <2>2, <2>3 DEF PollerIsCurrent, FinalStays
  <2> QED
    BY <2>5, <2>6
<1> QED
  BY <1>6, <1>8, <1>9, <1>10

(* A quiet step keeps the rows unrecorded when it keeps their column.      *)
LEMMA QuietUnrecorded ==
    ASSUME Unrecorded, Quiet, RowsStay
    PROVE  Unrecorded'
<1>1. \A t \in DOMAIN tasks' : Live(t)' => Live(t) /\ tasks'[t] = tasks[t]
  BY DEF Quiet, Live
<1>2. \A h \in Handlers : handlers'[h].pc = "park" => handlers'[h] = handlers[h]
  BY DEF Quiet
<1> QED
  BY <1>1, <1>2 DEF Unrecorded, Quiet, RowsStay

(* The people, the clock, the pruner, a crash and errors of the poller.    *)
LEMMA OutsideTracks ==
    ASSUME TrackInv,
           \/ SetMode \/ PollErrs \/ Prune \/ CloseOrMerge \/ Reopen
           \/ Tick \/ Crash \/ UNCHANGED vars
    PROVE  Unrecorded' /\ RecordIsReal' /\ PollerIsCurrent'
<1>1. /\ TypeInv /\ Unrecorded /\ RecordIsReal /\ PollerIsCurrent
      /\ RowTable(runs) /\ now \in Nat /\ lastRun \in Nat /\ poller \in Poller
      /\ \A p \in DOMAIN prs : prs[p] \in {"open", "closed", "merged"}
  BY DEF TrackInv, RowInv, QueueInv, BreakerInv, TypeInv, TypeOK, RowTable
<1>2. TypeInv'
  BY <1>1, NextTypes DEF Next, RequestStep, BackgroundStep, Surroundings
<1>3. Quiet
  <2>1. CASE UNCHANGED vars
    BY <2>1 DEF vars, Quiet
  <2> QED
    BY <1>1, <2>1, OutsideQuiet DEF BackgroundStep, Surroundings
<1>4. FinalStays
  <2>1. CASE CloseOrMerge
    <3>1. PICK p \in DOMAIN prs, s \in {"closed", "merged"} :
              prs[p] = "open" /\ prs' = [prs EXCEPT ![p] = s]
      BY <2>1 DEF CloseOrMerge
    <3> QED
      BY <3>1 DEF FinalStays, Final
  <2>2. CASE Reopen
    <3>1. PICK p \in DOMAIN prs :
              prs[p] = "closed" /\ prs' = [prs EXCEPT ![p] = "open"]
      BY <2>2 DEF Reopen
    <3>2. Final = {"merged"}
      BY <2>2 DEF Reopen, Final
    <3> QED
      BY <3>1, <3>2 DEF FinalStays
  <2>3. CASE prs' = prs
    BY <2>3 DEF FinalStays
  <2> QED
    BY <2>1, <2>2, <2>3 DEF SetMode, PollErrs, Prune, Tick, Crash, vars, pipelineVars
<1>5. RowsStay /\ RowsAreFresh
  <2>1. CASE Prune
    <3>1. /\ DOMAIN runs' \subseteq DOMAIN runs
          /\ \A r \in DOMAIN runs' : runs'[r] = runs[r]
      BY <1>1, <2>1, DeleteOlderType DEF Prune
    <3> QED
      BY <3>1 DEF RowsStay, RowsAreFresh
  <2>2. CASE runs' = runs
    BY <2>2 DEF RowsStay, RowsAreFresh
  <2> QED
    BY <2>1, <2>2 DEF SetMode, PollErrs, CloseOrMerge, Reopen, Tick, Crash,
                      vars, pipelineVars
<1>6. PollerStays
  <2>1. CASE PollErrs
    <3>1. CASE poller' = [poller EXCEPT !.run = NoRun, !.seen = "null"]
      BY <1>1, <3>1 DEF Poller, PollerStays
    <3>2. CASE \E listed \in poller.left :
                  poller' = [poller EXCEPT !.left = poller.left \ {listed}]
      BY <1>1, <3>2 DEF Poller, PollerStays
    <3> QED
      BY <2>1, <3>1, <3>2 DEF PollErrs
  <2>2. CASE Crash
    BY <2>2 DEF Crash, IdlePoller, PollerStays
  <2>3. CASE poller' = poller
    BY <2>3 DEF PollerStays
  <2> QED
    BY <2>1, <2>2, <2>3 DEF SetMode, Prune, CloseOrMerge, Reopen, Tick, vars, agentVars
<1>7. now' >= now /\ lastRun' >= lastRun
  BY <1>1 DEF SetMode, PollErrs, Prune, CloseOrMerge, Reopen, Tick, Crash, vars,
              pipelineVars, agentVars
<1> QED
  BY <1>1, <1>2, <1>3, <1>4, <1>5, <1>6, <1>7, AsideKeeps, QuietUnrecorded

(* A request's step, whether it inserts a row, parks or dispatches one, or *)
(* changes nothing of the table.                                           *)
LEMMA RequestTracks ==
    ASSUME TrackInv, RequestStep
    PROVE  Unrecorded' /\ RecordIsReal' /\ PollerIsCurrent'
<1>1. /\ TypeInv /\ Allocated /\ SoleParker /\ Alone
      /\ Unrecorded /\ RecordIsReal /\ PollerIsCurrent
      /\ RowTable(runs) /\ now \in Nat /\ lastRun \in Nat /\ tasks \in Seq(Task)
      /\ dispatchers \in [Dispatchers -> Dispatcher]
      /\ handlers \in [Handlers -> Handler]
      /\ DOMAIN runs \subseteq 1..lastRun
  BY DEF TrackInv, RowInv, QueueInv, BreakerInv, TypeInv, TypeOK, RowTable
<1>2. TypeInv'
  BY <1>1, NextTypes DEF Next
<1>3. ASSUME UNCHANGED <<prs, now, poller>>, lastRun' >= lastRun,
             RowsStay, RowsAreFresh
      PROVE  RecordIsReal' /\ PollerIsCurrent'
  <2>1. FinalStays /\ PollerStays
    BY <1>3 DEF FinalStays, PollerStays
  <2> QED
    BY <1>1, <1>2, <1>3, <2>1, AsideKeeps
<1>4. ASSUME NEW alert \in Alert, Insert(alert)
      PROVE  /\ RowsStay /\ RowsAreFresh /\ lastRun' >= lastRun
             /\ DOMAIN runs' = DOMAIN runs \cup {lastRun + 1}
             /\ \A r \in DOMAIN runs : runs'[r] = runs[r]
             /\ runs'[lastRun + 1].pr = NoPr
  <2>1. /\ DOMAIN runs' = DOMAIN runs \cup {lastRun + 1}
        /\ lastRun' = lastRun + 1 /\ lastRun + 1 \notin DOMAIN runs
        /\ \A r \in DOMAIN runs : runs'[r] = runs[r]
        /\ runs'[lastRun + 1] = FreshRow(alert, now)
    BY <1>1, <1>4, InsertTypes
  <2>2. lastRun + 1 \notin 1..lastRun
    BY <1>1
  <2> QED
    BY <1>1, <2>1, <2>2 DEF RowsStay, RowsAreFresh, FreshRow
<1>5. ASSUME NEW alert \in Alert, NEW gate \in Gates, Insert(alert),
             Spawn(lastRun + 1, alert, gate),
             \A h \in Handlers : handlers'[h].pc = "park" => handlers'[h] = handlers[h]
      PROVE  Unrecorded'
  <2>1. /\ DOMAIN tasks' = DOMAIN tasks \cup {Len(tasks) + 1}
        /\ \A t \in DOMAIN tasks : tasks'[t] = tasks[t]
        /\ tasks'[Len(tasks) + 1] = NewTask(lastRun + 1, alert, gate)
    <3>1. lastRun + 1 \in Nat
      BY <1>1
    <3> QED
      BY <1>1, <1>5, <3>1, SpawnTypes
  <2>2. tasks'[Len(tasks) + 1].run = lastRun + 1
    BY <2>1 DEF NewTask
  <2>3. \A r \in DOMAIN runs' :
           runs'[r].pr = NoPr \/ (r \in DOMAIN runs /\ runs'[r] = runs[r])
    BY <1>4, <1>5
  <2>4. /\ \A t \in DOMAIN tasks : tasks[t].run # lastRun + 1
        /\ \A h \in Handlers : handlers[h].pc = "park" => handlers[h].run # lastRun + 1
    BY <1>1 DEF Allocated, SoleParker
  <2> QED
    BY <1>1, <1>5, <2>1, <2>2, <2>3, <2>4 DEF Unrecorded, Live
<1>6. CASE TriggerManually
  BY <1>3, <1>4, <1>5, <1>6 DEF TriggerManually, Gates
<1>7. CASE SetMode
  BY <1>7, OutsideTracks
<1>8. ASSUME NEW h \in Handlers, Receive(h) \/ CheckDuplicate(h) \/ HandlerErrs(h)
      PROVE  Unrecorded' /\ RecordIsReal' /\ PollerIsCurrent'
  <2>1. Quiet
    BY <1>1, <1>8, CheckingQuiet
  <2>2. UNCHANGED <<runs, prs, now, poller, lastRun>>
    BY <1>8 DEF Receive, CheckDuplicate, HandlerErrs, pipelineVars
  <2>3. RowsStay /\ RowsAreFresh
    BY <2>2 DEF RowsStay, RowsAreFresh
  <2> QED
    BY <1>1, <1>3, <2>1, <2>2, <2>3, QuietUnrecorded
<1>9. ASSUME NEW h \in Handlers, CreateRunning(h)
      PROVE  Unrecorded' /\ RecordIsReal' /\ PollerIsCurrent'
  <2>1. handlers[h].pc = "create" /\ Head(handlers[h].batch) \in Alert
    BY <1>1, <1>9 DEF CreateRunning, TypeInv, References, Handler
  <2>2. \A g \in Handlers : handlers'[g].pc = "park" => handlers'[g] = handlers[g]
    BY <1>1, <1>9, <2>1, NextAlertTypes DEF CreateRunning
  <2>3. /\ Insert(Head(handlers[h].batch))
        /\ Spawn(lastRun + 1, Head(handlers[h].batch), "enforced")
        /\ UNCHANGED <<prs, now, poller>>
    BY <1>9 DEF CreateRunning
  <2> QED
    BY <1>3, <1>4, <1>5, <2>1, <2>2, <2>3 DEF Gates
<1>10. ASSUME NEW h \in Handlers, CreateParked(h)
       PROVE  Unrecorded' /\ RecordIsReal' /\ PollerIsCurrent'
  <2>1. handlers[h].pc = "create" /\ Head(handlers[h].batch) \in Alert
    BY <1>1, <1>10 DEF CreateParked, TypeInv, References, Handler
  <2>2. /\ \A g \in Handlers : g # h => handlers'[g] = handlers[g]
        /\ handlers'[h].run = lastRun + 1
    BY <1>1, <1>10 DEF CreateParked, Handler
  <2>3. /\ Insert(Head(handlers[h].batch))
        /\ UNCHANGED <<tasks, prs, now, poller>>
    BY <1>10 DEF CreateParked
  <2>4. \A r \in DOMAIN runs' :
           runs'[r].pr = NoPr \/ (r \in DOMAIN runs /\ runs'[r] = runs[r])
    BY <1>4, <2>1, <2>3
  <2>5. /\ \A t \in DOMAIN tasks : tasks[t].run # lastRun + 1
        /\ \A g \in Handlers : handlers[g].pc = "park" => handlers[g].run # lastRun + 1
        /\ runs'[lastRun + 1].pr = NoPr
    BY <1>1, <1>4, <2>1, <2>3 DEF Allocated, SoleParker
  <2>6. Unrecorded'
    BY <1>1, <2>2, <2>3, <2>4, <2>5 DEF Unrecorded, Live
  <2> QED
    BY <1>3, <1>4, <2>1, <2>3, <2>6
<1>11. ASSUME NEW r, NEW s, runs' = UpdateStatus(runs, r, s)
       PROVE  /\ RowsStay /\ RowsAreFresh /\ DOMAIN runs' = DOMAIN runs
              /\ \A q \in DOMAIN runs :
                    /\ runs'[q].pr = runs[q].pr
                    /\ q # r => runs'[q].status = runs[q].status
  <2>1. DOMAIN runs' = DOMAIN runs
    BY <1>11 DEF UpdateStatus
  <2> QED
    BY <1>1, <1>11, <2>1, UpdateStatusKeeps DEF RowsStay, RowsAreFresh
<1>12. ASSUME NEW h \in Handlers, ParkQueued(h)
       PROVE  Unrecorded' /\ RecordIsReal' /\ PollerIsCurrent'
  <2>1. /\ handlers[h].pc = "park"
        /\ runs' = UpdateStatus(runs, handlers[h].run, "queued")
        /\ UNCHANGED <<tasks, prs, now, poller, lastRun>>
    BY <1>12 DEF ParkQueued
  <2>2. \A g \in Handlers : handlers'[g].pc = "park" => handlers'[g] = handlers[g]
    BY <1>1, <1>12, <2>1, NextAlertTypes DEF ParkQueued
  <2>3. Unrecorded'
    BY SMTT(20), <1>1, <1>11, <2>1, <2>2 DEF Unrecorded, Live
  <2> QED
    BY <1>1, <1>3, <1>11, <2>1, <2>3
<1>13. ASSUME NEW d \in Dispatchers, DispatchReset(d)
       PROVE  Unrecorded' /\ RecordIsReal' /\ PollerIsCurrent'
  <2>1. /\ dispatchers[d].pc = "reset"
        /\ runs' = UpdateStatus(runs, dispatchers[d].run, "pending")
        /\ Spawn(dispatchers[d].run, dispatchers[d].alert, "exempt")
        /\ UNCHANGED <<handlers, prs, now, poller, lastRun>>
        /\ dispatchers[d].run \in Nat /\ dispatchers[d].alert \in Alert
    BY <1>1, <1>13 DEF DispatchReset, Dispatcher
  <2>2. dispatchers[d].run \in DOMAIN runs => runs[dispatchers[d].run].pr = NoPr
    BY <1>1, <2>1 DEF Alone, Unrecorded
  <2>3. /\ DOMAIN tasks' = DOMAIN tasks \cup {Len(tasks) + 1}
        /\ \A t \in DOMAIN tasks : tasks'[t] = tasks[t]
        /\ tasks'[Len(tasks) + 1].run = dispatchers[d].run
    <3>1. /\ DOMAIN tasks' = DOMAIN tasks \cup {Len(tasks) + 1}
          /\ \A t \in DOMAIN tasks : tasks'[t] = tasks[t]
          /\ tasks'[Len(tasks) + 1]
                = NewTask(dispatchers[d].run, dispatchers[d].alert, "exempt")
      BY <1>1, <2>1, SpawnTypes DEF Gates
    <3> QED
      BY <3>1 DEF NewTask
  <2>4. \A r \in DOMAIN runs' : runs'[r].status = "queued" => runs'[r].pr = NoPr
    BY <1>1, <1>11, <2>1, <2>2 DEF Unrecorded
  <2>5. Unrecorded'
    BY <1>1, <1>11, <2>1, <2>2, <2>3, <2>4 DEF Unrecorded, Live
  <2> QED
    BY <1>1, <1>3, <1>11, <2>1, <2>5
<1>14. ASSUME NEW d \in Dispatchers, DispatchRead(d) \/ DispatchErrs(d)
       PROVE  Unrecorded' /\ RecordIsReal' /\ PollerIsCurrent'
  <2>1. UNCHANGED <<runs, tasks, prs, now, poller, lastRun, handlers>>
    BY <1>14 DEF DispatchRead, DispatchErrs, pipelineVars
  <2>2. RowsStay /\ RowsAreFresh
    BY <2>1 DEF RowsStay, RowsAreFresh
  <2>3. Unrecorded'
    BY <1>1, <2>1 DEF Unrecorded, Live
  <2> QED
    BY <1>1, <1>3, <2>1, <2>2, <2>3
<1> QED
  BY <1>6, <1>7, <1>8, <1>9, <1>10, <1>12, <1>13, <1>14 DEF RequestStep, HandlerStep

(* A state written to the table of a row with a pull request, if final,    *)
(* is that of the pull request; the first merge is stamped.                *)
LEMMA WriteTracks ==
    ASSUME TrackInv, NEW r, NEW s \in {"open", "closed", "merged"},
           runs' = UpdatePrStatus(runs, r, s, now),
           r \in DOMAIN runs => /\ runs[r].pr # NoPr
                                /\ s \in Final => prs[runs[r].pr] = s,
           UNCHANGED <<tasks, prs, now, lastRun, handlers>>, PollerStays
    PROVE  Unrecorded' /\ RecordIsReal' /\ PollerIsCurrent'
<1>1. /\ Unrecorded /\ RecordIsReal /\ PollerIsCurrent
      /\ RowTable(runs) /\ now \in Nat
  BY DEF TrackInv, RowInv, QueueInv, BreakerInv, TypeInv, TypeOK, RowTable
<1>2. DOMAIN runs' = DOMAIN runs
  BY DEF UpdatePrStatus
<1>3. \A q \in DOMAIN runs : /\ runs'[q].pr = runs[q].pr
                             /\ runs'[q].status = runs[q].status
  BY <1>1, UpdatePrStatusKeeps
<1>4. \A q \in DOMAIN runs : q # r => runs'[q] = runs[q]
  BY DEF UpdatePrStatus
<1>5. r \in DOMAIN runs =>
         /\ runs'[r].prStatus = s
         /\ runs'[r].mergedAt = IF s = "merged" /\ runs[r].mergedAt = NoTime
                                THEN now ELSE runs[r].mergedAt
  BY <1>1 DEF UpdatePrStatus, RowTable, Row
<1>6. \A q \in DOMAIN runs : runs[q].mergedAt \in Nat
  BY <1>1 DEF RowTable, Row
<1>7. Unrecorded'
  BY <1>1, <1>2, <1>3 DEF Unrecorded, Live
<1>8. RecordIsReal'
  BY <1>1, <1>2, <1>3, <1>4, <1>5, <1>6 DEF RecordIsReal, NoTime
<1>9. PollerIsCurrent'
  BY <1>1, <1>2, <1>3 DEF PollerIsCurrent, PollerStays
<1> QED
  BY <1>7, <1>8, <1>9

(* A step of the poller, and someone's writing "open" into a row.          *)
LEMMA PollerTracks ==
    ASSUME TrackInv, PollStep \/ BackfillPrStatus
    PROVE  Unrecorded' /\ RecordIsReal' /\ PollerIsCurrent'
<1>1. /\ TypeInv /\ Unrecorded /\ RecordIsReal /\ PollerIsCurrent
      /\ now \in Nat /\ lastRun \in Nat /\ poller \in Poller
      /\ DOMAIN runs \subseteq 1..lastRun
      /\ poller.left \in SUBSET (Nat \X Nat)
      /\ \A p \in DOMAIN prs : prs[p] \in {"open", "closed", "merged"}
      /\ \A listed \in poller.left : listed[2] \in DOMAIN prs
  BY DEF TrackInv, RowInv, QueueInv, BreakerInv, TypeInv, TypeOK, References, Poller
<1>2. CASE PollList
  <2> DEFINE found == {<<r, runs[r].pr>> : r \in ListOpenPrs(runs)}
  <2>1. /\ poller'.left = found /\ poller'.run = NoRun
        /\ UNCHANGED <<runs, tasks, prs, now, lastRun, handlers>>
    BY <1>1, <1>2 DEF PollList, Poller, pipelineVars
  <2>2. \A listed \in found :
           /\ listed[1] \in 1..lastRun /\ listed[2] # NoPr
           /\ listed[1] \in DOMAIN runs => runs[listed[1]].pr = listed[2]
    BY <1>1 DEF ListOpenPrs
  <2> HIDE DEF found
  <2> QED
    BY <1>1, <2>1, <2>2 DEF Unrecorded, RecordIsReal, PollerIsCurrent, Live
<1>3. CASE PollAsk
  <2>1. PICK listed \in poller.left :
          poller' = IF prs[listed[2]] = "open"
                    THEN [poller EXCEPT !.left = @ \ {listed}]
                    ELSE [left |-> poller.left \ {listed},
                          run |-> listed[1], seen |-> prs[listed[2]]]
    BY <1>3 DEF PollAsk
  <2>2. UNCHANGED <<runs, tasks, prs, now, lastRun, handlers>>
    BY <1>3 DEF PollAsk, pipelineVars
  <2>3. Unrecorded' /\ RecordIsReal'
    BY <1>1, <2>2 DEF Unrecorded, RecordIsReal, Live
  <2>4. CASE prs[listed[2]] = "open"
    <3>1. poller' = [poller EXCEPT !.left = poller.left \ {listed}]
      BY <2>1, <2>4
    <3>2. /\ poller'.left \subseteq poller.left
          /\ poller'.run = poller.run /\ poller'.seen = poller.seen
      BY <1>1, <3>1 DEF Poller
    <3> QED
      BY <1>1, <2>2, <2>3, <3>2 DEF PollerIsCurrent
  <2>5. CASE prs[listed[2]] # "open"
    <3>1. /\ poller'.left \subseteq poller.left
          /\ poller'.run = listed[1] /\ poller'.seen = prs[listed[2]]
      BY <2>1, <2>5
    <3>2. /\ listed[1] \in 1..lastRun /\ listed[2] # NoPr
          /\ listed[1] \in DOMAIN runs => runs[listed[1]].pr = listed[2]
          /\ prs[listed[2]] \in {"closed", "merged"}
      BY <1>1, <2>5 DEF PollerIsCurrent
    <3> QED
      BY <1>1, <2>2, <2>3, <3>1, <3>2 DEF PollerIsCurrent
  <2> QED
    BY <2>4, <2>5
<1>4. CASE PollWrite
  <2>1. /\ poller.run # NoRun
        /\ runs' = UpdatePrStatus(runs, poller.run, poller.seen, now)
        /\ UNCHANGED <<tasks, prs, now, lastRun, handlers>>
        /\ poller' = [poller EXCEPT !.run = NoRun, !.seen = "null"]
    BY <1>4 DEF PollWrite
  <2>2. PollerStays
    BY <1>1, <2>1 DEF PollerStays, Poller
  <2>3. /\ poller.seen \in {"open", "closed", "merged"}
        /\ poller.run \in DOMAIN runs =>
              /\ runs[poller.run].pr # NoPr
              /\ poller.seen \in Final => prs[runs[poller.run].pr] = poller.seen
    BY <1>1, <2>1 DEF PollerIsCurrent
  <2> QED
    BY <2>1, <2>2, <2>3, WriteTracks
<1>5. CASE BackfillPrStatus
  <2>1. PICK r \in DOMAIN runs :
            runs[r].pr # NoPr /\ runs' = UpdatePrStatus(runs, r, "open", now)
    BY <1>5 DEF BackfillPrStatus
  <2>2. UNCHANGED <<tasks, prs, now, lastRun, handlers>> /\ PollerStays
    BY <1>5 DEF BackfillPrStatus, agentVars, PollerStays
  <2>3. "open" \notin Final
    BY DEF Final
  <2> QED
    BY <2>1, <2>2, <2>3, WriteTracks
<1> QED
  BY <1>2, <1>3, <1>4, <1>5 DEF PollStep

(* Every step keeps the table's record of pull requests right.             *)
LEMMA NextTracks == OneDispatchAtATime /\ TrackInv /\ [Next]_vars => TrackInv'
<1> SUFFICES ASSUME OneDispatchAtATime, TrackInv, [Next]_vars PROVE TrackInv'
  OBVIOUS
<1>1. RowInv'
  BY NextRows DEF TrackInv
<1>2. Unrecorded' /\ RecordIsReal' /\ PollerIsCurrent'
  BY PipelineTracks, RequestTracks, PollerTracks, OutsideTracks
     DEF Next, BackgroundStep, Surroundings
<1> QED
  BY <1>1, <1>2 DEF TrackInv

LEMMA InitTracks == Init => TrackInv
<1> SUFFICES ASSUME Init PROVE TrackInv
  OBVIOUS
<1>1. RowInv
  BY InitRows
<1>2. /\ DOMAIN tasks = {} /\ DOMAIN runs = {} /\ now = 1
      /\ poller.left = {} /\ poller.run = NoRun
      /\ \A h \in Handlers : handlers[h].pc # "park"
  BY DEF Init, IdleHandler, IdlePoller
<1> QED
  BY <1>1, <1>2 DEF TrackInv, Unrecorded, RecordIsReal, PollerIsCurrent

(* While dispatch requests come one at a time, a run is on record as       *)
(* merged only when its pull request has been merged, and with the time of *)
(* an observation that has been made: however polls, tasks, crashes, the   *)
(* pruner and people who reopen pull requests interleave.                  *)
THEOREM MergesOnRecordAreReal ==
    OneDispatchAtATime /\ Spec => []RecordedMergeIsReal
<1>1. TrackInv => RecordedMergeIsReal
  <2> SUFFICES ASSUME TrackInv, NEW r \in DOMAIN runs, runs[r].prStatus = "merged"
               PROVE  /\ runs[r].pr \in DOMAIN prs
                      /\ prs[runs[r].pr] = "merged"
                      /\ runs[r].mergedAt \in 1..now
    BY DEF RecordedMergeIsReal
  <2>1. /\ TypeInv /\ RecordIsReal /\ now \in Nat
        /\ runs[r].mergedAt \in Nat
    BY DEF TrackInv, RowInv, QueueInv, BreakerInv, TypeInv, TypeOK, Row
  <2>2. "merged" \in Final /\ "merged" # "null"
    BY DEF Final
  <2> QED
    BY <2>1, <2>2 DEF RecordIsReal, TypeInv, References
<1>2. CASE OneDispatchAtATime
  BY <1>1, <1>2, InitTracks, NextTracks, PTL DEF Spec
<1> QED
  BY <1>2
=============================================================================
