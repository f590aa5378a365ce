----------------------------- MODULE AgentProofs -----------------------------
(***************************************************************************)
(* Proofs that the properties of the agent hold for every value of the     *)
(* constants.  The invariant is built in layers: types, then what the      *)
(* breaker's property needs.                                               *)
(***************************************************************************)
EXTENDS AgentProperties, FiniteSetTheorems, TLAPS

-----------------------------------------------------------------------------
(* The writes of the run table.                                            *)

RowTable(store) == \A r \in DOMAIN store : store[r] \in Row

(* A status written to a table of rows leaves a table of the same rows.    *)
LEMMA UpdateStatusType ==
    ASSUME NEW store, RowTable(store), NEW r, NEW s \in Statuses
    PROVE  /\ RowTable(UpdateStatus(store, r, s))
           /\ DOMAIN UpdateStatus(store, r, s) = DOMAIN store
BY DEF RowTable, UpdateStatus, Row

(* So does the record of a synthesis.                                      *)
LEMMA RecordLlmResponseType ==
    ASSUME NEW store, RowTable(store), NEW r
    PROVE  /\ RowTable(RecordLlmResponse(store, r))
           /\ DOMAIN RecordLlmResponse(store, r) = DOMAIN store
BY DEF RowTable, RecordLlmResponse, Row

(* So does the record of a pull request.                                   *)
LEMMA RecordPrType ==
    ASSUME NEW store, RowTable(store), NEW r, NEW pr \in Nat
    PROVE  /\ RowTable(RecordPr(store, r, pr))
           /\ DOMAIN RecordPr(store, r, pr) = DOMAIN store
BY DEF RowTable, RecordPr, Row

(* So does an observed state of a pull request.                            *)
LEMMA UpdatePrStatusType ==
    ASSUME NEW store, RowTable(store), NEW r, NEW s \in PrStatuses,
           NEW time \in Nat
    PROVE  /\ RowTable(UpdatePrStatus(store, r, s, time))
           /\ DOMAIN UpdatePrStatus(store, r, s, time) = DOMAIN store
BY DEF RowTable, UpdatePrStatus, Row

(* It touches no column but the state and the time of the merge.           *)
LEMMA UpdatePrStatusKeeps ==
    ASSUME NEW store, RowTable(store), NEW r, NEW s, NEW time,
           NEW q \in DOMAIN store
    PROVE  /\ UpdatePrStatus(store, r, s, time)[q].created = store[q].created
           /\ UpdatePrStatus(store, r, s, time)[q].status = store[q].status
           /\ UpdatePrStatus(store, r, s, time)[q].alert = store[q].alert
           /\ UpdatePrStatus(store, r, s, time)[q].pr = store[q].pr
BY DEF RowTable, UpdatePrStatus, Row

(* An insertion adds one row.                                              *)
LEMMA CreateRunType ==
    ASSUME NEW store, RowTable(store), NEW r, NEW alert \in Alert,
           NEW time \in Nat
    PROVE  /\ RowTable(CreateRun(store, r, alert, time))
           /\ DOMAIN CreateRun(store, r, alert, time) = DOMAIN store \cup {r}
BY DEF RowTable, CreateRun, Put, FreshRow, Row, NoPr, NoTime, Statuses,
       ActiveStatuses, PrStatuses

(* Pruning keeps the rows that it keeps as they are.                       *)
LEMMA DeleteOlderType ==
    ASSUME NEW store, RowTable(store), NEW time \in Nat
    PROVE  /\ RowTable(DeleteOlder(store, time))
           /\ DOMAIN DeleteOlder(store, time) \subseteq DOMAIN store
           /\ \A r \in DOMAIN DeleteOlder(store, time) :
                 DeleteOlder(store, time)[r] = store[r]
BY DEF RowTable, DeleteOlder, Restrict

-----------------------------------------------------------------------------
(* The steps of a task.                                                    *)

(* What a step of task t may do to the tasks: move t to another label and  *)
(* change its gate and its patch, and nothing else.                        *)
OnlyMoves(t) ==
    /\ tasks' \in Seq(Task)
    /\ DOMAIN tasks' = DOMAIN tasks
    /\ \A u \in DOMAIN tasks :
          /\ tasks'[u].run = tasks[u].run
          /\ tasks'[u].alert = tasks[u].alert
          /\ u # t => tasks'[u] = tasks[u]

(* Going to a label is such a step, and keeps the gate.                    *)
LEMMA GotoMoves ==
    ASSUME tasks \in Seq(Task), NEW t \in DOMAIN tasks, NEW l \in Labels,
           Goto(t, l)
    PROVE  OnlyMoves(t) /\ tasks'[t].pc = l /\ tasks'[t].gate = tasks[t].gate
<1>1. tasks[t] \in Task
  OBVIOUS
<1>2. tasks' = [tasks EXCEPT ![t] = [tasks[t] EXCEPT !.pc = l]]
  BY DEF Goto
<1>3. [tasks[t] EXCEPT !.pc = l] \in Task
  BY <1>1 DEF Task
<1>4. tasks' \in Seq(Task) /\ DOMAIN tasks' = DOMAIN tasks
  BY <1>2, <1>3
<1> QED
  BY <1>1, <1>2, <1>4 DEF OnlyMoves, Task

(* So is passing the breaker, with or without an answer.                   *)
LEMMA GateMoves ==
    ASSUME tasks \in Seq(Task), NEW t \in DOMAIN tasks, NEW l \in Labels,
           NEW g \in Gates, GotoGated(t, l, g)
    PROVE  OnlyMoves(t) /\ tasks'[t].pc = l /\ tasks'[t].gate = g
<1>1. tasks[t] \in Task
  OBVIOUS
<1>2. tasks' = [tasks EXCEPT ![t] = [tasks[t] EXCEPT !.pc = l, !.gate = g]]
  BY DEF GotoGated
<1>3. [tasks[t] EXCEPT !.pc = l, !.gate = g] \in Task
  BY <1>1 DEF Task
<1>4. tasks' \in Seq(Task) /\ DOMAIN tasks' = DOMAIN tasks
  BY <1>2, <1>3
<1>5. tasks'[t] = [tasks[t] EXCEPT !.pc = l, !.gate = g]
  BY <1>2
<1>6. /\ tasks'[t].run = tasks[t].run /\ tasks'[t].alert = tasks[t].alert
      /\ tasks'[t].pc = l /\ tasks'[t].gate = g
  BY <1>1, <1>5 DEF Task
<1> QED
  BY <1>2, <1>4, <1>6 DEF OnlyMoves

(* So is taking the answer of the synthesis model.                         *)
LEMMA PatchMoves ==
    ASSUME tasks \in Seq(Task), NEW t \in DOMAIN tasks, NEW l \in Labels,
           NEW patch \in BOOLEAN, GotoPatched(t, l, patch)
    PROVE  OnlyMoves(t) /\ tasks'[t].pc = l /\ tasks'[t].gate = tasks[t].gate
<1>1. tasks[t] \in Task
  OBVIOUS
<1>2. tasks' = [tasks EXCEPT ![t] = [tasks[t] EXCEPT !.pc = l, !.patch = patch]]
  BY DEF GotoPatched
<1>3. [tasks[t] EXCEPT !.pc = l, !.patch = patch] \in Task
  BY <1>1 DEF Task
<1>4. tasks' \in Seq(Task) /\ DOMAIN tasks' = DOMAIN tasks
  BY <1>2, <1>3
<1>5. tasks'[t] = [tasks[t] EXCEPT !.pc = l, !.patch = patch]
  BY <1>2
<1>6. /\ tasks'[t].run = tasks[t].run /\ tasks'[t].alert = tasks[t].alert
      /\ tasks'[t].pc = l /\ tasks'[t].gate = tasks[t].gate
  BY <1>1, <1>5 DEF Task
<1> QED
  BY <1>2, <1>4, <1>6 DEF OnlyMoves

(* A task that has not yet left the breaker behind, and so may still park  *)
(* its row.                                                                *)
MayPark(t) ==
    \/ tasks[t].pc \in {"breaker", "budget", "trip", "park"}
    \/ tasks[t].pc = "settings" /\ tasks[t].gate = "enforced"

(* What a step of task t may do to the run table.                          *)
OwnRowWrite(t) ==
    \/ runs' = runs
    \/ \E s \in Statuses :
          /\ runs' = UpdateStatus(runs, tasks[t].run, s)
          /\ s = "queued" => tasks[t].pc = "park" /\ tasks'[t].pc = "ended"
    \/ runs' = RecordLlmResponse(runs, tasks[t].run)
    \/ runs' = RecordPr(runs, tasks[t].run, NoPr)
    \/ tasks[t].pc = "recordpr" /\ runs' = RecordPr(runs, tasks[t].run, t)

(* What every step of task t does, whichever action it is.                 *)
TaskStep(t) ==
    /\ OnlyMoves(t)
    /\ now' = now
    /\ mode' \in Modes
    /\ OwnRowWrite(t)
    /\ prs' = prs \/ prs' = Put(prs, t, "open")
    /\ tasks'[t].pc = "recordpr" => prs' = Put(prs, t, "open")
    /\ tasks'[t].gate = "checked" =>
          tasks[t].gate = "checked" \/ (~RunsCeilingReached /\ runs' = runs)
    /\ Live(t)
    /\ MayPark(t)' => MayPark(t) /\ runs' = runs

(* Each action of the pipeline is such a step.                             *)
LEMMA AdvanceSteps ==
    ASSUME tasks \in Seq(Task), mode \in Modes,
           NEW t \in DOMAIN tasks, Advance(t)
    PROVE  TaskStep(t)
<1> USE DEF At, ReadOnly, Local, Live, Ended, Labels, Modes, MayPark
<1>1. CASE FilterSkips(t)
  BY <1>1, GotoMoves DEF FilterSkips, TaskStep, OwnRowWrite, SetStatus, Statuses, ActiveStatuses,
         TerminalStatuses
<1>2. CASE FilterPasses(t)
  BY <1>2, GotoMoves DEF FilterPasses, TaskStep, OwnRowWrite
<1>3. CASE CountRuns(t)
  BY <1>3, GotoMoves, GateMoves DEF CountRuns, TaskStep, OwnRowWrite, Gates
<1>4. CASE SumSpend(t)
  BY <1>4, GotoMoves DEF SumSpend, TaskStep, OwnRowWrite
<1>5. CASE Trip(t)
  BY <1>5, GotoMoves DEF Trip, TaskStep, OwnRowWrite
<1>6. CASE Park(t)
  BY <1>6, GotoMoves DEF Park, TaskStep, OwnRowWrite, SetStatus, Statuses, ActiveStatuses,
         TerminalStatuses
<1>7. CASE CheckOpenPr(t)
  BY <1>7, GotoMoves DEF CheckOpenPr, TaskStep, OwnRowWrite
<1>8. CASE CheckBackoff(t)
  BY <1>8, GotoMoves DEF CheckBackoff, TaskStep, OwnRowWrite
<1>9. CASE CheckGrace(t)
  BY <1>9, GotoMoves DEF CheckGrace, TaskStep, OwnRowWrite
<1>10. CASE Skip(t)
  BY <1>10, GotoMoves DEF Skip, TaskStep, OwnRowWrite, SetStatus, Statuses, ActiveStatuses,
         TerminalStatuses
<1>11. CASE StartTriage(t)
  BY <1>11, GotoMoves DEF StartTriage, TaskStep, OwnRowWrite, SetStatus, Statuses, ActiveStatuses,
         TerminalStatuses
<1>12. CASE TriageAnswers(t)
  BY <1>12, GotoMoves DEF TriageAnswers, TaskStep, OwnRowWrite
<1>13. CASE StartCollecting(t)
  BY <1>13, GotoMoves DEF StartCollecting, TaskStep, OwnRowWrite, SetStatus, Statuses, ActiveStatuses,
         TerminalStatuses
<1>14. CASE RecordContext(t)
  BY <1>14, GotoMoves DEF RecordContext, TaskStep, OwnRowWrite
<1>15. CASE StartInvestigating(t)
  BY <1>15, GotoMoves DEF StartInvestigating, TaskStep, OwnRowWrite, SetStatus, Statuses, ActiveStatuses,
         TerminalStatuses
<1>16. CASE InvestigationAnswers(t)
  BY <1>16, GotoMoves DEF InvestigationAnswers, TaskStep, OwnRowWrite
<1>17. CASE StartGenerating(t)
  BY <1>17, GotoMoves DEF StartGenerating, TaskStep, OwnRowWrite, SetStatus, Statuses, ActiveStatuses,
         TerminalStatuses
<1>18. CASE SynthesisAnswers(t)
  BY <1>18, PatchMoves DEF SynthesisAnswers, TaskStep, OwnRowWrite
<1>19. CASE RecordSynthesis(t)
  BY <1>19, GotoMoves DEF RecordSynthesis, TaskStep, OwnRowWrite
<1>20. CASE StartPosting(t)
  BY <1>20, GotoMoves DEF StartPosting, TaskStep, OwnRowWrite, SetStatus, Statuses, ActiveStatuses,
         TerminalStatuses
<1>21. CASE OpenPr(t)
  BY <1>21, GotoMoves DEF OpenPr, TaskStep, OwnRowWrite
<1>22. CASE RefusePatch(t)
  BY <1>22, GotoMoves DEF RefusePatch, TaskStep, OwnRowWrite
<1>23. CASE OpenPrErrs(t)
  BY <1>23, GotoMoves DEF OpenPrErrs, TaskStep, OwnRowWrite
<1>24. CASE RecordOpenedPr(t)
  BY <1>24, GotoMoves DEF RecordOpenedPr, TaskStep, OwnRowWrite
<1>25. CASE RecordNoPr(t)
  BY <1>25, GotoMoves DEF RecordNoPr, TaskStep, OwnRowWrite
<1>26. CASE RecordRefusal(t)
  BY <1>26, GotoMoves DEF RecordRefusal, TaskStep, OwnRowWrite
<1>27. CASE Notify(t)
  BY <1>27, GotoMoves DEF Notify, TaskStep, OwnRowWrite
<1>28. CASE Finish(t)
  BY <1>28, GotoMoves DEF Finish, TaskStep, OwnRowWrite, SetStatus, Statuses, ActiveStatuses,
         TerminalStatuses
<1>29. CASE RecordFailure(t)
  BY <1>29, GotoMoves DEF RecordFailure, TaskStep, OwnRowWrite, SetStatus, Statuses, ActiveStatuses,
         TerminalStatuses
<1> QED
  BY <1>1, <1>2, <1>3, <1>4, <1>5, <1>6, <1>7, <1>8, <1>9, <1>10, <1>11,
     <1>12, <1>13, <1>14, <1>15, <1>16, <1>17, <1>18, <1>19, <1>20, <1>21,
     <1>22, <1>23, <1>24, <1>25, <1>26, <1>27, <1>28, <1>29 DEF Advance

(* So is each of its failures.                                             *)
LEMMA FailSteps ==
    ASSUME tasks \in Seq(Task), mode \in Modes,
           NEW t \in DOMAIN tasks, Fail(t)
    PROVE  TaskStep(t)
<1> USE DEF At, ReadOnly, Local, Live, Ended, Labels, Modes, MayPark
<1>1. CASE BreakerErrs(t)
  BY <1>1, GateMoves DEF BreakerErrs, TaskStep, OwnRowWrite, Gates
<1>2. CASE OpenPrLosesReply(t)
  BY <1>2, GotoMoves DEF OpenPrLosesReply, TaskStep, OwnRowWrite
<1>3. CASE DatabaseErrs(t)
  BY <1>3, GotoMoves DEF DatabaseErrs, CaughtByPipeline, TaskStep, OwnRowWrite
<1>4. CASE OutsideErrs(t)
  BY <1>4, GotoMoves DEF OutsideErrs, TaskStep, OwnRowWrite
<1> QED
  BY <1>1, <1>2, <1>3, <1>4 DEF Fail

-----------------------------------------------------------------------------
(* Types.                                                                  *)

(* What the types rest on: a pull request that a row, a task about to      *)
(* record it or the poller refers to exists on GitHub, and a request that  *)
(* is not idle has an alert to handle.                                     *)
References ==
    /\ \A r \in DOMAIN runs : runs[r].pr # NoPr => runs[r].pr \in DOMAIN prs
    /\ \A t \in DOMAIN tasks : tasks[t].pc = "recordpr" => t \in DOMAIN prs
    /\ \A listed \in poller.left : listed[2] \in DOMAIN prs
    /\ \A h \in Handlers : handlers[h].pc # "idle" => handlers[h].batch # <<>>

TypeInv == TypeOK /\ References

(* The initial state has the types and the references.                     *)
LEMMA InitTypes == Init => TypeInv
<1> SUFFICES ASSUME Init PROVE TypeInv
  OBVIOUS
<1>1. /\ runs = [r \in {} |-> NoRun] /\ DOMAIN runs = {}
      /\ DOMAIN prs = {} /\ tasks = <<>> /\ DOMAIN tasks = {}
  BY DEF Init
<1>2. handlers \in [Handlers -> Handler]
  BY DEF Init, IdleHandler, Handler, Modes, NoRun
<1>3. dispatchers \in [Dispatchers -> Dispatcher]
  BY DEF Init, IdleDispatcher, Dispatcher
<1>4. poller \in Poller /\ poller.left = {}
  BY DEF Init, IdlePoller, Poller, NoRun, PrStatuses
<1>5. \A h \in Handlers : handlers[h].pc = "idle"
  BY DEF Init, IdleHandler
<1>6. TypeOK
  BY <1>1, <1>2, <1>3, <1>4 DEF Init, TypeOK
<1> QED
  BY <1>1, <1>4, <1>5, <1>6 DEF TypeInv, References

(* A task's write to its own row keeps the rows, and the pull requests     *)
(* they refer to.                                                          *)
LEMMA OwnRowTypes ==
    ASSUME TypeInv, NEW t \in DOMAIN tasks, OwnRowWrite(t)
    PROVE  /\ DOMAIN runs' = DOMAIN runs
           /\ \A r \in DOMAIN runs : runs'[r] \in Row
           /\ \A r \in DOMAIN runs :
                 runs'[r].pr # NoPr => runs'[r].pr \in DOMAIN prs
           /\ \A r \in DOMAIN runs : runs'[r].alert = runs[r].alert
           /\ \A r \in DOMAIN runs : runs'[r].created = runs[r].created
           /\ \A r \in DOMAIN runs :
                 r # tasks[t].run => runs'[r].status = runs[r].status
<1>1. RowTable(runs) /\ t \in Nat /\ NoPr \in Nat
  BY DEF TypeInv, TypeOK, RowTable, NoPr
<1>2. CASE runs' = runs
  BY <1>1, <1>2 DEF RowTable, TypeInv, References
<1>3. ASSUME NEW s \in Statuses, runs' = UpdateStatus(runs, tasks[t].run, s)
      PROVE  /\ RowTable(runs') /\ DOMAIN runs' = DOMAIN runs
             /\ \A r \in DOMAIN runs :
                   /\ runs'[r].pr = runs[r].pr
                   /\ runs'[r].alert = runs[r].alert
                   /\ runs'[r].created = runs[r].created
                   /\ r # tasks[t].run => runs'[r].status = runs[r].status
  <2>1. RowTable(runs') /\ DOMAIN runs' = DOMAIN runs
    BY <1>1, <1>3, UpdateStatusType
  <2> QED
    BY <1>1, <1>3, <2>1 DEF UpdateStatus, RowTable, Row
<1>4. ASSUME runs' = RecordLlmResponse(runs, tasks[t].run)
      PROVE  /\ RowTable(runs') /\ DOMAIN runs' = DOMAIN runs
             /\ \A r \in DOMAIN runs :
                   /\ runs'[r].pr = runs[r].pr
                   /\ runs'[r].alert = runs[r].alert
                   /\ runs'[r].created = runs[r].created
                   /\ runs'[r].status = runs[r].status
  <2>1. RowTable(runs') /\ DOMAIN runs' = DOMAIN runs
    BY <1>1, <1>4, RecordLlmResponseType
  <2> QED
    BY <1>1, <1>4, <2>1 DEF RecordLlmResponse, RowTable, Row
<1>5. ASSUME NEW pr \in Nat, runs' = RecordPr(runs, tasks[t].run, pr)
      PROVE  /\ RowTable(runs') /\ DOMAIN runs' = DOMAIN runs
             /\ \A r \in DOMAIN runs :
                   /\ runs'[r].pr = runs[r].pr \/ runs'[r].pr = pr
                   /\ runs'[r].alert = runs[r].alert
                   /\ runs'[r].created = runs[r].created
                   /\ runs'[r].status = runs[r].status
  <2>1. RowTable(runs') /\ DOMAIN runs' = DOMAIN runs
    BY <1>1, <1>5, RecordPrType
  <2> QED
    BY <1>1, <1>5, <2>1 DEF RecordPr, RowTable, Row
<1>6. tasks[t].pc = "recordpr" => t \in DOMAIN prs
  BY DEF TypeInv, References
<1>7. \A r \in DOMAIN runs : runs[r].pr # NoPr => runs[r].pr \in DOMAIN prs
  BY DEF TypeInv, References
<1> QED
  <2>1. CASE \E s \in Statuses : runs' = UpdateStatus(runs, tasks[t].run, s)
    BY <1>3, <1>7, <2>1 DEF RowTable
  <2>2. CASE runs' = RecordLlmResponse(runs, tasks[t].run)
    BY <1>4, <1>7, <2>2 DEF RowTable
  <2>3. CASE runs' = RecordPr(runs, tasks[t].run, NoPr)
    BY <1>1, <1>5, <1>7, <2>3 DEF RowTable
  <2>4. CASE tasks[t].pc = "recordpr" /\ runs' = RecordPr(runs, tasks[t].run, t)
    BY <1>1, <1>5, <1>6, <1>7, <2>4 DEF RowTable
  <2> QED
    BY <1>2, <2>1, <2>2, <2>3, <2>4 DEF OwnRowWrite

(* A step of a task keeps the types and the references.                    *)
LEMMA PipelineTypes == TypeInv /\ PipelineStep => TypeInv'
<1> SUFFICES ASSUME TypeInv, PipelineStep PROVE TypeInv'
  OBVIOUS
<1>1. PICK t \in DOMAIN tasks : Advance(t) \/ Fail(t)
  BY DEF PipelineStep
<1>2. TaskStep(t)
  BY <1>1, AdvanceSteps, FailSteps DEF TypeInv, TypeOK
<1>3. UNCHANGED <<lastRun, handlers, dispatchers, poller>>
  BY DEF PipelineStep, agentVars
<1>4. /\ DOMAIN runs' = DOMAIN runs
      /\ \A r \in DOMAIN runs : runs'[r] \in Row
      /\ \A r \in DOMAIN runs :
            runs'[r].pr # NoPr => runs'[r].pr \in DOMAIN prs
  BY <1>2, OwnRowTypes DEF TaskStep
<1>5. /\ DOMAIN prs \subseteq DOMAIN prs' /\ DOMAIN prs' \subseteq DOMAIN tasks
      /\ \A p \in DOMAIN prs' : prs'[p] \in {"open", "closed", "merged"}
      /\ tasks'[t].pc = "recordpr" => t \in DOMAIN prs'
  BY <1>2 DEF TaskStep, Put, TypeInv, TypeOK
<1>6. TypeOK'
  BY <1>2, <1>3, <1>4, <1>5 DEF TaskStep, OnlyMoves, TypeInv, TypeOK
<1>7. References'
  BY <1>2, <1>3, <1>4, <1>5 DEF TaskStep, OnlyMoves, TypeInv, References
<1> QED
  BY <1>6, <1>7 DEF TypeInv

(* Handling an alert, of which there is one, leaves a well-typed request.  *)
LEMMA NextAlertTypes ==
    ASSUME TypeInv, NEW h \in Handlers, handlers[h].pc # "idle", NextAlert(h)
    PROVE  /\ handlers' \in [Handlers -> Handler]
           /\ \A g \in Handlers : handlers'[g].pc # "idle"
                                     => handlers'[g].batch # <<>>
           /\ \A g \in Handlers : g # h => handlers'[g] = handlers[g]
           /\ handlers'[h].pc \in {"idle", "check"}
<1>1. /\ handlers \in [Handlers -> Handler] /\ handlers[h] \in Handler
      /\ handlers[h].batch \in Seq(Alert) /\ handlers[h].batch # <<>>
      /\ \A g \in Handlers : handlers[g].pc # "idle" => handlers[g].batch # <<>>
  BY DEF TypeInv, TypeOK, References, Handler
<1>2. IdleHandler \in Handler /\ IdleHandler.pc = "idle"
  BY DEF IdleHandler, Handler, Modes, NoRun
<1>3. CASE Len(handlers[h].batch) <= 1
  <2>1. handlers' = [handlers EXCEPT ![h] = IdleHandler]
    BY <1>1, <1>3 DEF NextAlert
  <2> QED
    BY <1>1, <1>2, <2>1
<1>4. CASE ~(Len(handlers[h].batch) <= 1)
  <2> DEFINE next == [pc |-> "check", mode |-> handlers[h].mode,
                      batch |-> Tail(handlers[h].batch), run |-> NoRun]
  <2>1. handlers' = [handlers EXCEPT ![h] = next]
    BY <1>1, <1>4 DEF NextAlert
  <2>2. Tail(handlers[h].batch) \in Seq(Alert) /\ Tail(handlers[h].batch) # <<>>
    <3>1. Len(handlers[h].batch) \in Nat /\ Len(handlers[h].batch) > 1
      BY <1>1, <1>4
    <3>2. /\ Tail(handlers[h].batch) \in Seq(Alert)
          /\ Len(Tail(handlers[h].batch)) = Len(handlers[h].batch) - 1
      BY <1>1, <3>1
    <3>3. Len(Tail(handlers[h].batch)) > 0
      BY <3>1, <3>2
    <3>4. \A s \in Seq(Alert) : Len(s) > 0 => s # <<>>
      OBVIOUS
    <3> QED
      BY <3>2, <3>3, <3>4
  <2>3. next \in Handler /\ next.pc = "check" /\ next.batch # <<>>
    BY <1>1, <2>2 DEF Handler, NoRun
  <2> QED
    BY <1>1, <2>1, <2>3
<1> QED
  BY <1>3, <1>4

(* A new task is a task, and the others stay.                              *)
LEMMA SpawnTypes ==
    ASSUME tasks \in Seq(Task), NEW r \in Nat, NEW alert \in Alert,
           NEW gate \in Gates, Spawn(r, alert, gate)
    PROVE  /\ tasks' \in Seq(Task)
           /\ DOMAIN tasks' = DOMAIN tasks \cup {Len(tasks) + 1}
           /\ Len(tasks) + 1 \notin DOMAIN tasks
           /\ \A t \in DOMAIN tasks : tasks'[t] = tasks[t]
           /\ tasks'[Len(tasks) + 1] = NewTask(r, alert, gate)
<1>1. NewTask(r, alert, gate) \in Task
  BY DEF NewTask, Task, Labels
<1> QED
  BY <1>1 DEF Spawn

(* An insertion keeps the types of the table and what its rows refer to.   *)
LEMMA InsertTypes ==
    ASSUME TypeInv, NEW alert \in Alert, Insert(alert)
    PROVE  /\ lastRun' \in Nat /\ lastRun' = lastRun + 1
           /\ DOMAIN runs' = DOMAIN runs \cup {lastRun + 1}
           /\ lastRun + 1 \notin DOMAIN runs
           /\ DOMAIN runs' \subseteq 1..lastRun'
           /\ \A r \in DOMAIN runs' : runs'[r] \in Row
           /\ \A r \in DOMAIN runs : runs'[r] = runs[r]
           /\ runs'[lastRun + 1] = FreshRow(alert, now)
           /\ \A r \in DOMAIN runs' :
                 runs'[r].pr # NoPr => runs'[r].pr \in DOMAIN prs
<1>1. /\ RowTable(runs) /\ lastRun \in Nat /\ now \in Nat
      /\ DOMAIN runs \subseteq 1..lastRun
      /\ \A r \in DOMAIN runs : runs[r].pr # NoPr => runs[r].pr \in DOMAIN prs
  BY DEF TypeInv, TypeOK, RowTable, References
<1>2. lastRun' = lastRun + 1 /\ runs' = CreateRun(runs, lastRun + 1, alert, now)
  BY DEF Insert
<1>3. RowTable(runs') /\ DOMAIN runs' = DOMAIN runs \cup {lastRun + 1}
  BY <1>1, <1>2, CreateRunType
<1>4. lastRun + 1 \notin DOMAIN runs /\ DOMAIN runs' \subseteq 1..lastRun'
  BY <1>1, <1>2, <1>3
<1>5. /\ \A r \in DOMAIN runs : runs'[r] = runs[r]
      /\ runs'[lastRun + 1] = FreshRow(alert, now)
  BY <1>2, <1>4 DEF CreateRun, Put
<1>6. FreshRow(alert, now).pr = NoPr
  BY DEF FreshRow
<1> QED
  BY <1>1, <1>2, <1>3, <1>4, <1>5, <1>6 DEF RowTable

(* A step of a webhook request keeps the types and the references.         *)
LEMMA HandlerTypes ==
    ASSUME TypeInv, NEW h \in Handlers,
           Receive(h) \/ HandlerStep(h) \/ HandlerErrs(h)
    PROVE  TypeInv'
<1>1. /\ handlers \in [Handlers -> Handler] /\ handlers[h] \in Handler
      /\ tasks \in Seq(Task) /\ mode \in Modes /\ RowTable(runs)
      /\ \A g \in Handlers : handlers[g].pc # "idle" => handlers[g].batch # <<>>
  BY DEF TypeInv, TypeOK, References, RowTable
<1>2. ASSUME handlers[h].pc \in {"check", "create"}
      PROVE  Head(handlers[h].batch) \in Alert
  BY <1>1, <1>2 DEF Handler
<1>3. CASE Receive(h)
  <2>1. PICK n \in 1..MaxBatch : \E batch \in [1..n -> Alert] :
          handlers' = [handlers EXCEPT ![h] =
              [pc |-> "check", mode |-> mode, batch |-> batch, run |-> NoRun]]
    BY <1>3 DEF Receive
  <2>2. PICK batch \in [1..n -> Alert] :
          handlers' = [handlers EXCEPT ![h] =
              [pc |-> "check", mode |-> mode, batch |-> batch, run |-> NoRun]]
    BY <2>1
  <2>3. n \in Nat /\ n > 0
    BY BoundsAssumption
  <2>4. batch \in Seq(Alert) /\ batch # <<>>
    BY <2>2, <2>3
  <2>5. [pc |-> "check", mode |-> mode, batch |-> batch, run |-> NoRun] \in Handler
    BY <1>1, <2>4 DEF Handler, NoRun
  <2>6. /\ handlers' \in [Handlers -> Handler]
        /\ \A g \in Handlers : handlers'[g].pc # "idle" => handlers'[g].batch # <<>>
    BY <1>1, <2>2, <2>4, <2>5
  <2> QED
    BY <1>3, <2>6 DEF Receive, pipelineVars, TypeInv, TypeOK, References
<1>4. CASE CheckDuplicate(h)
  <2>1. CASE NextAlert(h)
    BY <1>4, <2>1, NextAlertTypes
       DEF CheckDuplicate, pipelineVars, TypeInv, TypeOK, References
  <2>2. CASE handlers' = [handlers EXCEPT ![h].pc = "create"]
    <3>1. handlers' = [handlers EXCEPT ![h] = [handlers[h] EXCEPT !.pc = "create"]]
      BY <2>2
    <3>2. /\ [handlers[h] EXCEPT !.pc = "create"] \in Handler
          /\ [handlers[h] EXCEPT !.pc = "create"].batch = handlers[h].batch
      BY <1>1 DEF Handler
    <3>3. /\ handlers' \in [Handlers -> Handler]
          /\ \A g \in Handlers : handlers'[g].pc # "idle" => handlers'[g].batch # <<>>
      BY <1>1, <1>4, <3>1, <3>2 DEF CheckDuplicate
    <3> QED
      BY <1>4, <3>3 DEF CheckDuplicate, pipelineVars, TypeInv, TypeOK, References
  <2> QED
    BY <1>4, <2>1, <2>2 DEF CheckDuplicate
<1>5. CASE CreateRunning(h)
  <2> DEFINE alert == Head(handlers[h].batch)
  <2>1. alert \in Alert /\ handlers[h].pc # "idle"
    BY <1>2, <1>5 DEF CreateRunning
  <2>2. Insert(alert) /\ Spawn(lastRun + 1, alert, "enforced") /\ NextAlert(h)
    BY <1>5 DEF CreateRunning
  <2>3. lastRun + 1 \in Nat /\ "enforced" \in Gates
    BY DEF TypeInv, TypeOK, Gates
  <2> HIDE DEF alert
  <2>4. /\ tasks' \in Seq(Task)
        /\ DOMAIN tasks' = DOMAIN tasks \cup {Len(tasks) + 1}
        /\ \A t \in DOMAIN tasks : tasks'[t] = tasks[t]
        /\ tasks'[Len(tasks) + 1] = NewTask(lastRun + 1, alert, "enforced")
    BY <1>1, <2>1, <2>2, <2>3, SpawnTypes
  <2>5. TypeOK'
    BY <1>5, <2>1, <2>2, <2>4, InsertTypes, NextAlertTypes
       DEF CreateRunning, TypeInv, TypeOK
  <2>6. References'
    BY <1>5, <2>1, <2>2, <2>4, InsertTypes, NextAlertTypes
       DEF CreateRunning, TypeInv, References, NewTask
  <2> QED
    BY <2>5, <2>6 DEF TypeInv
<1>6. CASE CreateParked(h)
  <2> DEFINE alert == Head(handlers[h].batch)
  <2>1. alert \in Alert /\ Insert(alert)
    BY <1>2, <1>6 DEF CreateParked
  <2> HIDE DEF alert
  <2>2. handlers' = [handlers EXCEPT ![h] =
                        [handlers[h] EXCEPT !.pc = "park", !.run = lastRun + 1]]
    BY <1>1, <1>6 DEF CreateParked
  <2> lastRun + 1 \in Nat
    BY DEF TypeInv, TypeOK
  <2>3. /\ [handlers[h] EXCEPT !.pc = "park", !.run = lastRun + 1] \in Handler
        /\ [handlers[h] EXCEPT !.pc = "park", !.run = lastRun + 1].batch
              = handlers[h].batch
    BY <1>1 DEF Handler
  <2>4. /\ handlers' \in [Handlers -> Handler]
        /\ \A g \in Handlers : handlers'[g].pc # "idle" => handlers'[g].batch # <<>>
    BY <1>1, <1>6, <2>2, <2>3 DEF CreateParked
  <2> QED
    BY <1>6, <2>1, <2>4, InsertTypes DEF CreateParked, TypeInv, TypeOK, References
<1>7. CASE ParkQueued(h)
  <2>1. /\ RowTable(runs') /\ DOMAIN runs' = DOMAIN runs
        /\ runs' = UpdateStatus(runs, handlers[h].run, "queued")
    BY <1>1, <1>7, UpdateStatusType DEF ParkQueued, Statuses
  <2>2. \A r \in DOMAIN runs : runs'[r].pr = runs[r].pr
    BY <1>1, <2>1 DEF UpdateStatus, RowTable, Row
  <2> QED
    BY <1>7, <2>1, <2>2, NextAlertTypes
       DEF ParkQueued, TypeInv, TypeOK, References, RowTable
<1>8. CASE HandlerErrs(h)
  <2>1. IdleHandler \in Handler /\ IdleHandler.pc = "idle"
    BY DEF IdleHandler, Handler, Modes, NoRun
  <2> QED
    BY <1>1, <1>8, <2>1 DEF HandlerErrs, pipelineVars, TypeInv, TypeOK, References
<1> QED
  BY <1>3, <1>4, <1>5, <1>6, <1>7, <1>8 DEF HandlerStep

(* A step of a dispatch request keeps the types and the references.        *)
LEMMA DispatcherTypes ==
    ASSUME TypeInv, NEW d \in Dispatchers,
           DispatchRead(d) \/ DispatchReset(d) \/ DispatchErrs(d)
    PROVE  TypeInv'
<1>1. /\ dispatchers \in [Dispatchers -> Dispatcher]
      /\ tasks \in Seq(Task) /\ RowTable(runs) /\ DOMAIN runs \subseteq Nat
      /\ IdleDispatcher \in Dispatcher
  BY DEF TypeInv, TypeOK, RowTable, IdleDispatcher, Dispatcher
<1>2. CASE DispatchRead(d)
  <2>1. PICK r \in ListQueued(runs) : dispatchers' = [dispatchers EXCEPT ![d] =
              [pc |-> "reset", run |-> r, alert |-> runs[r].alert]]
    BY <1>2 DEF DispatchRead
  <2>2. [pc |-> "reset", run |-> r, alert |-> runs[r].alert] \in Dispatcher
    BY <1>1, <2>1 DEF ListQueued, RowTable, Row, Dispatcher
  <2>3. dispatchers' \in [Dispatchers -> Dispatcher]
    BY <1>1, <2>1, <2>2
  <2> QED
    BY <1>2, <2>3 DEF DispatchRead, pipelineVars, TypeInv, TypeOK, References
<1>3. CASE DispatchReset(d)
  <2>1. dispatchers[d].run \in Nat /\ dispatchers[d].alert \in Alert
    BY <1>1, <1>3 DEF DispatchReset, Dispatcher
  <2>2. /\ tasks' \in Seq(Task)
        /\ DOMAIN tasks' = DOMAIN tasks \cup {Len(tasks) + 1}
        /\ \A t \in DOMAIN tasks : tasks'[t] = tasks[t]
        /\ tasks'[Len(tasks) + 1]
              = NewTask(dispatchers[d].run, dispatchers[d].alert, "exempt")
    BY <1>1, <1>3, <2>1, SpawnTypes DEF DispatchReset, Gates
  <2>3. /\ RowTable(runs') /\ DOMAIN runs' = DOMAIN runs
        /\ runs' = UpdateStatus(runs, dispatchers[d].run, "pending")
    BY <1>1, <1>3, UpdateStatusType DEF DispatchReset, Statuses, ActiveStatuses
  <2>4. \A r \in DOMAIN runs : runs'[r].pr = runs[r].pr
    BY <1>1, <2>3 DEF UpdateStatus, RowTable, Row
  <2>5. dispatchers' \in [Dispatchers -> Dispatcher]
    BY <1>1, <1>3 DEF DispatchReset
  <2>6. TypeOK'
    BY <1>3, <2>2, <2>3, <2>5 DEF DispatchReset, TypeInv, TypeOK, RowTable
  <2>7. References'
    BY <1>3, <2>2, <2>3, <2>4 DEF DispatchReset, TypeInv, References, NewTask
  <2> QED
    BY <2>6, <2>7 DEF TypeInv
<1>4. CASE DispatchErrs(d)
  BY <1>1, <1>4 DEF DispatchErrs, pipelineVars, TypeInv, TypeOK, References
<1> QED
  BY <1>2, <1>3, <1>4

(* The operator's own trigger keeps the types and the references.          *)
LEMMA TriggerTypes == TypeInv /\ TriggerManually => TypeInv'
<1> SUFFICES ASSUME TypeInv, TriggerManually PROVE TypeInv'
  OBVIOUS
<1>1. PICK alert \in Alert : Insert(alert) /\ Spawn(lastRun + 1, alert, "exempt")
  BY DEF TriggerManually
<1>2. /\ tasks' \in Seq(Task)
      /\ DOMAIN tasks' = DOMAIN tasks \cup {Len(tasks) + 1}
      /\ \A t \in DOMAIN tasks : tasks'[t] = tasks[t]
      /\ tasks'[Len(tasks) + 1] = NewTask(lastRun + 1, alert, "exempt")
  <2>1. lastRun + 1 \in Nat /\ "exempt" \in Gates /\ tasks \in Seq(Task)
    BY DEF TypeInv, TypeOK, Gates
  <2> QED
    BY <1>1, <2>1, SpawnTypes
<1>3. TypeOK'
  BY <1>1, <1>2, InsertTypes DEF TriggerManually, TypeInv, TypeOK
<1>4. References'
  BY <1>1, <1>2, InsertTypes DEF TriggerManually, TypeInv, References, NewTask
<1> QED
  BY <1>3, <1>4 DEF TypeInv

(* So does a step of the poller.                                           *)
LEMMA PollerTypes == TypeInv /\ (PollStep \/ PollErrs) => TypeInv'
<1> SUFFICES ASSUME TypeInv, PollStep \/ PollErrs PROVE TypeInv'
  OBVIOUS
<1>1. /\ poller \in Poller /\ RowTable(runs) /\ DOMAIN runs \subseteq Nat
      /\ now \in Nat /\ poller.left \in SUBSET (Nat \X Nat) /\ poller.run \in Nat
      /\ poller.seen \in PrStatuses
  BY DEF TypeInv, TypeOK, RowTable, Poller
<1>2. CASE PollList
  <2> DEFINE listed == {<<r, runs[r].pr>> : r \in ListOpenPrs(runs)}
  <2>1. poller' = [poller EXCEPT !.left = listed]
    BY <1>2 DEF PollList
  <2>2. listed \in SUBSET (Nat \X Nat) /\ \A l \in listed : l[2] \in DOMAIN prs
    BY <1>1 DEF ListOpenPrs, RowTable, Row, TypeInv, References
  <2> HIDE DEF listed
  <2>3. poller' \in Poller /\ poller'.left = listed
    BY <1>1, <2>1, <2>2 DEF Poller
  <2> QED
    BY <1>2, <2>2, <2>3 DEF PollList, pipelineVars, TypeInv, TypeOK, References
<1>3. CASE PollAsk
  <2>1. PICK listed \in poller.left :
          poller' = IF prs[listed[2]] = "open"
                    THEN [poller EXCEPT !.left = @ \ {listed}]
                    ELSE [left |-> poller.left \ {listed},
                          run |-> listed[1], seen |-> prs[listed[2]]]
    BY <1>3 DEF PollAsk
  <2>2. /\ listed[1] \in Nat
        /\ prs[listed[2]] \in PrStatuses
    BY <1>1 DEF TypeInv, TypeOK, References, PrStatuses
  <2>3. poller' \in Poller /\ poller'.left \subseteq poller.left
    BY <1>1, <2>1, <2>2 DEF Poller
  <2> QED
    BY <1>3, <2>3 DEF PollAsk, pipelineVars, TypeInv, TypeOK, References
<1>4. CASE PollWrite
  <2>1. /\ RowTable(runs') /\ DOMAIN runs' = DOMAIN runs
        /\ runs' = UpdatePrStatus(runs, poller.run, poller.seen, now)
    BY <1>1, <1>4, UpdatePrStatusType DEF PollWrite
  <2>2. \A r \in DOMAIN runs : runs'[r].pr = runs[r].pr
    BY <1>1, <2>1 DEF UpdatePrStatus, RowTable, Row
  <2>3. poller' \in Poller /\ poller'.left = poller.left
    BY <1>1, <1>4 DEF PollWrite, Poller, NoRun, PrStatuses
  <2> QED
    BY <1>4, <2>1, <2>2, <2>3
       DEF PollWrite, TypeInv, TypeOK, References, RowTable
<1>5. CASE PollErrs
  <2>1. poller' \in Poller /\ poller'.left \subseteq poller.left
    <3>1. CASE poller' = [poller EXCEPT !.run = NoRun, !.seen = "null"]
      BY <1>1, <3>1 DEF Poller, NoRun, PrStatuses
    <3>2. CASE \E listed \in poller.left :
                  poller' = [poller EXCEPT !.left = poller.left \ {listed}]
      BY <1>1, <3>2 DEF Poller
    <3> QED
      BY <1>5, <3>1, <3>2 DEF PollErrs
  <2> QED
    BY <1>5, <2>1 DEF PollErrs, pipelineVars, TypeInv, TypeOK, References
<1> QED
  BY <1>2, <1>3, <1>4, <1>5 DEF PollStep

(* So do the pruner, the people, the clock and a crash.                    *)
LEMMA OutsideTypes ==
    TypeInv /\ (Prune \/ SetMode \/ Surroundings) => TypeInv'
<1> SUFFICES ASSUME TypeInv, Prune \/ SetMode \/ Surroundings PROVE TypeInv'
  OBVIOUS
<1>1. /\ RowTable(runs) /\ now \in Nat /\ DOMAIN runs \subseteq 1..lastRun
      /\ tasks \in Seq(Task)
  BY DEF TypeInv, TypeOK, RowTable
<1>2. CASE Prune
  <2>1. /\ RowTable(runs') /\ DOMAIN runs' \subseteq DOMAIN runs
        /\ \A r \in DOMAIN runs' : runs'[r] = runs[r]
    BY <1>1, <1>2, DeleteOlderType DEF Prune
  <2> QED
    BY <1>2, <2>1 DEF Prune, agentVars, TypeInv, TypeOK, References, RowTable
<1>3. CASE SetMode
  BY <1>3 DEF SetMode, agentVars, TypeInv, TypeOK, References
<1>4. CASE CloseOrMerge
  <2>1. /\ DOMAIN prs' = DOMAIN prs
        /\ \A p \in DOMAIN prs' : prs'[p] \in {"open", "closed", "merged"}
    BY <1>4 DEF CloseOrMerge, TypeInv, TypeOK
  <2> QED
    BY <1>4, <2>1 DEF CloseOrMerge, agentVars, TypeInv, TypeOK, References
<1>5. CASE Reopen
  <2>1. /\ DOMAIN prs' = DOMAIN prs
        /\ \A p \in DOMAIN prs' : prs'[p] \in {"open", "closed", "merged"}
    BY <1>5 DEF Reopen, TypeInv, TypeOK
  <2> QED
    BY <1>5, <2>1 DEF Reopen, agentVars, TypeInv, TypeOK, References
<1>6. CASE BackfillPrStatus
  <2>1. PICK r \in DOMAIN runs : runs' = UpdatePrStatus(runs, r, "open", now)
    BY <1>6 DEF BackfillPrStatus
  <2>2. RowTable(runs') /\ DOMAIN runs' = DOMAIN runs
    BY <1>1, <2>1, UpdatePrStatusType DEF PrStatuses
  <2>3. \A q \in DOMAIN runs : runs'[q].pr = runs[q].pr
    BY <1>1, <2>1 DEF UpdatePrStatus, RowTable, Row
  <2> QED
    BY <1>6, <2>2, <2>3
       DEF BackfillPrStatus, agentVars, TypeInv, TypeOK, References, RowTable
<1>7. CASE Tick
  BY <1>7 DEF Tick, agentVars, TypeInv, TypeOK, References
<1>8. CASE Crash
  <2>1. DOMAIN tasks' = DOMAIN tasks /\ tasks' \in Seq(Task)
    <3>1. /\ tasks' = [t \in 1..Len(tasks) |->
                         IF Live(t) THEN [tasks[t] EXCEPT !.pc = "killed"]
                         ELSE tasks[t]]
          /\ Len(tasks) \in Nat
      BY <1>1, <1>8 DEF Crash
    <3>2. \A t \in 1..Len(tasks) :
             (IF Live(t) THEN [tasks[t] EXCEPT !.pc = "killed"]
              ELSE tasks[t]) \in Task
      <4>1. \A t \in 1..Len(tasks) : tasks[t] \in Task
        BY <1>1
      <4>2. \A task \in Task : [task EXCEPT !.pc = "killed"] \in Task
        BY DEF Task, Labels, Ended
      <4> QED
        BY <4>1, <4>2
    <3> QED
      BY <1>1, <3>1, <3>2
  <2>2. \A t \in DOMAIN tasks : tasks'[t].pc = "recordpr" => tasks[t].pc = "recordpr"
    BY <1>1, <1>8 DEF Crash, Task
  <2>3. /\ handlers' \in [Handlers -> Handler]
        /\ \A h \in Handlers : handlers'[h].pc = "idle"
    BY <1>8 DEF Crash, IdleHandler, Handler, Modes, NoRun
  <2>4. dispatchers' \in [Dispatchers -> Dispatcher]
    BY <1>8 DEF Crash, IdleDispatcher, Dispatcher
  <2>5. poller' \in Poller /\ poller'.left = {}
    BY <1>8 DEF Crash, IdlePoller, Poller, NoRun, PrStatuses
  <2> QED
    BY <1>8, <2>1, <2>2, <2>3, <2>4, <2>5 DEF Crash, TypeInv, TypeOK, References
<1> QED
  BY <1>2, <1>3, <1>4, <1>5, <1>6, <1>7, <1>8 DEF Surroundings

(* Every step keeps the types and the references.                          *)
LEMMA NextTypes == TypeInv /\ [Next]_vars => TypeInv'
<1> SUFFICES ASSUME TypeInv, [Next]_vars PROVE TypeInv'
  OBVIOUS
<1>1. CASE PipelineStep
  BY <1>1, PipelineTypes
<1>2. CASE RequestStep
  BY <1>2, HandlerTypes, DispatcherTypes, TriggerTypes, OutsideTypes DEF RequestStep
<1>3. CASE BackgroundStep
  BY <1>3, PollerTypes, OutsideTypes DEF BackgroundStep
<1>4. CASE Surroundings
  BY <1>4, OutsideTypes
<1>5. CASE UNCHANGED vars
  BY <1>5 DEF vars, TypeInv, TypeOK, References
<1> QED
  BY <1>1, <1>2, <1>3, <1>4, <1>5 DEF Next

(* The variables always have their types, whatever the number of requests, *)
(* tasks and rows and whatever fails, and every pull request that a row or *)
(* the poller names exists.                                                *)
THEOREM TypeCorrectness == Spec => [](TypeOK /\ References)
<1>1. TypeInv <=> TypeOK /\ References
  BY DEF TypeInv
<1> QED
  BY <1>1, InitTypes, NextTypes, PTL DEF Spec

-----------------------------------------------------------------------------
(* The cost breaker.                                                       *)

(* Tasks and dispatch requests work on rows that have been inserted, so    *)
(* that a new row is no one's.                                             *)
Allocated ==
    /\ \A t \in DOMAIN tasks : tasks[t].run \in 1..lastRun
    /\ \A d \in Dispatchers :
          dispatchers[d].pc = "reset" => dispatchers[d].run \in 1..lastRun

BreakerInv == TypeInv /\ Allocated /\ SpendersWithinCeiling

(* The rows of the last hour are finitely many.                            *)
LEMMA RunsSinceFinite == TypeInv => IsFiniteSet(RunsSince(runs, now))
<1> SUFFICES ASSUME TypeInv PROVE IsFiniteSet(RunsSince(runs, now))
  OBVIOUS
<1>1. RunsSince(runs, now) \subseteq 1..lastRun /\ lastRun \in Nat
  BY DEF RunsSince, TypeInv, TypeOK
<1>2. IsFiniteSet(1..lastRun)
  BY <1>1, FS_Interval
<1> QED
  BY <1>1, <1>2, FS_Subset

(* A step lets no further run through when time does not go back, the rows *)
(* that stay keep their creation time, and the checked tasks were checked  *)
(* before and work on rows that existed.                                   *)
NoneLetThrough ==
    /\ now' >= now
    /\ \A r \in DOMAIN runs' \cap DOMAIN runs : runs'[r].created = runs[r].created
    /\ \A t \in DOMAIN tasks' : tasks'[t].gate = "checked" =>
          /\ t \in DOMAIN tasks
          /\ tasks[t].gate = "checked"
          /\ tasks'[t].run = tasks[t].run
          /\ tasks[t].run \in DOMAIN runs' => tasks[t].run \in DOMAIN runs

(* Such a step keeps the ceiling: the rows let through can only grow old.  *)
LEMMA NoneLetThroughKeeps ==
    ASSUME TypeInv, TypeInv', SpendersWithinCeiling, NoneLetThrough
    PROVE  SpendersWithinCeiling'
<1>1. LetThrough' \subseteq LetThrough
  <2> SUFFICES ASSUME NEW r \in LetThrough' PROVE r \in LetThrough
    OBVIOUS
  <2>1. /\ r \in DOMAIN runs' /\ runs'[r].created + Hour >= now'
        /\ \E t \in DOMAIN tasks' : tasks'[t].run = r /\ tasks'[t].gate = "checked"
    BY DEF LetThrough, RunsSince
  <2>2. r \in DOMAIN runs
        /\ \E t \in DOMAIN tasks : tasks[t].run = r /\ tasks[t].gate = "checked"
    BY <2>1 DEF NoneLetThrough
  <2>3. /\ runs'[r].created = runs[r].created /\ now' >= now
        /\ runs[r].created \in Nat /\ now \in Nat /\ now' \in Nat /\ Hour \in Nat
    BY <2>1, <2>2, WindowsAssumption DEF NoneLetThrough, TypeInv, TypeOK, Row
  <2> QED
    BY <2>1, <2>2, <2>3 DEF LetThrough, RunsSince
<1>2. IsFiniteSet(LetThrough)
  <2>1. LetThrough \subseteq RunsSince(runs, now)
    BY DEF LetThrough
  <2> QED
    BY <2>1, RunsSinceFinite, FS_Subset
<1>3. /\ Cardinality(LetThrough') <= Cardinality(LetThrough)
      /\ Cardinality(LetThrough') \in Nat /\ Cardinality(LetThrough) \in Nat
  BY <1>1, <1>2, FS_Subset, FS_CardinalityType
<1> QED
  BY <1>3, CeilingsAssumption DEF SpendersWithinCeiling

(* The step in which a task passes its check keeps the ceiling: its row is *)
(* among the rows that it counted.                                         *)
LEMMA PassingKeeps ==
    ASSUME TypeInv, ~RunsCeilingReached, now' = now, runs' = runs
    PROVE  SpendersWithinCeiling'
<1>1. LetThrough' \subseteq RunsSince(runs, now)
  BY DEF LetThrough, RunsSince
<1>2. /\ Cardinality(LetThrough') <= Cardinality(RunsSince(runs, now))
      /\ Cardinality(LetThrough') \in Nat
      /\ Cardinality(RunsSince(runs, now)) \in Nat
  BY <1>1, RunsSinceFinite, FS_Subset, FS_CardinalityType
<1> QED
  BY <1>2, CeilingsAssumption DEF SpendersWithinCeiling, RunsCeilingReached

(* A step of a task keeps the breaker's invariant.                         *)
LEMMA PipelineBreaker == BreakerInv /\ PipelineStep => BreakerInv'
<1> SUFFICES ASSUME BreakerInv, PipelineStep PROVE BreakerInv'
  OBVIOUS
<1>1. PICK t \in DOMAIN tasks : Advance(t) \/ Fail(t)
  BY DEF PipelineStep
<1>2. TaskStep(t) /\ TypeInv /\ TypeInv'
  BY <1>1, AdvanceSteps, FailSteps, PipelineTypes DEF BreakerInv, TypeInv, TypeOK
<1>3. UNCHANGED <<lastRun, handlers, dispatchers, poller>>
  BY DEF PipelineStep, agentVars
<1>4. /\ DOMAIN runs' = DOMAIN runs
      /\ \A r \in DOMAIN runs : runs'[r].created = runs[r].created
  BY <1>2, OwnRowTypes DEF TaskStep
<1>5. Allocated'
  BY <1>2, <1>3 DEF TaskStep, OnlyMoves, BreakerInv, Allocated
<1>6. CASE tasks'[t].gate = "checked" /\ tasks[t].gate # "checked"
  BY <1>2, <1>5, <1>6, PassingKeeps DEF TaskStep, BreakerInv
<1>7. CASE ~(tasks'[t].gate = "checked" /\ tasks[t].gate # "checked")
  <2>1. NoneLetThrough
    BY <1>2, <1>4, <1>7
       DEF NoneLetThrough, TaskStep, OnlyMoves, TypeInv, TypeOK
  <2> QED
    BY <1>2, <1>5, <2>1, NoneLetThroughKeeps DEF BreakerInv
<1> QED
  BY <1>6, <1>7

(* Every other step lets no run through.                                   *)
LEMMA OthersBreaker ==
    BreakerInv /\ (RequestStep \/ BackgroundStep \/ Surroundings) => BreakerInv'
<1> SUFFICES ASSUME BreakerInv, RequestStep \/ BackgroundStep \/ Surroundings
             PROVE  BreakerInv'
  OBVIOUS
<1>1. /\ TypeInv /\ RowTable(runs) /\ tasks \in Seq(Task) /\ now \in Nat
      /\ lastRun \in Nat /\ DOMAIN runs \subseteq 1..lastRun
      /\ dispatchers \in [Dispatchers -> Dispatcher]
      /\ Allocated /\ SpendersWithinCeiling
  BY DEF BreakerInv, TypeInv, TypeOK, RowTable
<1>2. TypeInv'
  BY <1>1, NextTypes DEF Next
<1> SUFFICES Allocated' /\ NoneLetThrough
  BY <1>1, <1>2, NoneLetThroughKeeps DEF BreakerInv
<1>3. ASSUME NEW alert \in Alert, NEW gate \in {"enforced", "exempt"},
             Insert(alert), Spawn(lastRun + 1, alert, gate), now' = now,
             UNCHANGED dispatchers
      PROVE  Allocated' /\ NoneLetThrough
  <2>1. /\ DOMAIN tasks' = DOMAIN tasks \cup {Len(tasks) + 1}
        /\ \A t \in DOMAIN tasks : tasks'[t] = tasks[t]
        /\ tasks'[Len(tasks) + 1] = NewTask(lastRun + 1, alert, gate)
    <3>1. lastRun + 1 \in Nat /\ gate \in Gates
      BY <1>1, <1>3 DEF Gates
    <3> QED
      BY <1>1, <1>3, <3>1, SpawnTypes
  <2>2. Allocated'
    BY <1>1, <1>3, <2>1, InsertTypes DEF Allocated, NewTask
  <2>3. NoneLetThrough
    BY <1>1, <1>3, <2>1, InsertTypes DEF NoneLetThrough, Allocated, NewTask
  <2> QED
    BY <2>2, <2>3
<1>4. ASSUME NEW h \in Handlers, Receive(h) \/ HandlerStep(h) \/ HandlerErrs(h)
      PROVE  Allocated' /\ NoneLetThrough
  <2>1. ASSUME handlers[h].pc = "create"
        PROVE  Head(handlers[h].batch) \in Alert
    BY <1>1, <2>1 DEF TypeInv, TypeOK, References, Handler
  <2>2. CASE Receive(h) \/ CheckDuplicate(h) \/ HandlerErrs(h)
    BY <1>1, <2>2 DEF Receive, CheckDuplicate, HandlerErrs, pipelineVars,
                      Allocated, NoneLetThrough
  <2>3. CASE CreateRunning(h)
    BY <1>3, <2>1, <2>3 DEF CreateRunning
  <2>4. CASE CreateParked(h)
    BY <1>1, <2>1, <2>4, InsertTypes
       DEF CreateParked, Allocated, NoneLetThrough
  <2>5. CASE ParkQueued(h)
    <3>1. /\ DOMAIN runs' = DOMAIN runs
          /\ \A r \in DOMAIN runs : runs'[r].created = runs[r].created
      BY <1>1, <2>5 DEF ParkQueued, UpdateStatus, RowTable, Row
    <3> QED
      BY <1>1, <2>5, <3>1 DEF ParkQueued, Allocated, NoneLetThrough
  <2> QED
    BY <1>4, <2>2, <2>3, <2>4, <2>5 DEF HandlerStep
<1>5. ASSUME NEW d \in Dispatchers,
             DispatchRead(d) \/ DispatchReset(d) \/ DispatchErrs(d)
      PROVE  Allocated' /\ NoneLetThrough
  <2>1. CASE DispatchRead(d)
    <3>1. PICK r \in DOMAIN runs : dispatchers' = [dispatchers EXCEPT ![d] =
              [pc |-> "reset", run |-> r, alert |-> runs[r].alert]]
      BY <2>1 DEF DispatchRead, ListQueued
    <3> QED
      BY <1>1, <2>1, <3>1 DEF DispatchRead, pipelineVars, Allocated, NoneLetThrough
  <2>2. CASE DispatchReset(d)
    <3>1. /\ dispatchers[d].run \in 1..lastRun /\ dispatchers[d].run \in Nat
          /\ dispatchers[d].alert \in Alert
      BY <1>1, <2>2 DEF DispatchReset, Allocated, Dispatcher
    <3>2. /\ DOMAIN tasks' = DOMAIN tasks \cup {Len(tasks) + 1}
          /\ \A t \in DOMAIN tasks : tasks'[t] = tasks[t]
          /\ tasks'[Len(tasks) + 1]
                = NewTask(dispatchers[d].run, dispatchers[d].alert, "exempt")
      BY <1>1, <2>2, <3>1, SpawnTypes DEF DispatchReset, Gates
    <3>3. /\ DOMAIN runs' = DOMAIN runs
          /\ \A r \in DOMAIN runs : runs'[r].created = runs[r].created
      BY <1>1, <2>2 DEF DispatchReset, UpdateStatus, RowTable, Row
    <3> QED
      BY <1>1, <2>2, <3>1, <3>2, <3>3
         DEF DispatchReset, IdleDispatcher, Allocated, NoneLetThrough, NewTask
  <2>3. CASE DispatchErrs(d)
    BY <1>1, <2>3
       DEF DispatchErrs, IdleDispatcher, pipelineVars, Allocated, NoneLetThrough
  <2> QED
    BY <1>5, <2>1, <2>2, <2>3
<1>6. CASE TriggerManually
  BY <1>3, <1>6 DEF TriggerManually
<1>7. CASE SetMode \/ PollList \/ PollAsk \/ PollErrs \/ CloseOrMerge \/ Reopen
  BY <1>1, <1>7 DEF SetMode, PollList, PollAsk, PollErrs, CloseOrMerge, Reopen,
                    pipelineVars, agentVars, Allocated, NoneLetThrough
<1>8. CASE Tick
  BY <1>1, <1>8 DEF Tick, agentVars, Allocated, NoneLetThrough
<1>9. CASE PollWrite \/ BackfillPrStatus
  <2>1. /\ DOMAIN runs' = DOMAIN runs
        /\ \A r \in DOMAIN runs : runs'[r].created = runs[r].created
    <3>1. PICK r \in Nat, s \in PrStatuses :
              runs' = UpdatePrStatus(runs, r, s, now)
      <4>1. CASE PollWrite
        BY <1>1, <4>1 DEF PollWrite, TypeInv, TypeOK, Poller
      <4>2. CASE BackfillPrStatus
        BY <1>1, <4>2 DEF BackfillPrStatus, PrStatuses
      <4> QED
        BY <1>9, <4>1, <4>2
    <3> QED
      BY <1>1, <3>1, UpdatePrStatusType, UpdatePrStatusKeeps
  <2> QED
    BY <1>1, <1>9, <2>1
       DEF PollWrite, BackfillPrStatus, agentVars, Allocated, NoneLetThrough
<1>10. CASE Prune
  <2>1. DOMAIN runs' \subseteq DOMAIN runs
        /\ \A r \in DOMAIN runs' : runs'[r] = runs[r]
    BY <1>1, <1>10, DeleteOlderType DEF Prune
  <2> QED
    BY <1>1, <1>10, <2>1 DEF Prune, agentVars, Allocated, NoneLetThrough
<1>11. CASE Crash
  <2>1. /\ DOMAIN tasks' = DOMAIN tasks
        /\ \A t \in DOMAIN tasks : /\ tasks'[t].run = tasks[t].run
                                   /\ tasks'[t].gate = tasks[t].gate
    BY <1>1, <1>11 DEF Crash, Task
  <2>2. \A d \in Dispatchers : dispatchers'[d].pc = "idle"
    BY <1>11 DEF Crash, IdleDispatcher
  <2> QED
    BY <1>1, <1>11, <2>1, <2>2 DEF Crash, Allocated, NoneLetThrough
<1> QED
  BY <1>4, <1>5, <1>6, <1>7, <1>8, <1>9, <1>10, <1>11
     DEF RequestStep, BackgroundStep, PollStep, Surroundings

(* However many webhook requests and tasks race, fewer runs of any hour    *)
(* than the ceiling pass the breaker.                                      *)
THEOREM BreakerCeiling == Spec => []SpendersWithinCeiling
<1>1. Init => BreakerInv
  <2> SUFFICES ASSUME Init PROVE BreakerInv
    OBVIOUS
  <2>1. TypeInv
    BY InitTypes
  <2>2. Allocated
    BY DEF Init, Allocated, IdleDispatcher
  <2>3. LetThrough = {}
    BY DEF Init, LetThrough, RunsSince
  <2> QED
    BY <2>1, <2>2, <2>3, FS_EmptySet, CeilingsAssumption
       DEF BreakerInv, SpendersWithinCeiling
<1>2. BreakerInv /\ UNCHANGED vars => BreakerInv'
  BY DEF vars, BreakerInv, TypeInv, TypeOK, References, Allocated,
         SpendersWithinCeiling, LetThrough
<1>3. BreakerInv /\ [Next]_vars => BreakerInv'
  BY <1>2, PipelineBreaker, OthersBreaker DEF Next
<1>4. BreakerInv => SpendersWithinCeiling
  BY DEF BreakerInv
<1> QED
  BY <1>1, <1>3, <1>4, PTL DEF Spec
=============================================================================
