----------------------------- MODULE QueueProofs -----------------------------
(***************************************************************************)
(* Proofs of the queue's properties.  What makes them hold is that a row   *)
(* enters the queue at most by one hand: the task that may still park it,  *)
(* or the webhook request that is parking it, is the only one at work on   *)
(* it, and leaves it when it has parked it.                                *)
(***************************************************************************)
EXTENDS AgentProofs

Resetting(d, r) == dispatchers[d].pc = "reset" /\ dispatchers[d].run = r

Parking(h, r) == handlers[h].pc = "park" /\ handlers[h].run = r

(* A task that may still park its row, and a webhook request that is about *)
(* to, is alone on it, and the row is pending.                             *)
SoleParker ==
    /\ \A t \in DOMAIN tasks : MayPark(t) =>
          /\ \A u \in DOMAIN tasks : tasks[u].run = tasks[t].run => u = t
          /\ \A d \in Dispatchers : ~Resetting(d, tasks[t].run)
          /\ tasks[t].run \in DOMAIN runs
                => runs[tasks[t].run].status = "pending"
    /\ \A h \in Handlers : handlers[h].pc = "park" =>
          /\ handlers[h].run \in 1..lastRun
          /\ \A t \in DOMAIN tasks : tasks[t].run # handlers[h].run
          /\ \A d \in Dispatchers : ~Resetting(d, handlers[h].run)
          /\ \A g \in Handlers : Parking(g, handlers[h].run) => g = h
          /\ handlers[h].run \in DOMAIN runs
                => runs[handlers[h].run].status = "pending"

QueueInv == BreakerInv /\ SoleParker /\ QueuedIsIdle

(* A row that is in the queue or may still be put there.                   *)
Parkable(r) ==
    /\ r \in DOMAIN runs
    /\ \/ runs[r].status = "queued"
       \/ \E t \in DOMAIN tasks : MayPark(t) /\ tasks[t].run = r
       \/ \E h \in Handlers : Parking(h, r)

(* No alert has two such rows, and a request that found no open row of an  *)
(* alert inserts one while there is still none.                            *)
OneParkablePerKey ==
    /\ \A r, q \in DOMAIN runs :
          Parkable(r) /\ Parkable(q) /\ runs[r].alert.key = runs[q].alert.key
              => r = q
    /\ \A h \in Handlers : handlers[h].pc = "create" =>
          \A r \in DOMAIN runs :
              Parkable(r) => runs[r].alert.key # Head(handlers[h].batch).key
-----------------------------------------------------------------------------
(* A step that brings no row nearer to the queue.                          *)
NoneParkable ==
    \A r \in DOMAIN runs' : Parkable(r)' =>
        r \in DOMAIN runs /\ Parkable(r) /\ runs'[r].alert = runs[r].alert

(* A step that starts no task, no reset and no parking, and changes no     *)
(* status.                                                                 *)
Quiet ==
    /\ lastRun' = lastRun
    /\ DOMAIN tasks' = DOMAIN tasks
    /\ \A t \in DOMAIN tasks :
          tasks'[t] = tasks[t] \/ (tasks'[t].run = tasks[t].run /\ ~Live(t)')
    /\ \A h \in Handlers : handlers'[h] = handlers[h] \/ handlers'[h].pc # "park"
    /\ \A d \in Dispatchers :
          dispatchers'[d] = dispatchers[d] \/ dispatchers'[d].pc # "reset"
    /\ DOMAIN runs' \subseteq DOMAIN runs
    /\ \A r \in DOMAIN runs' : /\ runs'[r].status = runs[r].status
                               /\ runs'[r].alert = runs[r].alert

(* Such a step keeps the queue's invariant and brings no row nearer to it. *)
LEMMA QuietKeeps ==
    ASSUME SoleParker, QueuedIsIdle, Quiet
    PROVE  SoleParker' /\ QueuedIsIdle' /\ NoneParkable
<1> USE DEF Resetting, Parking
<1>1. \A t \in DOMAIN tasks' :
         /\ t \in DOMAIN tasks /\ tasks'[t].run = tasks[t].run
         /\ Live(t)' => Live(t) /\ tasks'[t] = tasks[t]
         /\ MayPark(t)' => MayPark(t)
  BY DEF Quiet, Live, Ended, MayPark
<1>2. \A h \in Handlers : handlers'[h].pc = "park" => handlers'[h] = handlers[h]
  BY DEF Quiet
<1>3. \A d \in Dispatchers : \A r : Resetting(d, r)' => Resetting(d, r)
  BY DEF Quiet
<1>4. SoleParker'
  BY <1>1, <1>2, <1>3 DEF SoleParker, Quiet
<1>5. QueuedIsIdle'
  BY <1>1 DEF QueuedIsIdle, Quiet
<1>6. NoneParkable
  BY <1>1, <1>2 DEF NoneParkable, Parkable, Quiet
<1> QED
  BY <1>4, <1>5, <1>6

(* A task writes "queued" only when it parks, and then it ends.            *)
LEMMA OwnRowQueued ==
    ASSUME TypeInv, NEW t \in DOMAIN tasks, TaskStep(t), NEW r \in DOMAIN runs,
           runs'[r].status = "queued", runs[r].status # "queued"
    PROVE  r = tasks[t].run /\ tasks[t].pc = "park" /\ tasks'[t].pc = "ended"
<1>1. RowTable(runs) /\ OwnRowWrite(t) /\ runs[r] \in Row
  BY DEF TypeInv, TypeOK, RowTable, TaskStep
<1>2. r = tasks[t].run
  BY <1>1, OwnRowTypes
<1>3. CASE \E s \in Statuses :
             /\ runs' = UpdateStatus(runs, tasks[t].run, s)
             /\ s = "queued" => tasks[t].pc = "park" /\ tasks'[t].pc = "ended"
  BY <1>1, <1>2, <1>3 DEF UpdateStatus, Row
<1>4. CASE runs' = RecordLlmResponse(runs, tasks[t].run)
  BY <1>1, <1>4 DEF RecordLlmResponse, Row
<1>5. ASSUME NEW pr, runs' = RecordPr(runs, tasks[t].run, pr) PROVE FALSE
  BY <1>1, <1>5 DEF RecordPr, Row
<1> QED
  BY <1>1, <1>2, <1>3, <1>4, <1>5 DEF OwnRowWrite

(* A step of a task keeps the queue's invariant.                           *)
LEMMA PipelineQueue ==
    ASSUME QueueInv, PipelineStep
    PROVE  SoleParker' /\ QueuedIsIdle' /\ NoneParkable
<1> USE DEF Resetting, Parking
<1>1. PICK t \in DOMAIN tasks : Advance(t) \/ Fail(t)
  BY DEF PipelineStep
<1>2. TaskStep(t) /\ TypeInv
  BY <1>1, AdvanceSteps, FailSteps DEF QueueInv, BreakerInv, TypeInv, TypeOK
<1>3. UNCHANGED <<lastRun, handlers, dispatchers, poller>>
  BY DEF PipelineStep, agentVars
<1>4. /\ DOMAIN tasks' = DOMAIN tasks
      /\ \A u \in DOMAIN tasks : /\ tasks'[u].run = tasks[u].run
                                 /\ u # t => tasks'[u] = tasks[u]
  BY <1>2 DEF TaskStep, OnlyMoves
<1>5. /\ DOMAIN runs' = DOMAIN runs
      /\ \A r \in DOMAIN runs : runs'[r].alert = runs[r].alert
      /\ \A r \in DOMAIN runs :
            r # tasks[t].run => runs'[r].status = runs[r].status
  BY <1>2, OwnRowTypes DEF TaskStep
<1>6. /\ Live(t)
      /\ MayPark(t)' => MayPark(t) /\ runs' = runs
  BY <1>2 DEF TaskStep
<1>7. \A u \in DOMAIN tasks :
         MayPark(u)' => MayPark(u) /\ (u # t => tasks[u].run # tasks[t].run)
  BY <1>4, <1>6 DEF MayPark, QueueInv, SoleParker
<1>8. SoleParker'
  <2>1. ASSUME NEW u \in DOMAIN tasks', MayPark(u)'
        PROVE  /\ \A v \in DOMAIN tasks' : tasks'[v].run = tasks'[u].run => v = u
               /\ \A d \in Dispatchers : ~Resetting(d, tasks[u].run)'
               /\ tasks'[u].run \in DOMAIN runs'
                     => runs'[tasks'[u].run].status = "pending"
    BY <1>1, <1>3, <1>4, <1>5, <1>6, <1>7, <2>1 DEF QueueInv, SoleParker
  <2>2. ASSUME NEW h \in Handlers, handlers'[h].pc = "park"
        PROVE  /\ handlers'[h].run \in 1..lastRun'
               /\ \A u \in DOMAIN tasks' : tasks'[u].run # handlers'[h].run
               /\ \A d \in Dispatchers : ~Resetting(d, handlers[h].run)'
               /\ \A g \in Handlers : Parking(g, handlers[h].run)' => g = h
               /\ handlers'[h].run \in DOMAIN runs'
                     => runs'[handlers'[h].run].status = "pending"
    BY <1>1, <1>3, <1>4, <1>5, <2>2 DEF QueueInv, SoleParker
  <2> QED
    BY <2>1, <2>2 DEF SoleParker
<1>9. QueuedIsIdle'
  <2> SUFFICES ASSUME NEW u \in DOMAIN tasks', Live(u)',
                      tasks'[u].run \in DOMAIN runs',
                      runs'[tasks'[u].run].status = "queued"
               PROVE  FALSE
    BY DEF QueuedIsIdle
  <2>1. Live(u) /\ tasks[u].run \in DOMAIN runs
        /\ runs[tasks[u].run].status # "queued"
    BY <1>4, <1>5, <1>6 DEF Live, QueueInv, QueuedIsIdle
  <2>2. tasks[u].run = tasks[t].run /\ tasks[t].pc = "park" /\ tasks'[t].pc = "ended"
    BY <1>2, <1>4, <2>1, OwnRowQueued
  <2>3. u = t
    BY <1>1, <1>4, <2>2 DEF MayPark, QueueInv, SoleParker
  <2> QED
    BY <2>2, <2>3 DEF Live, Ended
<1>10. NoneParkable
  <2> SUFFICES ASSUME NEW r \in DOMAIN runs', Parkable(r)' PROVE Parkable(r)
    BY <1>5 DEF NoneParkable
  <2>1. CASE runs'[r].status = "queued"
    BY <1>2, <1>5, <2>1, OwnRowQueued DEF Parkable, MayPark
  <2>2. CASE \E u \in DOMAIN tasks' : MayPark(u)' /\ tasks'[u].run = r
    BY <1>4, <1>5, <1>7, <2>2 DEF Parkable
  <2>3. CASE \E h \in Handlers : Parking(h, r)'
    BY <1>3, <1>5, <2>3 DEF Parkable
  <2> QED
    BY <2>1, <2>2, <2>3 DEF Parkable
<1> QED
  BY <1>8, <1>9, <1>10
(* A new task on a new row keeps the queue's invariant: no one else is on  *)
(* the row.  The only row that it brings near the queue is its own.        *)
LEMMA StartQueue ==
    ASSUME QueueInv, NEW alert \in Alert, NEW gate \in {"enforced", "exempt"},
           Insert(alert), Spawn(lastRun + 1, alert, gate),
           UNCHANGED dispatchers,
           \A h \in Handlers : handlers'[h] = handlers[h] \/ handlers'[h].pc # "park"
    PROVE  /\ SoleParker' /\ QueuedIsIdle'
           /\ \A r \in DOMAIN runs' : Parkable(r)' =>
                 \/ r \in DOMAIN runs /\ Parkable(r) /\ runs'[r].alert = runs[r].alert
                 \/ r = lastRun + 1 /\ gate = "enforced"
<1> USE DEF Resetting, Parking
<1>1. /\ TypeInv /\ Allocated /\ SoleParker /\ QueuedIsIdle
      /\ tasks \in Seq(Task) /\ lastRun \in Nat
      /\ DOMAIN runs \subseteq 1..lastRun
  BY DEF QueueInv, BreakerInv, TypeInv, TypeOK
<1>2. /\ DOMAIN tasks' = DOMAIN tasks \cup {Len(tasks) + 1}
      /\ Len(tasks) + 1 \notin DOMAIN tasks
      /\ \A t \in DOMAIN tasks : tasks'[t] = tasks[t]
      /\ tasks'[Len(tasks) + 1].run = lastRun + 1
      /\ tasks'[Len(tasks) + 1].pc = "settings"
      /\ tasks'[Len(tasks) + 1].gate = gate
  <2>1. lastRun + 1 \in Nat /\ gate \in Gates
    BY <1>1 DEF Gates
  <2>2. /\ DOMAIN tasks' = DOMAIN tasks \cup {Len(tasks) + 1}
        /\ Len(tasks) + 1 \notin DOMAIN tasks
        /\ \A t \in DOMAIN tasks : tasks'[t] = tasks[t]
        /\ tasks'[Len(tasks) + 1] = NewTask(lastRun + 1, alert, gate)
    BY <1>1, <2>1, SpawnTypes
  <2> QED
    BY <2>2 DEF NewTask
<1>3. /\ lastRun' = lastRun + 1
      /\ DOMAIN runs' = DOMAIN runs \cup {lastRun + 1}
      /\ \A r \in DOMAIN runs : runs'[r] = runs[r]
      /\ runs'[lastRun + 1].status = "pending"
  <2>1. /\ lastRun' = lastRun + 1
        /\ DOMAIN runs' = DOMAIN runs \cup {lastRun + 1}
        /\ \A r \in DOMAIN runs : runs'[r] = runs[r]
        /\ runs'[lastRun + 1] = FreshRow(alert, now)
    BY <1>1, InsertTypes
  <2> QED
    BY <2>1 DEF FreshRow
<1>4. /\ \A t \in DOMAIN tasks : tasks[t].run # lastRun + 1
      /\ \A d \in Dispatchers : ~Resetting(d, lastRun + 1)
      /\ \A h \in Handlers : ~Parking(h, lastRun + 1)
  BY <1>1 DEF Allocated, SoleParker
<1>5. \A t \in DOMAIN tasks : MayPark(t)' => MayPark(t)
  BY <1>2 DEF MayPark
<1>6. SoleParker'
  <2>1. ASSUME NEW t \in DOMAIN tasks', MayPark(t)'
        PROVE  /\ \A u \in DOMAIN tasks' : tasks'[u].run = tasks'[t].run => u = t
               /\ \A d \in Dispatchers : ~Resetting(d, tasks'[t].run)
               /\ tasks'[t].run \in DOMAIN runs'
                     => runs'[tasks'[t].run].status = "pending"
    <3>1. CASE t = Len(tasks) + 1
      BY <1>1, <1>2, <1>3, <1>4, <3>1
    <3>2. CASE t \in DOMAIN tasks
      BY <1>1, <1>2, <1>3, <1>4, <1>5, <2>1, <3>2 DEF SoleParker
    <3> QED
      BY <1>2, <3>1, <3>2
  <2>2. ASSUME NEW h \in Handlers, handlers'[h].pc = "park"
        PROVE  /\ handlers'[h].run \in 1..lastRun'
               /\ \A u \in DOMAIN tasks' : tasks'[u].run # handlers'[h].run
               /\ \A d \in Dispatchers : ~Resetting(d, handlers'[h].run)
               /\ \A g \in Handlers :
                     handlers'[g].pc = "park" /\ handlers'[g].run = handlers'[h].run
                        => g = h
               /\ handlers'[h].run \in DOMAIN runs'
                     => runs'[handlers'[h].run].status = "pending"
    <3>1. handlers'[h] = handlers[h]
      BY <2>2
    <3> QED
      BY <1>1, <1>2, <1>3, <1>4, <2>2, <3>1 DEF SoleParker
  <2> QED
    BY <2>1, <2>2 DEF SoleParker
<1>7. QueuedIsIdle'
  BY <1>1, <1>2, <1>3 DEF QueuedIsIdle, Live
<1>8. ASSUME NEW r \in DOMAIN runs', Parkable(r)'
      PROVE  \/ r \in DOMAIN runs /\ Parkable(r) /\ runs'[r].alert = runs[r].alert
             \/ r = lastRun + 1 /\ gate = "enforced"
  <2>1. CASE r = lastRun + 1
    <3>1. \E t \in DOMAIN tasks' : MayPark(t)' /\ tasks'[t].run = r
      BY <1>3, <1>4, <1>8, <2>1 DEF Parkable
    <3> QED
      BY <1>2, <1>4, <2>1, <3>1 DEF MayPark
  <2>2. CASE r \in DOMAIN runs
    <3>1. r # lastRun + 1
      BY <1>1, <2>2
    <3> QED
      BY <1>2, <1>3, <1>5, <1>8, <2>2, <3>1 DEF Parkable
  <2> QED
    BY <1>3, <2>1, <2>2
<1> QED
  BY <1>6, <1>7, <1>8
(* A webhook request that receives, checks or fails is quiet.              *)
LEMMA CheckingQuiet ==
    ASSUME TypeInv, NEW h \in Handlers,
           Receive(h) \/ CheckDuplicate(h) \/ HandlerErrs(h)
    PROVE  Quiet /\ \A g \in Handlers : g # h => handlers'[g] = handlers[g]
<1>1. /\ handlers \in [Handlers -> Handler] /\ handlers[h] \in Handler
  BY DEF TypeInv, TypeOK
<1>2. UNCHANGED <<runs, tasks, lastRun, dispatchers>>
  BY DEF Receive, CheckDuplicate, HandlerErrs, pipelineVars
<1>3. /\ handlers'[h].pc # "park"
      /\ \A g \in Handlers : g # h => handlers'[g] = handlers[g]
  <2>1. CASE Receive(h)
    BY <1>1, <2>1 DEF Receive
  <2>2. CASE HandlerErrs(h)
    BY <1>1, <2>2 DEF HandlerErrs, IdleHandler
  <2>3. CASE CheckDuplicate(h) /\ NextAlert(h)
    BY <2>3, NextAlertTypes DEF CheckDuplicate
  <2>4. CASE handlers' = [handlers EXCEPT ![h].pc = "create"]
    BY <1>1, <2>4 DEF Handler
  <2> QED
    BY <2>1, <2>2, <2>3, <2>4 DEF CheckDuplicate
<1> QED
  BY <1>2, <1>3 DEF Quiet

(* So is parking a row that no one else is on, but for that row.           *)
LEMMA ParkQueue ==
    ASSUME QueueInv, NEW h \in Handlers, ParkQueued(h)
    PROVE  /\ SoleParker' /\ QueuedIsIdle' /\ NoneParkable
           /\ \A g \in Handlers : handlers'[g].pc = "create" => handlers'[g] = handlers[g]
<1> USE DEF Resetting, Parking
<1>1. /\ TypeInv /\ SoleParker /\ QueuedIsIdle /\ RowTable(runs)
      /\ handlers[h].pc = "park"
  BY DEF QueueInv, BreakerInv, TypeInv, TypeOK, RowTable, ParkQueued
<1>2. /\ \A g \in Handlers : g # h => handlers'[g] = handlers[g]
      /\ handlers'[h].pc \in {"idle", "check"}
  BY <1>1, NextAlertTypes DEF ParkQueued
<1>3. UNCHANGED <<tasks, lastRun, dispatchers>>
  BY DEF ParkQueued
<1>4. /\ DOMAIN runs' = DOMAIN runs
      /\ \A r \in DOMAIN runs : runs'[r].alert = runs[r].alert
      /\ \A r \in DOMAIN runs :
            r # handlers[h].run => runs'[r].status = runs[r].status
  BY <1>1 DEF ParkQueued, UpdateStatus, RowTable, Row
<1>5. \A t \in DOMAIN tasks : MayPark(t)' <=> MayPark(t)
  BY <1>3 DEF MayPark
<1>6. SoleParker'
  BY <1>1, <1>2, <1>3, <1>4, <1>5 DEF SoleParker
<1>7. QueuedIsIdle'
  BY <1>1, <1>3, <1>4 DEF QueuedIsIdle, SoleParker, Live
<1>8. NoneParkable
  <2> SUFFICES ASSUME NEW r \in DOMAIN runs', Parkable(r)' PROVE Parkable(r)
    BY <1>4 DEF NoneParkable
  <2>1. CASE r = handlers[h].run
    BY <1>1, <1>4, <2>1 DEF Parkable
  <2>2. CASE r # handlers[h].run
    BY <1>2, <1>3, <1>4, <1>5, <2>2 DEF Parkable
  <2> QED
    BY <2>1, <2>2
<1> QED
  BY <1>2, <1>6, <1>7, <1>8

(* A row inserted to be parked is the inserting request's alone.           *)
LEMMA CreateParkedQueue ==
    ASSUME QueueInv, NEW h \in Handlers, CreateParked(h)
    PROVE  /\ SoleParker' /\ QueuedIsIdle'
           /\ \A r \in DOMAIN runs' : Parkable(r)' =>
                 \/ r \in DOMAIN runs /\ Parkable(r) /\ runs'[r].alert = runs[r].alert
                 \/ r = lastRun + 1
           /\ \A g \in Handlers : g # h => handlers'[g] = handlers[g]
           /\ handlers'[h].pc = "park"
<1> USE DEF Resetting, Parking
<1>1. /\ TypeInv /\ Allocated /\ SoleParker /\ QueuedIsIdle
      /\ lastRun \in Nat /\ DOMAIN runs \subseteq 1..lastRun
      /\ handlers \in [Handlers -> Handler] /\ handlers[h] \in Handler
      /\ handlers[h].pc = "create"
  BY DEF QueueInv, BreakerInv, TypeInv, TypeOK, CreateParked
<1>2. Head(handlers[h].batch) \in Alert
  BY <1>1 DEF TypeInv, References, Handler
<1>3. /\ lastRun' = lastRun + 1
      /\ DOMAIN runs' = DOMAIN runs \cup {lastRun + 1}
      /\ \A r \in DOMAIN runs : runs'[r] = runs[r]
      /\ runs'[lastRun + 1].status = "pending"
  <2>1. /\ lastRun' = lastRun + 1
        /\ DOMAIN runs' = DOMAIN runs \cup {lastRun + 1}
        /\ \A r \in DOMAIN runs : runs'[r] = runs[r]
        /\ runs'[lastRun + 1] = FreshRow(Head(handlers[h].batch), now)
    BY <1>1, <1>2, InsertTypes DEF CreateParked
  <2> QED
    BY <2>1 DEF FreshRow
<1>4. /\ \A g \in Handlers : g # h => handlers'[g] = handlers[g]
      /\ handlers'[h].pc = "park" /\ handlers'[h].run = lastRun + 1
  <2> DEFINE next == [handlers[h] EXCEPT !.pc = "park", !.run = lastRun + 1]
  <2>1. handlers' = [handlers EXCEPT ![h] = next]
    BY DEF CreateParked
  <2>2. next.pc = "park" /\ next.run = lastRun + 1
    BY <1>1 DEF Handler
  <2> HIDE DEF next
  <2> QED
    BY <1>1, <2>1, <2>2
<1>5. UNCHANGED <<tasks, dispatchers>>
  BY DEF CreateParked
<1>6. /\ \A t \in DOMAIN tasks : tasks[t].run # lastRun + 1
      /\ \A d \in Dispatchers : ~Resetting(d, lastRun + 1)
      /\ \A g \in Handlers : ~Parking(g, lastRun + 1)
  BY <1>1 DEF Allocated, SoleParker
<1>7. \A t \in DOMAIN tasks : MayPark(t)' <=> MayPark(t)
  BY <1>5 DEF MayPark
<1>8. \A r \in DOMAIN runs : r # lastRun + 1
  BY <1>1
<1>9. SoleParker'
  <2>1. ASSUME NEW t \in DOMAIN tasks', MayPark(t)'
        PROVE  /\ \A u \in DOMAIN tasks' : tasks'[u].run = tasks'[t].run => u = t
               /\ \A d \in Dispatchers : ~Resetting(d, tasks[t].run)'
               /\ tasks'[t].run \in DOMAIN runs'
                     => runs'[tasks'[t].run].status = "pending"
    BY <1>1, <1>3, <1>5, <1>7, <2>1 DEF SoleParker
  <2>2. ASSUME NEW g \in Handlers, handlers'[g].pc = "park"
        PROVE  /\ handlers'[g].run \in 1..lastRun'
               /\ \A u \in DOMAIN tasks' : tasks'[u].run # handlers'[g].run
               /\ \A d \in Dispatchers :
                     ~(dispatchers'[d].pc = "reset" /\ dispatchers'[d].run = handlers'[g].run)
               /\ \A f \in Handlers :
                     handlers'[f].pc = "park" /\ handlers'[f].run = handlers'[g].run
                        => f = g
               /\ handlers'[g].run \in DOMAIN runs'
                     => runs'[handlers'[g].run].status = "pending"
    <3>1. CASE g = h
      BY <1>1, <1>3, <1>4, <1>5, <1>6, <3>1
    <3>2. CASE g # h
      BY <1>1, <1>3, <1>4, <1>5, <1>6, <2>2, <3>2 DEF SoleParker
    <3> QED
      BY <3>1, <3>2
  <2> QED
    BY <1>5, <2>1, <2>2 DEF SoleParker
<1>10. QueuedIsIdle'
  BY <1>1, <1>3, <1>5 DEF QueuedIsIdle, Live
<1>11. ASSUME NEW r \in DOMAIN runs', Parkable(r)', r # lastRun + 1
       PROVE  r \in DOMAIN runs /\ Parkable(r) /\ runs'[r].alert = runs[r].alert
  BY <1>3, <1>4, <1>5, <1>7, <1>11 DEF Parkable
<1> QED
  BY <1>4, <1>9, <1>10, <1>11
(* A dispatch request reads a row that is queued, which no one is about to *)
(* park, and its reset starts a task that will not park it.                *)
LEMMA DispatchQueue ==
    ASSUME QueueInv, NEW d \in Dispatchers,
           DispatchRead(d) \/ DispatchReset(d) \/ DispatchErrs(d)
    PROVE  /\ SoleParker' /\ QueuedIsIdle' /\ NoneParkable
           /\ handlers' = handlers
<1> USE DEF Resetting, Parking
<1>1. /\ TypeInv /\ SoleParker /\ QueuedIsIdle /\ RowTable(runs)
      /\ tasks \in Seq(Task) /\ DOMAIN runs \subseteq Nat
      /\ dispatchers \in [Dispatchers -> Dispatcher]
  BY DEF QueueInv, BreakerInv, TypeInv, TypeOK, RowTable
<1>2. CASE DispatchErrs(d)
  <2>1. Quiet
    BY <1>1, <1>2 DEF DispatchErrs, IdleDispatcher, pipelineVars, Quiet
  <2> QED
    BY <1>1, <1>2, <2>1, QuietKeeps DEF DispatchErrs
<1>3. CASE DispatchRead(d)
  <2>1. PICK r \in DOMAIN runs :
          /\ runs[r].status = "queued"
          /\ dispatchers' = [dispatchers EXCEPT ![d] =
                [pc |-> "reset", run |-> r, alert |-> runs[r].alert]]
    BY <1>3 DEF DispatchRead, ListQueued
  <2>2. /\ dispatchers'[d].run = r
        /\ \A e \in Dispatchers : e # d => dispatchers'[e] = dispatchers[e]
    BY <1>1, <2>1
  <2>3. UNCHANGED <<runs, tasks, lastRun, handlers>>
    BY <1>3 DEF DispatchRead, pipelineVars
  <2>4. \A t \in DOMAIN tasks : /\ MayPark(t)' <=> MayPark(t)
                                /\ MayPark(t) => tasks[t].run # r
    BY <1>1, <2>1, <2>3 DEF MayPark, SoleParker
  <2>5. \A h \in Handlers : ~Parking(h, r)
    BY <1>1, <2>1 DEF SoleParker
  <2>6. SoleParker'
    BY <1>1, <2>2, <2>3, <2>4, <2>5 DEF SoleParker
  <2>7. QueuedIsIdle'
    BY <1>1, <2>3 DEF QueuedIsIdle, Live
  <2>8. NoneParkable
    BY <2>3, <2>4 DEF NoneParkable, Parkable
  <2> QED
    BY <2>3, <2>6, <2>7, <2>8
<1>4. CASE DispatchReset(d)
  <2> DEFINE r == dispatchers[d].run
  <2>1. /\ dispatchers[d].pc = "reset" /\ dispatchers[d].run \in Nat
        /\ dispatchers[d].alert \in Alert
    BY <1>1, <1>4 DEF DispatchReset, Dispatcher
  <2>2. /\ DOMAIN tasks' = DOMAIN tasks \cup {Len(tasks) + 1}
        /\ Len(tasks) + 1 \notin DOMAIN tasks
        /\ \A t \in DOMAIN tasks : tasks'[t] = tasks[t]
        /\ tasks'[Len(tasks) + 1].run = r
        /\ tasks'[Len(tasks) + 1].pc = "settings"
        /\ tasks'[Len(tasks) + 1].gate = "exempt"
    <3>1. /\ DOMAIN tasks' = DOMAIN tasks \cup {Len(tasks) + 1}
          /\ Len(tasks) + 1 \notin DOMAIN tasks
          /\ \A t \in DOMAIN tasks : tasks'[t] = tasks[t]
          /\ tasks'[Len(tasks) + 1] = NewTask(r, dispatchers[d].alert, "exempt")
      BY <1>1, <1>4, <2>1, SpawnTypes DEF DispatchReset, Gates
    <3> QED
      BY <3>1 DEF NewTask
  <2>3. /\ DOMAIN runs' = DOMAIN runs
        /\ \A q \in DOMAIN runs :
              /\ runs'[q].alert = runs[q].alert
              /\ q # r => runs'[q].status = runs[q].status
              /\ q = r => runs'[q].status = "pending"
    BY <1>1, <1>4 DEF DispatchReset, UpdateStatus, RowTable, Row
  <2>4. /\ UNCHANGED <<lastRun, handlers>>
        /\ \A e \in Dispatchers : \A q : Resetting(e, q)' => Resetting(e, q)
    BY <1>1, <1>4 DEF DispatchReset, IdleDispatcher
  <2>5. \A t \in DOMAIN tasks' :
           MayPark(t)' => t \in DOMAIN tasks /\ MayPark(t) /\ tasks[t].run # r
    <3>1. \A t \in DOMAIN tasks : MayPark(t) => tasks[t].run # r
      BY <1>1, <2>1 DEF SoleParker
    <3> QED
      BY <2>2, <3>1 DEF MayPark
  <2>6. \A h \in Handlers : ~Parking(h, r)
    BY <1>1, <2>1 DEF SoleParker
  <2> HIDE DEF r
  <2>7. SoleParker'
    <3>1. ASSUME NEW t \in DOMAIN tasks', MayPark(t)'
          PROVE  /\ \A u \in DOMAIN tasks' : tasks'[u].run = tasks'[t].run => u = t
                 /\ \A e \in Dispatchers : ~Resetting(e, tasks[t].run)'
                 /\ tasks'[t].run \in DOMAIN runs'
                       => runs'[tasks'[t].run].status = "pending"
      BY <1>1, <2>2, <2>3, <2>4, <2>5, <3>1 DEF SoleParker
    <3>2. ASSUME NEW h \in Handlers, handlers'[h].pc = "park"
          PROVE  /\ handlers'[h].run \in 1..lastRun'
                 /\ \A u \in DOMAIN tasks' : tasks'[u].run # handlers'[h].run
                 /\ \A e \in Dispatchers : ~Resetting(e, handlers[h].run)'
                 /\ \A g \in Handlers : Parking(g, handlers[h].run)' => g = h
                 /\ handlers'[h].run \in DOMAIN runs'
                       => runs'[handlers'[h].run].status = "pending"
      BY <1>1, <2>2, <2>3, <2>4, <2>6, <3>2 DEF SoleParker
    <3> QED
      BY <2>2, <2>4, <2>5, <3>1, <3>2 DEF SoleParker
  <2>8. QueuedIsIdle'
    BY <1>1, <2>2, <2>3 DEF QueuedIsIdle, Live
  <2>9. NoneParkable
    BY <2>2, <2>3, <2>4, <2>5 DEF NoneParkable, Parkable
  <2> QED
    BY <2>4, <2>7, <2>8, <2>9
<1> QED
  BY <1>2, <1>3, <1>4

(* The people, the poller, the pruner, the clock and a crash are quiet.    *)
LEMMA OutsideQuiet ==
    ASSUME TypeInv, BackgroundStep \/ SetMode \/ Surroundings
    PROVE  /\ Quiet
           /\ \A h \in Handlers : handlers'[h] = handlers[h] \/ handlers'[h].pc = "idle"
<1>1. /\ RowTable(runs) /\ tasks \in Seq(Task) /\ now \in Nat
      /\ DOMAIN runs \subseteq Nat
  BY DEF TypeInv, TypeOK, RowTable
<1>2. CASE SetMode \/ PollList \/ PollAsk \/ PollErrs \/ CloseOrMerge \/ Reopen \/ Tick
  BY <1>2 DEF SetMode, PollList, PollAsk, PollErrs, CloseOrMerge, Reopen, Tick,
              pipelineVars, agentVars, Quiet
<1>3. CASE PollWrite \/ BackfillPrStatus
  <2>1. PICK r \in Nat, s \in PrStatuses :
            runs' = UpdatePrStatus(runs, r, s, now)
    <3>1. CASE PollWrite
      BY <1>1, <3>1 DEF PollWrite, TypeInv, TypeOK, Poller
    <3>2. CASE BackfillPrStatus
      BY <1>1, <3>2 DEF BackfillPrStatus, PrStatuses
    <3> QED
      BY <1>3, <3>1, <3>2
  <2>2. /\ DOMAIN runs' = DOMAIN runs
        /\ \A q \in DOMAIN runs : /\ runs'[q].status = runs[q].status
                                  /\ runs'[q].alert = runs[q].alert
    BY <1>1, <2>1, UpdatePrStatusType, UpdatePrStatusKeeps
  <2> QED
    BY <1>3, <2>2 DEF PollWrite, BackfillPrStatus, agentVars, Quiet
<1>4. CASE Prune
  <2>1. DOMAIN runs' \subseteq DOMAIN runs
        /\ \A r \in DOMAIN runs' : runs'[r] = runs[r]
    BY <1>1, <1>4, DeleteOlderType DEF Prune
  <2> QED
    BY <1>4, <2>1 DEF Prune, agentVars, Quiet
<1>5. CASE Crash
  <2>1. /\ DOMAIN tasks' = DOMAIN tasks
        /\ \A t \in DOMAIN tasks :
              tasks'[t] = tasks[t] \/ (tasks'[t].run = tasks[t].run /\ ~Live(t)')
    BY <1>1, <1>5 DEF Crash, Task, Live, Ended
  <2>2. /\ \A h \in Handlers : handlers'[h].pc = "idle"
        /\ \A d \in Dispatchers : dispatchers'[d].pc = "idle"
    BY <1>5 DEF Crash, IdleHandler, IdleDispatcher
  <2> QED
    BY <1>5, <2>1, <2>2 DEF Crash, Quiet
<1> QED
  BY <1>2, <1>3, <1>4, <1>5 DEF BackgroundStep, PollStep, Surroundings
(* A request that inserts a row and starts its task brings that row only.  *)
LEMMA CreateRunningQueue ==
    ASSUME QueueInv, NEW h \in Handlers, CreateRunning(h)
    PROVE  /\ SoleParker' /\ QueuedIsIdle'
           /\ \A r \in DOMAIN runs' : Parkable(r)' =>
                 \/ r \in DOMAIN runs /\ Parkable(r) /\ runs'[r].alert = runs[r].alert
                 \/ r = lastRun + 1
           /\ \A g \in Handlers : g # h => handlers'[g] = handlers[g]
           /\ handlers'[h].pc \in {"idle", "check"}
<1>1. /\ TypeInv /\ handlers[h] \in Handler /\ handlers[h].pc = "create"
  BY DEF QueueInv, BreakerInv, TypeInv, TypeOK, CreateRunning
<1>2. Head(handlers[h].batch) \in Alert
  BY <1>1 DEF TypeInv, References, Handler
<1>3. /\ \A g \in Handlers : g # h => handlers'[g] = handlers[g]
      /\ handlers'[h].pc \in {"idle", "check"}
  BY <1>1, NextAlertTypes DEF CreateRunning
<1>4. /\ Insert(Head(handlers[h].batch))
      /\ Spawn(lastRun + 1, Head(handlers[h].batch), "enforced")
      /\ UNCHANGED dispatchers
  BY DEF CreateRunning
<1>5. \A g \in Handlers : handlers'[g] = handlers[g] \/ handlers'[g].pc # "park"
  BY <1>3
<1>6. /\ SoleParker' /\ QueuedIsIdle'
      /\ \A r \in DOMAIN runs' : Parkable(r)' =>
            \/ r \in DOMAIN runs /\ Parkable(r) /\ runs'[r].alert = runs[r].alert
            \/ r = lastRun + 1
  BY <1>2, <1>4, <1>5, StartQueue
<1> QED
  BY <1>3, <1>6

(* A run started by hand is never parked.                                  *)
LEMMA TriggerQueue ==
    ASSUME QueueInv, TriggerManually
    PROVE  SoleParker' /\ QueuedIsIdle' /\ NoneParkable /\ handlers' = handlers
<1>1. PICK alert \in Alert : Insert(alert) /\ Spawn(lastRun + 1, alert, "exempt")
  BY DEF TriggerManually
<1>2. UNCHANGED <<handlers, dispatchers>>
  BY DEF TriggerManually
<1>3. /\ SoleParker' /\ QueuedIsIdle'
      /\ \A r \in DOMAIN runs' : Parkable(r)' =>
            \/ r \in DOMAIN runs /\ Parkable(r) /\ runs'[r].alert = runs[r].alert
            \/ r = lastRun + 1 /\ "exempt" = "enforced"
  BY <1>1, <1>2, StartQueue
<1> QED
  BY <1>2, <1>3 DEF NoneParkable

(* The steps that bring no row nearer to the queue and let no request find *)
(* that its alert has no open row.                                         *)
Bystander ==
    \/ PipelineStep \/ TriggerManually \/ SetMode
    \/ BackgroundStep \/ Surroundings \/ UNCHANGED vars
    \/ \E h \in Handlers : Receive(h) \/ ParkQueued(h) \/ HandlerErrs(h)
    \/ \E d \in Dispatchers : DispatchRead(d) \/ DispatchReset(d) \/ DispatchErrs(d)

LEMMA BystanderQueue ==
    ASSUME QueueInv, Bystander
    PROVE  /\ SoleParker' /\ QueuedIsIdle' /\ NoneParkable
           /\ \A h \in Handlers : handlers'[h].pc = "create" => handlers'[h] = handlers[h]
<1>1. TypeInv /\ SoleParker /\ QueuedIsIdle
  BY DEF QueueInv, BreakerInv
<1>2. CASE PipelineStep
  BY <1>2, PipelineQueue DEF PipelineStep, agentVars
<1>3. CASE TriggerManually
  BY <1>3, TriggerQueue
<1>4. CASE SetMode \/ BackgroundStep \/ Surroundings
  BY <1>1, <1>4, OutsideQuiet, QuietKeeps
<1>5. CASE UNCHANGED vars
  <2>1. Quiet
    BY <1>5 DEF vars, Quiet
  <2> QED
    BY <1>1, <1>5, <2>1, QuietKeeps DEF vars
<1>6. ASSUME NEW h \in Handlers, Receive(h) \/ HandlerErrs(h)
      PROVE  /\ SoleParker' /\ QueuedIsIdle' /\ NoneParkable
             /\ \A g \in Handlers : handlers'[g].pc = "create" => handlers'[g] = handlers[g]
  <2>1. Quiet /\ \A g \in Handlers : g # h => handlers'[g] = handlers[g]
    BY <1>1, <1>6, CheckingQuiet
  <2>2. handlers'[h].pc # "create"
    BY <1>1, <1>6 DEF Receive, HandlerErrs, IdleHandler, TypeInv, TypeOK
  <2> QED
    BY <1>1, <2>1, <2>2, QuietKeeps
<1>7. CASE \E h \in Handlers : ParkQueued(h)
  BY <1>7, ParkQueue
<1>8. CASE \E d \in Dispatchers : DispatchRead(d) \/ DispatchReset(d) \/ DispatchErrs(d)
  BY <1>8, DispatchQueue
<1> QED
  BY <1>2, <1>3, <1>4, <1>5, <1>6, <1>7, <1>8 DEF Bystander

(* Every step is a bystander's, a duplicate check or an insertion.         *)
LEMMA NextSplits ==
    ASSUME [Next]_vars
    PROVE  \/ Bystander
           \/ \E h \in Handlers : CheckDuplicate(h) \/ CreateRunning(h) \/ CreateParked(h)
BY DEF Next, Bystander, RequestStep, HandlerStep

(* Every step keeps the queue's invariant.                                 *)
LEMMA NextQueue == QueueInv /\ [Next]_vars => QueueInv'
<1> SUFFICES ASSUME QueueInv, [Next]_vars PROVE QueueInv'
  OBVIOUS
<1>1. BreakerInv /\ TypeInv /\ SoleParker /\ QueuedIsIdle
  BY DEF QueueInv, BreakerInv
<1>2. BreakerInv'
  <2>1. CASE Next
    BY <1>1, <2>1, PipelineBreaker, OthersBreaker DEF Next
  <2>2. CASE UNCHANGED vars
    BY <1>1, <2>2 DEF vars, BreakerInv, TypeInv, TypeOK, References, Allocated,
                      SpendersWithinCeiling, LetThrough
  <2> QED
    BY <2>1, <2>2
<1>3. SoleParker' /\ QueuedIsIdle'
  <2>1. CASE Bystander
    BY <2>1, BystanderQueue
  <2>2. ASSUME NEW h \in Handlers, CheckDuplicate(h)
        PROVE  SoleParker' /\ QueuedIsIdle'
    BY <1>1, <2>2, CheckingQuiet, QuietKeeps
  <2>3. ASSUME NEW h \in Handlers, CreateRunning(h) \/ CreateParked(h)
        PROVE  SoleParker' /\ QueuedIsIdle'
    BY <2>3, CreateRunningQueue, CreateParkedQueue
  <2> QED
    BY <2>1, <2>2, <2>3, NextSplits
<1> QED
  BY <1>2, <1>3 DEF QueueInv

LEMMA InitQueue == Init => QueueInv /\ OneParkablePerKey
<1> SUFFICES ASSUME Init PROVE QueueInv /\ OneParkablePerKey
  OBVIOUS
<1>1. TypeInv
  BY InitTypes
<1>2. Allocated
  BY DEF Init, Allocated, IdleDispatcher
<1>3. LetThrough = {}
  BY DEF Init, LetThrough, RunsSince
<1>4. BreakerInv
  BY <1>1, <1>2, <1>3, FS_EmptySet, CeilingsAssumption DEF BreakerInv, SpendersWithinCeiling
<1>5. DOMAIN tasks = {} /\ DOMAIN runs = {} /\ \A h \in Handlers : handlers[h].pc = "idle"
  BY DEF Init, IdleHandler
<1> QED
  BY <1>4, <1>5 DEF QueueInv, SoleParker, QueuedIsIdle, OneParkablePerKey

(* A row that waits for an operator has no task at work on it: whatever    *)
(* races, nothing but the operator's dispatch starts it.                   *)
THEOREM QueuedRunsAreIdle == Spec => []QueuedIsIdle
<1>1. QueueInv => QueuedIsIdle
  BY DEF QueueInv
<1> QED
  BY <1>1, InitQueue, NextQueue, PTL DEF Spec
-----------------------------------------------------------------------------
(* One webhook request at a time.                                          *)
OneRequestAtATime == \A g, h \in Handlers : g = h

(* A bystander's step cannot put an alert into the queue twice.            *)
LEMMA BystanderKeepsOne ==
    ASSUME OneParkablePerKey, NoneParkable,
           \A h \in Handlers : handlers'[h].pc = "create" => handlers'[h] = handlers[h]
    PROVE  OneParkablePerKey'
<1>1. ASSUME NEW r \in DOMAIN runs', NEW q \in DOMAIN runs',
             Parkable(r)', Parkable(q)', runs'[r].alert.key = runs'[q].alert.key
      PROVE  r = q
  BY <1>1 DEF OneParkablePerKey, NoneParkable
<1>2. ASSUME NEW h \in Handlers, handlers'[h].pc = "create",
             NEW r \in DOMAIN runs', Parkable(r)'
      PROVE  runs'[r].alert.key # Head(handlers'[h].batch).key
  BY <1>2 DEF OneParkablePerKey, NoneParkable
<1> QED
  BY <1>1, <1>2 DEF OneParkablePerKey

(* A row that is in the queue or may still be put there is an open one: no *)
(* duplicate check overlooks it.                                           *)
LEMMA ParkableIsOpen ==
    ASSUME SoleParker, NEW r \in DOMAIN runs, Parkable(r)
    PROVE  runs[r].status \in OpenStatuses
BY DEF Parkable, SoleParker, Parking, OpenStatuses

(* The duplicate check lets through only an alert with no such row.        *)
LEMMA CheckKeepsOne ==
    ASSUME QueueInv, OneParkablePerKey, NEW h \in Handlers, CheckDuplicate(h)
    PROVE  OneParkablePerKey'
<1>1. /\ TypeInv /\ SoleParker /\ QueuedIsIdle
      /\ handlers \in [Handlers -> Handler] /\ handlers[h] \in Handler
      /\ handlers[h].pc = "check"
  BY DEF QueueInv, BreakerInv, TypeInv, TypeOK, CheckDuplicate
<1>2. /\ NoneParkable /\ runs' = runs
      /\ \A g \in Handlers : g # h => handlers'[g] = handlers[g]
  BY <1>1, CheckingQuiet, QuietKeeps DEF CheckDuplicate, pipelineVars
<1>3. CASE handlers'[h].pc # "create"
  BY <1>2, <1>3, BystanderKeepsOne
<1>4. CASE handlers'[h].pc = "create"
  <2>1. /\ FindOpenRun(runs, Head(handlers[h].batch).key) = {}
        /\ handlers' = [handlers EXCEPT ![h].pc = "create"]
    BY <1>1, <1>4, NextAlertTypes DEF CheckDuplicate
  <2>2. handlers'[h].batch = handlers[h].batch
    BY <1>1, <2>1 DEF Handler
  <2>3. \A r \in DOMAIN runs :
           Parkable(r) => runs[r].alert.key # Head(handlers[h].batch).key
    BY <1>1, <2>1, ParkableIsOpen DEF FindOpenRun
  <2>4. ASSUME NEW r \in DOMAIN runs', NEW q \in DOMAIN runs',
               Parkable(r)', Parkable(q)', runs'[r].alert.key = runs'[q].alert.key
        PROVE  r = q
    BY <1>2, <2>4 DEF OneParkablePerKey, NoneParkable
  <2>5. ASSUME NEW g \in Handlers, handlers'[g].pc = "create",
               NEW r \in DOMAIN runs', Parkable(r)'
        PROVE  runs'[r].alert.key # Head(handlers'[g].batch).key
    BY <1>2, <2>2, <2>3, <2>5 DEF OneParkablePerKey, NoneParkable
  <2> QED
    BY <2>4, <2>5 DEF OneParkablePerKey
<1> QED
  BY <1>3, <1>4

(* The only request there is inserts the row that the check allowed it.    *)
LEMMA InsertionKeepsOne ==
    ASSUME QueueInv, OneParkablePerKey, OneRequestAtATime, NEW h \in Handlers,
           CreateRunning(h) \/ CreateParked(h)
    PROVE  OneParkablePerKey'
<1> DEFINE alert == Head(handlers[h].batch)
<1>1. TypeInv /\ handlers[h] \in Handler /\ handlers[h].pc = "create"
  BY DEF QueueInv, BreakerInv, TypeInv, TypeOK, CreateRunning, CreateParked
<1>2. alert \in Alert
  BY <1>1 DEF TypeInv, References, Handler
<1>3. runs'[lastRun + 1].alert = alert
  <2>1. runs'[lastRun + 1] = FreshRow(alert, now)
    BY <1>1, <1>2, InsertTypes DEF CreateRunning, CreateParked
  <2> QED
    BY <2>1 DEF FreshRow
<1>4. /\ \A r \in DOMAIN runs' : Parkable(r)' =>
            \/ r \in DOMAIN runs /\ Parkable(r) /\ runs'[r].alert = runs[r].alert
            \/ r = lastRun + 1
      /\ handlers'[h].pc # "create"
  BY CreateRunningQueue, CreateParkedQueue
<1>5. \A r \in DOMAIN runs : Parkable(r) => runs[r].alert.key # alert.key
  BY <1>1 DEF OneParkablePerKey
<1> HIDE DEF alert
<1>6. ASSUME NEW r \in DOMAIN runs', NEW q \in DOMAIN runs',
             Parkable(r)', Parkable(q)', runs'[r].alert.key = runs'[q].alert.key
      PROVE  r = q
  BY <1>3, <1>4, <1>5, <1>6 DEF OneParkablePerKey
<1>7. \A g \in Handlers : handlers'[g].pc # "create"
  BY <1>4 DEF OneRequestAtATime
<1> QED
  BY <1>6, <1>7 DEF OneParkablePerKey

(* While webhook requests come one at a time, no alert is in the queue     *)
(* twice, whatever tasks, dispatch requests, people, errors and crashes do *)
(* meanwhile.                                                              *)
THEOREM OneQueuedRunPerKey == OneRequestAtATime /\ Spec => []OneQueuedPerKey
<1>1. OneRequestAtATime /\ QueueInv /\ OneParkablePerKey /\ [Next]_vars
         => OneParkablePerKey'
  BY NextSplits, BystanderQueue, BystanderKeepsOne, CheckKeepsOne, InsertionKeepsOne
<1>2. OneParkablePerKey => OneQueuedPerKey
  BY DEF OneParkablePerKey, OneQueuedPerKey, Parkable, ListQueued
<1>3. CASE OneRequestAtATime
  BY <1>1, <1>2, <1>3, InitQueue, NextQueue, PTL DEF Spec
<1> QED
  BY <1>3
=============================================================================
