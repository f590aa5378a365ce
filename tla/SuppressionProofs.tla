--------------------------- MODULE SuppressionProofs ---------------------------
(***************************************************************************)
(* Proofs that the run table admits one run of an alert at a time, that it *)
(* implements RunLifecycle, and that an open pull request keeps its alert  *)
(* from opening another.  The duplicate check of the webhook and the       *)
(* open-PR check of the pipeline each have a window after them; the first  *)
(* is closed by there being one request, the second by the first.          *)
(***************************************************************************)
EXTENDS TrackingProofs

(* What the duplicate check needs: requests come one at a time, no operator *)
(* inserts rows past it, and no row has a status that it does not list     *)
(* (dedup._OPEN_STATUSES lacks "triaging" and "investigating").            *)
EveryRunIsChecked ==
    /\ OneRequestAtATime /\ OneDispatchAtATime
    /\ "manual" \notin People
    /\ "triage" \notin Integrations /\ "investigation" \notin Integrations

-----------------------------------------------------------------------------
(* One unsettled run per alert.                                            *)

Unsettled(r) == r \in DOMAIN runs /\ runs[r].status \notin TerminalStatuses

(* The duplicate check overlooks no unsettled row.                         *)
AllListed == \A r \in DOMAIN runs : Unsettled(r) => runs[r].status \in OpenStatuses

(* A request that found no open row of an alert inserts one while there is *)
(* still none.                                                             *)
CheckedKeyIsFree ==
    \A h \in Handlers : handlers[h].pc = "create" =>
        \A r \in DOMAIN runs :
            Unsettled(r) => runs[r].alert.key # Head(handlers[h].batch).key

OpenInv == RowInv /\ OneOpenRunPerKey /\ AllListed /\ CheckedKeyIsFree

(* A step that unsettles no row and lets no request find its alert free.   *)
NoneUnsettled ==
    /\ \A r \in DOMAIN runs' :
          /\ r \in DOMAIN runs /\ runs'[r].alert = runs[r].alert
          /\ Unsettled(r)' => Unsettled(r) /\ runs'[r].status \in OpenStatuses
    /\ \A h \in Handlers : handlers'[h].pc = "create" => handlers'[h] = handlers[h]

LEMMA NoneUnsettledKeeps ==
    ASSUME OpenInv, NoneUnsettled
    PROVE  OneOpenRunPerKey' /\ AllListed' /\ CheckedKeyIsFree'
<1>1. OneOpenRunPerKey /\ AllListed /\ CheckedKeyIsFree
  BY DEF OpenInv
<1>2. \A r \in DOMAIN runs' :
         /\ r \in DOMAIN runs /\ runs'[r].alert = runs[r].alert
         /\ runs'[r].status \notin TerminalStatuses
               => /\ runs[r].status \notin TerminalStatuses
                  /\ runs'[r].status \in OpenStatuses
  BY DEF NoneUnsettled, Unsettled
<1>3. OneOpenRunPerKey'
  BY <1>1, <1>2 DEF OneOpenRunPerKey
<1>4. AllListed'
  BY <1>2 DEF AllListed, Unsettled
<1>5. CheckedKeyIsFree'
  BY <1>1, <1>2 DEF CheckedKeyIsFree, Unsettled, NoneUnsettled
<1> QED
  BY <1>3, <1>4, <1>5

(* A task writes the statuses of its own unsettled row.                    *)
LEMMA PipelineUnsettles ==
    ASSUME EveryRunIsChecked, OpenInv, PipelineStep
    PROVE  NoneUnsettled
<1>1. PICK t \in DOMAIN tasks : Advance(t) \/ Fail(t)
  BY DEF PipelineStep
<1>2. /\ TypeInv /\ Phased /\ AllListed /\ RowTable(runs)
      /\ UNCHANGED <<lastRun, handlers, dispatchers, poller>>
  BY DEF OpenInv, RowInv, QueueInv, BreakerInv, PipelineStep, agentVars, TypeInv,
         TypeOK, RowTable
<1>3. /\ PhaseStep(t) /\ DOMAIN runs' = DOMAIN runs /\ Live(t)
      /\ \A r \in DOMAIN runs : runs'[r].alert = runs[r].alert
      /\ \A r \in DOMAIN runs :
            r # tasks[t].run => runs'[r].status = runs[r].status
  BY <1>1, <1>2, PhaseStepTypes
<1>4. ASSUME tasks[t].run \in DOMAIN runs
      PROVE  /\ runs[tasks[t].run].status \notin TerminalStatuses
             /\ runs'[tasks[t].run].status \in OpenStatuses \cup TerminalStatuses
  <2> DEFINE r == tasks[t].run
  <2>1. /\ InPhase(tasks[t].pc, runs[r].status)
        /\ runs[r].status \notin TerminalStatuses
    BY <1>2, <1>3, <1>4, PhaseIsUnsettled DEF Phased
  <2>2. runs[r].status \in OpenStatuses
    BY <1>2, <1>4, <2>1 DEF AllListed, Unsettled
  <2>3. ASSUME NEW s \in Statuses, runs' = UpdateStatus(runs, r, s),
               s = "triaging" => "triage" \in Integrations,
               s = "investigating" => "investigation" \in Integrations
        PROVE  runs'[r].status \in OpenStatuses \cup TerminalStatuses
    <3>1. runs'[r].status = s
      BY <1>2, <1>4, <2>3, UpdateStatusKeeps
    <3> QED
      BY <2>3, <3>1 DEF EveryRunIsChecked, OpenStatuses, Statuses,
                        ActiveStatuses, TerminalStatuses
  <2> QED
    BY <1>3, <1>4, <2>1, <2>2, <2>3 DEF PhaseStep, StatusStep
<1>5. \A r \in DOMAIN runs' : Unsettled(r)' => Unsettled(r) /\ runs'[r].status \in OpenStatuses
  BY <1>2, <1>3, <1>4 DEF Unsettled, AllListed
<1> QED
  BY <1>2, <1>3, <1>5 DEF NoneUnsettled

(* A quiet step writes no status; parking and dispatching find the row     *)
(* unsettled.                                                              *)
LEMMA OthersUnsettle ==
    ASSUME EveryRunIsChecked, OpenInv,
           \/ BackgroundStep \/ SetMode \/ Surroundings \/ UNCHANGED vars
           \/ \E h \in Handlers : Receive(h) \/ ParkQueued(h) \/ HandlerErrs(h)
           \/ \E d \in Dispatchers :
                 DispatchRead(d) \/ DispatchReset(d) \/ DispatchErrs(d)
    PROVE  NoneUnsettled
<1>1. /\ TypeInv /\ SoleParker /\ Alone /\ AllListed /\ RowTable(runs)
      /\ QueueInv /\ dispatchers \in [Dispatchers -> Dispatcher]
  BY DEF OpenInv, RowInv, QueueInv, BreakerInv, TypeInv, TypeOK, RowTable
<1>2. \A h \in Handlers : handlers'[h].pc = "create" => handlers'[h] = handlers[h]
  BY <1>1, BystanderQueue DEF Bystander
<1>3. ASSUME DOMAIN runs' \subseteq DOMAIN runs,
             \A r \in DOMAIN runs' : /\ runs'[r].status = runs[r].status
                                     /\ runs'[r].alert = runs[r].alert
      PROVE  NoneUnsettled
  BY <1>1, <1>2, <1>3 DEF NoneUnsettled, Unsettled, AllListed
<1>4. CASE BackgroundStep \/ SetMode \/ Surroundings
  BY <1>1, <1>3, <1>4, OutsideQuiet DEF Quiet
<1>5. CASE UNCHANGED vars
  BY <1>3, <1>5 DEF vars
<1>6. CASE \/ \E h \in Handlers : Receive(h) \/ HandlerErrs(h)
           \/ \E d \in Dispatchers : DispatchRead(d) \/ DispatchErrs(d)
  <2>1. runs' = runs
    BY <1>6 DEF Receive, HandlerErrs, DispatchRead, DispatchErrs, pipelineVars
  <2> QED
    BY <1>3, <2>1
<1>7. ASSUME NEW r, NEW s \in {"queued", "pending"}, runs' = UpdateStatus(runs, r, s),
             r \in DOMAIN runs => runs[r].status \in {"queued", "pending"}
      PROVE  NoneUnsettled
  <2>1. DOMAIN runs' = DOMAIN runs
    BY <1>7 DEF UpdateStatus
  <2>2. \A q \in DOMAIN runs :
           /\ runs'[q].alert = runs[q].alert
           /\ runs'[q].status = IF q = r THEN s ELSE runs[q].status
    BY <1>1, <1>7, UpdateStatusKeeps
  <2> QED
    BY <1>1, <1>2, <1>7, <2>1, <2>2
       DEF NoneUnsettled, Unsettled, AllListed, OpenStatuses, TerminalStatuses
<1>8. ASSUME NEW h \in Handlers, ParkQueued(h) PROVE NoneUnsettled
  BY <1>1, <1>7, <1>8 DEF ParkQueued, SoleParker
<1>9. ASSUME NEW d \in Dispatchers, DispatchReset(d) PROVE NoneUnsettled
  BY <1>1, <1>7, <1>9 DEF DispatchReset, Alone
<1> QED
  BY <1>4, <1>5, <1>6, <1>8, <1>9

(* The duplicate check lets an alert through only when all its rows are    *)
(* settled.                                                                *)
LEMMA CheckUnsettles ==
    ASSUME OpenInv, NEW h \in Handlers, CheckDuplicate(h)
    PROVE  OneOpenRunPerKey' /\ AllListed' /\ CheckedKeyIsFree'
<1>1. /\ TypeInv /\ OneOpenRunPerKey /\ AllListed /\ CheckedKeyIsFree
      /\ handlers \in [Handlers -> Handler] /\ handlers[h] \in Handler
      /\ handlers[h].pc = "check" /\ runs' = runs
  BY DEF OpenInv, RowInv, QueueInv, BreakerInv, TypeInv, TypeOK, CheckDuplicate,
         pipelineVars
<1>2. OneOpenRunPerKey' /\ AllListed'
  BY <1>1 DEF OneOpenRunPerKey, AllListed, Unsettled
<1>3. \A g \in Handlers : g # h => handlers'[g] = handlers[g]
  BY <1>1, CheckingQuiet
<1>4. ASSUME handlers'[h].pc = "create", NEW r \in DOMAIN runs, Unsettled(r)
      PROVE  runs[r].alert.key # Head(handlers'[h].batch).key
  <2>1. /\ FindOpenRun(runs, Head(handlers[h].batch).key) = {}
        /\ handlers' = [handlers EXCEPT ![h].pc = "create"]
    BY <1>1, <1>4, NextAlertTypes DEF CheckDuplicate
  <2>2. handlers'[h].batch = handlers[h].batch
    BY <1>1, <2>1 DEF Handler
  <2> QED
    BY <1>1, <1>4, <2>1, <2>2 DEF AllListed, FindOpenRun
<1>5. CheckedKeyIsFree'
  BY <1>1, <1>3, <1>4 DEF CheckedKeyIsFree, Unsettled
<1> QED
  BY <1>2, <1>5

(* The only request there is inserts the row that the check allowed it.    *)
LEMMA InsertionUnsettles ==
    ASSUME EveryRunIsChecked, OpenInv, NEW h \in Handlers,
           CreateRunning(h) \/ CreateParked(h)
    PROVE  OneOpenRunPerKey' /\ AllListed' /\ CheckedKeyIsFree'
<1> DEFINE alert == Head(handlers[h].batch)
<1>1. /\ TypeInv /\ OneOpenRunPerKey /\ AllListed /\ CheckedKeyIsFree
      /\ handlers[h] \in Handler /\ handlers[h].pc = "create" /\ QueueInv
  BY DEF OpenInv, RowInv, QueueInv, BreakerInv, TypeInv, TypeOK, CreateRunning,
         CreateParked
<1>2. alert \in Alert /\ Insert(alert)
  BY <1>1 DEF TypeInv, References, Handler, CreateRunning, CreateParked
<1>3. \A r \in DOMAIN runs :
         runs[r].status \notin TerminalStatuses => runs[r].alert.key # alert.key
  BY <1>1 DEF CheckedKeyIsFree, Unsettled
<1>4. \A g \in Handlers : handlers'[g].pc # "create"
  BY <1>1, CreateRunningQueue, CreateParkedQueue DEF EveryRunIsChecked, OneRequestAtATime
<1> HIDE DEF alert
<1>5. /\ DOMAIN runs' = DOMAIN runs \cup {lastRun + 1}
      /\ \A r \in DOMAIN runs : runs'[r] = runs[r]
      /\ runs'[lastRun + 1].alert = alert
      /\ runs'[lastRun + 1].status = "pending"
  <2>1. /\ DOMAIN runs' = DOMAIN runs \cup {lastRun + 1}
        /\ \A r \in DOMAIN runs : runs'[r] = runs[r]
        /\ runs'[lastRun + 1] = FreshRow(alert, now)
    BY <1>1, <1>2, InsertTypes
  <2> QED
    BY <2>1 DEF FreshRow
<1>6. OneOpenRunPerKey'
  BY <1>1, <1>3, <1>5 DEF OneOpenRunPerKey
<1>7. AllListed'
  BY <1>1, <1>5 DEF AllListed, Unsettled, OpenStatuses
<1>8. CheckedKeyIsFree'
  BY <1>4 DEF CheckedKeyIsFree
<1> QED
  BY <1>6, <1>7, <1>8

LEMMA NextOpen == EveryRunIsChecked /\ OpenInv /\ [Next]_vars => OpenInv'
<1> SUFFICES ASSUME EveryRunIsChecked, OpenInv, [Next]_vars PROVE OpenInv'
  OBVIOUS
<1>1. RowInv'
  BY NextRows DEF OpenInv, EveryRunIsChecked
<1>2. ~TriggerManually
  BY DEF TriggerManually, EveryRunIsChecked
<1>3. OneOpenRunPerKey' /\ AllListed' /\ CheckedKeyIsFree'
  <2>1. CASE PipelineStep
    BY <2>1, PipelineUnsettles, NoneUnsettledKeeps
  <2>2. CASE \/ BackgroundStep \/ SetMode \/ Surroundings \/ UNCHANGED vars
             \/ \E h \in Handlers : Receive(h) \/ ParkQueued(h) \/ HandlerErrs(h)
             \/ \E d \in Dispatchers :
                   DispatchRead(d) \/ DispatchReset(d) \/ DispatchErrs(d)
    BY <2>2, OthersUnsettle, NoneUnsettledKeeps
  <2>3. CASE \E h \in Handlers : CheckDuplicate(h)
    BY <2>3, CheckUnsettles
  <2>4. CASE \E h \in Handlers : CreateRunning(h) \/ CreateParked(h)
    BY <2>4, InsertionUnsettles
  <2> QED
    BY <1>2, <2>1, <2>2, <2>3, <2>4 DEF Next, RequestStep, HandlerStep
<1> QED
  BY <1>1, <1>3 DEF OpenInv

LEMMA InitOpen == Init => OpenInv
<1> SUFFICES ASSUME Init PROVE OpenInv
  OBVIOUS
<1>1. DOMAIN runs = {} /\ \A h \in Handlers : handlers[h].pc # "create"
  BY DEF Init, IdleHandler
<1> QED
  BY <1>1, InitRows DEF OpenInv, OneOpenRunPerKey, AllListed, CheckedKeyIsFree

(* While every run passes the duplicate check, alone, and no run takes a   *)
(* status that the check does not list, an alert has at most one run that  *)
(* waits or is in flight, through errors, crashes and the pruner.          *)
THEOREM OneRunAtATime == EveryRunIsChecked /\ Spec => []OneOpenRunPerKey
<1>1. OpenInv => OneOpenRunPerKey
  BY DEF OpenInv
<1>2. CASE EveryRunIsChecked
  BY <1>1, <1>2, InitOpen, NextOpen, PTL DEF Spec
<1> QED
  BY <1>2

-----------------------------------------------------------------------------
(* Refinement.                                                             *)

(* A write of a status is a move of the abstract table.                    *)
LEMMA WriteMoves ==
    ASSUME RowTable(runs), NEW r \in DOMAIN runs, NEW s,
           runs' = UpdateStatus(runs, r, s),
           s \in Lifecycle!Follows(runs[r].status)
    PROVE  Lifecycle!Next
<1> DEFINE status == [q \in DOMAIN runs |-> runs[q].status]
           key == [q \in DOMAIN runs |-> runs[q].alert.key]
<1>1. DOMAIN runs' = DOMAIN runs
  BY DEF UpdateStatus
<1>2. \A q \in DOMAIN runs :
         /\ runs'[q].status = IF q = r THEN s ELSE runs[q].status
         /\ runs'[q].alert = runs[q].alert
  BY UpdateStatusKeeps
<1>3. [q \in DOMAIN runs' |-> runs'[q].status] = [status EXCEPT ![r] = s]
  BY <1>1, <1>2
<1>4. [q \in DOMAIN runs' |-> runs'[q].alert.key] = key
  BY <1>1, <1>2
<1>5. Lifecycle!Move(r)
  BY <1>3, <1>4 DEF Lifecycle!Move
<1> QED
  BY <1>5 DEF Lifecycle!Next

(* Rows that go leave the table as the abstract one forgets them, and rows *)
(* that keep status and alert leave it as it is.                           *)
LEMMA KeepingForgets ==
    ASSUME DOMAIN runs' \subseteq DOMAIN runs,
           \A r \in DOMAIN runs' : /\ runs'[r].status = runs[r].status
                                   /\ runs'[r].alert = runs[r].alert
    PROVE  Lifecycle!Next
<1>1. PICK kept : kept = DOMAIN runs'
  OBVIOUS
<1>2. kept \in SUBSET DOMAIN [r \in DOMAIN runs |-> runs[r].status]
  BY <1>1
<1>3. Lifecycle!Forget(kept)
  BY <1>1 DEF Lifecycle!Forget
<1> QED
  BY <1>2, <1>3 DEF Lifecycle!Next

(* A row of an alert whose rows are all settled is admitted.               *)
LEMMA InsertionAdmits ==
    ASSUME TypeInv, NEW alert \in Alert, Insert(alert),
           \A r \in DOMAIN runs :
               runs[r].status \notin TerminalStatuses => runs[r].alert.key # alert.key
    PROVE  Lifecycle!Next
<1> DEFINE status == [q \in DOMAIN runs |-> runs[q].status]
           key == [q \in DOMAIN runs |-> runs[q].alert.key]
           new == lastRun + 1
<1>1. /\ DOMAIN runs' = DOMAIN runs \cup {new} /\ new \notin DOMAIN runs
      /\ \A r \in DOMAIN runs : runs'[r] = runs[r]
      /\ runs'[new].status = "pending" /\ runs'[new].alert = alert
  <2>1. /\ DOMAIN runs' = DOMAIN runs \cup {new} /\ new \notin DOMAIN runs
        /\ \A r \in DOMAIN runs : runs'[r] = runs[r]
        /\ runs'[new] = FreshRow(alert, now)
    BY InsertTypes
  <2> QED
    BY <2>1 DEF FreshRow
<1>2. new \in 1..MaxRuns /\ alert.key \in Keys
  BY BoundsAssumption DEF TypeInv, TypeOK, Insert, Alert
<1>3. \A q \in DOMAIN status : key[q] = alert.key => status[q] \in Lifecycle!Settled
  BY DEF Lifecycle!Settled, TerminalStatuses
<1>4. [q \in DOMAIN runs' |-> runs'[q].status]
         = [q \in DOMAIN status \cup {new} |-> IF q = new THEN "pending" ELSE status[q]]
  BY <1>1
<1>5. [q \in DOMAIN runs' |-> runs'[q].alert.key]
         = [q \in DOMAIN status \cup {new} |-> IF q = new THEN alert.key ELSE key[q]]
  BY <1>1
<1>6. PICK r \in 1..MaxRuns, k \in Keys : r = new /\ k = alert.key
  BY <1>2
<1>7. Lifecycle!Admit(r, k)
  BY <1>1, <1>3, <1>4, <1>5, <1>6 DEF Lifecycle!Admit
<1> QED
  BY <1>7 DEF Lifecycle!Next

(* Every step of the agent is one of the abstract table, or leaves it as   *)
(* it is.                                                                  *)
LEMMA NextMoves ==
    ASSUME EveryRunIsChecked, OpenInv, [Next]_vars
    PROVE  Lifecycle!Next
<1>1. /\ TypeInv /\ SoleParker /\ Alone /\ Phased /\ CheckedKeyIsFree /\ RowTable(runs)
      /\ handlers \in [Handlers -> Handler]
  BY DEF OpenInv, RowInv, QueueInv, BreakerInv, TypeInv, TypeOK, RowTable
<1>2. ASSUME NEW r, NEW s, runs' = UpdateStatus(runs, r, s),
             r \in DOMAIN runs => \/ s \in Lifecycle!Follows(runs[r].status)
                                  \/ s = runs[r].status
      PROVE  Lifecycle!Next
  <2>1. CASE r \in DOMAIN runs /\ s \in Lifecycle!Follows(runs[r].status)
    BY <1>1, <1>2, <2>1, WriteMoves
  <2>2. CASE r \in DOMAIN runs => s = runs[r].status
    <3>1. DOMAIN runs' = DOMAIN runs
      BY <1>2 DEF UpdateStatus
    <3>2. \A q \in DOMAIN runs : /\ runs'[q].status = runs[q].status
                                 /\ runs'[q].alert = runs[q].alert
      BY <1>1, <1>2, <2>2, UpdateStatusKeeps
    <3> QED
      BY <3>1, <3>2, KeepingForgets
  <2> QED
    BY <1>2, <2>1, <2>2
<1>3. CASE PipelineStep
  <2>1. PICK t \in DOMAIN tasks : Advance(t) \/ Fail(t)
    BY <1>3 DEF PipelineStep
  <2>2. /\ StatusStep(t) /\ Live(t) /\ DOMAIN runs' = DOMAIN runs
        /\ \A r \in DOMAIN runs : runs'[r].alert = runs[r].alert
    BY <1>1, <2>1, PhaseStepTypes DEF PhaseStep
  <2>3. ASSUME tasks[t].run \in DOMAIN runs
        PROVE  /\ InPhase(tasks[t].pc, runs[tasks[t].run].status)
               /\ runs[tasks[t].run].status \in Statuses
    BY <1>1, <2>2, <2>3, PhaseIsUnsettled DEF Phased
  <2>4. CASE \A r \in DOMAIN runs : runs'[r].status = runs[r].status
    BY <2>2, <2>4, KeepingForgets
  <2>5. CASE \E s \in Statuses :
                /\ runs' = UpdateStatus(runs, tasks[t].run, s)
                /\ \A o \in Statuses :
                      InPhase(tasks[t].pc, o) => s \in Lifecycle!Follows(o)
    BY <1>2, <2>3, <2>5
  <2> QED
    BY <2>2, <2>4, <2>5 DEF StatusStep
<1>4. CASE BackgroundStep \/ SetMode \/ Surroundings
  BY <1>1, <1>4, OutsideQuiet, KeepingForgets DEF Quiet
<1>5. CASE \/ UNCHANGED vars
           \/ \E h \in Handlers : Receive(h) \/ CheckDuplicate(h) \/ HandlerErrs(h)
           \/ \E d \in Dispatchers : DispatchRead(d) \/ DispatchErrs(d)
  <2>1. runs' = runs
    BY <1>5 DEF vars, Receive, CheckDuplicate, HandlerErrs, DispatchRead,
                DispatchErrs, pipelineVars
  <2> QED
    BY <2>1, KeepingForgets
<1>6. ASSUME NEW h \in Handlers, ParkQueued(h) PROVE Lifecycle!Next
  <2>1. handlers[h].run \in DOMAIN runs
           => runs[handlers[h].run].status \in {"queued", "pending"}
    BY <1>1, <1>6 DEF ParkQueued, SoleParker
  <2>2. runs' = UpdateStatus(runs, handlers[h].run, "queued")
    BY <1>6 DEF ParkQueued
  <2>3. CASE handlers[h].run \in DOMAIN runs /\ runs[handlers[h].run].status = "pending"
    <3>1. "queued" \in Lifecycle!Follows(runs[handlers[h].run].status)
      BY <2>3 DEF Lifecycle!Follows, Lifecycle!Settled
    <3> QED
      BY <1>2, <2>2, <3>1
  <2>4. CASE handlers[h].run \in DOMAIN runs => runs[handlers[h].run].status = "queued"
    BY <1>2, <2>2, <2>4
  <2> QED
    BY <2>1, <2>3, <2>4
<1>7. ASSUME NEW d \in Dispatchers, DispatchReset(d) PROVE Lifecycle!Next
  <2>1. dispatchers[d].run \in DOMAIN runs
           => runs[dispatchers[d].run].status = "queued"
    BY <1>1, <1>7 DEF DispatchReset, Alone
  <2>2. /\ runs' = UpdateStatus(runs, dispatchers[d].run, "pending")
        /\ "pending" \in Lifecycle!Follows("queued")
    BY <1>7 DEF DispatchReset, Lifecycle!Follows, Lifecycle!Settled
  <2> QED
    BY <1>2, <2>1, <2>2
<1>8. ASSUME NEW h \in Handlers, CreateRunning(h) \/ CreateParked(h)
      PROVE  Lifecycle!Next
  <2>1. /\ handlers[h].pc = "create" /\ Insert(Head(handlers[h].batch))
        /\ Head(handlers[h].batch) \in Alert
    BY <1>1, <1>8 DEF CreateRunning, CreateParked, TypeInv, References, Handler
  <2>2. \A r \in DOMAIN runs : runs[r].status \notin TerminalStatuses
            => runs[r].alert.key # Head(handlers[h].batch).key
    BY <1>1, <2>1 DEF CheckedKeyIsFree, Unsettled
  <2> QED
    BY <1>1, <2>1, <2>2, InsertionAdmits
<1>9. ~TriggerManually
  BY DEF TriggerManually, EveryRunIsChecked
<1> QED
  BY <1>3, <1>4, <1>5, <1>6, <1>7, <1>8, <1>9 DEF Next, RequestStep, HandlerStep

(* Under the same conditions the run table behaves as RunLifecycle         *)
(* promises: no run goes back or leaves its final status, only the         *)
(* operator takes a queued run up again, and a new run of an alert enters  *)
(* only when all its runs have settled.                                    *)
THEOREM TableIsALifecycle == EveryRunIsChecked /\ Spec => ImplementsLifecycle
<1>1. Init => Lifecycle!Init
  <2> SUFFICES ASSUME Init PROVE Lifecycle!Init
    OBVIOUS
  <2>1. DOMAIN runs = {}
    BY DEF Init
  <2>2. /\ [r \in DOMAIN runs |-> runs[r].status] = [r \in {} |-> "pending"]
        /\ [r \in DOMAIN runs |-> runs[r].alert.key] = [r \in {} |-> "none"]
    BY <2>1
  <2> QED
    BY <2>2 DEF Lifecycle!Init
<1>2. CASE EveryRunIsChecked
  <2>1. OpenInv /\ [Next]_vars => [Lifecycle!Next]_(Lifecycle!vars)
    BY <1>2, NextMoves
  <2> QED
    BY <1>1, <1>2, <2>1, InitOpen, NextOpen, PTL
       DEF Spec, ImplementsLifecycle, Lifecycle!Spec
<1> QED
  BY <1>2

-----------------------------------------------------------------------------
(* Open pull requests.                                                     *)

(* What keeps the record of a pull request from getting lost: GitHub's     *)
(* answers and the database's commits arrive, the pruner is off, and       *)
(* nobody reopens what the table has as closed.  Crashes are allowed.      *)
NothingIsLost ==
    /\ "reply" \notin Faults /\ "database" \notin Faults
    /\ "reopen" \notin People
    /\ Retention = 0

(* Rows are never deleted.                                                 *)
RowsArePermanent == DOMAIN runs = 1..lastRun

(* The task of a pull request is about to record it, has recorded it, or   *)
(* died before it could and left its row unsettled.                        *)
Carried ==
    \A p \in DOMAIN prs :
        /\ tasks[p].pc \in {"recordpr"} \cup Recorded \cup Ended
        /\ \/ runs[tasks[p].run].pr = p
           \/ tasks[p].pc = "recordpr"
           \/ /\ tasks[p].pc \in Ended
              /\ runs[tasks[p].run].status \notin TerminalStatuses

CarryInv == TrackInv /\ RowsArePermanent /\ Carried

(* A step that leaves the tasks of pull requests, and their rows, as they  *)
(* are, opens none, and lets no task pass the open-PR check.               *)
PrsUndisturbed ==
    /\ DOMAIN prs' = DOMAIN prs
    /\ \A p \in DOMAIN prs :
          /\ prs'[p] = "open" => prs[p] = "open"
          /\ tasks'[p].run = tasks[p].run /\ tasks'[p].alert = tasks[p].alert
          /\ tasks'[p].pc \in {tasks[p].pc, "killed"}
          /\ runs'[tasks[p].run].pr = runs[tasks[p].run].pr
          /\ runs'[tasks[p].run].status = runs[tasks[p].run].status
    /\ \A t \in DOMAIN tasks' : tasks'[t].pc \in Cleared =>
          /\ t \in DOMAIN tasks
          /\ tasks'[t].pc = tasks[t].pc /\ tasks'[t].alert = tasks[t].alert

(* The rows of tasks are there.                                            *)
LEMMA TasksHaveRows ==
    ASSUME TrackInv, RowsArePermanent
    PROVE  /\ \A t \in DOMAIN tasks : tasks[t].run \in DOMAIN runs
           /\ DOMAIN prs \subseteq DOMAIN tasks
           /\ \A p \in DOMAIN prs : tasks[p] \in Task /\ p # NoPr
<1>1. Allocated /\ tasks \in Seq(Task) /\ DOMAIN prs \subseteq DOMAIN tasks
  BY DEF TrackInv, RowInv, QueueInv, BreakerInv, TypeInv, TypeOK
<1> QED
  BY <1>1 DEF Allocated, RowsArePermanent, NoPr

LEMMA OutsideLeavesPrs ==
    ASSUME NothingIsLost, TrackInv, RowsArePermanent,
           BackgroundStep \/ SetMode \/ Surroundings
    PROVE  PrsUndisturbed /\ RowsArePermanent'
<1>1. /\ RowTable(runs) /\ tasks \in Seq(Task) /\ RowInv
      /\ \A t \in DOMAIN tasks : tasks[t].run \in DOMAIN runs
      /\ DOMAIN prs \subseteq DOMAIN tasks
      /\ \A p \in DOMAIN prs : prs[p] \in {"open", "closed", "merged"}
  BY TasksHaveRows
     DEF TrackInv, RowInv, QueueInv, BreakerInv, TypeInv, TypeOK, RowTable
<1>2. QuietForRows
  BY <1>1, OutsideRows
<1>3. ~Prune /\ ~Reopen
  BY DEF NothingIsLost, Prune, Reopen
<1>4. /\ DOMAIN runs' = DOMAIN runs
      /\ \A r \in DOMAIN runs : runs'[r].pr = runs[r].pr
  <2>1. ASSUME NEW r, NEW s, runs' = UpdatePrStatus(runs, r, s, now)
        PROVE  /\ DOMAIN runs' = DOMAIN runs
               /\ \A q \in DOMAIN runs : runs'[q].pr = runs[q].pr
    <3>1. DOMAIN runs' = DOMAIN runs
      BY <2>1 DEF UpdatePrStatus
    <3> QED
      BY <1>1, <2>1, <3>1, UpdatePrStatusKeeps
  <2>2. CASE PollWrite
    BY <2>1, <2>2 DEF PollWrite
  <2>3. CASE BackfillPrStatus
    BY <2>1, <2>3 DEF BackfillPrStatus
  <2>4. CASE ~PollWrite /\ ~BackfillPrStatus
    <3>1. runs' = runs
      BY <1>3, <2>4 DEF BackgroundStep, PollStep, SetMode, Surroundings, PollList,
         PollAsk, PollErrs, CloseOrMerge, Tick, Crash, pipelineVars
    <3> QED
      BY <3>1
  <2> QED
    BY <2>2, <2>3, <2>4
<1>5. \A r \in DOMAIN runs : runs'[r].status = runs[r].status
  BY <1>2, <1>4 DEF QuietForRows, Quiet
<1>6. \A p \in DOMAIN prs : prs'[p] = "open" => prs[p] = "open"
  <2>1. CASE CloseOrMerge
    BY <2>1 DEF CloseOrMerge
  <2>2. CASE ~CloseOrMerge
    BY <1>3, <2>2 DEF BackgroundStep, PollStep, SetMode, Surroundings, PollList,
       PollAsk, PollWrite, PollErrs, BackfillPrStatus, Tick, Crash, pipelineVars
  <2> QED
    BY <2>1, <2>2
<1>7. \A t \in DOMAIN tasks : /\ tasks'[t].run = tasks[t].run
                              /\ tasks'[t].alert = tasks[t].alert
                              /\ tasks'[t].pc \in {tasks[t].pc, "killed"}
  <2>1. CASE Crash
    BY <1>1, <2>1 DEF Crash, Task
  <2>2. CASE ~Crash
    BY <1>3, <2>2 DEF BackgroundStep, PollStep, SetMode, Surroundings, PollList,
       PollAsk, PollWrite, PollErrs, CloseOrMerge, BackfillPrStatus, Tick, pipelineVars
  <2> QED
    BY <2>1, <2>2
<1>8. RowsArePermanent'
  BY <1>2, <1>4 DEF RowsArePermanent, QuietForRows, Quiet
<1>9. DOMAIN tasks' = DOMAIN tasks /\ DOMAIN prs' = DOMAIN prs
  BY <1>2 DEF QuietForRows, Quiet
<1>10. "killed" \notin Cleared
  BY DEF Cleared
<1> QED
  BY <1>1, <1>4, <1>5, <1>6, <1>7, <1>8, <1>9, <1>10 DEF PrsUndisturbed

LEMMA RequestsLeavePrs ==
    ASSUME TrackInv, RowsArePermanent, RequestStep, ~SetMode
    PROVE  PrsUndisturbed /\ RowsArePermanent'
<1>1. /\ TypeInv /\ RowTable(runs) /\ tasks \in Seq(Task) /\ lastRun \in Nat
      /\ handlers \in [Handlers -> Handler]
      /\ dispatchers \in [Dispatchers -> Dispatcher]
      /\ SoleParker /\ Alone /\ Allocated
      /\ \A t \in DOMAIN tasks : tasks[t].run \in DOMAIN runs
      /\ DOMAIN prs \subseteq DOMAIN tasks
  BY TasksHaveRows
     DEF TrackInv, RowInv, QueueInv, BreakerInv, TypeInv, TypeOK, RowTable
<1>2. prs' = prs
  BY DEF RequestStep, HandlerStep, Receive, CheckDuplicate, CreateRunning,
         CreateParked, ParkQueued, HandlerErrs, DispatchRead, DispatchReset,
         DispatchErrs, TriggerManually, pipelineVars
<1>3. ASSUME \A t \in DOMAIN tasks' :
                \/ t \in DOMAIN tasks /\ tasks'[t] = tasks[t]
                \/ tasks'[t].pc = "settings",
             \A t \in DOMAIN tasks : tasks'[t] = tasks[t],
             \A p \in DOMAIN prs :
                /\ runs'[tasks[p].run].pr = runs[tasks[p].run].pr
                /\ runs'[tasks[p].run].status = runs[tasks[p].run].status
      PROVE  PrsUndisturbed
  <2>1. "settings" \notin Cleared
    BY DEF Cleared
  <2> QED
    BY <1>1, <1>2, <1>3, <2>1 DEF PrsUndisturbed
<1>4. ASSUME NEW r \in Nat, NEW alert \in Alert, NEW gate \in Gates,
             Spawn(r, alert, gate)
      PROVE  /\ \A t \in DOMAIN tasks' :
                   \/ t \in DOMAIN tasks /\ tasks'[t] = tasks[t]
                   \/ tasks'[t].pc = "settings"
             /\ \A t \in DOMAIN tasks : tasks'[t] = tasks[t]
  <2>1. /\ DOMAIN tasks' = DOMAIN tasks \cup {Len(tasks) + 1}
        /\ \A t \in DOMAIN tasks : tasks'[t] = tasks[t]
        /\ tasks'[Len(tasks) + 1] = NewTask(r, alert, gate)
    BY <1>1, <1>4, SpawnTypes
  <2> QED
    BY <2>1 DEF NewTask
<1>5. ASSUME NEW alert \in Alert, Insert(alert)
      PROVE  /\ RowsArePermanent'
             /\ \A p \in DOMAIN prs :
                   /\ runs'[tasks[p].run].pr = runs[tasks[p].run].pr
                   /\ runs'[tasks[p].run].status = runs[tasks[p].run].status
  <2>1. /\ DOMAIN runs' = DOMAIN runs \cup {lastRun + 1} /\ lastRun' = lastRun + 1
        /\ \A r \in DOMAIN runs : runs'[r] = runs[r]
    BY <1>1, <1>5, InsertTypes
  <2>2. RowsArePermanent'
    BY <1>1, <2>1 DEF RowsArePermanent
  <2> QED
    BY <1>1, <2>1, <2>2
<1>6. ASSUME NEW r, NEW s, runs' = UpdateStatus(runs, r, s), lastRun' = lastRun,
             \A p \in DOMAIN prs : tasks[p].run # r
      PROVE  /\ RowsArePermanent'
             /\ \A p \in DOMAIN prs :
                   /\ runs'[tasks[p].run].pr = runs[tasks[p].run].pr
                   /\ runs'[tasks[p].run].status = runs[tasks[p].run].status
  <2>1. DOMAIN runs' = DOMAIN runs
    BY <1>6 DEF UpdateStatus
  <2> QED
    BY <1>1, <1>6, <2>1, UpdateStatusKeeps DEF RowsArePermanent
<1>7. CASE \/ \E h \in Handlers : Receive(h) \/ CheckDuplicate(h) \/ HandlerErrs(h)
           \/ \E d \in Dispatchers : DispatchRead(d) \/ DispatchErrs(d)
  <2>1. UNCHANGED <<runs, tasks, lastRun>>
    BY <1>7 DEF Receive, CheckDuplicate, HandlerErrs, DispatchRead, DispatchErrs,
                pipelineVars
  <2> QED
    BY <1>3, <2>1 DEF RowsArePermanent
<1>8. ASSUME NEW h \in Handlers, CreateRunning(h)
      PROVE  PrsUndisturbed /\ RowsArePermanent'
  <2> DEFINE alert == Head(handlers[h].batch)
  <2>1. /\ alert \in Alert /\ Insert(alert)
        /\ Spawn(lastRun + 1, alert, "enforced")
    BY <1>1, <1>8 DEF CreateRunning, TypeInv, References, Handler
  <2> HIDE DEF alert
  <2>2. lastRun + 1 \in Nat /\ "enforced" \in Gates
    BY <1>1 DEF Gates
  <2> QED
    BY <1>3, <1>4, <1>5, <2>1, <2>2
<1>9. ASSUME NEW h \in Handlers, CreateParked(h)
      PROVE  PrsUndisturbed /\ RowsArePermanent'
  <2>1. /\ Head(handlers[h].batch) \in Alert /\ Insert(Head(handlers[h].batch))
        /\ tasks' = tasks
    BY <1>1, <1>9 DEF CreateParked, TypeInv, References, Handler
  <2> QED
    BY <1>3, <1>5, <2>1
<1>10. ASSUME NEW h \in Handlers, ParkQueued(h)
       PROVE  PrsUndisturbed /\ RowsArePermanent'
  <2>1. /\ runs' = UpdateStatus(runs, handlers[h].run, "queued")
        /\ UNCHANGED <<tasks, lastRun>>
    BY <1>10 DEF ParkQueued
  <2>2. \A p \in DOMAIN prs : tasks[p].run # handlers[h].run
    BY <1>1, <1>10 DEF ParkQueued, SoleParker
  <2> QED
    BY <1>3, <1>6, <2>1, <2>2
<1>11. ASSUME NEW d \in Dispatchers, DispatchReset(d)
       PROVE  PrsUndisturbed /\ RowsArePermanent'
  <2>1. /\ runs' = UpdateStatus(runs, dispatchers[d].run, "pending")
        /\ Spawn(dispatchers[d].run, dispatchers[d].alert, "exempt")
        /\ lastRun' = lastRun /\ dispatchers[d].pc = "reset"
    BY <1>11 DEF DispatchReset
  <2>2. \A p \in DOMAIN prs : tasks[p].run # dispatchers[d].run
    BY <1>1, <2>1 DEF Alone, Idle
  <2>3. /\ dispatchers[d].run \in Nat /\ dispatchers[d].alert \in Alert
        /\ "exempt" \in Gates
    BY <1>1, <2>1 DEF Dispatcher, Gates
  <2> QED
    BY <1>3, <1>4, <1>6, <2>1, <2>2, <2>3
<1>12. CASE TriggerManually
  <2>1. PICK alert \in Alert : Insert(alert) /\ Spawn(lastRun + 1, alert, "exempt")
    BY <1>12 DEF TriggerManually
  <2>2. lastRun + 1 \in Nat /\ "exempt" \in Gates
    BY <1>1 DEF Gates
  <2> QED
    BY <1>3, <1>4, <1>5, <2>1, <2>2
<1> QED
  BY <1>7, <1>8, <1>9, <1>10, <1>11, <1>12 DEF RequestStep, HandlerStep

(* What a task's step means for pull requests when no answer and no commit *)
(* is lost: it leaves them alone, opens its own, or records its own.       *)
LEMMA PipelineCarries ==
    ASSUME NothingIsLost, CarryInv, PipelineStep
    PROVE  RowsArePermanent' /\ Carried'
<1>1. PICK t \in DOMAIN tasks : Advance(t) \/ Fail(t)
  BY DEF PipelineStep
<1>2. /\ TypeInv /\ RowTable(runs) /\ Alone /\ PrsAreOpened /\ Phased /\ Carried
      /\ RowsArePermanent /\ TrackInv /\ lastRun' = lastRun
      /\ \A u \in DOMAIN tasks : tasks[u].run \in DOMAIN runs
      /\ DOMAIN prs \subseteq DOMAIN tasks
  BY TasksHaveRows
     DEF CarryInv, TrackInv, RowInv, QueueInv, BreakerInv, PipelineStep, agentVars,
         TypeInv, TypeOK, RowTable
<1>3. /\ TaskStep(t) /\ PhaseStep(t)
      /\ DOMAIN tasks' = DOMAIN tasks
      /\ \A u \in DOMAIN tasks : /\ tasks'[u].run = tasks[u].run
                                 /\ u # t => tasks'[u] = tasks[u]
      /\ DOMAIN runs' = DOMAIN runs
      /\ \A r \in DOMAIN runs :
            r # tasks[t].run => runs'[r].status = runs[r].status
      /\ Live(t)
  BY <1>1, <1>2, PhaseStepTypes
<1>4. \A r \in DOMAIN runs : r # tasks[t].run => runs'[r].pr = runs[r].pr
  BY <1>2, <1>3, RecordPrKeeps DEF PhaseStep, RecordStep, PrColumnsKept
<1>5. RowsArePermanent'
  BY <1>2, <1>3 DEF RowsArePermanent
<1>6. ASSUME NEW p \in DOMAIN prs', p # t
      PROVE  /\ p \in DOMAIN prs /\ tasks'[p] = tasks[p]
             /\ runs'[tasks[p].run].pr = runs[tasks[p].run].pr
             /\ runs'[tasks[p].run].status = runs[tasks[p].run].status
  <2>1. p \in DOMAIN prs /\ tasks'[p] = tasks[p]
    BY <1>2, <1>3, <1>6 DEF PhaseStep, OpenStep, Put
  <2>2. tasks[p].run # tasks[t].run
    BY <1>2, <1>3, <1>6, <2>1 DEF Alone
  <2> QED
    BY <1>2, <1>3, <1>4, <2>1, <2>2
<1>7. ASSUME t \in DOMAIN prs'
      PROVE  /\ tasks'[t].pc \in {"recordpr"} \cup Recorded \cup Ended
             /\ runs'[tasks[t].run].pr = t \/ tasks'[t].pc = "recordpr"
  <2>1. CASE t \notin DOMAIN prs
    BY <1>3, <1>7, <2>1 DEF PhaseStep, OpenStep, NothingIsLost
  <2>2. CASE t \in DOMAIN prs
    <3>1. tasks[t].pc \in {"recordpr"} \cup Recorded
      BY <1>2, <1>3, <2>2 DEF Carried, Live
    <3>2. CASE tasks[t].pc = "recordpr"
      <4>1. tasks'[t].pc \in Recorded /\ runs' = RecordPr(runs, tasks[t].run, t)
        BY <1>3, <3>2 DEF PhaseStep, RecordStep, NothingIsLost
      <4> QED
        BY <1>2, <4>1, RecordPrKeeps
    <3>3. CASE tasks[t].pc \in Recorded
      <4>1. tasks[t].pc \notin {"recordpr", "recordskip", "patchfailed"} \cup Ended
        BY <3>3 DEF Recorded, Ended
      <4>2. PrColumnsKept /\ runs[tasks[t].run].pr = t
        BY <1>2, <1>3, <2>2, <4>1 DEF PhaseStep, RecordStep, Carried
      <4>3. tasks'[t].pc \in Recorded \cup Ended
        BY <1>3, <3>3 DEF PhaseStep, LabelStep
      <4> QED
        BY <1>2, <4>2, <4>3 DEF PrColumnsKept
    <3> QED
      BY <3>1, <3>2, <3>3
  <2> QED
    BY <2>1, <2>2
<1>8. Carried'
  BY <1>2, <1>3, <1>6, <1>7 DEF Carried
<1> QED
  BY <1>5, <1>8

(* A task killed before it could record its pull request leaves its row    *)
(* unsettled.                                                              *)
LEMMA UndisturbedCarries ==
    ASSUME CarryInv, PrsUndisturbed
    PROVE  Carried'
<1>1. /\ Phased /\ Carried
      /\ \A t \in DOMAIN tasks : tasks[t].run \in DOMAIN runs
      /\ DOMAIN prs \subseteq DOMAIN tasks
  BY TasksHaveRows DEF CarryInv, TrackInv, RowInv
<1>2. ASSUME NEW p \in DOMAIN prs, tasks[p].pc = "recordpr"
      PROVE  runs[tasks[p].run].status \notin TerminalStatuses
  BY <1>1, <1>2, PhaseIsUnsettled DEF Phased, Live, Ended
<1>3. ASSUME NEW p \in DOMAIN prs'
      PROVE  /\ tasks'[p].pc \in {"recordpr"} \cup Recorded \cup Ended
             /\ \/ runs'[tasks'[p].run].pr = p
                \/ tasks'[p].pc = "recordpr"
                \/ /\ tasks'[p].pc \in Ended
                   /\ runs'[tasks'[p].run].status \notin TerminalStatuses
  <2>1. p \in DOMAIN prs /\ tasks'[p].pc \in {tasks[p].pc, "killed"}
    BY <1>3 DEF PrsUndisturbed
  <2>2. /\ tasks'[p].run = tasks[p].run
        /\ runs'[tasks[p].run].pr = runs[tasks[p].run].pr
        /\ runs'[tasks[p].run].status = runs[tasks[p].run].status
    BY <2>1 DEF PrsUndisturbed
  <2>3. "killed" \in Ended /\ Ended \cap Recorded = {} /\ "recordpr" \notin Ended
    BY DEF Ended, Recorded
  <2>4. /\ tasks[p].pc \in {"recordpr"} \cup Recorded \cup Ended
        /\ \/ runs[tasks[p].run].pr = p
           \/ tasks[p].pc = "recordpr"
           \/ /\ tasks[p].pc \in Ended
              /\ runs[tasks[p].run].status \notin TerminalStatuses
    BY <1>1, <2>1 DEF Carried
  <2> QED
    BY <1>2, <2>1, <2>2, <2>3, <2>4
<1> QED
  BY <1>3 DEF Carried

LEMMA NextLeavesPrs ==
    ASSUME NothingIsLost, TrackInv, RowsArePermanent, [Next]_vars, ~PipelineStep
    PROVE  PrsUndisturbed /\ RowsArePermanent'
<1>1. CASE BackgroundStep \/ SetMode \/ Surroundings
  BY <1>1, OutsideLeavesPrs
<1>2. CASE RequestStep /\ ~SetMode
  BY <1>2, RequestsLeavePrs
<1>3. CASE UNCHANGED vars
  <2>1. DOMAIN prs \subseteq DOMAIN tasks
    BY TasksHaveRows
  <2> QED
    BY <1>3, <2>1 DEF vars, PrsUndisturbed, RowsArePermanent
<1> QED
  BY <1>1, <1>2, <1>3 DEF Next

LEMMA NextCarries ==
    OneDispatchAtATime /\ NothingIsLost /\ CarryInv /\ [Next]_vars => CarryInv'
<1> SUFFICES ASSUME OneDispatchAtATime, NothingIsLost, CarryInv, [Next]_vars
             PROVE  CarryInv'
  OBVIOUS
<1>1. TrackInv'
  BY NextTracks DEF CarryInv
<1>2. RowsArePermanent' /\ Carried'
  <2>1. CASE PipelineStep
    BY <2>1, PipelineCarries
  <2>2. CASE ~PipelineStep
    BY <2>2, NextLeavesPrs, UndisturbedCarries DEF CarryInv
  <2> QED
    BY <2>1, <2>2
<1> QED
  BY <1>1, <1>2 DEF CarryInv

LEMMA InitCarries == Init => CarryInv
<1> SUFFICES ASSUME Init PROVE CarryInv
  OBVIOUS
<1>1. DOMAIN prs = {} /\ DOMAIN runs = {} /\ lastRun = 0
  BY DEF Init
<1> QED
  BY <1>1, InitTracks DEF CarryInv, RowsArePermanent, Carried

(* A pull request that is open is seen by the open-PR check: its row has   *)
(* it and does not say that it is closed, or is unsettled.                 *)
LEMMA CarriedSuppresses ==
    ASSUME NothingIsLost, CarryInv
    PROVE  OpenPrSuppresses
<1> SUFFICES ASSUME NEW p \in DOMAIN prs, prs[p] = "open"
             PROVE  /\ tasks[p].run \in DOMAIN runs
                    /\ \/ runs[tasks[p].run].status \notin TerminalStatuses
                       \/ /\ runs[tasks[p].run].pr = p
                          /\ runs[tasks[p].run].prStatus \notin {"closed", "merged"}
  BY DEF OpenPrSuppresses
<1>1. /\ Phased /\ Carried /\ RecordIsReal
      /\ \A t \in DOMAIN tasks : tasks[t].run \in DOMAIN runs
      /\ p \in DOMAIN tasks
  BY TasksHaveRows DEF CarryInv, TrackInv, RowInv
<1>2. CASE runs[tasks[p].run].pr = p
  <2>1. Final = {"closed", "merged"}
    BY DEF NothingIsLost, Final
  <2> QED
    BY <1>1, <1>2, <2>1 DEF RecordIsReal
<1>3. CASE tasks[p].pc = "recordpr"
  BY <1>1, <1>3, PhaseIsUnsettled DEF Phased, Live, Ended
<1> QED
  BY <1>1, <1>2, <1>3 DEF Carried

(* While no answer, commit or row is lost, an open pull request keeps      *)
(* later firings of its alert out, even when the process dies between      *)
(* creating it on GitHub and recording it, whatever operators insert and   *)
(* however many webhook requests race.                                     *)
THEOREM OpenPrsSuppress ==
    OneDispatchAtATime /\ NothingIsLost /\ Spec => []OpenPrSuppresses
<1>1. CASE OneDispatchAtATime /\ NothingIsLost
  <2>1. CarryInv => OpenPrSuppresses
    BY <1>1, CarriedSuppresses
  <2> QED
    BY <1>1, <2>1, InitCarries, NextCarries, PTL DEF Spec
<1> QED
  BY <1>1

-----------------------------------------------------------------------------
(* One open pull request.                                                  *)

(* A task that has passed the open-PR check still finds no open pull       *)
(* request for its alert, until it opens its own.                          *)
ClearedIsFree ==
    \A t \in DOMAIN tasks : tasks[t].pc \in Cleared =>
        \A p \in DOMAIN prs :
            prs[p] = "open" => tasks[p].alert.key # tasks[t].alert.key

OnePrInv == CarryInv /\ OpenInv /\ ClearedIsFree /\ AtMostOneOpenPr

(* Two tasks at work have different alerts: their rows are unsettled.      *)
LEMMA WorkersDiffer ==
    ASSUME OnePrInv, NEW t \in DOMAIN tasks, NEW u \in DOMAIN tasks,
           Live(t), Live(u) \/ runs[tasks[u].run].status \notin TerminalStatuses,
           tasks[t].alert.key = tasks[u].alert.key
    PROVE  tasks[t].run = tasks[u].run
<1>1. /\ Phased /\ OwnAlert /\ OneOpenRunPerKey
      /\ \A v \in DOMAIN tasks : tasks[v].run \in DOMAIN runs
  BY TasksHaveRows DEF OnePrInv, CarryInv, TrackInv, RowInv, OpenInv
<1>2. /\ runs[tasks[t].run].status \notin TerminalStatuses
      /\ runs[tasks[u].run].status \notin TerminalStatuses
  BY <1>1, PhaseIsUnsettled DEF Phased
<1>3. runs[tasks[t].run].alert.key = runs[tasks[u].run].alert.key
  BY <1>1 DEF OwnAlert
<1> QED
  BY <1>1, <1>2, <1>3 DEF OneOpenRunPerKey

(* The open-PR check sees every open pull request of the alert: a run that *)
(* has not yet recorded its own would be a second one under way.           *)
LEMMA CheckSeesAll ==
    ASSUME NothingIsLost, OnePrInv, NEW t \in DOMAIN tasks, Live(t),
           tasks[t].pc \notin Opened,
           FindBlockingOpenPr(runs, tasks[t].alert.key, tasks[t].run) = {},
           NEW p \in DOMAIN prs, prs[p] = "open"
    PROVE  tasks[p].alert.key # tasks[t].alert.key
<1>1. /\ Alone /\ PrsAreOpened /\ OwnAlert
      /\ \A v \in DOMAIN tasks : tasks[v].run \in DOMAIN runs
      /\ p \in DOMAIN tasks /\ p # NoPr
  BY TasksHaveRows DEF OnePrInv, CarryInv, TrackInv, RowInv
<1>2. p # t
  BY <1>1 DEF PrsAreOpened
<1>3. tasks[p].run # tasks[t].run
  BY <1>1, <1>2 DEF Alone
<1>4. \/ runs[tasks[p].run].status \notin TerminalStatuses
      \/ /\ runs[tasks[p].run].pr = p
         /\ runs[tasks[p].run].prStatus \notin {"closed", "merged"}
  BY CarriedSuppresses DEF OnePrInv, OpenPrSuppresses
<1>5. CASE runs[tasks[p].run].status \notin TerminalStatuses
  BY <1>1, <1>3, <1>5, WorkersDiffer
<1>6. CASE /\ runs[tasks[p].run].pr = p
           /\ runs[tasks[p].run].prStatus \notin {"closed", "merged"}
  <2>1. tasks[p].run \in DOMAIN runs /\ runs[tasks[p].run].alert = tasks[p].alert
    BY <1>1 DEF OwnAlert
  <2> QED
    BY <1>1, <1>3, <1>6, <2>1 DEF FindBlockingOpenPr
<1> QED
  BY <1>4, <1>5, <1>6

(* A task's step keeps its alert free until it opens a pull request, which *)
(* is then the only one.                                                   *)
LEMMA PipelineOnePr ==
    ASSUME NothingIsLost, OnePrInv, PipelineStep
    PROVE  ClearedIsFree' /\ AtMostOneOpenPr'
<1>1. PICK t \in DOMAIN tasks : Advance(t) \/ Fail(t)
  BY DEF PipelineStep
<1>2. /\ TypeInv /\ Alone /\ PrsAreOpened /\ ClearedIsFree /\ AtMostOneOpenPr
      /\ DOMAIN prs \subseteq DOMAIN tasks
  BY DEF OnePrInv, CarryInv, TrackInv, RowInv, QueueInv, BreakerInv, TypeInv, TypeOK
<1>3. /\ PhaseStep(t)
      /\ DOMAIN tasks' = DOMAIN tasks
      /\ \A u \in DOMAIN tasks : /\ tasks'[u].alert = tasks[u].alert
                                 /\ u # t => tasks'[u] = tasks[u]
      /\ Live(t)
  BY <1>1, <1>2, PhaseStepTypes
<1>4. Cleared \cap Opened = {} /\ Cleared \cap Ended = {} /\ "opening" \in Cleared
  BY DEF Cleared, Opened, Recorded, Ended
<1>5. CASE prs' = prs
  <2>1. AtMostOneOpenPr'
    BY <1>2, <1>3, <1>5 DEF AtMostOneOpenPr
  <2>2. ASSUME NEW u \in DOMAIN tasks', tasks'[u].pc \in Cleared,
               NEW p \in DOMAIN prs', prs'[p] = "open"
        PROVE  tasks'[p].alert.key # tasks'[u].alert.key
    <3>1. CASE tasks[u].pc \in Cleared
      BY <1>2, <1>3, <1>5, <2>2, <3>1 DEF ClearedIsFree
    <3>2. CASE tasks[u].pc \notin Cleared
      <4>1. u = t /\ tasks[t].pc \notin Opened
        BY <1>3, <1>4, <2>2, <3>2 DEF PhaseStep, LabelStep
      <4>2. FindBlockingOpenPr(runs, tasks[t].alert.key, tasks[t].run) = {}
        BY <1>3, <2>2, <3>2, <4>1 DEF PhaseStep, LabelStep
      <4>3. tasks[p].alert.key # tasks[t].alert.key
        BY <1>3, <1>5, <2>2, <4>1, <4>2, CheckSeesAll
      <4> QED
        BY <1>2, <1>3, <1>5, <2>2, <4>1, <4>3
    <3> QED
      BY <3>1, <3>2
  <2> QED
    BY <2>1, <2>2 DEF ClearedIsFree
<1>6. CASE /\ tasks[t].pc = "opening" /\ prs' = Put(prs, t, "open")
           /\ tasks'[t].pc = "recordpr"
  <2>1. /\ DOMAIN prs' = DOMAIN prs \cup {t}
        /\ \A p \in DOMAIN prs : p # t => prs'[p] = prs[p]
        /\ t \notin DOMAIN prs
    BY <1>2, <1>4, <1>6 DEF Put, PrsAreOpened
  <2>2. \A p \in DOMAIN prs :
           prs[p] = "open" => tasks[p].alert.key # tasks[t].alert.key
    BY <1>2, <1>4, <1>6 DEF ClearedIsFree
  <2>3. AtMostOneOpenPr'
    BY <1>2, <1>3, <2>1, <2>2 DEF AtMostOneOpenPr
  <2>4. ASSUME NEW u \in DOMAIN tasks', tasks'[u].pc \in Cleared,
               NEW p \in DOMAIN prs', prs'[p] = "open"
        PROVE  tasks'[p].alert.key # tasks'[u].alert.key
    <3>1. u # t /\ tasks'[u] = tasks[u]
      BY <1>3, <1>4, <1>6, <2>4 DEF Opened
    <3>2. CASE p \in DOMAIN prs
      BY <1>2, <1>3, <2>1, <2>4, <3>1, <3>2 DEF ClearedIsFree
    <3>3. CASE p = t
      <4>1. Live(u)
        BY <1>4, <2>4, <3>1 DEF Live
      <4>2. tasks[u].run # tasks[t].run
        BY <1>2, <1>3, <2>4, <3>1, <4>1 DEF Alone
      <4>3. tasks[t].alert.key # tasks[u].alert.key
        BY <1>3, <2>4, <4>1, <4>2, WorkersDiffer
      <4> QED
        BY <1>3, <3>1, <3>3, <4>3
    <3> QED
      BY <2>1, <2>4, <3>2, <3>3
  <2> QED
    BY <2>3, <2>4 DEF ClearedIsFree
<1> QED
  BY <1>3, <1>5, <1>6 DEF PhaseStep, OpenStep, NothingIsLost

LEMMA UndisturbedOnePr ==
    ASSUME OnePrInv, PrsUndisturbed
    PROVE  ClearedIsFree' /\ AtMostOneOpenPr'
<1>1. /\ ClearedIsFree /\ AtMostOneOpenPr
      /\ DOMAIN prs' = DOMAIN prs
      /\ \A p \in DOMAIN prs : /\ prs'[p] = "open" => prs[p] = "open"
                               /\ tasks'[p].alert = tasks[p].alert
      /\ \A t \in DOMAIN tasks' : tasks'[t].pc \in Cleared =>
            /\ t \in DOMAIN tasks
            /\ tasks'[t].pc = tasks[t].pc /\ tasks'[t].alert = tasks[t].alert
  BY DEF OnePrInv, PrsUndisturbed
<1>2. ClearedIsFree'
  BY <1>1 DEF ClearedIsFree
<1>3. AtMostOneOpenPr'
  BY <1>1 DEF AtMostOneOpenPr
<1> QED
  BY <1>2, <1>3

LEMMA NextOnePr ==
    EveryRunIsChecked /\ NothingIsLost /\ OnePrInv /\ [Next]_vars => OnePrInv'
<1> SUFFICES ASSUME EveryRunIsChecked, NothingIsLost, OnePrInv, [Next]_vars
             PROVE  OnePrInv'
  OBVIOUS
<1>1. CarryInv' /\ OpenInv'
  BY NextCarries, NextOpen DEF OnePrInv, EveryRunIsChecked
<1>2. ClearedIsFree' /\ AtMostOneOpenPr'
  <2>1. CASE PipelineStep
    BY <2>1, PipelineOnePr
  <2>2. CASE ~PipelineStep
    BY <2>2, NextLeavesPrs, UndisturbedOnePr DEF OnePrInv, CarryInv
  <2> QED
    BY <2>1, <2>2
<1> QED
  BY <1>1, <1>2 DEF OnePrInv

LEMMA InitOnePr == Init => OnePrInv
<1> SUFFICES ASSUME Init PROVE OnePrInv
  OBVIOUS
<1>1. DOMAIN prs = {}
  BY DEF Init
<1> QED
  BY <1>1, InitCarries, InitOpen DEF OnePrInv, ClearedIsFree, AtMostOneOpenPr

(* When every run is checked and nothing is lost, at most one pull request *)
(* per alert is open on GitHub, through crashes at any point: the window   *)
(* between the open-PR check and the opening, minutes of calls to the      *)
(* models, is closed by the duplicate check of the webhook.                *)
THEOREM OneOpenPr ==
    EveryRunIsChecked /\ NothingIsLost /\ Spec => []AtMostOneOpenPr
<1>1. OnePrInv => AtMostOneOpenPr
  BY DEF OnePrInv
<1>2. CASE EveryRunIsChecked /\ NothingIsLost
  BY <1>1, <1>2, InitOnePr, NextOnePr, PTL DEF Spec
<1> QED
  BY <1>2
=============================================================================
