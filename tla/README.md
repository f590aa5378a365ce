# LLopster: a formal model of the alert agent

LLopster receives alerts from AlertManager, runs a pipeline of language models on
each of them, and opens a pull request with a proposed fix. This directory holds
TLA+ specifications of it, TLC configurations that model-check them on small
instances, and TLAPS proofs of theorems that hold for every instance. Paths below are relative to the repository (`src/...` is the Python
package).

## 1. The system

One agent process runs an asyncio event loop. In it, interleaved at every `await`:
HTTP handlers (the webhook, the operator's trigger and dispatch), one background
task per run (`process_alert`), the pull-request poller, the run pruner and a
heartbeat. A second process, the dashboard, reads the same database, writes the
settings and forwards operators' requests to the agent; an evaluation job connects
to the database now and then. There are no locks: everything is coordinated through
the rows of the run table, the settings and the recorded version of the schema.

| Component | State | Operations | Interacts with | What makes it correct |
|---|---|---|---|---|
| Run store (`db/models.py`, `db/repository.py`) | the `runs` rows | insert, status and result writes, pruning, queries | everyone | a write touches one row and is a no-op once the row is gone |
| Deduplication (`agent/dedup.py`) | none | four queries over the rows of a key | webhook, pipeline | one open run per alert, one open PR per alert |
| Pipeline (`agent/processor.py`) | one task per run, in memory | filter, breaker, suppression, triage, context, investigation, synthesis, PR, notification | run store, settings, models, GitHub | every run ends in a terminal status or in the queue; never more than one PR |
| Cost breaker (`agent/cost_breaker.py`) | two ceilings in the settings | count runs of the hour, sum spend of the day, trip | run store, mode | racing runs do not pass the ceiling together |
| Processing mode (`agent/processing_mode.py`) | one setting | read per webhook request, write by breaker and operator | webhook, pipeline, dashboard | one mode per batch |
| Webhook (`api/main.py`) | the rest of the batch | duplicate check, insert, park or start a task | run store, pipeline | no duplicate rows |
| Trigger and dispatch (`api/trigger_routes.py`, `dashboard/web_routes.py`) | the row read | replay, synthesize, dispatch a queued row in place | run store, pipeline | a queued row has nobody at work on it |
| PR poller (`agent/pr_poller.py`) | the rows listed | list, ask GitHub, write | run store, GitHub | every end of a PR is recorded, none is invented |
| Run pruner (`agent/run_pruner.py`) | none | delete by age | run store | - |
| GitHub client (`integrations/github_client.py`) | branches and PRs on GitHub | parse and apply a diff, gates, branch, commits, PR | pipeline, GitHub | fails closed; the PR is the verified change, whole |
| Filter and alert parsing (`agent/alert_filter.py`, `agent/alert_handler.py`) | none | pure | webhook, pipeline | cheap rejections come first; a label means the alert's object, not the scrape target |
| Triage (`agent/triage.py`) | none | prompt, read the answer | pipeline | only a sure "skip" drops an alert |
| Investigation, synthesis (`agent/investigator.py`, `agent/patch_generator.py`) | none | list affected files, narrow the code shown, fall back, read the confidence | pipeline, services registry, licenses | never synthesis without code; prompt, code shown and gate agree |
| Services registry (`services_registry.py`) | none | read `services.yaml` | pipeline | a malformed block costs only itself |
| Evidence (`agent/context_collector.py`, `agent/cluster_state.py`, `agent/gitops.py`, `integrations/kubernetes_client.py`, `flux_client.py`) | a cache of API versions, shared by all tasks | queries to Loki, Prometheus, Kubernetes, Flux | pipeline | in scope, bounded, redacted; what is missing is said to be missing |
| License and packs (`agent/license.py`, `entitlements.py`, `packs.py`, `prompts.py`, `api/license_api.py`) | the key in force, in the agent's memory | verify at every question, refresh at start and at every status request, resolve an overlay | settings, models' prompts | a lapsed key grants nothing; a saved key comes into force |
| Inbound authentication (`api/auth.py`, `dashboard/trigger_routes.py`) | none | read the secret, compare, forward | settings, agent's API | dashboard and agent agree on the secret |
| Database engine (`db/engine.py`, `alembic/`) | the schema and its version | create, stamp, upgrade at start | agent, dashboard, evaluation | the version never promises what is not there |
| Dashboard (`dashboard/`) | pages in browsers | settings form, license and token forms, proxy | run store, settings, agent | a form does not undo the breaker for good |
| Providers of models (`agent/llm_provider.py`), metrics, notifications, evaluation, scripts | none that others read | - | - | - |

What is hard here: the check and the insert of the webhook are separate
transactions; a task's decisions rest on rows read earlier; the process may die
between an effect on GitHub and its record; nothing resumes a row; status values
are compared against lists kept in four files; SQL's NULL; the boundary of the
ceilings; files and clusters that change between the requests about them; one
answer of a model that has to mean the same to three places; processes of several
releases on one schema. `PROJECT.json` lists every such hazard at its line.

## 2. Modules

| Module | Models |
|---|---|
| `RunStore` | the run table as a function from ids to rows, each write as a function on tables, each query as the set of the rows that it selects |
| `Pipeline` | `process_alert` as a set of tasks with a program counter: one action per transaction or outside call, and the exceptions of each |
| `Agent` | webhook, dispatch, operator's trigger, mode switch, poller, pruner, GitHub's users, clock, crash; composes them with the tasks; `Init`, `Next`, `Spec`, fairness |
| `RunLifecycle` | abstract specification: what the run table promises with no pipeline in sight |
| `AgentProperties` | invariants, liveness properties, the refinement mapping to `RunLifecycle` |
| `MCAgent` | the module of every TLC run: symmetry; the `.cfg` files give the constants |
| `AgentProofs`, `QueueProofs` | proofs of the types and of the breaker's property; of the queue's |
| `TrackingProofs`, `SuppressionProofs` | proofs of what is on record about pull requests; of the duplicate check and the lifecycle |
| `Subsequence` | the elements of a sequence at a set of places: `SelectSeq` in a form that can be proved about |
| `Patch` | reading a unified diff, locating and applying its hunks: pure operators |
| `Services` | what each block of `services.yaml` becomes, malformed ones included |
| `Synthesis` | affected files, the code shown, the fallback ladder, the path gates |
| `PullRequest` | from investigation to `open_pr`, request by request, several attempts at once; composes the three above with GitHub |
| `PrDelivery` | abstract specification: a pull request is opened in one step, or not |
| `DeliveryProperties`, `MCDelivery` | properties and refinement mapping; the instances |
| `DeliveryProofs` | proofs about `open_pr`, of that refinement, and of what the parser, the locator and the splice compute |
| `Redaction` | which parts of a pod's spec are kept |
| `Kubernetes` | labels, owners, health, events: the pure half of the evidence |
| `Evidence` | pre-filter, triage and the collector, request by request, several collections at once with one cache; the cluster changes meanwhile |
| `EvidenceProperties`, `MCEvidence` | properties; the clusters and alerts |
| `EvidenceProofs` | proofs about grants, events, the version cache, the number of requests, whose delivery and which pods are shown, what of a spec, and that nothing is left out in silence |
| `Schema` | `init_schema` of any number of processes, with crashes and releases |
| `Console` | settings, license, secret, proxy, breaker's trip, on top of `Schema` |
| `ConsoleProperties`, `MCConsole` | properties; the instances |
| `SchemaProofs`, `ConsoleProofs` | proofs about the schema; about the console on it |

There are four compositions: `Agent` (the runs and who touches them),
`PullRequest` and `Evidence` (what a task does inside of two of `Pipeline`'s
steps), and `Console` (the two processes and their settings). They meet in
`Pipeline`, where `open_pr` and the collection are single steps: `PrDelivery`, which
`PullRequest` implements, says that the first may be taken for one.

### The agent's runs

State and code. `runs` is the table; a pull request is named by the task that
opened it, and `prs` is its state on GitHub. `tasks` is the sequence of the
background tasks ever created, `tasks[t].pc` what task `t` does next. A label is
the name of a transaction or call still to come, so every interleaving of the
event loop at an `await` is a behaviour. `gate` records whether a task is subject
to the breaker, passed it, or got past because the breaker raised. `handlers` are
the webhook requests, each with the mode that it read and the alerts it still has
to handle; `dispatchers` are the dispatch requests between their read and their
reset; `poller` holds the rows still to visit and the answer not yet written.

Errors. `Faults` says which kinds of failure an instance has. With `"database"`
any transaction may raise, and the step goes where the code's `except` sends it:
to the failure write, to the skip record inside the `try` of `open_pr`, past the
breaker, or nowhere when the failure write itself fails. With `"outage"` the
collector, the synthesis model or GitHub's status query raise. With `"reply"`
GitHub creates the pull request and the answer is lost. With `"crash"` the process
dies at any point and starts again; the database and GitHub keep their state.

Mutants. Operators named after a definition (`ParkWithoutReturn`,
`FindTrackedOpenPr`, ...) and marked "Mutant of" are faulty variants of it: the
property named with each in `PROJECT.json` fails when the variant takes its place,
which shows that the property tells the code from a plausible mistake.

### From a diagnosis to a pull request

A world of `PullRequest` is a `services.yaml`, a clone, the default branch, what
others push to it and what the models may answer. `attempts[a]` is one run from its
investigation on: the diff it proposed, the tree that `get_default_branch`
returned, the files got so far with their new lines, the files that the present
loop has left, its branch. `main`, `branches` and `pulls` are GitHub's. Each request
of `open_pr` is an action; `RequestFails` is a request that is refused, `LosesReply`
one that took effect without an answer, `Rejected` GitHub's refusal of a branch that
exists or of a file whose sha is not the one read, `Crash` the end of the process.
A proposal carries, besides its diff, the edits that the model had in mind, which
only the properties look at. `Ruled` says which lines of a file, behind which mark,
read as a header of the diff: `-- b` removed is `--- b`, and the parser looks for headers first
(`AsRead`).

### Evidence

A world of `Evidence` is a configuration, a cluster with what it may turn into, and
the alerts that are being collected for. `collections[c]` holds what the prompts
will see (`pods`, `events`, `claims`, `nodes`, `flux`, `notes`, `errors`), where the
collection has got to, and three counters for the properties. `cached` is the
version cache of the one `ClusterStateCollector` that all tasks share. `Request` is
the shape of every request: it is answered, it fails, or its answer is no JSON,
which the collector's handlers do not expect, so that the whole section is lost.
`Redaction` is a recursive operator on trees, which the proof system cannot use. So
what redaction leaves of a pod's spec, and what the spec holds, reach the other
modules as the constants `SpecShows` and `SpecHolds`, and the instance gives
them their values from `Redaction` (`KeptOfSpecs`, `AllOfSpecs`).

### Settings and start-up

In `Schema` a revision is what it adds, `columns` is what is there, `version` what
`alembic_version` says. A process looks, and changes what it has seen in a later
transaction. `Console` adds the settings, which are written one by one, each read
and then inserted or updated; pages that operators opened some time ago (`tabs`);
the license key in the agent's memory (`override`) and the requests that refresh it
(`fetches`); the pipeline of an alert that fires again and again (`task`); requests
that the dashboard forwards. What a crash or a release loses is `Lost`.

### Abstractions

- A database call that raises has committed nothing. Reading a row and committing
  a change to it (`session.get` and `commit` of one repository function) is one
  step: each function writes only its own columns. Inserting a row and creating
  its task are one step, since no other transaction can see the difference
  (the refresh between them only reads).
- Settings read at the start of `process_alert`, and the models' answers, appear
  as a choice in the branch that they decide. Retention, backoff, grace and the
  ceilings are constants of an instance.
- An alert is its dedup key and whether the pre-filter lets it through.
- A run that reached synthesis costs one unit of money.
- Times are ticks of one clock. Windows are in ticks.
- `find_previous_merged_attempt` returns the latest merge and the caller compares
  its time with the grace: some merge is within the grace exactly when the latest
  is, so the query is the set of the merges within the grace.
- `BackfillPrStatus` sets a NULL `pr_status` to `open`. No code does; it stands for
  an administrator, and makes the poller's and the grace window's branches, which
  the third finding below shows to be unreachable without it, part of the checks.
- A file is a sequence of lines, a blob's sha is its content, a line of a diff its
  mark and the rest. A broken file is one with a broken line in it. A model's score
  is a whole one of five, a bare digit, or missing.
- In `Evidence` triage follows the pre-filter at once; breaker and suppression, which
  come between them, are in `Pipeline`. Loki and Prometheus answer or fail.
- All kinds of Flux have one API group, and discovery answers for it. Events have a
  time and an object. A label on an alert is a legal name of an object or not.
- Of a pod's spec the model has the fields that redaction distinguishes.
- Transactions of the schema are those of PostgreSQL, which include DDL. Releases go
  forward only, reach processes once the database has a version, and a new database
  is started by one release.
- Agent and dashboard have one token in their environment (the chart's secret). The
  settings form stands as the mode and one ceiling: its other fields are clamped and
  written like the ceiling. SQLAlchemy sends no UPDATE for a value that is as it was
  read, and two first INSERTs of one key conflict. With a positive ceiling the alert
  of the model trips the breaker at its next firing; whether the ceiling is reached
  is the concern of `Pipeline`.
- A request whose token could not be read from the settings uses the environment's;
  `ProxyIsLetIn` excuses it.

## 3. What is checked

The runs of the runs' part use `MCAgent`; "one request at a time" means one element
of `Handlers`. The others have a module of their own, in which a *world* is an
initial situation, all of them checked in one run.

| Run | Instance | Properties |
|---|---|---|
| `queue` | 1 request, 2 dispatches, operator's trigger and mode switch, breaker, database errors, crashes; no GitHub | `QueuedIsIdle`, `OneQueuedPerKey` |
| `serial` | 1 request with batches of 2, 1 dispatch, crashes, outages, mode switch, backfill; triage and investigation off | `AtMostOneOpenPr`, `OpenPrSuppresses`, `ImplementsLifecycle` |
| `tracking` | everything on, all faults, reopening of pull requests, spend ceiling | `TypeOK`, `RecordedMergeIsReal` |
| `breaker` | 2 keys, 3 runs against a ceiling of 2 per hour, crashes, pruner, clock | `SpendersWithinCeiling` |
| `progress` | no faults, fairness | `EveryRunSettles`, `TrackedPrIsRecorded` |
| `two_webhooks` | 2 requests at once | `OneOpenRunPerKey` is violated |
| `phases` | 1 request at a time, triage and investigation on | `OneOpenRunPerKey` is violated |
| `null_status` | fairness, nobody backfills | `ClosedPrIsRecorded` is violated |
| `delivery` | 50 worlds: every edit of seven small files against six fates of the file; a repository with a chart under seven deliveries; two attempts at once; requests that fail, lost answers, crashes, pushes | `DeliveryTypeOK`, `IntendedResult`, `HallucinationRefused`, `WrittenIsVerified`, `PrCarriesThePatch`, `BranchesAreExclusive`, `OnlyAgreedFilesChange`, `DeclaredBumpIsDeliverable`, `NeverBlind`, `ImplementsDelivery` |
| `odd_diff` | two diffs whose sections the parser does not keep apart | `HallucinationRefused` is violated |
| `evidence` | 194 worlds: 21 alerts under five configurations and suspensions, a pod that is replaced, two collections at once, upgrades of Flux, triage; one failing request | `EvidenceTypeOK`, `ReadsAreGranted`, `HeldDeliveryStopsTheRun`, `SilenceIsComplete`, `TheSickPodIsShown`, `OwnAlertOnly`, `StaleNoLongerThanTtl`, `EventsBelong`, `SecretsStayOut`, `RoundTripsAreBounded` |
| `console` | a start of three processes on every database; forms against the breaker; license; packs; secret; one crash, fairness | `ConsoleTypeOK`, `VersionIsTrue`, `UpMeansMigrated`, `LapsedKeyIsNotUsed`, `ProxyIsLetIn`, `EveryPodServes`, `TripHolds`, `LicenseIsApplied` |

- `QueuedIsIdle`: a queued row has no live task on it, so that dispatching it in
  place starts the only pipeline. It takes a breaker trip, a park and two dispatch
  requests to break it.
- `OneQueuedPerKey`: the queue holds no alert twice, given that requests come one
  at a time.
- `AtMostOneOpenPr` and `OpenPrSuppresses`: the effect on GitHub and its record on
  the row are separate steps with crashes between them; a second pull request of
  the same alert is kept out by the row's record, or by the row's unsettled status.
- `ImplementsLifecycle`: statuses only move along the phases, terminal rows never
  change, and a row of an alert is admitted only when every other row of the alert
  is settled: TLC checks `RunLifecycle!Spec` under the mapping of
  `AgentProperties`. Its conditions are those under which the duplicate check is
  sound: one request, one dispatch, no phase missing from the list of statuses.
- `RecordedMergeIsReal`: what the poller wrote is true of GitHub, with people
  reopening pull requests and the poller interrupted between asking and writing.
- `SpendersWithinCeiling`: tasks that count rows concurrently with inserts never
  pass the ceiling together, because each row is inserted before it is counted.
- `EveryRunSettles`, `TrackedPrIsRecorded`: progress.
- `IntendedResult`, `HallucinationRefused`: the search for the place of a hunk,
  against two reference definitions: the edit itself when the file is as the model saw
  it, and otherwise the set of all texts in which the old lines were replaced
  somewhere. A hunk with no home is refused, and no other edit of the file goes on.
- `WrittenIsVerified`, `PrCarriesThePatch`, `BranchesAreExclusive`: files are read
  later than the base commit of the branch and by the name of a branch that moves on;
  two alerts of one name have one branch name in one second. What GitHub refuses (a
  stale sha, a branch that exists) is what keeps these true.
- `ImplementsDelivery`: TLC checks `PrDelivery!Spec` under the mapping of
  `DeliveryProperties`: for `Pipeline` the requests of `open_pr` are one step, also
  when they fail on the way, lose their answers or die. An errored attempt may have a
  pull request, a refused one never.
- `OnlyAgreedFilesChange`, `DeclaredBumpIsDeliverable`, `NeverBlind`: the
  investigation's list, the code that synthesis shows, what the prompt asks for and
  the gates are computed in four places and agree, however paths are spelled and
  whatever files are unreadable.
- `ReadsAreGranted`: references of owners, labels and sources lead out of the
  namespaces of the agent, reads do not.
- `HeldDeliveryStopsTheRun`: from the cluster alone: an object of Flux whose labels
  some object behind the alert carries, or a source in its chain, is suspended. The
  condition excludes failed requests, owners that could not be read and chains that
  leave the scope.
- `SilenceIsComplete`: no note and no error means that all of it is there. It is stated
  for sources with no more events than are asked for: the API's limit leaves further
  ones out without a note.
- `TheSickPodIsShown`, `OwnAlertOnly`, `EventsBelong`, `SecretsStayOut`,
  `RoundTripsAreBounded`: caps, sharing, names in common, redaction (which must also
  keep what is not secret) and cycles of owners.
- `StaleNoLongerThanTtl`: a discovery that was asked for before an upgrade may be
  stored after it; the answer is used for the lifetime of the cache at the most.
- `VersionIsTrue`, `UpMeansMigrated`, `EveryPodServes`: processes of two releases look
  at a new, a legacy or a versioned database and change it later, with a crash
  anywhere. Nothing is recorded that is not there, and in the end all serve.
- `TripHolds`: a form that was loaded before the trip writes the old mode back. While
  a ceiling stands and the alert goes on firing, the breaker wins in the end, because
  saved forms are finite and an alert that gets through trips it again.
- `LicenseIsApplied`: status requests overtake each other and may apply an old key,
  but as long as they are made the stored key comes into force and stays.
  `LapsedKeyIsNotUsed`: no prompt has an overlay of a license whose time was over or
  which nobody ever gave.
- `ProxyIsLetIn`: a forwarded request is refused only when the secret changed on its
  way or could not be read.

### Findings

1. `two_webhooks`: the duplicate check and the insert are separate transactions
   (`src/api/main.py:403`, `:421`), so two concurrent deliveries of one alert make
   two rows, which `src/agent/dedup.py:63` says the check prevents.
2. `phases`: `_OPEN_STATUSES` (`src/agent/dedup.py:52`) omits `triaging` and
   `investigating`, so a firing in one of those phases gets a second row and a second pipeline,
   although `src/api/main.py:396` counts any in-flight run as open.
3. `null_status`: `list_open_prs` (`src/db/repository.py:563`) uses `NOT IN` on a
   column that is NULL until the poller itself writes it, so the poller visits no
   pull request of the agent's; `src/agent/dedup.py:86` says that it backfills NULL
   on the next tick.
4. `odd_diff`: `_parse_file_patches` (`src/integrations/github_client.py:220`) lets a
   second section for one file replace the hunks of the first, and reads a removed
   line that begins with `-- ` as the header of a section, which drops the rest of
   its hunk. Hunks that are lost are not verified, and the rest is applied, although
   `src/integrations/github_client.py:444` says that a mismatch of any hunk aborts
   the pull request.

### Bounds

`MaxRuns`, `MaxTasks` and `MaxTime` bound the rows, the tasks and the clock. The
pull-request and duplicate properties relate two rows of one key, so two rows of
one key are the smallest case; a third task allows a parked row to be dispatched
after two others. Windows of 0 to 2 ticks with 2 to 3 ticks of clock let every
window be both open and over. The ceiling of 2 with 3 rows lets one row trip.
`CHECK_DEADLOCK` is left on: an idle agent can always receive a request.

`delivery` (139,093 states): the files are the seven words of up to three lines over
two letters that begin with `a`, since a hunk's place depends on equality of lines
only, and three lines of two letters already have ambiguous, repeated and missing
places. An edit replaces up to two neighbouring lines or inserts, with or without
context, or has two hunks; the file is unchanged, shifted by one or two lines, changed
where the hunk is, doubled, or shortened. Two seconds of clock make branch names
collide and differ. `evidence` (477,700 states): two pods shown of three, two events
and two sources of several, owners four deep in a cluster with a cycle, two hops to a
source: every cap is both reached and not. One failing request per behaviour shows
each failure alone. `console` (184,383 states): two revisions, of which one brings a
table of its own, three processes and one crash; two tabs, two saved forms.
`CHECK_DEADLOCK` is off in these, as a finite number of attempts, collections and
forms is done at some time.

Every action of the modules is taken in some run.

### Fairness

`FairSpec` assumes weak fairness of each task's next step that is not a failure,
of each webhook and dispatch request's next step, and of the poller. The event
loop runs every ready coroutine; the models, Loki, Prometheus and GitHub are called
with client timeouts, so a call ends in an answer or in an exception; the poller
sleeps a minute and starts again. Nothing is assumed of people, of incoming
alerts, of the clock or of the pruner.

`Console` assumes weak fairness of the start of the agent and the dashboard
(Kubernetes restarts a pod that died) and of the release that reaches them, of the
steps of a form being saved and of a status request once they are under way, of the
agent's reading of its license key after its start, and of the one alert: AlertManager
repeats what nobody resolves. Nothing is assumed of operators: `LicenseIsApplied`
has the repeated status requests as its hypothesis, and `TripHolds` the ceiling that
stays. `PullRequest` and `Evidence` state safety only.

## 4. What is proved

All of this is checked by TLAPS, for every value of the constants. An invariant that
a proof needs was first checked by TLC on the run's instance.

### The agent's runs

`AgentProofs`, `QueueProofs`, `TrackingProofs` and `SuppressionProofs`, under the
assumptions named in the modules (`WindowsAssumption`, `CeilingsAssumption`,
`BoundsAssumption`: the windows, ceilings and bounds are natural numbers).

- `TypeCorrectness`: `TypeOK` and `References` are invariant. `References` is the
  strengthening that makes `TypeOK` inductive: a request that is checking or
  creating has an alert at hand, and every pull request that a row, a task about
  to record it or the poller's list names has been created, so that asking GitHub
  for its state is defined.
- `BreakerCeiling`: `SpendersWithinCeiling` is invariant. The inductive invariant
  adds `Allocated`: tasks and dispatch requests work on ids already given, so a
  fresh row is not one that some task passed the breaker for. Two lemmas carry the
  proof: the step in which a task passes keeps the ceiling, because what was let
  through is a subset of the rows that the task just counted (`PassingKeeps`), and every
  other step lets nothing new through, because time only grows, rows keep their
  creation time and ids are not given twice (`NoneLetThroughKeeps`).

The proof of the steps of a task goes through one lemma per shape of step
(`GotoMoves`, `GateMoves`, `PatchMoves`), one per write of the run table, and
`AdvanceSteps` and `FailSteps`, which say what any step of `process_alert` may
change: its own task, its own row, GitHub's record of its own pull request.

- `QueuedRunsAreIdle`: `QueuedIsIdle` is invariant. It is not inductive: a task
  about to park its row must not share it with another live task, or the park
  queues a row that someone works on. `SoleParker` adds that: a task that may still
  park its row, or a webhook request that is about to, is the only task, dispatch
  and request on it, and the row is still pending. A dispatch, which starts a task
  on an old row, takes its row from the queue, and no pending row is there; the
  task that it starts is exempt from the breaker and never parks.
- `OneQueuedRunPerKey`: with one webhook request at a time (`OneRequestAtATime`),
  `OneQueuedPerKey` is invariant. The strengthening `OneParkablePerKey` is about
  the rows in the queue and the rows that may still be put there (`Parkable`): no
  alert has two, and an alert whose duplicate check found nothing has none until
  its row is inserted. By `SoleParker` such a row is queued or pending, which are
  both statuses of the duplicate check's list (`ParkableIsOpen`): that the list
  omits two other phases does not matter here. All other steps bring no row
  nearer to the queue (`Bystander`, `NoneParkable`). The hypothesis is needed:
  without it the first finding puts one alert into the queue twice.

- `MergesOnRecordAreReal`: with one dispatch request at a time
  (`OneDispatchAtATime`), `RecordedMergeIsReal` is invariant. Its difficulty is the time
  between an observation and its write: the poller asks GitHub, and while it waits the
  pull request may be reopened, the row pruned or the task that works on the row may
  record its own pull request. `TrackInv` says that each row has at most one live task
  (`Alone`), that a task names the pull request that it opened itself (`OwnAlert`,
  `PrsAreOpened`), that a row whose task has yet to record its pull request has none on
  record (`Unrecorded`), that a final status on a row is that of GitHub, which is final
  there as well (`RecordIsReal`), and that what the poller holds in its hand is still so
  (`PollerIsCurrent`). Two dispatches of one row at a time would start two tasks
  on one row, and `Alone` is what fails.
- `OneRunAtATime`: where every run is checked (`EveryRunIsChecked`: one request and one
  dispatch at a time, no manual trigger, the two phases off that the list of open
  statuses omits), no alert has two open rows. The findings `two_webhooks` and `phases`
  violate this without the first and the third of these conditions; the theorem says
  that nothing else does. `OpenInv` adds that a row that is open is on the list
  (`AllListed`), and that an alert whose check found nothing stays free until
  its row is inserted (`CheckedKeyIsFree`).
- `TableIsALifecycle`: under the same conditions every step of `Agent` is a step
  of `RunLifecycle` under the mapping of `AgentProperties`, or leaves the table alone. One
  lemma per kind of change: a write of a row moves it along the phases (`WriteMoves`), the pruner
  forgets (`KeepingForgets`), an insertion admits a free key (`InsertionAdmits`).
- `OpenPrsSuppress` and `OneOpenPr`: where nothing is lost (`NothingIsLost`: GitHub's
  answers and the database's writes arrive, nobody reopens a pull request, rows are
  kept), an open pull request suppresses its alert, and, where every run is checked as
  well, no alert has two. Crashes are among the steps: after one, a pull
  request that is not on record yet belongs to a row whose status is still open, and
  `Carried` says just that of every open pull request: its row is there, and has it on
  record or is open. `ClearedIsFree` says that a task which the suppression let pass
  has no open pull request of its alert to fear until it opens its own.

### From a diagnosis to a pull request

`DeliveryProofs`, under `DeliveryBounds` (a world's runs are attempts, the bounds are
positive numbers, since there is a first second), `WorldsAreTyped` (texts are sequences of lines, paths of
a clone are normalized, as a walk over directories gives them, a diff is a sequence of
marked lines) and `RuledAreHeaders`. `NextMoves` reduces the actions, the failing and answerless ones included, to
six moves of one attempt and the passing of time, `Undisturbed` says what a move leaves
to the other attempts, and each invariant is then shown for each move.

- `OneWriterPerBranch`: `BranchesAreExclusive`. An attempt takes up a branch only by
  creating it, which GitHub refuses for a name that is taken.
- `VerifiedBeforeWritten`: `WrittenIsVerified`. `InOrder` says how the stages follow each
  other and that the files got are those that are not left.
- `NothingButThePatch`: a path that a pull request changes is the normalized path of
  a file of its patch, and all files of that patch passed the gates.
- `PullRequestIsThePatch`: `PrCarriesThePatch`, for patches that spell every path in one
  way (`OneSpelling`). Files are read at their own time, from a branch that moves on;
  what saves the content is that GitHub compares the file read with the one on the
  branch, whose base was taken earlier (`OnBase`, `Carries`). The hypothesis is needed: of a
  patch with `values.yaml` and `./values.yaml` the second could be read after
  somebody pushed just what the first one makes of the file. It would then be accepted
  on top of the first, and the pull request would not be the patch applied to its base.
- `OpeningIsOneStep`: `ImplementsDelivery`. The creation of the pull request is the
  step of `PrDelivery`, an error or refusal before it is `GiveUp`, a crash is `Crash`, and all
  else leaves outcomes and offered trees as they are, by `BranchesAreExclusive`.
- `SynthesisSees`: `NeverBlind`, from the definitions, for every clone and service.
- `DeliveryIsTyped`: `DeliveryTypeOK`. `TypedInv` follows the text of a file from the
  branch through the hunks to the commit: what `ParseFilePatches` returns of any diff
  are hunks (`PatchesType`), what `ApplyPatch` returns of any text and hunks is a
  text (`PatchType`).
- `OnlyAgreedFiles`: `OnlyAgreedFilesChange`. The list of allowed paths is built from the
  affected files, which are in the clone (`AffectedAreValid`), and a path is normalized
  when it is compared and again when it is written: `NormalizedTwice` says that the
  second changes nothing.
- `BumpIsDeliverable`: `DeclaredBumpIsDeliverable`. What the prompt asks for, computed by
  one function, is on the list that another computes; they agree because the file
  that a service names is normalized by both.
- `HallucinationsAreRefused` and `EditsAreMeant`: `HallucinationRefused` and
  `IntendedResult`, for every file, every number of hunks and every diff that says what it
  means. The hypothesis is `AllMeanTheirEdits`: read back, a diff is the hunks of its edits, and an
  edit has its hunks in the order of the file, each with its old lines where it says.
  TLC evaluates it on the worlds of `delivery`, which all satisfy it
  (`WorldsMeanTheirEdits`), and it is needed: the diffs of `odd_diff` do not satisfy it
  (`OddWorldsDoNot`), and violate the first property.
  The argument: `_locate_hunk` returns a place only where the old lines are, behind the hunk
  before (`LocateFits`), and returns one whenever there is one (`FitsIsLocated`).
  If one hunk is nowhere to be found, no later hunk makes up for it (`MisfitRefused`);
  if the file is the one that the diff was made for, the place found is the stated one, as it is
  the nearest to itself (`NearestIsOne`, `InPlace`). `_apply_patch` splices from the
  first hunk to the last, while `IntendedResult` exchanges from the last to the first, so
  that no hunk moves another's lines; `EditApplies` shows that these are the same text.

What a recursive function computes is proved by a least counterexample instead of the
library's induction, whose theorem takes an operator and cannot be instantiated here:
`NoEndlessDescent` states the well-foundedness of the numbers, `Least` takes the first
number of a set, and `UpTo` is induction for sets of numbers. Each such function first gets
a lemma that says that it exists (`PartsExist`, `ReadingsExist`, `ApplicationsExist`,
`FilesExist`, `ExchangesExist`) and one for its step.

### Evidence

`EvidenceProofs`, under `EvidenceBounds`, `FiniteWorlds` and, for the types, `WorldsEnd`. The first says that the limits
are natural numbers, that at least one pod is shown and that the cache lasts at
least one tick: `cluster_state.py` constructs its collector with three pods, and an entry
lives for `DISCOVERY_TTL_SECONDS`. The second says that a cluster has finitely many events and
objects, each object named by its kind, namespace and name and with the labels of those that
deliver it. The third says that the clock of a world, a bound of the model, is bounded by a number.
Worlds are otherwise arbitrary: owners may form a circle, sources may lead anywhere,
the cluster changes between any two requests, and requests fail.

Everything starts from one inductive invariant, `EvidenceInv`
(`EvidenceInvariant`), which TLC also found to hold in the states of `evidence`
before it was proved. No property here is inductive, because each says what was
read or shown, and nothing of what the next request will be. For each collection,
`Sound` adds

- `Allowed`: the namespace or target at which a collection stands has passed the test
  of scope that comes some requests earlier. `ReadsGranted`: `ReadsAreGranted`.
- `Ordered`: what is got as the events of a delivery, and what is left to ask about,
  belongs to the chain, which no longer grows then. `EventsBelongToTheChain`: `EventsBelong`.
- `Paid`: what the requests may have cost on arrival at each place, so that the walk of
  a pod is paid for by a pod that is listed, an owner by the depth of the walk,
  and a hop by the length of the chain. `RequestsAreBounded`: `RoundTripsAreBounded`, which sums up
  these prices.

and `Timely` and `Clocks` add that an answer about versions is at most one tick old when
it is stored, and that what the cache holds was still served one tick before its entry
or later. `VersionIsRecent`: `StaleNoLongerThanTtl`. A tick is no shorter than a request
takes (`Tick` waits for an answer that is to be stored), which the clients' timeouts
of seconds against a lifetime of ten minutes justify. A cache with a lifetime of zero would
break the property: an answer may be outdated by a tick when it is stored.

A lemma per action (`GetPodMoves`, `FollowOwnerMoves`, ...) first reduces it to what it
changes (`Moves`, `Asks`, `Climbs`, `Hears`, `Loses`); the lemmas that end in `Sound` then keep the invariant
from those alone, and `StepCalm` says which steps touch the version at all.

Whose evidence it is needs a second invariant, `TracedInv` (`EvidenceIsTraced`), of the
collections whose cluster has stayed as it was (`steady`, as in the properties): a replaced
pod leaves evidence that was right when it was asked for. `Traced` relates each part of
a collection to the cluster, in the order in which it was found:

- the pods in hand are those of the alert's pod or workload, as the cluster has them
  (`SelectsItsPods`, `HoldsItsPods`), and what is shown of each is what is there
  (`KeepsItsPods`). If one of the alert's pods is sick, so is one of those that are shown
  or in hand (`ShowsASickPod`): an answer of at most `ScanLimit` pods is the whole of them, and
  the ranking puts a sick one first. `SickPodIsShown`: `TheSickPodIsShown`.
- the owner at which a walk stands is reached from the pod by controllers alone, in as many
  hops as the chain is long (`WalksItsOwners`); the labels kept are those of
  objects on such walks (`KnowsItsLabels`); the object at the head of a delivery is one that
  the alert names or one of these labels (`FollowsItsDelivery`, `DeliveredIsLabelled`).
  `OwnDelivery`: `OwnAlertOnly`, if `MaxDepth` is at most four: the property looks for the
  owners of a pod over as many levels as the code does (`MAX_OWNER_DEPTH` is 4).
- `ClearInv` says of a spec, whatever becomes of the cluster, that what is shown of
  it is what redaction leaves of a spec that there is. `SecretsAreRedacted`: `SecretsStayOut`,
  under two hypotheses: `PodsAreKnown`, that `SpecHolds` and `SpecShows` speak of all the
  specs of the cluster, and `Redacts`, that redaction removes what is secret and nothing else. The
  second is about what `Redaction` computes, a recursion that stays with TLC: in `evidence`
  `SpecShows` is computed by `Redaction`, and `SecretsStayOut` itself is checked with it; the first
  is evaluated there (`SpecsAreKnown`). What
  the proof adds is that no path around redaction exists and that no pod is
  shown with the spec of another.

That silence means completeness needs a third one, `CompleteInv` (`NothingIsLeftOut`), of the
collections that are `Smooth`: nothing noted, nothing failed, the cluster as it was. Notes and
errors are never taken back, except where all the evidence is thrown away with them (`Lost`,
which reports itself), so a collection that is silent in the end was silent all along. What
each action can do without saying so is a lemma of its own (`GetPodSilently`,
`ListPodsSilently`, ...), and each of those is enough for the next part of `Complete`:

- `AllPods`: from the list on, the pods shown and those in hand are together all pods of the alert.
  A list that was cut on our side is noted; one that the API server cut to `ScanLimit` is noted only
  because it is longer than the pods that are shown, hence the hypothesis
  `MaxPods < ScanLimit` (3 and `POD_SCAN_LIMIT` = 50). With the two equal the code would leave
  pods out in silence.
- `AllEvents`: each pod shown is a source that is still to be asked about, or was asked about and
  has all its events among those got, if they are no more than are asked for. That every pod is
  a source (`PodsAreSources`) is the one place where the proof has to look into a collected list:
  `EventSources` gathers names one at a time, and `UpTo` is the induction over its steps.
- `AllObjects`: past the claim and past the node, none is missing that the alert names.
- `AllHops`: the delivery is read from source to source, each as the cluster has it, and it ends
  at an object without a source or after the last hop.

`SilenceTellsAll`: `SilenceIsComplete`, with `MaxHops` equal to two: the property looks for the
sources of a delivery over as many hops as the code does (`MAX_SOURCE_HOPS` is 2).

`EvidenceIsTyped`: `EvidenceTypeOK`. It is about limits rather than types: no more pods are shown
than `MaxPods`, no chain of owners is longer than `MaxDepth`, no delivery has more than
`MaxHops + 1` objects, and no more than `MaxEvents` events are shown, also after those of a claim
are merged with the others. Alerts may name anything; what is kept as asked about is a
reference all the same, because a name is kept only when the cluster has it. `Live` is what every
action but the last keeps (`Typed`, and not done); `PodsTyped` needs from `Paid` that the
pods in hand and those still to be parsed are together no more than may be shown, and `RefsTyped`
that the chain still has room when a hop is made.

### Settings and start-up

`SchemaProofs` and `ConsoleProofs`, under `SchemaAssumption` (the migrating and the
lasting processes are processes, the newest revision is a positive number) and
`ConsoleAssumption` (a world's processes are processes, agent and dashboard among
the processes) and `WorldsAreTyped` (what is in the table of settings at the start was
written by the forms as well, and the environment's ceilings are natural numbers):

- `VersionsAreTrue`, `ServingIsMigrated`: `VersionIsTrue` and `UpMeansMigrated` are
  invariant, for any number of processes, revisions and crashes. Neither is inductive:
  a process that stamps does not look at the schema again. `SchemaInv` adds what makes
  its stamp true: a database without the tables is empty and has no version, an
  unversioned database has one release (`OneRelease`), so whoever created the tables
  created those of the process that stamps; and per process, that what it saw is still
  there and that no one who migrates is about to create or stamp in a database whose
  tables are somebody else's (`ProcessInv`).
- `ConsoleImplementsSchema`: every step of `Console` is one of `Schema` or leaves its
  variables alone, so that `ConsoleSchemaIsTrue` follows without another induction.
- `ForwardedRequestsAreLetIn`: `ProxyIsLetIn` is invariant. The strengthening
  `ProxyInv` says of every tab that a request about to be checked carries the secret
  that the agent will read, or is excused (`CarriesSecret`). The step that matters is
  the write of a setting, which excuses the requests on their way exactly when it
  changes the secret; a blank secret and the environment's are the same to both sides.

- `PacksAreLicensed`: `LapsedKeyIsNotUsed`. Keys are saved, read, applied later, lost with
  a process; `KeysAreKnown` says that each is one that the deployment was given,
  and a verdict is asked for at every prompt.
- `SettingsAreTyped`: `ConsoleTypeOK`, for any number of tabs. `TypeInv` follows a value from
  the page that shows it, through the rows that a save has still to write, to the table: a
  row is one that the forms' clamps allow (`Rows`), and so is what the breaker's trip
  writes between two of them. A tab is at work only while the dashboard serves: a process
  that starts takes nothing from the schema (`BootsTyped`), one that dies drops its
  tabs' requests (`LostTyped`). It rests on `ProxyInv` and on the schema's types.

### What is only model-checked

- Liveness: the proof system does not reach properties under fairness.
- What a `RECURSIVE` operator computes: `Redaction`, on which `SecretsAreRedacted` rests
  through `Redacts`.
- `HeldDeliveryStopsTheRun`: the code follows the closest label, the property compares with the
  delivery that the whole cluster determines. It holds where the labels of a pod and its owners
  do not contradict each other, as in the worlds of `evidence`; in others
  the code may look at the one that is not held.

## 5. Not modelled

`PROJECT.json` has each component with its status and reason. Left out are:

- text: prompts and their wording, the rendering of evidence (`format_*`), pull
  request titles and bodies, notification messages, pages;
- the construction of the models' and the notifiers' clients: third-party calls whose
  answers are choices of the modules that read them;
- metrics, checks of the integrations and the pages that only read: they change
  nothing that others read;
- the evaluation harness, scripts and the demo application: tools around the agent.
  Of the evaluation only the start of its job on the database is in `Schema`;
- prices: a synthesized run costs one unit; the signature of a license; the parsers
  behind the patch validator;
- columns of the run table that nobody reads back.

Hazards without a property are in `PROJECT.json` with the reason. Most of them are
behaviours that the code accepts and no document denies: rows of killed tasks stay
open, the pruner deletes by age alone, the backoff is measured from the creation.

## 6. Plan

Done: the runs and their lifecycle; the patch, the gates and `open_pr` with their
refinement; the evidence; the schema, the settings and the license; the proofs of
section 4. What would come next, in this order:

1. Two dispatches of one row against `RunLifecycle`; the row that a crash leaves open
   and its release by the pruner; the backoff measured from the creation of the run.
2. Proof of `HeldDeliveryStopsTheRun` where labels agree, from `TracedInv` and `CompleteInv`.
