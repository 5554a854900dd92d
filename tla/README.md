# rauto in TLA+

rauto operates network devices over SSH: single commands, batches, transaction
workflows, orchestrations of workflows over groups of devices, configuration
archives, device discovery, cron schedules. It is one binary. `rauto web` and
`rauto serve` run a service on a SQLite database and on pools of device
sessions; every other command routes its request to the service that owns the
runtime directory, or owns that directory itself while it executes.

Its Web console is a single-page application of some hundred thousand lines.

The modules here model two things. On the side of the service, the parts whose
correctness depends on the order in which processes, tasks, timers and crashes
meet. On the side of the console, the pages, workspaces and editors, whose
correctness depends on the order in which clicks, timers and answers meet. TLC
checks all of them on small instances; TLAPS proves the invariants that matter
most for the service for all values of the constants. `src/` at the beginning of a
path is the directory the repository is checked out in.

## Inventory

| Component | State it keeps | Operations | What is hard | What makes it correct |
| --- | --- | --- | --- | --- |
| Execution limits (`src/src/application/limits.rs`) | map of device keys to weak references to mutexes; semaphore of 4 permits | `ExecutionLease::acquire`, drop | two nested waits, either of which may be cancelled; weak references pruned under other tasks | one operation per device, at most 4 in the process, no permit lost, everyone served |
| Runtime ownership (`src/src/infrastructure/runtime.rs`, `src/src/interfaces/runtime.rs`, `src/src/main.rs`) | `runtime.lock`, `runtime.json`, loopback listener, token | start, publish, serve, drain, stop of a service; discover, route, execute of a command | processes, crashes, stale metadata, reused ports, time limits | one process at a time operates devices; a request reaches the instance it was meant for and is executed at most once |
| Cron scheduler (`src/src/scheduler`, `src/src/infrastructure/db/schedule_store.rs`) | tables `schedules` and `schedule_runs`; the loop; the executions | create, update, enable, manual run, delete; enqueue, claim, execute, finish | leases, overlapping runs, edits between a read and its write, failed bookkeeping, restarts | a run has one executor; policy `skip` is obeyed; due schedules run; runs end |
| Orchestrator (`src/src/orchestrator`, `src/src/domain/orchestration`) | results of stages, jobs and targets in memory | execute plan, stage, job, target; compensate | nested pools, `fail_fast` at three levels, compensation flags, inventory that changes meanwhile | failures stay bounded; what has to be compensated is, in the promised order; success means success |
| Inventory groups (`src/src/infrastructure/db/inventory_store.rs`) | tables of groups and members | upsert, delete | no transaction; read by whatever runs | a reader sees a group somebody saved |
| Asynchronous tasks (`src/src/application/async_tasks.rs`, `src/src/application/task_events`, `task_store.rs`) | tables of runs, events, artifacts; counter of running tasks | accept, report events, callback, supervise panics | acceptance, events and end are written by different tasks in any order | a finished task stays finished; events have an order; the manager hears of every end |
| Device discovery (`src/src/web/handlers/device_discovery.rs`, `device_discovery_store.rs`) | the one run, its results, its lease; channel per worker | create, scan, probe, cancel, import | lease lost or late, cancellation races start and end, restart | one scan at a time; a dead worker blocks nothing; ended runs stay as they are |
| Agent reporting (`src/src/agent/registration*`) | registration, last inventory signature, two guards | register, heartbeat, sync of devices, status updates, task reports | lost requests, backoff, overlapping reports | the manager's list converges to the inventory |
| Agent gRPC server (`src/src/agent/task_grpc_server*`) | none of its own | the same requests as the Web server | translation | same results as the Web API |
| Standard execution and batches (`src/src/application/execution/standard.rs`) | results of a request | exec, show, batch | precheck of all before execution of any; bounded fan-out | nothing is executed if a target does not pass; one result per target |
| Transaction workflows (`src/src/application/execution/tx_workflow.rs`; crate `rneter`) | device sessions | execute, roll back | device and transport failures | all or nothing per workflow |
| Workflow templates (`src/src/domain/execution/workflow_template.rs`) | none | expand loops and choices | nesting and expansion limits | bounded expansion |
| Configuration snapshots (`device_config_store.rs`) | snapshots that share contents and point to their predecessor | save, list, delete | deletion in the middle of a chain | no snapshot loses its content |
| Credentials, connections, content, history, blacklist, caches, backup | tables and files | create, read, update, delete | few multi-step operations | foreign keys, encryption |
| Web server, CLI, TUI | sessions of users | routes, commands | none of the concurrency is theirs | - |
| Console (`src/frontend/src`) | one store per page, workspace, editor, picker and dialog; session and local storage of the browser | loads, edits, previews, saves, runs; the loop that keeps a session open | handlers with several awaits over shared stores; answers in any order, after the selection, the inputs or the page has changed; documents that are form, canvas and text at once | what is shown belongs to what is selected; what is shown as saved is saved; nothing stays busy; decisions outlive answers; views of a document agree |

How they interact: the Web server, the gRPC server, the scheduler and the routed
CLI all call the same handlers (`src/src/application`); each operation on a device
takes an execution lease. The scheduler calls the orchestrator and the other
handlers with a time limit. Orchestrator, batches and scheduler read the
inventory from the database, which the Web workbench and other processes write.
Task events and callbacks go to the task table and, in a managed agent, to the
manager.

The console reaches the service by requests only. Its pages share few things:
the target that the user has selected, which a session loop follows; the lists of
groups, labels, connections and show objects, which pickers offer; the history of
executions; the record drawer and the recordings it hands to the replay page.
Within a page, handlers run to their first `await` and go on when the answer is
there; everything shared between two handlers may have changed by then. Most
stores guard themselves with a version that is raised before a request and
compared after it, some with a flag, some with neither.

## Modules

### The service

| Module | Models | State and actions |
| --- | --- | --- |
| `ExecutionLimits` | `ExecutionLease::acquire` (`limits.rs:19-54`) and the drop of a lease | per task a `phase` from the lookup to the release; the registry with its weak references; queues and owners of mutexes; permits and their queue. Cancellation is an action at each await. |
| `DeviceAccess` | what the lease promises | exclusive use of a device, at most `Slots` at once. `ExecutionLimits` implements it (`ImplementsDeviceAccess`). |
| `RuntimeOwnership` | service start and stop, command discovery, routing and direct execution | the lock and the metadata file, who listens on which port, per process its program counter, per command the execution it caused. A crash releases lock and port and leaves the file as it is. |
| `Scheduler` | tables, managers, loop, executions | rows of both tables; per manager the values it has read (`edit`), so that read and write are two steps; the loop's sleep; executions with the owner of their lease; a clock. |
| `Orchestration` | `execute_plan` with stages, pools, targets, compensation; groups while they are saved | per job where it is and the result per target; which results have been joined; the compensation in progress; members of groups with the insertions a save still has to do. |
| `Saga` | what an orchestration promises | per job its targets and what has become of each; how the plan stands. `Orchestration` implements it (`ImplementsSaga`). |
| `Discovery` | start, worker, lease task and cancellation of a scan; its row, results, lease and Task Center entry | per run where the request and then the worker is; its counters and its watch channel; the lease tasks; a cancel request between its read, its signal and its write. A panic, an error and the end of the process are actions. |

The execution lease appears in no other module of the service: it decides when a
target is operated, not with what result, and its own guarantees are proved for
any users. `Orchestration` composes the orchestrator with the writers of the
inventory; `Scheduler` composes the loop with managers in other processes.

### The console

A module of the console has one variable `state` for the store (with what its
closures share) and, where it makes requests, `calls` for what is in flight. One
action is one handler up to its first `await`, or one continuation of it with
everything it does until the next. Names of actions are those of the functions.

| Module | Models (under `src/frontend/src/domains` unless named otherwise) | State and actions |
| --- | --- | --- |
| `Requests` | the convention itself | calls in flight with what their continuations captured; the call that holds the latest version of a request. Used by every page. |
| `TasksPage` | `tasks` | list, filters of the service and of the page, detail with events and artifacts |
| `ConfigHistoryPage` | `config-history` | devices, snapshots, one snapshot in a dialog; follows the active connection until the user chooses |
| `InventoryPage` | `inventory` | one collection (groups or labels): list, selection, members, drafts |
| `DiscoveryPage` | `device-discovery` | start, polling, cancellation, choice of results, import |
| `CredentialsPage` | `credentials` | list, form, deletion, import of a file |
| `AuthPage` | `auth` | status, login, calls that are refused when the session has ended |
| `ConfigFetchPage` | `config-fetch` | kinds of the target, fetches, their history |
| `ExecutionTemplate` | `templates`: authoring session and its hosts, also a block of a workflow | a template or a draft, its text and its baseline; what the service keeps; what the workflow holds |
| `ContentTemplates` | `templates`: catalogue | one session per kind of template under one request version |
| `ConfigCatalog` | `templates`: overrides of configuration commands | rows, the form, the modes of its profile |
| `ResourceForms` | `templates`: TextFSM mappings and show objects | list, form, renaming as a save and a deletion |
| `ShowPage` | `show` | objects of a connection and of a batch, runs, downloads |
| `CommandPage` | `standard`: commands | source, variables, inspection and preview with their timers, runs |
| `InteractivePage` | `standard`: interactive commands | the command as a form and as TOML, its inspection and variables, templates, runs |
| `ProfilesPage` | `profiles`: catalogue | selection, loading, saving, diagnosis; the queue of refreshes of the modes |
| `ProfileForm` | `profiles`: the form of a custom profile | lists, hooks, rules and the execution mode, as applied and collected |
| `RecordHistory` | `connections`, `overlays`, `replay` | record drawer, record dialog, event drawer, Escape over them, replay page |
| `SchedulesPage` | `schedules` | the objects in the store and those that actions in flight have captured |
| `Dashboard` | `dashboard`, `App.svelte`, `lib/i18n.ts` | routes, managed agent mode and token, start and end of the frame, theme, language, lazy components |
| `ExecutionPage` | `orchestration`, `transactions`: the page that runs them | texts of both stages, variables as a form and as JSON, preview, runs |
| `ConnectionPickers` | `connections`: pickers | one store per picker, the field, whoever writes options and selections |
| `ConnectionForm` | `connections`: the two forms | drafts, rows of variables, detection, test, save |
| `ConnectionSession` | `connections`: list, target and session | list, cached details, selection, target and its persistence, import, deletion; the loop that connects and releases, preferences, checks; what the service keeps |
| `ExecutionHistory` | `execution` | entries, their storage, what of an output is kept |
| `ExecutionResults` | `components/fragments`, presentation of results | sheet with filter and selection, detail, exports, results of workflows and orchestrations |
| `WorkflowTree` | `transactions`: trees | nodes, branches, their operations; an algebra without state |
| `TxBlockEditor` | `transactions`: block | steps, control steps, rollbacks, kinds of editor; JSON with what its reader fills in or refuses; canvas with heights |
| `TxWorkflowEditor` | `transactions`: workflow | tree of blocks, canvas with its graph and windows, JSON dialog |
| `OrchestrationEditor` | `orchestration`: plan | stages, jobs, canvases of their workflows, previews of templates, JSON dialog, graph |

Two modules put them together. `MCConsole` holds every page side by side, each
with the small sets it is checked on: `focus` says which of them a behaviour is
about, and the properties dispatch on it. `ConnectionSession` puts the connections
and their session together: every step that sets the target also sets the session's
wish (`Follows`), and an answer to a connect depends on the connection the service
keeps by then.

Abstractions:

- `ExecutionLimits`: tokio's mutex and semaphore are first-in-first-out queues
  that hand over on release, as tokio documents them; they are marked external.
- `RuntimeOwnership`: tokens and instance ids are one number; an HTTP request is
  posted, executed and answered, or fails; a serving service answers a probe
  within its 2 s.
- `Scheduler`: cron expressions are an operator `NextAfter` with
  `NextAfter(k, t) > t`; the outcomes succeeded and failed are both "finished";
  runs are claimed in any order; the wall clock runs like the timers of the
  runtime, and one round of the loop with its bookkeeping takes less than the
  60 s a lease has in reserve (`Tick`).
- `Orchestration`: a job selects one group, sorted by name as
  `list_connections_by_groups_any` sorts; connections named explicitly are a
  group that nobody edits. The workflow on a device is one step with a result;
  a compensation is recorded, whether it worked or not. One save of a group is in
  progress at a time, and the jobs whose targets are counted or skipped together
  are read in one step.
- `Discovery`: targets differ by their results only, so counters stand for the
  table of results, and identified and unidentified probes are not told apart.
  The sender of a watch channel outlives its receiver, so whether a run is still
  registered after its execution makes no difference. One cancel request is in
  progress at a time. Imports of results are left out.
- The console is one thread. A confirmation of the browser blocks it and is part
  of the step that asks. An answer is any the service may give when it gives it:
  the service acts, and is read, when the answer arrives, except where the time
  between matters (`ConnectionPickers`, where lists are numbered).
- A version of the code is the identifier of the call that holds it (`Requests`).
  A call that is dropped by its version stays in flight until it is answered.
- Texts are members of small sets; what the code tells apart in them (empty,
  invalid, a numeral, a name that exists) decides the sets. What is drawn is left
  out, except where positions are computed from state: the three canvases have
  their nodes, arrows and vertical layout, not their widths.
- Of fields and lists that are treated alike there is one.

## Runs

| Run | Instance | Shows |
| --- | --- | --- |
| `limits` | 3 tasks, 3 devices under 4 spellings, 2 permits, 3 mutexes | `DeviceExclusive`, `PermitsConserved`; under weak fairness `WaitersAreServed`; `ImplementsDeviceAccess` |
| `ownership` | 2 services, 2 commands, 1 port, 3 launches | `SingleRuntime`, `RequestsReachTheirInstance`, `AtMostOneExecution`, `DiscoveryEnds`, `ServicesStart` |
| `scheduler` | 1 schedule of policy `skip`, 1 manager, 2 starts, 5 instants | `NoConcurrentExecution`, `OverlapIsSkipped`, `DueIsEnqueued`, `RunsEnd` |
| `scheduler_two` | 2 schedules, one of which changes its policy, 1 permit | `WithinConcurrency`, `ExecutionsHaveRuns` |
| `scheduler_blocked` | as `scheduler` | `DueSchedulesRun` is violated |
| `orchestration` | 26 plans of 2 or 3 stages, 3 devices, 3 groups, 1 edit | `StopsAfterFailure`, `RollbackIsComplete`, `FailuresAreBounded`; under weak fairness `PlanEnds`; `ImplementsSaga` |
| `orchestration_wrong_target` | the two-stage plans | `RollbackReachesItsTarget` is violated |
| `discovery` | 2 scans of 2 targets, one cancel request or one late lease | `AtMostOneScan`, `CompletedIsComplete`, `TaskEntryIsTrue`, `EndedRunsStay` |
| `console` | each of 26 pages and editors alone, 2 calls in flight | the six properties below |
| `command_preview` | the command page | `PreviewIsOfTemplate` is violated |
| `profile_execution` | the form of custom profiles | `SavesExecution` is violated |
| `connections` | 2 names, 2 configurations, 2 calls, 3 operations of the user | `SessionsAreAccounted`, `SessionIsOfTarget`; under weak fairness of the loop `SessionSettles` |

Every passing run also checks the types. The properties of `console` are, page by
page:

- `ShownIsCurrent`: a detail is that of the selection, a list that of its filters,
  a form that of its item, a preview that of its inputs, a result that of the
  inputs it was started with, facts that were detected those of the form; the page
  is that of the path; a deletion deletes what its dialog has named; a scan that
  runs is followed.
- `SavedIsKept`: what is shown as unchanged is what the service keeps; a read-only
  text is unchanged; a renaming neither loses an entry nor leaves two; overrides
  fit the modes of their profile; recordings are not written to the storage.
- `BusyIsPending`: nothing is shown as loading, saving, running or previewing
  without a call or a timer that ends it.
- `ViewsAgree`: form, canvas and text of a document are one document, reading
  back what is written gives the same. A text that is typed or loaded may leave out
  parts or name unknown ones: for a block, what is written is the text with its
  defaults filled in, no given part is lost but one its kind does not have, and
  writing it a second time changes nothing; a text with an operation of an unknown
  kind, however deep, is refused and leaves no form to edit. A canvas shows each node once, with its
  arrows, in order and without overlap; identifiers are unique; a menu offers what
  the list has; a result tells every failure.
- `AnswersKeepChoices`: an answer does not undo what was decided after its question:
  results that were ticked or unticked, a session that has ended, values that were
  typed, a token in its field, other runs of the history.
- `EditsKeepTheRest`: an edit changes the node, prompt, job, row or selection it is
  about, and no other.

Deadlock is checked in `limits`. The other systems do stop in their instances:
after the last launch, at the last instant, when the plan has ended, after the
last scan, when the budget of a page is spent.

### Why the bounds are enough

- `limits`: two tasks under two spellings of one device and one more on another
  device are what the registry and the nested waits need; a third device shows
  that entries are pruned under a lookup. Two permits leave one to be handed over
  while the other is free. The proofs cover every number.
- `ownership`: two launches make a successor of a crashed or stopping process,
  the third one a command that has read the metadata of the first. One port makes
  every service reuse it.
- `scheduler`: `MaxRuntime` 1 and `LeaseMargin` 2 let a lease expire within the
  five instants, after a restart; one manual run collides with one trigger; one
  manager is enough to be overtaken by the loop between its read and its write.
  Cron expressions are periods (`Periodically`, `Skipping`).
- `scheduler_two`: one permit and two schedules, one more than may run
  (`OneSkipping`).
- `orchestration`: a canary stage, a stage with two jobs of which one has a pool
  of two for three targets, a last stage, under all combinations of the three
  flags and of the `fail_fast` of the pooled job; pools of jobs in serial and
  parallel form; and plans of two stages on a group that is saved or deleted once,
  under four combinations of the flags: each flag alone matters to one of them.
- `discovery`: a third scan meets the rows of one predecessor only, as a second
  does. Two targets make progress that is partial in both phases. One cancel
  request or one late lease is what it takes to have two workers at once.
- `console`: two calls (`CallIds`; three in `Dashboard`, which starts several at
  once) are one answer overtaking another, which is all a version has to exclude.
  Two items of a kind are the one that is selected and another one; where the
  items are alike, `a` and `b` are symmetric. The login is explored without a
  limit. The other pages stop after a number of steps (`Budget` in `MCConsole`,
  counting each click and each answer), as many as keep the run below
  400,000 states:

  | steps | pages |
  | --- | --- |
  | 8, 9 | inventory groups, discovery, credentials, TextFSM mappings (`forms`), configuration catalogue |
  | 7 | configuration history, configuration fetch |
  | 6 | tasks, commands, records and replay, schedules |
  | 5 | source of an execution, profiles, frame, interactive commands |
  | 4 | catalogue of templates, show objects, workflow, block and plan editors, running, pickers, connection form, results |
  | 2 | form of a custom profile |

  A race takes two questions, a change between them and two answers; what it takes
  beyond that to reach an interesting state is where the start helps: behaviours
  begin with every document, plan, form or record in the sets of the instance, and
  these hold the shapes that matter (a template used by two jobs, a choice with
  branches, a variable named twice, a recording that cannot be read; blocks that leave
  out flags, trigger, kinds or branches, that name an unknown policy and an unknown
  step, or an unsupported operation inside a loop). In each module
  every action is taken within its budget.
- Sizes: `MaxStages`, `MaxJobs`, `MaxBlocks`, `MaxSteps` bound the documents one
  step beyond the smallest with siblings and nesting; `BlockHeight` is the height of
  one node; `MaxRows`, `MaxVars`, `MaxPrompts`, `MaxFilters` the rows of a form;
  `MaxRuns` and `MaxEntries` the runs, above `Limit`, so that entries are dropped;
  `MaxRefreshes` the queue of refreshes; `MaxChanges` the versions of the lists that
  pickers offer; `ObjIds` the objects that a store and two actions can hold.
- `connections`: one saved connection at the start (`StartWithOne`; the proofs take any
  catalogue) that is renamed, replaced, deleted or left
  while the session loop connects, releases or fails: each takes one operation, a
  wish that overtakes it a second, and a third one comes back.

### Fairness

- `ExecutionLimits!FairSpec`: every task that can go on does (tokio polls woken
  tasks); operations end, because sessions have time limits.
- `RuntimeOwnership!FairSpec`: processes that are not killed go on and their
  deadlines pass. Executions may last for ever: `DiscoveryEnds` holds all the
  same, and only `ServicesStart` assumes that they end (`ExecutionsEnd`).
- `Scheduler!FairSpec`: the loop goes on, a service manager restarts the service,
  time passes, executions end at their limit. Managers need not finish.
- `Orchestration!FairSpec`: tasks go on and each workflow ends. Nothing is
  assumed about edits or interruptions.
- `Discovery` is checked for safety only: that a start is not refused for ever
  is `OnlyWorkersBlock`, a proved invariant, with the time limits of connections
  and probes and the ten seconds of the lease.
- `ConnectionSession!FairSpec`: the session loop runs on and its requests are answered
  or fail, as requests of a browser do; the user and all other answers need not
  do anything.
- The pages are checked for safety only. That nothing stays busy is the invariant
  `BusyIsPending`: what is shown as busy has a call or a timer that ends it, and
  every ending is an action that is possible whenever its call is in flight.

## Disagreements with the documents

1. `scheduler_blocked`: a schedule whose next trigger has a row already makes the
   transaction of `enqueue_due_runs` fail in every round, and no due schedule of
   the database runs any more. A manager gets there that computes the next
   trigger, is overtaken by the loop, and writes it back.
2. `orchestration_wrong_target`: compensation resolves the targets again and goes
   by position. After an edit of the group another device is compensated than the
   one that was changed.
3. `command_preview`: a preview of the earlier text that was asked for while a
   template was loading is shown as the template's when the inspection of the new
   text fails, and the template can be run on the strength of it.
4. `profile_execution`: a custom profile with an exit marker is shown, and saved
   again, as one that waits for prompts.

Modules also hold five formulas that the code breaks and that no run checks; TLC
finds each of them violated on the instances above:

- `Orchestration!JobsSelectSavedGroups`: `upsert_group` empties a group and fills
  it again without a transaction. A job that starts meanwhile runs on part of the
  group, even if the group is saved unchanged, and succeeds.
- `Orchestration!LaterFailuresRollBack`: if a later stage cannot be resolved, the
  orchestration ends with an error and compensates none of the earlier stages, in
  spite of `rollback_completed_stages_on_failure`.
- `Discovery!OneActiveScan`: a cancel request that arrives after the row of a run
  was inserted and before its worker is registered writes `cancelled`, which
  admits another scan while the first one is executed.
- `Discovery!OneTaskEntry`: a worker records its run in the Task Center after it
  has written the final status; the entry comes back if the next scan has replaced
  the rows meanwhile.
- `InventoryPage!SavesItsMembers`: a group or label that is selected can be saved
  before its members have arrived, and is then given the members of the one that
  was selected before (`createInventoryPageWorkspace.ts:294`).

Two more consequences of the cancel request, which no document excludes: when it
is overtaken by the end of the worker, a completed run is left as `cancelling`
for good, or as `cancelled`, with counters that were read before. `EndedRunsStay`
and `TaskEntryIsTrue` hold with this exception only.

### Behaviours of the console worth knowing

None of these is excluded by a document or a test, except where said. The models
contain them, as actions and as the exceptions in the properties, or leave out the
part they are in, which is then named under "What is not modelled".

- Schedules: a refresh or a save that ends stores the object it had captured, and
  undoes a selection made meanwhile (a test, `src/frontend/tests/schedules-page.test.ts:174`,
  is about this for another pair of actions), opens a dialog again that was closed,
  or leaves "Loading".
- Records: the calls for one record and for one replay have no version: a late
  answer shows another record, opens a dialog that was closed, or shows entries of
  the old recording under the new one. Escape closes the connection dialog before
  the import result above it.
- Workflow editor: `selectEditorView` keeps an invalid text from being left, but the
  dialog of `TxWorkflowInputPanel.svelte` does not use it. It closes over an invalid
  text; the canvas keeps the last valid workflow, and the next edit replaces the text.
  The editor of plans does the same.
- Template of a block: a publication while the workflow is read-only is lost, and the
  editor shows a template the workflow does not hold; an initialization that is
  repeated after a failure takes the text that is edited meanwhile as its baseline.
  Both are `strayed` in `ExecutionTemplate`, and outside its two properties.
- Block editor: a whole-resource rollback without a trigger is shown with none and
  written with the first step at the next edit (`transactionBlockFormModels.ts:376`); a
  policy that is not known becomes "none". A text that cannot be read leaves no form,
  since `transactionBlockTemplateAuthoring.ts:60` reads it without the one before, and
  the canvas comes back with the next text that can be read. After a text has removed the nested step that was selected, no row is
  highlighted and the inspector shows the step of the root.
- Plan editor: two jobs that name one template leave the first at "Loading workflow
  preview..."; failures are kept in the cache; removing the last stage leaves the
  inspector open with nothing in it; an explicit null for `fail_fast` is written back
  as false.
- Frame: a change of the language restarts the frame; the deep link `/app/tasks` of a
  managed agent ends at the command page under its old path; a failed call for the
  agent's state on a restart turns an agent into none and clears the token in its
  field; of two languages the one that is loaded last is shown.
- Running: an emptied text shows the default plan when the stage is shown again, while
  the host still has the empty text, so that the preview works and the run fails; an
  array of variables is run as none.
- Interactive commands: choosing a template drops the timer of the inspection; if its
  loading fails, "inspecting" stays (the exception in `BusyIsPending`); a failing
  inspection drops values that were typed, and values are carried over to another
  template; an emptied timeout is one of 0 seconds.
- Results: a show of several objects that fails in the middle loses the outputs
  before it; a download that fails replaces a result; an entry may say "error" over
  rows that all succeeded.
- Pickers and forms: lists of groups that arrive while the editor is open replace the
  groups chosen in it (`connectionFieldStoreState.ts:788`); a detection may land in
  another form; a save in flight closes the editor that was opened meanwhile; a
  variable of type object comes back as a string, a blank number as null; the
  temporary form never gets a connect timeout (`connectionTargetRuntimeState.ts:385`).
- Connections: deleting a saved connection clears a temporary target; an import leaves
  cached details as they were; the deletion dialog names one connection and deletes
  the one that is selected by then.
- Profiles: details of built-in profiles have no version; a custom profile that fails
  to load leaves its name over the earlier form; resetting the cache of modes during a
  fetch lets the fetch fill it with what it has read before.
- Discovery and login: an import that ends after a new run was started shows the old
  run; a login that succeeds while an earlier call is refused ends at the login again.

## Proofs

| Module | Theorems | Argument |
| --- | --- | --- |
| `ExecutionLimitsProofs` | `TypeCorrect`, `Exclusion`, `MutexIdentity`, `Conservation`, `DeviceFirst`, `WorkConserving`, `Refinement` | below |
| `RuntimeOwnershipProofs` | `TypeCorrect`, `OneRuntime`, `Published`, `Reach`, `Once` | below |
| `SchedulerProofs` | `TypeCorrect`, `OneExecutor`, `RowsOfExecutions`, `NoOverlap`, `ConcurrencyBounded`, `ManualRunsRecorded` | below |
| `OrchestrationProofs` | `TypeCorrect`, `StopsAfterFailureHolds`, `OutcomeHolds`, `RollbackHolds`, `DueHolds`, `StableReachesHolds`, `FailuresBounded`, `Refinement` | below |
| `DiscoveryProofs` | `TypeCorrect`, `OneScan`, `LeaseHeld`, `OnlyWorkers`, `AllResults`, `TaskEntry`, `EndedStay` | below |
| `ConnectionSessionProofs` | `ConnectionsTypeCorrect`, `SessionsAccounted`, `SessionOfTarget` | below |
| `ConfigHistoryProofs` | `TypeCorrect`, `DetailOfSelection`, `ListOfSelection`, `LoadingIsLoaded` | below |
| `InventoryProofs` | `TypeCorrect`, `FormOfSelection`, `BusyIsWaiting` | below |

They use the assumptions named in the modules: finite sets of tasks, schedules and
devices, addresses that belong to one device, pools at least one wide, at least one
permit, at least one target, markers that are no values, a lease margin greater
than zero, `NextAfter` in the future, at least one identifier for calls in flight.
TLC evaluates them in the runs of these modules. The assumptions of the two pages are
hypotheses of their theorems, as `MCConsole` is the module that gives them values and
states `ConfigHistoryAssumption`, `InventoryAssumption` and, for the identifiers all
pages share, `CallIdsAssumption`; the theorems of `InventoryProofs` ask in addition
that the identifiers are finitely many, as its guard counts those that are free.

- `ExecutionLimitsProofs`. A task that has looked up a mutex keeps a strong
  reference (`HoldsReference`), so its entry is never pruned, so a device keeps
  its mutex (`RegistryInv`); whoever is past the first wait owns the mutex of its
  key (`OwnerInv`). Exclusion follows from both; it is not inductive without the
  registry. For capacity, the set of holders is exactly the tasks in the running
  phases (`HoldersInv`), the queue holds who waits, without repetition
  (`QueueInv`), and permits add up. The refinement maps a running task to the
  device of its key.
- `RuntimeOwnershipProofs`. A process in a phase between lock and unlock holds
  the lock (`OwnersHoldLock`); a job belongs to an instance that has not given
  its lock up (`JobsAreServed`); a command has no job before it posts one
  (`NoJobBeforePost`). One runtime follows from the first two; that the metadata
  stays follows from the first, because only a holder writes.
- `SchedulerProofs`. `NoConcurrentExecution` is not inductive: that a run with an
  expired lease has no executor any more has to be known. `Leases` says that an
  execution started at `since` has a row running under a lease of
  `since + MaxRuntime + LeaseMargin`, and `Tick` does not let an execution get
  older than `MaxRuntime`. `NoOverlap` needs `DefinitionsAllowed`, that what is
  stored, or held by a manager, is one of the allowed definitions. `WithinConcurrency`
  counts, so it needs to know that the tables are finite (`Counted`): a claim takes
  as many runs as there are permits left, and each becomes one execution.
  `ManualRunsAreRecorded`, an action property, follows from the same invariant: a
  trigger behind all rows of its schedule has no row, so one is added.
- `DiscoveryProofs`. `AtMostOneScan` needs what `Undisturbed` says, that whoever
  starts or scans has the row, active, and a fresh lease, so that a start finds
  nobody at work. A completed run counts its results because until then the
  worker's counters, the progress and the results are the same
  (`ResultsCounted`), because probes begin when all targets are counted
  (`CountersAgree`), and because who has written a last status writes no more
  (`EndWritten`). `OnlyWorkersBlock`, which says that a start is not refused for ever, rests on `KeepersWork`, that a lease task
  ends before anything else that follows the execution; `TaskEntryIsTrue` on
  `Recorded`, what the worker has read before it saves the callback.

- `OrchestrationProofs`, for any plans, groups, devices and widths. One lemma says
  what a step may do to a job (`Change`: it keeps its results, is skipped, or is in
  work in the pool of the current stage), and one what it may do to the course of
  the plan (`Course`); the invariants are proved from these two, not action by
  action. `Base`, which all of them rest on, says that stages are worked off in
  order: before the current one all jobs have settled, after it none has begun
  (`InOrder`); that what a pool has joined has its result (`JoinedAreOver`); and that
  compensation is at a job of the current stage or, if the plan says so, an earlier
  one, with nothing left to do but targets that succeeded (`UndoingIsDue`).
  - `StopsAfterFailure` is not inductive: the loop does not look at the stages but at
    the flag `failed`, so the flag has to tell the truth (`FailedIsTrue`), including
    while a failed stage is compensated and the flag is already set.
    `OutcomeIsHonest` needs the converse, that nothing is skipped without a failure
    (`SkippedForFailure`).
  - `RollbackIsComplete` needs a record of how far compensation has come
    (`RollbackSoFar`): stages after the one in work and jobs before the one in work are
    done, and of this one everything but `rest`. `rest` is computed from the group as
    it is then, and is all that succeeded only if the group has not been edited since
    the job started (`TargetsAreListed`). This is where the edit of the run
    `orchestration_wrong_target` comes in: `StableReachesHolds` proves that without an
    edit every compensation reaches its own target.
  - `RollbackIsDue`, the converse of completeness, holds whatever is edited.
  - `FailuresAreBounded` counts what is at risk, which is in work or has failed
    (`TargetsFit`, `JobsFit`): a pool that fails fast starts a target only if nothing
    that was joined has failed, so what has failed is not joined and takes a place.

- `Refinement` of `OrchestrationProofs`: `Orchestration` implements `Saga`. A job is a task list from when its
  targets are selected (`Tasks`): a target that a compensation is recorded for is
  undone, any other is what its result says. The plan stands as its phase says
  (`Standing`), and an edit of a group is a disturbance (`Stable`). Joining a result,
  resolving a compensation, going on to the next job of one, and every edit after the
  first are not seen by the saga; they stutter.
  - `Known` gathers what the steps need of a state: the order of the stages, the truth
    of the flag `failed` and the reason of every skip (`Failures`), how far
    compensation has come (`Compensation`), for what it is (`Due`), and that `failed`
    is set only where a failure ends the plan. The first three are proved before.
  - The guards of the saga are then one lemma each: the stage in work is the current
    one (`CurrentNow`, from `InOrder` and `RollbackSoFar`: what the failures before it
    demand is done), no failure has ended the plan (`AliveNow`), what is undone is
    demanded by a failure (`UndoIsDemanded`), and whatever stands behind it is undone
    already (`LaterAreUndone`).
  - Each action has a lemma (`StartsInSaga`, `EndsInSaga`, `UndoesInSaga`,
    `SkipsInSaga`, ...) that names the step of the saga it is or that it is none.

- `ConnectionSessionProofs`, for any names, settings, catalogues, numbers of calls in
  flight and of operations of the user. Nothing in its argument rests on the bounds
  `CallIds` and `Budget`. The theorems are about `SessionSpec`; the run's `FairSpec` starts
  in one of its initial states and takes its steps. The console's half (`ConnectionsInv`) says that the target
  carries the settings of the list it is in (`KeyIsListed`), whichever handler has set
  it, and that a list that came from the service is still what the service keeps, or
  another list has been asked for (`ListedIsSaved`): every answer after which the
  service keeps something else asks for the list before it is settled. The session's
  half needs to tell a wish that has changed since the loop took it (`stale`) from one
  that has not.
  - `LoopTypeOK` and `Known` hold whatever is wished for meanwhile: the loop connects
    only when nothing waits to be released, what it releases is there, and what the
    service keeps is the active session or waits to be released.
  - `Coherent` says what is shown: a session shown as connected is the desired one, and
    the desired one is that of the target under the preferences. It is not inductive:
    an answer shows the session the loop has asked for, so that has to be the desired
    one unless the wish has changed, which is `Current`.
  - `Schedules` proves once what a new wish does, in any phase; `GoesAround`,
    `ReleasesFirst` and `SettlesFirst` what each way on from an answer does. The steps
    of user, loop and service are instances of these.
  - `SessionIsOfTarget` joins the halves: without calls in flight the list is what the
    service keeps, and the session is that of the target with its settings.

- `ConfigHistoryProofs`, for any devices, snapshots, filters and number of calls in
  flight. The conjuncts of `ShownIsCurrent`, `BusyIsPending` and `ConsoleTypeOK` that are
  about this page hold in any number of steps. None of them is inductive: that the list
  shown answers what is chosen needs to be known of the answer before it comes. The call
  that holds the version of the list asks for the device and the filters chosen now
  (`HistoryFits`), although identifiers are used again and a call goes on as another
  (`Chain`); the one that holds the version of the detail asks for what the dialog was
  opened for, as long as it is open (`DetailFits`). Not when it is closed: a deletion
  that ends after another snapshot was chosen unselects that one and leaves its detail
  on the way, which then fills the store of a dialog that is not shown.
  - `HistoryAsked` proves once where `refreshHistory` leads, from any store and any
    calls; the five handlers and answers that end with it are instances.
  - `NoHistoryHeld`: without a device no list on its way counts, so clearing the filters
    when the list of devices arrives invalidates nothing.
  - `Quiet`, that a page that was never shown has asked for nothing, is what the first
    activation needs.
- `InventoryProofs`, for any names and any finite number of calls in flight.
  - `FormIsOfSelection` speaks of the page at rest. While calls are in flight the form may
    be another item's, but then the latest detail is for what is selected, and is on its
    way or was lost (`FormFits`). That it is lost is not enough by itself: an error that
    comes later names another item, so the detail that is on its way has to be for the
    selected one.
  - The dialog that submits waits for one call in a chain of up to four, a save, the
    list, the connections of the console and those of the page. Each of them hands the
    duty to close it on to the next (`Reloads`, `GoesOn`) or closes it (`Ends`); a list
    that the dialog waits for is always part of such a reload (`ListsFit`).

Only model-checked: everything under fairness, which includes all liveness, and
everything about the other pages in `MCConsole`, which bounds their behaviours by what
a user can do in a few steps. The
invariants of `MCConsole` are about all pages at once, so no theorem states one of them
as it stands.
`MutexIdentity`,
`DeviceFirst`, `WorkConserving`, `Published`, `LeaseHeld` and `OnlyWorkers` are
proved, as are `OutcomeHolds`, `DueHolds`, `StableReachesHolds` and
`ManualRunsRecorded`, about definitions that no run checks any more, as the
invariants that the others rest on, or as what an operator would ask for. Liveness under fairness,
`ENABLED` and facts about what a recursive definition computes are out of the
prover's reach; the editors recurse over trees with recursive operators.

## What is not modelled

`PROJECT.json` names every component, with the reason where it has no module. In
short, for the service: text (templates, parsing, rendering, display),
single-statement tables, and what happens on a device, which is the work of the
`rneter` crate; and the parts that the plan below still has.

Of the console:

- the pages of backups, blacklist and file transfer (one call at a time, by a flag,
  or lists without version of which the last one wins), toasts, the functions that
  build requests, shared components, texts, styles;
- widths, horizontal positions, titles, texts of labels, what is drawn; the windows
  over the canvas of the plan editor; the embedded list of the workflow editor;
- fields of a form that no other field and no property depends on: modes and
  responses of interactive commands, the fields of a command in a block other than its
  lines and prompts, the variables of a template in a block, the contents of
  records;
- the dialog that creates a credential from another page;
- code without a user: `transactionJsonTemplateState`, `transactionPanelState`, most of
  `transactionInputState`, `TxBlockTimeline`, `TxWorkflowTemplateRef*`,
  `OrchestrationStagesPanel`, `OrchestrationStageEditor`, `toggleTheme`.

## Plan

Done: `ExecutionLimits`, `RuntimeOwnership`, `Scheduler`, `Orchestration` with its
`Saga`, `Discovery` and `ConnectionSession` with their proofs; the modules of the
console listed above, composed in `MCConsole`; proofs about two of its pages.

Next, in this order:

1. Proofs about further pages that keep request versions (`CredentialsPage`,
   `SchedulesPage`, `ProfilesPage`).
2. `TaskTracking`: acceptance, events, callback and supervision of an
   asynchronous task as concurrent writers of `task_runs` and `task_events`, with
   and without a manager. To check: a finished task stays finished, numbers of
   events are unique, the manager is told of every end.
3. `AgentReporting`: the manager's list converges to the inventory in spite of
   lost reports and overlapping synchronisations.
4. `BatchExecution`, `ConfigSnapshots`, `WorkflowTemplate`: precheck and fan-out;
   the chain of snapshots; expansion as a function checked against its
   definition.
