# Aura Launcher: TLA+ models of the native launcher

The launcher (`demo2/native-launcher`) is a keyboard launcher for Windows written
in Rust: one desktop process with UI and core, an index of files, external plugin
processes, MCP tool servers, a workflow engine and an AI agent that plans tool
calls. This directory models it component by component. Paths below are relative
to `demo2/native-launcher`.

## 1. Inventory

| Component | State | Operations | Talks to | What is hard |
|---|---|---|---|---|
| DAG workflow scheduler (`launcher-workflow`: scheduler, engine, graph) | finished, skipped, variables of a pass | `run_graph` | run store, approval store, step threads | parallel batches, one step of several failing, crash between step and checkpoint, resume |
| Run store, approvals (durable, approval) | one checkpoint per run, one decision per (run, node), both SQLite | save, load, request, decide, expire | scheduler, UI | decisions racing passes, failing statements, edited definitions |
| Linear workflow runner (lib, v2; `launcher-domain` workflow) | run and step statuses, attempts, variables | run, resume | host backend | retries, pauses for confirmation, branching, atomic output bindings |
| Workflow editor, triggers, conditions | graph with undo stacks; durable event queue; token list | edit, undo, redo, layout; enqueue, dequeue; parse, evaluate | UI, service | undo bounds, consumer crashes, precedence |
| Workflow and agent services (`launcher-app`) | three global slots: newest cancel flag, approval sender, confirmation sender | start, confirm, cancel | agent loop, runner, UI thread | one key for several runs, closures shown late, timeouts |
| AI agent (`launcher-ai`): planning, loop, bounded agent | session state, turn budget, approval request, plan | run_agent, run_bounded_agent | LLM, tools, user | approval lifetime, one replan, unsettled effects |
| MCP executor, sessions, stdio transport (`launcher-mcp`) | cached transport, session record with one operation slot, request ids | execute | server process | late, stray and missing answers, crashes, reuse of a process |
| MCP over HTTP, OAuth, catalog | session id, tokens, stored credential, projected commands | request, refresh, authorize, reload | servers, secret store | stale credentials, changed issuers, missed reloads |
| Runtime manager, process supervision (`launcher-runtime`) | live runtimes, restart counts, job objects | use, crash, evict, shutdown | child processes | budgets, orphans |
| File index (`launcher-indexer`) | rows, full-text table, queue, coalescer, dirty roots | run_loop, sweep, recovery, apply_batch, search | watcher threads, file system | everything races the file system |
| Search core, ranking, coordinator, favorites (`launcher-core`, `launcher-search`) | generations, result cache, usage, pins | search, rank, pin, run query | providers, UI | stale cache, collapse of identities, panics |
| Popup (`launcher-app` main, `launcher-ui`) | results, rows, selection, pending confirmation, query session | keys, timers, search threads | core, services | superseded queries, two copies of the list |
| Settings, start, hot key | config file, temporary file, health marker, stamp | save, reload, register | Win32 | two writers, late stamps |
| Plugin host, provider, registry (`launcher-plugin-host`, core providers) | process, failure count, quarantine, trust, decisions | query, execute, idle sweep, open | plugin processes, SQLite | timeouts and late answers, damaged database |
| Tool surface (`tool_ui_host`) | one session slot, the screen | open, event, close | plugin, UI thread | three threads on one slot |
| Package manager (`launcher-plugin-cli`) | packages, staging, backups | resolve, execute_plan, install | file system | rollback, crashes |
| Actions, system adapter (`launcher-action`) | policy, authorization token | resolve, authorize, verify, apply, probe | Win32 | handles given to somebody else |
| Application catalog, icons (`launcher-providers`) | rows, entries; memory and disk cache | reconcile, build; get icon | registry, shell | identities, damaged files |

`PROJECT.json` lists every component with its status, and under "hazards" each of
these difficulties at its line with the property that covers it.

## 2. Modules

| Module | Models |
|---|---|
| `WorkflowGraph` | graph.rs, engine.rs: graphs, validation, variables, `ready_nodes`, skips |
| `DagScheduler` | scheduler.rs, durable.rs, approval.rs; extends `WorkflowGraph` |
| `WorkflowRunner` | lib.rs, v2.rs of launcher-workflow, domain/workflow.rs |
| `DagScheduler_proofs`, `WorkflowRunner_proofs`, `McpExecutor_proofs`, `ConfirmRouting_proofs`, `LauncherPopup_proofs`, `IndexCoordinator_proofs` | the theorems about these modules (section 5) |
| `DesktopServices_proofs`, `PluginServices_proofs` | the theorems about the components of `MCDesktop` and `MCPlugins` (section 5) |
| `McpExecutor` | executor.rs, session_manager.rs, stdio.rs, process.rs |
| `IndexCoordinator` | coordinator.rs, incremental.rs, watcher.rs |
| `FileIndex` | the rows, the full-text table and the searches of indexer/lib.rs |
| `AgentPlanning` | pipeline, intent, clarification, structured output, risk |
| `AgentLoop` | agent_session, approval, agent_loop; extends `AgentPlanning` |
| `ConfirmRouting` | agent_service, workflow_service, Confirm and Esc in main; composes `AgentLoop` runs with workflow runs |
| `SearchSession` | abstract specification: the screen answers the newest query |
| `LauncherPopup` | main.rs between hot key and execution, launcher-ui state |
| `SearchCore` | core/lib.rs search, catalog.rs, search/cache.rs |
| `Ranking` | search/lib.rs, fuzzy.rs, intelligence.rs |
| `SearchCoordinator` | search_coordinator.rs |
| `Favorites`, `AppCatalog`, `IconCache` | favorites.rs; catalog.rs, app_registry.rs; icons.rs |
| `PluginLifecycle` | providers/plugin.rs with the registry rows it reads |
| `PluginRegistry` | providers/plugin_registry.rs |
| `PluginWire` | plugin-host, plugin-api, ipc |
| `PackageManager` | resolver, transactional, repository, `cmd_install` |
| `ToolSurface` | tool_ui_host.rs |
| `McpHttp` | streamable_http, auth, catalog, providers/mcp.rs |
| `RuntimeManager` | runtime_manager.rs, process.rs, windows.rs |
| `ShellSettings` | config, handoff, hotkey, reload in main and management |
| `WorkflowEditor`, `TriggerQueue`, `Conditions` | editor.rs, editor_surface.rs; triggers.rs, trigger_sources.rs; expr.rs |
| `SystemEffects` | domain/system*.rs, action/lib.rs, system_adapter.rs |
| `BoundedAgent` | agent.rs, planner.rs, proposal.rs, agent_host.rs |
| `MC...` | instances: sets of graphs, definitions, servers, files, inputs |

Conventions. An action is a handler, or the part of one between two points at
which another thread, process or crash can be noticed. Definitions named after a
bug (`ready_nodes_any`, `Stamp_late`) are mutants: a plausible mistake in the
definition that follows. No specification uses them; each checked property has one
that violates it. Some modules end in a part headed "What the source says of
itself and does not keep": statements of comments that the model violates, listed
in section 4.

`MCDesktop` and `MCPlugins` put small components side by side. Their `unit` says which
component the behaviour is of; the variables of the others stay `None`. The components
share no state, so nothing is lost, and the state graph is the disjoint union of
theirs. Their constants carry the name of the unit (`icons_Exes`); the configuration
gives the values, the proofs are for any.

### How the models correspond to the code

* **DagScheduler**: `durable` is what survives a crash (checkpoint, approvals, the
  definition and its version), `locals` the variables of one `run_graph` call. A
  pass is `Start`, `top`, `gate`, `exec` (one thread per node of a batch, any order),
  `apply` (results in rank order, a checkpoint after each). A failing checkpoint is
  logged and ignored by the code, and so in the model; a load that fails is taken for
  a run never begun (`StartBlind`). Outside a pass the user decides, approvals expire,
  the process crashes, and the definition becomes another one: the editor keeps its
  version (`EditGraph`), an import brings any (`import_json`). `origin` and `cpOrigin`
  remember which definitions the work stems from, `blind` that the load failed.
* **WorkflowRunner**: the walk (`Advance`, `Visit`, `Settled`), the step (resolve,
  confirmation gate, execute, binding), `Run` and `resume`. A resolve or an execute
  answers anything; the policy table decides.
* **McpExecutor**: `execute` holds its mutexes throughout, so one execution is in
  progress and the server interleaves with it: it reads a line, answers, writes a
  note or a stray line, closes its output, dies. `config` is the configured server:
  persistent or not, handshake or stateless profile. A timeout may fire whenever an
  answer is awaited, and none while a line is written: a call's line may be too long
  for the pipe, and any line is once the server has left one unread (`Blocked`), until
  the server reads it (`Drain`) or dies.
* **IndexCoordinator**: recv, recovery, sweep, bridge, verify, commit in this order;
  the file system and the watchers move between any two. `blind` is a history
  variable: files that changed while no watcher was live.
* **FileIndex**: rows under `apply_batch`, rescan, rebuild, trimming of the history
  and searches with the full-text table and its repair. Two spellings of one path
  are one file on the disk and two keys in SQLite; a batch brings the path folded to
  lower case (`Verified`), a scan brings it as it is on the disk.
* **AgentPlanning, AgentLoop**: a goal is a verb and a length, a model answer a list
  of steps with a vocabulary each; `run_agent` is a program counter with the calls of
  the model, the sink and the executor as moments at which others move.
* **ConfirmRouting**: two agents, or an agent and a workflow, with the global slots,
  the closures queued for the event loop, the 150 ms poll and the five minutes.
* **LauncherPopup**: `threads` is the bag of timers, searches, refreshes and
  executions under way, `posts` the queue of the event loop. `results` is the list in
  AppState, `rows` the one on the screen. A plan bounds how often each input comes.
  `busy` is the callback of Enter, a click or a shortcut between the sections in which it
  holds the lock: it looks the command up, compares the contexts, resolves the action
  and asks for or takes the confirmation, while other threads move in between.
* **SearchCore**: a cache keyed by text and four generations, its budgets and
  times to live; a search reads the generations first and stores at the end.
* **Ranking**: candidates are tiers of matching (exact, prefix, inside, none) on title,
  words and keywords, of a query of one token or of several; scores are the numbers of
  the code. `fuzzy_score` is a recursive function over characters; its twin
  `fuzzy_match` has no caller. One provider gives one id to two targets.
* **IconCache**: one lookup goes through memory, disk, extraction, temporary file and
  rename; any file may be damaged or refuse to be read or written, which counts for
  that icon, and the launcher may restart at will, which counts for none.
* **PluginLifecycle** holds the counter in memory and in the registry row with
  restarts; a statement, a read and a copy to the backup may fail. `strikes` counts the
  failures in a row, `lost` those that no row counts any more. **PluginRegistry** has the
  tables with backup, damage and reopening; `last` holds the words of the host that are
  in force, more than one where a failed copy left the older one alive, `held` those
  that the file has. **PluginWire** is one line each way, with lines nobody asked for
  and timeouts.
* **PackageManager**: the depth-first resolution of a request against an index with chains,
  cycles and ids that nobody offers, dependency-first plans, the step that fails at any point, the
  rollback that is refused in part, crashes between rename and removal. `execution` is what
  the last execution put in place and what it could not take back; it outlives the
  command, so that what a refused or killed rollback leaves is judged, too.
* **ToolSurface**: the mutex `holder`, the threads that wait for it, what was posted.
* **McpHttp**: a credential is of an issuer; a call loads one, refreshes it if it has
  expired, and sends. `SavedElsewhere` is another process that writes the credential store
  of Windows at any moment. The provider projects tools and is reloaded by notifications.
* **RuntimeManager**: sessions with processes and jobs, idle eviction, the budget.
* **ShellSettings**: `file`, `temp` and open handles (a rename moves what a handle
  writes), the marker of the start, the stamp main takes, the reload on summon.
* **WorkflowEditor**: edits with two stacks, of which undo is bounded; **TriggerQueue**: rows and a
  consumer that dies; **Conditions**: the recursive descent over tokens against the
  grammar as a set of readings; **SystemEffects**: handles that are given out again;
  **BoundedAgent**: five budgets, catalog that changes, two planners.

## 3. Runs

| Run | Instance | Shows |
|---|---|---|
| `dag` | a fork and a triangle with one gate, edited into each other under one version or imported as another; two faults: crash, cancellation, failing statement or load, failing step | a gated node needs its approval, joins hold in memory and on disk, no stall, nothing recorded runs again unless its load failed, every run ends |
| `runner` | every valid three-step definition of the family in `MCWorkflowRunner`, two resumes, at most four visits | nothing unconfirmed runs, nothing that succeeded is replayed, a run stops |
| `mcp` | servers ephemeral or persistent, with or without handshake; three executions, three faults; a server that stops answering or reading | an answer belongs to its call and a call runs once, the slot is released, an execution returns unless its line stays unread |
| `index_roots` | one root, two files, two changes, two faults of three kinds | no update lost while a watcher lives, rows converge to the disk |
| `agent_runs` | two agents, or an agent and a workflow; two keys, five answers of the model | what is risky ran only when its own request was granted, nothing of a run stays in the slots, what succeeded is not repeated, every run ends |
| `popup_runs` | five plans of keys (see `MCLauncherPopup`) | the answers on the screen never go back (refinement of `SearchSession`), the newest one is shown, a confirmation is used in the popup that armed it |
| `desktop` | search, ranking, icons, catalog, favorites, coordinator, file rows, settings, editor, triggers, effects, bounded agent | cached answers are no older than the search; nothing that matched is lost; one extraction whatever restarts; one entry; pins are favorites; complete is complete; one row per file; true stamps; undo, graph and redo one line of edits; events once and in order; effects on their target and within grants; failures not revived |
| `plugins` | lifecycle, registry, packages, wire, tool window, HTTP, runtimes | three strikes over restarts; nothing granted that was not said; plans and rollbacks; own answers; the session on the screen; issuers not mixed, whoever writes the store; no process outlives its job |
| `conditions` | every sequence of up to six of nine tokens | a condition has the one reading of the grammar |
| `runner_autoconfirm` (violation) | two confirmation steps in a row | one confirmation serves both |
| `index_recovery` (violation) | two roots, an overflow | the recovery does not rescan the root |
| `agent_shown` (violation) | as `agent_runs` | a plan not yet shown can be confirmed |

**Bounds.** Three nodes are the smallest number with a join, a fork and a chain.
Three steps hold a jump forwards, one backwards and a skipped step. Three executions
are a fault, its fallout and a recovery or a reuse. Two files and two changes hold a
rename and a change that overtakes the batch of the first; two faults hold a watcher
that dies while its predecessor's exit message is under way. Two runs are enough
for one to take the other's slot, two keys to confirm one plan and cancel another.
The popup's plans hold each input once, and twice where a second summons, a second
shortcut or a second scope matters. In the sums: two commands and four moves fill and
evict the cache of two entries; three faults are the threshold of quarantine and
eight calls hold them with a restart in between; three packages hold a chain, a
shared dependency and a cycle; two callers and five calls overlap every pair of
statements of favorites; four starts reach the degraded start; three lives of one
handle are observed, reused and reused again; five tokens hold two binary operators
(`x or x and x`), the sixth a negation of either side, and a pair of parentheses around
one operation leaves a token for what follows or is missing; four turns hold two replans
and a repetition. `MCDagScheduler`, `MCPlugins` and the others say which sets these are.

`OneRowPerFile` holds under a restriction, in the run and in its theorem: names are
ASCII (`Foreign = {}`), and the pattern of a root matches that root (`MCPlain`).

What the properties excuse, because the code has no answer to it, is named in them:
`NeverRepeatRecorded` a pass that could not load the checkpoint, `ExecutionReturns` a line
that stays unread, `ThreeStrikes` failures whose statement failed or whose file was lost
before it was copied, `FailClosed` a word taken back that no backup has yet,
`PackagesSound` the package whose own removal was refused, `StampIsTrue` a file written
between the load and the stamp of the start (`missed`), `EffectsWithinPolicy` a target
that is replaced after the adapter's last look, `DrivesWhatItShows` two tools opened at
the same time.

Deadlock is not checked except for the DAG scheduler, whose host can always start
another pass: elsewhere a finished run, a spent budget or a quiet file system is no
error.

**Fairness.** `dag`: a pass makes progress, the host drives an unfinished run again,
the user answers open approvals; faults are finite. `runner`: the walk and its host
calls return, they have timeouts. `mcp`: only the launcher's thread is fair; the
server owes nothing, neither an answer, which the timeout of `read_line` replaces, nor
the reading of a line (`Drain`), which nothing replaces. `index_roots`:
threads run, the tick comes round (strong fairness of `Verify`, which is enabled in
every iteration and not in between), and a scheduled root that exists is due at last
(the backoff is capped at 60 s). `agent_runs`: a run's thread is scheduled and its
request expires at last; the user owes nothing. `popup_runs`: threads are scheduled, a
callback goes on to its end and the event loop takes its queue; keys are never owed. `desktop`, `plugins` and
`conditions` check safety only.

## 4. Disagreements between code and comments

Kept as runs ("findings" in `PROJECT.json`): `runner_autoconfirm`,
`index_recovery`, `agent_shown`.

Stated in a module and violated by its model; a run of the module with the
statement as its property shows a behaviour:

| Statement | What the code does |
|---|---|
| `DagScheduler!ConsumeOnce` (approval.rs:5) | a decision is only read; a step whose result was not recorded runs again on it |
| `DagScheduler!FinishedNeverRepeat` (docs/history/108-p26-batch4-scheduler.md:15) | a load that fails is taken for a run never begun (scheduler.rs:72): recorded steps run again and the checkpoint is replaced by less |
| `DagScheduler!OneDefinition` (../files2/P2/P2.6 测试方案.md, section 15: a run begun under v1 goes on under v1) | the checkpoint is compared by id and version, which an edit does not change (editor.rs:47-99): a run goes on under other edges and gates |
| `McpExecutor!NeverHangs` (crates/launcher-mcp/tests/security_transport.rs:3) | `write_line` has no deadline (process.rs:195-203): a server that stops reading holds the execution for ever |
| `McpExecutor!FalloutBounded` (executor.rs:440) | in the stateless profile a late answer desynchronises a persistent transport for good |
| `IndexCoordinator!NoRebuildGap` (coordinator.rs:77-81, 103) | the watcher thread may open its root after the start-up scan |
| `ConfirmRouting!SessionMatchesStop` (agent_session.rs) | a transition that is not legal is refused and dropped |
| `LauncherPopup!NothingStaleExecutes` (main.rs:960-961) | the contexts are compared in a lock section before the one that resolves the action, and the comparison is of numbers that `set_results` makes equal for an older list |
| `LauncherPopup!AnswersText`, `ScreenIsExecutable` (main.rs:663, 838-860) | an older text may be numbered later; rows and results are replaced by different threads |
| `SearchCore!CurrentCommands` | context commands change without a generation of the key |
| `Ranking!ExactStaysFirst` (launcher-core lib.rs:214-216) | uses add up to 30 and an age of a day 6 more, which lifts a contained title of an application over an exact one of a file |
| `Ranking!FuzzyIsSubsequence` (fuzzy.rs) | a candidate shorter than the query may match |
| `SearchCoordinator!NeverKilled` (search_coordinator.rs:12-13) | a poisoned lock, or results indexed by another provider's place, panics the search |
| `Favorites!Bounded`, `NeverErased`, `SnapshotConsistent` | limits are checked outside the transaction; a file that does not open is replaced; the snapshot is two statements |
| `FileIndex!RescanBounded` (lib.rs:461-464) | the `_` of a path is a wildcard of LIKE |
| `FileIndex!AsObserved` (domain file_change.rs:36-37) | the coordinator verifies the path it has folded to lower case (coordinator.rs:322-341, 478-487), and that is what the row says |
| `FileIndex!SearchComplete` | rescan and rebuild leave the full-text table as it was |
| `IconCache!IconsCurrent` (domain/icon.rs) | the revision of the key is always 0 |
| `AppCatalog!StableIds` (app_registry.rs:93-96) | the catalog keeps the path of the source that is first by name, discovery that of the first shortcut |
| `PluginLifecycle!ReenableLifts` (plugin.rs:8-9) | enabling leaves the quarantine flag |
| `PluginRegistry!OnlyPath` (plugin_registry.rs:424-426) | a backup that was copied before a trust was revoked, and not after it, brings it back when the file is damaged |
| `PluginRegistry!SwitchKept`, `RevisionCounts` | a missing or empty file is created anew without its backup; `record_success` and a restored backup do not advance the revision |
| `PackageManager!AsIfNeverStarted`, `StagedInvisible` (transactional.rs:5) | the failing step is not undone; staging directories are scanned at boot |
| `McpHttp!DenyDisables` (providers/mcp.rs:94) | commands are projected again only by a reload |
| `RuntimeManager!NoOrphans` (process.rs) | a child that could not be put into the job stays, suspended, when its session is dropped |
| `ToolSurface!StaleIgnored` (../files2/P3/P3-UI Plugin & Interactive Tool 1.0 设计规范.md, section 71) | `tool_request` compares no ids (plugin-host lib.rs:697-713): the answer of an event that timed out is drawn for the next one |
| `ToolSurface!ClosedTakesNoEvents`, `KnownNodesOnly` (tool.rs, section 28) | events are relayed unchecked |
| `ShellSettings!NeverHalfWritten` | both writers use one temporary name |
| `ShellSettings!CrashLoopDegrades`, `HotkeyApplied` | a marker that says healthy is left alone, so the starts that die after it are not counted; the window class is never unregistered, so the new key is refused |
| `WorkflowEditor!UndoRollsBack` (editor.rs:139) | a refused edit pushes an entry too, so the next undo changes nothing |
| `SystemEffects!ActsOnTarget` (system_adapter.rs:49-50) | the process is opened anew between verification and effect |
| `Conditions!DepthBounded` (expr.rs:67) | a chain of `and` or `or` nests without counting |
| `BoundedAgent!FailuresBounded` (agent.rs) | failures are counted once per turn |

Met while modelling, without a statement in a module:

* scheduler.rs:254 evaluates conditions of every unfinished node, not only where all
  incoming edges are settled (246); graph.rs:60: an edge condition is never read.
* launcher-workflow lib.rs:619 admits two extra resolves, its comment says one; 208: a resumed walk may run a
  step that a branch had jumped over; workflow confirmations sent before a pause
  are buffered.
* executor.rs:453 keeps the dead transport after a broken pipe, 236 says a failed call
  evicts it; core/lib.rs:663 builds an executor for every call, so nothing is reused.
* coordinator.rs:393: a root missing at start is never polled; 54: `stop` has no effect;
  415: an overflow of one root drops the events of all.
* Settings: main takes the stamp after `build_core`; `load_or_create` returns defaults
  with a stamp on a read error; showing from the tray never reloads; the status of a
  captured hot key hides a failed save; "重启后生效" contradicts the hot reload; hiding
  by hot key keeps the pending confirmation.
* Workflow triggers: an event whose definition is missing, or whose launcher dies after
  dequeue, is lost; handoff may be consumed twice.
* Search: `set_favorites` refreshes the snapshot before it attaches the store
  (core/lib.rs:242); partial results are cached; the key lacks the limit; the cache is
  first in, first out although called LRU; Esc cancels only the newest run.
* Plugins: a failed copy of the registry's backup is only logged (plugin_registry.rs:524-528);
  `spawn_failed_until` is never set; a query's success resets the failures in
  memory only, a business error records a success; `expand_env` mixes byte and
  character indices; `TOOL_SESSION` is
  never cleared; a crash between the removal of the target and the rename leaves no
  package.
* HTTP: ureq turns a 401 into an error, so refresh and retry is not reached;
  `storage_key` omits the resource origin.
* A catalog that fails to open is deleted; `to_config_json` omits two weights;
  `SystemPolicy.denied_operations` is never consulted; `window_close` reports success
  when PostMessage fails; the search coordinator and the runtime manager are used by
  tests and benchmarks only; `use_runtime` never consults the budget; conditions have
  no short circuit; `lower()` folds ASCII only; `post_status` tests for "?" where errors
  start with "⚠"; the bounded agent's planner timeout is unused, exhausted turns end
  Failed and an empty replan Completed.

## 5. Proofs

All proofs are for arbitrary constants; the assumptions are the named ASSUMEs
(`RoutingAssumption`, `IndexAssumption`, ..., `MarksAssumption`, `InputsAssumption` and
`PluginsAssumption` of the sums: what is a sequence is one, bounds are numbers, marks are
no values, a search has a worker, a machine has finitely many programs, a repository
finitely many packages with a list of dependencies each, a candidate matches in a tier and
has boosts of zero and up) and, for `RowsAreFiles`, the restriction named in section 3. Every proof has one shape: an
invariant `IInv` made of named parts, a lemma per action that the parts survive it, a
lemma that collects the actions, and the theorems, which only weaken `IInv` or read an
action property off its steps.

`DagScheduler_proofs`. `IInv` is `TypeOK`, the two safety properties
`PredecessorClosed` and `GatedOnlyIfApproved`, and three strengthenings:
`PcShape` (which locals are empty where, and that a pass stems from the definition it
runs, a checkpoint from some), `BatchReady` (nodes in the gate or the batch are ready
and unfinished under the definition of the pass: without it applying a result could
break the join) and `AheadOfCheckpoint` (a pass that could load its checkpoint knows
everything it knows: without it a checkpoint could lose nodes). Because edits keep the
version, what a checkpoint records may have been done under another definition; what is
said of it is said as long as one definition did all the work (`origin`, `cpOrigin`), and
what is said of the nodes handed to the executor is said of the definition of the pass
without that condition. From `IInv`: `TypeCorrect`,
`ApprovalSafety`, `JoinSafety`; and the action properties `RecordedNeverRepeats`,
`ProgressIsDurable`, `DecisionFinality`. `StallFree` needs no strengthening but an
argument: in a validated (acyclic, ranked) graph an unsettled node of least rank
has all predecessors settled, so it is runnable or its condition skips it.

`WorkflowRunner_proofs`. `IInv` is `TypeOK`, `FailureOutranksTransitions`,
`OnlyCompleteStepsCommit`, `NothingUnconfirmed`, with `PcShape` (a walk means
Running; a confirmation step is executed only with the flag, and the flag only after
a resume) and `OkComplete` (a step that succeeded is Complete unless its binding
failed the run). From it: `TypeCorrect`, `FailureIsFinal`, `CommitSafety`,
`ConfirmationSafety`, and `ReplaySafety` as an action property.

`McpExecutor_proofs`. `OwnAnswer` is not inductive: what a line answers is decided
when its request is written, several faults earlier. The strengthenings say what the
pipes may hold: `IdsIssued` (an id is used once on a process), `CallsOnce` (a call the
server has not read was not performed, and an execution wrote one such request) and
`Awaited` (while an answer is awaited, its id stands for this call alone), with
`SessionHasProcess` and `NeverBusy` for `SlotReleased`. Theorems: `TypeCorrect`,
`AnswerSafety`, `SlotSafety`, and `ReadySafety` (a session that is ready has shaken
hands), which no run states.

`ConfirmRouting_proofs`. `RunsOK` carries the argument: a run is `Authorized` before it
executes steps, its attempts bound the calls made (`Reached`), its step ids are distinct
and a replan is `Fresh`; `SinkAsks` and `TokensCounted` say that the sender in a slot
belongs to a run that asks, so a key decides that run's request and no other. Theorems:
`TypeCorrect`, `ApprovedOnly`, `NothingLeft`, and `Immutable` as an action property.

`LauncherPopup_proofs`. `Numbered`: the number of a search without an answer is held
once, by its thread or by the closure it posted, and by none after it was drawn. With
it every step is a `Begin`, a `Publish` or a stutter of `SearchSession`: the theorem
`Implements` is the refinement the run checks as `NewestOnly`. `PendingIsCurrent` (what is
armed belongs to the popup that shows) gives `ConfirmationSafety`.

`IndexCoordinator_proofs`. `Known` says where a change may be: a file whose row differs
from the disk is noticed (queue, coalescer, batch, pass), a recovery of its root is
ahead, its watcher was blind, or its root overflowed; `Passes` says the same of a
verification that has begun. Without the pass a sweep that overtakes a change would
seem to lose it. Theorems: `NoUpdateLost`, and `Attendance` (no root that exists is
left without watcher, message or date), which no run states.

`PluginServices_proofs` and `DesktopServices_proofs` prove the components of the two
sums. Each component has its own invariant and theorem-like lemma (`Wire_Safety`,
`Icons_Safety`), a lemma that a step of the sum is a step of the component or leaves it
alone (`Wire_Unit`), and the theorem about the sum, which is what the run checks.

| Theorem | Property | Strengthening |
|---|---|---|
| `QuarantineSafety` | `ThreeStrikes` | row and backup are honest (three failures counted are a quarantine); the row has counted every strike but the lost ones, the backup all but those and the ones since its last copy |
| `RegistryFailsClosed` | `FailClosed` | tables and backup are each covered by the host's words in force, so that a start may take either; the tables also by the words they hold, all that is left once a copy succeeds |
| `OwnAnswers` | `AnswerIsOwn` | without stray lines there is one line at a time under way, and it is of the current call |
| `TreeSafety`, `EntriesHold` | `TreeDies` | an entry has a session of its own that was not dropped, and a job; what was dropped is buried with its job; the counts stay within the policy |
| `OwnTokens` | `NoMixUp` | the token of a call in progress, the one it refreshes with included, is the configured issuer's, whatever the store is made to hold in between |
| `SurfaceIsDriven` | `DrivesWhatItShows` | the last opening post in the queue is of the session in the slot |
| `PinsStayFavorites` | `PinsAreFavorites` | inductive as it stands |
| `TriggersOnceInOrder` | `OnceInOrder` | what was consumed is older than what waits |
| `IconsExtractedOnce` | `ExtractedOnce` | what was extracted is in its file or with the call that will write it, or was lost to a fault of its own: then there are no more extractions than faults |
| `AnswersAreNeverOlder` | `NeverOlder` | a cached entry is current for the generations of its key |
| `StampsAreTrue` | `StampIsTrue` | the same for the start and the reload in progress |
| `EditorTimeline` | `OneTimeline` | both stacks hold graphs, and each, ended by the graph, is linked by single edits; pushing, popping and forgetting the oldest keep the links |
| `EffectsStayWithinPolicy` | `EffectsWithinPolicy` | an operation under way was built, allowed, authorised and targeted by the step before; more grants allow no less |
| `RowsAreFiles` | `OneRowPerFile` | inductive as it stands, with what a batch verified and what a scan found being one spelling each |
| `FailuresStayDown` | `NeverRevives` | what failed was observed, and what failed in an earlier turn is not in the plan |
| `CompleteSearches` | `CompleteIsAll` | each position that no living worker has ahead of it has answered, or has panicked and poisoned its lock; the selected ones are in order |
| `OneEntryEach` | `OneEntryPerApp` | between commit and provider the rows are one for each identity found, with all its observers |
| `PackagesStaySound` | `PackagesSound` | while a plan is carried out its first steps are done and no others; taken back, it is in order the other way round, and what it still owes is left in the plan; what it promises stays when it is over or killed, until another command; a resolution that did not fail is a plan in order, apart from what is visited, and what is visited needs what is asked next |
| `RankedBest` | `RankingSound` | what the matcher holds after each character is an earliest embedding of the query; the sorted listing of a finite set exists |

The search coordinator and the bounded agent filter sequences. A filter is the numbers
kept, in their order (`Increasing`), and that they can be listed is an induction over
their largest one, done as a least counterexample (`AllListed`); one lemma serves both.
`OneEntryEach` needs that a finite set of shortcuts can be enumerated and that rows are
no more than identities; both come from the library's theorems on cardinality.

Resolution and the matcher recurse. They are recursive functions, not RECURSIVE operators,
and what such a function is comes first: one that takes a step for each number up to n has a
value after each (`Package_Recursion`, `Ranking_Recursion`, by a least counterexample), so
the CHOOSE of its definition finds it. `emit` calls itself; the model counts how deep it may
still go, and the index of n packages is at most n deep because what is visited is not entered
again: the bound of the function is never what ends a resolution (`Package_VisitedDone`
carries `Package_Room` down). That an error has a reason is `Package_Doomed`, that a result
holds nothing superfluous is stated against every closed set, so that `Needed`, the least
of them, needs no induction of its own.

`RankKeepsBest` says "or the better answer its provider gave under its id" because a provider
may give one id to two targets: then the worse of them goes with nothing left behind, and the
unqualified sentence is false. The run's first provider does so.

`ProgressIsDurable`, `DecisionFinality`, `FailureOutranksTransitions`,
`OnlyCompleteStepsCommit`, `ReadyIsHandshaken`, `NeverAbandoned` and the type invariants
of these modules are proved and in no run. Only model-checked:

* liveness (`RunEnds`, `RunStops`, `ExecutionReturns`, `EventuallyConsistent`, `RunsEnd`,
  `NewestPublished`): the prover does not handle fairness and ENABLED;
* `ParsesAsGrammar`: the parser of conditions is written with RECURSIVE operators, and that
  it agrees with the grammar is an induction over expressions.

## 6. Plan

Every safety property of the runs is proved but for `ParsesAsGrammar`. What is left, most
useful first:

1. `Conditions`: the parser as a function of the tokens that remain, as `emit` is a function
   of the depth that remains, so that `ParsesAsGrammar` comes within reach.
2. `IndexCoordinator`: what becomes of a change under a root that overflowed, which
   `NoUpdateLost` leaves out.

## 7. Not modelled

Formatting, logging, rendering, layout and Win32 calls; file formats, the lexer of
conditions, pinyin and texts beyond tiers of matching; time itself (timeouts and
expiry may happen whenever the code allows them). Of the modelled components:
`close_for_runtime`, `list_tools` and `server/discover` of MCP, which this executor
never calls; signatures and the audit chain of packages; the address policy, PKCE and
metadata parsing of HTTP, which are outcomes; subdirectories, failing statements and
roots that are missing at start in `IndexCoordinator`; the other pages of the
management window.

Components without a module: the indexer service (a process around the coordinator),
core providers, packaged apps and recent files (conversions of one source),
the prompt, redaction and telemetry of the AI crate (nothing the loop decides
on; `validate_plan` is called by tests only), context capture, domain tables, test
plugins, example servers and benchmarks.
