# Cyclopsctl: formal specifications

TLA+ modules, TLC models and TLAPS proofs of Cyclopsctl, the command line program
that drives a coding agent through a task queue: per task one *implementation*
phase and one *update* phase of the same agent, and a verification that the agent
has handed over to the next task.  Paths below are relative to `src/cyclopsctl/`
in the repository; `docs/` is the repository's documentation.

Contents: 1 inventory, 2 modules and how they correspond to the code, 3 runs,
4 theorems, 5 what the models disagree with, 6 abstractions and what is left out,
7 plan.

## 1. Inventory

54 Python modules, about 20,700 lines.  The run loop and what it calls (sections
1.1 to 1.3) is the program's own core; around it are setup and the generation of the
files agents read (1.4), and interactive menus.

### 1.1 The run loop

| part | file (lines) | state it keeps | operations |
|---|---|---|---|
| run loop | `loop.py` (1304) | cycle index, outcomes, the resolver's exclusions, snapshots of one attempt | `run_cycles`, `_run_cycle_loop`, `_resolve_runnable_task`, `_run_cycle_with_retry`, `_run_single_cycle`, `_run_implementation_phase`, `_persist_run_history` |
| session | `session.py` (178) | `_agent`, the failure a same-agent continue followed | `start_implementation`, `run_update`, `close` |
| interrupt | `interrupt.py` (112) | the stop flag, the registered session | `request_stop` (signal handler), `set_active_session`, `raise_if_interrupted` |
| runner | `runner.py` (941) | none | `create_local_agent`, `send_and_wait`, classification of `AgentRunError` |
| task selection | `task_selection.py` (291) | `call_count`, `pin_consumed` | `resolve_cycle_task` over handover, list, `tasks next`, pin |
| alignment | `alignment.py` (180) | none | `verify_handover_alignment` |
| verification | `verify.py` (354) | none | guard of the handover files, `verify_handover_advanced`, `verify_ai_context_after_update` |
| prompts | `prompt.py` (417) | none | marker parsing, snapshots, composing of agent prompts |
| routing | `routing.py` (779), `models.py` (815) | runtime switches for premium models | `route`, `disable_premium_models` |
| state file | `state.py` (310) | `.cyclopsctl/state.json` | `persist`, `mark_completed`, `mark_interrupted`, `read_state`, `write_atomic` |
| history | `history.py` (419) | `.cyclopsctl/run-history.json` | `read_history`, `write_history`, `resolve_startup` |
| command line | `cli.py` (1284), `config.py` (1110), `errors.py` (56) | none | `_run_command`, `build_run_config`, `exit_code_for` |

Interactions: `_run_command` builds the configuration, installs the SIGINT handler
and calls `run_cycles`.  Each turn of the loop selects a task, runs a cycle and
verifies it.  The agent is another process that edits the same project files
(queue, handover, `ai-context.md`) while the program waits for it.  The signal
handler runs between any two bytecodes of the main thread and closes the
registered session under it.  State file and history are the only memory between
two runs, besides the project files themselves.

What is hard here: edits of the agent at any time of a phase; Ctrl+C between two
steps of the session; nested retries (same-agent continue, premium fallback,
fresh-agent retry of the cycle); files read at three moments (selection,
alignment, prompt); failures after some cycles were verified; what a resumed run
concludes from what the last one left.

What makes it correct: no agent is leaked; the update phase talks to the agent
that implemented and starts from unmodified handover files; a cycle counts only
if the handover moved on; Ctrl+C bounds the work that follows; completed work is
recorded and not repeated; the state file does not contradict the exit code; a
dry run changes nothing; runs end.

### 1.2 The task queue

| part | file (lines) | state | operations |
|---|---|---|---|
| native queue | `tasks/cli.py` (917), `tasks/types.py` (59) | one tag of the task file | list, next, show, set-status, tags, use-tag |
| store | `tasks/store.py` (406), `tasks/models.py` (138) | tags of `tasks.json` | load, merge and save one tag, dependency cycle check |
| backends | `tasks/backend.py` (218), `tasks/native_backend.py` (219) | none | dispatch, add a tag |
| PRD parsing | `tasks/parse_prd.py` (476) | none | generated tasks appended with new ids, dependencies remapped |
| analysis | `tasks/analyze.py` (555) | complexity report | per-task scores, to the report and back into the queue |
| bootstrap model | `tasks/bootstrap_model.py` (476) | none | prompts to a model for task generation |

Correct when: `next` gives a task that may be started; ids are unique within a
tag; dependencies name tasks and form no cycle; saving one tag keeps the others;
append keeps what was there; a score belongs to the task that was judged.  Hard: two
writers of one file, model calls of a minute between reading and writing, ids that
repeat in every tag, numbering of appended tasks.

### 1.3 The SDK bridge and the models

`sdk_bridge.py` (411) starts the helper process of the agent SDK on Windows,
registers it, replaces it before a retry when it died, and closes it when its
context is left and once more at exit.  State: the list of open bridges, two
environment variables, the default client of the SDK, which a bridge must all agree
on.  Every command but `doctor` opens a context; `launch` runs other commands inside
its own.  `models.py` (815) finds presets in the model listing of an account, and
`routing.py` (779) chooses one of them per attempt, by the complexity score, from the
`[routing]` section, a rules file and overrides of the command line; premium families
are switched off for the rest of a run after a billing failure.

Correct when at most one live helper belongs to the program, no exit leaves one
behind, a retry does not talk to the bridge that refused it, and a premium or a fast
model, which cost more, is used only as configured.  Hard: the helper dies between
any two steps; Ctrl+C where no handler is installed; a relaunch that fails half way;
a listing that lacks what a rule names.

### 1.4 Setup and surroundings

| part | file (lines) | note |
|---|---|---|
| setup wizard | `project_setup.py` (1534) | `init`, and `launch` of a changed PRD: parse, analysis, handover, and the record of the parsed PRD |
| generation | `workflow_gen.py` (896), `init_scaffold.py` (531), `bootstrap.py` (385) | the files agents read, the scaffold, `.gitignore`; what a dry run lists |
| launcher | `launcher.py` (1353) | menus that build a command line; repair of the workspace before a run |
| dashboard | `tui.py` (1192) | view of the state file and the log |
| doctor | `doctor.py` (1093) | checks that only read, and a probe of the bridge |
| installer | `installer.py` (314) | wraps pip and shell profiles |
| logging, reports | `logging.py` (335), `failure_report.py` (220), `git_summary.py` (90) | output only |
| profiles, environment | `profiles.py` (180) and others | settings files |

Wizard and generation are the ones whose order of steps matters.  `init`, `launch`,
`bootstrap` and `analyze-complexity` share the pipelines of 1.2 and six files: PRD,
task document, current tag, report, handover, record of the last parsed PRD.  Each
of the files is read by commands that did not write it, and each command may be
stopped after any of its writes.

Correct when: work is never lost unasked; a PRD that changed is not parsed over the
tasks of the old one; `init` is idempotent; after a `launch` the new phase is
complete.  Hard: a missing `--tag` means the current tag, the recorded tag or
`master`, depending on who asks; the operator goes on working while a model
answers; each step's idea of "already done" is a file another step or phase wrote.

Generation writes eight files and directories and the lines of `.gitignore`.  Each
writer has its own idea of when a file may be replaced: it is missing, it is the
bundled stub, it is stale, or `--force` names it; `init --dry-run` decides in functions
of its own.  Correct when no text of a person is replaced unasked, `init` repairs
what a killed command left, `--refresh-workflow` removes the note about stale files,
and the dry run tells what `init` will do.  Hard: a kill inside `write_text` leaves an
empty file, which is neither missing nor a stub; an operator who edits between two
steps; four callers in four orders.

The hazards of the code, each at its line, are in `PROJECT.json` under
`hazards`, with the properties that cover them.

## 2. Modules

```
TaskQueue  <-  Handover  <-+
                           +-  RunLoop  <-  MCRunLoop        (TLC)
RetryPolicy              <-+      ^
                                  |
                     RunContract <- RunRefinement            (INSTANCE ... WITH)
                                  |
TaskQueueProofs (on Handover) <- RunLoopProofs <- RunLoopVerified            (TLAPS)

AtomicFile  <-  MCAtomicFile (TLC),  AtomicFileProofs (TLAPS)

TaskStore  <-  ProjectSetup  <-  MCProjectSetup (TLC),  ProjectSetupProofs (TLAPS)

                SdkBridge  <-+
                             +-  AgentRuntime  <-  MCAgentRuntime (TLC),
ModelCatalogue  <-  Routing <-+     SdkBridgeProofs, AgentRuntimeProofs (TLAPS)

WorkflowFiles  <-  MCWorkflowFiles (TLC),  WorkflowFilesProofs (TLAPS)
```

* **TaskQueue** is `tasks/cli.py` as the loop uses it: a queue is a function from
  task ids to statuses, `Deps` the dependency lists.  `ListPending` keeps the code's
  meaning of `--status pending`, which is "not done".
* **Handover** has every decision taken on `current-handover-prompt.md`: selection
  (`task_selection.py`), strict alignment (`alignment.py`) and the checks after the
  update phase (`verify.py`).  A handover is a record `[id, rev]`: `id` the number
  of its `# Task ID:` marker or `NoMarker`, `rev` the text besides it, so that two
  texts are equal exactly if their hashes are.  A file that is not there is
  `Missing`.
* **RetryPolicy** classifies an `AgentRunError` by the five facts that `runner.py`
  and `session.py` extract from it.
* **RunLoop** is the state machine: `loop.py` with `session.py`, `interrupt.py`,
  `state.py`, `history.py` and `_run_command`.
* **MCRunLoop** has the small instances for TLC; it extends RunRefinement.
* **RunContract** is what a run promises, with nothing of how it works: it works on
  tasks, keeps a record of the verified ones, and its exit code tells whether the
  record is complete.  **RunRefinement** maps RunLoop to it.
* **AtomicFile** is one file under `write_atomic`, `clear_state` and `read_state`
  (`state.py`), one file system call per step.  RunLoop writes its files in one
  step; AtomicFile is what such a step consists of.
* **MCAtomicFile** is its small instance.
* **TaskStore** has the operators on the task document: a function from the tags
  there are to queues, a queue being a set of task records.  A file that is missing
  and one without tags are the same document, as no reader tells them apart.
* **ProjectSetup** is the state machine of `init`, `launch`, `bootstrap` and
  `analyze-complexity`, with the pipelines of `parse_prd.py` and `analyze.py` inside.
* **MCProjectSetup** is its small instance.
* **SdkBridge** is the life of the helper process through one invocation, for any
  command and with the body of the command left open.
* **ModelCatalogue** and **Routing** are the pure part of choosing a model: presets
  found in a listing (`models.py`), configuration merged and refused, and the decision
  (`routing.py`, the `[routing]` section of `config.py`).  All their definitions are
  operators.
* **AgentRuntime** composes them: the body of `run` as bridge and router see it, with
  the other commands around it.  RunLoop and AgentRuntime look at the same loop from
  two sides; each leaves to the other what it cannot see (RunLoop: which model, which
  endpoint; AgentRuntime: what is done to the project).
* **MCAgentRuntime** has its settings for TLC.
* **WorkflowFiles** is which command writes which of the generated files, over what,
  and in what order.  **MCWorkflowFiles** is its small instance.

TaskQueue and TaskStore both model `tasks/cli.py`: the run loop works on one tag
whose tasks and dependencies do not change, only their statuses; setup makes the
tasks.

### RunLoop: state and steps

The variables come in groups.  `status`, `handover`, `template`, `aiContext`,
`history` and `stateFile` are files, and survive the process.  The next group has
the locals of `run_cycles` and the resolver closure, the next the locals of one
cycle, the last the session and the agents of the SDK it has not given to `close`.

`pc` names the points between which the code runs undisturbed:

| `pc` | code that runs next |
|---|---|
| `off`, `exited` | no process; `Invoke` starts one with new settings |
| `startup` | `build_run_config`, `resolve_startup`, first-prompt validation |
| `head` | top of `_run_cycle_loop`: checkpoint "idle", interrupt check |
| `resolve` | one turn of `_resolve_runnable_task` |
| `resolved` | interrupt check, empty queue, checkpoint "resolve" |
| `prepare` | `_run_single_cycle` up to the implementation phase |
| `enter` | registration of the session, composing of the prompt |
| `create` | `start_implementation`: the SDK creates the agent |
| `implSend`, `implWait` | the prompt goes out; the agent works |
| `guard` | the implementation guard, the snapshot before the update |
| `snapshot`, `armUpdate` | interrupt check, registration for the update phase |
| `updSend`, `updWait` | as above, for the update prompt |
| `verify` | both verifications, completion of the cycle |
| `backoff` | bridge recovery and sleep before a retry |
| `finish`, `unwind` | end of the loop, or an exception on its way out |

`Sigint` and `Crash` are possible at each of these points.  Interrupt checks
that directly follow a wait are part of the step that ends the wait.  The agent's
edits of a phase are made in the step that ends the phase (`AgentEdits`): the
program reads none of the files while it waits, so earlier edits could not be
told apart.  An edit is any handover, template and ai-context of the given sets
and a new status for at most one task.

Details worth knowing when reading:

* `build_run_config` refuses to start without handover file or template, so a
  missing handover is something that happens during a run.
* `FileNotFoundError` and `PromptComposeError` are not in `KNOWN_RUN_ERRORS`:
  they end in a traceback and exit code 1 (`exc = "uncaught"`).
* `_persist_run_history` raises on a missing handover.  In `FinishRun` this turns
  success into an error; in `Unwind` it is swallowed and the history is lost.
* The guard raises *before* it restores under `--strict-handover`: the agent's
  edits stay on disk (`GuardRaises`).
* The task is selected once per cycle, but routing, fallback reason and snapshots
  are taken anew in every attempt (`PrepareCycle`).

### AtomicFile: state and steps

`target` is the file and `tmp` its neighbour with the suffix `.tmp`; each is a
complete text, `Absent`, or `Partial`, a text that is cut short.  The writer's `pc`
goes through `open` (the temporary file is truncated), `fill`, `unlink` (the old
file is removed if there is one) and `replace` (the rename); `down` is a process
that was killed, and may be at any of these points.  A reader looks whether the
file is there and reads it in a second step.  `before` is the file as it was when
`write_atomic` was called, kept for the properties.

There is one writer at a time: nothing in the code coordinates two, and the files
of a run have one owner, the running process.  The task file can have two; that is
part of the plan (TwoWriters).

### ProjectSetup: state and steps

| variable | file |
|---|---|
| `prd` | the PRD |
| `document`, `tag` | `.cyclopsctl/tasks/tasks.json` and the current tag in `state.json` beside it |
| `report` | `.cyclopsctl/reports/complexity-report.json` |
| `handover` | `current-handover-prompt.md`: the task it is for |
| `record` | `.cyclopsctl/last-parsed-prd.json`: text and tag |
| `scaffold` | whether `cyclopsctl.toml` and the workflow files exist |

`cmd`, `target`, `text` and `scored` are what a running command remembers; `calm` is
a history variable, false if the operator did something since the command began.

| `pc` | code that runs next |
|---|---|
| `idle`, `done` | no command, or one that has finished |
| `prepare` | `init`, with scaffold and handover template written: a missing record is filled in |
| `addTag`, `useTag` | `launch`: `add_tag`, `use_tag` |
| `begin` | `init` and `launch`, up to the model call of the parse |
| `parse` | the model answers; the queue is saved |
| `record` | `write_last_parsed_prd` of the parse pipeline |
| `analyze` | `analyze_complexity_with_cursor` up to its model call |
| `scoring`, `backfill` | the model answers, the report is saved; the queue gets the scores |
| `rerecord` | `init` writes the record once more, for `config.tag` or `master` |
| `sync` | the handover is written |
| `final` | `launch` writes the record once more |

The actions follow the code in how a tag is found: `NoTag` is a missing `--tag`, and
`Effective(named, default)` is called with the default of the place that asks: the
current tag, `master`, or the tag of the record.

The operator edits the PRD (deletes it, writes it again), runs `tasks use-tag` and
`tasks set-status` in another terminal, also while a model answers.  `Stop` is a
model that fails for good, any exception, Ctrl+C or a kill; what was written stays.
A command that refuses (a changed PRD, no tasks, no PRD) changes nothing and has no
action.  One setup command runs at a time.

A PRD text stands for content and path together: `launch` and `bootstrap` compare
both.  `init` compares the content alone, but reads one path.  A task's `text` is the
PRD it was made from, its `score` the text that was judged, so a complexity that was
given to another task of the same id is visible.  A parse may bring complexities itself,
judged from the text it was given.

### SdkBridge and AgentRuntime: state and steps

A bridge is the number of its launch, 0 (`NoBridge`) is none, -1 (`External`) an
endpoint that was configured before the program began.

| variable | code |
|---|---|
| `running` | the helper processes that run |
| `registry` | `_ACTIVE_BRIDGES` |
| `env`, `client` | the two environment variables, the default client of the SDK |
| `outer`, `inner` | the context `launch` opened, the one of the command itself, and what each yielded |
| `pc` | `enter`, `discover`, `install`, `relaunch`: inside `launch_bridge_for_windows`; `shutdown`, `terminate`: inside `ManagedBridge.close`; `body`, `leave`, `exit`: the command, the `finally` of a context, the atexit handler |
| `why` | whose launch or close it is: a context, recovery, or the exit |
| `lost` | history: bridges given up on; a process or an endpoint of theirs was left behind |

One action is the code between two calls that wait.  Between them the helper may die
(`BridgeDies`) and Ctrl+C may come: where `run` has its handler it sets a flag
(`Sigint`), anywhere else it is a `KeyboardInterrupt` (`Interrupt`).

AgentRuntime adds the locals of the run: the settings it found, cycle, attempt and
try, the runtime switch for premium models, the decision, and whether the attempt was
refused by the bridge.  `step` says what the body does next: `list` the models,
`route`, `work` (a call of the agent, which may be done, fail for billing, fail for a
reason that is retried, or fail), `recover`.

A model listing keeps of ids and names what the detection looks for in them: the
family, the generation, one word of the name, and of each variant its fast and
thinking toggles, effort and context.  A reference is one of the canonical aliases or an
id of `Ids`, which is sent as it is spelled; a setting's `ids` says which model of the
listing has it, if any.  `FamilyOf` and `MayBeFast` judge a selection by what it is in the
listing, however it was found: a premium model is premium if only its id was spelled,
and a Composer or Grok that says nothing of its speed may be fast.

### WorkflowFiles: state and steps

`file` maps each path to what its text is: missing, the bundled stub, rendered by
cyclopsctl, custom (a person's, with the references agents need), outdated (without
them), or empty, which is what a killed `write_text` leaves.  `ignore` has the lines of
`.gitignore`.  A command is the list `todo` of the steps it has still to do, made when
it starts by the operators named after its function (`InitSteps`, `BootstrapSteps`,
`PhaseSteps`, `LaunchSteps`); a step is an operation and a path, and its turn is one
action.  Whether it writes is decided then, by the predicate of its operation
(`ScaffoldNeeded`, `GenerationNeeded`, `RefreshNeeded`, `InstallNeeded`, `IgnoreNeeded`).

`Stop` ends a command between two steps, `KillInWrite` inside one.  The operator edits,
deletes and restores files at any time.  `planned`, `written` and `calm` are history
variables: what a dry run would have listed when the command began (files, and the
repairs `native tasks init` and `parse-prd`), what the command did of these, and whether
the operator left it alone.

## 3. Runs

| run | question | properties |
|---|---|---|
| `cycle` | one run, eight settings, all agent edits, failures, Ctrl+C, crashes | `TypeOK`, `NoLeakedAgent`, `AgentServesWholeCycle`, `StopBoundsWork`, `UpdateStartsFromAttemptStart`, `LaterCyclesHaveHandover`, `StrictPromptMatches`, `VerifiedCycleAdvances`, `DryRunTouchesNothing` |
| `resume` | two runs on one project, the second possibly resumed or pinned; does the loop implement RunContract? | `ResumeNeverReselects`, `VerifiedCyclesRecorded`, `StateFileTellsOutcome`, `ResumeKeepsHistory`, `ImplementsContract` |
| `live` | does a run end? | `RunEnds` |
| `setup` | two setup commands in a row, stopped anywhere, with an operator who edits, switches tags and sets statuses meanwhile | `TypeOK`, `QueuesWellFormed`, `ScoresFit`, `PhaseReady`, `InitReady`, `WorkKept`, `BootstrapReplacesSamePrd` |
| `runtime` | every command with its bridges that die, fail to launch or to close, and Ctrl+C in all of it; runs that list models, route each attempt and meet billing failures | `TypeOK`, `OneBridge`, `EndpointsAgree`, `NoOrphan`, `RetryAvoidsDeadBridge`, `PremiumGated`, `PremiumRunsAreFlagged`, `FastOnlyIfAsked`, `NestedKeepsBridge`, `CommandEnds` |
| `workflow` | two commands that generate files, one killed at any write, an operator who edits between any two steps | `TypeOK`, `RefreshCures`, `PlanKept`, `InitSettles`, `TextsKept` |
| `setup_reparse` | does `init` leave existing queues alone? (no) | `InitKeepsQueues` |
| `file` | `write_atomic` with readers and kills between its calls | `TypeOK`, `NeverCutShort`, `OldOrNewOnDisk` |
| `file_crash` | is the file still there after a kill? (no) | `OldOrNewAfterCrash` |
| `resume_prompt` | does a skipped task stay away from the agent? (no) | `SkippedTaskNeverPrompted` |
| `resume_ends` | does a resumed run end? (no) | `ResumedRunEnds` |
| `interrupt_exit` | does Ctrl+C exit with 130? (not always) | `InterruptedCycleExits130` |

Bounds:

* Two tasks, the second depending on the first.  That is enough for "another
  task" (selection, exclusion, alignment, advance) and for a dependency that
  blocks `tasks next`; one more adds states, no new branch.
* Handover texts: two for task 1 (a rewrite that keeps the marker), one for task 2,
  the queue-complete sentinel 0, a text without marker, and a missing file.  Every
  comparison in selection, guard and verification has both outcomes.
* Settings: every flag is set in some configuration of some run, in the
  combinations where it matters; two cycles without a retry and one cycle with one,
  not their product.
* Two agents: the session needs one, the second makes a leak possible to express.
  Agents are symmetric; the liveness runs use one agent and no symmetry.
* `MaxRuns` bounds the number of runs (one, or two where memory between runs is
  the question).  When it is reached the model stutters (`AllRunsDone`), so
  deadlock checking stays on and means that no process is ever stuck.
* AtomicFile: two texts (old and new), two readers, which do not affect each other,
  and two kills, so that a write begins with what a killed one left behind.
* ProjectSetup: two tags, of which one is `master`; two PRD texts and a missing PRD.
  Four task lists (a chain, a cycle, a dependency on a task only an older queue has,
  a queue that is done and has a complexity) and two initial documents (empty; ids with
  a gap and a dependency on a task that does not exist): with them a parse is accepted or
  refused, for its own cycle or for one that only append closes, there is something
  to analyse or not, and a next task or not.  Two commands (`MaxCommands`): the
  second meets what a finished or stopped first one left.  Two acts of the operator
  (`MaxEdits`): a switch of the tag and back, an edit and a switch, are the
  combinations that a command with three reads can be confused by.

* AgentRuntime: three launches (a first bridge, a replacement, and one of a second
  context or a second replacement) and two attempts per cycle, so that recovery, its
  failure and the attempt after it all occur; two cycles, so that a switch of the
  first is seen by the second.  Thirteen settings: the rich catalogue of today and the
  flat one of older accounts, an empty one, one with variants that have no parameters,
  one without Grok and Fable; scores in each of the default bands and a missing score;
  rules for a premium model with the family on and off, a premium fallback, a rules file
  with tiers, and one that is refused; and the id of a premium model spelled out in a
  rule with its family off, as default and as tier, with one the account does not have.
* WorkflowFiles: three projects (an empty directory, one an older version has set up,
  one a team has adapted), two `.gitignore` files, `--force` of nothing, of two paths and
  of everything, two commands (the second meets what a killed one left), one act of the
  operator on one of three paths and one kill.  Nothing in the proofs depends on these
  numbers: every property of this run is a theorem.

Each property has a mutant: a definition of the model changed the way a slip in
the code would change it, which the run must report.  The mutated definitions
stand next to the originals and are marked "Defect".

**Fairness.**  `FairSpec` of RunLoop has one assumption, weak fairness of `Process`: the
process is scheduled, and a wait for the SDK ends, normally or with an error.  The
latter is what the client in `sdk_bridge.py` provides with its timeout, which an
environment variable may disable (`sdk_bridge.py:66`): then a wait may last for ever, and
`RunEnds` claims nothing.  `FairSpec` of
AgentRuntime assumes weak fairness of the program's own steps once a command has begun,
with the calls of the SDK that `run` waits for; that the helper prints its discovery
line or ends is not among them (`readline` waits without looking at the deadline), so
`CommandEnds` ends in `exited` or in that wait.  Nothing is assumed of Ctrl+C, crashes,
the operator, or of what the agent does: no outcome of a wait is ever fair, so a run that
ended only because some failure cannot repeat for ever would be reported.

## 4. Theorems

All are proved for every set of tasks, dependency graph, handover text, setting,
number of agents and number of runs; for every set of tags, PRD texts and task lists;
for every routing configuration, model listing, number of launches, cycles and
attempts; and for every project, `.gitignore` and `--force` that a command that
generates files may find.  The named assumptions are:

* `TaskQueueAssumption`: positive ids, finitely many;
* `HandoverAssumption`, `ConfigAssumption`, `EnvironmentAssumption`, `AtomicFileAssumption`: types,
  and that `--resume` excludes `--fresh` and `--no-history`, as `build_run_config` has it;
* `ProjectSetupAssumption`, `DataAssumption`: types; the task document the first command
  finds has unique ids, no cycle, and scores of the tasks that have them; a parse has
  tasks (`validate_parsed_tasks` refuses an empty list);
* `BridgeAssumption`, `RuntimeAssumption`, `WorkflowFilesAssumption`: types;
* `IdsAssumption`: an id that is spelled out is none of the aliases and tiers.

| theorem | statement | strengthening |
|---|---|---|
| `GetNextIsRunnable` | `tasks next` gives nothing or a pending task with all dependencies done | a well-founded minimum (`NatMinimum`) |
| `TypeCorrect` | `[]TypeOK` | inductive; in six parts, one lemma each |
| `AgentsAreClosed` | `[]NoLeakedAgent` | inductive with `TypeOK` |
| `AgentServes` | `[]AgentServesWholeCycle` | inductive with `TypeOK` |
| `StopEndsTheLoop` | `[]StopBoundsWork` | inductive with `TypeOK` |
| `ResumeSkips` | `[]ResumeNeverReselects` | `ResumeInv`: the comparison is made one step before the cycle begins, and a run starts with nothing recorded |
| `ResumeKeeps` | `ResumeKeepsHistory` | `HistoryInv`: from startup to the end, what was loaded is what is on disk |
| `UpdateStartsClean` | `[]UpdateStartsFromAttemptStart` | inductive with `TypeOK` |
| `VerifiedAdvances` | `VerifiedCycleAdvances` | `SnapshotInv`: the snapshot before the update phase is the text the attempt began with |
| `LaterCyclesReadMarker` | `[]LaterCyclesHaveHandover` | `LaterInv`: a run begins with cycle 0, whatever the last one left |
| `StrictMatches` | `[]StrictPromptMatches` | `StrictInv`: between alignment check and prompt the handover does not move, and no prompt of an earlier try is left over |
| `VerifiedIsRecorded` | `[]VerifiedCyclesRecorded` | `RecordedInv`: outcomes are empty at startup and recorded in the step that ends the process |
| `StateFileIsTruthful` | `[]StateFileTellsOutcome` | `StateFileInv`: no checkpoint comes between the failure of a phase and the end, and the file is clear once the loop is done |
| `SuccessIsEarned` | exit code 0 means that all cycles are done, or nothing is left outside the history | `SuccessInv`: from `StopRun` to the exit nothing moves; with `ExhaustedInv` and `StateFileInv` |
| `DryRunIsHarmless` | `DryRunTouchesNothing` | `DryRunInv`: a dry run never gets past the plan |
| `StrictKeepsSkipped` | with `--strict-handover`, a resumed run sends the first model tried no prompt for a completed task | from `StrictMatches` and `ResumeSkips` |
| `LeftAlwaysCounted` | what is left of a run is five numbers | `BoundsInv`: cycles and attempts within the settings, reset outside a cycle |
| `RunMakesHeadway` | `StepsCount`: a step of a run makes less of what is left, or is Ctrl+C or the skip of a completed task | the same; see below |
| `SkippingIsBounded` | `SkipsCount`: a skip excludes one task more, unless nothing is left outside the history | `SkipInv`: only completed tasks are excluded, none before the pin is used |
| `EarlyStopIsExhausted` | `StopsOnlyExhausted`: success before the last cycle means that nothing is left | `ExhaustedInv`: the same of a lookup that found nothing, one step before |
| `TypeCorrect` of ProjectSetup | `[]TypeOK` | `Resolved`: what a later step of a command resolves a missing tag to has a queue, or is the tag the parse is about to create |
| `QueuesStayWellFormed` | `[]QueuesWellFormed` | inductive with both; `AppendedQueue` gives the fresh ids, the cycle check of the save the rest |
| `QueuesKeepMoving` | if something is pending and `tasks next` gives nothing, a task waits for an id that is not there, or for one neither pending nor done | from the same invariant: without a cycle, some pending task waits for no pending one |
| `WorkIsKept` | `WorkKept` | from the same invariant |
| `InitLosesNoMore` | `init` loses work in one case only: no `--tag`, and the current tag is not master | `MeantIsEmpty`: in every other case the queue is empty from the start of `init` until the model answers |
| `AppendedQueue` | `RemapForAppend` returns tasks with unique ids and keeps the old ones | a finite set of numbers has a greatest one (`FiniteMaximum`) |
| `ScoresAlwaysFit` | `[]ScoresFit`, for one setup command at a time | `Judging`: while the model judges, a task with the id of one that was sent still has its text |
| `BootstrapReplacesOnlySamePrd` | `BootstrapReplacesSamePrd`: the text parsed is the one recorded last, of whichever tag | `ReparseInv`: what the guard of `bootstrap` has established still holds when the model answers |
| `PhaseIsReady` | `[]PhaseReady` | `PhaseInv`: for each `pc` what an undisturbed launch has written so far |
| `InitIsReady` | `[]InitReady` | `InitInv`: the same for an undisturbed `init`, where every meaning of a missing tag is one tag |
| `RunKeepsContract` | `ImplementsContract` | from `ResumeInv`, `HistoryInv`, `StateFileInv` and `LoadedInv` (a resumed run works with the record it loaded): each action of RunLoop is a step of RunContract or a stutter |
| `BridgeInvariant` | `BridgeSpec => []BridgeInv` | `BridgeInv` describes processes, registry, environment and client at each `pc` |
| `RunImplementsBridge` | AgentRuntime implements SdkBridge: `Spec => BridgeSpec` | step by step; with it what is proved of SdkBridge holds in AgentRuntime |
| `OneBridgeAlways`, `EndpointsAlwaysAgree`, `NoOrphanEver` | `[]OneBridge`, `[]EndpointsAgree`, `[]NoOrphan` | from the two before |
| `NestedAlwaysKeepsBridge` | `NestedKeepsBridge` | the same |
| `TypeCorrect` of AgentRuntime | `[]TypeOK` | with the bounds of cycle and attempt |
| `PremiumIsGated` | `[]PremiumGated` | `AcceptedInv`: the configuration is one that was accepted; `DecisionInv`: while the agent works, routing again would decide the same; and a lemma about `Route` |
| `FirstBestIsBest` | of the candidates of a family the detection takes the first of the highest rank | a bounded set of ranks has a greatest one |
| `RouteTells` | the flag of a decision tells the premium family of its model, and what may run fast is asked for or unavoidable, but for ids that the configuration spells out | for each way `Route` finds a model, from `PresetsTell`: each preset is of its family, and the standard ones are no faster than the listing makes them |
| `PremiumIsFlagged`, `FastIsAsked` | `[]PremiumRunsAreFlagged`, `[]FastOnlyIfAsked` | `DecisionInv`, `AcceptedInv` and `RouteTells` |
| `RetriesRunOut` | `BodyMakesHeadway /\ []CountersBounded`: a step of the body of `run` makes less of what is left | `TypeOK` has the bounds |
| `RetriesAvoidDeadBridge` | `[]RetryAvoidsDeadBridge` | the endpoint that refused is neither environment nor client once its close has begun, unless the bridge was given up on |
| `TypeCorrect` of WorkflowFiles | `[]TypeOK` | `StepsFit`: the steps left are about known files, and only `--refresh-workflow` refreshes |
| `TextsAreKept` | `TextsKept` | the same |
| `RefreshAlwaysCures`, `InitAlwaysSettles` | `[]RefreshCures`, `[]InitSettles` | `PastDone`: a step of an undisturbed init that is past has nothing to do any more; at the end all are past |
| `PlanIsKept` | `[]PlanKept` | `PlanFollowed`: what is done and what the steps left will do are together what was planned, and beyond it only what is in `Unlisted` |
| `FileTypeCorrect` | `[]TypeOK` of AtomicFile | inductive with `WriterInv` |
| `ReadersSeeWholeTexts` | `[]NeverCutShort` | `WriterInv`: until the old file is removed it is in place, from then on the temporary file is complete |
| `NothingIsLost` | `[]OldOrNewOnDisk` | the same |

The shape is the same throughout: the strengthening holds initially, every action
keeps it (the steps of a lemma are the groups of actions that can disturb it), it
implies the property, and one temporal step concludes.  Actions that only raise an
exception share the lemmas `FailsRaises` and `AgentRunFailsRaises`.  Type
correctness is proved in six parts because Boolean and arithmetic membership are
best left to different provers.

In WorkflowFilesProofs the order of the steps of a command does not matter: the
invariants speak of `Left(todo)`, the set of steps left, and the lemmas at its head
say what concatenation and `Tail` do to that set.

**Headway.**  That a run ends is liveness, which TLAPS does not prove here; what makes
it end is an action property, which it does.  `Left` of RunLoop is what is left of a
run: is it still in the loop, cycles to go, attempts at this one, models to try it with,
points of the code ahead (a continue of the same agent puts one phase back, once).  Each
step lowers the first of these numbers that it changes, for any number of cycles and
attempts; so retry, continue and fallback, which go backwards in the code, cannot form a
circle.  Two steps leave `Left` alone: `Sigint`, which is not the program's, and
`SkipCompleted`.  A skip adds to the exclusions one of finitely many tasks, except when
selection is from the handover and all tasks that are not done are in the loaded history:
divergence 2 of section 5 has that form and no other.  `RunEnds` itself needs fairness as
well, and that the steps are enabled, and stays with TLC.  AgentRuntime has the same of
its body (`RetriesRunOut`); closing and launching bridges never sets it back.  What
bounds the bridges of `doctor` is only the model's `MaxLaunches`.

**Routing.**  `PremiumIsFlagged` and `FastIsAsked` are about decisions that pass through
the listing of an account, the configuration and the switches.  The lemmas follow that
way: what a candidate is (`CandidateParts`), which of them the detection takes for the
premium and the tiered families (`PremiumPresets`, `TierPresets`) and what that says of
all presets (`PresetsTell`), what an alias stands for (`AliasTells`), and what the default
bands (`LegacyTells`) and the configured rules (`FirstMatching`, `ConfiguredTells`) lead
to.  The code takes for standard a Composer or Grok variant that says `fast=false` and one
without any parameters, and of a model without variants its bare id; a variant that has
parameters but leaves the toggle open is never taken.  What says nothing follows the
catalogue's default, which may be fast, so `MayBeFast` counts it as possibly fast, and so
it does `ComposerId`, the last resort.  The theorem allows such a model only where the
listing has no better one to offer (`Unavoidable`: no variant that says `fast=false` comes
first and is as new; `StandardCandidate` and `StandardPick` show it of the detection).
Opus and Fable variants may leave the toggle open, which for them does not mean fast
mode.  The one thing a decision cannot tell of is an id that the configuration spells
out (`Spellings`): it is sent without a flag whatever it names.

**Around the divergences.**  Where the code does not do what its documentation says
(section 5), theorems say how far that goes: `SkippingIsBounded` and `EarlyStopIsExhausted`
for 2, `StrictKeepsSkipped` for 1, `NothingIsLost` for 4, `InitLosesNoMore` for 5.

Only model-checked: `RunEnds` and `CommandEnds` (liveness under fairness), and the five
violations.

## 5. Where code and documentation disagree

1. **A skipped task reaches the agent** (run `resume_prompt`, `loop.py:128`).  With
   `--resume`, a handover that still names a completed task whose status is
   "pending" is skipped in selection, but `_implementation_prompt` sends that
   handover whenever it is usable.  The cycle is routed, logged and recorded under
   the newly selected task.  `docs/runtime/run-history.md:70`: "Skipped tasks never
   enter the agent session or verification."
2. **A resumed run need not end** (run `resume_ends`, `task_selection.py:150`).  When
   all tasks that are not done are in the history, the last resort `tasks next`
   returns one of them again, and the skip loop repeats without any checkpoint.
   `docs/tasks/empty-queue-completion.md:22` says that the loop stops when the queue
   is exhausted.
3. **Ctrl+C can exit with 1 or 2** (run `interrupt_exit`, `session.py:100`).  Closing
   the session under the main thread gives `SessionError` or `AgentRunError`; neither
   path looks at the stop flag.  `docs/runtime/graceful-interrupt.md:14` promises
   exit code 130.
4. **A kill can take the file away** (run `file_crash`, `state.py:103`).
   `write_atomic` removes the old file before it renames the temporary one, so a kill
   between the two leaves nothing under the file's own name: `status` reports no
   state, `--resume` finds no history, the task queue is not found.  The new text is
   complete in the temporary file (`NothingIsLost`), but no reader looks there.
   `docs/runtime/crash-recovery-state.md:27` calls the write an atomic rename.
5. **`init` can replace a queue** (run `setup_reparse`, `project_setup.py:1251`).
   Without `--tag`, `init` asks whether *master* has tasks and then parses into the
   *current* tag.  In a project whose first tag is not master (bootstrapped with
   `--tag`, then `tasks use-tag`), it replaces the queue of the current tag, done tasks
   included, and records the parse for master.  `docs/setup/project-setup.md:36`:
   "native parse-prd only when no tasks exist for the tag".

Further divergences were met while modelling; the model does in these places what the
code does, and no run is spent on them.

* *Routing.*  A `rules_file` that has rules is always refused unless the
  configuration has inline rules: `_parse_routing_section` (`config.py:509`) hands
  parsed rules to a function that takes dictionaries (`SectionRefused`);
  `docs/runtime/model-routing.md:37` says they are merged.  After a billing failure the
  default bands lead to Grok or the configured fallback, not to Composer as the
  docstring of `loop.py:257` says.  An explicit `grok_tier` does not apply to the plain
  alias `grok`.  A rule, a tier or `default_model` may spell out the id of a premium model
  (`routing.py:214`, `docs/runtime/model-routing.md:52`): it is used without a flag, so no
  switch turns it off and a billing failure has no fallback (`routing.py:402`).
  `detect_composer` says that it prefers explicit `fast` parameters, but a variant without
  any ranks the same and wins if it is listed first, or belongs to a newer model
  (`models.py:508`).  The last resort of the default bands sends the text of
  `default_model` as an id, `composer-2.5` by default, whatever variants are listed
  (`routing.py:498`).
* *Bridge.*  The deadline for the discovery line is not looked at while the helper
  prints nothing (`sdk_bridge.py:272`).  A failed installation leaves the environment
  with the endpoint of a dead process, a relaunch that fails leaves nothing registered
  for later retries to recover, which then go to that endpoint, and Ctrl+C in a launch or
  a close gives the process up.  Where `close_default_client` fails, the error is
  swallowed and the client of the old bridge stays.  All of these are `lost`.
* *Generation.*  `docs/workflow/workflow-refresh.md:17` lists a test of staleness for
  `docs/index.md` and for the handover, which `workflow_gen.py:495` does not have: a
  `docs/index.md` that a kill left empty is never repaired.  `init --skip-templates`
  ("Only write cyclopsctl.toml", `docs/setup/project-scaffold.md:46`) still generates the
  workflow files, rules and skill.  `init --dry-run` lists rules and skill only
  together with the task storage (`project_setup.py:1309`), while the generation installs them wherever they
  are missing; it has no line for the settings and, for most reasons to sync it, for the
  handover.  `README.md:159`: "List paths that would be written".  `Unlisted` is the
  whole of the difference in files.  `doctor` and `launch` look
  for stale files where the configuration puts them, the advised
  `init --refresh-workflow` writes those in the root.
* *Setup.*  The `cyclopsctl.toml` that `init` writes has no `[tasks]` section, and
  `persist_bootstrap_tasks_settings` saves into an existing section only, so the chosen
  models are asked for again.  The guard of `bootstrap` asks for the tasks of the recorded
  tag (`bootstrap.py:66`), the parse replaces those of the current one: with `--tag`
  missing, an unchanged PRD or a recorded tag without tasks lets it replace the queue of a
  tag that the guard has not looked at.  `analyze-complexity` without pending tasks writes no
  report, which `init` then names as a repair on every run.

## 6. Abstractions and what is left out

* Texts: see Handover.  `ai-context.md` has four states, told apart by the two
  tests of `verify.py` (protected sections, shrinking below 60%).
* Log lines, the activity stream, transcripts, failure reports, queue snapshots
  and git summaries change no state the loop reads.
* In RunLoop, writes of state file and history are one step each; what a kill inside
  such a write does is AtomicFile's subject.  AtomicFile leaves out a write that
  fails with an `OSError` (a full disk, a file held open on Windows) and the
  creation of the parent directory.
* In RunLoop a routed model is "premium or not", and bridge recovery in `backoff` has
  no effect: both are AgentRuntime's subject, which in turn does nothing to the project.
* In SdkBridge the platform is Windows; elsewhere no helper is started, which is the
  case of a configured endpoint.  The RPCs of the SDK, their timeouts and what is
  written on the pipes are left out; a process id that is used again is, too.
* In ModelCatalogue ranks of display names are reduced to the words they look for.  The
  detection of Max Mode, which routing does not use, and the printed inventory are left
  out.
* In WorkflowFiles what a rendered file says, and how PRD, README and manifests are
  searched for it, is left out; files that the configuration puts elsewhere than in the
  root, too.  The test whether one file is to be written and its write are one step, the
  operator acts between such steps.  `run_init_scaffold` and `copy_workflow_templates`, which
  no command calls, are not modelled.
* `agent.close()` is best effort in the code: an error of it is logged, the handle is
  dropped and nothing tries again (`session.py:150`).  In RunLoop `live` are the agents
  not yet given to it; what the SDK makes of a close that fails is outside the program.
* In AtomicFile `before` is taken anew with each write: where a kill has taken the file
  away, a second kill in the next write loses the new text as well, which
  `OldOrNewOnDisk` does not count.
* An operator changes the handover only between runs, and another process does
  not change the queue except as the agent's edits.
* In ProjectSetup, extraction and repair of a model's JSON, batches, and the chain of
  models are one answer or none; loading and saving the task document is one step;
  record and handover are written without `write_atomic`, and a kill inside such a
  write is left out; a second setup command while one runs is left out, and may misplace
  scores if it parses meanwhile; prompts on a terminal are left out, and of the generated
  files only `scaffold` is kept: they are the subject of WorkflowFiles.
* `init` takes a handover for up to date if its task id is that of `tasks next`
  (`project_setup.py:1100`), although ids repeat from tag to tag; `InitReady` claims
  no more than the id.
* Unreadable or foreign history files, which the loader reports and treats as
  absent, are left out.
* Not modelled at all, and why, per component: `PROJECT.json`, `components`.

## 7. Plan

What would come next, the entry with the most behaviour first.

1. **TwoWriters** (`tasks/store.py`).  Two processes that load, change and save the
   task document call by call, composed with AtomicFile: lost updates, the shared name
   of the temporary file, and the moment without a file in which a save starts from an
   empty document (`store.py:265`).  The code has no lock, so the properties would say
   what is left of the document, not that nothing is lost.
2. **DepGraph** (the cycle check of `tasks/store.py`).  The depth-first search, with its
   sets `visiting` and `visited`, against `Circular` over all small graphs.
3. **StateView** (`state.py` `format_state_summary`, `tui.py`): what `status` shows of a live
   or dead run.
