------------------------------- MODULE RunLoop -------------------------------
(***************************************************************************)
(* `cyclopsctl run`: the implement -> update -> verify loop.               *)
(*                                                                         *)
(* Source: src/cyclopsctl/loop.py with the parts it drives: session.py,    *)
(* interrupt.py, state.py, history.py and _run_command of cli.py.          *)
(*                                                                         *)
(* One action is the code between two points where something else can      *)
(* happen: a Ctrl+C that is noticed, a crash, or the agent at work on the  *)
(* project files.  `pc` names those points.  The agent's edits of a phase  *)
(* are made in the step that ends the phase: the program reads none of     *)
(* the files while it waits.                                               *)
(***************************************************************************)
EXTENDS Handover, RetryPolicy

CONSTANTS
    Configs,                \* the settings a run may be started with
    Agents, NoAgent,        \* agent handles of the SDK, and None
    PremiumTasks,           \* tasks routed to a premium (Fable, Opus) model
    StickyPremiumTasks,     \* those whose routing fallback is premium as well
    ImplHandovers,          \* what an agent may leave in the handover file
    UpdateHandovers,        \*   in the implementation and the update phase
    AgentTemplates,         \* what it may leave of update-handover-prompt.md
    AgentAiContexts,        \* what it may leave of ai-context.md
    AgentStatuses,          \* the status it may give to one task per phase
    InitQueues,             \* the queues the first run may find
    InitHandovers,          \* the handovers the first run may find
    OperatorHandovers,      \* what the operator may write between two runs
    MaxRuns                 \* bound: how many runs are started

\* CyclopsctlConfig, the settings that control flow.  `pinned` is --task-id or
\* NoTask; `attempts` is retry_max_attempts, and 1 when retry_on is "off".
Config ==
    [source : {"handover", "sequential"}, strict : BOOLEAN, resume : BOOLEAN,
     fresh : BOOLEAN, dryRun : BOOLEAN, requireAi : BOOLEAN, state : BOOLEAN,
     history : BOOLEAN, firstPrompt : BOOLEAN, pinned : Nat,
     cycles : Nat \ {0}, attempts : Nat \ {0}]

TemplateStates == {"original", "edited", "missing"}

\* build_run_config rejects --resume with --fresh or --no-history.
ASSUME ConfigAssumption ==
    /\ Configs \subseteq Config
    /\ \A c \in Configs : c.resume => c.history /\ ~c.fresh

ASSUME EnvironmentAssumption ==
    /\ NoAgent \notin Agents
    /\ PremiumTasks \subseteq Tasks /\ StickyPremiumTasks \subseteq Tasks
    /\ ImplHandovers \subseteq Handovers /\ UpdateHandovers \subseteq Handovers
    /\ InitHandovers \subseteq Handovers /\ OperatorHandovers \subseteq Handovers
    /\ AgentTemplates \subseteq TemplateStates
    /\ AgentAiContexts \subseteq AiContextStates
    /\ AgentStatuses \subseteq Status
    /\ InitQueues \subseteq Queues
    /\ MaxRuns \in Nat

VARIABLES
    (* files of the project, which survive the process *)
    status,         \* .tasks: the queue
    handover,       \* current-handover-prompt.md
    template,       \* update-handover-prompt.md
    aiContext,      \* ai-context.md
    history,        \* .cyclopsctl/run-history.json
    stateFile,      \* .cyclopsctl/state.json
    (* the process *)
    pc, runs,
    exc,            \* the exception that ends the run, "none" so far
    stoppedIn,      \* NotStopped, or the cycle in which SIGINT first came
    cfg,
    first,          \* StartupResolution.use_first_prompt_for_cycle_one
    completed,      \* completed_task_ids, loaded for --resume
    prior,          \* startup.history under --resume, else NoHistory
    premiumOn,      \* the router's runtime switches for premium models
    resolverCalled, \* call_count["n"] > 0
    pinConsumed,
    exclude,        \* resume_exclude and the ids added while resolving
    outcomes,       \* task ids of result.outcomes
    cycle,          \* cycle_index: cycles completed so far
    (* the cycle *)
    selected, attempt, implTry, premium, fallback, prompt,
    start,          \* handover and template at the start of the attempt
    pre,            \* handover and ai-context before the update phase
    (* the session *)
    agent,          \* CycleSession._agent
    active,         \* the session is registered with the interrupt controller
    live,           \* handles of agents that have not been given to agent.close()
    drop            \* failure after which the same agent was told to continue

diskVars  == <<status, handover, template, aiContext>>
fileVars  == <<diskVars, history, stateFile>>
runVars   == <<cfg, first, completed, prior, premiumOn, resolverCalled,
               pinConsumed, exclude, outcomes, cycle>>
cycleVars == <<selected, attempt, implTry, premium, fallback, prompt, start, pre>>
sessVars  == <<agent, active, live, drop>>
ctlVars   == <<pc, runs, exc, stoppedIn>>
vars      == <<fileVars, runVars, cycleVars, sessVars, ctlVars>>

-----------------------------------------------------------------------------
NotStopped == -1
FirstPrompt == -2           \* the text of first-prompt, which names no task
Histories == [exists : BOOLEAN, ids : SUBSET Tasks]
NoHistory == [exists |-> FALSE, ids |-> {}]

\* RunStatePhase; "none" where no phase is told apart.
Phases == {"none", "idle", "resolve", "implementation", "snapshot", "update",
           "verify", "complete"}
NoState == [status |-> "absent", phase |-> "none"]

Exceptions == {"none", "interrupted", "startup", "run", "known", "uncaught", "killed"}

\* exit_code_for; an exception outside KNOWN_RUN_ERRORS ends in a traceback.
ExitCode(e) ==
    CASE e = "none" -> 0
      [] e = "interrupted" -> 130
      [] e \in {"startup", "uncaught"} -> 1
      [] e \in {"run", "known"} -> 2
      [] e = "killed" -> 137

Idle == {"off", "exited"}

\* The steps of _run_cycle_with_retry, and those of them with an open session.
WithSession == {"implSend", "implWait", "guard", "snapshot", "armUpdate",
                "updSend", "updWait", "verify"}
InCycle == {"prepare", "enter", "create", "backoff"} \cup WithSession

PCs == Idle \cup InCycle \cup
       {"startup", "head", "resolve", "resolved", "finish", "unwind"}

Stopped == stoppedIn # NotStopped
Bootstrap == cycle = 0 /\ first
FallsBack == cfg.source = "handover" /\ ~Usable(handover, status)
RouteIsPremium(t, enabled) ==
    t \in StickyPremiumTasks \/ (enabled /\ t \in PremiumTasks)

\* RunStateTracker.persist with status "running", and mark_completed.
Checkpoint(phase) ==
    stateFile' = IF cfg.state THEN [status |-> "running", phase |-> phase]
                              ELSE stateFile
ClearState == stateFile' = IF cfg.state THEN NoState ELSE stateFile

NoPrompt == -3
NoStart == [handover |-> Missing, template |-> "original"]
NoPre == [handover |-> Missing, ai |-> "missing"]

\* The locals of _run_cycle_with_retry go out of scope.
ForgetCycle ==
    /\ selected' = NoTask /\ attempt' = 0 /\ implTry' = 0
    /\ premium' = FALSE /\ fallback' = FALSE /\ prompt' = NoPrompt
    /\ start' = NoStart /\ pre' = NoPre

\* Defect: the handle is dropped without agent.close().
CloseSessionForgets ==
    /\ agent' = NoAgent /\ active' = FALSE /\ drop' = "none"
    /\ UNCHANGED live

\* session.__exit__ and set_active_session(None), on every path out of a cycle.
\* agent.close() is best effort: the handle is gone whether it raises or not.
CloseSession ==
    /\ live' = live \ {agent}
    /\ agent' = NoAgent
    /\ active' = FALSE
    /\ drop' = "none"

\* Defect: the session is a context manager around one phase.
EndSendCloses == CloseSession

\* A send came back: the session is no longer registered, but stays open.
EndSend ==
    /\ active' = FALSE /\ drop' = "none"
    /\ UNCHANGED <<agent, live>>

\* An exception leaves the loop: the session is closed on the way.
Raise(e) ==
    /\ pc' = "unwind" /\ exc' = e
    /\ CloseSession /\ ForgetCycle
    /\ UNCHANGED <<runs, stoppedIn, runVars>>

ProcessGone(e) ==
    /\ pc' = "exited" /\ exc' = e
    /\ ForgetCycle
    /\ live' = {} /\ agent' = NoAgent /\ active' = FALSE /\ drop' = "none"

Init ==
    /\ status \in InitQueues /\ handover \in InitHandovers
    /\ template = "original" /\ aiContext = "large"
    /\ history = NoHistory /\ stateFile = NoState
    /\ pc = "off" /\ runs = 0 /\ exc = "none" /\ stoppedIn = NotStopped
    /\ cfg \in Configs
    /\ first = FALSE /\ completed = {} /\ prior = NoHistory /\ premiumOn = TRUE
    /\ resolverCalled = FALSE /\ pinConsumed = FALSE /\ exclude = {}
    /\ outcomes = {} /\ cycle = 0
    /\ selected = NoTask /\ attempt = 0 /\ implTry = 0 /\ premium = FALSE
    /\ fallback = FALSE /\ prompt = NoPrompt /\ start = NoStart /\ pre = NoPre
    /\ agent = NoAgent /\ active = FALSE /\ live = {} /\ drop = "none"

(***************************************************************************)
(* Starting a run                                                          *)
(***************************************************************************)

\* The operator may rewrite the handover, then starts `cyclopsctl run`.
Invoke ==
    /\ pc \in Idle /\ runs < MaxRuns
    /\ runs' = runs + 1
    /\ cfg' \in Configs
    /\ handover' \in {handover} \cup OperatorHandovers
    /\ pc' = "startup" /\ exc' = "none" /\ stoppedIn' = NotStopped
    /\ first' = FALSE /\ completed' = {} /\ prior' = NoHistory /\ premiumOn' = TRUE
    /\ resolverCalled' = FALSE /\ pinConsumed' = FALSE /\ exclude' = {}
    /\ outcomes' = {} /\ cycle' = 0
    /\ UNCHANGED <<status, template, aiContext, history, stateFile,
                   cycleVars, sessVars>>

ReadHistory == IF cfg.history THEN history ELSE NoHistory

\* resolve_startup
UseFirstPrompt ==
    cfg.fresh \/ handover = Missing \/ handover.id <= QUEUE_COMPLETE_TASK_ID

\* ConfigError of build_run_config or _validate_first_prompt_when_required,
\* PromptError of validate_handover_against_history.
StartupFails ==
    \/ handover = Missing \/ template = "missing"
    \/ cfg.requireAi /\ aiContext = "missing"
    \/ UseFirstPrompt /\ ~cfg.firstPrompt

Startup ==
    /\ pc = "startup" /\ ~StartupFails
    /\ first' = UseFirstPrompt
    /\ completed' = IF cfg.resume THEN ReadHistory.ids ELSE {}
    /\ prior' = IF cfg.resume THEN ReadHistory ELSE NoHistory
    /\ pc' = "head"
    /\ UNCHANGED <<fileVars, cfg, premiumOn, resolverCalled, pinConsumed, exclude,
                   outcomes, cycle, cycleVars, sessVars, runs, exc, stoppedIn>>

\* Before the try block of run_cycles: neither file is written.
StartupError ==
    /\ pc = "startup" /\ StartupFails
    /\ ProcessGone("known")
    /\ UNCHANGED <<fileVars, runVars, runs, stoppedIn>>

(***************************************************************************)
(* _run_cycle_loop                                                         *)
(***************************************************************************)

\* Defect: the interrupt flag is looked at only after task selection.
BeginCycleUnchecked ==
    /\ pc = "head" /\ cycle < cfg.cycles
    /\ Checkpoint("idle")
    /\ pc' = "resolve"
    /\ UNCHANGED <<diskVars, history, runVars, cycleVars, sessVars, runs, exc, stoppedIn>>

BeginCycle ==
    /\ pc = "head" /\ cycle < cfg.cycles /\ ~Stopped
    /\ Checkpoint("idle")
    /\ pc' = "resolve"
    /\ UNCHANGED <<diskVars, history, runVars, cycleVars, sessVars, runs, exc, stoppedIn>>

\* _raise_if_interrupted at "idle", "resolve" and "snapshot".
RaiseIfInterrupted ==
    /\ \/ pc = "head" /\ cycle < cfg.cycles
       \/ pc \in {"resolved", "snapshot"}
    /\ Stopped
    /\ Raise("interrupted")
    /\ UNCHANGED fileVars

PinPending == cfg.pinned # NoTask /\ ~pinConsumed

ResolveFails ==
    IF PinPending THEN PinFails(cfg.pinned, status)
    ELSE cfg.source = "handover" /\ SnapshotFails(handover, ~resolverCalled)

\* resolve_cycle_task
Lookup ==
    IF PinPending THEN GetById(cfg.pinned)
    ELSE IF cfg.source = "sequential" THEN ResolveSequential(status, exclude)
    ELSE ResolveHandover(handover, status, exclude)

\* Defect: a pinned task is not compared with the history.
AlreadyCompletedUnlessPinned(t) == cfg.resume /\ t \in completed /\ ~PinPending

AlreadyCompleted(t) == cfg.resume /\ t \in completed

ResolveError ==
    /\ pc = "resolve" /\ ResolveFails
    /\ Raise("known")
    /\ UNCHANGED fileVars

\* One turn of `while True` in _resolve_runnable_task.
SkipCompleted ==
    /\ pc = "resolve" /\ ~ResolveFails
    /\ AlreadyCompleted(Lookup)
    /\ exclude' = exclude \cup {Lookup}
    /\ resolverCalled' = TRUE /\ pinConsumed' = (pinConsumed \/ PinPending)
    /\ UNCHANGED <<fileVars, cfg, first, completed, prior, premiumOn, outcomes,
                   cycle, cycleVars, sessVars, ctlVars>>

ResolveTask ==
    /\ pc = "resolve" /\ ~ResolveFails
    /\ ~AlreadyCompleted(Lookup)
    /\ selected' = Lookup
    /\ resolverCalled' = TRUE /\ pinConsumed' = (pinConsumed \/ PinPending)
    /\ pc' = "resolved"
    /\ UNCHANGED <<fileVars, cfg, first, completed, prior, premiumOn, exclude,
                   outcomes, cycle, attempt, implTry, premium, fallback, prompt,
                   start, pre, sessVars, runs, exc, stoppedIn>>

\* "task selected": the cycle begins with its first attempt.
StartCycle ==
    /\ pc = "resolved" /\ ~Stopped /\ selected # NoTask
    /\ Checkpoint("resolve")
    /\ attempt' = 1
    /\ pc' = "prepare"
    /\ UNCHANGED <<diskVars, history, runVars, selected, implTry, premium, fallback,
                   prompt, start, pre, sessVars, runs, exc, stoppedIn>>

\* All cycles done, or the queue is empty: mark_completed.
StopRun ==
    /\ \/ pc = "head" /\ cycle >= cfg.cycles
       \/ pc = "resolved" /\ ~Stopped /\ selected = NoTask
    /\ ClearState
    /\ pc' = "finish"
    /\ UNCHANGED <<diskVars, history, runVars, cycleVars, sessVars, runs, exc, stoppedIn>>

(***************************************************************************)
(* _run_single_cycle, up to the agent                                      *)
(***************************************************************************)

\* TaskSelectionError is not raised here; PromptError for a file that is gone,
\* HandoverAlignmentError under --strict-handover.
PrepareFails ==
    \/ SnapshotFails(handover, Bootstrap)
    \/ template = "missing"
    \/ AlignmentRaises(handover, selected, cfg.strict, FallsBack)

PrepareError ==
    /\ pc = "prepare" /\ PrepareFails
    /\ Raise("known")
    /\ UNCHANGED fileVars

\* --dry-run: the outcome is recorded without an agent.
PlanDryRun ==
    /\ pc = "prepare" /\ ~PrepareFails /\ cfg.dryRun
    /\ outcomes' = outcomes \cup {selected}
    /\ cycle' = cycle + 1
    /\ ForgetCycle
    /\ pc' = "head"
    /\ UNCHANGED <<fileVars, cfg, first, completed, prior, premiumOn, resolverCalled,
                   pinConsumed, exclude, sessVars, runs, exc, stoppedIn>>

\* Routing, fallback reason and snapshots are taken anew in every attempt; the
\* selected task is not.
PrepareCycle ==
    /\ pc = "prepare" /\ ~PrepareFails /\ ~cfg.dryRun
    /\ premium' = RouteIsPremium(selected, premiumOn)
    /\ fallback' = FallsBack
    /\ start' = [handover |-> handover, template |-> template]
    /\ implTry' = 1
    /\ Checkpoint("implementation")
    /\ pc' = "enter"
    /\ UNCHANGED <<diskVars, history, runVars, selected, attempt, prompt, pre,
                   sessVars, runs, exc, stoppedIn>>

\* The files read for the implementation prompt are not there: FileNotFoundError
\* or PromptComposeError, which KNOWN_RUN_ERRORS does not list.
PromptUnreadable ==
    \/ ~Bootstrap /\ ~fallback /\ handover = Missing
    \/ cfg.requireAi /\ aiContext = "missing"

\* _implementation_prompt: the task the text tells the agent to work on.
PromptTask ==
    IF Bootstrap THEN FirstPrompt
    ELSE IF fallback THEN selected
    ELSE handover.id

EnterSession ==
    /\ pc = "enter" /\ ~PromptUnreadable
    /\ active' = TRUE
    /\ prompt' = PromptTask
    /\ pc' = "create"
    /\ UNCHANGED <<fileVars, runVars, selected, attempt, implTry, premium, fallback,
                   start, pre, agent, live, drop, runs, exc, stoppedIn>>

EnterError ==
    /\ pc = "enter" /\ PromptUnreadable
    /\ Raise("uncaught")
    /\ UNCHANGED fileVars

(***************************************************************************)
(* The agent session: start_implementation, run_update                     *)
(***************************************************************************)
CreateAgent ==
    /\ pc = "create"
    /\ \E a \in Agents \ live :
          /\ agent' = a
          /\ live' = live \cup {a}
    /\ pc' = "implSend"
    /\ UNCHANGED <<fileVars, runVars, cycleVars, active, drop, runs, exc, stoppedIn>>

\* _send_and_wait: the handle is checked, then the prompt goes out.
SendPrompt ==
    /\ pc \in {"implSend", "updSend"}
    /\ agent # NoAgent
    /\ pc' = IF pc = "implSend" THEN "implWait" ELSE "updWait"
    /\ UNCHANGED <<fileVars, runVars, cycleVars, sessVars, runs, exc, stoppedIn>>

\* Ctrl+C closed the session before the prompt was sent: SessionError.
SendError ==
    /\ pc \in {"implSend", "updSend"}
    /\ agent = NoAgent
    /\ Raise("known")
    /\ UNCHANGED fileVars

\* What an agent may have done to the project by the end of a phase.
AgentEdits(handovers) ==
    /\ handover' \in {handover} \cup handovers
    /\ template' \in {template} \cup AgentTemplates
    /\ aiContext' \in {aiContext} \cup AgentAiContexts
    /\ status' \in {status} \cup {SetStatus(status, t, s) : t \in Tasks, s \in AgentStatuses}

\* run.wait() returns; the interrupt checkpoint follows in the same step.
ImplementationReturns ==
    /\ pc = "implWait"
    /\ AgentEdits(ImplHandovers)
    /\ UNCHANGED <<history, stateFile>>
    /\ \/ /\ Stopped
          /\ Raise("interrupted")
       \/ /\ ~Stopped
          /\ EndSend
          /\ pc' = "guard"
          /\ UNCHANGED <<runVars, cycleVars, runs, exc, stoppedIn>>

UpdateReturns ==
    /\ pc = "updWait"
    /\ AgentEdits(UpdateHandovers)
    /\ UNCHANGED history
    /\ \/ /\ Stopped
          /\ Raise("interrupted")
          /\ UNCHANGED stateFile
       \/ /\ ~Stopped
          /\ Checkpoint("verify")
          /\ EndSend
          /\ pc' = "verify"
          /\ UNCHANGED <<runVars, cycleVars, runs, exc, stoppedIn>>

\* One empty-detail run error per phase is answered by telling the same agent
\* to continue, if Ctrl+C has not closed it.
Continues(f) == agent # NoAgent /\ ShouldContinueSameAgent(f, drop)

ContinueSameAgent ==
    /\ pc \in {"implWait", "updWait"}
    /\ AgentEdits(IF pc = "implWait" THEN ImplHandovers ELSE UpdateHandovers)
    /\ drop' \in {DropOf(f) : f \in {g \in RunFailures : Continues(g)}}
    /\ pc' = IF pc = "implWait" THEN "implSend" ELSE "updSend"
    /\ UNCHANGED <<history, stateFile, runVars, cycleVars, agent, active, live,
                   runs, exc, stoppedIn>>

(***************************************************************************)
(* AgentRunError: premium fallback, fresh-agent retry, or the end          *)
(***************************************************************************)

\* The failures that reach the except clauses, once no continue is possible.
Reported ==
    CASE pc = "create" -> StartupFailures
      [] pc \in {"implWait", "updWait"} ->
            {f \in StartupFailures \cup RunFailures : ~Continues(f)}
      [] OTHER -> {}

FallsBackToComposer(f) ==
    pc = "implWait" /\ implTry = 1 /\ premium /\ ShouldRetryWithComposer(f)

Retries(f) ==
    ~FallsBackToComposer(f) /\ ShouldRetryTransientFailure(f, drop, attempt, cfg.attempts)

EditsOfFailedPhase ==
    \/ pc = "create" /\ UNCHANGED diskVars
    \/ pc = "implWait" /\ AgentEdits(ImplHandovers)
    \/ pc = "updWait" /\ AgentEdits(UpdateHandovers)

\* Defect: a failed phase leaves the last checkpoint in the state file.
PersistNothing == UNCHANGED stateFile

\* _persist_phase_failure
PersistFailure ==
    stateFile' = IF cfg.state
                 THEN [status |-> "failed",
                       phase |-> IF pc = "updWait" THEN "update" ELSE "implementation"]
                 ELSE stateFile

FallBackToComposer ==
    /\ {f \in Reported : FallsBackToComposer(f)} # {}
    /\ EditsOfFailedPhase
    /\ CloseSession
    /\ premiumOn' = FALSE
    /\ premium' = RouteIsPremium(selected, FALSE)
    /\ implTry' = 2
    /\ pc' = "enter"
    /\ UNCHANGED <<history, stateFile, cfg, first, completed, prior, resolverCalled,
                   pinConsumed, exclude, outcomes, cycle, selected, attempt, fallback,
                   prompt, start, pre, runs, exc, stoppedIn>>

\* _run_cycle_with_retry: the same lookup is tried again with a fresh agent.
RetryCycle ==
    /\ {f \in Reported : Retries(f)} # {}
    /\ EditsOfFailedPhase
    /\ PersistFailure
    /\ CloseSession
    /\ attempt' = attempt + 1
    /\ implTry' = 0 /\ premium' = FALSE /\ fallback' = FALSE /\ prompt' = NoPrompt
    /\ start' = NoStart /\ pre' = NoPre
    /\ pc' = "backoff"
    /\ UNCHANGED <<history, runVars, selected, runs, exc, stoppedIn>>

AgentRunFails ==
    /\ PersistFailure
    /\ UNCHANGED history
    /\ \E k \in {f.kind : f \in {g \in Reported : ~FallsBackToComposer(g) /\ ~Retries(g)}} :
          Raise(k)
    /\ EditsOfFailedPhase

\* Bridge recovery and time.sleep: no interrupt checkpoint.
Backoff ==
    /\ pc = "backoff"
    /\ pc' = "prepare"
    /\ UNCHANGED <<fileVars, runVars, cycleVars, sessVars, runs, exc, stoppedIn>>

(***************************************************************************)
(* Guard, update phase, verification                                       *)
(***************************************************************************)
HandoverFilesChanged == handover # start.handover \/ template # start.template

\* ImplementationHandoverViolationError: the edits stay on disk.
GuardRaises ==
    /\ pc = "guard" /\ cfg.strict /\ HandoverFilesChanged
    /\ Raise("known")
    /\ UNCHANGED fileVars

\* Defect: the update template is not guarded.
RestoreCurrentOnly == handover' = start.handover /\ UNCHANGED template

\* _restore_handover_file, for both files.
RestoreFiles == handover' = start.handover /\ template' = start.template

\* Both files are put back; ai-context.md is only read.
GuardHandoverFiles ==
    /\ pc = "guard" /\ ~(cfg.strict /\ HandoverFilesChanged)
    /\ RestoreFiles
    /\ Checkpoint("snapshot")
    /\ UNCHANGED <<status, aiContext, history>>
    /\ \/ /\ cfg.requireAi /\ aiContext = "missing"
          /\ Raise("known")
       \/ /\ ~(cfg.requireAi /\ aiContext = "missing")
          /\ pre' = [handover |-> handover', ai |-> aiContext]
          /\ pc' = "snapshot"
          /\ UNCHANGED <<runVars, selected, attempt, implTry, premium, fallback,
                         prompt, start, sessVars, runs, exc, stoppedIn>>

PassSnapshotCheck ==
    /\ pc = "snapshot" /\ ~Stopped
    /\ pc' = "armUpdate"
    /\ UNCHANGED <<fileVars, runVars, cycleVars, sessVars, runs, exc, stoppedIn>>

ArmUpdate ==
    /\ pc = "armUpdate"
    /\ active' = TRUE
    /\ pc' = "updSend"
    /\ UNCHANGED <<fileVars, runVars, cycleVars, agent, live, drop, runs, exc, stoppedIn>>

VerificationPasses ==
    /\ HandoverAdvanced(pre.handover, handover, status)
    /\ AiContextIntact(pre.ai, aiContext, cfg.requireAi)

CompleteCycle ==
    /\ pc = "verify" /\ VerificationPasses
    /\ Checkpoint("complete")
    /\ outcomes' = outcomes \cup {selected}
    /\ cycle' = cycle + 1
    /\ CloseSession /\ ForgetCycle
    /\ pc' = "head"
    /\ UNCHANGED <<diskVars, history, cfg, first, completed, prior, premiumOn,
                   resolverCalled, pinConsumed, exclude, runs, exc, stoppedIn>>

VerificationError ==
    /\ pc = "verify" /\ ~VerificationPasses
    /\ Raise("known")
    /\ UNCHANGED fileVars

(***************************************************************************)
(* The end of a run                                                        *)
(***************************************************************************)

\* Defect: a dry run records its outcomes.
WritesHistoryOfDryRuns == cfg.history /\ outcomes # {}

\* Defect: a run that stops at an empty queue returns without writing.
WritesHistoryOfFullRuns ==
    cfg.history /\ outcomes # {} /\ ~cfg.dryRun /\ (cycle >= cfg.cycles \/ exc # "none")

\* _persist_run_history has something to write.
WritesHistory == cfg.history /\ outcomes # {} /\ ~cfg.dryRun

\* Defects: this run's tasks, or those of earlier runs, are lost.
HistoryOfPriorRuns ==
    [exists |-> TRUE, ids |-> IF prior.exists THEN prior.ids ELSE outcomes]

HistoryOfThisRun == [exists |-> TRUE, ids |-> outcomes]

HistoryToWrite ==
    [exists |-> TRUE,
     ids |-> IF prior.exists THEN prior.ids \cup outcomes ELSE outcomes]

FinishRun ==
    /\ pc = "finish"
    /\ IF WritesHistory /\ handover = Missing
       THEN Raise("known") /\ UNCHANGED fileVars
       ELSE /\ history' = IF WritesHistory THEN HistoryToWrite ELSE history
            /\ ProcessGone("none")
            /\ UNCHANGED <<diskVars, stateFile, runVars, runs, stoppedIn>>

\* _persist_run_history_after_failure swallows the PromptError of a missing
\* handover; then _run_command marks an interrupted run.
Unwind ==
    /\ pc = "unwind"
    /\ history' = IF WritesHistory /\ handover # Missing THEN HistoryToWrite ELSE history
    /\ stateFile' = IF exc = "interrupted" /\ cfg.state
                    THEN [status |-> "interrupted", phase |-> "none"] ELSE stateFile
    /\ ProcessGone(exc)
    /\ UNCHANGED <<diskVars, runVars, runs, stoppedIn>>

(***************************************************************************)
(* Ctrl+C and crashes                                                      *)
(***************************************************************************)

\* request_stop: set the flag, close the registered session.  A second Ctrl+C
\* does the same again.
Sigint ==
    /\ pc \notin Idle
    /\ stoppedIn' = IF Stopped THEN stoppedIn ELSE cycle
    /\ IF active THEN live' = live \ {agent} /\ agent' = NoAgent
                 ELSE UNCHANGED <<live, agent>>
    /\ UNCHANGED <<fileVars, runVars, cycleVars, active, drop, pc, runs, exc>>

\* kill -9 or power loss between two steps.
Crash ==
    /\ pc \notin Idle
    /\ ProcessGone("killed")
    /\ UNCHANGED <<fileVars, runVars, runs, stoppedIn>>

-----------------------------------------------------------------------------
\* The steps the process takes by itself, the agent's answers included.
Process ==
    \/ Startup \/ StartupError
    \/ BeginCycle \/ RaiseIfInterrupted
    \/ ResolveError \/ SkipCompleted \/ ResolveTask \/ StartCycle \/ StopRun
    \/ PrepareError \/ PlanDryRun \/ PrepareCycle
    \/ EnterSession \/ EnterError \/ CreateAgent \/ SendPrompt \/ SendError
    \/ ImplementationReturns \/ UpdateReturns \/ ContinueSameAgent
    \/ FallBackToComposer \/ RetryCycle \/ AgentRunFails \/ Backoff
    \/ GuardRaises \/ GuardHandoverFiles \/ PassSnapshotCheck \/ ArmUpdate
    \/ CompleteCycle \/ VerificationError
    \/ FinishRun \/ Unwind

\* The bound on runs is reached: the model, not the program, stops here.
AllRunsDone ==
    /\ pc \in Idle /\ runs = MaxRuns
    /\ UNCHANGED vars

Next == Process \/ Invoke \/ Sigint \/ Crash \/ AllRunsDone

Spec == Init /\ [][Next]_vars

\* The process is scheduled, and a run the SDK was asked to wait for ends: the
\* client of sdk_bridge.py bounds every wait with a timeout.
FairSpec == Spec /\ WF_vars(Process)

-----------------------------------------------------------------------------
(***************************************************************************)
(* Properties                                                              *)
(***************************************************************************)

FilesOK ==
    /\ status \in Queues /\ handover \in Handovers
    /\ template \in TemplateStates /\ aiContext \in AiContextStates
    /\ history \in Histories
    /\ stateFile \in [status : {"absent", "running", "failed", "interrupted"},
                      phase : Phases]

ControlOK ==
    /\ pc \in PCs /\ runs \in Nat /\ exc \in Exceptions
    /\ stoppedIn \in Nat \cup {NotStopped}

RunOK ==
    /\ cfg \in Configs
    /\ completed \subseteq Tasks /\ prior \in Histories
    /\ exclude \subseteq Tasks /\ outcomes \subseteq Tasks /\ cycle \in Nat

CycleOK ==
    /\ selected \in Tasks \cup {NoTask}
    /\ pc \in InCycle => selected # NoTask
    /\ attempt \in Nat /\ implTry \in {0, 1, 2} /\ prompt \in Int
    /\ start \in [handover : Handovers, template : TemplateStates]
    /\ pre \in [handover : Handovers, ai : AiContextStates]

SessionOK ==
    /\ agent \in Agents \cup {NoAgent}
    /\ live \subseteq Agents /\ drop \in Drops

FlagsOK ==
    /\ first \in BOOLEAN /\ premiumOn \in BOOLEAN /\ resolverCalled \in BOOLEAN
    /\ pinConsumed \in BOOLEAN /\ premium \in BOOLEAN /\ fallback \in BOOLEAN
    /\ active \in BOOLEAN

\* Type invariant.
TypeOK == FilesOK /\ ControlOK /\ RunOK /\ CycleOK /\ SessionOK /\ FlagsOK

\* No agent is leaked: whatever mixture of premium fallback, retries, errors and
\* Ctrl+C a run goes through, the only agent not yet closed is the one the open
\* session holds, and outside the steps that own a session there is none.
NoLeakedAgent ==
    /\ live = {agent} \ {NoAgent}
    /\ agent # NoAgent => pc \in WithSession

\* The update phase talks to the agent that implemented: unless Ctrl+C closed
\* it, the session has its agent from creation to verification, so SessionError
\* cannot end a run nobody interrupted.
AgentServesWholeCycle ==
    pc \in WithSession /\ ~Stopped => agent # NoAgent

\* After Ctrl+C no other cycle starts: the work in hand may still be finished,
\* and then the loop goes no further than its next checkpoint.
StopBoundsWork ==
    Stopped => \/ cycle = stoppedIn
               \/ /\ cycle = stoppedIn + 1
                  /\ pc \in {"head", "finish", "unwind", "exited"}

\* What the update agent finds is what the attempt began with: edits of the
\* two handover files during implementation never reach the update phase.
UpdateStartsFromAttemptStart ==
    pc \in {"snapshot", "armUpdate"} \/ (pc = "updSend" /\ drop = "none")
        => handover = start.handover /\ template = start.template

\* A verified cycle has moved the handover on, with a marker in it, compared to
\* the text its agent was given; an implementing agent that writes the next
\* handover early cannot make an update phase pass that undoes it.
VerifiedCycleAdvances ==
    [][pc = "verify" /\ pc' = "head"
        => handover' # start.handover /\ handover'.id # NoMarker]_vars

\* Once a cycle was verified, the loop never meets a handover without a task
\* marker at the start of a later one.
LaterCyclesHaveHandover ==
    pc \in {"head", "resolve", "resolved"} /\ cycle > 0 /\ ~cfg.dryRun
        => handover.id # NoMarker

\* Under --strict-handover the implementation prompt of the first model tried
\* names the task that routing, logs and history attribute the cycle to.
StrictPromptMatches ==
    cfg.strict /\ implTry = 1 /\ prompt >= 0 => prompt = selected

\* --resume never works again on a task of the history it loaded, whichever way
\* the task was selected: marker, list, fallback or pin.
ResumeNeverReselects ==
    cfg.resume => /\ pc \in InCycle => selected \notin completed
                  /\ outcomes \cap completed = {}

\* A resumed run never drops a task from the history on disk.
ResumeKeepsHistory ==
    [][cfg.resume => history.ids \subseteq history'.ids]_vars

\* However a run ends, short of a kill or a deleted handover, the tasks it
\* verified are in the history file.
VerifiedCyclesRecorded ==
    pc = "exited" /\ exc # "killed" /\ WritesHistory /\ handover # Missing
        => outcomes \subseteq history.ids

\* The state file left behind agrees with the exit code: absent after success,
\* "interrupted" with 130, "failed" when an agent run ended the process.
StateFileTellsOutcome ==
    pc = "exited" /\ cfg.state =>
        /\ ExitCode(exc) = 0 => stateFile = NoState
        /\ ExitCode(exc) = 130 => stateFile.status = "interrupted"
        /\ exc \in {"startup", "run"} => stateFile.status = "failed"

\* A dry run leaves the project's files and the history as they were.
DryRunTouchesNothing ==
    [][cfg.dryRun /\ pc \notin Idle => UNCHANGED <<diskVars, history>>]_vars

\* A run that was started ends, if no crash ends it before: retries, continues
\* and fallbacks are bounded.
RunEnds == pc \notin Idle ~> pc \in Idle

(***************************************************************************)
(* What documentation says of the program, and the code does not do        *)
(***************************************************************************)

\* docs/runtime/run-history.md, "Task-level resume": skipped tasks never enter
\* the agent session.
SkippedTaskNeverPrompted ==
    cfg.resume /\ pc \in WithSession => prompt \notin completed

\* docs/tasks/empty-queue-completion.md: a run with more cycles than remaining
\* work stops when the queue is exhausted.
ResumedRunEnds == pc \notin Idle /\ cfg.resume ~> pc \in Idle

\* docs/runtime/graceful-interrupt.md, "Behavior", step 6: Ctrl+C during a run
\* ends it with exit code 130; here, when a cycle was under way and is cut short.
InterruptedCycleExits130 ==
    [][Stopped /\ pc \in InCycle /\ pc' = "unwind" => ExitCode(exc') = 130]_vars
=============================================================================
