-------------------------- MODULE RunLoopVerified --------------------------
(***************************************************************************)
(* What a verified cycle guarantees about the handover files, and what a   *)
(* run leaves on disk, for every value of the constants.                   *)
(***************************************************************************)
EXTENDS RunLoopProofs, RunRefinement

(***************************************************************************)
(* The handover between the two phases                                     *)
(***************************************************************************)

\* The guard puts both files back, and nothing writes them until the update prompt
\* is out; a same-agent continue, which follows an edit, is marked by `drop`.
LEMMA UpdateStartsStep ==
    TypeOK /\ UpdateStartsFromAttemptStart /\ [Next]_vars => UpdateStartsFromAttemptStart'
<1> SUFFICES ASSUME TypeOK, UpdateStartsFromAttemptStart, [Next]_vars
             PROVE  UpdateStartsFromAttemptStart'
  OBVIOUS
<1> USE DEF UpdateStartsFromAttemptStart
<1>1. CASE pc' \notin {"snapshot", "armUpdate", "updSend"}
  BY <1>1
<1>2. CASE \E e \in Exceptions : Raise(e)
  BY <1>1, <1>2 DEF Raise
<1>3. CASE GuardHandoverFiles
  BY <1>1, <1>2, <1>3 DEF GuardHandoverFiles, RestoreFiles, Exceptions
<1>4. CASE PassSnapshotCheck \/ ArmUpdate \/ Sigint \/ SkipCompleted \/ AllRunsDone
           \/ UNCHANGED vars
  BY <1>4 DEF PassSnapshotCheck, ArmUpdate, Sigint, SkipCompleted, AllRunsDone, vars,
              fileVars, diskVars, cycleVars, sessVars, ctlVars
<1>5. CASE ContinueSameAgent
  <2>1. drop' # "none"
    BY <1>5 DEF ContinueSameAgent, DropOf
  <2> QED  BY <1>5, <2>1 DEF ContinueSameAgent
<1>6. CASE ImplementationReturns \/ UpdateReturns \/ FinishRun
  BY <1>1, <1>2, <1>6 DEF ImplementationReturns, UpdateReturns, FinishRun, ProcessGone,
                          Exceptions
<1>7. CASE StartupError \/ Unwind \/ Crash
  BY <1>1, <1>7 DEF StartupError, Unwind, Crash, ProcessGone
<1> QED
  BY <1>1, <1>2, <1>3, <1>4, <1>5, <1>6, <1>7, FailsRaises, AgentRunFailsRaises
     DEF Fails, Next, Process, Invoke, Startup, BeginCycle, ResolveTask, StartCycle,
         StopRun, PlanDryRun, PrepareCycle, EnterSession, CreateAgent, SendPrompt,
         FallBackToComposer, RetryCycle, Backoff, CompleteCycle

\* Edits of the two handover files during implementation never reach the update
\* phase.
THEOREM UpdateStartsClean == Spec => []UpdateStartsFromAttemptStart
<1>1. Init => UpdateStartsFromAttemptStart
  BY DEF Init, UpdateStartsFromAttemptStart
<1> QED  BY <1>1, UpdateStartsStep, TypeCorrect, PTL DEF Spec

\* The snapshot the verification compares with is the text the attempt began with.
SnapshotInv ==
    pc \in {"snapshot", "armUpdate", "updSend", "updWait", "verify"}
        => pre.handover = start.handover

\* Only the guard takes that snapshot, right after it restored the file.
LEMMA SnapshotInvStep == TypeOK /\ SnapshotInv /\ [Next]_vars => SnapshotInv'
<1> SUFFICES ASSUME TypeOK, SnapshotInv, [Next]_vars PROVE SnapshotInv'
  OBVIOUS
<1> USE DEF SnapshotInv
<1>1. CASE pc' \notin {"snapshot", "armUpdate", "updSend", "updWait", "verify"}
  BY <1>1
<1>2. CASE UNCHANGED <<pc, start, pre>>
  BY <1>2
<1>3. CASE \E e \in Exceptions : Raise(e)
  BY <1>1, <1>3 DEF Raise
<1>4. CASE GuardHandoverFiles
  BY <1>1, <1>3, <1>4 DEF GuardHandoverFiles, RestoreFiles, Exceptions
<1>5. CASE PassSnapshotCheck \/ ArmUpdate \/ SendPrompt \/ ContinueSameAgent
  BY <1>5 DEF PassSnapshotCheck, ArmUpdate, SendPrompt, ContinueSameAgent, cycleVars
<1>6. CASE ImplementationReturns \/ UpdateReturns \/ FinishRun
  BY <1>1, <1>3, <1>6 DEF ImplementationReturns, UpdateReturns, FinishRun, ProcessGone,
                          Exceptions, cycleVars
<1>7. CASE StartupError \/ Unwind \/ Crash
  BY <1>1, <1>7 DEF StartupError, Unwind, Crash, ProcessGone
<1> QED
  BY <1>1, <1>2, <1>3, <1>4, <1>5, <1>6, <1>7, FailsRaises, AgentRunFailsRaises
     DEF Fails, Next, Process, Invoke, Startup, BeginCycle, SkipCompleted, ResolveTask,
         StartCycle, StopRun, PlanDryRun, PrepareCycle, EnterSession, CreateAgent,
         FallBackToComposer, RetryCycle, Backoff, CompleteCycle, Sigint, AllRunsDone,
         vars, cycleVars, ctlVars

\* verify_handover_advanced accepts only a text with a marker that differs from the
\* one before.
LEMMA AdvancedDiffers ==
    ASSUME NEW before, NEW after, NEW queue, HandoverAdvanced(before, after, queue)
    PROVE  after # before /\ after.id # NoMarker
BY DEF HandoverAdvanced

\* A verified cycle has moved the handover on, compared to the text its agent was
\* given.
THEOREM VerifiedAdvances == Spec => VerifiedCycleAdvances
<1>1. Init => SnapshotInv
  BY DEF Init, SnapshotInv
<1>2. TypeOK /\ SnapshotInv /\ [Next]_vars
        => [pc = "verify" /\ pc' = "head"
              => handover' # start.handover /\ handover'.id # NoMarker]_vars
  <2> SUFFICES ASSUME TypeOK, SnapshotInv, Next, pc = "verify", pc' = "head"
               PROVE  handover' # start.handover /\ handover'.id # NoMarker
    OBVIOUS
  <2>1. CompleteCycle
    BY FailsRaises, AgentRunFailsRaises
       DEF Fails, Raise, Next, Process, Invoke, Startup, StartupError, BeginCycle,
           SkipCompleted, ResolveTask, StartCycle, StopRun, PlanDryRun, PrepareCycle,
           EnterSession, CreateAgent, SendPrompt, ImplementationReturns, UpdateReturns,
           ContinueSameAgent, FallBackToComposer, RetryCycle, Backoff,
           GuardHandoverFiles, PassSnapshotCheck, ArmUpdate, FinishRun, Unwind, Sigint,
           Crash, ProcessGone, AllRunsDone, vars, ctlVars, Idle, Reported
  <2>2. handover # pre.handover /\ handover.id # NoMarker
    BY <2>1, AdvancedDiffers DEF CompleteCycle, VerificationPasses
  <2> QED  BY <2>1, <2>2 DEF CompleteCycle, SnapshotInv, diskVars
<1> QED
  BY <1>1, <1>2, SnapshotInvStep, TypeCorrect, PTL DEF Spec, VerifiedCycleAdvances

\* A run begins with cycle 0, and the handover that a cycle left behind is not
\* touched before the next one.
LaterInv ==
    /\ pc = "startup" => cycle = 0 /\ outcomes = {}
    /\ LaterCyclesHaveHandover

\* Only a verified cycle, or a planned one, brings the loop back to its head.
LEMMA LaterInvStep == TypeOK /\ LaterInv /\ [Next]_vars => LaterInv'
<1> SUFFICES ASSUME TypeOK, LaterInv, [Next]_vars PROVE LaterInv'
  OBVIOUS
<1> USE DEF LaterInv, LaterCyclesHaveHandover
<1>1. CASE pc' \notin {"startup", "head", "resolve", "resolved"}
  BY <1>1
<1>2. CASE \E e \in Exceptions : Raise(e)
  BY <1>1, <1>2 DEF Raise
<1>3. CASE Invoke \/ Startup
  BY <1>3 DEF Invoke, Startup
<1>4. CASE BeginCycle \/ SkipCompleted \/ ResolveTask \/ Sigint
  BY <1>4 DEF BeginCycle, SkipCompleted, ResolveTask, Sigint, fileVars, diskVars,
              runVars, ctlVars
<1>5. CASE PlanDryRun
  BY <1>5 DEF PlanDryRun
<1>6. CASE CompleteCycle
  BY <1>6, AdvancedDiffers DEF CompleteCycle, VerificationPasses, diskVars
<1>7. CASE ImplementationReturns \/ UpdateReturns \/ FinishRun \/ GuardHandoverFiles
  BY <1>1, <1>2, <1>7 DEF ImplementationReturns, UpdateReturns, FinishRun,
                          GuardHandoverFiles, ProcessGone, Exceptions
<1>8. CASE StartupError \/ Unwind \/ Crash
  BY <1>1, <1>8 DEF StartupError, Unwind, Crash, ProcessGone
<1>9. CASE AllRunsDone \/ UNCHANGED vars
  BY <1>9 DEF AllRunsDone, vars, fileVars, diskVars, runVars, ctlVars
<1> QED
  BY <1>1, <1>2, <1>3, <1>4, <1>5, <1>6, <1>7, <1>8, <1>9, FailsRaises,
     AgentRunFailsRaises
     DEF Fails, Next, Process, StartCycle, StopRun, PrepareCycle, EnterSession,
         CreateAgent, SendPrompt, ContinueSameAgent, FallBackToComposer, RetryCycle,
         Backoff, PassSnapshotCheck, ArmUpdate

\* Once a cycle was verified, the loop never meets a handover without a task marker
\* at the start of a later one.
THEOREM LaterCyclesReadMarker == Spec => []LaterCyclesHaveHandover
<1>1. Init => LaterInv
  BY DEF Init, LaterInv, LaterCyclesHaveHandover
<1>2. LaterInv => LaterCyclesHaveHandover
  BY DEF LaterInv
<1> QED  BY <1>1, <1>2, LaterInvStep, TypeCorrect, PTL DEF Spec

(***************************************************************************)
(* --strict-handover                                                       *)
(***************************************************************************)

\* The alignment check is made two steps before the prompt is composed, from the
\* same text, and no prompt of an earlier try is left over.
StrictInv ==
    /\ implTry # 0 <=> pc \in InCycle \ {"prepare", "backoff"}
    /\ implTry = 0 \/ (pc = "enter" /\ implTry = 1) => prompt = NoPrompt
    /\ pc = "enter" /\ implTry = 1 /\ cfg.strict /\ ~Bootstrap /\ ~fallback
         => handover.id \in {NoMarker, selected}
    /\ StrictPromptMatches

\* Between the check and the prompt nothing moves.
LEMMA StrictInvStep == TypeOK /\ StrictInv /\ [Next]_vars => StrictInv'
<1> SUFFICES ASSUME TypeOK, StrictInv, [Next]_vars PROVE StrictInv'
  OBVIOUS
<1> USE DEF StrictInv, StrictPromptMatches, InCycle, WithSession
<1>1. ASSUME UNCHANGED <<cfg, implTry, prompt, selected>>,
             pc' # "enter",
             pc' \in InCycle \ {"prepare", "backoff"}
                <=> pc \in InCycle \ {"prepare", "backoff"}
      PROVE  StrictInv'
  BY <1>1
<1>2. ASSUME implTry' = 0, prompt' = NoPrompt,
             pc' \notin InCycle \ {"prepare", "backoff"}
      PROVE  StrictInv'
  BY <1>2 DEF NoPrompt
<1>3. CASE \E e \in Exceptions : Raise(e)
  BY <1>2, <1>3 DEF Raise, ForgetCycle
<1>4. CASE Sigint \/ SkipCompleted \/ AllRunsDone \/ UNCHANGED vars
  BY <1>4 DEF Sigint, SkipCompleted, AllRunsDone, vars, fileVars, diskVars, runVars,
              cycleVars, ctlVars, Bootstrap
<1>5. CASE Invoke \/ Startup \/ BeginCycle \/ ResolveTask \/ StartCycle \/ StopRun
           \/ Backoff
  <2>1. implTry = 0
    BY <1>5 DEF Invoke, Startup, BeginCycle, ResolveTask, StartCycle, StopRun, Backoff,
                Idle
  <2>2. /\ UNCHANGED <<implTry, prompt>>
        /\ pc' \notin InCycle \ {"prepare", "backoff"}
    BY <1>5 DEF Invoke, Startup, BeginCycle, ResolveTask, StartCycle, StopRun, Backoff,
                cycleVars
  <2> QED  BY <1>2, <2>1, <2>2
<1>6. CASE PrepareCycle
  <2>1. handover.id \in {NoMarker, selected} \/ ~cfg.strict \/ FallsBack
    BY <1>6 DEF PrepareCycle, PrepareFails, AlignmentRaises, Missing
  <2>2. prompt = NoPrompt
    BY <1>6 DEF PrepareCycle
  <2> QED  BY <1>6, <2>1, <2>2 DEF PrepareCycle, diskVars, runVars, Bootstrap, NoPrompt
<1>7. CASE EnterSession
  <2>1. cfg.strict /\ implTry = 1 /\ PromptTask >= 0 => PromptTask = selected
    BY <1>7 DEF EnterSession, PromptTask, FirstPrompt, NoMarker
  <2> QED  BY <1>7, <2>1 DEF EnterSession, runVars
<1>8. CASE FallBackToComposer
  BY <1>8 DEF FallBackToComposer
<1>9. CASE RetryCycle \/ PlanDryRun \/ CompleteCycle \/ StartupError \/ Unwind \/ Crash
  BY <1>2, <1>9 DEF RetryCycle, PlanDryRun, CompleteCycle, StartupError, Unwind, Crash,
                    ProcessGone, ForgetCycle
<1>10. CASE FinishRun
  BY <1>2, <1>3, <1>10 DEF FinishRun, ProcessGone, ForgetCycle, Exceptions
<1>11. CASE ImplementationReturns \/ UpdateReturns \/ GuardHandoverFiles
  BY <1>1, <1>3, <1>11 DEF ImplementationReturns, UpdateReturns, GuardHandoverFiles,
                           runVars, cycleVars, Exceptions
<1>12. CASE CreateAgent \/ SendPrompt \/ ContinueSameAgent \/ PassSnapshotCheck
            \/ ArmUpdate
  BY <1>1, <1>12 DEF CreateAgent, SendPrompt, ContinueSameAgent, PassSnapshotCheck,
                     ArmUpdate, runVars, cycleVars
<1> QED
  BY <1>3, <1>4, <1>5, <1>6, <1>7, <1>8, <1>9, <1>10, <1>11, <1>12, FailsRaises,
     AgentRunFailsRaises DEF Fails, Next, Process

\* Under --strict-handover the prompt of the first model tried names the task the
\* cycle is attributed to, or no task at all.
THEOREM StrictMatches == Spec => []StrictPromptMatches
<1>1. Init => StrictInv
  BY DEF Init, StrictInv, StrictPromptMatches, NoPrompt, InCycle, WithSession
<1>2. StrictInv => StrictPromptMatches
  BY DEF StrictInv
<1> QED  BY <1>1, <1>2, StrictInvStep, TypeCorrect, PTL DEF Spec

\* Under --strict-handover a resumed run sends the first model tried no prompt for a
\* task that was completed before, which without it the loop does (README, section 5).
THEOREM StrictKeepsSkipped ==
    Spec => [](cfg.resume /\ cfg.strict /\ pc \in WithSession /\ implTry = 1
                   => prompt \notin completed)
<1>1. TypeOK /\ StrictPromptMatches /\ ResumeNeverReselects =>
        (cfg.resume /\ cfg.strict /\ pc \in WithSession /\ implTry = 1
            => prompt \notin completed)
  <2> SUFFICES ASSUME TypeOK, StrictPromptMatches, ResumeNeverReselects, cfg.resume,
                      cfg.strict, pc \in WithSession, implTry = 1, prompt \in completed
               PROVE  FALSE
    OBVIOUS
  <2>1. prompt \in Tasks /\ prompt \in Nat
    BY TaskQueueAssumption DEF TypeOK, RunOK
  <2>2. prompt = selected
    BY <2>1 DEF StrictPromptMatches
  <2> QED  BY <2>2 DEF ResumeNeverReselects, InCycle
<1> QED  BY <1>1, TypeCorrect, StrictMatches, ResumeSkips, PTL

(***************************************************************************)
(* What a run leaves on disk                                               *)
(***************************************************************************)

\* The history is written in the step that ends the process.
RecordedInv ==
    /\ pc = "startup" => outcomes = {}
    /\ VerifiedCyclesRecorded

\* Both ways out of the loop write the same history.
LEMMA RecordedInvStep == TypeOK /\ RecordedInv /\ [Next]_vars => RecordedInv'
<1> SUFFICES ASSUME TypeOK, RecordedInv, [Next]_vars PROVE RecordedInv'
  OBVIOUS
<1> USE DEF RecordedInv, VerifiedCyclesRecorded
<1>1. CASE pc' \notin {"startup", "exited"}
  BY <1>1
<1>2. CASE \E e \in Exceptions : Raise(e)
  BY <1>1, <1>2 DEF Raise
<1>3. CASE FinishRun \/ Unwind
  <2>1. outcomes \subseteq HistoryToWrite.ids
    BY DEF HistoryToWrite
  <2>2. \/ \E e \in Exceptions : Raise(e)
        \/ /\ pc' = "exited" /\ UNCHANGED <<cfg, outcomes, handover>>
           /\ WritesHistory /\ handover # Missing => history' = HistoryToWrite
    BY <1>3 DEF FinishRun, Unwind, ProcessGone, Exceptions, diskVars, runVars
  <2> QED  BY <1>2, <2>1, <2>2 DEF WritesHistory
<1>4. CASE StartupError \/ Crash
  BY <1>4 DEF StartupError, Crash, ProcessGone, WritesHistory, runVars
<1>5. CASE Invoke
  BY <1>5 DEF Invoke
<1>6. CASE Sigint \/ SkipCompleted \/ AllRunsDone \/ UNCHANGED vars
  BY <1>6 DEF Sigint, SkipCompleted, AllRunsDone, WritesHistory, vars, fileVars,
              diskVars, runVars, ctlVars, Idle
<1>7. CASE ImplementationReturns \/ UpdateReturns \/ GuardHandoverFiles
  BY <1>1, <1>2, <1>7 DEF ImplementationReturns, UpdateReturns, GuardHandoverFiles,
                          Exceptions
<1> QED
  BY <1>1, <1>2, <1>3, <1>4, <1>5, <1>6, <1>7, FailsRaises, AgentRunFailsRaises
     DEF Fails, Next, Process, Startup, BeginCycle, ResolveTask, StartCycle, StopRun,
         PlanDryRun, PrepareCycle, EnterSession, CreateAgent, SendPrompt,
         ContinueSameAgent, FallBackToComposer, RetryCycle, Backoff, PassSnapshotCheck,
         ArmUpdate, CompleteCycle

\* However a run ends, short of a kill or a deleted handover, the tasks it verified
\* are in the history file.
THEOREM VerifiedIsRecorded == Spec => []VerifiedCyclesRecorded
<1>1. Init => RecordedInv
  BY DEF Init, RecordedInv, VerifiedCyclesRecorded
<1>2. RecordedInv => VerifiedCyclesRecorded
  BY DEF RecordedInv
<1> QED  BY <1>1, <1>2, RecordedInvStep, TypeCorrect, PTL DEF Spec

\* The state file is cleared when the loop ends, marked when an agent run fails, and
\* marked again by the handler of Ctrl+C.
StateFileInv ==
    /\ pc = "finish" /\ cfg.state => stateFile = NoState
    /\ pc = "unwind" =>
         /\ exc # "none"
         /\ exc \in {"startup", "run"} /\ cfg.state => stateFile.status = "failed"
    /\ StateFileTellsOutcome

\* No checkpoint is written between the failure of a phase and the end of the run.
LEMMA StateFileInvStep == TypeOK /\ StateFileInv /\ [Next]_vars => StateFileInv'
<1> SUFFICES ASSUME TypeOK, StateFileInv, [Next]_vars PROVE StateFileInv'
  OBVIOUS
<1> USE DEF StateFileInv, StateFileTellsOutcome
<1>1. CASE pc' \notin {"finish", "unwind", "exited"}
  BY <1>1
<1>2. CASE \E e \in Exceptions \ {"none", "startup", "run"} : Raise(e)
  BY <1>2 DEF Raise
<1>3. CASE Fails
  <2>1. \E e \in Exceptions \ {"none", "startup", "run"} : Raise(e)
    BY <1>3 DEF Fails, RaiseIfInterrupted, ResolveError, PrepareError, EnterError,
                SendError, GuardRaises, VerificationError, Exceptions
  <2> QED  BY <1>2, <2>1
<1>4. CASE AgentRunFails
  <2>1. pc' = "unwind" /\ exc' # "none" /\ cfg' = cfg
    <3>1. \A f \in StartupFailures \cup RunFailures : f.kind \in {"startup", "run"}
      BY DEF StartupFailures, RunFailures, Failures
    <3>2. Reported \subseteq StartupFailures \cup RunFailures
      BY DEF Reported
    <3> QED  BY <1>4, <3>1, <3>2 DEF AgentRunFails, Raise, runVars
  <2>2. cfg.state => stateFile'.status = "failed"
    BY <1>4 DEF AgentRunFails, PersistFailure
  <2> QED  BY <2>1, <2>2
<1>5. CASE StopRun
  BY <1>5 DEF StopRun, ClearState, runVars
<1>6. CASE FinishRun
  <2>1. CASE Raise("known")
    BY <1>2, <2>1 DEF Exceptions
  <2>2. CASE ProcessGone("none") /\ UNCHANGED <<stateFile, runVars>>
    BY <1>6, <2>2 DEF FinishRun, ProcessGone, ExitCode, runVars
  <2> QED  BY <1>6, <2>1, <2>2 DEF FinishRun
<1>7. CASE Unwind
  <2>1. pc = "unwind" /\ pc' = "exited" /\ exc' = exc /\ cfg' = cfg
    BY <1>7 DEF Unwind, ProcessGone, runVars
  <2>2. exc = "interrupted" /\ cfg.state => stateFile'.status = "interrupted"
    BY <1>7 DEF Unwind
  <2>3. exc # "interrupted" => stateFile' = stateFile
    BY <1>7 DEF Unwind
  <2>4. /\ ExitCode(exc) = 0 => exc = "none"
        /\ ExitCode(exc) = 130 => exc = "interrupted"
    BY DEF ExitCode, TypeOK, ControlOK, Exceptions
  <2> QED  BY <2>1, <2>2, <2>3, <2>4
<1>8. CASE StartupError \/ Crash
  BY <1>8 DEF StartupError, Crash, ProcessGone, ExitCode
<1>9. CASE Invoke
  BY <1>9 DEF Invoke
<1>10. CASE Sigint \/ SkipCompleted \/ AllRunsDone \/ UNCHANGED vars
  BY <1>10 DEF Sigint, SkipCompleted, AllRunsDone, vars, fileVars, runVars, ctlVars
<1>11. CASE ImplementationReturns \/ UpdateReturns \/ GuardHandoverFiles
  BY <1>1, <1>2, <1>11 DEF ImplementationReturns, UpdateReturns, GuardHandoverFiles,
                           Exceptions
<1> QED
  BY <1>1, <1>3, <1>4, <1>5, <1>6, <1>7, <1>8, <1>9, <1>10, <1>11
     DEF Fails, Next, Process, Startup, BeginCycle, ResolveTask, StartCycle,
         PlanDryRun, PrepareCycle, EnterSession, CreateAgent, SendPrompt,
         ContinueSameAgent, FallBackToComposer, RetryCycle, Backoff, PassSnapshotCheck,
         ArmUpdate, CompleteCycle

\* The state file left behind agrees with the exit code.
THEOREM StateFileIsTruthful == Spec => []StateFileTellsOutcome
<1>1. Init => StateFileInv
  BY DEF Init, StateFileInv, StateFileTellsOutcome
<1>2. StateFileInv => StateFileTellsOutcome
  BY DEF StateFileInv
<1> QED  BY <1>1, <1>2, StateFileInvStep, TypeCorrect, PTL DEF Spec

\* All cycles are done, or every task left is in the history of a resumed run.
WorkIsDone ==
    \/ cycle >= cfg.cycles
    \/ /\ ListPending(status) \subseteq completed
       /\ cfg.resume \/ ListPending(status) = {}

SuccessInv == pc = "finish" \/ (pc = "exited" /\ exc = "none") => WorkIsDone

\* Nothing but the end of the loop leads to success, and nothing moves after it.
LEMMA SuccessInvStep ==
    TypeOK /\ StateFileInv /\ ExhaustedInv /\ SuccessInv /\ [Next]_vars => SuccessInv'
<1> SUFFICES ASSUME TypeOK, StateFileInv, ExhaustedInv, SuccessInv, [Next]_vars
             PROVE  SuccessInv'
  OBVIOUS
<1> USE DEF SuccessInv
<1>1. CASE pc' \notin {"finish", "exited"}
  BY <1>1
<1>2. CASE \E e \in Exceptions : Raise(e)
  BY <1>1, <1>2 DEF Raise
<1>3. CASE UNCHANGED <<pc, exc, cycle, cfg, status, completed>>
  <2>1. WorkIsDone => WorkIsDone'
    BY <1>3 DEF WorkIsDone, ListPending
  <2> QED  BY <1>3, <2>1
<1>4. CASE StopRun
  <2>1. UNCHANGED <<cycle, cfg, status, completed>>
    BY <1>4 DEF StopRun, diskVars, runVars
  <2>2. WorkIsDone
    BY <1>4 DEF StopRun, WorkIsDone, ExhaustedInv
  <2> QED  BY <2>1, <2>2 DEF WorkIsDone, ListPending
<1>5. CASE FinishRun
  <2>1. CASE Raise("known")
    BY <1>2, <2>1 DEF Exceptions
  <2>2. CASE ~Raise("known")
    <3>1. UNCHANGED <<cycle, cfg, status, completed>> /\ pc = "finish"
      BY <1>5, <2>2 DEF FinishRun, diskVars, runVars
    <3> QED  BY <3>1 DEF WorkIsDone, ListPending
  <2> QED  BY <2>1, <2>2
<1>6. CASE StartupError \/ Unwind \/ Crash
  <2>1. pc' = "exited" /\ exc' # "none"
    BY <1>6 DEF StartupError, Unwind, Crash, ProcessGone, StateFileInv
  <2> QED  BY <2>1
<1>7. CASE Sigint \/ AllRunsDone \/ SkipCompleted \/ UNCHANGED vars
  BY <1>3, <1>7 DEF Sigint, AllRunsDone, SkipCompleted, vars, fileVars, diskVars, runVars,
                    ctlVars
<1>8. CASE ImplementationReturns \/ UpdateReturns \/ GuardHandoverFiles
  BY <1>1, <1>2, <1>8 DEF ImplementationReturns, UpdateReturns, GuardHandoverFiles,
                          Exceptions
<1>9. CASE Fails \/ AgentRunFails
  BY <1>2, <1>9, FailsRaises, AgentRunFailsRaises
<1> QED
  BY <1>1, <1>4, <1>5, <1>6, <1>7, <1>8, <1>9
     DEF Fails, Next, Process, Invoke, Startup, BeginCycle, ResolveTask, StartCycle,
         PlanDryRun, PrepareCycle, EnterSession, CreateAgent, SendPrompt,
         ContinueSameAgent, FallBackToComposer, RetryCycle, Backoff, PassSnapshotCheck,
         ArmUpdate, CompleteCycle

\* Exit code 0 is earned: whatever failed, was retried or was interrupted on the way,
\* the configured number of cycles was completed, or no task is left undone but those in
\* the history a resumed run loaded.
THEOREM SuccessIsEarned == Spec => [](pc = "exited" /\ ExitCode(exc) = 0 => WorkIsDone)
<1>1. Init => SuccessInv /\ StateFileInv /\ SkipInv /\ ExhaustedInv
  BY DEF Init, SuccessInv, StateFileInv, StateFileTellsOutcome, SkipInv, PinPending,
         ExhaustedInv
<1>2. TypeOK /\ SuccessInv => (pc = "exited" /\ ExitCode(exc) = 0 => WorkIsDone)
  <2>1. TypeOK /\ ExitCode(exc) = 0 => exc = "none"
    BY DEF ExitCode, TypeOK, ControlOK, Exceptions
  <2> QED  BY <2>1 DEF SuccessInv
<1> QED
  BY <1>1, <1>2, SuccessInvStep, StateFileInvStep, SkipInvStep, ExhaustedInvStep,
     TypeCorrect, PTL DEF Spec

\* The points of a cycle that a dry run does not get to: it ends in "prepare".
PastPlan == InCycle \ {"prepare"}

\* A dry run never enters a session.
DryRunInv == cfg.dryRun => pc \notin PastPlan

\* PrepareCycle is the only way there, and needs a run that is not dry.
LEMMA DryRunInvStep == TypeOK /\ DryRunInv /\ [Next]_vars => DryRunInv'
<1> SUFFICES ASSUME TypeOK, DryRunInv, [Next]_vars PROVE DryRunInv'
  OBVIOUS
<1> USE DEF DryRunInv, PastPlan, InCycle, WithSession
<1>1. CASE pc' \notin PastPlan
  BY <1>1
<1>2. CASE UNCHANGED cfg /\ (pc' \in PastPlan => pc \in PastPlan)
  BY <1>2
<1>3. CASE \E e \in Exceptions : Raise(e)
  BY <1>1, <1>3 DEF Raise
<1>4. CASE PrepareCycle
  BY <1>4 DEF PrepareCycle, runVars
<1>5. CASE ImplementationReturns \/ UpdateReturns \/ GuardHandoverFiles
  BY <1>2, <1>3, <1>5 DEF ImplementationReturns, UpdateReturns, GuardHandoverFiles,
                          runVars, Exceptions
<1>6. CASE FallBackToComposer \/ RetryCycle
  BY <1>2, <1>6 DEF FallBackToComposer, RetryCycle, Reported, runVars
<1>7. CASE StartupError \/ FinishRun \/ Unwind \/ Crash
  BY <1>1, <1>3, <1>7 DEF StartupError, FinishRun, Unwind, Crash, ProcessGone, Exceptions
<1> QED
  BY <1>1, <1>2, <1>3, <1>4, <1>5, <1>6, <1>7, FailsRaises, AgentRunFailsRaises
     DEF Fails, Next, Process, Invoke, Startup, BeginCycle, SkipCompleted, ResolveTask,
         StartCycle, StopRun, PlanDryRun, EnterSession, CreateAgent, SendPrompt,
         ContinueSameAgent, Backoff, PassSnapshotCheck, ArmUpdate, CompleteCycle, Sigint,
         AllRunsDone, vars, runVars, ctlVars

\* A dry run leaves the project's files and the history as they were.
THEOREM DryRunIsHarmless == Spec => DryRunTouchesNothing
<1>1. Init => DryRunInv
  BY DEF Init, DryRunInv, PastPlan, InCycle, WithSession
<1>2. TypeOK /\ DryRunInv /\ [Next]_vars
        => [cfg.dryRun /\ pc \notin Idle => UNCHANGED <<diskVars, history>>]_vars
  <2> SUFFICES ASSUME TypeOK, DryRunInv, Next, cfg.dryRun, pc \notin Idle
               PROVE  UNCHANGED <<diskVars, history>>
    OBVIOUS
  <2>1. pc \notin PastPlan
    BY DEF DryRunInv
  <2>2. CASE FinishRun \/ Unwind
    BY <2>2 DEF FinishRun, Unwind, WritesHistory, fileVars
  <2> QED
    BY <2>1, <2>2, FailsRaises
       DEF Fails, Next, Process, Invoke, Startup, StartupError, BeginCycle,
           SkipCompleted, ResolveTask, StartCycle, StopRun, PlanDryRun, PrepareCycle,
           EnterSession, CreateAgent, SendPrompt, ImplementationReturns, UpdateReturns,
           ContinueSameAgent, FallBackToComposer, RetryCycle, AgentRunFails, Reported,
           Backoff, GuardHandoverFiles, PassSnapshotCheck, ArmUpdate, CompleteCycle,
           Sigint, Crash, AllRunsDone, vars, fileVars, PastPlan, InCycle, WithSession
<1> QED
  BY <1>1, <1>2, DryRunInvStep, TypeCorrect, PTL DEF Spec, DryRunTouchesNothing

(***************************************************************************)
(* The contract of a run                                                   *)
(***************************************************************************)

\* What a run at work compares tasks with, and what it will add its own tasks to,
\* is what it loaded.
LoadedInv ==
    AtWork => /\ cfg.resume => completed = prior.ids
              /\ ~cfg.resume => prior = NoHistory

\* Only the start of a run loads anything.
LEMMA LoadedInvStep == LoadedInv /\ [Next]_vars => LoadedInv'
<1> SUFFICES ASSUME LoadedInv, [Next]_vars PROVE LoadedInv'
  OBVIOUS
<1> USE DEF LoadedInv, AtWork
<1>1. CASE UNCHANGED <<cfg, completed, prior>> /\ pc \notin Idle \cup {"startup"}
  BY <1>1
<1>2. CASE pc' \in Idle \cup {"startup"}
  BY <1>2
<1>3. CASE Startup
  BY <1>3 DEF Startup
<1>4. CASE Invoke \/ StartupError \/ Unwind \/ Crash
  BY <1>2, <1>4 DEF Invoke, StartupError, Unwind, Crash, ProcessGone, Idle
<1>5. CASE FinishRun
  BY <1>1, <1>2, <1>5 DEF FinishRun, Raise, ProcessGone, runVars, Idle
<1>6. CASE Fails \/ AgentRunFails
  <2>1. pc \notin Idle \cup {"startup"}
    BY <1>6 DEF Fails, RaiseIfInterrupted, ResolveError, PrepareError, EnterError,
                SendError, GuardRaises, VerificationError, AgentRunFails, Reported,
                EditsOfFailedPhase, Idle
  <2>2. UNCHANGED runVars
    BY <1>6, FailsRaises, AgentRunFailsRaises DEF Raise
  <2> QED  BY <1>1, <2>1, <2>2 DEF runVars
<1>7. CASE Sigint \/ AllRunsDone \/ UNCHANGED vars
  BY <1>7 DEF Sigint, AllRunsDone, vars, runVars, ctlVars
<1>8. CASE ImplementationReturns \/ UpdateReturns \/ GuardHandoverFiles
  BY <1>1, <1>8 DEF ImplementationReturns, UpdateReturns, GuardHandoverFiles, Raise,
                    runVars, Idle
<1>9. CASE FallBackToComposer \/ RetryCycle \/ ContinueSameAgent
  BY <1>1, <1>9 DEF FallBackToComposer, RetryCycle, ContinueSameAgent, Reported,
                    runVars, Idle
<1> QED
  BY <1>1, <1>3, <1>4, <1>5, <1>6, <1>7, <1>8, <1>9
     DEF Fails, Next, Process, BeginCycle, SkipCompleted, ResolveTask, StartCycle,
         StopRun, PlanDryRun, PrepareCycle, EnterSession, CreateAgent, SendPrompt,
         Backoff, PassSnapshotCheck, ArmUpdate, CompleteCycle, runVars, Idle

\* Every exception but "none" gives an exit code other than 0.
LEMMA ExitCodesOfExceptions ==
    ASSUME NEW e \in Exceptions
    PROVE  /\ ExitCode(e) \in Contract!ExitCodes
           /\ e # "none" => ExitCode(e) # 0
BY DEF Exceptions, ExitCode, Contract!ExitCodes

\* A step of a run at work that touches neither its results nor the record is none
\* of the contract's business.
LEMMA QuietStep ==
    ASSUME AtWork, AtWork', UNCHANGED <<cfg, outcomes, history>>
    PROVE  UNCHANGED Contract!vars
BY DEF AtWork, ContractPhase, ContractCode, Contract!vars, Idle

\* What HistoryToWrite has is the complete record of the contract.
LEMMA HistoryToWriteIsComplete ==
    ASSUME AtWork, HistoryInv, LoadedInv
    PROVE  (IF WritesHistory THEN HistoryToWrite ELSE history).ids = Contract!Complete
<1>1. CASE WritesHistory
  <2>1. HistoryToWrite.ids = IF prior.exists THEN prior.ids \cup outcomes ELSE outcomes
    BY DEF HistoryToWrite
  <2>2. CASE cfg.resume
    <3>1. prior = history
      BY <2>2 DEF HistoryInv, AtWork
    <3>2. ~history.exists => history.ids = {}
      BY DEF HistoryInv
    <3> QED  BY <1>1, <2>1, <2>2, <3>1, <3>2 DEF WritesHistory, Contract!Complete
  <2>3. CASE ~cfg.resume
    BY <1>1, <2>1, <2>3 DEF LoadedInv, NoHistory, WritesHistory, Contract!Complete
  <2> QED  BY <2>2, <2>3
<1>2. CASE ~WritesHistory
  BY <1>2 DEF WritesHistory, Contract!Complete
<1> QED  BY <1>1, <1>2

\* A process that is gone with exception e, the record complete or left alone, ends
\* the run of the contract.
LEMMA GoneEnds ==
    ASSUME AtWork, HistoryInv, LoadedInv, NEW e \in Exceptions, ProcessGone(e),
           history'.ids \in {history.ids, Contract!Complete},
           e = "none" => history'.ids = Contract!Complete
    PROVE  Contract!End
<1>1. ~AtWork' /\ pc' = "exited" /\ exc' = e
  BY DEF ProcessGone, AtWork, Idle
<1>2. ContractPhase = "working" /\ ContractPhase' = "idle"
  BY <1>1 DEF ContractPhase
<1>3. ContractCode' = ExitCode(e)
  BY <1>1 DEF ContractCode
<1> QED
  BY <1>1, <1>2, <1>3, ExitCodesOfExceptions DEF Contract!End

\* Every step of the run loop is a step of the contract, or none.
LEMMA ContractStep ==
    /\ TypeOK /\ ResumeInv /\ HistoryInv /\ LoadedInv /\ StateFileInv
    /\ [Next]_vars
    => [Contract!Next]_(Contract!vars)
<1> SUFFICES ASSUME TypeOK, ResumeInv, HistoryInv, LoadedInv, StateFileInv, [Next]_vars
             PROVE  Contract!Next \/ UNCHANGED Contract!vars
  OBVIOUS
<1>1. CASE AtWork /\ AtWork' /\ UNCHANGED <<cfg, outcomes, history>>
  BY <1>1, QuietStep
<1>2. CASE Invoke
  BY <1>2 DEF Invoke, Contract!Next, Contract!Invoke, ContractPhase, ContractCode, AtWork,
              Idle, Contract!NoCode
<1>3. CASE Startup
  <2>1. outcomes = {} /\ outcomes' = {} /\ UNCHANGED <<cfg, history>>
    BY <1>3 DEF Startup, ResumeInv, fileVars
  <2>2. ~AtWork /\ AtWork' /\ pc = "startup" /\ pc' = "head"
    BY <1>3 DEF Startup, AtWork, Idle
  <2>3. /\ (AtWork' /\ cfg'.resume) \in BOOLEAN
        /\ (AtWork' /\ cfg'.history /\ ~cfg'.dryRun) \in BOOLEAN
    OBVIOUS
  <2> QED  BY <2>1, <2>2, <2>3
              DEF Contract!Next, Contract!Begin, ContractPhase, ContractCode
<1>4. CASE StartupError \/ (Crash /\ pc = "startup")
  <2>1. \E e \in Exceptions \ {"none"} : ProcessGone(e)
    BY <1>4 DEF StartupError, Crash, Exceptions
  <2>2. PICK e \in Exceptions \ {"none"} : ProcessGone(e)
    BY <2>1
  <2>3. pc = "startup" /\ pc' = "exited" /\ exc' = e /\ UNCHANGED history
    BY <1>4, <2>2 DEF StartupError, Crash, ProcessGone, fileVars
  <2> QED
    BY <2>3, ExitCodesOfExceptions
       DEF Contract!Next, Contract!Refuse, ContractPhase, ContractCode, AtWork, Idle
<1>5. CASE Crash /\ pc # "startup"
  <2>1. AtWork /\ ProcessGone("killed") /\ UNCHANGED history
    BY <1>5 DEF Crash, AtWork, fileVars
  <2> QED  BY <2>1, GoneEnds DEF Contract!Next, Exceptions
<1>6. CASE FinishRun
  <2>1. AtWork
    BY <1>6 DEF FinishRun, AtWork, Idle
  <2>2. CASE WritesHistory /\ handover = Missing
    BY <1>1, <1>6, <2>1, <2>2 DEF FinishRun, Raise, fileVars, runVars, AtWork, Idle
  <2>3. CASE ~(WritesHistory /\ handover = Missing)
    <3>1. history' = (IF WritesHistory THEN HistoryToWrite ELSE history)
      BY <1>6, <2>3 DEF FinishRun
    <3>2. ProcessGone("none")
      BY <1>6, <2>3 DEF FinishRun
    <3> QED  BY <2>1, <3>1, <3>2, GoneEnds, HistoryToWriteIsComplete
                DEF Contract!Next, Exceptions
  <2> QED  BY <2>2, <2>3
<1>7. CASE Unwind
  <2>1. AtWork /\ exc \in Exceptions /\ exc # "none" /\ ProcessGone(exc)
    BY <1>7 DEF Unwind, AtWork, Idle, TypeOK, ControlOK, StateFileInv
  <2>2. \/ history' = history
        \/ history' = (IF WritesHistory THEN HistoryToWrite ELSE history)
    BY <1>7 DEF Unwind
  <2>3. history'.ids \in {history.ids, Contract!Complete}
    BY <2>1, <2>2, HistoryToWriteIsComplete
  <2> QED  BY <2>1, <2>3, GoneEnds DEF Contract!Next
<1>8. CASE PlanDryRun \/ CompleteCycle
  <2>1. /\ AtWork /\ AtWork' /\ selected \in Tasks
        /\ cfg.resume => selected \notin completed
    BY <1>8 DEF PlanDryRun, CompleteCycle, AtWork, Idle, TypeOK, CycleOK, ResumeInv,
                InCycle, WithSession, NoTask
  <2>2. /\ outcomes' = outcomes \cup {selected} /\ UNCHANGED <<cfg, history>>
    BY <1>8 DEF PlanDryRun, CompleteCycle, fileVars
  <2>3. cfg.resume => selected \notin history.ids
    BY <2>1 DEF LoadedInv, HistoryInv, AtWork
  <2>4. UNCHANGED <<ContractPhase, ContractCode>>
    BY <2>1 DEF ContractPhase, ContractCode, AtWork, Idle
  <2> QED  BY <2>1, <2>2, <2>3, <2>4 DEF Contract!Next, Contract!Verify, ContractPhase
<1>9. CASE Sigint \/ AllRunsDone \/ UNCHANGED vars
  <2>1. UNCHANGED <<pc, exc, cfg, outcomes, history>>
    BY <1>9 DEF Sigint, AllRunsDone, vars, fileVars, runVars, ctlVars
  <2> QED  BY <2>1 DEF Contract!vars, ContractPhase, ContractCode, AtWork
<1>10. CASE Fails \/ AgentRunFails
  <2>1. AtWork
    BY <1>10 DEF Fails, RaiseIfInterrupted, ResolveError, PrepareError, EnterError,
                SendError, GuardRaises, VerificationError, AgentRunFails, Reported,
                EditsOfFailedPhase, Idle, AtWork
  <2>2. pc' = "unwind" /\ UNCHANGED <<runVars, history>>
    BY <1>10, FailsRaises, AgentRunFailsRaises DEF Raise, fileVars, AgentRunFails
  <2> QED  BY <1>1, <2>1, <2>2 DEF runVars, AtWork, Idle
<1>11. CASE ImplementationReturns \/ UpdateReturns \/ GuardHandoverFiles
  BY <1>1, <1>11 DEF ImplementationReturns, UpdateReturns, GuardHandoverFiles, Raise,
                     runVars, AtWork, Idle
<1>12. CASE FallBackToComposer \/ RetryCycle \/ ContinueSameAgent
  BY <1>1, <1>12 DEF FallBackToComposer, RetryCycle, ContinueSameAgent, Reported,
                     runVars, AtWork, Idle
<1>13. CASE BeginCycle \/ SkipCompleted \/ ResolveTask \/ StartCycle \/ StopRun
            \/ PrepareCycle
  BY <1>1, <1>13 DEF BeginCycle, SkipCompleted, ResolveTask, StartCycle, StopRun,
                     PrepareCycle, fileVars, runVars, ctlVars, AtWork, Idle
<1>14. CASE EnterSession \/ CreateAgent \/ SendPrompt \/ Backoff \/ PassSnapshotCheck
            \/ ArmUpdate
  BY <1>1, <1>14 DEF EnterSession, CreateAgent, SendPrompt, Backoff, PassSnapshotCheck,
                     ArmUpdate, fileVars, runVars, AtWork, Idle
<1> QED
  BY <1>1, <1>2, <1>3, <1>4, <1>5, <1>6, <1>7, <1>8, <1>9, <1>10, <1>11, <1>12, <1>13,
     <1>14
     DEF Fails, Next, Process

\* The run loop implements its contract: its record of verified tasks changes at
\* the end of a run and at once, completely if the exit code is 0.
THEOREM RunKeepsContract == Spec => ImplementsContract
<1>1. Init => Contract!Init
  BY DEF Init, Contract!Init, ContractPhase, ContractCode, AtWork, Idle, NoHistory,
         Contract!NoCode
<1>2. Init => ResumeInv /\ HistoryInv /\ LoadedInv /\ StateFileInv
  BY DEF Init, ResumeInv, HistoryInv, LoadedInv, StateFileInv, StateFileTellsOutcome,
         AtWork, NoHistory, Idle, InCycle, WithSession
<1> QED
  BY <1>1, <1>2, ResumeInvStep, HistoryInvStep, LoadedInvStep, StateFileInvStep,
     ContractStep, TypeCorrect, PTL
     DEF Spec, ImplementsContract, Contract!Spec
=============================================================================
