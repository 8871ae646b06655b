--------------------------- MODULE RunLoopProofs ---------------------------
(***************************************************************************)
(* Theorems about the run loop, for every queue, handover text, setting    *)
(* and number of runs: type correctness, and the safety invariants that    *)
(* rest on it.  Those that are not inductive are proved from the           *)
(* strengthening that stands before them.                                  *)
(***************************************************************************)
EXTENDS RunLoop, TaskQueueProofs

(***************************************************************************)
(* Type correctness                                                        *)
(***************************************************************************)

\* A lookup, empty or not, has a type: the reason why a wild marker in the
\* handover cannot make the loop select a task that does not exist.
LEMMA LookupInTasks ==
    ASSUME TypeOK, ~ResolveFails
    PROVE  Lookup \in Tasks \cup {NoTask}
<1>1. PinPending => GetById(cfg.pinned) \in Tasks \cup {NoTask}
  BY DEF GetById
<1>2. ResolveSequential(status, exclude) \in Tasks \cup {NoTask}
  BY ResolveSequentialInTasks DEF TypeOK, FilesOK
<1>3. ResolveHandover(handover, status, exclude) \in Tasks \cup {NoTask}
  BY ResolveHandoverInTasks DEF TypeOK, FilesOK
<1> QED  BY <1>1, <1>2, <1>3 DEF Lookup

\* The values that stand for "no cycle under way" are well typed.
LEMMA NoCycleTyped ==
    /\ NoPrompt \in Int
    /\ NoStart \in [handover : Handovers, template : TemplateStates]
    /\ NoPre \in [handover : Handovers, ai : AiContextStates]
BY DEF NoPrompt, NoStart, NoPre, Handovers, TemplateStates, AiContextStates

\* The initial state is well typed.
LEMMA TypeOKInit == Init => TypeOK
<1> SUFFICES ASSUME Init PROVE TypeOK
  OBVIOUS
<1>1. FilesOK
  BY EnvironmentAssumption
     DEF Init, FilesOK, Histories, NoHistory, NoState, Phases, TemplateStates,
         AiContextStates
<1>2. ControlOK
  BY DEF Init, ControlOK, PCs, Idle, Exceptions
<1>3. RunOK
  BY DEF Init, RunOK, Histories, NoHistory
<1>4. CycleOK
  BY NoCycleTyped DEF Init, CycleOK, InCycle, WithSession
<1>5. SessionOK
  BY DEF Init, SessionOK, Drops
<1>6. FlagsOK
  BY DEF Init, FlagsOK
<1> QED  BY <1>1, <1>2, <1>3, <1>4, <1>5, <1>6 DEF TypeOK

\* The actions that only raise an exception out of the loop.
Fails == \/ RaiseIfInterrupted \/ ResolveError \/ PrepareError \/ EnterError
         \/ SendError \/ GuardRaises \/ VerificationError

\* They leave every file alone and unwind with an exception of the run.
LEMMA FailsRaises ==
    ASSUME Fails
    PROVE  /\ UNCHANGED fileVars
           /\ \E e \in Exceptions : Raise(e)
BY DEF Fails, RaiseIfInterrupted, ResolveError, PrepareError, EnterError, SendError,
       GuardRaises, VerificationError, Exceptions

\* A failed agent run unwinds too, with the kind of its failure.
LEMMA AgentRunFailsRaises ==
    ASSUME AgentRunFails
    PROVE  \E e \in Exceptions : Raise(e)
<1>1. \A f \in StartupFailures \cup RunFailures : f.kind \in Exceptions
  BY DEF StartupFailures, RunFailures, Failures, Exceptions
<1>2. Reported \subseteq StartupFailures \cup RunFailures
  BY DEF Reported
<1> QED  BY <1>1, <1>2 DEF AgentRunFails

\* Whatever an agent does to the project, the files stay well typed.
LEMMA AgentEditsTyped ==
    ASSUME TypeOK, NEW handovers \in SUBSET Handovers, AgentEdits(handovers)
    PROVE  /\ status' \in Queues /\ handover' \in Handovers
           /\ template' \in TemplateStates /\ aiContext' \in AiContextStates
<1>1. ASSUME NEW t \in Tasks, NEW s \in AgentStatuses
      PROVE  SetStatus(status, t, s) \in Queues
  BY EnvironmentAssumption DEF TypeOK, FilesOK, SetStatus, Queues
<1> QED
  BY <1>1, EnvironmentAssumption DEF AgentEdits, TypeOK, FilesOK

\* Both sets of handovers an agent may leave are handovers.
LEMMA PhaseHandovers ==
    ImplHandovers \in SUBSET Handovers /\ UpdateHandovers \in SUBSET Handovers
BY EnvironmentAssumption

\* The files stay well typed.
LEMMA FilesOKStep ==
    ASSUME TypeOK, Next
    PROVE  FilesOK'
<1> USE DEF TypeOK, FilesOK
<1>1. CASE UNCHANGED fileVars
  BY <1>1 DEF fileVars, diskVars
<1>2. CASE Invoke
  BY <1>2, EnvironmentAssumption DEF Invoke
<1>3. CASE BeginCycle \/ StartCycle \/ StopRun \/ PrepareCycle \/ CompleteCycle
  BY <1>3 DEF BeginCycle, StartCycle, StopRun, PrepareCycle, CompleteCycle,
              Checkpoint, ClearState, diskVars, NoState, Phases
<1>4. CASE ImplementationReturns \/ UpdateReturns \/ ContinueSameAgent
  <2>1. AgentEdits(ImplHandovers) \/ AgentEdits(UpdateHandovers)
    BY <1>4 DEF ImplementationReturns, UpdateReturns, ContinueSameAgent
  <2>2. /\ status' \in Queues /\ handover' \in Handovers
        /\ template' \in TemplateStates /\ aiContext' \in AiContextStates
    BY <2>1, AgentEditsTyped, PhaseHandovers
  <2>3. UNCHANGED history /\ (UNCHANGED stateFile \/ Checkpoint("verify"))
    BY <1>4 DEF ImplementationReturns, UpdateReturns, ContinueSameAgent
  <2> QED  BY <2>2, <2>3 DEF Checkpoint, Phases
<1>5. CASE FallBackToComposer \/ RetryCycle \/ AgentRunFails
  <2>1. EditsOfFailedPhase
    BY <1>5 DEF FallBackToComposer, RetryCycle, AgentRunFails
  <2>2. \/ UNCHANGED diskVars
        \/ AgentEdits(ImplHandovers) \/ AgentEdits(UpdateHandovers)
    BY <2>1 DEF EditsOfFailedPhase
  <2>3. /\ status' \in Queues /\ handover' \in Handovers
        /\ template' \in TemplateStates /\ aiContext' \in AiContextStates
    BY <2>2, AgentEditsTyped, PhaseHandovers DEF diskVars
  <2>4. UNCHANGED history /\ (UNCHANGED stateFile \/ PersistFailure)
    BY <1>5 DEF FallBackToComposer, RetryCycle, AgentRunFails
  <2> QED  BY <2>3, <2>4 DEF PersistFailure, Phases
<1>6. CASE GuardHandoverFiles
  BY <1>6 DEF GuardHandoverFiles, RestoreFiles, Checkpoint, Phases, CycleOK
<1>7. CASE FinishRun \/ Unwind
  <2>1. history' \in {history, HistoryToWrite}
    BY <1>7 DEF FinishRun, Unwind, fileVars
  <2>2. HistoryToWrite \in Histories
    BY DEF HistoryToWrite, Histories, RunOK
  <2>3. /\ UNCHANGED diskVars
        /\ stateFile' \in {stateFile, [status |-> "interrupted", phase |-> "none"]}
    BY <1>7 DEF FinishRun, Unwind, fileVars, diskVars
  <2> QED  BY <2>1, <2>2, <2>3 DEF diskVars, Phases
<1> QED
  BY <1>1, <1>2, <1>3, <1>4, <1>5, <1>6, <1>7, FailsRaises
     DEF Fails, Next, Process, Startup, StartupError, SkipCompleted, ResolveTask,
         PlanDryRun, EnterSession, CreateAgent, SendPrompt, Backoff,
         PassSnapshotCheck, ArmUpdate, Sigint, Crash, AllRunsDone, vars

\* Program counter, exception and interrupt flag stay well typed.
LEMMA ControlOKStep ==
    ASSUME TypeOK, Next
    PROVE  ControlOK'
<1> USE DEF TypeOK, ControlOK
<1>1. CASE UNCHANGED ctlVars
  BY <1>1 DEF ctlVars
<1>2. CASE \E e \in Exceptions : Raise(e)
  BY <1>2 DEF Raise, PCs
<1>3. CASE StartupError \/ FinishRun \/ Unwind \/ Crash
  BY <1>3 DEF StartupError, FinishRun, Unwind, Crash, ProcessGone, Raise, PCs, Idle,
              Exceptions
<1>4. CASE Invoke \/ Sigint
  BY <1>4 DEF Invoke, Sigint, PCs, Exceptions, RunOK
<1>5. CASE Startup \/ BeginCycle \/ ResolveTask \/ StartCycle \/ StopRun \/ PlanDryRun
           \/ PrepareCycle \/ EnterSession \/ CreateAgent \/ SendPrompt
  BY <1>5 DEF Startup, BeginCycle, ResolveTask, StartCycle, StopRun, PlanDryRun,
              PrepareCycle, EnterSession, CreateAgent, SendPrompt,
              PCs, InCycle, WithSession
<1>6. CASE ContinueSameAgent \/ FallBackToComposer \/ RetryCycle \/ Backoff
           \/ PassSnapshotCheck \/ ArmUpdate \/ CompleteCycle
  BY <1>6 DEF ContinueSameAgent, FallBackToComposer, RetryCycle, Backoff,
              PassSnapshotCheck, ArmUpdate, CompleteCycle, PCs, InCycle, WithSession
<1>7. CASE ImplementationReturns \/ UpdateReturns \/ GuardHandoverFiles
  BY <1>7 DEF ImplementationReturns, UpdateReturns, GuardHandoverFiles, Raise,
              PCs, InCycle, WithSession, Exceptions
<1> QED
  BY <1>1, <1>2, <1>3, <1>4, <1>5, <1>6, <1>7, FailsRaises, AgentRunFailsRaises
     DEF Fails, Next, Process, SkipCompleted, AllRunsDone, vars

\* The settings and the records of the run stay well typed.
LEMMA RunOKStep ==
    ASSUME TypeOK, Next
    PROVE  RunOK'
<1> USE DEF TypeOK, RunOK
<1>1. CASE UNCHANGED runVars
  BY <1>1 DEF runVars
<1>2. CASE \E e \in Exceptions : Raise(e)
  BY <1>2 DEF Raise, runVars
<1>3. CASE Invoke
  BY <1>3 DEF Invoke, Histories, NoHistory
<1>4. CASE Startup
  <2>1. ReadHistory \in Histories
    BY DEF ReadHistory, FilesOK, Histories, NoHistory
  <2> QED  BY <1>4, <2>1 DEF Startup, Histories, NoHistory
<1>5. CASE SkipCompleted
  <2>1. Lookup \in completed
    BY <1>5 DEF SkipCompleted, AlreadyCompleted
  <2> QED  BY <1>5, <2>1 DEF SkipCompleted
<1>6. CASE ResolveTask \/ FallBackToComposer
  BY <1>6 DEF ResolveTask, FallBackToComposer
<1>7. CASE PlanDryRun \/ CompleteCycle
  <2>1. selected \in Tasks
    BY <1>7 DEF PlanDryRun, CompleteCycle, CycleOK, InCycle, WithSession
  <2> QED  BY <1>7, <2>1 DEF PlanDryRun, CompleteCycle, CycleOK
<1>8. CASE ImplementationReturns \/ UpdateReturns \/ GuardHandoverFiles \/ FinishRun
  BY <1>8 DEF ImplementationReturns, UpdateReturns, GuardHandoverFiles, FinishRun,
              Raise, runVars
<1> QED
  BY <1>1, <1>2, <1>3, <1>4, <1>5, <1>6, <1>7, <1>8, FailsRaises, AgentRunFailsRaises
     DEF Fails, Next, Process, StartupError, BeginCycle, StartCycle, StopRun,
         PrepareCycle, EnterSession, CreateAgent, SendPrompt, ContinueSameAgent,
         RetryCycle, Backoff, PassSnapshotCheck, ArmUpdate, Unwind, Sigint, Crash,
         AllRunsDone, vars

\* The locals of the cycle stay well typed, and a cycle under way has a task.
LEMMA CycleOKStep ==
    ASSUME TypeOK, Next
    PROVE  CycleOK'
<1> USE DEF TypeOK, CycleOK
<1>1. CASE UNCHANGED cycleVars /\ (pc' \in InCycle => pc \in InCycle)
  BY <1>1 DEF cycleVars
<1>2. ASSUME ForgetCycle, pc' \notin InCycle PROVE CycleOK'
  BY <1>2, NoCycleTyped DEF ForgetCycle
<1>3. CASE \E e \in Exceptions : Raise(e)
  BY <1>2, <1>3 DEF Raise, InCycle, WithSession
<1>4. CASE StartupError \/ Unwind \/ Crash \/ PlanDryRun \/ CompleteCycle
  BY <1>2, <1>4 DEF StartupError, Unwind, Crash, PlanDryRun, CompleteCycle,
                    ProcessGone, InCycle, WithSession
<1>5. CASE FinishRun
  BY <1>2, <1>3, <1>5 DEF FinishRun, ProcessGone, InCycle, WithSession, Exceptions
<1>6. CASE ResolveTask
  <2>1. Lookup \in Tasks \cup {NoTask}
    BY <1>6, LookupInTasks DEF ResolveTask
  <2> QED  BY <1>6, <2>1 DEF ResolveTask, InCycle, WithSession
<1>7. CASE StartCycle
  BY <1>7 DEF StartCycle
<1>8. CASE PrepareCycle
  BY <1>8 DEF PrepareCycle, InCycle, FilesOK
<1>9. CASE EnterSession
  <2>1. PromptTask \in Int
    <3>1. FirstPrompt \in Int
      BY DEF FirstPrompt
    <3>2. selected \in Int
      BY TaskQueueAssumption DEF NoTask
    <3>3. handover.id \in Int
      BY HandoverAssumption DEF FilesOK, Handovers, Missing, NoMarker
    <3> QED  BY <3>1, <3>2, <3>3 DEF PromptTask
  <2> QED  BY <1>9, <2>1 DEF EnterSession, InCycle
<1>10. CASE FallBackToComposer
  BY <1>10 DEF FallBackToComposer, Reported, InCycle, WithSession
<1>11. CASE RetryCycle
  BY <1>11, NoCycleTyped DEF RetryCycle, Reported, InCycle, WithSession
<1>12. CASE ImplementationReturns \/ UpdateReturns
  BY <1>12, <1>1, <1>3 DEF ImplementationReturns, UpdateReturns, Exceptions, InCycle,
                           WithSession
<1>13. CASE GuardHandoverFiles
  <2>1. CASE Raise("known")
    BY <1>3, <2>1 DEF Exceptions
  <2>2. CASE /\ UNCHANGED <<selected, attempt, implTry, prompt, start>>
             /\ pre' = [handover |-> handover', ai |-> aiContext]
    <3>1. handover' \in Handovers /\ aiContext \in AiContextStates /\ pc \in InCycle
      BY <1>13 DEF GuardHandoverFiles, RestoreFiles, FilesOK, InCycle, WithSession
    <3> QED  BY <2>2, <3>1
  <2> QED  BY <1>13, <2>1, <2>2 DEF GuardHandoverFiles
<1> QED
  BY <1>1, <1>3, <1>4, <1>5, <1>6, <1>7, <1>8, <1>9, <1>10, <1>11, <1>12, <1>13,
     FailsRaises, AgentRunFailsRaises
     DEF Fails, Next, Process, Invoke, Startup, BeginCycle, SkipCompleted, StopRun,
         CreateAgent, SendPrompt, ContinueSameAgent, Backoff, PassSnapshotCheck,
         ArmUpdate, Sigint, AllRunsDone, vars, ctlVars, InCycle, WithSession, Idle

\* The session stays well typed.
LEMMA SessionOKStep ==
    ASSUME TypeOK, Next
    PROVE  SessionOK'
<1> USE DEF TypeOK, SessionOK
<1>1. CASE UNCHANGED <<agent, live, drop>>
  BY <1>1
<1>2. ASSUME CloseSession PROVE SessionOK'
  BY <1>2 DEF CloseSession, Drops
<1>3. ASSUME NEW e, ProcessGone(e) PROVE SessionOK'
  BY <1>3 DEF ProcessGone, Drops
<1>4. CASE \E e \in Exceptions : Raise(e)
  BY <1>2, <1>4 DEF Raise
<1>5. CASE CreateAgent
  BY <1>5 DEF CreateAgent
<1>6. CASE ContinueSameAgent
  BY <1>6 DEF ContinueSameAgent, DropOf, Drops
<1>7. CASE ImplementationReturns \/ UpdateReturns
  BY <1>7, <1>4 DEF ImplementationReturns, UpdateReturns, EndSend, Drops, Exceptions
<1>8. CASE Sigint
  BY <1>8 DEF Sigint
<1>9. CASE StartupError \/ Unwind \/ Crash
  BY <1>3, <1>9 DEF StartupError, Unwind, Crash
<1>10. CASE FinishRun \/ GuardHandoverFiles
  BY <1>1, <1>3, <1>4, <1>10 DEF FinishRun, GuardHandoverFiles, Exceptions, sessVars
<1>11. CASE FallBackToComposer \/ RetryCycle \/ CompleteCycle
  BY <1>2, <1>11 DEF FallBackToComposer, RetryCycle, CompleteCycle
<1> QED
  BY <1>1, <1>4, <1>5, <1>6, <1>7, <1>8, <1>9, <1>10, <1>11,
     FailsRaises, AgentRunFailsRaises
     DEF Fails, Next, Process, Invoke, Startup, BeginCycle, SkipCompleted, ResolveTask,
         StartCycle, StopRun, PlanDryRun, PrepareCycle, EnterSession, SendPrompt,
         Backoff, PassSnapshotCheck, ArmUpdate, AllRunsDone, vars, sessVars

\* The Boolean state stays Boolean.
LEMMA FlagsOKStep ==
    ASSUME TypeOK, Next
    PROVE  FlagsOK'
<1> USE DEF TypeOK, FlagsOK
<1>1. CASE UNCHANGED <<first, premiumOn, resolverCalled, pinConsumed, premium, fallback,
                       active>>
  BY <1>1
<1>2. CASE \E e \in Exceptions : Raise(e)
  BY <1>2 DEF Raise, CloseSession, ForgetCycle, runVars
<1>3. CASE StartupError \/ Unwind \/ Crash \/ FinishRun
  BY <1>3 DEF StartupError, Unwind, Crash, FinishRun, ProcessGone, Raise,
              CloseSession, ForgetCycle, runVars
<1>4. CASE Invoke \/ Startup
  BY <1>4 DEF Invoke, Startup, UseFirstPrompt, cycleVars, sessVars
<1>5. CASE SkipCompleted \/ ResolveTask \/ PlanDryRun \/ PrepareCycle
  BY <1>5 DEF SkipCompleted, ResolveTask, PlanDryRun, PrepareCycle, PinPending,
              RouteIsPremium, FallsBack, ForgetCycle, runVars, cycleVars, sessVars
<1>6. CASE EnterSession \/ ArmUpdate
  BY <1>6 DEF EnterSession, ArmUpdate, runVars, cycleVars
<1>7. CASE ImplementationReturns \/ UpdateReturns \/ GuardHandoverFiles
  BY <1>7 DEF ImplementationReturns, UpdateReturns, GuardHandoverFiles, EndSend, Raise,
              CloseSession, ForgetCycle, runVars, cycleVars, sessVars
<1>8. CASE FallBackToComposer \/ RetryCycle \/ CompleteCycle
  BY <1>8 DEF FallBackToComposer, RetryCycle, CompleteCycle, CloseSession, ForgetCycle,
              RouteIsPremium, runVars
<1> QED
  BY <1>1, <1>2, <1>3, <1>4, <1>5, <1>6, <1>7, <1>8, FailsRaises, AgentRunFailsRaises
     DEF Fails, Next, Process, BeginCycle, StartCycle, StopRun, CreateAgent, SendPrompt,
         ContinueSameAgent, Backoff, PassSnapshotCheck, Sigint, AllRunsDone, vars,
         runVars, cycleVars, sessVars

\* Every step of the run loop keeps the state well typed.
LEMMA TypeOKStep == TypeOK /\ [Next]_vars => TypeOK'
<1> SUFFICES ASSUME TypeOK, [Next]_vars PROVE TypeOK'
  OBVIOUS
<1>1. CASE Next
  <2>1. FilesOK' /\ ControlOK' /\ RunOK' /\ CycleOK' /\ SessionOK' /\ FlagsOK'
    BY <1>1, FilesOKStep, ControlOKStep, RunOKStep, CycleOKStep, SessionOKStep,
       FlagsOKStep
  <2> QED  BY <2>1 DEF TypeOK
<1>2. CASE UNCHANGED vars
  BY <1>2 DEF vars, fileVars, diskVars, runVars, cycleVars, sessVars, ctlVars, TypeOK,
              FilesOK, ControlOK, RunOK, CycleOK, SessionOK, FlagsOK
<1> QED  BY <1>1, <1>2

\* Type correctness, for every queue, dependency graph, handover text and setting:
\* in particular only tasks of the queue are ever selected or recorded, and a
\* cycle under way has one.
THEOREM TypeCorrect == Spec => []TypeOK
BY TypeOKInit, TypeOKStep, PTL DEF Spec

(***************************************************************************)
(* Agents and sessions                                                     *)
(***************************************************************************)

\* Closing the session, and the end of the process, leave no agent behind.
LEMMA CloseSessionLeavesNone ==
    ASSUME TypeOK, NoLeakedAgent, CloseSession
    PROVE  NoLeakedAgent'
BY EnvironmentAssumption DEF NoLeakedAgent, CloseSession

LEMMA ProcessGoneLeavesNone ==
    ASSUME NEW e, ProcessGone(e)
    PROVE  NoLeakedAgent'
BY DEF NoLeakedAgent, ProcessGone

\* A step that leaves the session alone may only move inside it, or when there is
\* no agent.
LEMMA NoLeakedAgentStep == TypeOK /\ NoLeakedAgent /\ [Next]_vars => NoLeakedAgent'
<1> SUFFICES ASSUME TypeOK, NoLeakedAgent, [Next]_vars PROVE NoLeakedAgent'
  OBVIOUS
<1>1. CASE /\ UNCHANGED <<agent, live>>
           /\ pc \in WithSession => pc' \in WithSession
  BY <1>1 DEF NoLeakedAgent
<1>2. CASE \E e \in Exceptions : Raise(e)
  BY <1>2, CloseSessionLeavesNone DEF Raise
<1>3. CASE StartupError \/ Unwind \/ Crash
  BY <1>3, ProcessGoneLeavesNone DEF StartupError, Unwind, Crash
<1>4. CASE FinishRun
  BY <1>2, <1>4, ProcessGoneLeavesNone DEF FinishRun, Exceptions
<1>5. CASE FallBackToComposer \/ RetryCycle \/ CompleteCycle
  BY <1>5, CloseSessionLeavesNone DEF FallBackToComposer, RetryCycle, CompleteCycle
<1>6. CASE CreateAgent
  BY <1>6, EnvironmentAssumption DEF CreateAgent, NoLeakedAgent, WithSession
<1>7. CASE ImplementationReturns \/ UpdateReturns
  BY <1>1, <1>2, <1>7 DEF ImplementationReturns, UpdateReturns, EndSend, WithSession,
                          Exceptions
<1>8. CASE GuardHandoverFiles
  BY <1>1, <1>2, <1>8 DEF GuardHandoverFiles, sessVars, WithSession, Exceptions
<1>9. CASE Sigint
  BY <1>9 DEF Sigint, NoLeakedAgent
<1>10. CASE Invoke \/ Startup \/ BeginCycle \/ ResolveTask \/ StartCycle \/ StopRun
            \/ PlanDryRun \/ PrepareCycle \/ EnterSession \/ Backoff
  BY <1>1, <1>10 DEF Invoke, Startup, BeginCycle, ResolveTask, StartCycle, StopRun,
                     PlanDryRun, PrepareCycle, EnterSession, Backoff, sessVars,
                     WithSession, Idle
<1> QED
  BY <1>1, <1>2, <1>3, <1>4, <1>5, <1>6, <1>7, <1>8, <1>9, <1>10, FailsRaises,
     AgentRunFailsRaises
     DEF Fails, Next, Process, SkipCompleted, SendPrompt, ContinueSameAgent,
         PassSnapshotCheck, ArmUpdate, AllRunsDone, vars, sessVars, ctlVars, WithSession

\* No agent is leaked, whatever mixture of premium fallback, retries, errors and
\* Ctrl+C a run goes through.
THEOREM AgentsAreClosed == Spec => []NoLeakedAgent
<1>1. Init => NoLeakedAgent
  BY DEF Init, NoLeakedAgent
<1> QED  BY <1>1, NoLeakedAgentStep, TypeCorrect, PTL DEF Spec

\* Only Ctrl+C takes the agent away from an open session.
LEMMA AgentServesStep ==
    TypeOK /\ AgentServesWholeCycle /\ [Next]_vars => AgentServesWholeCycle'
<1> SUFFICES ASSUME TypeOK, AgentServesWholeCycle, [Next]_vars
             PROVE  AgentServesWholeCycle'
  OBVIOUS
<1> USE DEF AgentServesWholeCycle, Stopped
<1>1. CASE /\ UNCHANGED <<agent, stoppedIn>>
           /\ pc' \in WithSession => pc \in WithSession
  BY <1>1
<1>2. CASE pc' \notin WithSession
  BY <1>2
<1>3. CASE \E e \in Exceptions : Raise(e)
  BY <1>2, <1>3 DEF Raise, WithSession
<1>4. CASE CreateAgent
  BY <1>4, EnvironmentAssumption DEF CreateAgent
<1>5. CASE Sigint
  BY <1>5 DEF Sigint, NotStopped, TypeOK, RunOK
<1>6. CASE ImplementationReturns \/ UpdateReturns
  BY <1>1, <1>3, <1>6 DEF ImplementationReturns, UpdateReturns, EndSend, WithSession,
                          Exceptions
<1>7. CASE GuardHandoverFiles
  BY <1>1, <1>3, <1>7 DEF GuardHandoverFiles, sessVars, WithSession, Exceptions
<1>8. CASE StartupError \/ Unwind \/ Crash \/ FinishRun
  BY <1>2, <1>8 DEF StartupError, Unwind, Crash, FinishRun, ProcessGone, Raise,
                    WithSession
<1>9. CASE Invoke \/ Startup \/ BeginCycle \/ ResolveTask \/ StartCycle \/ StopRun
            \/ PlanDryRun \/ PrepareCycle \/ EnterSession
  BY <1>2, <1>9 DEF Invoke, Startup, BeginCycle, ResolveTask, StartCycle, StopRun,
                     PlanDryRun, PrepareCycle, EnterSession, WithSession
<1>10. CASE FallBackToComposer \/ RetryCycle \/ CompleteCycle \/ Backoff
  BY <1>2, <1>10 DEF FallBackToComposer, RetryCycle, CompleteCycle, Backoff, WithSession
<1> QED
  BY <1>1, <1>3, <1>4, <1>5, <1>6, <1>7, <1>8, <1>9, <1>10, FailsRaises,
     AgentRunFailsRaises
     DEF Fails, Next, Process, SkipCompleted, SendPrompt, ContinueSameAgent,
         PassSnapshotCheck, ArmUpdate, AllRunsDone, vars, sessVars, ctlVars, WithSession

\* The update phase talks to the agent that implemented, unless Ctrl+C closed it.
THEOREM AgentServes == Spec => []AgentServesWholeCycle
<1>1. Init => AgentServesWholeCycle
  BY DEF Init, AgentServesWholeCycle, WithSession
<1> QED  BY <1>1, AgentServesStep, TypeCorrect, PTL DEF Spec

(***************************************************************************)
(* Ctrl+C                                                                  *)
(***************************************************************************)

\* Where a run may be once the cycle that Ctrl+C found was completed.
PastStop == {"head", "finish", "unwind", "exited"}

\* The number of the cycle moves only when a cycle completes.
LEMMA StopBoundsWorkStep ==
    TypeOK /\ StopBoundsWork /\ [Next]_vars => StopBoundsWork'
<1> SUFFICES ASSUME TypeOK, StopBoundsWork, [Next]_vars
             PROVE  StopBoundsWork'
  OBVIOUS
<1> USE DEF StopBoundsWork, Stopped
<1>1. CASE /\ UNCHANGED <<cycle, stoppedIn>>
           /\ pc \in PastStop => pc' \in PastStop
  BY <1>1 DEF PastStop
<1>2. CASE UNCHANGED <<cycle, stoppedIn>> /\ ~Stopped
  BY <1>2
<1>3. CASE \E e \in Exceptions : Raise(e)
  BY <1>1, <1>3 DEF Raise, PastStop, runVars
<1>4. CASE Invoke
  BY <1>4 DEF Invoke
<1>5. CASE Sigint
  BY <1>5 DEF Sigint, runVars
<1>6. CASE PlanDryRun \/ CompleteCycle
  <2>1. Stopped => cycle = stoppedIn
    BY <1>6 DEF PlanDryRun, CompleteCycle
  <2>2. pc' = "head" /\ cycle' = cycle + 1 /\ stoppedIn' = stoppedIn
    BY <1>6 DEF PlanDryRun, CompleteCycle
  <2> QED  BY <2>1, <2>2
<1>7. CASE StartupError \/ FinishRun \/ Unwind \/ Crash
  BY <1>1, <1>3, <1>7 DEF StartupError, FinishRun, Unwind, Crash, ProcessGone, runVars,
                          PastStop, Exceptions
<1>8. CASE BeginCycle \/ StartCycle \/ PassSnapshotCheck
  BY <1>2, <1>8 DEF BeginCycle, StartCycle, PassSnapshotCheck, runVars, Stopped
<1>9. CASE StopRun
  BY <1>1, <1>2, <1>9 DEF StopRun, PastStop, runVars
<1>10. CASE ImplementationReturns \/ UpdateReturns \/ GuardHandoverFiles
  BY <1>1, <1>3, <1>10 DEF ImplementationReturns, UpdateReturns, GuardHandoverFiles,
                           runVars, PastStop, Exceptions
<1>11. CASE FallBackToComposer \/ RetryCycle
  BY <1>1, <1>11 DEF FallBackToComposer, RetryCycle, Reported, runVars, PastStop
<1> QED
  BY <1>1, <1>3, <1>4, <1>5, <1>6, <1>7, <1>8, <1>9, <1>10, <1>11, FailsRaises,
     AgentRunFailsRaises
     DEF Fails, Next, Process, Startup, SkipCompleted, ResolveTask, PrepareCycle,
         EnterSession, CreateAgent, SendPrompt, ContinueSameAgent, Backoff, ArmUpdate,
         AllRunsDone, vars, runVars, ctlVars, PastStop

\* After Ctrl+C no other cycle starts.
THEOREM StopEndsTheLoop == Spec => []StopBoundsWork
<1>1. Init => StopBoundsWork
  BY DEF Init, StopBoundsWork, Stopped
<1> QED  BY <1>1, StopBoundsWorkStep, TypeCorrect, PTL DEF Spec

(***************************************************************************)
(* --resume and the history                                                *)
(***************************************************************************)

\* ResumeNeverReselects is not inductive: the task is compared with the history
\* when it is selected, one step before the cycle, and a run begins empty.
ResumeInv ==
    /\ pc = "startup" => outcomes = {}
    /\ cfg.resume /\ pc \in InCycle \cup {"resolved"} => selected \notin completed
    /\ cfg.resume => outcomes \cap completed = {}

\* The strengthened invariant is inductive.
LEMMA ResumeInvStep == TypeOK /\ ResumeInv /\ [Next]_vars => ResumeInv'
<1> SUFFICES ASSUME TypeOK, ResumeInv, [Next]_vars PROVE ResumeInv'
  OBVIOUS
<1> USE DEF ResumeInv
<1>1. CASE /\ UNCHANGED <<cfg, completed, outcomes, selected>>
           /\ pc' = "startup" => pc = "startup"
           /\ pc' \in InCycle \cup {"resolved"} => pc \in InCycle \cup {"resolved"}
  BY <1>1
<1>2. CASE /\ UNCHANGED <<cfg, completed, outcomes>>
           /\ pc' \notin InCycle \cup {"startup", "resolved"}
  BY <1>2
<1>3. CASE \E e \in Exceptions : Raise(e)
  BY <1>2, <1>3 DEF Raise, runVars, InCycle, WithSession
<1>4. CASE Invoke
  BY <1>4 DEF Invoke, InCycle, WithSession
<1>5. CASE Startup
  BY <1>5 DEF Startup, InCycle, WithSession
<1>6. CASE ResolveTask
  BY <1>6 DEF ResolveTask, AlreadyCompleted
<1>7. CASE PlanDryRun \/ CompleteCycle
  <2>1. cfg.resume => selected \notin completed
    BY <1>7 DEF PlanDryRun, CompleteCycle, InCycle, WithSession
  <2>2. /\ outcomes' = outcomes \cup {selected} /\ UNCHANGED <<cfg, completed>>
        /\ pc' = "head"
    BY <1>7 DEF PlanDryRun, CompleteCycle
  <2> QED  BY <2>1, <2>2 DEF InCycle, WithSession
<1>8. CASE StartupError \/ FinishRun \/ Unwind \/ Crash
  BY <1>2, <1>3, <1>8 DEF StartupError, FinishRun, Unwind, Crash, ProcessGone, runVars,
                          InCycle, WithSession, Exceptions
<1>9. CASE ImplementationReturns \/ UpdateReturns \/ GuardHandoverFiles
  BY <1>1, <1>3, <1>9 DEF ImplementationReturns, UpdateReturns, GuardHandoverFiles,
                          runVars, cycleVars, InCycle, WithSession, Exceptions
<1>10. CASE FallBackToComposer \/ RetryCycle
  BY <1>1, <1>10 DEF FallBackToComposer, RetryCycle, Reported, runVars, InCycle,
                     WithSession
<1>11. CASE BeginCycle \/ StartCycle \/ StopRun \/ PrepareCycle
  BY <1>1, <1>2, <1>11 DEF BeginCycle, StartCycle, StopRun, PrepareCycle, runVars,
                           cycleVars, InCycle, WithSession
<1> QED
  BY <1>1, <1>3, <1>4, <1>5, <1>6, <1>7, <1>8, <1>9, <1>10, <1>11, FailsRaises,
     AgentRunFailsRaises
     DEF Fails, Next, Process, SkipCompleted, EnterSession, CreateAgent, SendPrompt,
         ContinueSameAgent, Backoff, PassSnapshotCheck, ArmUpdate, Sigint, AllRunsDone,
         vars, runVars, cycleVars, ctlVars, InCycle, WithSession

\* --resume never works again on a task of the history it loaded, whichever way
\* the task was selected.
THEOREM ResumeSkips == Spec => []ResumeNeverReselects
<1>1. Init => ResumeInv
  BY DEF Init, ResumeInv, InCycle, WithSession
<1>2. ResumeInv => ResumeNeverReselects
  BY DEF ResumeInv, ResumeNeverReselects
<1> QED  BY <1>1, <1>2, ResumeInvStep, TypeCorrect, PTL DEF Spec

\* Between startup and the end, what a resumed run loaded is what is on disk.
HistoryInv ==
    /\ ~history.exists => history.ids = {}
    /\ cfg.resume /\ pc \notin Idle \cup {"startup"} => prior = history

\* Only the steps that end a run write the history.
LEMMA HistoryInvStep == TypeOK /\ HistoryInv /\ [Next]_vars => HistoryInv'
<1> SUFFICES ASSUME TypeOK, HistoryInv, [Next]_vars PROVE HistoryInv'
  OBVIOUS
<1> USE DEF HistoryInv
<1>1. CASE /\ UNCHANGED <<history, prior, cfg>>
           /\ pc \in Idle \cup {"startup"} => pc' \in Idle \cup {"startup"}
  BY <1>1
<1>2. CASE UNCHANGED history /\ pc' \in Idle \cup {"startup"}
  BY <1>2
<1>3. CASE (\E e \in Exceptions : Raise(e)) /\ UNCHANGED history /\ pc \notin Idle \cup {"startup"}
  BY <1>3 DEF Raise, runVars
<1>4. CASE FinishRun \/ Unwind
  <2>1. history' \in {history, HistoryToWrite}
    BY <1>4 DEF FinishRun, Unwind, fileVars
  <2>2. \/ pc' \in Idle
        \/ UNCHANGED history /\ (\E e \in Exceptions : Raise(e)) /\ pc = "finish"
    BY <1>4 DEF FinishRun, Unwind, ProcessGone, Idle, fileVars, Exceptions
  <2> QED  BY <1>3, <2>1, <2>2 DEF HistoryToWrite, Idle
<1>5. CASE Startup
  <2>1. cfg.resume => cfg.history
    BY ConfigAssumption DEF TypeOK, RunOK
  <2> QED  BY <1>5, <2>1 DEF Startup, ReadHistory, fileVars
<1>6. CASE Invoke \/ StartupError \/ Crash
  BY <1>2, <1>6 DEF Invoke, StartupError, Crash, ProcessGone, fileVars, Idle
<1>7. CASE Fails
  <2>1. pc \notin Idle \cup {"startup"}
    BY <1>7 DEF Fails, RaiseIfInterrupted, ResolveError, PrepareError, EnterError,
                SendError, GuardRaises, VerificationError, Idle
  <2> QED  BY <1>3, <1>7, <2>1, FailsRaises DEF fileVars
<1>8. CASE AgentRunFails
  BY <1>3, <1>8, AgentRunFailsRaises DEF AgentRunFails, Reported, EditsOfFailedPhase, Idle
<1>9. CASE ImplementationReturns \/ UpdateReturns \/ GuardHandoverFiles
  BY <1>1, <1>3, <1>9 DEF ImplementationReturns, UpdateReturns, GuardHandoverFiles,
                          runVars, Idle, Exceptions
<1>10. CASE FallBackToComposer \/ RetryCycle \/ ContinueSameAgent
  BY <1>1, <1>10 DEF FallBackToComposer, RetryCycle, ContinueSameAgent, Reported,
                     runVars, Idle
<1>11. CASE SkipCompleted \/ ResolveTask \/ PlanDryRun \/ CompleteCycle
  BY <1>1, <1>11 DEF SkipCompleted, ResolveTask, PlanDryRun, CompleteCycle, fileVars, Idle
<1> QED
  BY <1>1, <1>4, <1>5, <1>6, <1>7, <1>8, <1>9, <1>10, <1>11
     DEF Fails, Next, Process, BeginCycle, StartCycle, StopRun, PrepareCycle,
         EnterSession, CreateAgent, SendPrompt, Backoff, PassSnapshotCheck, ArmUpdate,
         Sigint, AllRunsDone, vars, fileVars, runVars, ctlVars, Idle

\* A resumed run never drops a task from the history on disk.
THEOREM ResumeKeeps == Spec => ResumeKeepsHistory
<1>1. Init => HistoryInv
  BY DEF Init, HistoryInv, NoHistory, Idle
<1>2. TypeOK /\ HistoryInv /\ [Next]_vars
        => [cfg.resume => history.ids \subseteq history'.ids]_vars
  <2> SUFFICES ASSUME TypeOK, HistoryInv, Next, cfg.resume
               PROVE  history.ids \subseteq history'.ids
    OBVIOUS
  <2>1. CASE UNCHANGED history
    BY <2>1
  <2>2. CASE FinishRun \/ Unwind
    <3>1. history' \in {history, HistoryToWrite}
      BY <2>2 DEF FinishRun, Unwind, fileVars
    <3>2. prior = history
      BY <2>2 DEF FinishRun, Unwind, HistoryInv, Idle
    <3> QED  BY <3>1, <3>2 DEF HistoryToWrite, HistoryInv
  <2> QED
    BY <2>1, <2>2, FailsRaises
       DEF Fails, Next, Process, Invoke, Startup, StartupError, BeginCycle,
           SkipCompleted, ResolveTask, StartCycle, StopRun, PlanDryRun, PrepareCycle,
           EnterSession, CreateAgent, SendPrompt, ImplementationReturns, UpdateReturns,
           ContinueSameAgent, FallBackToComposer, RetryCycle, AgentRunFails, Backoff,
           GuardHandoverFiles, PassSnapshotCheck, ArmUpdate, CompleteCycle, Sigint,
           Crash, AllRunsDone, vars, fileVars
<1> QED
  BY <1>1, <1>2, HistoryInvStep, TypeCorrect, PTL DEF Spec, ResumeKeepsHistory

(***************************************************************************)
(* How long a run can last                                                 *)
(***************************************************************************)

\* What a run is doing, in the order it comes to its end.
Leg == IF pc \in Idle THEN 0 ELSE IF pc = "unwind" THEN 1 ELSE IF pc = "finish" THEN 2 ELSE 3

\* How many points of a cycle lie ahead at most, one continue of the agent per
\* phase included.
Ahead(p, d) ==
    LET continue == IF d = "none" THEN 2 ELSE 0
    IN CASE p = "startup" -> 20 [] p = "head" -> 19
         [] p = "resolve" -> 18 [] p = "resolved" -> 17
         [] p = "backoff" -> 16 [] p = "prepare" -> 15
         [] p = "enter" -> 14 [] p = "create" -> 13
         [] p = "implSend" -> 10 + continue [] p = "implWait" -> 9 + continue
         [] p = "guard" -> 8 [] p = "snapshot" -> 7 [] p = "armUpdate" -> 6
         [] p = "updSend" -> 3 + continue [] p = "updWait" -> 2 + continue
         [] p = "verify" -> 1 [] OTHER -> 0

\* What is left of a run: cycles, attempts at the cycle, models to try it with, and
\* points of the code.
Left == <<Leg, cfg.cycles - cycle, cfg.attempts - attempt, 2 - implTry, Ahead(pc, drop)>>

\* In the order of the dictionary.
LessThan(m, n) ==
    \E i \in 1..5 : m[i] < n[i] /\ \A j \in 1..(i - 1) : m[j] = n[j]

\* The counters stay within the settings, and are reset outside a cycle.
BoundsInv ==
    /\ cycle <= cfg.cycles /\ attempt <= cfg.attempts
    /\ pc \in InCycle \cup {"resolve", "resolved"} => cycle < cfg.cycles
    /\ pc \notin InCycle => attempt = 0
    /\ pc \notin InCycle \ {"prepare", "backoff"} => implTry = 0

\* The table above, entry by entry.
LEMMA AheadTable ==
    ASSUME NEW d
    PROVE  /\ Ahead("startup", d) = 20 /\ Ahead("head", d) = 19
           /\ Ahead("resolve", d) = 18 /\ Ahead("resolved", d) = 17
           /\ Ahead("backoff", d) = 16 /\ Ahead("prepare", d) = 15
           /\ Ahead("enter", d) = 14 /\ Ahead("create", d) = 13
           /\ Ahead("implSend", d) = IF d = "none" THEN 12 ELSE 10
           /\ Ahead("implWait", d) = IF d = "none" THEN 11 ELSE 9
           /\ Ahead("guard", d) = 8 /\ Ahead("snapshot", d) = 7
           /\ Ahead("armUpdate", d) = 6
           /\ Ahead("updSend", d) = IF d = "none" THEN 5 ELSE 3
           /\ Ahead("updWait", d) = IF d = "none" THEN 4 ELSE 2
           /\ Ahead("verify", d) = 1 /\ Ahead("off", d) = 0
           /\ Ahead("exited", d) = 0 /\ Ahead("finish", d) = 0 /\ Ahead("unwind", d) = 0
BY DEF Ahead

\* The settings are numbers.
LEMMA SettingsAreNumbers ==
    ASSUME TypeOK
    PROVE  cfg.cycles \in Nat \ {0} /\ cfg.attempts \in Nat \ {0}
BY ConfigAssumption DEF TypeOK, RunOK, Config

\* Leaving the cycle resets what is counted in it.
LEMMA ForgetCycleCounts ==
    ASSUME TypeOK, BoundsInv, ForgetCycle, pc' \notin InCycle \cup {"resolve", "resolved"},
           UNCHANGED <<cfg, cycle>>
    PROVE  BoundsInv'
BY SettingsAreNumbers DEF BoundsInv, ForgetCycle

LEMMA BoundsInvStep == TypeOK /\ BoundsInv /\ [Next]_vars => BoundsInv'
<1> SUFFICES ASSUME TypeOK, BoundsInv, [Next]_vars PROVE BoundsInv'
  OBVIOUS
<1>1. cfg.cycles \in Nat \ {0} /\ cfg.attempts \in Nat \ {0} /\ cycle \in Nat
      /\ attempt \in Nat
  BY SettingsAreNumbers DEF TypeOK, RunOK, CycleOK
<1>2. CASE /\ UNCHANGED <<cfg, cycle, attempt, implTry>>
           /\ pc' \in InCycle \cup {"resolve", "resolved"}
                => pc \in InCycle \cup {"resolve", "resolved"}
           /\ pc' \notin InCycle => pc \notin InCycle
           /\ pc' \notin InCycle \ {"prepare", "backoff"}
                => pc \notin InCycle \ {"prepare", "backoff"}
  BY <1>2 DEF BoundsInv
<1>3. CASE \E e \in Exceptions : Raise(e)
  <2>1. /\ ForgetCycle /\ UNCHANGED <<cfg, cycle>>
        /\ pc' \notin InCycle \cup {"resolve", "resolved"}
    BY <1>3 DEF Raise, runVars, InCycle, WithSession
  <2> QED  BY <2>1, ForgetCycleCounts
<1>4. CASE StartupError \/ Unwind \/ Crash
  <2>1. /\ ForgetCycle /\ UNCHANGED <<cfg, cycle>>
        /\ pc' \notin InCycle \cup {"resolve", "resolved"}
    BY <1>4 DEF StartupError, Unwind, Crash, ProcessGone, runVars, InCycle, WithSession
  <2> QED  BY <2>1, ForgetCycleCounts
<1>5. CASE FinishRun
  <2>1. CASE Raise("known")
    BY <1>3, <2>1 DEF Exceptions
  <2>2. CASE ~Raise("known")
    <3>1. /\ ForgetCycle /\ UNCHANGED <<cfg, cycle>>
          /\ pc' \notin InCycle \cup {"resolve", "resolved"}
      BY <1>5, <2>2 DEF FinishRun, ProcessGone, runVars, InCycle, WithSession
    <3> QED  BY <3>1, ForgetCycleCounts
  <2> QED  BY <2>1, <2>2
<1>6. CASE Invoke
  <2>1. /\ cfg' \in Configs /\ cycle' = 0 /\ pc' = "startup"
        /\ UNCHANGED <<attempt, implTry>> /\ pc \in Idle
    BY <1>6 DEF Invoke, cycleVars
  <2>2. cfg'.cycles \in Nat \ {0} /\ cfg'.attempts \in Nat \ {0}
    BY <2>1, ConfigAssumption DEF Config
  <2> QED  BY <2>1, <2>2 DEF BoundsInv, Idle, InCycle, WithSession
<1>7. CASE PlanDryRun \/ CompleteCycle
  <2>1. /\ cycle' = cycle + 1 /\ cfg' = cfg /\ attempt' = 0 /\ implTry' = 0
        /\ pc' = "head" /\ pc \in InCycle
    BY <1>7 DEF PlanDryRun, CompleteCycle, ForgetCycle, InCycle, WithSession
  <2> QED  BY <1>1, <2>1 DEF BoundsInv, InCycle, WithSession
<1>8. CASE BeginCycle
  BY <1>8 DEF BeginCycle, BoundsInv, runVars, cycleVars, InCycle, WithSession
<1>9. CASE StartCycle
  BY <1>1, <1>9 DEF StartCycle, BoundsInv, runVars, InCycle, WithSession
<1>10. CASE PrepareCycle
  BY <1>10 DEF PrepareCycle, BoundsInv, runVars, InCycle, WithSession
<1>11. CASE FallBackToComposer
  BY <1>11 DEF FallBackToComposer, Reported, BoundsInv, InCycle, WithSession
<1>12. CASE RetryCycle
  <2>1. attempt < cfg.attempts /\ pc \in InCycle
    BY <1>12 DEF RetryCycle, Retries, ShouldRetryTransientFailure, Reported, InCycle,
                 WithSession
  <2>2. /\ UNCHANGED <<cfg, cycle>> /\ attempt' = attempt + 1 /\ implTry' = 0
        /\ pc' = "backoff"
    BY <1>12 DEF RetryCycle, runVars
  <2> QED  BY <1>1, <2>1, <2>2 DEF BoundsInv, InCycle, WithSession
<1>13. CASE ImplementationReturns \/ UpdateReturns \/ GuardHandoverFiles
  BY <1>2, <1>3, <1>13 DEF ImplementationReturns, UpdateReturns, GuardHandoverFiles,
                           runVars, cycleVars, InCycle, WithSession, Exceptions
<1>14. CASE Startup \/ ResolveTask \/ StopRun \/ EnterSession \/ CreateAgent \/ SendPrompt
            \/ ContinueSameAgent \/ Backoff
  BY <1>2, <1>14 DEF Startup, ResolveTask, StopRun, EnterSession, CreateAgent, SendPrompt,
                     ContinueSameAgent, Backoff, runVars, cycleVars, InCycle, WithSession
<1> QED
  BY <1>2, <1>3, <1>4, <1>5, <1>6, <1>7, <1>8, <1>9, <1>10, <1>11, <1>12, <1>13, <1>14,
     FailsRaises, AgentRunFailsRaises
     DEF Fails, Next, Process, SkipCompleted, PassSnapshotCheck, ArmUpdate, Sigint,
         AllRunsDone, vars, runVars, cycleVars, ctlVars, InCycle, WithSession

\* The counters of a run stay within its settings.
LEMMA CountersBounded == Spec => []BoundsInv
<1>1. Init => BoundsInv
  BY ConfigAssumption DEF Init, BoundsInv, Config, InCycle, WithSession
<1> QED  BY <1>1, BoundsInvStep, TypeCorrect, PTL DEF Spec

\* What is left is counted in numbers: none of the five can fall for ever.
LEMMA LeftIsCounted ==
    ASSUME TypeOK, BoundsInv
    PROVE  \A i \in 1..5 : Left[i] \in Nat
<1>1. Leg \in Nat
  BY DEF Leg
<1>2. cfg.cycles - cycle \in Nat /\ cfg.attempts - attempt \in Nat /\ 2 - implTry \in Nat
  BY SettingsAreNumbers DEF TypeOK, RunOK, CycleOK, BoundsInv
<1>3. Ahead(pc, drop) \in Nat
  BY AheadTable DEF TypeOK, ControlOK, PCs, Idle, InCycle, WithSession
<1> QED  BY <1>1, <1>2, <1>3 DEF Left

\* A run stays within its configured cycles and attempts, sends the implementation prompt
\* to at most two routed models per attempt, and what is left is always five numbers.
THEOREM LeftAlwaysCounted == Spec => [](BoundsInv /\ \A i \in 1..5 : Left[i] \in Nat)
<1>1. TypeOK /\ BoundsInv => BoundsInv /\ \A i \in 1..5 : Left[i] \in Nat
  BY LeftIsCounted
<1> QED  BY <1>1, CountersBounded, TypeCorrect, PTL

\* The order of the dictionary, position by position.
LEMMA LessThanAt ==
    ASSUME NEW a, NEW b, NEW c, NEW d, NEW e, NEW v, NEW w, NEW x, NEW y, NEW z,
           \/ a < v
           \/ a = v /\ b < w
           \/ a = v /\ b = w /\ c < x
           \/ a = v /\ b = w /\ c = x /\ d < y
           \/ a = v /\ b = w /\ c = x /\ d = y /\ e < z
    PROVE  LessThan(<<a, b, c, d, e>>, <<v, w, x, y, z>>)
<1> DEFINE m == <<a, b, c, d, e>>
           n == <<v, w, x, y, z>>
<1>1. /\ m[1] = a /\ m[2] = b /\ m[3] = c /\ m[4] = d /\ m[5] = e
      /\ n[1] = v /\ n[2] = w /\ n[3] = x /\ n[4] = y /\ n[5] = z
  OBVIOUS
<1> HIDE DEF m, n
<1>2. CASE a < v
  <2>1. m[1] < n[1] /\ \A j \in 1..(1 - 1) : m[j] = n[j]
    BY <1>1, <1>2
  <2> QED  BY <2>1 DEF LessThan, m, n
<1>3. CASE a = v /\ b < w
  <2>1. m[2] < n[2] /\ \A j \in 1..(2 - 1) : m[j] = n[j]
    BY <1>1, <1>3
  <2> QED  BY <2>1 DEF LessThan, m, n
<1>4. CASE a = v /\ b = w /\ c < x
  <2>1. m[3] < n[3] /\ \A j \in 1..(3 - 1) : m[j] = n[j]
    BY <1>1, <1>4
  <2> QED  BY <2>1 DEF LessThan, m, n
<1>5. CASE a = v /\ b = w /\ c = x /\ d < y
  <2>1. m[4] < n[4] /\ \A j \in 1..(4 - 1) : m[j] = n[j]
    BY <1>1, <1>5
  <2> QED  BY <2>1 DEF LessThan, m, n
<1>6. CASE a = v /\ b = w /\ c = x /\ d = y /\ e < z
  <2>1. m[5] < n[5] /\ \A j \in 1..(5 - 1) : m[j] = n[j]
    BY <1>1, <1>6
  <2> QED  BY <2>1 DEF LessThan, m, n
<1> QED  BY <1>2, <1>3, <1>4, <1>5, <1>6

\* Between two points of the code the rest may stay as it is.
LEMMA NextPoint ==
    ASSUME UNCHANGED <<cfg, cycle, attempt, implTry>>, Leg' = Leg,
           Ahead(pc', drop') < Ahead(pc, drop)
    PROVE  LessThan(Left', Left)
<1>1. Left' = <<Leg, cfg.cycles - cycle, cfg.attempts - attempt, 2 - implTry,
                Ahead(pc', drop')>>
  BY DEF Left
<1> QED  BY <1>1, LessThanAt DEF Left

\* On the way out nothing else counts.
LEMMA NextLeg ==
    ASSUME Leg' < Leg
    PROVE  LessThan(Left', Left)
<1>1. Left' = <<Leg', (cfg.cycles - cycle)', (cfg.attempts - attempt)', (2 - implTry)',
                Ahead(pc, drop)'>>
  BY DEF Left
<1> QED  BY <1>1, LessThanAt DEF Left

\* A run makes headway with every step, whatever fails in between: it ends, or has
\* fewer cycles, fewer attempts, fewer models or fewer points of the code to go.
\* Only two things can happen without: another Ctrl+C, and a recorded task that a
\* resumed run skips.
StepsCount ==
    [][pc \notin Idle => \/ LessThan(Left', Left)
                         \/ Left' = Left /\ (Sigint \/ SkipCompleted)]_vars

LEMMA StepCounts ==
    ASSUME TypeOK, BoundsInv, Next, pc \notin Idle
    PROVE  LessThan(Left', Left) \/ (Left' = Left /\ (Sigint \/ SkipCompleted))
<1>1. /\ cfg.cycles \in Nat /\ cfg.attempts \in Nat /\ cycle \in Nat
      /\ attempt \in Nat /\ implTry \in {0, 1, 2}
  BY SettingsAreNumbers DEF TypeOK, RunOK, CycleOK
<1>2. CASE \E e \in Exceptions : Raise(e) /\ pc # "unwind"
  BY <1>2, NextLeg DEF Raise, Leg, Idle
<1>3. CASE StartupError \/ Unwind \/ Crash
  BY <1>3, NextLeg DEF StartupError, Unwind, Crash, ProcessGone, Leg, Idle
<1>4. CASE FinishRun
  BY <1>4, NextLeg DEF FinishRun, ProcessGone, Raise, Leg, Idle
<1>5. CASE StopRun
  BY <1>5, NextLeg DEF StopRun, Leg, Idle
<1>6. CASE Startup \/ BeginCycle \/ ResolveTask \/ EnterSession \/ CreateAgent
           \/ SendPrompt \/ Backoff \/ PassSnapshotCheck \/ ArmUpdate
  <2>1. UNCHANGED <<cfg, cycle, attempt, implTry, drop>> /\ Leg' = Leg
    BY <1>6 DEF Startup, BeginCycle, ResolveTask, EnterSession, CreateAgent, SendPrompt,
                Backoff, PassSnapshotCheck, ArmUpdate, runVars, cycleVars, sessVars, Leg,
                Idle
  <2>2. Ahead(pc', drop) < Ahead(pc, drop)
    BY <1>6, AheadTable
       DEF Startup, BeginCycle, ResolveTask, EnterSession, CreateAgent, SendPrompt,
           Backoff, PassSnapshotCheck, ArmUpdate
  <2> QED  BY <2>1, <2>2, NextPoint
<1>7. CASE StartCycle
  <2>1. /\ UNCHANGED <<cfg, cycle, implTry>> /\ attempt = 0 /\ attempt' = 1 /\ Leg' = Leg
    BY <1>7 DEF StartCycle, BoundsInv, runVars, InCycle, WithSession, Leg, Idle
  <2>2. Left' = <<Leg, cfg.cycles - cycle, cfg.attempts - 1, 2 - implTry,
                  Ahead(pc', drop')>>
    BY <2>1 DEF Left
  <2>3. cfg.attempts - 1 < cfg.attempts - attempt
    BY <1>1, <2>1
  <2> QED  BY <2>2, <2>3, LessThanAt DEF Left
<1>8. CASE RetryCycle
  <2>1. /\ UNCHANGED <<cfg, cycle>> /\ attempt' = attempt + 1 /\ Leg' = Leg
    BY <1>8 DEF RetryCycle, Reported, runVars, Leg, Idle
  <2>2. Left' = <<Leg, cfg.cycles - cycle, cfg.attempts - (attempt + 1), 2 - implTry',
                  Ahead(pc', drop')>>
    BY <2>1 DEF Left
  <2>3. cfg.attempts - (attempt + 1) < cfg.attempts - attempt
    BY <1>1
  <2> QED  BY <2>2, <2>3, LessThanAt DEF Left
<1>9. CASE PlanDryRun \/ CompleteCycle
  <2>1. cfg' = cfg /\ cycle' = cycle + 1 /\ Leg' = Leg
    BY <1>9 DEF PlanDryRun, CompleteCycle, Leg, Idle
  <2>2. Left' = <<Leg, cfg.cycles - (cycle + 1), (cfg.attempts - attempt)', 2 - implTry',
                  Ahead(pc', drop')>>
    BY <2>1 DEF Left
  <2>3. cfg.cycles - (cycle + 1) < cfg.cycles - cycle
    BY <1>1
  <2> QED  BY <2>2, <2>3, LessThanAt DEF Left
<1>10. CASE PrepareCycle
  <2>1. /\ UNCHANGED <<cfg, cycle, attempt>> /\ implTry = 0 /\ implTry' = 1 /\ Leg' = Leg
    BY <1>10 DEF PrepareCycle, BoundsInv, runVars, InCycle, WithSession, Leg, Idle
  <2>2. Left' = <<Leg, cfg.cycles - cycle, cfg.attempts - attempt, 1, Ahead(pc', drop')>>
    BY <2>1 DEF Left
  <2>3. 1 < 2 - implTry
    BY <2>1
  <2> QED  BY <2>2, <2>3, LessThanAt DEF Left
<1>11. CASE FallBackToComposer
  <2>1. /\ UNCHANGED <<cfg, cycle, attempt>> /\ implTry = 1 /\ implTry' = 2 /\ Leg' = Leg
    BY <1>11 DEF FallBackToComposer, FallsBackToComposer, Reported, Leg, Idle
  <2>2. Left' = <<Leg, cfg.cycles - cycle, cfg.attempts - attempt, 0, Ahead(pc', drop')>>
    BY <2>1 DEF Left
  <2>3. 0 < 2 - implTry
    BY <2>1
  <2> QED  BY <2>2, <2>3, LessThanAt DEF Left
<1>12. CASE ContinueSameAgent
  <2>1. UNCHANGED <<cfg, cycle, attempt, implTry>> /\ Leg' = Leg
    BY <1>12 DEF ContinueSameAgent, runVars, cycleVars, Leg, Idle
  <2>2. drop = "none" /\ drop' # "none"
    BY <1>12 DEF ContinueSameAgent, Continues, ShouldContinueSameAgent, DropOf
  <2>3. Ahead(pc', drop') < Ahead(pc, drop)
    BY <1>12, <2>2, AheadTable DEF ContinueSameAgent
  <2> QED  BY <2>1, <2>3, NextPoint
<1>13. CASE ImplementationReturns \/ UpdateReturns
  <2>1. CASE Raise("interrupted")
    BY <1>2, <1>13, <2>1 DEF ImplementationReturns, UpdateReturns, Exceptions
  <2>2. CASE ~Raise("interrupted")
    <3>1. /\ UNCHANGED <<cfg, cycle, attempt, implTry>> /\ Leg' = Leg
      BY <1>13, <2>2 DEF ImplementationReturns, UpdateReturns, runVars, cycleVars, Leg, Idle
    <3>2. Ahead(pc', drop') < Ahead(pc, drop)
      BY <1>13, <2>2, AheadTable DEF ImplementationReturns, UpdateReturns
    <3> QED  BY <3>1, <3>2, NextPoint
  <2> QED  BY <2>1, <2>2
<1>14. CASE GuardHandoverFiles
  <2>1. CASE Raise("known")
    BY <1>2, <1>14, <2>1 DEF GuardHandoverFiles, Exceptions
  <2>2. CASE ~Raise("known")
    <3>1. /\ UNCHANGED <<cfg, cycle, attempt, implTry>> /\ Leg' = Leg
      BY <1>14, <2>2 DEF GuardHandoverFiles, runVars, Leg, Idle
    <3>2. Ahead(pc', drop') < Ahead(pc, drop)
      BY <1>14, <2>2, AheadTable DEF GuardHandoverFiles
    <3> QED  BY <3>1, <3>2, NextPoint
  <2> QED  BY <2>1, <2>2
<1>15. CASE Sigint \/ SkipCompleted
  BY <1>15 DEF Sigint, SkipCompleted, Left, Leg, runVars, cycleVars, sessVars, ctlVars
<1>16. CASE Fails
  <2>1. pc # "unwind"
    BY <1>16 DEF Fails, RaiseIfInterrupted, ResolveError, PrepareError, EnterError,
                 SendError, GuardRaises, VerificationError
  <2> QED  BY <1>2, <1>16, <2>1, FailsRaises
<1>17. CASE AgentRunFails
  <2>1. pc # "unwind"
    BY <1>17 DEF AgentRunFails, EditsOfFailedPhase
  <2> QED  BY <1>2, <1>17, <2>1, AgentRunFailsRaises
<1>18. CASE Invoke \/ AllRunsDone
  BY <1>18 DEF Invoke, AllRunsDone
<1> QED
  BY <1>3, <1>4, <1>5, <1>6, <1>7, <1>8, <1>9, <1>10, <1>11, <1>12, <1>13, <1>14, <1>15,
     <1>16, <1>17, <1>18 DEF Fails, Next, Process

\* The retries, continues and fallbacks of a run cannot go round in a circle,
\* whatever numbers of cycles and attempts are configured.
THEOREM RunMakesHeadway == Spec => StepsCount
<1>1. TypeOK /\ BoundsInv /\ [Next]_vars
        => [pc \notin Idle => \/ LessThan(Left', Left)
                              \/ Left' = Left /\ (Sigint \/ SkipCompleted)]_vars
  BY StepCounts
<1> QED  BY <1>1, CountersBounded, TypeCorrect, PTL DEF Spec, StepsCount

(***************************************************************************)
(* Where a resumed run may stay in the same place                          *)
(***************************************************************************)

\* The resolver's exclusions are skipped tasks, and none before the pin is used.
SkipInv ==
    /\ exclude \subseteq completed
    /\ pc = "startup" \/ PinPending => exclude = {}

\* Only the skip loop adds exclusions, and the pin is used in its first turn.
LEMMA SkipInvStep == TypeOK /\ SkipInv /\ [Next]_vars => SkipInv'
<1> SUFFICES ASSUME TypeOK, SkipInv, [Next]_vars PROVE SkipInv'
  OBVIOUS
<1> USE DEF SkipInv, PinPending
<1>1. CASE /\ UNCHANGED <<cfg, completed, exclude, pinConsumed>>
           /\ pc' = "startup" => pc = "startup"
  BY <1>1
<1>2. CASE \E e \in Exceptions : Raise(e)
  BY <1>1, <1>2 DEF Raise, runVars
<1>3. CASE Invoke \/ Startup
  BY <1>3 DEF Invoke, Startup
<1>4. CASE SkipCompleted
  BY <1>4 DEF SkipCompleted, AlreadyCompleted, ctlVars
<1>5. CASE ResolveTask
  BY <1>5 DEF ResolveTask
<1>6. CASE ImplementationReturns \/ UpdateReturns \/ GuardHandoverFiles \/ FinishRun
  BY <1>1, <1>2, <1>6 DEF ImplementationReturns, UpdateReturns, GuardHandoverFiles,
                          FinishRun, ProcessGone, runVars, Exceptions
<1>7. CASE StartupError \/ Unwind \/ Crash
  BY <1>1, <1>7 DEF StartupError, Unwind, Crash, ProcessGone, runVars
<1>8. CASE Fails \/ AgentRunFails
  BY <1>2, <1>8, FailsRaises, AgentRunFailsRaises
<1> QED
  BY <1>1, <1>3, <1>4, <1>5, <1>6, <1>7, <1>8
     DEF Fails, Next, Process, BeginCycle, StartCycle, StopRun, PlanDryRun, PrepareCycle,
         EnterSession, CreateAgent, SendPrompt, ContinueSameAgent, FallBackToComposer,
         RetryCycle, Backoff, PassSnapshotCheck, ArmUpdate, CompleteCycle, Sigint,
         AllRunsDone, vars, runVars, ctlVars

\* The list gives no task that is excluded, and one of the others if there is one.
LEMMA ListSkipsExcluded ==
    ASSUME TypeOK
    PROVE  /\ ResolveSequential(status, exclude) # NoTask
                 => ResolveSequential(status, exclude) \notin exclude
           /\ ResolveSequential(status, exclude) = NoTask => ListPending(status) \subseteq exclude
<1> DEFINE S == ListPending(status) \ exclude
<1>1. S \in SUBSET Tasks
  BY DEF ListPending
<1>2. S = {} => Lowest(S) = NoTask
  BY DEF Lowest
<1>3. S # {} => Lowest(S) \in S /\ Lowest(S) # NoTask
  BY <1>1, LowestIsLeast, NoTaskIsNoTask
<1> QED  BY <1>2, <1>3 DEF ResolveSequential

\* What skipping one more completed task changes.
SkipsCount ==
    [][SkipCompleted =>
          \/ exclude' \subseteq Tasks /\ exclude \subseteq exclude' /\ exclude # exclude'
          \/ cfg.source = "handover" /\ ListPending(status) \subseteq completed]_vars

\* A turn of the skip loop excludes one task more, of finitely many, unless all tasks
\* that are not done are in the history that --resume loaded and selection is from
\* the handover: only then can a run go on without end, as section 5 of the README
\* shows that it does.
THEOREM SkippingIsBounded == Spec => SkipsCount
<1>1. TypeOK /\ SkipInv /\ [Next]_vars =>
        [SkipCompleted =>
          \/ exclude' \subseteq Tasks /\ exclude \subseteq exclude' /\ exclude # exclude'
          \/ cfg.source = "handover" /\ ListPending(status) \subseteq completed]_vars
  <2> SUFFICES ASSUME TypeOK, SkipInv, SkipCompleted
               PROVE  \/ /\ exclude' \subseteq Tasks /\ exclude \subseteq exclude'
                         /\ exclude # exclude'
                      \/ cfg.source = "handover" /\ ListPending(status) \subseteq completed
    OBVIOUS
  <2>1. Lookup \in completed /\ exclude' = exclude \cup {Lookup} /\ completed \subseteq Tasks
    BY DEF SkipCompleted, AlreadyCompleted, TypeOK, RunOK
  <2>2. exclude' \subseteq Tasks /\ exclude \subseteq exclude' /\ Lookup # NoTask
    BY <2>1, NoTaskIsNoTask DEF SkipInv
  <2>3. SUFFICES ASSUME Lookup \in exclude
                 PROVE  cfg.source = "handover" /\ ListPending(status) \subseteq completed
    BY <2>1, <2>2
  <2>4. ~PinPending
    BY <2>3 DEF SkipInv
  <2>5. cfg.source = "handover"
    <3>1. cfg.source # "sequential"
      BY <2>2, <2>3, <2>4, ListSkipsExcluded DEF Lookup
    <3> QED  BY <3>1, ConfigAssumption DEF TypeOK, RunOK, Config
  <2>6. Lookup = ResolveHandover(handover, status, exclude)
    BY <2>4, <2>5 DEF Lookup
  <2>7. ResolveSequential(status, exclude) = NoTask
    BY <2>2, <2>3, <2>6, ListSkipsExcluded DEF ResolveHandover
  <2> QED  BY <2>5, <2>7, ListSkipsExcluded DEF SkipInv
<1>2. Init => SkipInv
  BY DEF Init, SkipInv, PinPending
<1> QED  BY <1>1, <1>2, SkipInvStep, TypeCorrect, PTL DEF Spec, SkipsCount

\* A lookup that finds nothing means that nothing is left; a pin is never that.
ExhaustedInv ==
    /\ cfg.resume \/ completed = {}
    /\ pc = "resolved" /\ selected = NoTask => ListPending(status) \subseteq completed

\* Between lookup and stop neither queue nor history moves.
LEMMA ExhaustedInvStep == TypeOK /\ SkipInv /\ ExhaustedInv /\ [Next]_vars => ExhaustedInv'
<1> SUFFICES ASSUME TypeOK, SkipInv, ExhaustedInv, [Next]_vars PROVE ExhaustedInv'
  OBVIOUS
<1> USE DEF ExhaustedInv
<1>1. CASE UNCHANGED <<cfg, completed>> /\ pc' # "resolved"
  BY <1>1
<1>2. CASE \E e \in Exceptions : Raise(e)
  BY <1>1, <1>2 DEF Raise, runVars
<1>3. CASE Invoke \/ Startup
  BY <1>3 DEF Invoke, Startup
<1>4. CASE ResolveTask
  <2>1. UNCHANGED <<cfg, completed, status>> /\ selected' = Lookup
    BY <1>4 DEF ResolveTask, fileVars, diskVars
  <2>2. SUFFICES ASSUME Lookup = NoTask PROVE ListPending(status) \subseteq completed
    BY <2>1 DEF ListPending
  <2>3. ~PinPending
    BY <1>4, <2>2 DEF ResolveTask, ResolveFails, PinFails, Lookup
  <2>4. ResolveSequential(status, exclude) = NoTask
    BY <2>2, <2>3, NoTaskIsNoTask DEF Lookup, ResolveHandover, Usable, GetById
  <2> QED  BY <2>4, ListSkipsExcluded DEF SkipInv
<1>5. CASE ImplementationReturns \/ UpdateReturns \/ GuardHandoverFiles \/ FinishRun
  BY <1>1, <1>2, <1>5 DEF ImplementationReturns, UpdateReturns, GuardHandoverFiles,
                          FinishRun, ProcessGone, runVars, Exceptions
<1>6. CASE StartupError \/ Unwind \/ Crash
  BY <1>1, <1>6 DEF StartupError, Unwind, Crash, ProcessGone, runVars
<1>7. CASE Fails \/ AgentRunFails
  BY <1>2, <1>7, FailsRaises, AgentRunFailsRaises
<1>8. CASE Sigint \/ AllRunsDone \/ UNCHANGED vars
  BY <1>8 DEF Sigint, AllRunsDone, vars, fileVars, diskVars, runVars, cycleVars, ctlVars,
              ListPending
<1> QED
  BY <1>1, <1>3, <1>4, <1>5, <1>6, <1>7, <1>8
     DEF Fails, Next, Process, BeginCycle, SkipCompleted, StartCycle, StopRun, PlanDryRun,
         PrepareCycle, EnterSession, CreateAgent, SendPrompt, ContinueSameAgent,
         FallBackToComposer, RetryCycle, Backoff, PassSnapshotCheck, ArmUpdate,
         CompleteCycle, runVars, ctlVars

\* Success before the configured number of cycles.
StopsOnlyExhausted ==
    [][StopRun /\ cycle < cfg.cycles =>
          /\ ListPending(status) \subseteq completed
          /\ cfg.resume \/ ListPending(status) = {}]_vars

\* A run that stops early and reports success leaves no task undone, but those that the
\* history of a resumed run has: whatever the source of tasks, the marker, the pin and
\* the dependencies are.
THEOREM EarlyStopIsExhausted == Spec => StopsOnlyExhausted
<1>1. TypeOK /\ ExhaustedInv /\ [Next]_vars =>
        [StopRun /\ cycle < cfg.cycles =>
          /\ ListPending(status) \subseteq completed
          /\ cfg.resume \/ ListPending(status) = {}]_vars
  <2> SUFFICES ASSUME TypeOK, ExhaustedInv, StopRun, cycle < cfg.cycles
               PROVE  /\ ListPending(status) \subseteq completed
                      /\ cfg.resume \/ ListPending(status) = {}
    OBVIOUS
  <2>1. ~(cycle >= cfg.cycles)
    BY SettingsAreNumbers DEF TypeOK, RunOK
  <2> QED  BY <2>1 DEF StopRun, ExhaustedInv
<1>2. Init => SkipInv /\ ExhaustedInv
  BY DEF Init, SkipInv, PinPending, ExhaustedInv
<1> QED
  BY <1>1, <1>2, SkipInvStep, ExhaustedInvStep, TypeCorrect, PTL DEF Spec, StopsOnlyExhausted
=============================================================================
