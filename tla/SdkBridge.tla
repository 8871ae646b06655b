----------------------------- MODULE SdkBridge -----------------------------
(***************************************************************************)
(* The helper process of the agent SDK (Windows), through one invocation   *)
(* of a cyclopsctl command.                                                *)
(*                                                                         *)
(* Source: src/cyclopsctl/sdk_bridge.py, and the commands of cli.py and    *)
(* doctor.py that open bridges with managed_sdk_bridge.                    *)
(*                                                                         *)
(* A bridge is the number of its launch.  One action is the code between   *)
(* two calls that wait: for the discovery line, for the shutdown request,  *)
(* for the end of a process.  Between any two of them the bridge may die,  *)
(* and Ctrl+C may raise KeyboardInterrupt where no handler is installed.   *)
(* What a command does with its bridge is left open here: see AgentRuntime.*)
(***************************************************************************)
EXTENDS Integers, FiniteSets

CONSTANT MaxLaunches        \* bound: how many helper processes are started

ASSUME BridgeAssumption == MaxLaunches \in Nat

VARIABLES
    launched,   \* helper processes started so far
    running,    \* those that run
    registry,   \* _ACTIVE_BRIDGES, the bridges that are not closed
    env,        \* the endpoint in CURSOR_SDK_BRIDGE_URL and _TOKEN
    client,     \* the endpoint of the SDK's default client
    cmd,        \* the command under way
    outer,      \* context of `launch`: not open, or what it yielded
    inner,      \* context of the command itself, in the same way
    pc,
    why,        \* for whom a bridge is launched or closed
    target,     \* the bridge that close() works on
    raised,     \* an exception is on its way out
    lost        \* history: bridges the program gave up on, see Lose

bridgeVars == <<launched, running, registry, env, client>>
callVars   == <<cmd, outer, inner, pc, why, target, raised>>
hostVars   == <<bridgeVars, callVars, lost>>

-----------------------------------------------------------------------------
NoBridge == 0               \* None
External == -1              \* an endpoint that was there before the program
NotOpen == -2               \* a context that has not been entered

\* task: init, bootstrap, models, analyze-complexity.
Commands == {"run", "launch", "task", "doctor"}
Launching == {"enter", "discover", "install", "relaunch"}
Closing == {"shutdown", "terminate"}
PCs == Launching \cup Closing \cup {"off", "body", "leave", "exit", "exited"}

Attached(b) == env = b /\ client = b

\* interrupt.register() precedes the context of `run`, restore() follows it.
Handled == cmd = "run" /\ why \notin {"outer", "exit"}

\* An exception, or the end of the body, leaves the innermost open context.
AfterContext(exception) ==
    /\ raised' = exception
    /\ pc' = IF outer # NotOpen THEN "leave" ELSE "exit"

EndBody(exception) ==
    /\ raised' = exception
    /\ pc' = IF inner # NotOpen \/ outer # NotOpen THEN "leave" ELSE "exit"

\* launch_bridge_for_windows raised.  Recovery swallows any exception, `doctor`
\* reports an SdkBridgeError as a failed check, any other command ends.
LaunchFails(sdkError) ==
    IF why = "recover" \/ (why = "inner" /\ cmd = "doctor" /\ sdkError)
    THEN pc' = "body" /\ UNCHANGED raised
    ELSE AfterContext(TRUE)

\* Of a bridge the program has no handle on any more, something is left behind: the
\* process may run, or an endpoint still leads to it.
Lose(b) == lost' = lost \cup {b}

\* _terminate_process: the process ends, or outlives a taskkill that reports
\* success.
Terminated(b) ==
    \/ running' = running \ {b} /\ UNCHANGED lost
    \/ b \in running /\ UNCHANGED running /\ Lose(b)

BridgeInit ==
    /\ launched = 0 /\ running = {} /\ registry = {}
    /\ env \in {NoBridge, External} /\ client = NoBridge
    /\ cmd = "task" /\ outer = NotOpen /\ inner = NotOpen
    /\ pc = "off" /\ why = "inner" /\ target = NoBridge /\ raised = FALSE
    /\ lost = {}

(***************************************************************************)
(* managed_sdk_bridge, entered                                             *)
(***************************************************************************)

\* Every command but `doctor` begins with its context.
Begin ==
    /\ pc = "off"
    /\ cmd' \in Commands
    /\ why' = IF cmd' = "launch" THEN "outer" ELSE "inner"
    /\ pc' = IF cmd' = "doctor" THEN "body" ELSE "enter"
    /\ UNCHANGED <<bridgeVars, outer, inner, target, raised, lost>>

\* _dispatch_launch_argv runs another command inside the context of launch.
Dispatch ==
    /\ pc = "body" /\ cmd = "launch"
    /\ cmd' \in Commands \ {"launch"}
    /\ why' = "inner"
    /\ pc' = IF cmd' = "doctor" THEN "body" ELSE "enter"
    /\ UNCHANGED <<bridgeVars, outer, inner, target, raised, lost>>

\* check_sdk_bridge opens a context of its own if no endpoint is configured.
Probe ==
    /\ pc = "body" /\ cmd = "doctor" /\ inner = NotOpen /\ env = NoBridge
    /\ why' = "inner" /\ pc' = "enter"
    /\ UNCHANGED <<bridgeVars, cmd, outer, inner, target, raised, lost>>

OpenContext(b) ==
    /\ outer' = IF why = "outer" THEN b ELSE outer
    /\ inner' = IF why = "inner" THEN b ELSE inner
    /\ pc' = "body"

\* ensure_sdk_bridge: an endpoint is configured (or the platform is not Windows,
\* which is the same to everything below), the context yields None.
EnterConfigured ==
    /\ pc = "enter" /\ env # NoBridge
    /\ OpenContext(NoBridge)
    /\ UNCHANGED <<bridgeVars, cmd, why, target, raised, lost>>

(***************************************************************************)
(* launch_bridge_for_windows                                               *)
(***************************************************************************)
MayLaunch == pc = "relaunch" \/ (pc = "enter" /\ env = NoBridge)

Spawn ==
    /\ MayLaunch /\ launched < MaxLaunches
    /\ launched' = launched + 1
    /\ running' = running \cup {launched + 1}
    /\ pc' = "discover"
    /\ UNCHANGED <<registry, env, client, cmd, outer, inner, why, target, raised, lost>>

\* The executable is missing or cannot be started.
SpawnFails ==
    /\ MayLaunch
    /\ LaunchFails(FALSE)
    /\ UNCHANGED <<bridgeVars, cmd, outer, inner, why, target, lost>>

\* The discovery line: the environment is set before anything else is known to
\* work.
Announce ==
    /\ pc = "discover"
    /\ env' = launched
    /\ pc' = "install"
    /\ UNCHANGED <<launched, running, registry, client, cmd, outer, inner, why,
                   target, raised, lost>>

\* The process exits first, the deadline passes between two lines it prints, or
\* it has no stderr: SdkBridgeError, unless _terminate_process raises instead.
\* While it prints nothing, readline waits, and the deadline is not looked at.
DiscoveryFails ==
    /\ pc = "discover"
    /\ Terminated(launched)
    /\ \E sdkError \in {TRUE, lost' = lost} : LaunchFails(sdkError)
    /\ UNCHANGED <<launched, registry, env, client, cmd, outer, inner, why, target>>

\* _register_active_bridge is done.
Registered == client' = launched /\ registry' = registry \cup {launched}

Install ==
    /\ pc = "install"
    /\ Registered
    /\ OpenContext(launched)
    /\ UNCHANGED <<launched, running, env, cmd, why, target, raised, lost>>

\* The environment keeps the endpoint of the process that is terminated.
InstallFails ==
    /\ pc = "install"
    /\ running' \in {running, running \ {launched}} /\ Lose(launched)
    /\ LaunchFails(FALSE)
    /\ UNCHANGED <<launched, registry, env, client, cmd, outer, inner, why, target>>

\* The thread that drains stderr cannot be started: client and registry keep the
\* terminated process too.
DrainFails ==
    /\ pc = "install"
    /\ Registered
    /\ Terminated(launched)
    /\ LaunchFails(FALSE)
    /\ UNCHANGED <<launched, env, cmd, outer, inner, why, target>>

(***************************************************************************)
(* ManagedBridge.close                                                     *)
(***************************************************************************)
BeginClose(b, reason) ==
    /\ registry' = registry \ {b}
    /\ target' = b /\ why' = reason
    /\ pc' = "shutdown"

\* post_bridge_shutdown, whose errors are swallowed.
Shutdown ==
    /\ pc = "shutdown"
    /\ running' \in {running, running \ {target}}
    /\ pc' = "terminate"
    /\ UNCHANGED <<launched, registry, env, client, cmd, outer, inner, why, target,
                   raised, lost>>

AfterClose ==
    pc' = CASE why = "recover" -> "relaunch"
            [] why = "exit" -> "exit"
            [] OTHER -> "leave"

\* Defect: close() resets the environment only.
TerminateKeepsClient ==
    /\ pc = "terminate"
    /\ Terminated(target)
    /\ env' = NoBridge /\ UNCHANGED client
    /\ AfterClose
    /\ UNCHANGED <<launched, registry, cmd, outer, inner, why, target, raised>>

\* close_default_client may fail: the error is swallowed, the client stays.
Terminate ==
    /\ pc = "terminate"
    /\ env' = NoBridge
    /\ \/ Terminated(target) /\ client' = NoBridge
       \/ running' \in {running, running \ {target}} /\ Lose(target) /\ UNCHANGED client
    /\ AfterClose
    /\ UNCHANGED <<launched, registry, cmd, outer, inner, why, target, raised>>

\* The context whose `finally` is running is gone.
DropContext ==
    IF inner # NotOpen THEN inner' = NotOpen /\ UNCHANGED outer
    ELSE outer' = NotOpen /\ UNCHANGED inner

\* The exception of a close that cannot go on: _terminate_process raised, or
\* Ctrl+C came.  Environment and client stay.
CloseAborted ==
    /\ UNCHANGED <<bridgeVars, cmd, target, why>>
    /\ IF why \in {"inner", "outer"}
       THEN /\ DropContext
            /\ raised' = TRUE
            /\ pc' = IF why = "inner" /\ outer # NotOpen THEN "leave" ELSE "exit"
       ELSE /\ pc' = IF why = "recover" THEN "body" ELSE "exit"
            /\ UNCHANGED <<outer, inner, raised>>

TerminateFails ==
    /\ pc = "terminate" /\ target \in running
    /\ Lose(target)
    /\ CloseAborted

(***************************************************************************)
(* The `finally` of managed_sdk_bridge                                     *)
(***************************************************************************)
Context == IF inner # NotOpen THEN inner ELSE outer

\* Defect: replacements are looked for whatever the context yielded.
LeaveClosingAll ==
    /\ pc = "leave" /\ registry # {}
    /\ \E b \in registry :
          BeginClose(b, IF inner # NotOpen THEN "inner" ELSE "outer")
    /\ UNCHANGED <<launched, running, env, client, cmd, outer, inner, raised, lost>>

\* Its own bridge first; then any bridge that recovery put in its place.
LeaveClosing ==
    /\ pc = "leave" /\ Context # NoBridge
    /\ \E b \in registry :
          /\ Context \in registry => b = Context
          /\ BeginClose(b, IF inner # NotOpen THEN "inner" ELSE "outer")
    /\ UNCHANGED <<launched, running, env, client, cmd, outer, inner, raised, lost>>

\* `doctor` goes on with its checks, any other command is at its end.
LeaveDone ==
    /\ pc = "leave" /\ (Context = NoBridge \/ registry = {})
    /\ DropContext
    /\ pc' = IF inner # NotOpen /\ cmd = "doctor" /\ ~raised THEN "body"
             ELSE IF inner # NotOpen /\ outer # NotOpen THEN "leave"
             ELSE "exit"
    /\ UNCHANGED <<bridgeVars, cmd, why, target, raised, lost>>

\* Defect: there is no atexit handler.
ExitAtOnce ==
    /\ pc = "exit"
    /\ pc' = "exited"
    /\ UNCHANGED <<bridgeVars, cmd, outer, inner, why, target, raised, lost>>

\* _close_active_bridges_atexit
ExitClosing ==
    /\ pc = "exit"
    /\ \E b \in registry : BeginClose(b, "exit")
    /\ UNCHANGED <<launched, running, env, client, cmd, outer, inner, raised, lost>>

Exit ==
    /\ pc = "exit" /\ registry = {}
    /\ pc' = "exited"
    /\ UNCHANGED <<bridgeVars, cmd, outer, inner, why, target, raised, lost>>

(***************************************************************************)
(* The body of a command                                                   *)
(***************************************************************************)

\* The body returns or raises.
Finish ==
    /\ pc = "body"
    /\ \E exception \in BOOLEAN : EndBody(exception)
    /\ UNCHANGED <<bridgeVars, cmd, outer, inner, why, target, lost>>

\* Defect: the new bridge is launched beside the old one.
RecoverKeepsOld ==
    /\ pc = "body" /\ cmd = "run" /\ registry # {}
    /\ why' = "recover" /\ pc' = "relaunch"
    /\ UNCHANGED <<bridgeVars, cmd, outer, inner, target, raised, lost>>

\* recover_managed_bridge: close the bridge launched last, then launch.
Recover ==
    /\ pc = "body" /\ cmd = "run"
    /\ \E b \in registry :
          /\ \A other \in registry : other <= b
          /\ BeginClose(b, "recover")
    /\ UNCHANGED <<launched, running, env, client, cmd, outer, inner, raised, lost>>

(***************************************************************************)
(* What happens to the program                                             *)
(***************************************************************************)

\* An agent kills node processes, or the helper crashes.
BridgeDies ==
    /\ pc # "exited"
    /\ \E b \in running : running' = running \ {b}
    /\ UNCHANGED <<launched, registry, env, client, callVars, lost>>

InterruptBody ==
    /\ pc = "body"
    /\ EndBody(TRUE)
    /\ UNCHANGED <<bridgeVars, cmd, outer, inner, why, target, lost>>

\* `except Exception` does not catch it.
InterruptLaunch ==
    /\ pc \in Launching
    /\ IF pc \in {"discover", "install"} THEN Lose(launched) ELSE UNCHANGED lost
    /\ AfterContext(TRUE)
    /\ UNCHANGED <<bridgeVars, cmd, outer, inner, why, target>>

\* The bridge is registered, but the `with` is not entered yet.
InterruptInstalled ==
    /\ pc = "install"
    /\ Registered
    /\ AfterContext(TRUE)
    /\ UNCHANGED <<launched, running, env, cmd, outer, inner, why, target, lost>>

\* A close is not taken up again.
InterruptClose ==
    /\ pc \in Closing
    /\ Lose(target)
    /\ CloseAborted

\* KeyboardInterrupt
Interrupt ==
    /\ ~Handled
    /\ InterruptBody \/ InterruptLaunch \/ InterruptInstalled \/ InterruptClose

-----------------------------------------------------------------------------
Contexts == Begin \/ Dispatch \/ Probe \/ EnterConfigured
            \/ LeaveClosing \/ LeaveDone \/ ExitClosing \/ Exit
Launch == Spawn \/ SpawnFails \/ Announce \/ DiscoveryFails
          \/ Install \/ InstallFails \/ DrainFails
Close == Shutdown \/ Terminate \/ TerminateFails

BridgeNext ==
    \/ Contexts \/ Launch \/ Close
    \/ Finish \/ Recover \/ BridgeDies \/ Interrupt

BridgeSpec == BridgeInit /\ [][BridgeNext]_hostVars

-----------------------------------------------------------------------------
(***************************************************************************)
(* Properties                                                              *)
(***************************************************************************)

BridgeTypeOK ==
    /\ launched \in Nat /\ running \subseteq 1..launched /\ registry \subseteq 1..launched
    /\ lost \subseteq 1..launched
    /\ env \in Int /\ client \in Int /\ target \in Int
    /\ cmd \in Commands /\ pc \in PCs
    /\ why \in {"outer", "inner", "recover", "exit"}
    /\ outer \in Int /\ inner \in Int
    /\ raised \in BOOLEAN

\* However launches, replacements and failures follow each other, at most one
\* helper process runs that the program still has to end.
OneBridge == \A a, b \in running \ lost : a = b

\* Whenever a command is at work, the environment, the SDK's default client and
\* the registry name the same bridge; with no bridge left, the default client is
\* not that of one that was closed, unless the close could not be completed.
EndpointsAgree ==
    pc = "body" =>
        IF registry # {} THEN \E b \in registry : registry = {b} /\ Attached(b)
        ELSE client \in lost \cup {NoBridge}

\* A program that has exited, by whatever path, leaves no helper process behind
\* but those that outlived being killed or were given up on in a launch or a close
\* that failed half-way or was cut short by Ctrl+C.
NoOrphan == pc = "exited" => running \subseteq lost

\* A command that launch runs inside its own context leaves the bridge of launch
\* alone: as long as its context is open only recovery closes a bridge.
NestedKeepsBridge ==
    [][outer # NotOpen /\ inner # NotOpen /\ registry' # registry /\ registry # {}
        => why' = "recover"]_hostVars
=============================================================================
