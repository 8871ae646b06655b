-------------------------- MODULE SdkBridgeProofs --------------------------
(***************************************************************************)
(* Proofs about SdkBridge, and about AgentRuntime as an implementation of  *)
(* it: what holds of the bridge whatever a command does with it holds of a *)
(* run.                                                                    *)
(***************************************************************************)
EXTENDS AgentRuntime, TLAPS

\* The bridge that environment, client and registry name is the same one, and
\* none is registered while another is launched or closed.
Registry ==
    /\ \A b \in registry : Attached(b)
    /\ pc \in {"discover", "install", "relaunch", "exited"} \cup Closing => registry = {}
    /\ pc \in Closing => Attached(target) /\ target \in 1..launched
    /\ pc \notin Closing /\ registry = {} => client \in lost \cup {NoBridge}
    /\ pc \notin Closing \cup {"install"} /\ registry = {}
        => env \in lost \cup {NoBridge, External}
    /\ pc \in {"discover", "install"} => launched >= 1
    /\ pc = "install" => env = launched

\* The processes that run and were not given up on have an owner.
Owned ==
    \A b \in running \ lost :
        \/ b \in registry
        \/ pc \in {"discover", "install"} /\ b = launched
        \/ pc \in Closing /\ b = target

\* Inside the context of launch no command finds the endpoint gone when it opens
\* its own context, which therefore yields no bridge.
Nesting ==
    /\ outer # NotOpen => inner \in {NotOpen, NoBridge}
    /\ pc = "off" => outer = NotOpen /\ inner = NotOpen
    /\ pc \in Launching => (cmd = "launch" <=> why = "outer")
    /\ pc \in Launching /\ why = "outer" => outer = NotOpen /\ inner = NotOpen
    /\ pc \in {"discover", "install"} /\ why = "inner" => outer = NotOpen
    /\ pc = "enter" /\ outer # NotOpen => env # NoBridge /\ cmd # "doctor"
    /\ pc = "enter" => why # "recover"
    /\ pc = "relaunch" => why = "recover"
    /\ pc = "body" /\ outer # NotOpen /\ cmd \in {"launch", "doctor"} => env # NoBridge
    /\ pc = "body" /\ cmd = "launch" => outer # NotOpen
    /\ cmd = "launch" => inner = NotOpen
    /\ cmd = "doctor" /\ outer # NotOpen => inner = NotOpen
    /\ why = "recover" => cmd = "run"
    /\ pc \in {"exit", "exited"} => outer = NotOpen
    /\ pc \in Closing /\ why = "outer" => inner = NotOpen
    /\ pc \in Closing /\ why = "exit" => outer = NotOpen

BridgeInv == BridgeTypeOK /\ Registry /\ Owned /\ Nesting

-----------------------------------------------------------------------------
(***************************************************************************)
(* Each step keeps the four parts of the invariant.                        *)
(***************************************************************************)

LEMMA BridgeInvInit == BridgeInit => BridgeInv
  <1> SUFFICES ASSUME BridgeInit PROVE BridgeInv
    OBVIOUS
  <1> USE DEF BridgeInit, Launching, Closing, NoBridge, External, NotOpen
  <1>1. BridgeTypeOK
    <2>1. /\ launched \in Nat /\ running \subseteq 1..launched
          /\ registry \subseteq 1..launched /\ lost \subseteq 1..launched
      OBVIOUS
    <2>2. /\ env \in Int /\ client \in Int /\ target \in Int
          /\ outer \in Int /\ inner \in Int
      OBVIOUS
    <2>3. raised \in BOOLEAN
      OBVIOUS
    <2>4. /\ cmd \in Commands /\ pc \in PCs
          /\ why \in {"outer", "inner", "recover", "exit"}
      BY DEF Commands, PCs
    <2> QED BY <2>1, <2>2, <2>3, <2>4 DEF BridgeTypeOK
  <1>2. Registry /\ Owned
    BY DEF Registry, Owned
  <1>3. Nesting
    BY DEF Nesting
  <1> QED BY <1>1, <1>2, <1>3 DEF BridgeInv

LEMMA BridgeInvNext == BridgeInv /\ [BridgeNext]_hostVars => BridgeInv'
  <1> SUFFICES ASSUME BridgeInv, [BridgeNext]_hostVars PROVE BridgeInv'
    OBVIOUS
  <1> USE DEF BridgeInv, Commands, PCs, Launching, Closing, NoBridge, External, NotOpen,
              bridgeVars
  <1>1. CASE Begin
    <2>1. BridgeTypeOK'
      BY <1>1 DEF BridgeTypeOK, Registry, Begin
    <2>2. Registry'
      BY <1>1 DEF BridgeTypeOK, Registry, Owned, Nesting, Attached, Begin
    <2>3. Owned'
      BY <1>1 DEF BridgeTypeOK, Registry, Owned, Begin
    <2>4. Nesting'
      BY <1>1 DEF BridgeTypeOK, Registry, Attached, Nesting, Begin
    <2> QED BY <2>1, <2>2, <2>3, <2>4
  <1>2. CASE Dispatch
    <2>1. BridgeTypeOK'
      BY <1>2 DEF BridgeTypeOK, Registry, Dispatch
    <2>2. Registry'
      BY <1>2 DEF BridgeTypeOK, Registry, Owned, Nesting, Attached, Dispatch
    <2>3. Owned'
      BY <1>2 DEF BridgeTypeOK, Registry, Owned, Dispatch
    <2>4. Nesting'
      BY <1>2 DEF BridgeTypeOK, Registry, Attached, Nesting, Dispatch
    <2> QED BY <2>1, <2>2, <2>3, <2>4
  <1>3. CASE Probe
    <2>1. BridgeTypeOK'
      BY <1>3 DEF BridgeTypeOK, Registry, Probe
    <2>2. Registry'
      BY <1>3 DEF BridgeTypeOK, Registry, Owned, Nesting, Attached, Probe
    <2>3. Owned'
      BY <1>3 DEF BridgeTypeOK, Registry, Owned, Probe
    <2>4. Nesting'
      BY <1>3 DEF BridgeTypeOK, Registry, Attached, Nesting, Probe
    <2> QED BY <2>1, <2>2, <2>3, <2>4
  <1>4. CASE EnterConfigured
    <2>1. BridgeTypeOK'
      BY <1>4 DEF BridgeTypeOK, Registry, EnterConfigured, OpenContext
    <2>2. Registry'
      BY <1>4
         DEF BridgeTypeOK, Registry, Owned, Nesting, Attached, EnterConfigured, OpenContext
    <2>3. Owned'
      BY <1>4 DEF BridgeTypeOK, Registry, Owned, EnterConfigured, OpenContext
    <2>4. Nesting'
      BY <1>4
         DEF BridgeTypeOK, Registry, Attached, Nesting, EnterConfigured, OpenContext
    <2> QED BY <2>1, <2>2, <2>3, <2>4
  <1>5. CASE LeaveClosing
    <2>1. BridgeTypeOK'
      BY <1>5 DEF BridgeTypeOK, Registry, LeaveClosing, BeginClose, Context
    <2>2. Registry'
      BY <1>5
         DEF BridgeTypeOK, Registry, Owned, Nesting, Attached, LeaveClosing, BeginClose, Context
    <2>3. Owned'
      BY <1>5 DEF BridgeTypeOK, Registry, Owned, LeaveClosing, BeginClose, Context
    <2>4. Nesting'
      BY <1>5
         DEF BridgeTypeOK, Registry, Attached, Nesting, LeaveClosing, BeginClose, Context
    <2> QED BY <2>1, <2>2, <2>3, <2>4
  <1>6. CASE LeaveDone
    <2>1. BridgeTypeOK'
      BY <1>6 DEF BridgeTypeOK, Registry, LeaveDone, DropContext, Context
    <2>2. Registry'
      BY <1>6
         DEF BridgeTypeOK, Registry, Owned, Nesting, Attached, LeaveDone, DropContext, Context
    <2>3. Owned'
      BY <1>6 DEF BridgeTypeOK, Registry, Owned, LeaveDone, DropContext, Context
    <2>4. Nesting'
      BY <1>6
         DEF BridgeTypeOK, Registry, Attached, Nesting, LeaveDone, DropContext, Context
    <2> QED BY <2>1, <2>2, <2>3, <2>4
  <1>7. CASE ExitClosing
    <2>1. BridgeTypeOK'
      BY <1>7 DEF BridgeTypeOK, Registry, ExitClosing, BeginClose
    <2>2. Registry'
      BY <1>7
         DEF BridgeTypeOK, Registry, Owned, Nesting, Attached, ExitClosing, BeginClose
    <2>3. Owned'
      BY <1>7 DEF BridgeTypeOK, Registry, Owned, ExitClosing, BeginClose
    <2>4. Nesting'
      BY <1>7
         DEF BridgeTypeOK, Registry, Attached, Nesting, ExitClosing, BeginClose
    <2> QED BY <2>1, <2>2, <2>3, <2>4
  <1>8. CASE Exit
    <2>1. BridgeTypeOK'
      BY <1>8 DEF BridgeTypeOK, Registry, Exit
    <2>2. Registry'
      BY <1>8 DEF BridgeTypeOK, Registry, Owned, Nesting, Attached, Exit
    <2>3. Owned'
      BY <1>8 DEF BridgeTypeOK, Registry, Owned, Exit
    <2>4. Nesting'
      BY <1>8 DEF BridgeTypeOK, Registry, Attached, Nesting, Exit
    <2> QED BY <2>1, <2>2, <2>3, <2>4
  <1>9. CASE Spawn
    <2>1. BridgeTypeOK'
      BY <1>9 DEF BridgeTypeOK, Registry, Spawn, MayLaunch
    <2>2. Registry'
      BY <1>9
         DEF BridgeTypeOK, Registry, Owned, Nesting, Attached, Spawn, MayLaunch
    <2>3. Owned'
      BY <1>9 DEF BridgeTypeOK, Registry, Owned, Spawn, MayLaunch
    <2>4. Nesting'
      BY <1>9 DEF BridgeTypeOK, Registry, Attached, Nesting, Spawn, MayLaunch
    <2> QED BY <2>1, <2>2, <2>3, <2>4
  <1>10. CASE SpawnFails
    <2>1. BridgeTypeOK'
      BY <1>10
         DEF BridgeTypeOK, Registry, SpawnFails, MayLaunch, LaunchFails, AfterContext
    <2>2. Registry'
      BY <1>10
         DEF BridgeTypeOK, Registry, Owned, Nesting, Attached, SpawnFails, MayLaunch, LaunchFails, AfterContext
    <2>3. Owned'
      BY <1>10
         DEF BridgeTypeOK, Registry, Owned, SpawnFails, MayLaunch, LaunchFails, AfterContext
    <2>4. Nesting'
      BY <1>10
         DEF BridgeTypeOK, Registry, Attached, Nesting, SpawnFails, MayLaunch, LaunchFails, AfterContext
    <2> QED BY <2>1, <2>2, <2>3, <2>4
  <1>11. CASE Announce
    <2>1. BridgeTypeOK'
      BY <1>11 DEF BridgeTypeOK, Registry, Announce
    <2>2. Registry'
      BY <1>11 DEF BridgeTypeOK, Registry, Owned, Nesting, Attached, Announce
    <2>3. Owned'
      BY <1>11 DEF BridgeTypeOK, Registry, Owned, Announce
    <2>4. Nesting'
      BY <1>11 DEF BridgeTypeOK, Registry, Attached, Nesting, Announce
    <2> QED BY <2>1, <2>2, <2>3, <2>4
  <1>12. CASE DiscoveryFails
    <2>1. BridgeTypeOK'
      BY <1>12
         DEF BridgeTypeOK, Registry, DiscoveryFails, Terminated, Lose, LaunchFails, AfterContext
    <2>2. Registry'
      BY <1>12
         DEF BridgeTypeOK, Registry, Owned, Nesting, Attached, DiscoveryFails, Terminated, Lose, LaunchFails, AfterContext
    <2>3. Owned'
      BY <1>12
         DEF BridgeTypeOK, Registry, Owned, DiscoveryFails, Terminated, Lose, LaunchFails, AfterContext
    <2>4. Nesting'
      BY <1>12
         DEF BridgeTypeOK, Registry, Attached, Nesting, DiscoveryFails, Terminated, Lose, LaunchFails, AfterContext
    <2> QED BY <2>1, <2>2, <2>3, <2>4
  <1>13. CASE Install
    <2>1. BridgeTypeOK'
      BY <1>13 DEF BridgeTypeOK, Registry, Install, Registered, OpenContext
    <2>2. Registry'
      BY <1>13
         DEF BridgeTypeOK, Registry, Owned, Nesting, Attached, Install, Registered, OpenContext
    <2>3. Owned'
      BY <1>13 DEF BridgeTypeOK, Registry, Owned, Install, Registered, OpenContext
    <2>4. Nesting'
      BY <1>13
         DEF BridgeTypeOK, Registry, Attached, Nesting, Install, Registered, OpenContext
    <2> QED BY <2>1, <2>2, <2>3, <2>4
  <1>14. CASE InstallFails
    <2>5. raised' \in BOOLEAN /\ pc' \in PCs
      BY <1>14
         DEF BridgeTypeOK, InstallFails, Terminated, Lose, LaunchFails, AfterContext
    <2>6. lost' \subseteq 1..launched
      BY <1>14
         DEF BridgeTypeOK, Registry, InstallFails, Terminated, Lose, LaunchFails, AfterContext
    <2>7. running' \subseteq 1..launched /\ registry' \subseteq 1..launched
      BY <1>14
         DEF BridgeTypeOK, Registry, InstallFails, Terminated, Lose, LaunchFails, AfterContext
    <2>8. client' \in Int /\ outer' \in Int /\ inner' \in Int
      BY <1>14
         DEF BridgeTypeOK, InstallFails, Terminated, Lose, LaunchFails, AfterContext
    <2>9. UNCHANGED <<launched, env, cmd, why, target>>
      BY <1>14 DEF InstallFails, Terminated, Lose, LaunchFails, AfterContext
    <2>1. BridgeTypeOK'
      BY <2>5, <2>6, <2>7, <2>8, <2>9 DEF BridgeTypeOK
    <2>2. Registry'
      BY <1>14
         DEF BridgeTypeOK, Registry, Owned, Nesting, Attached, InstallFails, Terminated, Lose, LaunchFails, AfterContext
    <2>3. Owned'
      BY <1>14
         DEF BridgeTypeOK, Registry, Owned, InstallFails, Terminated, Lose, LaunchFails, AfterContext
    <2>4. Nesting'
      BY <1>14
         DEF BridgeTypeOK, Registry, Attached, Nesting, InstallFails, Terminated, Lose, LaunchFails, AfterContext
    <2> QED BY <2>1, <2>2, <2>3, <2>4
  <1>15. CASE DrainFails
    <2>5. raised' \in BOOLEAN /\ pc' \in PCs
      BY <1>15
         DEF BridgeTypeOK, DrainFails, Registered, Terminated, Lose, LaunchFails, AfterContext
    <2>6. lost' \subseteq 1..launched
      BY <1>15
         DEF BridgeTypeOK, Registry, DrainFails, Registered, Terminated, Lose, LaunchFails, AfterContext
    <2>7. running' \subseteq 1..launched /\ registry' \subseteq 1..launched
      <3>1. registry' = registry \cup {launched}
        BY <1>15 DEF DrainFails, Registered
      <3>3. launched \in 1..launched
        BY <1>15 DEF BridgeTypeOK, Registry, DrainFails
      <3>2. running' \subseteq running
        BY <1>15 DEF DrainFails, Terminated
      <3> QED BY <3>1, <3>2, <3>3 DEF BridgeTypeOK
    <2>8. client' \in Int /\ outer' \in Int /\ inner' \in Int
      BY <1>15
         DEF BridgeTypeOK, DrainFails, Registered, Terminated, Lose, LaunchFails, AfterContext
    <2>9. UNCHANGED <<launched, env, cmd, why, target>>
      BY <1>15
         DEF DrainFails, Registered, Terminated, Lose, LaunchFails, AfterContext
    <2>1. BridgeTypeOK'
      BY <2>5, <2>6, <2>7, <2>8, <2>9 DEF BridgeTypeOK
    <2>2. Registry'
      BY <1>15
         DEF BridgeTypeOK, Registry, Owned, Nesting, Attached, DrainFails, Registered, Terminated, Lose, LaunchFails, AfterContext
    <2>3. Owned'
      BY <1>15
         DEF BridgeTypeOK, Registry, Owned, DrainFails, Registered, Terminated, Lose, LaunchFails, AfterContext
    <2>4. Nesting'
      BY <1>15
         DEF BridgeTypeOK, Registry, Attached, Nesting, DrainFails, Registered, Terminated, Lose, LaunchFails, AfterContext
    <2> QED BY <2>1, <2>2, <2>3, <2>4
  <1>16. CASE Shutdown
    <2>1. BridgeTypeOK'
      BY <1>16 DEF BridgeTypeOK, Registry, Shutdown
    <2>2. Registry'
      BY <1>16 DEF BridgeTypeOK, Registry, Owned, Nesting, Attached, Shutdown
    <2>3. Owned'
      BY <1>16 DEF BridgeTypeOK, Registry, Owned, Shutdown
    <2>4. Nesting'
      BY <1>16 DEF BridgeTypeOK, Registry, Attached, Nesting, Shutdown
    <2> QED BY <2>1, <2>2, <2>3, <2>4
  <1>17. CASE Terminate
    <2>1. BridgeTypeOK'
      BY <1>17 DEF BridgeTypeOK, Registry, Terminate, Terminated, Lose, AfterClose
    <2>2. Registry'
      BY <1>17
         DEF BridgeTypeOK, Registry, Owned, Nesting, Attached, Terminate, Terminated, Lose, AfterClose
    <2>3. Owned'
      BY <1>17
         DEF BridgeTypeOK, Registry, Owned, Terminate, Terminated, Lose, AfterClose
    <2>4. Nesting'
      BY <1>17
         DEF BridgeTypeOK, Registry, Attached, Nesting, Terminate, Terminated, Lose, AfterClose
    <2> QED BY <2>1, <2>2, <2>3, <2>4
  <1>18. CASE TerminateFails
    <2>5. raised' \in BOOLEAN /\ pc' \in PCs
      BY <1>18 DEF BridgeTypeOK, TerminateFails, Lose, CloseAborted, DropContext
    <2>6. lost' \subseteq 1..launched
      BY <1>18
         DEF BridgeTypeOK, Registry, TerminateFails, Lose, CloseAborted, DropContext
    <2>7. running' \subseteq 1..launched /\ registry' \subseteq 1..launched
      BY <1>18
         DEF BridgeTypeOK, Registry, TerminateFails, Lose, CloseAborted, DropContext
    <2>8. client' \in Int /\ outer' \in Int /\ inner' \in Int
      BY <1>18 DEF BridgeTypeOK, TerminateFails, Lose, CloseAborted, DropContext
    <2>9. UNCHANGED <<launched, env, cmd, why, target>>
      BY <1>18 DEF TerminateFails, Lose, CloseAborted, DropContext
    <2>1. BridgeTypeOK'
      BY <2>5, <2>6, <2>7, <2>8, <2>9 DEF BridgeTypeOK
    <2>2. Registry'
      BY <1>18
         DEF BridgeTypeOK, Registry, Owned, Nesting, Attached, TerminateFails, Lose, CloseAborted, DropContext
    <2>3. Owned'
      BY <1>18
         DEF BridgeTypeOK, Registry, Owned, TerminateFails, Lose, CloseAborted, DropContext
    <2>4. Nesting'
      BY <1>18
         DEF BridgeTypeOK, Registry, Attached, Nesting, TerminateFails, Lose, CloseAborted, DropContext
    <2> QED BY <2>1, <2>2, <2>3, <2>4
  <1>19. CASE Finish
    <2>1. BridgeTypeOK'
      BY <1>19 DEF BridgeTypeOK, Registry, Finish, EndBody
    <2>2. Registry'
      BY <1>19
         DEF BridgeTypeOK, Registry, Owned, Nesting, Attached, Finish, EndBody
    <2>3. Owned'
      BY <1>19 DEF BridgeTypeOK, Registry, Owned, Finish, EndBody
    <2>4. Nesting'
      BY <1>19 DEF BridgeTypeOK, Registry, Attached, Nesting, Finish, EndBody
    <2> QED BY <2>1, <2>2, <2>3, <2>4
  <1>20. CASE Recover
    <2>1. BridgeTypeOK'
      BY <1>20 DEF BridgeTypeOK, Registry, Recover, BeginClose
    <2>2. Registry'
      BY <1>20
         DEF BridgeTypeOK, Registry, Owned, Nesting, Attached, Recover, BeginClose
    <2>3. Owned'
      BY <1>20 DEF BridgeTypeOK, Registry, Owned, Recover, BeginClose
    <2>4. Nesting'
      BY <1>20 DEF BridgeTypeOK, Registry, Attached, Nesting, Recover, BeginClose
    <2> QED BY <2>1, <2>2, <2>3, <2>4
  <1>21. CASE BridgeDies
    <2>1. BridgeTypeOK'
      BY <1>21 DEF BridgeTypeOK, Registry, BridgeDies, callVars
    <2>2. Registry'
      BY <1>21
         DEF BridgeTypeOK, Registry, Owned, Nesting, Attached, BridgeDies, callVars
    <2>3. Owned'
      BY <1>21 DEF BridgeTypeOK, Registry, Owned, BridgeDies, callVars
    <2>4. Nesting'
      BY <1>21 DEF BridgeTypeOK, Registry, Attached, Nesting, BridgeDies, callVars
    <2> QED BY <2>1, <2>2, <2>3, <2>4
  <1>22. CASE InterruptBody
    <2>1. BridgeTypeOK'
      BY <1>22 DEF BridgeTypeOK, Registry, InterruptBody, EndBody
    <2>2. Registry'
      BY <1>22
         DEF BridgeTypeOK, Registry, Owned, Nesting, Attached, InterruptBody, EndBody
    <2>3. Owned'
      BY <1>22 DEF BridgeTypeOK, Registry, Owned, InterruptBody, EndBody
    <2>4. Nesting'
      BY <1>22
         DEF BridgeTypeOK, Registry, Attached, Nesting, InterruptBody, EndBody
    <2> QED BY <2>1, <2>2, <2>3, <2>4
  <1>23. CASE InterruptLaunch
    <2>5. raised' \in BOOLEAN /\ pc' \in PCs
      BY <1>23 DEF BridgeTypeOK, InterruptLaunch, AfterContext, Lose
    <2>6. lost' \subseteq 1..launched
      <3>1. CASE pc \in {"discover", "install"}
        <4>1. launched \in 1..launched
          BY <3>1 DEF BridgeTypeOK, Registry
        <4>2. lost' = lost \cup {launched} /\ launched' = launched
          BY <1>23, <3>1 DEF InterruptLaunch, Lose
        <4> QED BY <4>1, <4>2 DEF BridgeTypeOK
      <3>2. CASE pc \notin {"discover", "install"}
        BY <1>23, <3>2 DEF BridgeTypeOK, InterruptLaunch
      <3> QED BY <3>1, <3>2
    <2>7. running' \subseteq 1..launched /\ registry' \subseteq 1..launched
      BY <1>23 DEF BridgeTypeOK, Registry, InterruptLaunch, AfterContext, Lose
    <2>8. client' \in Int /\ outer' \in Int /\ inner' \in Int
      BY <1>23 DEF BridgeTypeOK, InterruptLaunch, AfterContext, Lose
    <2>9. UNCHANGED <<launched, env, cmd, why, target>>
      BY <1>23 DEF InterruptLaunch, AfterContext, Lose
    <2>1. BridgeTypeOK'
      BY <2>5, <2>6, <2>7, <2>8, <2>9 DEF BridgeTypeOK
    <2>2. Registry'
      BY <1>23
         DEF BridgeTypeOK, Registry, Owned, Nesting, Attached, InterruptLaunch, AfterContext, Lose
    <2>3. Owned'
      BY <1>23
         DEF BridgeTypeOK, Registry, Owned, InterruptLaunch, AfterContext, Lose
    <2>4. Nesting'
      BY <1>23
         DEF BridgeTypeOK, Registry, Attached, Nesting, InterruptLaunch, AfterContext, Lose
    <2> QED BY <2>1, <2>2, <2>3, <2>4
  <1>24. CASE InterruptInstalled
    <2>1. BridgeTypeOK'
      BY <1>24
         DEF BridgeTypeOK, Registry, InterruptInstalled, AfterContext, Registered
    <2>2. Registry'
      BY <1>24
         DEF BridgeTypeOK, Registry, Owned, Nesting, Attached, InterruptInstalled, AfterContext, Registered
    <2>3. Owned'
      BY <1>24
         DEF BridgeTypeOK, Registry, Owned, InterruptInstalled, AfterContext, Registered
    <2>4. Nesting'
      BY <1>24
         DEF BridgeTypeOK, Registry, Attached, Nesting, InterruptInstalled, AfterContext, Registered
    <2> QED BY <2>1, <2>2, <2>3, <2>4
  <1>25. CASE InterruptClose
    <2>5. raised' \in BOOLEAN /\ pc' \in PCs
      BY <1>25 DEF BridgeTypeOK, InterruptClose, Lose, CloseAborted, DropContext
    <2>6. lost' \subseteq 1..launched
      BY <1>25
         DEF BridgeTypeOK, Registry, InterruptClose, Lose, CloseAborted, DropContext
    <2>7. running' \subseteq 1..launched /\ registry' \subseteq 1..launched
      BY <1>25
         DEF BridgeTypeOK, Registry, InterruptClose, Lose, CloseAborted, DropContext
    <2>8. client' \in Int /\ outer' \in Int /\ inner' \in Int
      BY <1>25 DEF BridgeTypeOK, InterruptClose, Lose, CloseAborted, DropContext
    <2>9. UNCHANGED <<launched, env, cmd, why, target>>
      BY <1>25 DEF InterruptClose, Lose, CloseAborted, DropContext
    <2>1. BridgeTypeOK'
      BY <2>5, <2>6, <2>7, <2>8, <2>9 DEF BridgeTypeOK
    <2>2. Registry'
      BY <1>25
         DEF BridgeTypeOK, Registry, Owned, Nesting, Attached, InterruptClose, Lose, CloseAborted, DropContext
    <2>3. Owned'
      BY <1>25
         DEF BridgeTypeOK, Registry, Owned, InterruptClose, Lose, CloseAborted, DropContext
    <2>4. Nesting'
      BY <1>25
         DEF BridgeTypeOK, Registry, Attached, Nesting, InterruptClose, Lose, CloseAborted, DropContext
    <2> QED BY <2>1, <2>2, <2>3, <2>4
  <1>26. CASE UNCHANGED hostVars
    BY <1>26 DEF hostVars, callVars, BridgeTypeOK, Registry, Owned, Nesting, Attached
  <1> QED
    BY <1>1, <1>2, <1>3, <1>4, <1>5, <1>6, <1>7, <1>8, <1>9, <1>10,
       <1>11, <1>12, <1>13, <1>14, <1>15, <1>16, <1>17, <1>18, <1>19, <1>20,
       <1>21, <1>22, <1>23, <1>24, <1>25, <1>26
       DEF BridgeNext, Contexts, Launch, Close, Interrupt

(***************************************************************************)
(* What the invariant gives                                                *)
(***************************************************************************)

\* The parts of the invariant imply what is claimed of every reachable state.
LEMMA BridgeInvImplies == BridgeInv => OneBridge /\ EndpointsAgree /\ NoOrphan
  <1> SUFFICES ASSUME BridgeInv PROVE OneBridge /\ EndpointsAgree /\ NoOrphan
    OBVIOUS
  <1> USE DEF BridgeInv, Registry, Owned, Closing
  <1>1. OneBridge
    BY DEF OneBridge, Attached
  <1>2. EndpointsAgree
    BY DEF EndpointsAgree, Attached
  <1>3. NoOrphan
    BY DEF NoOrphan
  <1> QED BY <1>1, <1>2, <1>3

\* Only recovery changes the registry between the opening and the closing of the
\* inner context.
LEMMA NestedStep ==
    BridgeInv /\ BridgeNext /\ outer # NotOpen /\ inner # NotOpen
    /\ registry' # registry /\ registry # {} => why' = "recover"
  <1> SUFFICES ASSUME BridgeInv, BridgeNext, outer # NotOpen, inner # NotOpen,
                      registry' # registry, registry # {}
               PROVE  why' = "recover"
    OBVIOUS
  <1> USE DEF BridgeInv, Registry, Nesting, Closing, Launching, NoBridge, NotOpen
  <1>1. inner = NoBridge /\ pc \notin {"discover", "install", "exit", "exited"}
    OBVIOUS
  <1>2. CASE LeaveClosing
    BY <1>1, <1>2 DEF LeaveClosing, Context
  <1>3. CASE ExitClosing
    BY <1>1, <1>3 DEF ExitClosing
  <1>4. CASE Install \/ InstallFails \/ DrainFails \/ InterruptInstalled
    BY <1>1, <1>4 DEF Install, InstallFails, DrainFails, InterruptInstalled
  <1>5. CASE Recover
    BY <1>5 DEF Recover, BeginClose
  <1>6. ~(\/ Begin \/ Dispatch \/ Probe \/ EnterConfigured \/ LeaveDone \/ Exit \/ Spawn
          \/ SpawnFails \/ Announce \/ DiscoveryFails)
    BY DEF Begin, Dispatch, Probe, EnterConfigured, LeaveDone, Exit, Spawn, SpawnFails,
           Announce, DiscoveryFails, bridgeVars
  <1>7. ~(\/ Shutdown \/ Terminate \/ TerminateFails \/ Finish \/ BridgeDies
          \/ InterruptBody \/ InterruptLaunch \/ InterruptClose)
    BY DEF Shutdown, Terminate, TerminateFails, Finish, BridgeDies, InterruptBody,
           InterruptLaunch, InterruptClose, CloseAborted, bridgeVars
  <1> QED
    BY <1>2, <1>3, <1>4, <1>5, <1>6, <1>7
       DEF BridgeNext, Contexts, Launch, Close, Interrupt

\* In every behaviour of the bridge the invariant holds.
THEOREM BridgeInvariant == BridgeSpec => []BridgeInv
  BY BridgeInvInit, BridgeInvNext, PTL DEF BridgeSpec

-----------------------------------------------------------------------------
(***************************************************************************)
(* A run is one of the ways to use a bridge.                               *)
(***************************************************************************)
LEMMA RunStepIsBridgeStep == [Next]_vars => [BridgeNext]_hostVars
  <1> SUFFICES ASSUME Next PROVE BridgeNext \/ UNCHANGED hostVars
    BY DEF vars
  <1> USE DEF BridgeNext, Contexts, Launch, Close
  <1>1. CASE Host
    BY <1>1 DEF Host, Start, FinishOther
  <1>2. CASE Helper
    BY <1>2 DEF Helper
  <1>3. ASSUME NEW exception \in BOOLEAN, pc = "body", RunEnds(exception) PROVE BridgeNext
    BY <1>3 DEF RunEnds, Finish
  <1>4. ASSUME pc = "body", NextCycle PROVE BridgeNext \/ UNCHANGED hostVars
    BY <1>3, <1>4 DEF NextCycle, StaysInBody
  <1>5. CASE ListModels \/ CycleDone
    BY <1>4, <1>5 DEF ListModels, CycleDone, InRun
  <1>6. CASE ListingFails \/ RaiseInterrupted \/ RunFails
    BY <1>3, <1>6 DEF ListingFails, RaiseInterrupted, RunFails, InRun
  <1>7. CASE RouteTask \/ BillingFails \/ AttemptFails \/ KeepBridge
    BY <1>7 DEF RouteTask, BillingFails, AttemptFails, KeepBridge, StaysInBody
  <1>8. CASE ReplaceBridge
    BY <1>8 DEF ReplaceBridge
  <1>9. CASE Sigint \/ Environment \/ Exited
    BY <1>9 DEF Sigint, Environment, Exited, vars
  <1> QED
    BY <1>1, <1>2, <1>5, <1>6, <1>7, <1>8, <1>9 DEF Next, RunBody

\* AgentRuntime implements SdkBridge: filling in what `run` does between two uses
\* of its bridge adds no way to open, replace or close one.
THEOREM RunImplementsBridge == Spec => BridgeSpec
  BY RunStepIsBridgeStep, PTL DEF Spec, Init, BridgeSpec

\* At most one helper process runs that the program still has to end.
THEOREM OneBridgeAlways == Spec => []OneBridge
  BY RunImplementsBridge, BridgeInvariant, BridgeInvImplies, PTL

\* Whenever a command is at work, environment, default client and registry agree
\* on the bridge.
THEOREM EndpointsAlwaysAgree == Spec => []EndpointsAgree
  BY RunImplementsBridge, BridgeInvariant, BridgeInvImplies, PTL

\* No exit leaves behind a helper process that the program could have ended.
THEOREM NoOrphanEver == Spec => []NoOrphan
  BY RunImplementsBridge, BridgeInvariant, BridgeInvImplies, PTL

\* A command inside launch leaves the bridge of launch alone.
THEOREM NestedAlwaysKeepsBridge == Spec => NestedKeepsBridge
  <1>1. BridgeInv /\ [BridgeNext]_hostVars
        => [outer # NotOpen /\ inner # NotOpen /\ registry' # registry /\ registry # {}
              => why' = "recover"]_hostVars
    BY NestedStep
  <1> QED
    BY <1>1, RunImplementsBridge, BridgeInvariant, PTL DEF BridgeSpec, NestedKeepsBridge

=============================================================================
