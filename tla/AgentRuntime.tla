---------------------------- MODULE AgentRuntime ----------------------------
(***************************************************************************)
(* What a run needs besides the project's files: a helper process to reach *)
(* the SDK through, and a model to work with.                              *)
(*                                                                         *)
(* Source: loop.py where it drives sdk_bridge.py and routing.py, and the   *)
(* commands of cli.py.                                                     *)
(*                                                                         *)
(* SdkBridge leaves open what a command does with its bridge; here the     *)
(* body of `run` is filled in: the model listing, and per cycle attempts   *)
(* that route the task, call the agent, and fail for the reasons that      *)
(* matter to router or bridge.  What a cycle does to the project is the    *)
(* subject of RunLoop.                                                     *)
(***************************************************************************)
EXTENDS SdkBridge, Routing

CONSTANTS
    Settings,       \* what a run may find: see Setting
    MaxAttempts     \* retry_max_attempts, 1 when retry_on is "off"

\* The [routing] section and its overrides, which have no rules, default_model, the
\* models of the account, which of them has the id that a text spells, and for each
\* cycle the score of its task.
Setting(s) ==
    /\ DOMAIN s = {"table", "file", "flags", "default", "listing", "ids", "scores"}
    /\ DOMAIN s.table \cup DOMAIN s.file \subseteq Keys
    /\ DOMAIN s.flags \subseteq Keys \ {"rules", "fallback"}
    /\ \A k \in DOMAIN s.flags \cap {"composerTier", "grokTier"} : s.flags[k] \in Tiers
    /\ \A t \in {s.table, s.file} :
          "rules" \in DOMAIN t => DOMAIN t.rules = 1..Len(t.rules)
    /\ s.default \in Refs
    /\ s.listing \in Seq(Models) /\ s.ids \in [Refs -> 0..Len(s.listing)]
    /\ s.scores \in Seq(NoScore..MaxScore) /\ s.scores # <<>>

ASSUME RuntimeAssumption ==
    /\ \A s \in Settings : Setting(s)
    /\ MaxAttempts \in Nat \ {0}

VARIABLES
    setting,
    step,       \* the point inside the body of `run`
    cycle, attempt, try,
    premiumOn,  \* the runtime switches of ModelRouter
    decision,   \* the routed model and the flag that is set
    refused,    \* the last attempt could not connect to the bridge
    failedOn,   \* history: the bridge of this program that refused it, if any
    stopped     \* Ctrl+C while the handler of `run` is installed

runVars == <<setting, step, cycle, attempt, try, premiumOn, decision, refused,
             failedOn, stopped>>
vars == <<hostVars, runVars>>

-----------------------------------------------------------------------------
\* _parse_routing_section, _apply_routing_cli_overrides; no section is an empty
\* one.
Configuration == Overridden(Merged(setting), setting.flags)

Presets ==
    Capabilities(setting.listing, setting.ids, Configuration.composerTier,
                 Configuration.grokTier)

\* ModelRouter.route
RouteNow ==
    Route(setting.scores[cycle], Configuration, Presets, setting.default, premiumOn)

NoDecision == Resolved(Missing, "none")

\* The SDK uses its default client, and makes one from the environment if there
\* is none.
Endpoint == IF client # NoBridge THEN client ELSE env

\* With neither, the SDK starts a bridge of its own, which may work.
Reachable == Endpoint \in running \cup {External, NoBridge}

Steps == {"list", "route", "work", "recover"}
InRun(s) == pc = "body" /\ cmd = "run" /\ step = s

Init ==
    /\ BridgeInit
    /\ setting \in Settings
    /\ step = "list" /\ cycle = 0 /\ attempt = 0 /\ try = 0
    /\ premiumOn = TRUE /\ decision = NoDecision
    /\ refused = FALSE /\ failedOn = NoBridge /\ stopped = FALSE

(***************************************************************************)
(* The commands around the body of `run`                                   *)
(***************************************************************************)

\* load_run_config precedes everything else: a `run` whose [routing] section is
\* refused ends at once, which is the end of a `launch` that dispatches it.
Start == (Begin \/ Dispatch) /\ (cmd' = "run" => ~SectionRefused(setting))

\* The commands that ask a model for something fail without a bridge.
FinishOther ==
    /\ cmd # "run" /\ Finish
    /\ cmd = "task" /\ ~raised' => Reachable

Host ==
    /\ \/ Start \/ Probe \/ EnterConfigured \/ LeaveClosing \/ LeaveDone
       \/ ExitClosing \/ Exit
       \/ Spawn \/ SpawnFails \/ Install \/ InstallFails \/ DrainFails
       \/ Shutdown \/ Terminate \/ TerminateFails
       \/ FinishOther
    /\ UNCHANGED runVars

Helper == (Announce \/ DiscoveryFails) /\ UNCHANGED runVars

(***************************************************************************)
(* run_cycles and _run_cycle_with_retry, seen from router and bridge       *)
(***************************************************************************)
StaysInBody == UNCHANGED hostVars

RunEnds(exception) ==
    /\ EndBody(exception)
    /\ UNCHANGED <<bridgeVars, cmd, outer, inner, why, target, lost>>
    /\ UNCHANGED <<setting, cycle, attempt, try, premiumOn, refused, failedOn, stopped>>
    /\ UNCHANGED <<step, decision>>

\* The next cycle begins with a check for Ctrl+C.
NextCycle ==
    IF cycle = Len(setting.scores) THEN RunEnds(FALSE)
    ELSE IF stopped THEN RunEnds(TRUE)
    ELSE /\ step' = "route"
         /\ cycle' = cycle + 1 /\ attempt' = 1 /\ try' = 1
         /\ failedOn' = NoBridge /\ refused' = FALSE
         /\ UNCHANGED <<setting, premiumOn, decision, stopped>>
         /\ StaysInBody

\* _resolve_router
ListModels == InRun("list") /\ Reachable /\ NextCycle

ListingFails == InRun("list") /\ RunEnds(TRUE)

\* Every attempt routes anew, and so does the second try of an implementation.
RouteTask ==
    /\ InRun("route")
    /\ decision' = RouteNow
    /\ step' = "work"
    /\ UNCHANGED <<setting, cycle, attempt, try, premiumOn, refused, failedOn, stopped>>
    /\ StaysInBody

CycleDone == InRun("work") /\ Reachable /\ NextCycle

RaiseInterrupted == InRun("work") /\ Reachable /\ stopped /\ RunEnds(TRUE)

\* _run_implementation_phase: a premium model is not paid for.
BillingFails ==
    /\ InRun("work") /\ Reachable
    /\ decision.used \in PremiumFamilies /\ try = 1
    /\ premiumOn' = FALSE
    /\ try' = 2 /\ step' = "route"
    /\ UNCHANGED <<setting, cycle, attempt, decision, refused, failedOn, stopped>>
    /\ StaysInBody

\* Defect: the failed attempt is not counted against the limit.
AttemptFailsOnceMore ==
    /\ InRun("work") /\ attempt <= MaxAttempts
    /\ refused' \in BOOLEAN
    /\ ~Reachable => refused'
    /\ failedOn' = IF refused' /\ Endpoint # External THEN Endpoint ELSE NoBridge
    /\ step' = "recover"
    /\ UNCHANGED <<setting, cycle, attempt, try, premiumOn, decision, stopped>>
    /\ StaysInBody

\* A transient AgentRunError, and attempts are left.
AttemptFails ==
    /\ InRun("work") /\ attempt < MaxAttempts
    /\ refused' \in BOOLEAN
    /\ ~Reachable => refused'
    /\ failedOn' = IF refused' /\ Endpoint # External THEN Endpoint ELSE NoBridge
    /\ step' = "recover"
    /\ UNCHANGED <<setting, cycle, attempt, try, premiumOn, decision, stopped>>
    /\ StaysInBody

RunFails == InRun("work") /\ RunEnds(TRUE)

\* Defect: the attempts are not counted.
RetryUncounted ==
    /\ step' = "route" /\ try' = 1
    /\ UNCHANGED <<setting, cycle, attempt, premiumOn, decision, refused, failedOn, stopped>>

RetryNow ==
    /\ step' = "route" /\ attempt' = attempt + 1 /\ try' = 1
    /\ UNCHANGED <<setting, cycle, premiumOn, decision, refused, failedOn, stopped>>

\* Defect: only the process is looked at, not the error.
NeedsBridgeIfDead == \E b \in registry : b \notin running

\* _recover_bridge_before_retry with active_managed_bridge().is_alive()
NeedsBridge ==
    \E b \in registry : /\ \A other \in registry : other <= b
                        /\ refused \/ b \notin running

KeepBridge == InRun("recover") /\ ~NeedsBridge /\ RetryNow /\ StaysInBody

ReplaceBridge == InRun("recover") /\ NeedsBridge /\ RetryNow /\ Recover

(***************************************************************************)
(* What happens to the program                                             *)
(***************************************************************************)
\* The handler of RunInterruptController
Sigint ==
    /\ Handled /\ pc \notin {"off", "exited"} /\ ~stopped
    /\ stopped' = TRUE
    /\ UNCHANGED <<setting, step, cycle, attempt, try, premiumOn, decision, refused,
                   failedOn>>
    /\ UNCHANGED hostVars

Environment == (BridgeDies \/ Interrupt) /\ UNCHANGED runVars

-----------------------------------------------------------------------------
RunBody == ListModels \/ ListingFails \/ RouteTask \/ CycleDone \/ RaiseInterrupted
           \/ BillingFails \/ AttemptFails \/ RunFails \/ KeepBridge \/ ReplaceBridge

Exited == pc = "exited" /\ UNCHANGED vars

Next == Host \/ Helper \/ RunBody \/ Sigint \/ Environment \/ Exited

Spec == Init /\ [][Next]_vars

\* The program takes its steps; that the helper prints or ends, that the operator
\* presses Ctrl+C and that a helper dies is not promised.
FairSpec == Spec /\ WF_vars((Host /\ pc # "off") \/ RunBody)

-----------------------------------------------------------------------------
(***************************************************************************)
(* Properties                                                              *)
(***************************************************************************)

\* The variables have their types.
TypeOK ==
    /\ BridgeTypeOK
    /\ setting \in Settings /\ step \in Steps
    /\ cycle \in 0..Len(setting.scores) /\ attempt \in 0..MaxAttempts /\ try \in 0..2
    /\ premiumOn \in BOOLEAN /\ refused \in BOOLEAN /\ stopped \in BOOLEAN
    /\ decision.used \in {"none", "grok", "fable", "opus"}
    /\ failedOn \in Int

\* A retry never talks to the managed bridge that refused the attempt before,
\* unless that bridge was given up on, in a close or a relaunch that failed
\* half-way: whichever way closing it, launching another one and installing the
\* new endpoint fail in between.
RetryAvoidsDeadBridge ==
    (InRun("route") \/ InRun("work")) /\ failedOn # NoBridge
        => Endpoint # failedOn \/ failedOn \in lost

Family == FamilyOf(setting.listing, decision.model)

FamilyOn(family) ==
    premiumOn /\ (IF family = "opus" THEN Configuration.opusOn ELSE Configuration.fableOn)

Named ==
    {Configuration.rules[i].model : i \in DOMAIN Configuration.rules}
    \cup {Configuration.fallback.model, Configuration.fallback.missing, setting.default}

\* Selections the configuration spells out by their id: as a reference, as a tier,
\* or as the default that the built-in bands send unresolved in the last resort.
SpelledOut ==
    {Spelled(setting.ids, text) :
        text \in Ids \cap (Named \cup {Configuration.composerTier, Configuration.grokTier})}
    \cup (IF Configuration.rules = <<>> /\ setting.scores[cycle] > GrokMax
          THEN {RawDefault(setting.default, setting.ids)} ELSE {})

\* After the run met a billing failure of a premium model, and for a family that
\* was switched off, no later attempt or cycle works with a model of that family,
\* unless the configuration names it as the fallback or spells the model out.
PremiumGated ==
    InRun("work") /\ Family \in PremiumFamilies /\ ~FamilyOn(Family)
        => \/ Family \in {Configuration.fallback.model, Configuration.fallback.missing,
                          setting.default}
           \/ decision.model \in SpelledOut

\* The billing retry depends on the flag of the decision: no other model is flagged
\* as premium, and a premium model is, unless the configuration spells out its id.
PremiumRunsAreFlagged ==
    InRun("work") =>
        /\ decision.used \in PremiumFamilies => Family = decision.used
        /\ Family \in PremiumFamilies
              => decision.used = Family \/ decision.model \in SpelledOut

FastRefs(family) ==
    IF family = "composer" THEN {"composer-fast"}
    ELSE IF family = "grok" THEN {"grok-fast"} ELSE {}

FastAsked(family) ==
    \/ family = "composer" /\ Configuration.composerTier = "fast"
    \/ family = "grok" /\ Configuration.grokTier = "fast"
    \/ Named \cap FastRefs(family) # {}

\* A model that may run in fast mode, which costs more, is used only if the tier of
\* its family or a reference asks for it, if the configuration spells it out, or
\* if it has no parameters and the listing offers no variant before it, at least
\* as new, that says fast=false: a variant with parameters is never taken for
\* standard on trust, nor is a bare id preferred to one that says so.
FastOnlyIfAsked ==
    InRun("work") /\ MayBeFast(setting.listing, decision.model)
        => \/ FastAsked(Family)
           \/ decision.model \in SpelledOut
           \/ /\ Silent(setting.listing, decision.model)
              /\ ~StandardListed(setting.listing, decision.model)

\* Every command comes to its end, and with it to the closing of its bridges,
\* however often its bridge dies; only a helper that prints nothing holds it up.
CommandEnds == pc # "off" ~> pc \in {"discover", "exited"}
=============================================================================
