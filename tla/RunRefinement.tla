--------------------------- MODULE RunRefinement ---------------------------
(***************************************************************************)
(* The run loop implements RunContract: a run is at work from the end of   *)
(* its startup until its process is gone.                                  *)
(***************************************************************************)
EXTENDS RunLoop

AtWork == pc \notin Idle \cup {"startup"}

ContractPhase ==
    IF AtWork THEN "working" ELSE IF pc = "startup" THEN "starting" ELSE "idle"

ContractCode == IF pc = "exited" THEN ExitCode(exc) ELSE -1

Contract == INSTANCE RunContract WITH
    phase    <- ContractPhase,
    resumed  <- AtWork /\ cfg.resume,
    keeps    <- AtWork /\ cfg.history /\ ~cfg.dryRun,
    done     <- IF AtWork THEN outcomes ELSE {},
    recorded <- history.ids,
    code     <- ContractCode

\* Whatever a run goes through (retries, fallbacks, Ctrl+C, errors, crashes, a
\* second run after it), its record of verified tasks changes as RunContract says:
\* at its end and at once, completely if the exit code is 0.
ImplementsContract == Contract!Spec
=============================================================================
