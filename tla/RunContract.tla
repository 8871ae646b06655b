---------------------------- MODULE RunContract ----------------------------
(***************************************************************************)
(* What `cyclopsctl run` promises about the record of verified tasks,      *)
(* whatever happens between the start of a run and its exit code.          *)
(*                                                                         *)
(* A run works on tasks and may keep a record of them.  A resumed run      *)
(* never works on a recorded task and only adds to the record, another run *)
(* replaces it.  Exit code 0 means that the record is complete; any other  *)
(* code, that the record either is complete or was left alone: it is never *)
(* half written, and never changes while a run is at work.                 *)
(***************************************************************************)
EXTENDS Integers

CONSTANT Tasks

VARIABLES
    phase,          \* "idle", "starting" or "working"
    resumed, keeps, \* the run at work skips recorded tasks, keeps the record
    done,           \* what it has verified so far
    recorded,       \* the record
    code            \* the exit code of the last run, NoCode before its end

vars == <<phase, resumed, keeps, done, recorded, code>>

NoCode == -1
ExitCodes == {0, 1, 2, 130, 137}

Init ==
    /\ phase = "idle" /\ code = NoCode
    /\ resumed = FALSE /\ keeps = FALSE /\ done = {} /\ recorded = {}

Invoke ==
    /\ phase = "idle"
    /\ phase' = "starting" /\ code' = NoCode
    /\ UNCHANGED <<resumed, keeps, done, recorded>>

\* The settings or the files do not allow a run, or it is killed at once.
Refuse ==
    /\ phase = "starting"
    /\ phase' = "idle" /\ code' \in ExitCodes \ {0}
    /\ UNCHANGED <<resumed, keeps, done, recorded>>

Begin ==
    /\ phase = "starting"
    /\ phase' = "working"
    /\ resumed' \in BOOLEAN /\ keeps' \in BOOLEAN
    /\ UNCHANGED <<done, recorded, code>>

Verify ==
    /\ phase = "working"
    /\ \E t \in Tasks :
          /\ resumed => t \notin recorded
          /\ done' = done \cup {t}
    /\ UNCHANGED <<phase, resumed, keeps, recorded, code>>

\* The complete record of the run.
Complete ==
    IF ~keeps \/ done = {} THEN recorded
    ELSE IF resumed THEN recorded \cup done
    ELSE done

End ==
    /\ phase = "working"
    /\ phase' = "idle" /\ code' \in ExitCodes
    /\ recorded' \in {recorded, Complete}
    /\ code' = 0 => recorded' = Complete
    /\ resumed' = FALSE /\ keeps' = FALSE /\ done' = {}

Next == Invoke \/ Refuse \/ Begin \/ Verify \/ End

Spec == Init /\ [][Next]_vars
=============================================================================
