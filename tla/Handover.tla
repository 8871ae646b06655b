------------------------------ MODULE Handover ------------------------------
(***************************************************************************)
(* What the run loop reads from current-handover-prompt.md, and every      *)
(* decision it takes on it: task selection (task_selection.py), alignment  *)
(* (alignment.py) and the checks after the update phase (verify.py).       *)
(*                                                                         *)
(* A handover file is a record: "id" is the number of its `# Task ID:`     *)
(* marker (NoMarker when there is none) and "rev" tells apart texts that   *)
(* carry the same marker, as the hash of the normalized text does.         *)
(***************************************************************************)
EXTENDS TaskQueue

CONSTANTS
    Contents    \* the handover texts that may be found on disk

NoMarker == -1
QUEUE_COMPLETE_TASK_ID == 0

\* snapshot_handover(allow_missing=True) of a file that is not there.
Missing == [id |-> NoMarker, rev |-> 0]

Handovers == Contents \cup {Missing}

ASSUME HandoverAssumption == Contents \subseteq [id : Nat \cup {NoMarker}, rev : Nat \ {0}]

(***************************************************************************)
(* Task selection                                                          *)
(***************************************************************************)

\* snapshot_handover raises PromptError.
SnapshotFails(file, allowMissing) == file = Missing /\ ~allowMissing

\* handover_selection_fallback_reason is None.
Usable(file, queue) ==
    /\ file # Missing
    /\ file.id > QUEUE_COMPLETE_TASK_ID
    /\ GetById(file.id) # NoTask
    /\ queue[file.id] = "pending"

ResolveSequential(queue, exclude) == Lowest(ListPending(queue) \ exclude)

\* Defect: the marker is followed without a look at the queue.
ResolveMarkerOnly(file, queue, exclude) ==
    IF file.id \notin exclude THEN file.id ELSE ResolveSequential(queue, exclude)

\* The last resort, `tasks next`, takes no account of the excluded ids.
ResolveHandover(file, queue, exclude) ==
    IF Usable(file, queue) /\ file.id \notin exclude
    THEN file.id
    ELSE IF ResolveSequential(queue, exclude) # NoTask
         THEN ResolveSequential(queue, exclude)
         ELSE GetNext(queue)

\* _resolve_pinned_task raises TaskSelectionError.
PinFails(pinned, queue) == ~(GetById(pinned) # NoTask /\ queue[pinned] = "pending")

(***************************************************************************)
(* Alignment: strict mode compares marker and selected task                *)
(***************************************************************************)

\* Defect: only a marker behind the selected task is a mismatch.
AlignmentRaisesIfBehind(file, selected, strict, skip) ==
    strict /\ ~skip /\ file # Missing /\ file.id # NoMarker /\ file.id < selected

AlignmentRaises(file, selected, strict, skip) ==
    /\ strict /\ ~skip
    /\ file # Missing
    /\ file.id # NoMarker
    /\ file.id # selected

(***************************************************************************)
(* Verification after the update phase                                     *)
(***************************************************************************)

\* _secondary_next_suggests_different_task
SecondaryNextDiffers(before, queue) ==
    GetNext(queue) = NoTask \/ GetNext(queue) # before.id

\* Defects: an unchanged text passes when the queue moved on; a text without
\* marker passes.
AdvancedWithQueue(before, after, queue) ==
    /\ after # Missing /\ after.id # NoMarker
    /\ before = Missing \/ after.id # before.id \/ SecondaryNextDiffers(before, queue)

AdvancedWithoutMarker(before, after, queue) == after # Missing /\ after # before

\* read_post_update_snapshot and verify_handover_advanced return normally.
HandoverAdvanced(before, after, queue) ==
    /\ after # Missing
    /\ after.id # NoMarker
    /\ \/ before = Missing
       \/ after.id # before.id
       \/ after # before /\ SecondaryNextDiffers(before, queue)

\* ai-context.md: "large" has at least 80 lines, "small" fewer than 60% of a
\* large one, and both carry the protected sections; "gutted" has lost one.
AiContextStates == {"missing", "large", "small", "gutted"}

\* verify_ai_context_after_update returns normally.
AiContextIntact(before, after, required) ==
    \/ after = "missing" /\ before = "missing" /\ ~required
    \/ after \in {"large", "small"} /\ ~(before = "large" /\ after = "small")
=============================================================================
