----------------------------- MODULE TaskQueue -----------------------------
(***************************************************************************)
(* The native task queue of one tag, as the run loop sees it.              *)
(*                                                                         *)
(* Source: src/cyclopsctl/tasks/cli.py.  A queue is a function from parent *)
(* task ids to statuses; its operations are pure functions of that state.  *)
(* Titles, priorities, details and subtasks are left out: no control       *)
(* decision of the run loop reads them.  Task ids are positive, so NoTask  *)
(* stands for a lookup that found nothing (NextTaskLookup.empty).          *)
(***************************************************************************)
EXTENDS Integers, FiniteSets

CONSTANTS
    Tasks,      \* the parent task ids of the tag
    Deps        \* task id -> the ids it depends on, known to the tag or not

ASSUME TaskQueueAssumption ==
    /\ Tasks \subseteq Nat \ {0}
    /\ IsFiniteSet(Tasks)
    /\ Deps \in [Tasks -> SUBSET Nat]

NoTask == 0

\* ALLOWED_STATUSES
Status == {"pending", "in-progress", "done", "review", "cancelled",
           "blocked", "deferred"}

Queues == [Tasks -> Status]

\* min(eligible, key=numeric_id), or an empty lookup.
Lowest(S) ==
    IF S = {} THEN NoTask ELSE CHOOSE t \in S : \A u \in S : t <= u

\* The keyword "pending" of `tasks list` means "not done": cancelled, blocked
\* and deferred tasks are listed too.
ListPending(queue) == {t \in Tasks : queue[t] # "done"}

\* A dependency that is not in the tag is never satisfied.
DependenciesSatisfied(queue, t) ==
    \A d \in Deps[t] : d \in Tasks /\ queue[d] = "done"

\* `tasks next`: status exactly "pending", every dependency done, lowest id.
GetNext(queue) ==
    Lowest({t \in Tasks : queue[t] = "pending" /\ DependenciesSatisfied(queue, t)})

\* `tasks show`, as a lookup.
GetById(id) == IF id \in Tasks THEN id ELSE NoTask

SetStatus(queue, t, s) == [queue EXCEPT ![t] = s]
=============================================================================
