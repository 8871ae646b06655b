-------------------------- MODULE TaskQueueProofs --------------------------
(***************************************************************************)
(* What the queue and the handover operators return, for every queue, every*)
(* dependency graph and every handover text.  The theorems about the run   *)
(* loop rest on these facts.                                               *)
(***************************************************************************)
EXTENDS Handover, WellFoundedInduction, TLAPS

NatLess == {p \in Nat \X Nat : p[1] < p[2]}

\* The order by which Lowest picks is well founded.
LEMMA NatLessWellFounded == IsWellFoundedOn(NatLess, Nat)
<1>1. NatLess = OpToRel(<, Nat)
  BY DEF NatLess, OpToRel
<1> QED  BY <1>1, NatLessThanWellFounded, Zenon

\* Every non-empty set of task ids has a least element, so min() is defined.
LEMMA NatMinimum ==
    ASSUME NEW S \in SUBSET Nat, S # {}
    PROVE  \E t \in S : \A u \in S : t <= u
<1>1. PICK t \in S : \A u \in S : ~ (<<u, t>> \in NatLess)
  BY NatLessWellFounded, WFMin, Zenon
<1>2. ASSUME NEW u \in S PROVE t <= u
  <2>1. u \in Nat /\ t \in Nat
    OBVIOUS
  <2>2. u < t => <<u, t>> \in NatLess
    BY <2>1 DEF NatLess
  <2> QED  BY <1>1, <2>1, <2>2
<1> QED  BY <1>2

\* min(eligible) of a non-empty candidate set is a candidate, and the lowest.
LEMMA LowestIsLeast ==
    ASSUME NEW S \in SUBSET Tasks, S # {}
    PROVE  Lowest(S) \in S /\ \A u \in S : Lowest(S) <= u
<1>1. S \in SUBSET Nat
  BY TaskQueueAssumption
<1>2. \E t \in S : \A u \in S : t <= u
  BY <1>1, NatMinimum
<1> QED  BY <1>2 DEF Lowest

\* A lookup is empty or found a task of the candidates.
LEMMA LowestInSet ==
    ASSUME NEW S \in SUBSET Tasks
    PROVE  Lowest(S) \in S \cup {NoTask}
<1>1. CASE S = {}
  BY <1>1 DEF Lowest
<1>2. CASE S # {}
  BY <1>2, LowestIsLeast
<1> QED  BY <1>1, <1>2

\* NoTask is not the id of a task: a lookup that found nothing is told apart
\* from one that found a task.
LEMMA NoTaskIsNoTask == NoTask \notin Tasks
BY TaskQueueAssumption DEF NoTask

\* `tasks next` returns nothing, or a task with status "pending" whose
\* dependencies are all done tasks of the tag.
THEOREM GetNextIsRunnable ==
    ASSUME NEW queue \in Queues, GetNext(queue) # NoTask
    PROVE  /\ GetNext(queue) \in Tasks
           /\ queue[GetNext(queue)] = "pending"
           /\ DependenciesSatisfied(queue, GetNext(queue))
<1> DEFINE S == {t \in Tasks : queue[t] = "pending" /\ DependenciesSatisfied(queue, t)}
<1>1. Lowest(S) \in S \cup {NoTask}
  BY LowestInSet, S \in SUBSET Tasks
<1>2. GetNext(queue) \in S
  BY <1>1 DEF GetNext
<1> QED  BY <1>2

LEMMA GetNextInTasks ==
    ASSUME NEW queue \in Queues
    PROVE  GetNext(queue) \in Tasks \cup {NoTask}
BY GetNextIsRunnable

\* The sequential source returns nothing, or a task that is not done and not
\* excluded.
LEMMA ResolveSequentialInTasks ==
    ASSUME NEW queue \in Queues, NEW exclude
    PROVE  ResolveSequential(queue, exclude) \in ((Tasks \ exclude) \cup {NoTask})
<1> DEFINE S == ListPending(queue) \ exclude
<1>1. S \in SUBSET Tasks /\ S \subseteq Tasks \ exclude
  BY DEF ListPending
<1>2. Lowest(S) \in S \cup {NoTask}
  BY <1>1, LowestInSet
<1> QED  BY <1>1, <1>2 DEF ResolveSequential

\* Selection from the handover returns nothing or a task of the queue, whatever
\* the text of the handover says.
LEMMA ResolveHandoverInTasks ==
    ASSUME NEW queue \in Queues, NEW file, NEW exclude
    PROVE  ResolveHandover(file, queue, exclude) \in Tasks \cup {NoTask}
<1>1. Usable(file, queue) => file.id \in Tasks
  BY DEF Usable, GetById
<1>2. ResolveSequential(queue, exclude) \in Tasks \cup {NoTask}
  BY ResolveSequentialInTasks
<1>3. GetNext(queue) \in Tasks \cup {NoTask}
  BY GetNextInTasks
<1> QED  BY <1>1, <1>2, <1>3 DEF ResolveHandover
=============================================================================
