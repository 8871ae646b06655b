------------------------- MODULE ProjectSetupProofs -------------------------
(***************************************************************************)
(* Type correctness of the setup commands, and that no command loses work, *)
(* for every set of tags, PRD texts, task lists and every number of        *)
(* commands.                                                               *)
(***************************************************************************)
EXTENDS ProjectSetup, FiniteSetTheorems, WellFoundedInduction, TLAPS

NatLess == {p \in Nat \X Nat : p[1] < p[2]}

\* Every non-empty set of numbers has a least one.
LEMMA NatMinimum ==
    ASSUME NEW S \in SUBSET Nat, S # {}
    PROVE  \E m \in S : \A n \in S : m <= n
<1>1. NatLess = OpToRel(<, Nat)
  BY DEF NatLess, OpToRel
<1>2. IsWellFoundedOn(NatLess, Nat)
  BY <1>1, NatLessThanWellFounded, Zenon
<1>3. PICK m \in S : \A n \in S : ~ (<<n, m>> \in NatLess)
  BY <1>2, WFMin, Zenon
<1>4. ASSUME NEW n \in S PROVE m <= n
  <2>1. n < m => <<n, m>> \in NatLess
    BY DEF NatLess
  <2> QED  BY <1>3, <2>1
<1> QED  BY <1>4

\* Every finite, non-empty set of numbers has a greatest one: the least size of
\* a set without one would be the size of a set with one more element.
LEMMA FiniteMaximum ==
    ASSUME NEW S \in SUBSET Nat, IsFiniteSet(S), S # {}
    PROVE  \E m \in S : \A n \in S : n <= m
<1> DEFINE Bad(R) == /\ R \in SUBSET Nat /\ IsFiniteSet(R) /\ R # {}
                     /\ ~ \E m \in R : \A n \in R : n <= m
           Sizes == {k \in Nat : \E R \in SUBSET Nat : Bad(R) /\ Cardinality(R) = k}
<1>1. SUFFICES ASSUME Bad(S) PROVE FALSE
  OBVIOUS
<1>2. Cardinality(S) \in Sizes
  BY <1>1, FS_CardinalityType
<1>3. PICK k \in Sizes : \A j \in Sizes : k <= j
  <2>1. Sizes \in SUBSET Nat /\ Sizes # {}
    BY <1>2
  <2> HIDE DEF Sizes
  <2> QED  BY <2>1, NatMinimum
<1>4. PICK R \in SUBSET Nat : Bad(R) /\ Cardinality(R) = k
  BY <1>3
<1>5. PICK x \in R : TRUE
  BY <1>4
<1>6. IsFiniteSet(R \ {x}) /\ Cardinality(R \ {x}) = k - 1
  BY <1>4, <1>5, FS_RemoveElement, Zenon
<1>7. k \in Nat /\ k - 1 \in Nat
  BY <1>3, <1>6, FS_CardinalityType
<1>8. k - 1 \notin Sizes
  BY <1>3, <1>7
<1>9. ~ Bad(R \ {x})
  BY <1>6, <1>7, <1>8
<1>10. CASE R \ {x} = {}
  <2>1. \A n \in R : n <= x
    BY <1>5, <1>10
  <2> QED  BY <2>1, <1>4, <1>5
<1>11. CASE R \ {x} # {}
  <2>1. PICK m \in R \ {x} : \A n \in R \ {x} : n <= m
    BY <1>4, <1>6, <1>9, <1>11
  <2>2. CASE x <= m
    BY <2>1, <2>2, <1>4
  <2>3. CASE ~ (x <= m)
    <3>1. \A n \in R : n <= x
      BY <2>1, <2>3, <1>4, <1>5
    <3> QED  BY <3>1, <1>4, <1>5
  <2> QED  BY <2>2, <2>3
<1> QED  BY <1>10, <1>11

(* queues *)

\* The image of a finite set is finite.
LEMMA ImageFinite ==
    ASSUME NEW S, IsFiniteSet(S), NEW T, NEW f \in [S -> T]
    PROVE  IsFiniteSet({f[x] : x \in S})
<1>1. f \in Surjection(S, {f[x] : x \in S})
  BY DEF Surjection
<1> QED  BY <1>1, FS_Surjection, Zenon

\* The ids of a queue are finitely many numbers.
LEMMA IdsFinite ==
    ASSUME NEW q, IsQueue(q)
    PROVE  IsFiniteSet(Ids(q)) /\ Ids(q) \subseteq Nat \ {0}
<1> DEFINE f == [t \in q |-> t.id]
<1>1. f \in [q -> Nat]
  BY DEF IsQueue, Task
<1>2. Ids(q) = {f[t] : t \in q}
  BY DEF Ids
<1>3. Ids(q) \subseteq Nat \ {0}
  BY DEF Ids, IsQueue, Task
<1> HIDE DEF f
<1>4. IsFiniteSet({f[t] : t \in q})
  BY <1>1, ImageFinite DEF IsQueue
<1> QED  BY <1>2, <1>3, <1>4

\* What append adds to the new ids is the greatest id there is.
LEMMA HighestIdBounds ==
    ASSUME NEW q, IsQueue(q), q # {}
    PROVE  /\ HighestId(q) \in Nat
           /\ \A t \in q : t.id <= HighestId(q)
<1>1. Ids(q) # {} /\ \A t \in q : t.id \in Ids(q)
  BY DEF Ids
<1>2. \E i \in Ids(q) : \A j \in Ids(q) : j <= i
  BY <1>1, IdsFinite, FiniteMaximum
<1>3. HighestId(q) \in Ids(q) /\ \A j \in Ids(q) : j <= HighestId(q)
  BY <1>2 DEF HighestId
<1> QED  BY <1>1, <1>3, IdsFinite

\* What a model returns becomes a queue with one task for each id.
LEMMA ParsedTasksQueue ==
    ASSUME NEW plan \in Plans, NEW s \in Texts
    PROVE  IsQueue(ParsedTasks(plan, s)) /\ UniqueIds(ParsedTasks(plan, s))
<1> DEFINE task(i) == [id |-> i, deps |-> plan[i].deps, status |-> plan[i].status,
                       text |-> s, score |-> IF plan[i].complexity THEN s ELSE NoText]
           f == [i \in DOMAIN plan |-> task(i)]
<1> DEFINE Item == [deps : SUBSET Nat, status : STRING, complexity : BOOLEAN]
<1>1. plan \in Seq(Item)
  BY DataAssumption
<1>2. /\ DOMAIN plan = 1..Len(plan) /\ Len(plan) \in Nat
      /\ \A i \in DOMAIN plan : plan[i] \in Item
  <2> HIDE DEF Item
  <2> QED  BY <1>1
<1>3. \A i \in DOMAIN plan : task(i) \in Task
  <2> TAKE i \in DOMAIN plan
  <2>1. plan[i] \in Item /\ i \in Nat \ {0}
    BY <1>2
  <2> QED  BY <2>1 DEF Task
<1>4. ParsedTasks(plan, s) = {f[i] : i \in DOMAIN plan}
  BY DEF ParsedTasks
<1>5. f \in [DOMAIN plan -> Task]
  BY <1>3
<1>6. IsFiniteSet(DOMAIN plan)
  BY <1>2, FS_Interval
<1>7. ParsedTasks(plan, s) \subseteq Task
  BY <1>4, <1>5
<1>8. UniqueIds(ParsedTasks(plan, s))
  BY DEF UniqueIds, ParsedTasks
<1> HIDE DEF f
<1>9. IsFiniteSet({f[i] : i \in DOMAIN plan})
  BY <1>5, <1>6, ImageFinite
<1> QED  BY <1>4, <1>7, <1>8, <1>9 DEF IsQueue

\* --append gives every new task an id no task has, and keeps the old tasks.
LEMMA AppendedQueue ==
    ASSUME NEW q, IsQueue(q), UniqueIds(q), NEW new, IsQueue(new), UniqueIds(new)
    PROVE  /\ IsQueue(RemapForAppend(q, new)) /\ UniqueIds(RemapForAppend(q, new))
           /\ q \subseteq RemapForAppend(q, new)
<1>1. CASE q = {}
  BY <1>1 DEF RemapForAppend
<1>2. CASE q # {}
  <2> DEFINE k == HighestId(q)
             moved == {Shifted(t, k, Ids(new)) : t \in new}
             f == [t \in new |-> Shifted(t, k, Ids(new))]
  <2>1. k \in Nat /\ \A t \in q : t.id <= k
    BY <1>2, HighestIdBounds
  <2>2. RemapForAppend(q, new) = q \cup moved
    BY <1>2 DEF RemapForAppend
  <2> HIDE DEF k
  <2>3. \A t \in new : /\ Shifted(t, k, Ids(new)) \in Task
                       /\ Shifted(t, k, Ids(new)).id = t.id + k
    <3> TAKE t \in new
    <3>1. t \in Task
      BY DEF IsQueue
    <3>2. {IF d \in Ids(new) THEN d + k ELSE d : d \in t.deps} \in SUBSET Nat
      BY <2>1, <3>1 DEF Task
    <3>3. t.id + k \in Nat \ {0}
      BY <2>1, <3>1 DEF Task
    <3> QED  BY <3>1, <3>2, <3>3 DEF Shifted, Task
  <2>4. IsFiniteSet(moved) /\ moved \subseteq Task
    <3>1. f \in [new -> Task] /\ moved = {f[t] : t \in new}
      BY <2>3
    <3>2. moved \subseteq Task
      BY <2>3
    <3> HIDE DEF f, moved
    <3> QED  BY <3>1, <3>2, ImageFinite DEF IsQueue
  <2>5. IsQueue(q \cup moved)
    BY <2>4, FS_Union DEF IsQueue
  <2>6. \A u \in moved : u.id > k
    BY <2>1, <2>3 DEF IsQueue, Task
  <2>7. \A u, v \in moved : u.id = v.id => u = v
    <3> TAKE u, v \in moved
    <3>1. PICK x \in new : u = Shifted(x, k, Ids(new))
      OBVIOUS
    <3>2. PICK y \in new : v = Shifted(y, k, Ids(new))
      OBVIOUS
    <3>3. u.id = x.id + k /\ v.id = y.id + k
      BY <2>3, <3>1, <3>2
    <3>4. x.id \in Nat /\ y.id \in Nat
      BY DEF IsQueue, Task
    <3>5. u.id = v.id => x.id = y.id
      BY <2>1, <3>3, <3>4
    <3> QED  BY <3>1, <3>2, <3>5 DEF UniqueIds
  <2>8. UniqueIds(q \cup moved)
    <3>1. \A t \in q : t.id \in Nat
      BY DEF IsQueue, Task
    <3>2. \A u \in moved : u.id \in Nat
      BY <2>4 DEF Task
    <3> HIDE DEF moved
    <3>3. \A t \in q, u \in moved : t.id # u.id
      BY <2>1, <2>6, <3>1, <3>2
    <3> QED  BY <2>7, <3>3 DEF UniqueIds
  <2> QED  BY <2>2, <2>5, <2>8
<1> QED  BY <1>1, <1>2

\* Changing what is neither id nor dependency leaves a queue well formed.
LEMMA RetouchedQueue ==
    ASSUME NEW q, IsQueue(q), WellFormed(q), NEW f \in [q -> Task],
           \A t \in q : f[t].id = t.id /\ f[t].deps = t.deps
    PROVE  IsQueue({f[t] : t \in q}) /\ WellFormed({f[t] : t \in q})
<1> DEFINE r == {f[t] : t \in q}
<1>1. IsFiniteSet(r) /\ r \subseteq Task
  <2>1. IsFiniteSet(q)
    BY DEF IsQueue
  <2>2. f \in [q -> Task]
    OBVIOUS
  <2>3. IsFiniteSet({f[t] : t \in q})
    BY ONLY <2>1, <2>2, ImageFinite
  <2>4. r \subseteq Task
    OBVIOUS
  <2> QED  BY <2>3, <2>4
<1>2. UniqueIds(r)
  BY DEF WellFormed, UniqueIds
<1>3. Ids(r) = Ids(q)
  BY DEF Ids
<1>4. ~ Circular(r)
  <2> SUFFICES ASSUME Circular(r) PROVE FALSE
    OBVIOUS
  <2>1. PICK S \in (SUBSET Ids(q)) \ {{}} : \A t \in r : t.id \in S => t.deps \cap S # {}
    BY <1>3 DEF Circular
  <2>2. \A t \in q : t.id \in S => t.deps \cap S # {}
    <3> TAKE t \in q
    <3>1. f[t] \in r
      OBVIOUS
    <3> HIDE DEF r
    <3> QED  BY <2>1, <3>1
  <2> QED  BY <2>1, <2>2 DEF WellFormed, Circular
<1> QED  BY <1>1, <1>2, <1>4 DEF IsQueue, WellFormed

\* `tasks set-status` keeps a queue well formed.
LEMMA SetTaskStatusQueue ==
    ASSUME NEW q, IsQueue(q), WellFormed(q), NEW i, NEW s \in Statuses
    PROVE  IsQueue(SetTaskStatus(q, i, s)) /\ WellFormed(SetTaskStatus(q, i, s))
<1> DEFINE f == [t \in q |-> IF t.id = i THEN [t EXCEPT !.status = s] ELSE t]
<1>1. s \in STRING
  BY DataAssumption
<1>2. f \in [q -> Task] /\ \A t \in q : f[t].id = t.id /\ f[t].deps = t.deps
  BY <1>1 DEF IsQueue, Task
<1>3. SetTaskStatus(q, i, s) = {f[t] : t \in q}
  BY DEF SetTaskStatus
<1> HIDE DEF f
<1> QED  BY <1>2, <1>3, RetouchedQueue

\* Scores keep a queue well formed and every task with its status.
LEMMA BackfillQueue ==
    ASSUME NEW q, IsQueue(q), WellFormed(q),
           NEW a, a \subseteq [id : Nat \ {0}, text : Texts]
    PROVE  /\ IsQueue(BackfillComplexity(q, a)) /\ WellFormed(BackfillComplexity(q, a))
           /\ Work(q) \subseteq Work(BackfillComplexity(q, a))
<1> DEFINE score(t) == (CHOOSE b \in a : b.id = t.id).text
           f == [t \in q |-> IF \E b \in a : b.id = t.id
                             THEN [t EXCEPT !.score = score(t)] ELSE t]
<1>1. \A t \in q : (\E b \in a : b.id = t.id) => score(t) \in Texts
  <2> TAKE t \in q
  <2> HAVE \E b \in a : b.id = t.id
  <2>1. (CHOOSE b \in a : b.id = t.id) \in a
    OBVIOUS
  <2> QED  BY <2>1
<1> HIDE DEF score
<1>2. f \in [q -> Task]
  BY <1>1 DEF IsQueue, Task
<1>3. \A t \in q : /\ f[t].id = t.id /\ f[t].deps = t.deps
                   /\ f[t].status = t.status /\ f[t].text = t.text
  BY DEF IsQueue, Task
<1>4. BackfillComplexity(q, a) = {f[t] : t \in q}
  BY DEF BackfillComplexity, score
<1> HIDE DEF f
<1>5. Work(q) \subseteq Work({f[t] : t \in q})
  BY <1>3 DEF Work
<1> QED  BY <1>2, <1>3, <1>4, <1>5, RetouchedQueue

(* documents *)

Sound(d) == IsDocument(d) /\ \A t \in DOMAIN d : WellFormed(d[t])

\* Saving one well-formed queue keeps the document sound and all other tags.
LEMMA SavedDocument ==
    ASSUME NEW d, Sound(d), NEW t \in Tags, NEW q, IsQueue(q), WellFormed(q)
    PROVE  /\ Sound(SaveTagTasks(d, t, q))
           /\ DOMAIN SaveTagTasks(d, t, q) = DOMAIN d \cup {t}
           /\ SaveTagTasks(d, t, q)[t] = q
           /\ \A u \in DOMAIN d \ {t} : SaveTagTasks(d, t, q)[u] = d[u]
BY DEF Sound, IsDocument, SaveTagTasks

\* The empty queue is well formed.
LEMMA EmptyQueue == IsQueue({}) /\ WellFormed({})
<1>1. IsQueue({})
  BY FS_EmptySet DEF IsQueue
<1>2. Ids({}) = {}
  BY DEF Ids
<1>3. ~ Circular({})
  <2>1. (SUBSET {}) \ {{}} = {}
    OBVIOUS
  <2> QED  BY <1>2, <2>1 DEF Circular
<1>4. UniqueIds({})
  BY DEF UniqueIds
<1> QED  BY <1>1, <1>3, <1>4 DEF WellFormed

(***************************************************************************)
(* The inductive invariant.  A command resolves its tag more than once, so *)
(* what a step reads was named by an earlier one: while the model works,   *)
(* the operator may have switched the current tag, but only to one that    *)
(* has a queue.                                                            *)
(***************************************************************************)

Resolved ==
    /\ tag \in DOMAIN document \cup {DEFAULT_TAG}
    /\ pc = "parse" =>
           Effective(cmd.tag, tag) \in DOMAIN document \cup {target} /\ text \in Texts
    /\ (\/ pc \in {"record", "analyze", "scoring", "backfill", "rerecord", "sync"}
        \/ pc = "prepare" /\ ~cmd.parse) =>
           Effective(cmd.tag, tag) \in DOMAIN document
    /\ pc \in {"useTag", "scoring", "backfill"} => target \in DOMAIN document
    /\ pc = "prepare" => cmd.kind = "init"
    /\ (pc \in {"addTag", "parse", "record", "final"} \/ cmd.kind = "launch") => target \in Tags

SetupInv == TypeOK /\ QueuesWellFormed /\ Resolved

\* In a state of the invariant the document is sound.
LEMMA DocumentSound == SetupInv => Sound(document)
BY DEF SetupInv, TypeOK, FilesOK, QueuesWellFormed, Sound

\* The tag a command works on is a tag.
LEMMA EffectiveTag ==
    ASSUME NEW named \in Tags \cup {NoTag}, NEW default \in Tags
    PROVE  Effective(named, default) \in Tags
BY DEF Effective

\* Initially the invariant holds.
LEMMA SetupInvInit == Init => SetupInv
<1> SUFFICES ASSUME Init PROVE SetupInv
  OBVIOUS
<1>1. FilesOK
  BY ProjectSetupAssumption, DataAssumption DEF Init, FilesOK
<1>2. CommandOK
  BY ProjectSetupAssumption
     DEF Init, CommandOK, NoCommand, Kinds, PCs, Idle
<1>3. QueuesWellFormed
  BY DataAssumption DEF Init, QueuesWellFormed
<1>4. Resolved
  BY DEF Init, Resolved, NoCommand
<1> QED  BY <1>1, <1>2, <1>3, <1>4 DEF SetupInv, TypeOK

\* Whatever is saved, the document stays sound and has every tag it had.
LEMMA DocumentStep ==
    ASSUME SetupInv, Next
    PROVE  Sound(document') /\ DOMAIN document \subseteq DOMAIN document'
<1>1. Sound(document)
  BY DocumentSound
<1>0. ASSUME NEW t \in Tags, NEW q, IsQueue(q), WellFormed(q),
             document' = SaveTagTasks(document, t, q)
      PROVE  Sound(document') /\ DOMAIN document \subseteq DOMAIN document'
  <2>1. /\ Sound(SaveTagTasks(document, t, q))
        /\ DOMAIN SaveTagTasks(document, t, q) = DOMAIN document \cup {t}
    BY <1>1, <1>0, SavedDocument
  <2> QED  BY <1>0, <2>1
<1>2. CASE AddLaunchTag
  <2>1. target \in Tags
    BY <1>2 DEF AddLaunchTag, SetupInv, Resolved
  <2>2. CASE target \in DOMAIN document
    BY <1>1, <1>2, <2>2 DEF AddLaunchTag, AddTag
  <2>3. CASE target \notin DOMAIN document
    <3> DEFINE q == IF tag \in DOMAIN document THEN document[tag] ELSE {}
    <3>1. IsQueue(q) /\ WellFormed(q)
      BY <1>1, EmptyQueue DEF Sound, IsDocument
    <3>2. document' = SaveTagTasks(document, target, q)
      BY <1>2, <2>3 DEF AddLaunchTag, AddTag
    <3> HIDE DEF q
    <3> QED  BY <1>1, <2>1, <3>1, <3>2, <1>0
  <2> QED  BY <2>2, <2>3
<1>3. CASE \E plan \in Plans : ParseReturns(plan)
  <2>1. PICK plan \in Plans : ParseReturns(plan)
    BY <1>3
  <2> DEFINE new == ParsedTasks(plan, text)
  <2>2. target \in Tags /\ text \in Texts
    BY <2>1 DEF ParseReturns, SetupInv, Resolved
  <2>3. IsQueue(new) /\ UniqueIds(new)
    BY <2>2, ParsedTasksQueue
  <2>4. IsQueue(Existing) /\ UniqueIds(Existing)
    BY <1>1, EmptyQueue DEF Existing, Sound, IsDocument, WellFormed
  <2>5. /\ document' = SaveTagTasks(document, target, NewQueue(new))
        /\ ~ Circular(NewQueue(new))
    BY <2>1 DEF ParseReturns, Accepted
  <2> HIDE DEF new
  <2>6. IsQueue(NewQueue(new)) /\ UniqueIds(NewQueue(new))
    BY <2>3, <2>4, AppendedQueue DEF NewQueue
  <2>7. WellFormed(NewQueue(new))
    BY <2>5, <2>6 DEF WellFormed
  <2> QED  BY <2>2, <2>5, <2>6, <2>7, <1>0
<1>4. CASE Backfill
  <2>1. target \in DOMAIN document
    BY <1>4 DEF Backfill, SetupInv, Resolved
  <2>2. Analysis \subseteq [id : Nat \ {0}, text : Texts]
    BY DEF Analysis, SetupInv, TypeOK, CommandOK, Task
  <2>3. IsQueue(ScoredQueue(target)) /\ WellFormed(ScoredQueue(target))
    BY <1>1, <2>1, <2>2, BackfillQueue DEF ScoredQueue, Sound, IsDocument
  <2>4. target \in Tags
    BY <1>1, <2>1 DEF Sound, IsDocument
  <2> QED  BY <1>4, <2>3, <2>4, <1>0 DEF Backfill
<1>5. CASE SetStatus
  <2>1. PICK t \in DOMAIN document, s \in Statuses :
            \E i \in Ids(document[t]) :
                document' = SaveTagTasks(document, t, SetTaskStatus(document[t], i, s))
    BY <1>5 DEF SetStatus
  <2>4. PICK i \in Ids(document[t]) :
            document' = SaveTagTasks(document, t, SetTaskStatus(document[t], i, s))
    BY <2>1
  <2>2. IsQueue(SetTaskStatus(document[t], i, s)) /\ WellFormed(SetTaskStatus(document[t], i, s))
    BY <1>1, SetTaskStatusQueue DEF Sound, IsDocument
  <2>3. t \in Tags
    BY <1>1 DEF Sound, IsDocument
  <2> QED  BY <2>2, <2>3, <2>4, <1>0
<1>6. CASE UNCHANGED document
  BY <1>1, <1>6
<1> QED
  BY <1>2, <1>3, <1>4, <1>5, <1>6
     DEF Next, Commands, Steps, Operator, StartInit, LaunchBackfillsRecord, StartLaunch,
         StartBootstrap, StartAnalyze, StartSync, UseLaunchTag, PrepareInit,
         BeginPreparedParse, RecordParse, BeginAnalysis, AnalysisReturns, RecordInit,
         SyncHandover, RecordLaunch, Stop, EditPrd, UseTag, Settled, files, vars

\* The record backfilled from the queues there are names one of their tags.
LEMMA BackfilledRecord ==
    ASSUME TypeOK, NEW named, BackfillRecord(named)
    PROVE  record' \in {NoRecord} \cup [text : Texts, tag : Tags]
<1>1. CASE record = NoRecord /\ prd # NoText /\ WithTasks # {}
  <2>1. WithTasks \subseteq Tags /\ WithTasks \in SUBSET Nat
    BY ProjectSetupAssumption DEF WithTasks
  <2>2. \E t \in WithTasks : \A u \in WithTasks : t <= u
    BY <1>1, <2>1, NatMinimum
  <2>3. (CHOOSE t \in WithTasks : \A u \in WithTasks : t <= u) \in WithTasks
    BY <2>2
  <2>4. BackfillTag(named) \in WithTasks
    BY <2>3 DEF BackfillTag
  <2>5. prd \in Texts
    BY <1>1 DEF TypeOK, FilesOK
  <2> QED  BY <1>1, <2>1, <2>4, <2>5 DEF BackfillRecord
<1>2. CASE ~ (record = NoRecord /\ prd # NoText /\ WithTasks # {})
  BY <1>2 DEF BackfillRecord, TypeOK, FilesOK
<1> QED  BY <1>1, <1>2

\* The handover names a task of the queue, or is the template.
LEMMA HandoverTyped ==
    ASSUME NEW q \in SUBSET Task
    PROVE  HandoverFor(NextTask(q)) \in {Template} \cup [id : Nat \ {0}, text : Texts]
<1>1. NextTask(q) \subseteq Task
  BY DEF NextTask, Eligible
<1>2. CASE NextTask(q) = {}
  BY <1>2 DEF HandoverFor
<1>3. CASE NextTask(q) # {}
  <2> DEFINE t == CHOOSE u \in NextTask(q) : TRUE
  <2>1. t \in Task
    BY <1>1, <1>3
  <2>2. HandoverFor(NextTask(q)) = [id |-> t.id, text |-> t.text]
    BY <1>3 DEF HandoverFor
  <2> HIDE DEF t
  <2> QED  BY <2>1, <2>2 DEF Task
<1> QED  BY <1>2, <1>3

\* Every step keeps the files well typed.
LEMMA FilesOKStep ==
    ASSUME SetupInv, Next
    PROVE  FilesOK'
<1>1. /\ FilesOK /\ CommandOK /\ Resolved
      /\ IsDocument(document')
  BY DocumentStep DEF SetupInv, TypeOK, Sound
<1>2. prd' \in Texts \cup {NoText} /\ scaffold' \in BOOLEAN
  BY <1>1 DEF FilesOK, Next, Commands, Steps, Operator, StartInit, LaunchBackfillsRecord,
              StartLaunch, StartBootstrap, StartAnalyze, StartSync, AddLaunchTag,
              UseLaunchTag, PrepareInit, BeginPreparedParse, ParseReturns, RecordParse,
              BeginAnalysis, AnalysisReturns, Backfill, RecordInit, SyncHandover,
              RecordLaunch, Stop, EditPrd, UseTag, SetStatus, Settled, files, vars
<1>3. tag' \in Tags
  <2>1. CASE UseLaunchTag
    BY <1>1, <2>1 DEF UseLaunchTag, Resolved, FilesOK, IsDocument
  <2>2. CASE UseTag
    BY <1>1, <2>2 DEF UseTag, FilesOK, IsDocument
  <2>3. CASE UNCHANGED tag
    BY <1>1, <2>3 DEF FilesOK
  <2> QED
    BY <2>1, <2>2, <2>3
       DEF Next, Commands, Steps, Operator, StartInit, LaunchBackfillsRecord, StartLaunch,
           StartBootstrap, StartAnalyze, StartSync, AddLaunchTag, PrepareInit,
           BeginPreparedParse, ParseReturns, RecordParse, BeginAnalysis, AnalysisReturns,
           Backfill, RecordInit, SyncHandover, RecordLaunch, Stop, EditPrd, SetStatus,
           Settled, files, vars
<1>4. report' \subseteq [id : Nat \ {0}, text : Texts]
  <2>1. CASE AnalysisReturns
    BY <1>1, <2>1 DEF AnalysisReturns, Analysis, CommandOK, Task
  <2>2. CASE UNCHANGED report
    BY <1>1, <2>2 DEF FilesOK
  <2> QED
    BY <2>1, <2>2
       DEF Next, Commands, Steps, Operator, StartInit, LaunchBackfillsRecord, StartLaunch,
           StartBootstrap, StartAnalyze, StartSync, AddLaunchTag, UseLaunchTag,
           PrepareInit, BeginPreparedParse, ParseReturns, RecordParse, BeginAnalysis,
           Backfill, RecordInit, SyncHandover, RecordLaunch, Stop, EditPrd, UseTag,
           SetStatus, Settled, files, vars
<1>5. handover' \in {NoHandover, Template} \cup [id : Nat \ {0}, text : Texts]
  <2>1. CASE \E named \in Tags \cup {NoTag} : StartInit(named)
    BY <1>1, <2>1 DEF StartInit, FilesOK
  <2>2. CASE SyncHandover
    <3>1. Effective(cmd.tag, tag) \in DOMAIN document
      BY <1>1, <2>2 DEF SyncHandover, Resolved
    <3>2. Loaded \in SUBSET Task
      BY <1>1, <3>1 DEF Loaded, FilesOK, IsDocument, IsQueue
    <3>3. handover' \in {handover, HandoverFor(NextTask(Loaded))}
      BY <2>2 DEF SyncHandover
    <3> QED  BY <1>1, <3>2, <3>3, HandoverTyped DEF FilesOK
  <2>3. CASE UNCHANGED handover
    BY <1>1, <2>3 DEF FilesOK
  <2> QED
    BY <2>1, <2>2, <2>3
       DEF Next, Commands, Steps, Operator, LaunchBackfillsRecord, StartLaunch,
           StartBootstrap, StartAnalyze, StartSync, AddLaunchTag, UseLaunchTag,
           PrepareInit, BeginPreparedParse, ParseReturns, RecordParse, BeginAnalysis,
           AnalysisReturns, Backfill, RecordInit, RecordLaunch, Stop, EditPrd, UseTag,
           SetStatus, Settled, files, vars
<1>6. record' \in {NoRecord} \cup [text : Texts, tag : Tags]
  <2>0. CASE PrepareInit
    <3>1. UNCHANGED record \/ BackfillRecord(Effective(cmd.tag, DEFAULT_TAG))
      BY <2>0 DEF PrepareInit
    <3> QED  BY <1>1, <3>1, BackfilledRecord DEF SetupInv, FilesOK
  <2>1. ASSUME NEW named \in Tags \cup {NoTag}, LaunchBackfillsRecord(named)
        PROVE  record' \in {NoRecord} \cup [text : Texts, tag : Tags]
    BY <2>1, BackfilledRecord DEF LaunchBackfillsRecord, SetupInv
  <2>2. ASSUME NEW t \in Tags, WriteRecord(t)
        PROVE  record' \in {NoRecord} \cup [text : Texts, tag : Tags]
    BY <1>1, <2>2 DEF WriteRecord, FilesOK
  <2>3. CASE RecordParse
    BY <1>1, <2>2, <2>3 DEF RecordParse, Resolved
  <2>4. CASE RecordInit
    <3>1. Effective(cmd.tag, DEFAULT_TAG) \in Tags
      BY <1>1, ProjectSetupAssumption DEF CommandOK, Effective
    <3> QED  BY <2>2, <2>4, <3>1 DEF RecordInit
  <2>5. CASE RecordLaunch
    <3>1. target \in Tags
      BY <1>1, <2>5 DEF RecordLaunch, Resolved
    <3> QED  BY <2>2, <2>5, <3>1 DEF RecordLaunch
  <2>6. CASE UNCHANGED record
    BY <1>1, <2>6 DEF FilesOK
  <2> QED
    BY <2>0, <2>1, <2>3, <2>4, <2>5, <2>6
       DEF Next, Commands, Steps, Operator, StartInit, StartLaunch, StartBootstrap,
           StartAnalyze, StartSync, AddLaunchTag, UseLaunchTag, BeginPreparedParse, ParseReturns,
           BeginAnalysis, AnalysisReturns, Backfill, SyncHandover, Stop, EditPrd, UseTag,
           SetStatus, Settled, files, vars
<1> QED  BY <1>1, <1>2, <1>3, <1>4, <1>5, <1>6 DEF FilesOK

\* Every step keeps the state of the command well typed.
LEMMA CommandOKStep ==
    ASSUME SetupInv, Next
    PROVE  CommandOK'
<1>1. FilesOK /\ CommandOK /\ Resolved
  BY DEF SetupInv, TypeOK
<1>2. pc' \in PCs
  BY <1>1
     DEF Next, Commands, Steps, Operator, StartInit, LaunchBackfillsRecord, StartLaunch,
         StartBootstrap, StartAnalyze, StartSync, AddLaunchTag, UseLaunchTag, PrepareInit,
         BeginPreparedParse, ParseReturns, RecordParse, BeginAnalysis, AnalysisReturns,
         Backfill, RecordInit, SyncHandover, RecordLaunch, Stop, EditPrd, UseTag,
         SetStatus, Settled, Start, BeginParse, SkipParse, Disturbs, files, locals, vars,
         CommandOK, PCs, Idle, AfterAnalysis
<1>3. commands' \in 0..MaxCommands
  <2>1. CASE UNCHANGED commands
    BY <1>1, <2>1 DEF CommandOK
  <2>2. CASE commands < MaxCommands /\ commands' = commands + 1
    BY <1>1, <2>2, ProjectSetupAssumption DEF CommandOK
  <2> QED
    BY <2>1, <2>2
       DEF Next, Commands, Steps, Operator, StartInit, LaunchBackfillsRecord, StartLaunch,
           StartBootstrap, StartAnalyze, StartSync, AddLaunchTag, UseLaunchTag,
           PrepareInit, BeginPreparedParse, ParseReturns, RecordParse, BeginAnalysis,
           AnalysisReturns, Backfill, RecordInit, SyncHandover, RecordLaunch, Stop,
           EditPrd, UseTag, SetStatus, Settled, Start, BeginParse, SkipParse, Disturbs,
           files, locals, vars
<1>4. edits' \in 0..MaxEdits
  <2>1. CASE UNCHANGED edits
    BY <1>1, <2>1 DEF CommandOK
  <2>2. CASE edits < MaxEdits /\ edits' = edits + 1
    BY <1>1, <2>2, ProjectSetupAssumption DEF CommandOK
  <2> QED
    BY <2>1, <2>2
       DEF Next, Commands, Steps, Operator, StartInit, LaunchBackfillsRecord, StartLaunch,
           StartBootstrap, StartAnalyze, StartSync, AddLaunchTag, UseLaunchTag,
           PrepareInit, BeginPreparedParse, ParseReturns, RecordParse, BeginAnalysis,
           AnalysisReturns, Backfill, RecordInit, SyncHandover, RecordLaunch, Stop,
           EditPrd, UseTag, SetStatus, Settled, Start, BeginParse, SkipParse, Disturbs,
           files, locals, vars
<1> DEFINE Cmd == [kind : Kinds, tag : Tags \cup {NoTag}, append : BOOLEAN,
                    parse : BOOLEAN, analyze : {"always", "missing", "never"}]
<1>5. cmd' \in Cmd
  <2>1. CASE cmd' = cmd \/ cmd' = NoCommand
    <3>1. NoCommand \in Cmd
      BY DEF NoCommand, Kinds
    <3>2. cmd \in Cmd
      BY <1>1, Zenon DEF CommandOK
    <3> QED  BY <2>1, <3>1, <3>2, Zenon
  <2>2. ASSUME NEW named \in Tags \cup {NoTag}, StartInit(named) PROVE cmd' \in Cmd
    <3>1. (~ HasTasks(document, Effective(named, DEFAULT_TAG))) \in BOOLEAN
      OBVIOUS
    <3> QED  BY <2>2, <3>1, Zenon DEF StartInit, Start, Kinds
  <2>3. ASSUME NEW new \in Tags, StartLaunch(new) PROVE cmd' \in Cmd
    BY <2>3 DEF StartLaunch, Start, Kinds
  <2>4. ASSUME NEW named \in Tags \cup {NoTag}, NEW append \in BOOLEAN,
               NEW analyze \in {"missing", "never"}, StartBootstrap(named, append, analyze)
        PROVE  cmd' \in Cmd
    BY <2>4 DEF StartBootstrap, Start, Kinds
  <2>5. ASSUME NEW named \in Tags \cup {NoTag}, NEW analyze \in {"always", "missing"},
               StartAnalyze(named, analyze) \/ StartSync(named)
        PROVE  cmd' \in Cmd
    BY <2>5 DEF StartAnalyze, StartSync, Start, NoCommand, Kinds
  <2> HIDE DEF Cmd
  <2> QED
    BY <2>1, <2>2, <2>3, <2>4, <2>5
       DEF Next, Commands, Steps, Operator, LaunchBackfillsRecord, AddLaunchTag,
           UseLaunchTag, PrepareInit, BeginPreparedParse, ParseReturns, RecordParse,
           BeginAnalysis, AnalysisReturns, Backfill, RecordInit, SyncHandover,
           RecordLaunch, Stop, EditPrd, UseTag, SetStatus, Settled, Start, Disturbs,
           locals, vars
<1>6. target' \in Tags \cup {NoTag} /\ text' \in Texts \cup {NoText} /\ calm' \in BOOLEAN
  BY <1>1
     DEF Next, Commands, Steps, Operator, StartInit, LaunchBackfillsRecord, StartLaunch,
         StartBootstrap, StartAnalyze, StartSync, AddLaunchTag, UseLaunchTag, PrepareInit,
         BeginPreparedParse, ParseReturns, RecordParse, BeginAnalysis, AnalysisReturns,
         Backfill, RecordInit, SyncHandover, RecordLaunch, Stop, EditPrd, UseTag,
         SetStatus, Settled, Start, BeginParse, SkipParse, Disturbs, files, locals, vars,
         CommandOK, FilesOK, Effective
<1>7. scored' \subseteq Task
  <2>1. CASE BeginAnalysis
    <3>1. Effective(cmd.tag, tag) \in DOMAIN document
      BY <1>1, <2>1 DEF BeginAnalysis, Resolved
    <3>2. Pending(Loaded) \subseteq Task
      BY <1>1, <3>1 DEF Loaded, Pending, FilesOK, IsDocument, IsQueue
    <3> QED  BY <1>1, <2>1, <3>2 DEF BeginAnalysis, CommandOK
  <2>2. CASE scored' = {} \/ UNCHANGED scored
    BY <1>1, <2>2 DEF CommandOK
  <2> QED
    BY <2>1, <2>2
       DEF Next, Commands, Steps, Operator, StartInit, LaunchBackfillsRecord, StartLaunch,
           StartBootstrap, StartAnalyze, StartSync, AddLaunchTag, UseLaunchTag,
           PrepareInit, BeginPreparedParse, ParseReturns, RecordParse, AnalysisReturns,
           Backfill, RecordInit, SyncHandover, RecordLaunch, Stop, EditPrd, UseTag,
           SetStatus, Settled, Start, BeginParse, SkipParse, Disturbs, files, locals, vars
<1> QED  BY <1>2, <1>3, <1>4, <1>5, <1>6, <1>7 DEF CommandOK

\* Every step keeps the tags of the command resolved.
LEMMA ResolvedStep ==
    ASSUME SetupInv, Next
    PROVE  Resolved'
<1>1. FilesOK /\ CommandOK /\ Resolved /\ DOMAIN document \subseteq DOMAIN document'
  BY DocumentStep DEF SetupInv, TypeOK
<1>2. ASSUME UNCHANGED <<tag, pc, cmd, target, text>>
      PROVE  Resolved'
  BY <1>1, <1>2 DEF Resolved, Effective
<1>3. ASSUME NEW named \in Tags \cup {NoTag}, StartInit(named) PROVE Resolved'
  <2>1. cmd'.parse \/ HasTasks(document, Effective(named, DEFAULT_TAG))
    BY <1>3 DEF StartInit, Start
  <2>2. /\ cmd'.tag = named /\ cmd'.kind = "init" /\ pc' = "prepare"
        /\ UNCHANGED <<document, tag>>
    BY <1>3 DEF StartInit, Start
  <2> QED  BY <1>1, <2>1, <2>2 DEF Resolved, Effective, HasTasks
<1>4. ASSUME NEW named \in Tags \cup {NoTag}, LaunchBackfillsRecord(named) PROVE Resolved'
  BY <1>1, <1>4 DEF LaunchBackfillsRecord, Start, NoCommand, Resolved
<1>5. ASSUME NEW new \in Tags, StartLaunch(new) PROVE Resolved'
  BY <1>1, <1>5 DEF StartLaunch, Start, files, Resolved
<1>6. ASSUME NEW named \in Tags \cup {NoTag}, NEW append \in BOOLEAN,
             NEW analyze \in {"missing", "never"}, StartBootstrap(named, append, analyze)
      PROVE  Resolved'
  BY <1>1, <1>6, EffectiveTag
     DEF StartBootstrap, Start, BeginParse, files, Resolved, Effective, FilesOK
<1>7. ASSUME NEW named \in Tags \cup {NoTag}, NEW analyze \in {"always", "missing"},
             StartAnalyze(named, analyze) \/ StartSync(named)
      PROVE  Resolved'
  BY <1>1, <1>7 DEF StartAnalyze, StartSync, Start, SkipParse, NoCommand, files, Resolved
<1>8. CASE AddLaunchTag
  BY <1>1, <1>8 DEF AddLaunchTag, AddTag, SaveTagTasks, locals, Resolved
<1>9. CASE UseLaunchTag
  BY <1>1, <1>9 DEF UseLaunchTag, locals, Resolved
<1>10. CASE BeginPreparedParse
  <2>1. target' \in Tags /\ text' \in Texts
    BY <1>1, <1>10, EffectiveTag DEF BeginPreparedParse, BeginParse, FilesOK, CommandOK
  <2> QED  BY <1>1, <1>10, <2>1 DEF BeginPreparedParse, BeginParse, files, Resolved
<1>11. ASSUME NEW plan \in Plans, ParseReturns(plan) PROVE Resolved'
  BY <1>1, <1>11 DEF ParseReturns, SaveTagTasks, locals, Resolved
<1>12. CASE RecordParse
  BY <1>1, <1>12 DEF RecordParse, locals, Resolved
<1>13. CASE BeginAnalysis
  <2>1. Effective(cmd.tag, tag) \in DOMAIN document
    BY <1>1, <1>13 DEF BeginAnalysis, Resolved
  <2>2. Effective(cmd.tag, tag) \in Tags
    BY <1>1, <2>1 DEF FilesOK, IsDocument
  <2> QED
    BY <1>1, <1>13, <2>1, <2>2 DEF BeginAnalysis, AfterAnalysis, files, Resolved
<1>14. CASE AnalysisReturns \/ Backfill
  BY <1>1, <1>14
     DEF AnalysisReturns, Backfill, AfterAnalysis, SaveTagTasks, locals, Resolved
<1>15. CASE RecordInit \/ SyncHandover \/ RecordLaunch
  BY <1>1, <1>15 DEF RecordInit, SyncHandover, RecordLaunch, locals, Resolved
<1>16. CASE Stop
  BY <1>1, <1>16 DEF Stop, NoCommand, files, Resolved
<1>17. CASE UseTag
  BY <1>1, <1>17 DEF UseTag, Disturbs, locals, Resolved, Effective
<1>18. CASE EditPrd \/ SetStatus \/ Settled
  BY <1>2, <1>18 DEF EditPrd, SetStatus, Settled, Disturbs, files, locals, vars
<1>19. CASE PrepareInit
  <2>1. UNCHANGED <<cmd, tag, document>> /\ cmd.kind = "init" /\ pc = "prepare"
    BY <1>19, <1>1 DEF PrepareInit, Resolved
  <2>2. CASE cmd.parse
    <3>1. pc' = "begin"
      BY <1>19, <2>2 DEF PrepareInit
    <3> QED  BY <1>1, <2>1, <3>1 DEF Resolved
  <2>3. CASE ~cmd.parse
    <3>1. pc' = "analyze"
      BY <1>19, <2>3 DEF PrepareInit, SkipParse
    <3>2. Effective(cmd.tag, tag) \in DOMAIN document
      BY <1>1, <2>1, <2>3 DEF Resolved
    <3>3. Effective(cmd'.tag, tag') \in DOMAIN document'
      BY <2>1, <3>2
    <3> QED  BY <1>1, <2>1, <3>1, <3>3 DEF Resolved
  <2> QED  BY <2>2, <2>3
<1> QED
  BY <1>3, <1>4, <1>5, <1>6, <1>7, <1>8, <1>9, <1>10, <1>11, <1>12, <1>13, <1>14, <1>15,
     <1>16, <1>17, <1>18, <1>19 DEF Next, Commands, Steps, Operator

\* The invariant is inductive.
LEMMA SetupInvStep == SetupInv /\ [Next]_vars => SetupInv'
<1> SUFFICES ASSUME SetupInv, [Next]_vars PROVE SetupInv'
  OBVIOUS
<1>1. CASE Next
  <2>1. FilesOK' /\ CommandOK' /\ Resolved'
    BY <1>1, FilesOKStep, CommandOKStep, ResolvedStep
  <2>2. QueuesWellFormed'
    BY <1>1, DocumentStep DEF Sound, QueuesWellFormed
  <2> QED  BY <2>1, <2>2 DEF SetupInv, TypeOK
<1>2. CASE UNCHANGED vars
  BY <1>2 DEF vars, files, locals, SetupInv, TypeOK, FilesOK, CommandOK,
              QueuesWellFormed, Resolved
<1> QED  BY <1>1, <1>2

\* Type correctness, for every set of tags and PRD texts and every list of tasks
\* a model may return: no command writes a record or a handover that names what
\* does not exist, whenever it is stopped and whatever the operator does meanwhile.
THEOREM TypeCorrect == Spec => []TypeOK
<1>1. SetupInv => TypeOK
  BY DEF SetupInv
<1> QED  BY <1>1, SetupInvInit, SetupInvStep, PTL DEF Spec

\* No tag ever has two tasks with one id or a cycle of dependencies, whatever the
\* models return, append numbers or the operator sets.
THEOREM QueuesStayWellFormed == Spec => []QueuesWellFormed
<1>1. SetupInv => QueuesWellFormed
  BY DEF SetupInv
<1> QED  BY <1>1, SetupInvInit, SetupInvStep, PTL DEF Spec

\* If something is pending and `tasks next` gives nothing, some pending task waits
\* for an id the queue does not have, or for a task that is neither pending nor
\* done.  For lack of a cycle some pending task waits for no pending one.
Stuck(q) == (\E t \in q : t.status = "pending") /\ NextTask(q) = {}

StuckForAReason(q) ==
    \E t \in q : /\ t.status = "pending"
                 /\ \E d \in t.deps :
                       \/ d \notin Ids(q)
                       \/ \E u \in q : u.id = d /\ u.status \notin {"pending", DONE_STATUS}

\* If any task can be started, `tasks next` gives one.
LEMMA EligibleIsNext ==
    ASSUME NEW q, IsQueue(q), Eligible(q) # {}
    PROVE  NextTask(q) # {}
<1>1. Ids(Eligible(q)) \in SUBSET Nat /\ Ids(Eligible(q)) # {}
  BY DEF Ids, Eligible, IsQueue, Task
<1>2. PICK m \in Ids(Eligible(q)) : \A n \in Ids(Eligible(q)) : m <= n
  BY <1>1, NatMinimum
<1>3. PICK t \in Eligible(q) : t.id = m
  BY <1>2 DEF Ids
<1>4. \A u \in Eligible(q) : u.id \in Ids(Eligible(q))
  BY DEF Ids
<1> QED  BY <1>2, <1>3, <1>4 DEF NextTask

\* A well-formed queue is stuck for no other reason.
LEMMA WellFormedMoves ==
    ASSUME NEW q, IsQueue(q), WellFormed(q), Stuck(q)
    PROVE  StuckForAReason(q)
<1> DEFINE S == {i \in Ids(q) : \E t \in q : t.id = i /\ t.status = "pending"}
<1>1. S \in (SUBSET Ids(q)) \ {{}}
  BY DEF Stuck, Ids
<1>2. PICK t \in q : t.id \in S /\ t.deps \cap S = {}
  BY <1>1 DEF WellFormed, Circular
<1>3. t.status = "pending"
  BY <1>2 DEF WellFormed, UniqueIds
<1>4. \A u \in q : u.id \in t.deps => u.status # "pending"
  BY <1>2 DEF Ids
<1>5. SUFFICES ASSUME ~ StuckForAReason(q) PROVE FALSE
  OBVIOUS
<1>6. ASSUME NEW d \in t.deps PROVE \E u \in q : u.id = d /\ u.status = DONE_STATUS
  <2>1. PICK u \in q : u.id = d
    BY <1>3, <1>5 DEF StuckForAReason, Ids
  <2>2. u.status \in {"pending", DONE_STATUS}
    BY <2>1, <1>3, <1>5 DEF StuckForAReason
  <2> QED  BY <2>1, <2>2, <1>4
<1>7. t \in Eligible(q)
  BY <1>3, <1>6 DEF Eligible, Satisfied
<1> QED  BY <1>7, EligibleIsNext DEF Stuck

\* Whatever models returned and whatever was appended: while a tag has pending
\* tasks, `tasks next` gives one of them, unless a task waits for an id that is not
\* there (no save checks that) or for one the operator has put aside.
THEOREM QueuesKeepMoving ==
    Spec => [](\A t \in DOMAIN document : Stuck(document[t]) => StuckForAReason(document[t]))
<1>1. SetupInv => \A t \in DOMAIN document :
                      Stuck(document[t]) => StuckForAReason(document[t])
  BY DocumentSound, WellFormedMoves DEF Sound, IsDocument
<1> QED  BY <1>1, SetupInvInit, SetupInvStep, PTL DEF Spec

\* Append, analysis and the saves for other tags lose no task and no status.
LEMMA WorkKeptStep ==
    ASSUME SetupInv, Next, CommandStep, NEW t \in DOMAIN document
    PROVE  \/ pc = "parse" /\ ~cmd.append /\ t = target
           \/ t \in DOMAIN document' /\ Work(document[t]) \subseteq Work(document'[t])
<1>1. Sound(document) /\ Resolved
  BY DocumentSound DEF SetupInv
<1>2. CASE UNCHANGED document
  BY <1>2
<1>3. ASSUME document'[t] = document[t], t \in DOMAIN document'
      PROVE  t \in DOMAIN document' /\ Work(document[t]) \subseteq Work(document'[t])
  BY <1>3
<1>4. CASE AddLaunchTag
  <2>1. document'[t] = document[t] /\ t \in DOMAIN document'
    BY <1>4 DEF AddLaunchTag, AddTag, SaveTagTasks
  <2> QED  BY <1>3, <2>1
<1>5. ASSUME NEW plan \in Plans, ParseReturns(plan)
      PROVE  \/ pc = "parse" /\ ~cmd.append /\ t = target
             \/ t \in DOMAIN document' /\ Work(document[t]) \subseteq Work(document'[t])
  <2> DEFINE new == ParsedTasks(plan, text)
  <2>1. CASE t # target
    <3>1. document'[t] = document[t] /\ t \in DOMAIN document'
      BY <1>5, <2>1 DEF ParseReturns, SaveTagTasks
    <3> QED  BY <1>3, <3>1
  <2>2. CASE t = target /\ ~cmd.append
    BY <1>5, <2>2 DEF ParseReturns
  <2>3. CASE t = target /\ cmd.append
    <3>1. document'[t] = RemapForAppend(document[t], new) /\ t \in DOMAIN document'
      BY <1>5, <2>3 DEF ParseReturns, SaveTagTasks, NewQueue, Existing
    <3>2. document[t] \subseteq RemapForAppend(document[t], new)
      BY DEF RemapForAppend
    <3> HIDE DEF new
    <3> QED  BY <3>1, <3>2 DEF Work
  <2> QED  BY <2>1, <2>2, <2>3
<1>6. CASE Backfill
  <2>1. CASE t # target
    <3>1. document'[t] = document[t] /\ t \in DOMAIN document'
      BY <1>6, <2>1 DEF Backfill, SaveTagTasks
    <3> QED  BY <1>3, <3>1
  <2>2. CASE t = target
    <3>1. document'[t] = BackfillComplexity(document[t], Analysis) /\ t \in DOMAIN document'
      BY <1>6, <2>2 DEF Backfill, SaveTagTasks, ScoredQueue
    <3>2. Analysis \subseteq [id : Nat \ {0}, text : Texts]
      BY DEF Analysis, SetupInv, TypeOK, CommandOK, Task
    <3>3. IsQueue(document[t]) /\ WellFormed(document[t])
      BY <1>1 DEF Sound, IsDocument
    <3> QED  BY <3>1, <3>2, <3>3, BackfillQueue
  <2> QED  BY <2>1, <2>2
<1>7. ~ SetStatus
  BY DEF CommandStep, SetStatus, Disturbs
<1> QED
  BY <1>2, <1>4, <1>5, <1>6, <1>7
     DEF Next, Commands, Steps, Operator, StartInit, LaunchBackfillsRecord, StartLaunch,
         StartBootstrap, StartAnalyze, StartSync, UseLaunchTag, PrepareInit,
         BeginPreparedParse, RecordParse, BeginAnalysis, AnalysisReturns, RecordInit,
         SyncHandover, RecordLaunch, Stop, EditPrd, UseTag, Settled, files, vars

\* No command loses a task or a status of any tag, except that a parse without
\* --append replaces its own queue: not by saving one tag of many, not by numbering
\* anew, and not by writing back what it read before the model answered.
THEOREM WorkIsKept == Spec => WorkKept
<1>1. SetupInv /\ [Next]_vars =>
          [CommandStep =>
              \A t \in DOMAIN document :
                  \/ pc = "parse" /\ ~cmd.append /\ t = target
                  \/ t \in DOMAIN document' /\ Work(document[t]) \subseteq Work(document'[t])]_vars
  BY WorkKeptStep
<1> QED  BY <1>1, SetupInvInit, SetupInvStep, PTL DEF Spec, WorkKept

(***************************************************************************)
(* Scores.  Between the call of the model and the save of its answer only  *)
(* statuses change: the tasks that were sent are still those of their ids. *)
(***************************************************************************)

Judging ==
    pc \in {"scoring", "backfill"} =>
        \A t \in scored : \A u \in document[target] : u.id = t.id => u.text = t.text

ScoresInv == ScoresFit /\ Judging

\* What parse, append and set-status make of a queue has no score that was given
\* to another task.
LEMMA QueueScores ==
    /\ \A plan, s : ScoredAsJudged(ParsedTasks(plan, s))
    /\ \A q, new : ScoredAsJudged(q) /\ ScoredAsJudged(new)
                       => ScoredAsJudged(RemapForAppend(q, new))
    /\ \A q, i, s : q \subseteq Task /\ ScoredAsJudged(q)
                       => ScoredAsJudged(SetTaskStatus(q, i, s))
<1>1. ASSUME NEW plan, NEW s PROVE ScoredAsJudged(ParsedTasks(plan, s))
  BY DEF ScoredAsJudged, ParsedTasks
<1>2. ASSUME NEW q, NEW new, ScoredAsJudged(q), ScoredAsJudged(new)
      PROVE  ScoredAsJudged(RemapForAppend(q, new))
  <2>1. \A t \in new : /\ Shifted(t, HighestId(q), Ids(new)).text = t.text
                       /\ Shifted(t, HighestId(q), Ids(new)).score = t.score
    BY DEF Shifted
  <2> QED  BY <1>2, <2>1 DEF ScoredAsJudged, RemapForAppend
<1>3. ASSUME NEW q, NEW i, NEW s, q \subseteq Task, ScoredAsJudged(q)
      PROVE  ScoredAsJudged(SetTaskStatus(q, i, s))
  BY <1>3 DEF ScoredAsJudged, SetTaskStatus, Task
<1> QED  BY <1>1, <1>2, <1>3

\* Initially the documents the first command may find are as assumed.
LEMMA ScoresInvInit == Init => ScoresInv
BY DataAssumption DEF Init, ScoresInv, ScoresFit, Judging

\* A step that changes one queue keeps the scores of all if it keeps those of
\* that one.
LEMMA ScoresSaved ==
    ASSUME ScoresFit, NEW t, NEW q, ScoredAsJudged(q),
           document' = SaveTagTasks(document, t, q)
    PROVE  ScoresFit'
BY DEF ScoresFit, SaveTagTasks

\* The answer of the model, written into the queue as it is by then.
LEMMA ScoresBackfilled ==
    ASSUME SetupInv, ScoresInv, Backfill
    PROVE  ScoresFit'
<1>1. /\ target \in DOMAIN document /\ document[target] \subseteq Task
      /\ ScoredAsJudged(document[target])
      /\ \A t \in scored : \A u \in document[target] : u.id = t.id => u.text = t.text
  BY DEF SetupInv, TypeOK, FilesOK, Resolved, Backfill, IsDocument, IsQueue, ScoresInv,
         ScoresFit, Judging
<1>2. \A u \in document[target] :
          (\E a \in Analysis : a.id = u.id)
              => (CHOOSE a \in Analysis : a.id = u.id).text = u.text
  <2> TAKE u \in document[target]
  <2> HAVE \E a \in Analysis : a.id = u.id
  <2> DEFINE b == CHOOSE a \in Analysis : a.id = u.id
  <2>1. b \in Analysis /\ b.id = u.id
    OBVIOUS
  <2> HIDE DEF b
  <2>2. PICK t \in scored : b = [id |-> t.id, text |-> t.text]
    BY <2>1 DEF Analysis
  <2>3. b.text = u.text
    BY <1>1, <2>1, <2>2
  <2> QED  BY <2>3 DEF b
<1>3. ScoredAsJudged(ScoredQueue(target))
  BY <1>1, <1>2 DEF ScoredAsJudged, ScoredQueue, BackfillComplexity, Task
<1> QED  BY <1>3, ScoresSaved DEF Backfill, ScoresInv

\* Every step keeps the scores where they belong.
LEMMA ScoresFitStep ==
    ASSUME SetupInv, ScoresInv, Next
    PROVE  ScoresFit'
<1>1. ScoresFit
  BY DEF ScoresInv
<1>2. CASE UNCHANGED document
  BY <1>1, <1>2 DEF ScoresFit
<1>3. CASE AddLaunchTag
  <2>1. ScoredAsJudged({})
    BY DEF ScoredAsJudged
  <2> QED
    BY <1>1, <1>3, <2>1 DEF AddLaunchTag, AddTag, SaveTagTasks, ScoresFit
<1>4. ASSUME NEW plan \in Plans, ParseReturns(plan) PROVE ScoresFit'
  <2>1. ScoredAsJudged({})
    BY DEF ScoredAsJudged
  <2>2. ScoredAsJudged(Existing)
    BY <1>1, <2>1 DEF Existing, ScoresFit
  <2>3. ScoredAsJudged(NewQueue(ParsedTasks(plan, text)))
    BY <2>2, QueueScores DEF NewQueue
  <2> QED  BY <1>1, <1>4, <2>3, ScoresSaved DEF ParseReturns
<1>5. CASE Backfill
  BY <1>5, ScoresBackfilled
<1>6. CASE SetStatus
  <2>0. PICK t \in DOMAIN document, s \in Statuses :
            \E i : document' = SaveTagTasks(document, t, SetTaskStatus(document[t], i, s))
    BY <1>6 DEF SetStatus
  <2>1. PICK i : document' = SaveTagTasks(document, t, SetTaskStatus(document[t], i, s))
    BY <2>0
  <2>2. document[t] \subseteq Task /\ ScoredAsJudged(document[t])
    BY <1>1 DEF ScoresFit, SetupInv, TypeOK, FilesOK, IsDocument, IsQueue
  <2>3. ScoredAsJudged(SetTaskStatus(document[t], i, s))
    BY <2>2, QueueScores
  <2> QED  BY <1>1, <2>1, <2>3, ScoresSaved
<1> QED
  BY <1>2, <1>3, <1>4, <1>5, <1>6
     DEF Next, Commands, Steps, Operator, StartInit, LaunchBackfillsRecord, StartLaunch,
         StartBootstrap, StartAnalyze, StartSync, UseLaunchTag, PrepareInit,
         BeginPreparedParse, RecordParse, BeginAnalysis, AnalysisReturns, RecordInit,
         SyncHandover, RecordLaunch, Stop, EditPrd, UseTag, Settled, files, vars

\* Every step keeps what was sent to the model in line with the queue.
LEMMA JudgingStep ==
    ASSUME SetupInv, ScoresInv, Next
    PROVE  Judging'
<1>1. CASE pc' \notin {"scoring", "backfill"}
  BY <1>1 DEF Judging
<1>2. CASE UNCHANGED <<document, target, scored, pc>>
  BY <1>2 DEF ScoresInv, Judging
<1>3. CASE BeginAnalysis
  <2>1. CASE pc' = "scoring" /\ target' = Effective(cmd.tag, tag) /\ scored' = Pending(Loaded)
             /\ UNCHANGED document
    <3>1. Effective(cmd.tag, tag) \in DOMAIN document
      BY <1>3 DEF BeginAnalysis, SetupInv, Resolved
    <3>2. UniqueIds(Loaded)
      BY <3>1, DocumentSound DEF Loaded, Sound, WellFormed
    <3>3. document'[target'] = Loaded /\ scored' \subseteq Loaded
      BY <2>1 DEF Loaded, Pending
    <3> QED  BY <3>2, <3>3 DEF Judging, UniqueIds
  <2>2. CASE pc' = AfterAnalysis
    BY <2>2 DEF AfterAnalysis, Judging
  <2> QED  BY <1>3, <2>1, <2>2 DEF BeginAnalysis, files
<1>4. CASE AnalysisReturns
  BY <1>4 DEF AnalysisReturns, locals, ScoresInv, Judging
<1>5. CASE Backfill
  BY <1>1, <1>5 DEF Backfill, AfterAnalysis
<1>6. CASE SetStatus
  <2>0. PICK t \in DOMAIN document, s \in Statuses :
            \E i : document' = SaveTagTasks(document, t, SetTaskStatus(document[t], i, s))
    BY <1>6 DEF SetStatus
  <2>1. PICK i : document' = SaveTagTasks(document, t, SetTaskStatus(document[t], i, s))
    BY <2>0
  <2>2. UNCHANGED <<pc, target, scored>>
    BY <1>6 DEF SetStatus, Disturbs, locals
  <2>3. CASE t = target
    <3>1. document[t] \subseteq Task
      BY DEF SetupInv, TypeOK, FilesOK, IsDocument, IsQueue
    <3>2. document'[target] = SetTaskStatus(document[target], i, s)
      BY <2>1, <2>3 DEF SaveTagTasks
    <3>3. \A u \in document'[target] :
              \E v \in document[target] : u.id = v.id /\ u.text = v.text
      BY <2>3, <3>1, <3>2 DEF SetTaskStatus, Task
    <3> QED  BY <2>2, <3>3 DEF ScoresInv, Judging
  <2>4. CASE t # target
    <3>1. pc \in {"scoring", "backfill"} => document'[target] = document[target]
      BY <2>1, <2>4 DEF SaveTagTasks, SetupInv, Resolved
    <3> QED  BY <2>2, <3>1 DEF ScoresInv, Judging
  <2> QED  BY <2>3, <2>4
<1>7. CASE Commands
  BY <1>1, <1>7
     DEF Commands, StartInit, LaunchBackfillsRecord, StartLaunch, StartBootstrap,
         StartAnalyze, StartSync, BeginParse, SkipParse
<1>8. CASE \/ PrepareInit \/ AddLaunchTag \/ UseLaunchTag \/ BeginPreparedParse
           \/ RecordParse \/ RecordInit \/ SyncHandover \/ RecordLaunch \/ Stop
           \/ \E plan \in Plans : ParseReturns(plan)
  BY <1>1, <1>8
     DEF PrepareInit, SkipParse, AddLaunchTag, UseLaunchTag, BeginPreparedParse, BeginParse,
         RecordParse, RecordInit, SyncHandover, RecordLaunch, Stop, ParseReturns
<1>9. CASE EditPrd \/ UseTag \/ Settled
  BY <1>2, <1>9 DEF EditPrd, UseTag, Settled, Disturbs, files, locals, vars
<1> QED
  BY <1>3, <1>4, <1>5, <1>6, <1>7, <1>8, <1>9 DEF Next, Steps, Operator

\* A complexity in the queue was given to the very task that has it: ids repeat
\* from tag to tag, the model takes its time, and the operator may switch tags
\* and set statuses meanwhile.  One command runs at a time: what a second one would
\* make of the queue meanwhile is not claimed.
THEOREM ScoresAlwaysFit == Spec => []ScoresFit
<1>1. SetupInv /\ ScoresInv /\ [Next]_vars => ScoresInv'
  <2>1. UNCHANGED vars /\ ScoresInv => ScoresInv'
    BY DEF vars, files, locals, ScoresInv, ScoresFit, Judging
  <2> QED  BY <2>1, ScoresFitStep, JudgingStep DEF ScoresInv
<1>2. ScoresInv => ScoresFit
  BY DEF ScoresInv
<1> QED  BY <1>1, <1>2, SetupInvInit, SetupInvStep, ScoresInvInit, PTL DEF Spec

(***************************************************************************)
(* Replaced queues.  The guard of bootstrap is evaluated before the model  *)
(* is called; what it found still holds when the answer is saved.          *)
(***************************************************************************)

Guarded ==
    \/ record = NoRecord \/ text = record.text
    \/ ~HasTasks(document, target)
    \/ cmd.tag = NoTag /\ ~HasTasks(document, record.tag)

ReparseInv ==
    /\ pc \in {"addTag", "useTag"} => cmd.kind = "launch"
    /\ pc = "begin" => cmd.kind \in {"launch", "init"}
    /\ (pc = "parse" /\ cmd.kind = "bootstrap" /\ ~cmd.append) => Guarded

\* Initially no command is under way.
LEMMA ReparseInvInit == Init => ReparseInv
BY DEF Init, ReparseInv

\* Setting a status neither empties nor fills a queue.
LEMMA StatusKeepsTasks ==
    ASSUME SetStatus, NEW t
    PROVE  HasTasks(document, t) <=> HasTasks(document', t)
<1>0. PICK u \in DOMAIN document, s \in Statuses :
          \E i : document' = SaveTagTasks(document, u, SetTaskStatus(document[u], i, s))
  BY DEF SetStatus
<1>1. PICK i : document' = SaveTagTasks(document, u, SetTaskStatus(document[u], i, s))
  BY <1>0
<1>2. document[u] = {} <=> SetTaskStatus(document[u], i, s) = {}
  BY DEF SetTaskStatus
<1> QED  BY <1>1, <1>2 DEF SaveTagTasks, HasTasks

\* The guard of bootstrap, for a tag that is given and for one that is not.
LEMMA BootstrapGuarded ==
    ASSUME SetupInv, NEW named \in Tags \cup {NoTag}, NEW append \in BOOLEAN,
           NEW analyze, StartBootstrap(named, append, analyze)
    PROVE  ReparseInv'
<1>1. /\ pc' = "parse" /\ cmd'.append = append /\ cmd'.tag = named
      /\ target' = Effective(named, tag) /\ text' = prd
      /\ UNCHANGED <<document, record>>
  BY DEF StartBootstrap, Start, BeginParse, files
<1>2. append \/ \/ record = NoRecord \/ prd = record.text
                \/ ~HasTasks(document, Effective(named, record.tag))
  BY DEF StartBootstrap, ReparseRefused
<1>3. append \/ Guarded'
  BY <1>1, <1>2 DEF Guarded, Effective
<1> QED  BY <1>1, <1>3 DEF ReparseInv

\* Every step keeps it.
LEMMA ReparseInvStep == SetupInv /\ ReparseInv /\ [Next]_vars => ReparseInv'
<1> SUFFICES ASSUME SetupInv, ReparseInv, [Next]_vars PROVE ReparseInv'
  OBVIOUS
<1>1. CASE pc' \notin {"addTag", "useTag", "begin", "parse"}
  BY <1>1 DEF ReparseInv
<1>2. CASE UNCHANGED <<document, record, text, target, pc, cmd>>
  BY <1>2 DEF ReparseInv, Guarded
<1>3. ASSUME NEW named \in Tags \cup {NoTag}, StartInit(named) PROVE ReparseInv'
  BY <1>3 DEF StartInit, Start, ReparseInv
<1>4. ASSUME NEW named \in Tags \cup {NoTag},
             \/ LaunchBackfillsRecord(named) \/ StartSync(named)
             \/ \E analyze \in {"always", "missing"} : StartAnalyze(named, analyze)
      PROVE  ReparseInv'
  BY <1>1, <1>4 DEF LaunchBackfillsRecord, StartSync, StartAnalyze, SkipParse
<1>5. ASSUME NEW new \in Tags, StartLaunch(new) PROVE ReparseInv'
  BY <1>5 DEF StartLaunch, Start, ReparseInv
<1>6. ASSUME NEW named \in Tags \cup {NoTag}, NEW append \in BOOLEAN,
             NEW analyze \in {"missing", "never"}, StartBootstrap(named, append, analyze)
      PROVE  ReparseInv'
  BY <1>6, BootstrapGuarded
<1>7. CASE PrepareInit \/ AddLaunchTag \/ UseLaunchTag \/ BeginPreparedParse
  BY <1>7 DEF PrepareInit, SkipParse, AddLaunchTag, UseLaunchTag, BeginPreparedParse,
              BeginParse, locals, ReparseInv, SetupInv, Resolved
<1>8. CASE \/ RecordParse \/ AnalysisReturns
           \/ RecordInit \/ SyncHandover \/ RecordLaunch \/ Stop
           \/ \E plan \in Plans : ParseReturns(plan)
  BY <1>1, <1>8
     DEF RecordParse, AnalysisReturns, RecordInit, SyncHandover, RecordLaunch, Stop,
         ParseReturns
<1>9. CASE BeginAnalysis \/ Backfill
  BY <1>1, <1>9 DEF BeginAnalysis, Backfill, AfterAnalysis
<1>10. CASE SetStatus
  <2>1. UNCHANGED <<record, text, target, pc, cmd>>
    BY <1>10 DEF SetStatus, Disturbs, locals
  <2>2. Guarded => Guarded'
    BY <1>10, <2>1, StatusKeepsTasks DEF Guarded
  <2> QED  BY <2>1, <2>2 DEF ReparseInv
<1>11. CASE EditPrd \/ UseTag \/ Settled \/ UNCHANGED vars
  BY <1>2, <1>11 DEF EditPrd, UseTag, Settled, Disturbs, files, locals, vars
<1> QED
  BY <1>3, <1>4, <1>5, <1>6, <1>7, <1>8, <1>9, <1>10, <1>11
     DEF Next, Commands, Steps, Operator

\* A bootstrap without --append that replaces tasks has read the text of the last
\* parse, unless none is recorded, or no tag was given and the recorded one has no
\* tasks: although the model takes its time between the check and the save, and
\* the operator edits, switches tags and sets statuses meanwhile.  Whose tasks they
\* are is not claimed: the last parse may have been into another tag.
THEOREM BootstrapReplacesOnlySamePrd == Spec => BootstrapReplacesSamePrd
<1>1. ReparseInv /\ [Next]_vars =>
          [(cmd.kind = "bootstrap" /\ pc = "parse" /\ pc' = "record" /\ ~cmd.append
              /\ HasTasks(document, target))
           => \/ text = record.text \/ record = NoRecord
              \/ cmd.tag = NoTag /\ ~HasTasks(document, record.tag)]_vars
  BY DEF ReparseInv, Guarded
<1> QED
  BY <1>1, SetupInvInit, SetupInvStep, ReparseInvInit, ReparseInvStep, PTL
     DEF Spec, BootstrapReplacesSamePrd

(***************************************************************************)
(* A new phase.  What a launch has achieved at each point, if the operator *)
(* leaves it alone.                                                        *)
(***************************************************************************)

Queue == document[target]

Entries(queue) == {[id |-> t.id, text |-> t.text] : t \in queue}

PhaseBegun ==
    /\ target = cmd.tag /\ target \in Tags /\ ~cmd.append /\ cmd.analyze = "always"
    /\ pc \notin {"prepare", "rerecord"}
    /\ pc \notin {"addTag", "useTag"} => tag = target
    /\ pc \notin {"addTag", "useTag", "begin"} => text = prd /\ text \in Texts

PhaseParsed ==
    pc \notin {"addTag", "useTag", "begin", "parse"} =>
        /\ target \in DOMAIN document /\ Queue # {}
        /\ \A t \in Queue : t.text = text

PhaseAnalyzed ==
    /\ pc \in {"scoring", "backfill"} => scored = Pending(Queue)
    /\ pc = "backfill" => report = Analysis
    /\ pc \in {"sync", "final", "done"} =>
           /\ \A t \in Pending(Queue) : t.score = text
           /\ Pending(Queue) # {} => report = Entries(Pending(Queue))

PhaseEnded ==
    /\ pc \in {"final", "done"} => handover = HandoverFor(NextTask(Queue))
    /\ pc = "done" => record = [text |-> prd, tag |-> target]

PhaseInv ==
    (cmd.kind = "launch" /\ calm) => PhaseBegun /\ PhaseParsed /\ PhaseAnalyzed /\ PhaseEnded

\* The tag of a new phase is given: every step of it means the same queue.
LEMMA PhaseTag ==
    ASSUME PhaseBegun
    PROVE  Effective(cmd.tag, tag) = target /\ Loaded = Queue
BY ProjectSetupAssumption DEF PhaseBegun, Effective, Loaded, Queue

\* The command that is none is no launch.
LEMMA NoCommandKind == NoCommand.kind = "none"
BY DEF NoCommand

\* After the analysis a launch goes on with the handover.
LEMMA PhaseAfterAnalysis == cmd.kind = "launch" => AfterAnalysis = "sync"
BY Zenon DEF AfterAnalysis

\* The answer of a model has at least one task, and all are from the PRD.
LEMMA ParsedNotEmpty ==
    ASSUME NEW plan \in Plans, NEW s
    PROVE  ParsedTasks(plan, s) # {} /\ \A t \in ParsedTasks(plan, s) : t.text = s
<1>1. 1 \in DOMAIN plan
  <2> DEFINE Item == [deps : SUBSET Nat, status : STRING, complexity : BOOLEAN]
  <2>1. plan \in Seq(Item) /\ plan # <<>>
    BY DataAssumption
  <2> HIDE DEF Item
  <2> QED  BY <2>1
<1>2. ParsedTasks(plan, s) # {}
  BY <1>1 DEF ParsedTasks
<1>3. \A t \in ParsedTasks(plan, s) : t.text = s
  BY DEF ParsedTasks
<1> QED  BY <1>2, <1>3

\* The answer to the parse is the queue of the new phase.
LEMMA PhaseParse ==
    ASSUME SetupInv, PhaseBegun, NEW plan \in Plans, ParseReturns(plan)
    PROVE  PhaseParsed'
<1>2. document' = SaveTagTasks(document, target, ParsedTasks(plan, text)) /\ UNCHANGED locals
  BY DEF ParseReturns, NewQueue, PhaseBegun
<1>3. target \in DOMAIN document' /\ document'[target] = ParsedTasks(plan, text)
  BY <1>2 DEF SaveTagTasks
<1>5. target' = target /\ text' = text
  BY <1>2 DEF locals
<1>6. document'[target'] # {} /\ \A t \in document'[target'] : t.text = text'
  BY <1>3, <1>5, ParsedNotEmpty
<1> QED  BY <1>3, <1>5, <1>6 DEF PhaseParsed, Queue

\* The scores of a new phase are for its own tasks, and for all that are to do.
LEMMA PhaseBackfill ==
    ASSUME SetupInv, PhaseBegun, PhaseParsed, PhaseAnalyzed, Backfill
    PROVE  /\ target \in DOMAIN document' /\ document'[target] # {}
           /\ \A t \in document'[target] : t.text = text
           /\ \A t \in Pending(document'[target]) : t.score = text
           /\ report = Entries(Pending(document'[target]))
<1> DEFINE q == Queue
           score(t) == IF \E a \in Analysis : a.id = t.id
                       THEN [t EXCEPT !.score = (CHOOSE a \in Analysis : a.id = t.id).text]
                       ELSE t
<1>1. /\ q \subseteq Task /\ q # {} /\ \A t \in q : t.text = text
      /\ scored = Pending(q) /\ report = Analysis
      /\ target \in DOMAIN document
  BY DEF Backfill, PhaseParsed, PhaseAnalyzed, SetupInv, TypeOK, FilesOK, IsDocument,
         IsQueue, Queue
<1>2. target \in DOMAIN document' /\ document'[target] = {score(t) : t \in q}
  BY DEF Backfill, ScoredQueue, SaveTagTasks, BackfillComplexity, Queue
<1>3. Analysis = Entries(Pending(q)) /\ \A a \in Analysis : a.text = text
  BY <1>1 DEF Analysis, Entries, Pending
<1>4. \A t \in q : /\ score(t).id = t.id /\ score(t).text = t.text
                   /\ score(t).status = t.status
  BY <1>1 DEF Task
<1>5. \A t \in Pending(q) : score(t).score = text
  <2> TAKE t \in Pending(q)
  <2>1. \E a \in Analysis : a.id = t.id
    <3>1. [id |-> t.id, text |-> t.text] \in Analysis
      BY <1>3 DEF Entries
    <3> QED  BY <3>1
  <2>2. (CHOOSE a \in Analysis : a.id = t.id).text = text
    BY <1>3, <2>1
  <2>3. t \in Task
    BY <1>1 DEF Pending
  <2> QED  BY <2>1, <2>2, <2>3 DEF Task
<1> HIDE DEF score, q
<1>6. Pending(document'[target]) = {score(t) : t \in Pending(q)}
  BY <1>2, <1>4 DEF Pending
<1>7. Entries(Pending(document'[target])) = Entries(Pending(q))
  <2>1. \A t \in Pending(q) : score(t).id = t.id /\ score(t).text = t.text
    BY <1>4 DEF Pending
  <2> QED  BY <1>6, <2>1 DEF Entries
<1>8. \A t \in Pending(document'[target]) : t.score = text
  BY <1>5, <1>6
<1>9. document'[target] # {} /\ \A t \in document'[target] : t.text = text
  BY <1>1, <1>2, <1>4
<1> QED  BY <1>1, <1>2, <1>3, <1>7, <1>8, <1>9

\* Every step of the launch itself.
LEMMA PhaseStep ==
    ASSUME SetupInv, PhaseInv, Steps, cmd'.kind = "launch", calm'
    PROVE  (PhaseBegun /\ PhaseParsed /\ PhaseAnalyzed /\ PhaseEnded)'
<1>1. /\ cmd.kind = "launch" /\ calm /\ UNCHANGED cmd /\ ~Stop
  <2>1. ~Stop
    BY NoCommandKind DEF Stop
  <2>2. UNCHANGED <<cmd, calm>>
    BY <2>1 DEF Steps, AddLaunchTag, UseLaunchTag, PrepareInit, BeginPreparedParse,
                ParseReturns, RecordParse, BeginAnalysis, AnalysisReturns, Backfill,
                RecordInit, SyncHandover, RecordLaunch, locals
  <2>3. calm
    BY <2>2, Zenon
  <2>4. cmd.kind = "launch" /\ UNCHANGED cmd
    BY <2>2
  <2> QED  BY <2>1, <2>3, <2>4, Zenon
<1>2. PhaseBegun /\ PhaseParsed /\ PhaseAnalyzed /\ PhaseEnded /\ ~PrepareInit
  BY <1>1 DEF PhaseInv, PhaseBegun, PrepareInit
<1>3. CASE AddLaunchTag \/ UseLaunchTag
  BY <1>2, <1>3
     DEF AddLaunchTag, UseLaunchTag, locals, PhaseBegun, PhaseParsed, PhaseAnalyzed, PhaseEnded
<1>4. CASE BeginPreparedParse
  <2>1. target' = target
    BY <1>2, <1>4, PhaseTag DEF BeginPreparedParse, BeginParse
  <2>2. prd \in Texts
    BY <1>4 DEF BeginPreparedParse, SetupInv, TypeOK, FilesOK
  <2> QED
    BY <1>2, <1>4, <2>1, <2>2
       DEF BeginPreparedParse, BeginParse, files, PhaseBegun, PhaseParsed, PhaseAnalyzed,
           PhaseEnded
<1>5. ASSUME NEW plan \in Plans, ParseReturns(plan)
      PROVE  (PhaseBegun /\ PhaseParsed /\ PhaseAnalyzed /\ PhaseEnded)'
  <2>1. PhaseParsed'
    BY <1>2, <1>5, PhaseParse
  <2> QED
    BY <1>2, <1>5, <2>1 DEF ParseReturns, locals, PhaseBegun, PhaseAnalyzed, PhaseEnded
<1>6. CASE RecordParse
  BY <1>2, <1>6
     DEF RecordParse, locals, Queue, PhaseBegun, PhaseParsed, PhaseAnalyzed, PhaseEnded
<1>7. CASE BeginAnalysis
  <2>1. Effective(cmd.tag, tag) = target /\ Loaded = Queue
    BY <1>2, PhaseTag
  <2>2. ~Skipped
    BY <1>2 DEF Skipped, PhaseBegun
  <2>3. CASE Pending(Queue) = {}
    <3>1. pc' = "sync" /\ UNCHANGED <<target, scored>>
      BY <1>1, <1>7, <2>1, <2>3, PhaseAfterAnalysis DEF BeginAnalysis
    <3> QED
      BY <1>2, <1>7, <2>3, <3>1
         DEF BeginAnalysis, files, Queue, PhaseBegun, PhaseParsed, PhaseAnalyzed, PhaseEnded
  <2>4. CASE Pending(Queue) # {}
    <3>1. pc' = "scoring" /\ target' = target /\ scored' = Pending(Queue)
      BY <1>7, <2>1, <2>2, <2>4 DEF BeginAnalysis
    <3> QED
      BY <1>2, <1>7, <3>1
         DEF BeginAnalysis, files, Queue, PhaseBegun, PhaseParsed, PhaseAnalyzed, PhaseEnded
  <2> QED  BY <2>3, <2>4
<1>8. CASE AnalysisReturns
  <2>1. Analysis' = Analysis
    BY <1>8 DEF AnalysisReturns, locals, Analysis
  <2> QED
    BY <1>2, <1>8, <2>1
       DEF AnalysisReturns, locals, Queue, PhaseBegun, PhaseParsed, PhaseAnalyzed, PhaseEnded
<1>9. CASE Backfill
  <2>1. pc' = "sync"
    BY <1>1, <1>9, PhaseAfterAnalysis DEF Backfill
  <2>2. /\ target \in DOMAIN document' /\ document'[target] # {}
        /\ \A t \in document'[target] : t.text = text
        /\ \A t \in Pending(document'[target]) : t.score = text
        /\ report = Entries(Pending(document'[target]))
    BY <1>2, <1>9, PhaseBackfill
  <2> QED
    BY <1>2, <1>9, <2>1, <2>2
       DEF Backfill, locals, Queue, PhaseBegun, PhaseParsed, PhaseAnalyzed, PhaseEnded
<1>10. ~RecordInit
  BY <1>2 DEF RecordInit, PhaseBegun
<1>11. CASE SyncHandover
  <2>1. /\ pc' = "final" /\ handover' = HandoverFor(NextTask(Queue))
        /\ UNCHANGED <<prd, document, tag, report, record, locals>>
    BY <1>1, <1>2, <1>11, PhaseTag DEF SyncHandover
  <2> QED
    BY <1>2, <1>11, <2>1
       DEF SyncHandover, locals, Queue, PhaseBegun, PhaseParsed, PhaseAnalyzed, PhaseEnded
<1>12. CASE RecordLaunch
  BY <1>2, <1>12
     DEF RecordLaunch, WriteRecord, locals, Queue, PhaseBegun, PhaseParsed, PhaseAnalyzed,
         PhaseEnded
<1> QED
  BY <1>1, <1>2, <1>3, <1>4, <1>5, <1>6, <1>7, <1>8, <1>9, <1>10, <1>11, <1>12 DEF Steps

\* Every other step begins a command, or is the operator's.
LEMMA PhaseInvStep == SetupInv /\ PhaseInv /\ [Next]_vars => PhaseInv'
<1> SUFFICES ASSUME SetupInv, PhaseInv, [Next]_vars PROVE PhaseInv'
  OBVIOUS
<1>1. CASE Steps
  BY <1>1, PhaseStep DEF PhaseInv
<1>2. CASE Commands
  <2>1. ASSUME NEW new \in Tags, StartLaunch(new) PROVE PhaseInv'
    BY <2>1 DEF StartLaunch, Start, PhaseInv, PhaseBegun, PhaseParsed, PhaseAnalyzed,
                PhaseEnded
  <2>2. (\E new \in Tags : StartLaunch(new)) \/ cmd'.kind # "launch"
    <3>1. ASSUME NEW named \in Tags \cup {NoTag},
                 \/ StartInit(named) \/ LaunchBackfillsRecord(named) \/ StartSync(named)
                 \/ \E analyze \in {"always", "missing"} : StartAnalyze(named, analyze)
          PROVE  cmd'.kind # "launch"
      <4>1. CASE StartInit(named)
        BY <4>1 DEF StartInit, Start
      <4>2. CASE LaunchBackfillsRecord(named)
        BY <4>2, NoCommandKind DEF LaunchBackfillsRecord, Start
      <4>3. CASE StartSync(named)
        BY <4>3 DEF StartSync, Start, NoCommand
      <4>4. CASE \E analyze \in {"always", "missing"} : StartAnalyze(named, analyze)
        BY <4>4 DEF StartAnalyze, Start, NoCommand
      <4> QED  BY <3>1, <4>1, <4>2, <4>3, <4>4
    <3>2. ASSUME NEW named \in Tags \cup {NoTag}, NEW append \in BOOLEAN,
                 NEW analyze \in {"missing", "never"}, StartBootstrap(named, append, analyze)
          PROVE  cmd'.kind # "launch"
      BY <3>2 DEF StartBootstrap, Start
    <3> QED  BY <1>2, <3>1, <3>2 DEF Commands
  <2> QED  BY <2>1, <2>2 DEF PhaseInv
<1>3. CASE Operator
  BY <1>3 DEF Operator, EditPrd, UseTag, SetStatus, Disturbs, PhaseInv
<1>4. CASE UNCHANGED vars
  BY <1>4 DEF vars, files, locals, PhaseInv, PhaseBegun, PhaseParsed, PhaseAnalyzed,
              PhaseEnded, Queue, Analysis
<1> QED  BY <1>1, <1>2, <1>3, <1>4 DEF Next, Settled

\* After a launch that nobody disturbed, the new phase is the current tag, all of
\* its tasks are from the PRD, those still to do are scored, the report is theirs
\* alone, the handover names the next one, and the record is that of the phase:
\* for every list of tasks, and whatever the tag held before.
THEOREM PhaseIsReady == Spec => []PhaseReady
<1>1. Init => PhaseInv
  BY DEF Init, NoCommand, PhaseInv
<1>2. SetupInv /\ PhaseInv => PhaseReady
  BY DEF PhaseReady, Finished, PhaseInv, PhaseBegun, PhaseParsed, PhaseAnalyzed,
         PhaseEnded, Queue, Entries
<1> QED  BY <1>1, <1>2, SetupInvInit, SetupInvStep, PhaseInvStep, PTL DEF Spec

(***************************************************************************)
(* A finished init.  What an init has achieved at each point, if nobody    *)
(* disturbs it and its tag means one queue.                                *)
(***************************************************************************)

InitTag == Effective(cmd.tag, DEFAULT_TAG)

InitQueue ==
    /\ scaffold /\ ~cmd.append /\ cmd.analyze = "missing"
    /\ pc \notin {"addTag", "useTag", "final", "idle"}
    /\ pc \in {"begin", "parse", "record"} => cmd.parse
    /\ pc \in {"parse", "scoring", "backfill"} => target = InitTag
    /\ pc \in {"begin", "parse"} \/ (pc = "prepare" /\ cmd.parse) \/ HasTasks(document, InitTag)

InitRecorded ==
    /\ pc = "prepare" => text = prd /\ (prd # NoText => ~PrdChanged(cmd.tag))
    /\ (pc # "prepare" /\ prd # NoText /\ (~cmd.parse \/ pc \in {"sync", "done"}))
           => record # NoRecord /\ ~PrdChanged(cmd.tag)

InitAnalyzed ==
    /\ pc \in {"scoring", "backfill"} => scored # {}
    /\ pc = "backfill" => report # {}
    /\ (pc \in {"rerecord", "sync", "done"} /\ report = {}) => Pending(document[InitTag]) = {}

InitEnded == pc = "done" => \A t \in NextTask(document[InitTag]) : handover.id = t.id

InitOneTag == cmd.kind = "init" /\ calm /\ (cmd.tag # NoTag \/ tag = DEFAULT_TAG)

InitInv == InitOneTag => InitQueue /\ InitRecorded /\ InitAnalyzed /\ InitEnded

\* One tag is meant wherever the tag is resolved.
LEMMA InitOneQueue ==
    ASSUME InitOneTag
    PROVE  Effective(cmd.tag, tag) = InitTag /\ Loaded = document[InitTag]
BY DEF InitOneTag, InitTag, Effective, Loaded

\* After the analysis an init that parsed records it once more.
LEMMA InitAfterAnalysis ==
    cmd.kind = "init" => AfterAnalysis = IF cmd.parse THEN "rerecord" ELSE "sync"
<1>1. CASE cmd.kind = "init" /\ cmd.parse
  BY <1>1, Zenon DEF AfterAnalysis
<1>2. CASE cmd.kind = "init" /\ ~cmd.parse
  <2>1. AfterAnalysis = "sync"
    BY <1>2 DEF AfterAnalysis
  <2> QED  BY <1>2, <2>1, Zenon
<1> QED  BY <1>1, <1>2, Zenon

\* An init begins with what it found.
LEMMA InitStarts ==
    ASSUME SetupInv, NEW named \in Tags \cup {NoTag}, StartInit(named), InitOneTag'
    PROVE  (InitQueue /\ InitRecorded /\ InitAnalyzed /\ InitEnded)'
<1>1. /\ cmd'.kind = "init" /\ cmd'.tag = named /\ ~cmd'.append /\ cmd'.analyze = "missing"
      /\ UNCHANGED <<prd, document, tag, record>> /\ scaffold'
      /\ pc' = "prepare" /\ text' = prd
  BY DEF StartInit, Start
<1>2. cmd'.parse \/ HasTasks(document, Effective(named, DEFAULT_TAG))
  BY DEF StartInit, Start
<1>3. InitTag' = Effective(named, DEFAULT_TAG)
  BY <1>1 DEF InitTag, Effective
<1>4. InitQueue'
  BY <1>1, <1>2, <1>3 DEF InitQueue
<1>5. prd # NoText => ~PrdChanged(named)
  BY DEF StartInit
<1>6. InitRecorded'
  BY <1>1, <1>5 DEF InitRecorded, PrdChanged, Effective
<1>7. InitAnalyzed' /\ InitEnded'
  BY <1>1 DEF InitAnalyzed, InitEnded
<1> QED  BY <1>4, <1>6, <1>7

\* Before the analysis, an init that does not parse has a record of the PRD.
LEMMA InitPrepares ==
    ASSUME SetupInv, InitOneTag, InitQueue, InitRecorded, PrepareInit, InitOneTag'
    PROVE  (InitQueue /\ InitRecorded /\ InitAnalyzed /\ InitEnded)'
<1>1. /\ pc = "prepare" /\ UNCHANGED <<prd, document, tag, scaffold, cmd>>
      /\ text = prd /\ (prd # NoText => ~PrdChanged(cmd.tag))
  BY DEF PrepareInit, InitRecorded
<1>2. InitTag' = InitTag
  BY <1>1 DEF InitTag, Effective
<1>3. pc' \in {"begin", "analyze"} /\ (pc' = "begin" <=> cmd.parse)
  BY DEF PrepareInit, SkipParse
<1>4. InitQueue'
  BY <1>1, <1>2, <1>3 DEF InitQueue
<1>5. InitRecorded'
  <2> SUFFICES ASSUME prd # NoText, ~cmd.parse
               PROVE  record' # NoRecord /\ ~PrdChanged(cmd.tag)'
    BY <1>1, <1>3 DEF InitRecorded
  <2>1. BackfillRecord(InitTag)
    BY <1>1 DEF PrepareInit, InitTag
  <2>2. InitTag \in WithTasks
    <3>1. InitTag \in Tags
      BY ProjectSetupAssumption, EffectiveTag DEF InitTag, SetupInv, TypeOK, CommandOK
    <3>2. HasTasks(document, InitTag)
      BY <1>1 DEF InitQueue
    <3> QED  BY <3>1, <3>2 DEF WithTasks
  <2>3. CASE record = NoRecord
    <3>1. record'.text = prd
      BY <2>1, <2>2, <2>3 DEF BackfillRecord
    <3>2. NoRecord.text = NoText
      BY DEF NoRecord
    <3> QED  BY <1>1, <3>1, <3>2 DEF PrdChanged
  <2>4. CASE record # NoRecord
    <3>1. UNCHANGED record
      BY <2>1, <2>4 DEF BackfillRecord
    <3> QED  BY <1>1, <2>4, <3>1 DEF PrdChanged, Effective
  <2> QED  BY <2>3, <2>4
<1>6. InitAnalyzed' /\ InitEnded'
  BY <1>3 DEF InitAnalyzed, InitEnded
<1> QED  BY <1>4, <1>5, <1>6

\* Scores neither empty nor fill a queue.
LEMMA BackfillKeepsTasks ==
    ASSUME Backfill, target \in DOMAIN document, NEW t
    PROVE  HasTasks(document, t) <=> HasTasks(document', t)
<1>1. document[target] = {} <=> ScoredQueue(target) = {}
  <2> DEFINE score(u) == IF \E a \in Analysis : a.id = u.id
                         THEN [u EXCEPT !.score = (CHOOSE a \in Analysis : a.id = u.id).text]
                         ELSE u
  <2>1. ScoredQueue(target) = {score(u) : u \in document[target]}
    BY DEF ScoredQueue, BackfillComplexity
  <2> HIDE DEF score
  <2> QED  BY <2>1
<1>2. document' = [u \in DOMAIN document |-> IF u = target THEN ScoredQueue(target)
                                             ELSE document[u]]
  BY DEF Backfill, SaveTagTasks
<1> QED  BY <1>1, <1>2 DEF HasTasks

\* The handover that init leaves is for the next task.
LEMMA InitHandover ==
    ASSUME NEW q, q \subseteq Task, NEW h,
           NEW h2, h2 = IF ~HandoverNeedsSync(h, NextTask(q)) THEN h ELSE HandoverFor(NextTask(q))
    PROVE  \A t \in NextTask(q) : h2.id = t.id
<1> TAKE t \in NextTask(q)
<1>1. \A u \in NextTask(q) : u.id = t.id
  BY DEF NextTask, Eligible, Task
<1>2. CASE HandoverNeedsSync(h, NextTask(q))
  BY <1>1, <1>2 DEF HandoverFor
<1>3. CASE ~HandoverNeedsSync(h, NextTask(q))
  <2>1. h.id = t.id
    <3>1. h # NoHandover
      BY <1>3 DEF HandoverNeedsSync
    <3>2. h.id # 0
      BY <1>3, <3>1 DEF HandoverNeedsSync
    <3> QED  BY <1>3, <3>1, <3>2 DEF HandoverNeedsSync
  <2> QED  BY <1>3, <2>1
<1> QED  BY <1>2, <1>3

\* Every step of the init itself.
LEMMA InitStep ==
    ASSUME SetupInv, ReparseInv, InitInv, Steps, InitOneTag'
    PROVE  (InitQueue /\ InitRecorded /\ InitAnalyzed /\ InitEnded)'
<1>1. cmd'.kind = "init" /\ calm'
  BY Zenon DEF InitOneTag
<1>2. ~Stop
  BY <1>1, NoCommandKind DEF Stop
<1>3. UNCHANGED <<cmd, calm, prd, scaffold>>
  BY <1>2 DEF Steps, AddLaunchTag, UseLaunchTag, PrepareInit, BeginPreparedParse,
              ParseReturns, RecordParse, BeginAnalysis, AnalysisReturns, Backfill,
              RecordInit, SyncHandover, RecordLaunch, locals, files
<1>4. calm /\ cmd.kind = "init" /\ InitTag' = InitTag
  <2>1. calm
    BY <1>1, <1>3, Zenon
  <2>2. InitTag' = InitTag
    BY <1>3 DEF InitTag, Effective
  <2> QED  BY <1>1, <1>3, <2>1, <2>2
<1>5. ~AddLaunchTag /\ ~UseLaunchTag
  BY <1>4 DEF ReparseInv, AddLaunchTag, UseLaunchTag
<1>6. UNCHANGED tag
  BY <1>2, <1>5 DEF Steps, PrepareInit, BeginPreparedParse, ParseReturns, RecordParse,
                    BeginAnalysis, AnalysisReturns, Backfill, RecordInit, SyncHandover,
                    RecordLaunch, files
<1>7. InitOneTag
  BY <1>3, <1>4, <1>6 DEF InitOneTag
<1>8. InitQueue /\ InitRecorded /\ InitAnalyzed /\ InitEnded
  BY <1>7 DEF InitInv
<1>9. ASSUME NEW plan \in Plans, ParseReturns(plan)
      PROVE  (InitQueue /\ InitRecorded /\ InitAnalyzed /\ InitEnded)'
  <2>1. document' = SaveTagTasks(document, InitTag, ParsedTasks(plan, text)) /\ pc' = "record"
    BY <1>8, <1>9 DEF ParseReturns, NewQueue, InitQueue
  <2>2. HasTasks(document', InitTag)
    BY <2>1, ParsedNotEmpty DEF SaveTagTasks, HasTasks
  <2>3. InitQueue'
    BY <1>3, <1>4, <1>8, <1>9, <2>1, <2>2 DEF ParseReturns, InitQueue
  <2>4. cmd'.parse
    BY <1>3, <1>8, <1>9 DEF ParseReturns, InitQueue
  <2> QED  BY <2>1, <2>3, <2>4 DEF InitRecorded, InitAnalyzed, InitEnded
<1>10. CASE RecordParse
  <2>1. cmd'.parse /\ pc' = "analyze" /\ UNCHANGED document
    BY <1>3, <1>8, <1>10 DEF RecordParse, InitQueue
  <2>2. InitQueue'
    BY <1>3, <1>4, <1>8, <1>10, <2>1 DEF RecordParse, InitQueue
  <2> QED  BY <2>1, <2>2 DEF InitRecorded, InitAnalyzed, InitEnded
<1>11. ASSUME UNCHANGED <<document, record>>, InitTag' = InitTag,
              "prepare" \notin {pc, pc'}
       PROVE  InitRecorded /\ (pc' \in {"sync", "done"} => pc = "sync" \/ ~cmd.parse)
                  => InitRecorded'
  BY <1>3, <1>11 DEF InitRecorded, PrdChanged
<1>12. CASE BeginAnalysis
  <2>1. Effective(cmd.tag, tag) = InitTag /\ Loaded = document[InitTag]
    BY <1>7, InitOneQueue
  <2>2. UNCHANGED <<document, record, report, handover>> /\ pc = "analyze"
    BY <1>12 DEF BeginAnalysis, files
  <2>3. CASE Skipped \/ Pending(Loaded) = {}
    <3>1. pc' = (IF cmd.parse THEN "rerecord" ELSE "sync") /\ UNCHANGED <<target, scored>>
      BY <1>4, <1>12, <2>3, InitAfterAnalysis DEF BeginAnalysis
    <3>2. report = {} => Pending(document[InitTag]) = {}
      BY <1>8, <2>1, <2>3 DEF Skipped, InitQueue
    <3>3. InitQueue'
      BY <1>3, <1>4, <1>8, <2>2, <3>1 DEF InitQueue
    <3>4. InitAnalyzed' /\ InitEnded'
      BY <1>4, <2>2, <3>1, <3>2 DEF InitAnalyzed, InitEnded
    <3> QED  BY <1>4, <1>8, <1>11, <2>2, <3>1, <3>3, <3>4
  <2>4. CASE ~(Skipped \/ Pending(Loaded) = {})
    <3>1. pc' = "scoring" /\ target' = InitTag /\ scored' = Pending(Loaded)
      BY <1>12, <2>1, <2>4 DEF BeginAnalysis
    <3>2. InitQueue'
      BY <1>3, <1>4, <1>8, <2>2, <3>1 DEF InitQueue
    <3>3. InitAnalyzed' /\ InitEnded'
      BY <2>4, <3>1 DEF InitAnalyzed, InitEnded
    <3> QED  BY <1>4, <1>8, <1>11, <2>2, <3>1, <3>2, <3>3
  <2> QED  BY <2>3, <2>4
<1>13. CASE AnalysisReturns
  <2>1. /\ UNCHANGED <<document, record, target, scored>> /\ pc = "scoring"
        /\ pc' = "backfill" /\ report' = Analysis
    BY <1>13 DEF AnalysisReturns, locals
  <2>2. Analysis # {}
    BY <1>8, <2>1 DEF InitAnalyzed, Analysis
  <2>3. InitQueue'
    BY <1>3, <1>4, <1>8, <2>1 DEF InitQueue
  <2>4. InitAnalyzed' /\ InitEnded'
    BY <1>8, <2>1, <2>2 DEF InitAnalyzed, InitEnded
  <2> QED  BY <1>4, <1>8, <1>11, <2>1, <2>3, <2>4
<1>14. CASE Backfill
  <2>1. /\ UNCHANGED <<record, report, target>> /\ pc = "backfill"
        /\ pc' = IF cmd.parse THEN "rerecord" ELSE "sync"
    BY <1>4, <1>14, InitAfterAnalysis DEF Backfill, locals
  <2>2. \A t : HasTasks(document, t) <=> HasTasks(document', t)
    <3>1. target \in DOMAIN document
      BY <1>14 DEF Backfill, SetupInv, Resolved
    <3> QED  BY <1>14, <3>1, BackfillKeepsTasks
  <2>3. InitQueue'
    BY <1>3, <1>4, <1>8, <2>1, <2>2 DEF InitQueue
  <2>4. InitRecorded'
    BY <1>3, <1>8, <2>1, <2>2 DEF InitRecorded, PrdChanged
  <2>5. InitAnalyzed' /\ InitEnded'
    BY <1>8, <2>1 DEF InitAnalyzed, InitEnded
  <2> QED  BY <2>3, <2>4, <2>5
<1>15. CASE RecordInit
  <2>1. /\ pc = "rerecord" /\ pc' = "sync" /\ prd # NoText
        /\ record' = [text |-> prd, tag |-> InitTag]
        /\ UNCHANGED <<document, report>>
    BY <1>15 DEF RecordInit, WriteRecord, InitTag
  <2>2. InitQueue'
    BY <1>3, <1>4, <1>8, <2>1 DEF InitQueue
  <2>3. InitRecorded'
    <3>1. record'.text = prd /\ NoRecord.text = NoText
      BY <2>1 DEF NoRecord
    <3> QED  BY <1>3, <2>1, <3>1 DEF InitRecorded, PrdChanged
  <2>4. InitAnalyzed' /\ InitEnded'
    BY <1>4, <1>8, <2>1 DEF InitAnalyzed, InitEnded
  <2> QED  BY <2>2, <2>3, <2>4
<1>16. CASE SyncHandover
  <2>1. Loaded = document[InitTag]
    BY <1>7, InitOneQueue
  <2>2. /\ UNCHANGED <<document, record, report>> /\ pc = "sync" /\ pc' = "done"
        /\ handover' = IF ~HandoverNeedsSync(handover, NextTask(document[InitTag]))
                       THEN handover ELSE HandoverFor(NextTask(document[InitTag]))
    BY <1>4, <1>16, <2>1 DEF SyncHandover
  <2>3. document[InitTag] \subseteq Task
    BY <1>8, <2>2 DEF InitQueue, HasTasks, SetupInv, TypeOK, FilesOK, IsDocument, IsQueue
  <2>4. \A t \in NextTask(document[InitTag]) : handover'.id = t.id
    BY <2>2, <2>3, InitHandover
  <2>5. InitQueue'
    BY <1>3, <1>4, <1>8, <2>2 DEF InitQueue
  <2>6. InitAnalyzed' /\ InitEnded'
    BY <1>4, <1>8, <2>2, <2>4 DEF InitAnalyzed, InitEnded
  <2> QED  BY <1>4, <1>8, <1>11, <2>2, <2>5, <2>6
<1>17. ~RecordLaunch
  BY <1>8 DEF RecordLaunch, InitQueue
<1>18. CASE PrepareInit
  BY <1>7, <1>8, <1>18, InitPrepares
<1>19. CASE BeginPreparedParse
  <2>1. /\ pc = "begin" /\ pc' = "parse" /\ UNCHANGED <<document, record>>
        /\ target' = Effective(cmd.tag, tag)
    BY <1>19 DEF BeginPreparedParse, BeginParse, files
  <2>2. target' = InitTag
    BY <1>7, <2>1, InitOneQueue
  <2>3. InitQueue'
    BY <1>3, <1>4, <1>8, <2>1, <2>2 DEF InitQueue
  <2>4. cmd'.parse
    BY <1>3, <1>8, <2>1 DEF InitQueue
  <2> QED  BY <2>1, <2>3, <2>4 DEF InitRecorded, InitAnalyzed, InitEnded
<1> QED
  BY <1>2, <1>5, <1>9, <1>10, <1>12, <1>13, <1>14, <1>15, <1>16, <1>17, <1>18, <1>19
     DEF Steps

\* Every other step begins a command, or is the operator's.
LEMMA InitInvStep == SetupInv /\ ReparseInv /\ InitInv /\ [Next]_vars => InitInv'
<1> SUFFICES ASSUME SetupInv, ReparseInv, InitInv, [Next]_vars PROVE InitInv'
  OBVIOUS
<1>1. CASE Steps
  BY <1>1, InitStep DEF InitInv
<1>2. CASE Commands
  <2>1. ASSUME NEW named \in Tags \cup {NoTag}, StartInit(named) PROVE InitInv'
    BY <2>1, InitStarts DEF InitInv
  <2>2. (\E named \in Tags \cup {NoTag} : StartInit(named)) \/ cmd'.kind # "init"
    <3>1. ASSUME NEW named \in Tags \cup {NoTag} ,
                 \/ LaunchBackfillsRecord(named) \/ StartSync(named)
                 \/ \E analyze \in {"always", "missing"} : StartAnalyze(named, analyze)
          PROVE  cmd'.kind # "init"
      <4>1. CASE LaunchBackfillsRecord(named)
        BY <4>1, NoCommandKind DEF LaunchBackfillsRecord, Start
      <4>2. CASE StartSync(named)
        BY <4>2 DEF StartSync, Start, NoCommand
      <4>3. CASE \E analyze \in {"always", "missing"} : StartAnalyze(named, analyze)
        BY <4>3 DEF StartAnalyze, Start, NoCommand
      <4> QED  BY <3>1, <4>1, <4>2, <4>3
    <3>2. ASSUME NEW named \in Tags \cup {NoTag}, NEW append \in BOOLEAN,
                 NEW analyze \in {"missing", "never"}, StartBootstrap(named, append, analyze)
          PROVE  cmd'.kind # "init"
      BY <3>2 DEF StartBootstrap, Start
    <3>3. ASSUME NEW new \in Tags, StartLaunch(new) PROVE cmd'.kind # "init"
      BY <3>3 DEF StartLaunch, Start
    <3> QED  BY <1>2, <3>1, <3>2, <3>3 DEF Commands
  <2> QED  BY <2>1, <2>2 DEF InitInv, InitOneTag
<1>3. CASE Operator
  BY <1>3 DEF Operator, EditPrd, UseTag, SetStatus, Disturbs, InitInv, InitOneTag
<1>4. CASE UNCHANGED vars
  BY <1>4 DEF vars, files, locals, InitInv, InitOneTag, InitQueue, InitRecorded,
              InitAnalyzed, InitEnded, InitTag, PrdChanged
<1> QED  BY <1>1, <1>2, <1>3, <1>4 DEF Next, Settled

\* `init` is idempotent: after an init that nobody disturbed, another one with the
\* same arguments would find tasks, scores, record and handover in place, whatever
\* files the first one began with and whatever the models returned.
THEOREM InitIsReady == Spec => []InitReady
<1>1. Init => InitInv
  BY DEF Init, NoCommand, InitInv, InitOneTag
<1>2. InitInv => InitReady
  BY DEF InitReady, Finished, InitInv, InitOneTag, InitQueue, InitRecorded, InitAnalyzed,
         InitEnded, InitTag, HasTasks
<1> QED
  BY <1>1, <1>2, SetupInvInit, SetupInvStep, ReparseInvInit, ReparseInvStep, InitInvStep,
     PTL DEF Spec

(***************************************************************************)
(* What an init may replace                                                *)
(***************************************************************************)

\* The one case in which init parses into another tag than it asked about.
OtherTag == pc = "parse" /\ cmd.tag = NoTag /\ target # DEFAULT_TAG

\* In every other, the queue is empty until the model answers.
MeantIsEmpty ==
    cmd.kind = "init" =>
        /\ pc \in {"prepare", "begin", "parse"} /\ cmd.parse => ~HasTasks(document, InitTag)
        /\ pc \in {"begin", "parse"} => cmd.parse
        /\ pc = "parse" /\ ~OtherTag => target = InitTag

\* Only the operator acts while the model works, and a status fills no queue.
LEMMA MeantIsEmptyStep ==
    SetupInv /\ ReparseInv /\ MeantIsEmpty /\ [Next]_vars => MeantIsEmpty'
<1> SUFFICES ASSUME SetupInv, ReparseInv, MeantIsEmpty, [Next]_vars, cmd'.kind = "init",
                    pc' \in {"prepare", "begin", "parse"}
             PROVE  MeantIsEmpty'
  BY DEF MeantIsEmpty
<1>1. ASSUME NEW named \in Tags \cup {NoTag}, StartInit(named)
      PROVE  MeantIsEmpty'
  <2>1. cmd'.tag = named /\ UNCHANGED document /\ pc' = "prepare"
    BY <1>1 DEF StartInit, Start
  <2>2. cmd'.parse => ~HasTasks(document, Effective(named, DEFAULT_TAG))
    BY <1>1 DEF StartInit, Start
  <2> QED  BY <2>1, <2>2 DEF MeantIsEmpty, InitTag, Effective
<1>2. ASSUME UNCHANGED <<cmd, pc, target>>, \A t : HasTasks(document', t) => HasTasks(document, t)
      PROVE  MeantIsEmpty'
  <2>1. InitTag' = InitTag /\ (OtherTag' <=> OtherTag)
    BY <1>2 DEF InitTag, OtherTag, Effective
  <2> QED  BY <1>2, <2>1 DEF MeantIsEmpty
<1>3. CASE SetStatus
  BY <1>2, <1>3, StatusKeepsTasks DEF SetStatus, Disturbs, locals
<1>4. CASE EditPrd \/ UseTag \/ Settled \/ UNCHANGED vars
  BY <1>2, <1>4 DEF EditPrd, UseTag, Settled, Disturbs, locals, files, vars
<1>5. CASE PrepareInit
  <2>1. UNCHANGED <<cmd, document>> /\ pc = "prepare" /\ pc' = "begin" /\ cmd.parse
    BY <1>5 DEF PrepareInit, SkipParse
  <2> QED  BY <2>1 DEF MeantIsEmpty, InitTag, Effective
<1>6. ~(\E named \in Tags \cup {NoTag}, append \in BOOLEAN, analyze \in {"missing", "never"} :
            StartBootstrap(named, append, analyze))
  BY DEF StartBootstrap, Start
<1>7. ~(\E named \in Tags \cup {NoTag} :
            \/ LaunchBackfillsRecord(named) \/ StartSync(named)
            \/ \E analyze \in {"always", "missing"} : StartAnalyze(named, analyze))
  BY DEF LaunchBackfillsRecord, StartSync, StartAnalyze, SkipParse
<1>8. ~(\E new \in Tags : StartLaunch(new))
  BY DEF StartLaunch, Start
<1>9. ~(\/ AddLaunchTag \/ UseLaunchTag \/ RecordParse \/ AnalysisReturns \/ RecordInit
        \/ SyncHandover \/ RecordLaunch \/ Stop \/ \E plan \in Plans : ParseReturns(plan))
  BY NoCommandKind
     DEF ReparseInv, locals, AddLaunchTag, UseLaunchTag, RecordParse, AnalysisReturns,
         RecordInit, SyncHandover, RecordLaunch, Stop, ParseReturns
<1>10. ~(BeginAnalysis \/ Backfill)
  BY DEF BeginAnalysis, Backfill, AfterAnalysis
<1>11. CASE BeginPreparedParse
  <2>1. /\ UNCHANGED <<cmd, document>> /\ pc = "begin" /\ pc' = "parse"
        /\ target' = Effective(cmd.tag, tag)
    BY <1>11 DEF BeginPreparedParse, BeginParse, files
  <2>2. OtherTag' \/ target' = InitTag'
    BY <2>1 DEF OtherTag, InitTag, Effective
  <2> QED  BY <2>1, <2>2 DEF MeantIsEmpty, InitTag, Effective
<1> QED
  BY <1>1, <1>3, <1>4, <1>5, <1>6, <1>7, <1>8, <1>9, <1>10, <1>11
     DEF Next, Commands, Steps, Operator

\* Outside that case, init keeps what there is.
InitKeepsMeantQueue ==
    [][(cmd.kind = "init" /\ CommandStep /\ ~OtherTag) =>
          \A t \in DOMAIN document :
              t \in DOMAIN document' /\ Work(document[t]) \subseteq Work(document'[t])]_vars

\* `init` loses no task and no status of any tag, undisturbed or not, unless --tag is
\* missing and the current tag is not master: the case shown in section 5 of the
\* README is the only one.
THEOREM InitLosesNoMore == Spec => InitKeepsMeantQueue
<1>1. SetupInv /\ MeantIsEmpty /\ [Next]_vars =>
        [(cmd.kind = "init" /\ CommandStep /\ ~OtherTag) =>
          \A t \in DOMAIN document :
              t \in DOMAIN document' /\ Work(document[t]) \subseteq Work(document'[t])]_vars
  <2> SUFFICES ASSUME SetupInv, MeantIsEmpty, Next, cmd.kind = "init", CommandStep,
                      ~OtherTag, NEW t \in DOMAIN document
               PROVE  t \in DOMAIN document' /\ Work(document[t]) \subseteq Work(document'[t])
    BY DEF CommandStep, vars
  <2>1. CASE pc = "parse" /\ t = target
    <3>1. document[t] = {}
      BY <2>1 DEF MeantIsEmpty, HasTasks
    <3>2. Work(document[t]) = {}
      BY <3>1 DEF Work
    <3>3. t \in DOMAIN document'
      BY <2>1 DEF Next, Commands, Steps, Operator, StartInit, LaunchBackfillsRecord,
                  StartLaunch, StartBootstrap, StartAnalyze, StartSync, Start, Idle,
                  AddLaunchTag, UseLaunchTag, PrepareInit, BeginPreparedParse,
                  ParseReturns, SaveTagTasks, RecordParse, BeginAnalysis, AnalysisReturns,
                  Backfill, RecordInit, SyncHandover, RecordLaunch, Stop, EditPrd, UseTag,
                  SetStatus, Settled, files, vars
    <3> QED  BY <3>2, <3>3
  <2> QED  BY <2>1, WorkKeptStep
<1>2. Init => MeantIsEmpty
  BY DEF Init, MeantIsEmpty
<1> QED
  BY <1>1, <1>2, SetupInvInit, SetupInvStep, ReparseInvInit, ReparseInvStep,
     MeantIsEmptyStep, PTL DEF Spec, InitKeepsMeantQueue
=============================================================================
