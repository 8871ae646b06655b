----------------------------- MODULE TaskStore -----------------------------
(***************************************************************************)
(* The task document of a project: .cyclopsctl/tasks/tasks.json.           *)
(*                                                                         *)
(* Source: src/cyclopsctl/tasks/store.py, with the functions of            *)
(* parse_prd.py, analyze.py, cli.py and native_backend.py that make a new  *)
(* document from an old one.  A document is a function from the tags it    *)
(* has to queues, and a queue is a set of task records: a missing file and *)
(* one without tags are alike to every reader, and no reader depends on    *)
(* the order of a tasks array.                                             *)
(*                                                                         *)
(* `text` stands for what a task says (title, description, details): the   *)
(* PRD text it was made from.  `score` is the complexity, of which only    *)
(* matters what text the model judged.                                     *)
(***************************************************************************)
EXTENDS Integers, Sequences, FiniteSets

NoText == "no text"         \* a missing PRD, a task without complexity

DONE_STATUS == "done"

Ids(queue) == {t.id : t \in queue}

UniqueIds(queue) == \A t, u \in queue : t.id = u.id => t = u

\* The depth-first search of validate_no_circular_dependencies finds a cycle
\* exactly if some tasks all depend on tasks among themselves.  Ids that the
\* queue does not have lead nowhere.
Circular(queue) ==
    \E S \in (SUBSET Ids(queue)) \ {{}} :
        \A t \in queue : t.id \in S => t.deps \cap S # {}

WellFormed(queue) == UniqueIds(queue) /\ ~Circular(queue)

\* Every complexity in the queue was given to the very task that has it.
ScoredAsJudged(queue) == \A t \in queue : t.score \in {t.text, NoText}

(* the document *)
HasTasks(document, tag) == tag \in DOMAIN document /\ document[tag] # {}

SaveTagTasks(document, tag, queue) ==
    [t \in DOMAIN document \cup {tag} |-> IF t = tag THEN queue ELSE document[t]]

\* A new tag begins as a copy of the current one; a known one is left alone.
AddTag(document, tag, current) ==
    IF tag \in DOMAIN document
    THEN document
    ELSE SaveTagTasks(document, tag,
                      IF current \in DOMAIN document THEN document[current] ELSE {})

(* queries on a queue *)
Pending(queue) == {t \in queue : t.status # DONE_STATUS}

Satisfied(queue, t) ==
    \A d \in t.deps : \E u \in queue : u.id = d /\ u.status = DONE_STATUS

Eligible(queue) == {t \in queue : t.status = "pending" /\ Satisfied(queue, t)}

\* `tasks next`: a set of at most one task.
NextTask(queue) == {t \in Eligible(queue) : \A u \in Eligible(queue) : t.id <= u.id}

(* new queues from old ones *)
SetTaskStatus(queue, id, status) ==
    {IF t.id = id THEN [t EXCEPT !.status = status] ELSE t : t \in queue}

\* What parse_tasks_response accepts: ids 1..n, any dependencies, any status, and
\* a complexity or none, judged from the text the model was given.
ParsedTasks(plan, text) ==
    {[id |-> i, deps |-> plan[i].deps, status |-> plan[i].status, text |-> text,
      score |-> IF plan[i].complexity THEN text ELSE NoText] : i \in DOMAIN plan}

\* Defect: counts the tasks, whose ids may have gaps.
TaskCount(queue) == Cardinality(queue)

HighestId(queue) == CHOOSE i \in Ids(queue) : \A j \in Ids(queue) : j <= i

\* Dependencies within the batch move with it, all others stay as they are.
Shifted(t, offset, batch) ==
    [t EXCEPT !.id = @ + offset,
              !.deps = {IF d \in batch THEN d + offset ELSE d : d \in @}]

RemapForAppend(existing, new) ==
    IF existing = {}
    THEN new
    ELSE existing \cup {Shifted(t, HighestId(existing), Ids(new)) : t \in new}

\* The ids that were analysed get the score of the text that was analysed.
BackfillComplexity(queue, analysis) ==
    {IF \E a \in analysis : a.id = t.id
     THEN [t EXCEPT !.score = (CHOOSE a \in analysis : a.id = t.id).text]
     ELSE t : t \in queue}
=============================================================================
