---------------------------- MODULE ProjectSetup ----------------------------
(***************************************************************************)
(* `init`, `launch`, `bootstrap` and `analyze-complexity`: how a PRD       *)
(* becomes a task queue with scores, a handover and a record of the parse. *)
(*                                                                         *)
(* Source: src/cyclopsctl/project_setup.py and bootstrap.py with the       *)
(* pipelines of tasks/parse_prd.py and tasks/analyze.py they run.          *)
(*                                                                         *)
(* Each file of the project is a variable.  One action is the code between *)
(* two points where the command waits for a model, or where a kill leaves  *)
(* another set of files behind; `pc` names them.  While a command runs,    *)
(* the operator may edit the PRD and use `cyclopsctl tasks` in another     *)
(* terminal.  A command that refuses to start changes nothing and has no   *)
(* action.                                                                 *)
(***************************************************************************)
EXTENDS TaskStore

CONSTANTS
    Tags,           \* tag names, numbered in their sorted order
    DEFAULT_TAG,    \* "master"
    Texts,          \* contents of the PRD file
    Plans,          \* task lists a model may return for a PRD
    Statuses,       \* statuses the operator may give to a task
    InitDocuments,  \* task documents the first command may find
    MaxCommands,    \* bound: how many commands are started
    MaxEdits        \* bound: how often the operator acts

NoTag == 0

ASSUME ProjectSetupAssumption ==
    /\ Tags \subseteq Nat \ {NoTag} /\ DEFAULT_TAG \in Tags
    /\ NoText \notin Texts
    /\ MaxCommands \in Nat /\ MaxEdits \in Nat

\* A task as it is stored; its text is never missing.
Task == [id : Nat \ {0}, deps : SUBSET Nat, status : STRING, text : Texts,
         score : Texts \cup {NoText}]

IsQueue(q) == q \subseteq Task /\ IsFiniteSet(q)

IsDocument(d) == DOMAIN d \subseteq Tags /\ \A t \in DOMAIN d : IsQueue(d[t])

ASSUME DataAssumption ==
    /\ Plans \subseteq
           Seq([deps : SUBSET Nat, status : STRING, complexity : BOOLEAN]) \ {<<>>}
    /\ Statuses \subseteq STRING
    /\ \A d \in InitDocuments :
           IsDocument(d) /\ \A t \in DOMAIN d : WellFormed(d[t]) /\ ScoredAsJudged(d[t])

VARIABLES
    (* files *)
    prd,        \* prd.md
    document,   \* .cyclopsctl/tasks/tasks.json
    tag,        \* .cyclopsctl/tasks/state.json
    report,     \* .cyclopsctl/reports/complexity-report.json, {} if missing
    handover,   \* current-handover-prompt.md: task id and the text it is from
    record,     \* .cyclopsctl/last-parsed-prd.json
    scaffold,   \* cyclopsctl.toml and the workflow files exist
    (* the command *)
    pc, commands, edits,
    cmd,        \* its kind and flags
    target,     \* the tag it works on, once resolved
    text,       \* the PRD text it read
    scored,     \* the tasks it sent to the model for analysis
    (* history variable *)
    calm        \* the operator did nothing since the command began

files  == <<prd, document, tag, report, handover, record, scaffold>>
locals == <<cmd, target, text, scored>>
vars   == <<files, pc, commands, edits, locals, calm>>

NoRecord   == [text |-> NoText, tag |-> NoTag]
NoHandover == [id |-> -1, text |-> NoText]
Template   == [id |-> 0, text |-> NoText]  \* the stub, and an empty queue's text

Kinds == {"none", "init", "launch", "bootstrap", "analyze", "sync"}

\* `tag` is the tag passed on to the pipelines; `analyze` says when the
\* analysis runs: skip_if_exists is "missing", --skip-analyze is "never".
NoCommand == [kind |-> "none", tag |-> NoTag, append |-> FALSE,
              parse |-> FALSE, analyze |-> "never"]

Idle == {"idle", "done"}
PCs  == Idle \cup {"prepare", "addTag", "useTag", "begin", "parse", "record", "analyze",
                   "scoring", "backfill", "rerecord", "sync", "final"}

Effective(named, default) == IF named = NoTag THEN default ELSE named

WithTasks == {t \in Tags : HasTasks(document, t)}

Init ==
    /\ prd \in Texts
    /\ document \in InitDocuments
    /\ tag = DEFAULT_TAG
    /\ report = {}
    /\ handover = NoHandover
    /\ record = NoRecord
    /\ scaffold = FALSE
    /\ pc = "idle" /\ commands = 0 /\ edits = 0 /\ calm = TRUE
    /\ cmd = NoCommand /\ target = NoTag /\ text = NoText /\ scored = {}

-----------------------------------------------------------------------------
(* starting a command *)

Start(c) ==
    /\ pc \in Idle
    /\ commands < MaxCommands
    /\ commands' = commands + 1
    /\ UNCHANGED edits
    /\ cmd' = c
    /\ calm' = TRUE
    /\ scored' = {}

\* parse_prd_with_cursor up to the call of the model.
BeginParse(named) ==
    /\ pc' = "parse"
    /\ target' = Effective(named, tag)
    /\ text' = prd

SkipParse ==
    /\ pc' = "analyze"
    /\ target' = NoTag
    /\ text' = NoText

\* resolve_backfill_tag, where some tag has tasks.
BackfillTag(named) ==
    IF named \in WithTasks THEN named
    ELSE IF tag \in WithTasks THEN tag
    ELSE IF DEFAULT_TAG \in WithTasks THEN DEFAULT_TAG
    ELSE CHOOSE t \in WithTasks : \A u \in WithTasks : t <= u

BackfillRecord(named) ==
    record' = IF record = NoRecord /\ prd # NoText /\ WithTasks # {}
              THEN [text |-> prd, tag |-> BackfillTag(named)]
              ELSE record

\* prd_changed_with_existing_tasks
PrdChanged(named) ==
    /\ record # NoRecord
    /\ HasTasks(document, Effective(named, record.tag))
    /\ prd # record.text

\* run_project_setup: whether to parse is decided for the given tag or master, and
\* from then on there is a PRD or there is none.
StartInit(named) ==
    LET hasTasks == HasTasks(document, Effective(named, DEFAULT_TAG))
        parses   == ~hasTasks
    IN  /\ IF prd = NoText THEN hasTasks ELSE ~PrdChanged(named)
        /\ Start([kind |-> "init", tag |-> named, append |-> FALSE,
                  parse |-> parses, analyze |-> "missing"])
        /\ scaffold' = TRUE
        /\ handover' = IF handover = NoHandover THEN Template ELSE handover
        /\ pc' = "prepare" /\ target' = NoTag /\ text' = prd
        /\ UNCHANGED <<prd, document, tag, report, record>>

\* is_project_initialized_for_launch
Initialized == scaffold /\ WithTasks # {}

\* A project without record gets one; its PRD then counts as unchanged.
LaunchBackfillsRecord(named) ==
    /\ Initialized /\ prd # NoText /\ record = NoRecord
    /\ Start(NoCommand)
    /\ BackfillRecord(named)
    /\ pc' = "done" /\ target' = NoTag /\ text' = NoText
    /\ UNCHANGED <<prd, document, tag, report, handover, scaffold>>

\* The tag is the one given, the one proposed, or what the operator typed.
StartLaunch(new) ==
    /\ Initialized /\ prd # NoText /\ record # NoRecord
    /\ prd # record.text
    /\ HasTasks(document, record.tag)
    /\ Start([kind |-> "launch", tag |-> new, append |-> FALSE,
              parse |-> TRUE, analyze |-> "always"])
    /\ pc' = "addTag" /\ target' = new /\ text' = NoText
    /\ UNCHANGED files

\* Defect: looks at tasks only if a tag is given.
ReparseRefusedIfNamed(named) ==
    /\ record # NoRecord /\ named # NoTag
    /\ HasTasks(document, named) /\ prd # record.text

\* _guard_destructive_reparse
ReparseRefused(named) ==
    /\ record # NoRecord
    /\ HasTasks(document, Effective(named, record.tag))
    /\ prd # record.text

StartBootstrap(named, append, analyze) ==
    /\ prd # NoText
    /\ append \/ ~ReparseRefused(named)
    /\ Start([kind |-> "bootstrap", tag |-> named, append |-> append,
              parse |-> TRUE, analyze |-> analyze])
    /\ BeginParse(named)
    /\ UNCHANGED files

\* `analyze-complexity`, and `bootstrap --sync-handover-only`.
StartAnalyze(named, analyze) ==
    /\ Effective(named, tag) \in DOMAIN document
    /\ Start([NoCommand EXCEPT !.kind = "analyze", !.tag = named, !.analyze = analyze])
    /\ SkipParse
    /\ UNCHANGED files

StartSync(named) ==
    /\ Effective(named, tag) \in DOMAIN document
    /\ Start([NoCommand EXCEPT !.kind = "sync", !.tag = named])
    /\ pc' = "sync" /\ target' = NoTag /\ text' = NoText
    /\ UNCHANGED files

-----------------------------------------------------------------------------
(* before the first call of the model *)

\* `init` records a parse it finds unrecorded; without a PRD (attach mode) it
\* leaves the record alone.
PrepareInit ==
    /\ pc = "prepare"
    /\ IF text = NoText
       THEN UNCHANGED record
       ELSE BackfillRecord(Effective(cmd.tag, DEFAULT_TAG))
    /\ IF cmd.parse THEN pc' = "begin" /\ UNCHANGED <<target, text>> ELSE SkipParse
    /\ UNCHANGED <<prd, document, tag, report, handover, scaffold, commands, edits,
                   cmd, scored, calm>>

\* A new phase is a new tag.
AddLaunchTag ==
    /\ pc = "addTag"
    /\ document' = AddTag(document, target, tag)
    /\ pc' = "useTag"
    /\ UNCHANGED <<prd, tag, report, handover, record, scaffold, commands, edits, locals, calm>>

UseLaunchTag ==
    /\ pc = "useTag"
    /\ tag' = target
    /\ pc' = "begin"
    /\ UNCHANGED <<prd, document, report, handover, record, scaffold, commands, edits, locals,
                   calm>>

BeginPreparedParse ==
    /\ pc = "begin"
    /\ prd # NoText
    /\ BeginParse(cmd.tag)
    /\ UNCHANGED <<files, commands, edits, cmd, scored, calm>>

(* parse_prd_with_cursor *)

Existing == IF target \in DOMAIN document THEN document[target] ELSE {}

\* persist_parsed_tasks
NewQueue(tasks) == IF cmd.append THEN RemapForAppend(Existing, tasks) ELSE tasks

\* save_tag_tasks refuses a queue with a cycle.
Accepted(queue) == ~Circular(queue)

ParseReturns(plan) ==
    LET queue == NewQueue(ParsedTasks(plan, text))
    IN  /\ pc = "parse"
        /\ Accepted(queue)
        /\ document' = SaveTagTasks(document, target, queue)
        /\ pc' = "record"
        /\ UNCHANGED <<prd, tag, report, handover, record, scaffold, commands, edits, locals, calm>>

\* Defect: records the flag and not the tag it resolves to.
WriteRecordOfFlag(t) == prd # NoText /\ record' = [text |-> prd, tag |-> cmd.tag]

\* write_last_parsed_prd hashes the file as it is now.
WriteRecord(t) == prd # NoText /\ record' = [text |-> prd, tag |-> t]

RecordParse ==
    /\ pc = "record"
    /\ WriteRecord(target)
    /\ pc' = "analyze"
    /\ UNCHANGED <<prd, document, tag, report, handover, scaffold, commands, edits, locals, calm>>

(* analyze_complexity_with_cursor *)

\* run_project_setup records the parse once more; the CLI command is over.
AfterAnalysis ==
    CASE cmd.kind = "init" /\ cmd.parse -> "rerecord"
      [] cmd.kind = "analyze" -> "done"
      [] OTHER -> "sync"

\* Defect: a report of another phase is good enough.
SkippedIfReported == cmd.analyze = "never" \/ report # {}

Skipped == cmd.analyze = "never" \/ (cmd.analyze = "missing" /\ report # {})

\* _load_tag_tasks: the given tag, or the current one at this moment.
Loaded == document[Effective(cmd.tag, tag)]

BeginAnalysis ==
    /\ pc = "analyze"
    /\ IF Skipped \/ Pending(Loaded) = {}
       THEN pc' = AfterAnalysis /\ UNCHANGED <<target, scored>>
       ELSE /\ pc' = "scoring"
            /\ target' = Effective(cmd.tag, tag)
            /\ scored' = Pending(Loaded)
    /\ UNCHANGED <<files, commands, edits, cmd, text, calm>>

\* Every task that was sent must be scored, and no other.
Analysis == {[id |-> t.id, text |-> t.text] : t \in scored}

AnalysisReturns ==
    /\ pc = "scoring"
    /\ report' = Analysis
    /\ pc' = "backfill"
    /\ UNCHANGED <<prd, document, tag, handover, record, scaffold, commands, edits, locals, calm>>

\* Defect: saves the tasks that were analysed, as they were.
ScoredPending(t) == BackfillComplexity(scored, Analysis)

\* The queue is loaded anew; scores cannot close a cycle, so the save is accepted.
ScoredQueue(t) == BackfillComplexity(document[t], Analysis)

\* Defect: resolves the tag once more.
BackfillCurrentTag ==
    /\ pc = "backfill"
    /\ LET t == Effective(cmd.tag, tag)
       IN  document' = SaveTagTasks(document, t, ScoredQueue(t))
    /\ pc' = AfterAnalysis
    /\ UNCHANGED <<prd, tag, report, handover, record, scaffold, commands, edits, locals, calm>>

Backfill ==
    /\ pc = "backfill"
    /\ document' = SaveTagTasks(document, target, ScoredQueue(target))
    /\ pc' = AfterAnalysis
    /\ UNCHANGED <<prd, tag, report, handover, record, scaffold, commands, edits, locals, calm>>

-----------------------------------------------------------------------------
(* the end of a command *)

RecordInit ==
    /\ pc = "rerecord"
    /\ WriteRecord(Effective(cmd.tag, DEFAULT_TAG))
    /\ pc' = "sync"
    /\ UNCHANGED <<prd, document, tag, report, handover, scaffold, commands, edits, locals, calm>>

\* Defect: the stub counts as a handover.
HandoverOutdated(h, next) == h = NoHandover \/ (h.id # 0 /\ \E t \in next : t.id # h.id)

\* handover_needs_sync; `next` is the result of `tasks next`.
HandoverNeedsSync(h, next) ==
    CASE h = NoHandover -> TRUE
      [] h.id = 0 -> next # {}
      [] OTHER -> \E t \in next : t.id # h.id

HandoverFor(next) ==
    IF next = {}
    THEN Template
    ELSE LET t == CHOOSE u \in next : TRUE IN [id |-> t.id, text |-> t.text]

\* sync_current_handover; _finalize_project_setup asks first.
SyncHandover ==
    LET next == NextTask(Loaded)
    IN  /\ pc = "sync"
        /\ handover' = IF cmd.kind = "init" /\ ~HandoverNeedsSync(handover, next)
                       THEN handover
                       ELSE HandoverFor(next)
        /\ pc' = IF cmd.kind = "launch" THEN "final" ELSE "done"
        /\ UNCHANGED <<prd, document, tag, report, record, scaffold, commands, edits, locals, calm>>

RecordLaunch ==
    /\ pc = "final"
    /\ WriteRecord(target)
    /\ pc' = "done"
    /\ UNCHANGED <<prd, document, tag, report, handover, scaffold, commands, edits, locals, calm>>

\* A model that fails twice, an error, Ctrl+C or a kill: what was written stays.
Stop ==
    /\ pc \notin Idle
    /\ pc' = "idle"
    /\ cmd' = NoCommand /\ target' = NoTag /\ text' = NoText /\ scored' = {}
    /\ UNCHANGED <<files, commands, edits, calm>>

(* the operator *)

Disturbs ==
    /\ edits < MaxEdits
    /\ edits' = edits + 1
    /\ calm' = FALSE
    /\ UNCHANGED <<pc, commands, locals>>

EditPrd ==
    /\ \E t \in (Texts \cup {NoText}) \ {prd} : prd' = t
    /\ Disturbs
    /\ UNCHANGED <<document, tag, report, handover, record, scaffold>>

\* `tasks use-tag`
UseTag ==
    /\ \E t \in (DOMAIN document) \ {tag} : tag' = t
    /\ Disturbs
    /\ UNCHANGED <<prd, document, report, handover, record, scaffold>>

\* `tasks set-status`
SetStatus ==
    /\ \E t \in DOMAIN document, s \in Statuses :
           \E i \in Ids(document[t]) :
               document' = SaveTagTasks(document, t, SetTaskStatus(document[t], i, s))
    /\ document' # document
    /\ Disturbs
    /\ UNCHANGED <<prd, tag, report, handover, record, scaffold>>

Commands ==
    \/ \E named \in Tags \cup {NoTag} :
        \/ StartInit(named)
        \/ LaunchBackfillsRecord(named)
        \/ \E append \in BOOLEAN, analyze \in {"missing", "never"} :
               StartBootstrap(named, append, analyze)
        \/ \E analyze \in {"always", "missing"} : StartAnalyze(named, analyze)
        \/ StartSync(named)
    \/ \E new \in Tags : StartLaunch(new)

Steps ==
    \/ PrepareInit \/ AddLaunchTag \/ UseLaunchTag \/ BeginPreparedParse
    \/ \E plan \in Plans : ParseReturns(plan)
    \/ RecordParse \/ BeginAnalysis \/ AnalysisReturns \/ Backfill
    \/ RecordInit \/ SyncHandover \/ RecordLaunch
    \/ Stop

Operator == EditPrd \/ UseTag \/ SetStatus

\* The bounds are reached and no command is under way.
Settled == pc \in Idle /\ UNCHANGED vars

Next == Commands \/ Steps \/ Operator \/ Settled

Spec == Init /\ [][Next]_vars

-----------------------------------------------------------------------------
(* properties *)

FilesOK ==
    /\ prd \in Texts \cup {NoText} /\ tag \in Tags
    /\ IsDocument(document)
    /\ report \subseteq [id : Nat \ {0}, text : Texts]
    /\ handover \in {NoHandover, Template} \cup [id : Nat \ {0}, text : Texts]
    /\ record \in {NoRecord} \cup [text : Texts, tag : Tags]
    /\ scaffold \in BOOLEAN

CommandOK ==
    /\ pc \in PCs /\ commands \in 0..MaxCommands /\ edits \in 0..MaxEdits
    /\ cmd \in [kind : Kinds, tag : Tags \cup {NoTag}, append : BOOLEAN,
                parse : BOOLEAN, analyze : {"always", "missing", "never"}]
    /\ target \in Tags \cup {NoTag} /\ text \in Texts \cup {NoText}
    /\ scored \subseteq Task
    /\ calm \in BOOLEAN

\* The files have the shape their readers expect; the record names a real text
\* and tag, the handover a task.
TypeOK == FilesOK /\ CommandOK

\* Whatever the models return and in whatever order commands run, no tag ever
\* has two tasks with one id or tasks that wait for one another: `tasks next`
\* and the run loop look tasks up by id and never reach a task in a cycle.
QueuesWellFormed == \A t \in DOMAIN document : WellFormed(document[t])

Work(queue) == {[id |-> t.id, status |-> t.status, text |-> t.text] : t \in queue}

CommandStep == pc' # pc

\* A command loses no task and no status of any tag, except that a parse
\* without --append replaces the queue it works on: saves merge with the other
\* tags, append keeps what is there, scores go into the queue as it is after
\* the model's answer and not as it was before.
WorkKept ==
    [][CommandStep =>
          \A t \in DOMAIN document :
              \/ pc = "parse" /\ ~cmd.append /\ t = target
              \/ t \in DOMAIN document' /\ Work(document[t]) \subseteq Work(document'[t])]_vars

\* A complexity in the queue was given to the very task that has it, although
\* ids repeat from tag to tag and the operator may switch tags meanwhile.
ScoresFit == \A t \in DOMAIN document : ScoredAsJudged(document[t])

Finished(kind) == pc = "done" /\ cmd.kind = kind /\ calm

\* After a launch that nobody disturbed, the new phase is the current tag, all
\* of its tasks are from the PRD, those still to do are scored, the report is
\* theirs alone, the handover names the next one, and another launch would find
\* nothing to do.
PhaseReady ==
    Finished("launch") =>
        LET queue == document[target] IN
        /\ tag = target /\ queue # {}
        /\ \A t \in queue : t.text = prd
        /\ \A t \in Pending(queue) : t.score = prd
        /\ Pending(queue) # {} => report = {[id |-> t.id, text |-> t.text] : t \in Pending(queue)}
        /\ handover = HandoverFor(NextTask(queue))
        /\ record = [text |-> prd, tag |-> target]

\* `init` is idempotent: after an init that nobody disturbed, another one with
\* the same arguments would find tasks, scores, record and handover in place.
\* Without --tag this is claimed where master is the current tag; of the handover
\* only the id, which is all that init compares.
InitReady ==
    (Finished("init") /\ (cmd.tag # NoTag \/ tag = DEFAULT_TAG)) =>
        LET queue == document[Effective(cmd.tag, DEFAULT_TAG)] IN
        /\ scaffold /\ queue # {}
        /\ prd # NoText => record # NoRecord /\ ~PrdChanged(cmd.tag)
        /\ report = {} => Pending(queue) = {}
        /\ \A t \in NextTask(queue) : handover.id = t.id

\* A bootstrap without --append that replaces tasks has read the text of the last
\* parse, unless none is recorded, or no tag was given and the recorded one has no
\* tasks.  Nothing is said of whose tasks they are: the last parse may have been
\* into another tag, and those of the queue made from another text.
BootstrapReplacesSamePrd ==
    [][(cmd.kind = "bootstrap" /\ pc = "parse" /\ pc' = "record" /\ ~cmd.append
          /\ HasTasks(document, target))
       => \/ text = record.text \/ record = NoRecord
          \/ cmd.tag = NoTag /\ ~HasTasks(document, record.tag)]_vars

\* project-setup.md: init parses "only when no tasks exist for the tag".
InitKeepsQueues ==
    [][(cmd.kind = "init" /\ CommandStep) =>
          \A t \in DOMAIN document : Work(document[t]) \subseteq Work(document'[t])]_vars
=============================================================================
