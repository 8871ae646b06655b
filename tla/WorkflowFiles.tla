--------------------------- MODULE WorkflowFiles ---------------------------
(***************************************************************************)
(* The markdown files an agent reads, and the scaffold around them: which  *)
(* command writes which file, over what, and in what order.                *)
(*                                                                         *)
(* Source: src/cyclopsctl/workflow_gen.py, the scaffold of project_setup.py*)
(* with the helpers of init_scaffold.py, and the callers in bootstrap.py   *)
(* and launcher.py.                                                        *)
(*                                                                         *)
(* A command is the list of the steps it has still to do, `todo`; a step   *)
(* looks at one file and may write it.  Writing truncates the file first,  *)
(* so a kill leaves it empty.  Between steps the operator edits, deletes   *)
(* and restores files.  What a rendered file says of the project, and how  *)
(* PRD, README and manifests are searched for it, is left out; tasks, the  *)
(* record of the parse and the text of the handover are in ProjectSetup.   *)
(***************************************************************************)
EXTENDS Naturals, Sequences, FiniteSets

CONSTANTS
    Projects,     \* what the first command may find: path -> content
    IgnoreFiles,  \* the .gitignore it may find, as sets of lines
    ForcePaths,   \* the sets of paths given by --force
    EditedPaths,  \* the paths the operator touches
    MaxCommands,  \* bound: how many commands are started
    MaxEdits,     \* bound: how often the operator acts
    MaxKills      \* bound: how often a command is killed or fails

AiContext == "ai-context.md"
Update    == "update-handover-prompt.md"
DocsIndex == "docs/index.md"
Config    == "cyclopsctl.toml"
Handover  == "current-handover-prompt.md"
Example   == "prd.example.md"
Rules     == ".cursor/rules/cyclopsctl"
Skill     == ".cursor/skills/cyclopsctl"
Ignore    == ".gitignore"

\* WORKFLOW_TEMPLATE_MAP and SCAFFOLD_TEMPLATE_MAP, in their order.
WorkflowFiles == <<AiContext, Update, DocsIndex>>
Templates     == <<AiContext, Handover, Update, Example>>

Paths == {AiContext, Update, DocsIndex, Config, Handover, Example, Rules, Skill}

\* What init repairs besides files, as it names it.
TasksInit == "native tasks init"
ParsePrd  == "parse-prd"

Repairs == Paths \cup {Ignore, TasksInit, ParsePrd}

\* The bundled stub, a text cyclopsctl rendered, one a person wrote that has the
\* references agents need, one without them, and a file whose writer was killed.
Contents == {"missing", "stub", "rendered", "custom", "outdated", "empty"}

\* GITIGNORE_ENTRIES
Entries == {"cyclopsctl.toml", ".cyclopsctl/", ".env"}

ASSUME WorkflowFilesAssumption ==
    /\ Projects \subseteq [Paths -> Contents]
    /\ EditedPaths \subseteq Paths
    /\ \A lines \in IgnoreFiles : lines \subseteq Entries \cup {"mine"}
    /\ MaxCommands \in Nat /\ MaxEdits \in Nat /\ MaxKills \in Nat

VARIABLES
    (* the project *)
    file,     \* content of each path
    ignore,   \* the lines of .gitignore
    storage,  \* .cyclopsctl/tasks exists
    tasks,    \* some tag has tasks
    prd,      \* prd.md exists
    (* the command *)
    cmd, todo, commands, edits, kills,
    (* history variables *)
    planned,  \* what a dry run would have listed at the start of the command
    written,  \* what it has done: the files it wrote, and the other repairs
    calm      \* the operator did nothing since it began

project == <<file, ignore, storage, tasks, prd>>
bounds  == <<commands, edits, kills>>
vars    == <<project, cmd, todo, bounds, planned, written, calm>>

Command == [kind : {"none", "init", "bootstrap", "phase", "launch"},
            skip : BOOLEAN, refresh : BOOLEAN, all : BOOLEAN,
            force : ForcePaths \cup {{}}, fromPrd : BOOLEAN, attach : BOOLEAN]

NoCommand == [kind |-> "none", skip |-> FALSE, refresh |-> FALSE, all |-> FALSE,
              force |-> {}, fromPrd |-> FALSE, attach |-> FALSE]

Step == [op : {"scaffold", "ignore", "storage", "add", "install", "inputs", "generate",
               "refresh", "settings", "tasks", "sync", "syncIfNeeded"},
         path : Paths \cup {Ignore}]

Init ==
    /\ file \in Projects /\ ignore \in IgnoreFiles
    /\ tasks \in BOOLEAN /\ storage = tasks /\ prd \in BOOLEAN
    /\ cmd = NoCommand /\ todo = <<>>
    /\ commands = 0 /\ edits = 0 /\ kills = 0
    /\ planned = {} /\ written = {} /\ calm = TRUE

-----------------------------------------------------------------------------
(* when a file is written *)

Missing(path) == file[path] = "missing"

Forced(c, path) == c.all \/ path \in c.force

\* workflow_file_staleness_reasons: docs/index.md and the handover have none.
IsStale(path, content) == path \in {AiContext, Update} /\ content \in {"outdated", "empty"}

\* _should_write_scaffold_path
ScaffoldNeeded(c, path) == Missing(path) \/ Forced(c, path)

\* Defect: what is not up to date counts as the stub.
GenerationNeededIfStale(c, path) ==
    \/ Forced(c, path) \/ Missing(path)
    \/ path # DocsIndex /\ (file[path] = "stub" \/ IsStale(path, file[path]))

\* _should_generate_workflow_file, _should_generate_docs_index
GenerationNeeded(c, path) ==
    \/ Forced(c, path) \/ Missing(path)
    \/ path # DocsIndex /\ file[path] = "stub"

\* Defect: takes an empty file for one with nothing outdated in it.
RefreshNeededIfText(path) == file[path] = "outdated" /\ IsStale(path, file[path])

\* refresh_stale_workflow_files
RefreshNeeded(path) == ~Missing(path) /\ IsStale(path, file[path])

\* install_cyclopsctl_cursor_rules, install_cyclopsctl_skill, as the generation calls
\* them; only the forced regeneration of everything replaces them.
InstallNeeded(c, path) == Missing(path) \/ c.all

\* _gitignore_needs_update
IgnoreNeeded == ~(Entries \subseteq ignore)

-----------------------------------------------------------------------------
(* the steps of the commands *)

\* A step that is about one path, and one that is about none.
On(op, paths) == [i \in DOMAIN paths |-> [op |-> op, path |-> paths[i]]]
Do(op)        == <<[op |-> op, path |-> Config]>>

\* Defect: the rules come with the task storage alone.
GenerateWithoutRules == Do("inputs") \o On("generate", WorkflowFiles)

\* generate_workflow_files
Generate == Do("inputs") \o On("generate", WorkflowFiles) \o On("install", <<Rules, Skill>>)

\* Defect: copies every template of the scaffold.
EnsureScaffoldWithWorkflow(c) ==
    On("scaffold", <<Config>>) \o On("ignore", <<Ignore>>) \o On("scaffold", Templates)

\* _ensure_scaffold: of the templates, the workflow files are left to the
\* generation.
EnsureScaffold(c) ==
    On("scaffold", <<Config>>)
        \o IF c.skip THEN <<>>
           ELSE On("ignore", <<Ignore>>)
                  \o On("scaffold", <<Handover, Example>>)

\* run_project_setup
InitSteps(c) ==
    EnsureScaffold(c) \o Do("storage") \o Generate
        \o (IF c.refresh THEN Do("inputs") \o On("refresh", WorkflowFiles) ELSE <<>>)
        \o On("settings", <<Config>>) \o Do("tasks") \o Do("syncIfNeeded")

\* run_bootstrap --with-workflow; --sync-handover-only leaves the tasks alone.
BootstrapSteps(syncOnly) ==
    (IF syncOnly THEN <<>> ELSE Do("storage") \o Do("tasks")) \o Do("sync") \o Generate

\* handle_launch_prd_change
PhaseSteps == Do("tasks") \o Generate \o Do("sync")

\* prepare_launch_workspace
LaunchSteps ==
    (IF Missing(AiContext) \/ Missing(Update) THEN Generate ELSE <<>>) \o Do("syncIfNeeded")

InSeq(paths) == {paths[i] : i \in DOMAIN paths}

\* _plan_scaffold_repairs: it lists the workflow files among the templates.
PlannedScaffold(c) ==
    {p \in {Config} : ScaffoldNeeded(c, p)}
      \cup IF c.skip THEN {}
           ELSE {p \in InSeq(Templates) : ScaffoldNeeded(c, p)}
                  \cup {p \in {Ignore} : IgnoreNeeded}

\* _plan_workflow_file_repairs
PlannedWorkflow(c) == {p \in InSeq(WorkflowFiles) : GenerationNeeded(c, p)}

\* detect_stale_workflow_files, also the note of doctor and launch.
StaleFiles == {p \in Paths : ~Missing(p) /\ IsStale(p, file[p])}

\* Rules and skill are listed with the task storage they come with.
PlannedTasks(c) ==
    IF c.attach THEN {}
    ELSE (IF storage THEN {} ELSE {TasksInit} \cup {p \in {Rules, Skill} : Missing(p)})
           \cup IF tasks THEN {} ELSE {ParsePrd}

\* What `init --dry-run` lists, without the analysis and the sync of the handover,
\* which depend on the report and on the tasks.
Planned(c) ==
    PlannedScaffold(c) \cup PlannedTasks(c) \cup PlannedWorkflow(c)
        \cup IF c.refresh THEN StaleFiles ELSE {}

Running == todo # <<>>

Start(c, steps) ==
    /\ ~Running /\ commands < MaxCommands
    /\ commands' = commands + 1
    /\ cmd' = c /\ todo' = steps
    /\ planned' = IF c.kind = "init" THEN Planned(c) ELSE {}
    /\ written' = {} /\ calm' = TRUE
    /\ UNCHANGED <<project, edits, kills>>

\* With neither PRD nor tasks init refuses; with tasks alone it attaches to them.
StartInit ==
    /\ prd \/ tasks
    /\ \E skip \in BOOLEAN, refresh \in BOOLEAN, all \in BOOLEAN, force \in ForcePaths :
         LET c == [NoCommand EXCEPT !.kind = "init", !.skip = skip, !.refresh = refresh,
                                    !.all = all, !.force = force, !.attach = ~prd]
         IN  (all => force = {}) /\ Start(c, InitSteps(c))

StartBootstrap ==
    \E all \in BOOLEAN, force \in ForcePaths, fromPrd \in BOOLEAN, syncOnly \in BOOLEAN :
        /\ syncOnly => tasks
        /\ all => force = {}
        /\ Start([NoCommand EXCEPT !.kind = "bootstrap", !.all = all, !.force = force,
                                   !.fromPrd = fromPrd],
                 BootstrapSteps(syncOnly))

LaunchAllowed == ~Missing(Config) /\ tasks

\* The PRD is another than the one last parsed.
StartPhase ==
    /\ LaunchAllowed /\ prd
    /\ Start([NoCommand EXCEPT !.kind = "phase"], PhaseSteps)

\* is_brownfield_attach_context
StartLaunch ==
    /\ LaunchAllowed /\ ~prd
    /\ Start([NoCommand EXCEPT !.kind = "launch"], LaunchSteps)

-----------------------------------------------------------------------------
(* one step *)

Now(op) == Running /\ Head(todo).op = op

Path == Head(todo).path

Passes == todo' = Tail(todo) /\ UNCHANGED <<cmd, bounds, planned, calm>>

\* Whether this step is one that writes.
Writes ==
    CASE Now("scaffold") -> ScaffoldNeeded(cmd, Path)
      [] Now("generate") -> GenerationNeeded(cmd, Path)
      [] Now("refresh")  -> RefreshNeeded(Path)
      [] Now("add")      -> Missing(Path)
      [] Now("install")  -> InstallNeeded(cmd, Path)
      [] OTHER -> FALSE

\* Defect: copies the template with its placeholders.
TextUnrendered == IF Path = Handover THEN "stub" ELSE "template"

\* The handover of the scaffold is a template with task 0.
Text == IF Path = Handover THEN "stub" ELSE "rendered"

WriteFile ==
    /\ Writes
    /\ file' = [file EXCEPT ![Path] = Text]
    /\ written' = written \cup {Path}
    /\ Passes
    /\ UNCHANGED <<ignore, storage, tasks, prd>>

SkipFile ==
    /\ Running /\ Head(todo).op \in {"scaffold", "generate", "refresh", "add", "install"}
    /\ ~Writes
    /\ Passes
    /\ UNCHANGED <<project, written>>

\* _update_gitignore appends the entries that are not there.
UpdateIgnore ==
    /\ Now("ignore")
    /\ IF IgnoreNeeded
       THEN ignore' = ignore \cup Entries /\ written' = written \cup {Ignore}
       ELSE UNCHANGED <<ignore, written>>
    /\ Passes
    /\ UNCHANGED <<file, storage, tasks, prd>>

\* init_project, where there is no directory for tasks; it adds rules and skill.
InitStorage ==
    /\ Now("storage")
    /\ storage' = TRUE
    /\ written' = IF storage THEN written ELSE written \cup {TasksInit}
    /\ todo' = (IF storage THEN <<>> ELSE On("add", <<Rules, Skill>>)) \o Tail(todo)
    /\ UNCHANGED <<file, ignore, tasks, prd, cmd, bounds, planned, calm>>

\* resolve_workflow_inputs
ReadInputs ==
    /\ Now("inputs")
    /\ cmd.fromPrd => prd
    /\ Passes
    /\ UNCHANGED <<project, written>>

SavesSettings == ~cmd.attach /\ ~Missing(Config)

\* persist_bootstrap_tasks_settings: the models chosen go into [tasks] of the
\* configuration, whose other lines stay.  With tasks it depends on the report.
SaveSettings ==
    /\ Now("settings")
    /\ \/ SavesSettings /\ written' = written \cup {Config}
       \/ (SavesSettings => tasks) /\ UNCHANGED written
    /\ Passes
    /\ UNCHANGED project

\* Where init finds tasks it parses nothing.
CanMakeTasks == prd \/ (cmd.kind = "init" /\ tasks)

\* parse_prd, which makes the directory for tasks if there is none, and
\* analyze_complexity.
MakeTasks ==
    /\ Now("tasks")
    /\ CanMakeTasks
    /\ tasks' = TRUE /\ storage' = TRUE
    /\ written' = written \cup (IF storage THEN {} ELSE {TasksInit})
                          \cup IF tasks THEN {} ELSE {ParsePrd}
    /\ Passes
    /\ UNCHANGED <<file, ignore, prd>>

\* resolve_prd_path, generate_workflow_from_bootstrap: the PRD is not there.
PrdGone ==
    /\ \/ Now("tasks") /\ ~CanMakeTasks
       \/ Now("inputs") /\ cmd.fromPrd /\ ~prd
    /\ cmd' = NoCommand /\ todo' = <<>>
    /\ UNCHANGED <<project, bounds, planned, written, calm>>

\* sync_current_handover: for the next task, or for none.
Sync ==
    /\ Now("sync")
    /\ \E text \in {"rendered", "stub"} : file' = [file EXCEPT ![Handover] = text]
    /\ written' = written \cup {Handover}
    /\ Passes
    /\ UNCHANGED <<ignore, storage, tasks, prd>>

\* handover_needs_sync; launch passes over an error.
SyncIfNeeded ==
    /\ Now("syncIfNeeded")
    /\ \/ /\ file' = [file EXCEPT ![Handover] = "rendered"]
          /\ written' = written \cup {Handover}
       \/ /\ ~Missing(Handover) \/ cmd.kind = "launch"
          /\ UNCHANGED <<file, written>>
       \/ /\ Missing(Handover)
          /\ file' = [file EXCEPT ![Handover] = "stub"]
          /\ written' = written \cup {Handover}
    /\ Passes
    /\ UNCHANGED <<ignore, storage, tasks, prd>>

-----------------------------------------------------------------------------
(* what may go wrong, and the operator *)

Gone ==
    /\ kills < MaxKills
    /\ kills' = kills + 1
    /\ cmd' = NoCommand /\ todo' = <<>>
    /\ UNCHANGED <<storage, tasks, prd, commands, edits, planned, written, calm>>

\* An error, Ctrl+C or a kill between two writes.
Stop == Running /\ Gone /\ UNCHANGED <<file, ignore>>

\* A kill after write_text opened the file and before its text is out.
KillInWrite ==
    \/ Writes /\ file' = [file EXCEPT ![Path] = "empty"] /\ Gone /\ UNCHANGED ignore
    \/ /\ Now("sync") \/ Now("syncIfNeeded")
       /\ file' = [file EXCEPT ![Handover] = "empty"] /\ Gone /\ UNCHANGED ignore
    \/ /\ Now("settings") /\ SavesSettings
       /\ file' = [file EXCEPT ![Config] = "empty"] /\ Gone /\ UNCHANGED ignore
    \/ Now("ignore") /\ IgnoreNeeded /\ ignore' = {} /\ Gone /\ UNCHANGED file

Disturbs ==
    /\ edits < MaxEdits
    /\ edits' = edits + 1
    /\ calm' = FALSE
    /\ UNCHANGED <<storage, tasks, cmd, todo, commands, kills, planned, written>>

\* Somebody writes a file, deletes it or checks out an older version.
EditFile ==
    /\ \E p \in EditedPaths, c \in {"missing", "custom", "outdated"} :
           file[p] # c /\ file' = [file EXCEPT ![p] = c]
    /\ Disturbs
    /\ UNCHANGED <<ignore, prd>>

EditIgnore ==
    /\ \E line \in ignore : ignore' = ignore \ {line}
    /\ Disturbs
    /\ UNCHANGED <<file, prd>>

EditPrd ==
    /\ prd' = ~prd
    /\ Disturbs
    /\ UNCHANGED <<file, ignore>>

Commands == StartInit \/ StartBootstrap \/ StartPhase \/ StartLaunch

Steps ==
    \/ WriteFile \/ SkipFile \/ UpdateIgnore \/ InitStorage
    \/ ReadInputs \/ SaveSettings \/ MakeTasks \/ PrdGone \/ Sync \/ SyncIfNeeded

Faults == Stop \/ KillInWrite

Operator == EditFile \/ EditIgnore \/ EditPrd

\* The bounds are reached and no command is under way.
Settled == ~Running /\ UNCHANGED vars

Next == Commands \/ Steps \/ Faults \/ Operator \/ Settled

Spec == Init /\ [][Next]_vars

-----------------------------------------------------------------------------
(* properties *)

\* Contents and steps are among those the code knows.
TypeOK ==
    /\ file \in [Paths -> Contents] /\ ignore \subseteq Entries \cup {"mine"}
    /\ storage \in BOOLEAN /\ tasks \in BOOLEAN /\ prd \in BOOLEAN
    /\ cmd \in Command /\ todo \in Seq(Step)
    /\ commands \in 0..MaxCommands /\ edits \in 0..MaxEdits /\ kills \in 0..MaxKills
    /\ planned \subseteq Repairs /\ written \subseteq Repairs
    /\ calm \in BOOLEAN

Written(path) == file[path] \in {"rendered", "custom", "outdated"}

\* workflow-generation.md, workflow-refresh.md: no command replaces a text that is
\* not the stub, whoever wrote it and however late, unless it was forced to, or
\* asked to refresh what lacks the references agents need; only the handover
\* follows the queue.  What files merge is lost only in a kill: the lines of
\* .gitignore, and those of cyclopsctl.toml while init saves its settings.
TextsKept ==
    [][edits' = edits =>
          /\ \A p \in Paths \ {Handover} :
                 (Written(p) /\ file'[p] # file[p]) =>
                     \/ Forced(cmd, p)
                     \/ cmd.refresh /\ file[p] = "outdated" /\ p # DocsIndex
                     \/ p = Config /\ Now("settings")
          /\ ignore \subseteq ignore' \/ kills' # kills]_vars

Finished(kind) == ~Running /\ cmd.kind = kind /\ calm

\* What init may do without listing it: the sync of the handover; its settings,
\* unless it attaches; rules and skill where the task storage exists already or
\* everything is forced.
Unlisted ==
    {Handover} \cup (IF cmd.attach THEN {} ELSE {Config})
        \cup IF TasksInit \in planned /\ ~cmd.all THEN {} ELSE {Rules, Skill}

\* README.md: `--dry-run` lists "paths that would be written".  An init that nobody
\* disturbed has done all that a dry run would have listed, although the two decide
\* in different functions, and beyond the list it has written only what the dry run
\* has no line for: see Unlisted.
PlanKept ==
    Finished("init") => planned \subseteq written /\ written \ planned \subseteq Unlisted

\* "Re-runs on an already-ready project are idempotent": whatever a killed
\* command left behind, after an init that nobody disturbed the same command
\* without --force would write nothing, and no file it is about is missing.
InitSettles ==
    Finished("init") =>
        /\ Planned([cmd EXCEPT !.all = FALSE, !.force = {}]) = {}
        /\ \A p \in {AiContext, Update, DocsIndex, Config, Handover, Rules, Skill} : ~Missing(p)

\* workflow-refresh.md names `init --refresh-workflow` as the remedy: after it
\* the note is gone, also where a killed command left a file empty.
RefreshCures == (Finished("init") /\ cmd.refresh) => StaleFiles = {}
=============================================================================
