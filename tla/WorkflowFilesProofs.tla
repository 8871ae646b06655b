------------------------ MODULE WorkflowFilesProofs ------------------------
(***************************************************************************)
(* What the commands do to the files of a project, for every project they  *)
(* find, every --force and every number of commands, edits and kills.      *)
(*                                                                         *)
(* The invariants speak of the set of steps that are left, not of their    *)
(* order: no step undoes what another one has done.                        *)
(***************************************************************************)
EXTENDS WorkflowFiles, SequenceTheorems, TLAPS

At(op, path) == [op |-> op, path |-> path]

Left(steps) == {steps[i] : i \in DOMAIN steps}

Todo(op, path) == At(op, path) \in Left(todo)

\* Steps there are.  Only `ignore` is about a path that has no content.
GoodStep == {s \in Step : s.path = Ignore <=> s.op = "ignore"}

(***************************************************************************)
(* Lists of steps                                                          *)
(***************************************************************************)

\* The steps of two lists one after the other.
LEMMA LeftConcat ==
    ASSUME NEW s \in Seq(GoodStep), NEW t \in Seq(GoodStep)
    PROVE  s \o t \in Seq(GoodStep) /\ Left(s \o t) = Left(s) \cup Left(t)
<1>1. /\ s \o t \in Seq(GoodStep) /\ Len(s \o t) = Len(s) + Len(t)
      /\ \A i \in 1..Len(s) + Len(t) :
             (s \o t)[i] = IF i <= Len(s) THEN s[i] ELSE t[i - Len(s)]
  BY ConcatProperties
<1>2. /\ DOMAIN s = 1..Len(s) /\ DOMAIN t = 1..Len(t) /\ Len(s) \in Nat /\ Len(t) \in Nat
      /\ DOMAIN (s \o t) = 1..Len(s) + Len(t)
  BY <1>1
<1>3. ASSUME NEW x \in Left(s \o t) PROVE x \in Left(s) \cup Left(t)
  <2>1. PICK i \in 1..Len(s) + Len(t) : x = (s \o t)[i]
    BY <1>2, <1>3 DEF Left
  <2>2. CASE i <= Len(s)
    BY <1>1, <1>2, <2>1, <2>2 DEF Left
  <2>3. CASE ~(i <= Len(s))
    <3>1. x = t[i - Len(s)] /\ i - Len(s) \in 1..Len(t)
      BY <1>1, <1>2, <2>1, <2>3
    <3> QED  BY <1>2, <3>1 DEF Left
  <2> QED  BY <2>2, <2>3
<1>4. ASSUME NEW x \in Left(s) PROVE x \in Left(s \o t)
  <2>1. PICK i \in 1..Len(s) : x = s[i]
    BY <1>2, <1>4 DEF Left
  <2>2. i \in 1..Len(s) + Len(t) /\ x = (s \o t)[i]
    BY <1>1, <1>2, <2>1
  <2> QED  BY <1>2, <2>2 DEF Left
<1>5. ASSUME NEW x \in Left(t) PROVE x \in Left(s \o t)
  <2>1. PICK i \in 1..Len(t) : x = t[i]
    BY <1>2, <1>5 DEF Left
  <2>2. i + Len(s) \in 1..Len(s) + Len(t) /\ x = (s \o t)[i + Len(s)]
    BY <1>1, <1>2, <2>1
  <2> QED  BY <1>2, <2>2 DEF Left
<1> QED  BY <1>1, <1>3, <1>4, <1>5

\* The first step of a list, and the others.
LEMMA LeftTail ==
    ASSUME NEW s \in Seq(GoodStep), s # <<>>
    PROVE  /\ Tail(s) \in Seq(GoodStep) /\ Head(s) \in GoodStep
           /\ Left(s) = {Head(s)} \cup Left(Tail(s))
<1>1. /\ Head(s) \in GoodStep /\ Tail(s) \in Seq(GoodStep) /\ Len(Tail(s)) = Len(s) - 1
      /\ \A i \in 1..Len(Tail(s)) : Tail(s)[i] = s[i + 1]
  BY HeadTailProperties
<1>2. /\ DOMAIN s = 1..Len(s) /\ Len(s) \in Nat \ {0} /\ Head(s) = s[1]
      /\ DOMAIN Tail(s) = 1..Len(s) - 1
  BY <1>1
<1>3. ASSUME NEW x \in Left(s) PROVE x \in {Head(s)} \cup Left(Tail(s))
  <2>1. PICK i \in 1..Len(s) : x = s[i]
    BY <1>2, <1>3 DEF Left
  <2>2. CASE i # 1
    <3>1. i - 1 \in 1..Len(Tail(s)) /\ x = Tail(s)[i - 1]
      BY <1>1, <1>2, <2>1, <2>2
    <3> QED  BY <1>1, <1>2, <3>1 DEF Left
  <2> QED  BY <1>2, <2>1, <2>2
<1>4. ASSUME NEW x \in Left(Tail(s)) PROVE x \in Left(s)
  <2>1. PICK i \in 1..Len(s) - 1 : x = Tail(s)[i]
    BY <1>2, <1>4 DEF Left
  <2>2. x = s[i + 1] /\ i + 1 \in 1..Len(s)
    BY <1>1, <1>2, <2>1
  <2> QED  BY <1>2, <2>2 DEF Left
<1>5. Head(s) \in Left(s)
  BY <1>2 DEF Left
<1> QED  BY <1>1, <1>3, <1>4, <1>5

\* The empty list is a list of steps.
LEMMA LeftEmpty == Left(<<>>) = {} /\ <<>> \in Seq(GoodStep)
BY DEF Left

Ops == {"scaffold", "ignore", "storage", "add", "install", "inputs", "generate",
        "refresh", "settings", "tasks", "sync", "syncIfNeeded"}

\* Lists of up to three steps.
LEMMA ShortLists ==
    /\ \A x \in GoodStep : <<x>> \in Seq(GoodStep) /\ Left(<<x>>) = {x}
    /\ \A x, y \in GoodStep : <<x, y>> \in Seq(GoodStep) /\ Left(<<x, y>>) = {x, y}
    /\ \A x, y, z \in GoodStep :
           <<x, y, z>> \in Seq(GoodStep) /\ Left(<<x, y, z>>) = {x, y, z}
<1>1. ASSUME NEW x \in GoodStep PROVE <<x>> \in Seq(GoodStep) /\ Left(<<x>>) = {x}
  BY DEF Left
<1>2. ASSUME NEW x \in GoodStep, NEW y \in GoodStep
      PROVE  <<x, y>> \in Seq(GoodStep) /\ Left(<<x, y>>) = {x, y}
  BY DEF Left
<1>3. ASSUME NEW x \in GoodStep, NEW y \in GoodStep, NEW z \in GoodStep
      PROVE  <<x, y, z>> \in Seq(GoodStep) /\ Left(<<x, y, z>>) = {x, y, z}
  BY DEF Left
<1> QED  BY <1>1, <1>2, <1>3

\* One operation on up to three paths, and an operation on none.
LEMMA LeftOn ==
    ASSUME NEW op \in Ops \ {"ignore"}
    PROVE  /\ \A p \in Paths :
                  On(op, <<p>>) \in Seq(GoodStep) /\ Left(On(op, <<p>>)) = {At(op, p)}
           /\ \A p, q \in Paths : /\ On(op, <<p, q>>) \in Seq(GoodStep)
                                  /\ Left(On(op, <<p, q>>)) = {At(op, p), At(op, q)}
           /\ \A p, q, r \in Paths :
                  /\ On(op, <<p, q, r>>) \in Seq(GoodStep)
                  /\ Left(On(op, <<p, q, r>>)) = {At(op, p), At(op, q), At(op, r)}
           /\ Do(op) \in Seq(GoodStep) /\ Left(Do(op)) = {At(op, Config)}
<1>1. \A p \in Paths : At(op, p) \in GoodStep
  BY DEF GoodStep, Step, At, Ops, Paths, Ignore, AiContext, Update, DocsIndex, Config,
         Handover, Example, Rules, Skill
<1>2. \A p : On(op, <<p>>) = <<At(op, p)>>
  BY DEF On, At
<1>3. \A p, q : On(op, <<p, q>>) = <<At(op, p), At(op, q)>>
  BY DEF On, At
<1>4. \A p, q, r : On(op, <<p, q, r>>) = <<At(op, p), At(op, q), At(op, r)>>
  BY DEF On, At
<1>5. Do(op) = <<At(op, Config)>> /\ Config \in Paths
  BY DEF Do, At, Paths
<1> HIDE DEF At
<1>6. ASSUME NEW p \in Paths
      PROVE  On(op, <<p>>) \in Seq(GoodStep) /\ Left(On(op, <<p>>)) = {At(op, p)}
  BY <1>1, <1>2, ShortLists
<1>7. ASSUME NEW p \in Paths, NEW q \in Paths
       PROVE  /\ On(op, <<p, q>>) \in Seq(GoodStep)
              /\ Left(On(op, <<p, q>>)) = {At(op, p), At(op, q)}
  <2> DEFINE x == At(op, p)
             y == At(op, q)
  <2>1. x \in GoodStep /\ y \in GoodStep /\ On(op, <<p, q>>) = <<x, y>>
    BY <1>1, <1>3
  <2> HIDE DEF x, y
  <2>2. <<x, y>> \in Seq(GoodStep) /\ Left(<<x, y>>) = {x, y}
    BY <2>1, ShortLists, Zenon
  <2>3. On(op, <<p, q>>) \in Seq(GoodStep) /\ Left(On(op, <<p, q>>)) = {x, y}
    BY <2>1, <2>2, Zenon
  <2> QED  BY <2>3 DEF x, y
<1>8. ASSUME NEW p \in Paths, NEW q \in Paths, NEW r \in Paths
       PROVE  /\ On(op, <<p, q, r>>) \in Seq(GoodStep)
              /\ Left(On(op, <<p, q, r>>)) = {At(op, p), At(op, q), At(op, r)}
  <2> DEFINE x == At(op, p)
             y == At(op, q)
             z == At(op, r)
  <2>1. /\ x \in GoodStep /\ y \in GoodStep /\ z \in GoodStep
        /\ On(op, <<p, q, r>>) = <<x, y, z>>
    BY <1>1, <1>4
  <2> HIDE DEF x, y, z
  <2>2. <<x, y, z>> \in Seq(GoodStep) /\ Left(<<x, y, z>>) = {x, y, z}
    BY <2>1, ShortLists, Zenon
  <2>3. On(op, <<p, q, r>>) \in Seq(GoodStep) /\ Left(On(op, <<p, q, r>>)) = {x, y, z}
    BY <2>1, <2>2, Zenon
  <2> QED  BY <2>3 DEF x, y, z
<1>9. Do(op) \in Seq(GoodStep) /\ Left(Do(op)) = {At(op, Config)}
  BY <1>1, <1>5, ShortLists
<1> QED  BY <1>6, <1>7, <1>8, <1>9

\* The step about .gitignore.
LEMMA LeftIgnore ==
    /\ On("ignore", <<Ignore>>) \in Seq(GoodStep)
    /\ Left(On("ignore", <<Ignore>>)) = {At("ignore", Ignore)}
<1>1. At("ignore", Ignore) \in GoodStep
  BY DEF GoodStep, Step, At
<1>2. On("ignore", <<Ignore>>) = <<At("ignore", Ignore)>>
  BY DEF On, At
<1> HIDE DEF At
<1> QED  BY <1>1, <1>2, ShortLists

(***************************************************************************)
(* The steps of each command                                               *)
(***************************************************************************)

\* The named paths have a content, .gitignore has lines.
LEMMA PathsThere ==
    /\ AiContext \in Paths /\ Update \in Paths /\ DocsIndex \in Paths /\ Config \in Paths
    /\ Handover \in Paths /\ Example \in Paths /\ Rules \in Paths /\ Skill \in Paths
    /\ Ignore \notin Paths
BY DEF Paths, AiContext, Update, DocsIndex, Config, Handover, Example, Rules, Skill, Ignore

\* What a new task storage adds to the steps of a command.
AddLeft == {At("add", Rules), At("add", Skill)}

GenerateLeft ==
    {At("inputs", Config), At("generate", AiContext), At("generate", Update),
     At("generate", DocsIndex), At("install", Rules), At("install", Skill)}

\* What generate_workflow_files does.
LEMMA GenerateSteps == Generate \in Seq(GoodStep) /\ Left(Generate) = GenerateLeft
<1>1. Do("inputs") \in Seq(GoodStep) /\ Left(Do("inputs")) = {At("inputs", Config)}
  BY LeftOn DEF Ops
<1>2. /\ On("generate", WorkflowFiles) \in Seq(GoodStep)
      /\ Left(On("generate", WorkflowFiles))
            = {At("generate", AiContext), At("generate", Update), At("generate", DocsIndex)}
  BY LeftOn, PathsThere DEF Ops, WorkflowFiles
<1>3. /\ On("install", <<Rules, Skill>>) \in Seq(GoodStep)
      /\ Left(On("install", <<Rules, Skill>>)) = {At("install", Rules), At("install", Skill)}
  BY LeftOn, PathsThere DEF Ops
<1> DEFINE a == Do("inputs")
           b == On("generate", WorkflowFiles)
           c == On("install", <<Rules, Skill>>)
<1>4. Generate = a \o b \o c
  BY DEF Generate
<1> HIDE DEF a, b, c
<1>5. a \o b \in Seq(GoodStep) /\ Left(a \o b) = Left(a) \cup Left(b)
  BY <1>1, <1>2, LeftConcat DEF a, b
<1>6. (a \o b) \o c \in Seq(GoodStep) /\ Left((a \o b) \o c) = Left(a \o b) \cup Left(c)
  BY <1>3, <1>5, LeftConcat DEF c
<1>7. Left(Generate) = Left(a) \cup Left(b) \cup Left(c)
  BY <1>4, <1>5, <1>6
<1> QED  BY <1>1, <1>2, <1>3, <1>4, <1>6, <1>7 DEF GenerateLeft, a, b, c

ScaffoldLeft(c) ==
    {At("scaffold", Config)}
      \cup IF c.skip THEN {}
           ELSE {At("ignore", Ignore), At("scaffold", Handover), At("scaffold", Example)}

\* What _ensure_scaffold does.
LEMMA ScaffoldSteps ==
    ASSUME NEW c
    PROVE  EnsureScaffold(c) \in Seq(GoodStep) /\ Left(EnsureScaffold(c)) = ScaffoldLeft(c)
<1>1. /\ On("scaffold", <<Config>>) \in Seq(GoodStep)
      /\ Left(On("scaffold", <<Config>>)) = {At("scaffold", Config)}
  BY LeftOn, PathsThere DEF Ops
<1>2. /\ On("scaffold", <<Handover, Example>>) \in Seq(GoodStep)
      /\ Left(On("scaffold", <<Handover, Example>>))
            = {At("scaffold", Handover), At("scaffold", Example)}
  BY LeftOn, PathsThere DEF Ops
<1> DEFINE a == On("scaffold", <<Config>>)
           b == On("ignore", <<Ignore>>)
           d == On("scaffold", <<Handover, Example>>)
<1>3. EnsureScaffold(c) = a \o IF c.skip THEN <<>> ELSE b \o d
  BY DEF EnsureScaffold
<1> HIDE DEF a, b, d
<1>4. b \o d \in Seq(GoodStep) /\ Left(b \o d) = Left(b) \cup Left(d)
  BY <1>2, LeftIgnore, LeftConcat DEF b, d
<1>5. a \o (b \o d) \in Seq(GoodStep) /\ Left(a \o (b \o d)) = Left(a) \cup Left(b \o d)
  BY <1>1, <1>4, LeftConcat DEF a
<1>6. a \o <<>> \in Seq(GoodStep) /\ Left(a \o <<>>) = Left(a) \cup Left(<<>>)
  BY <1>1, LeftEmpty, LeftConcat DEF a
<1>7. CASE c.skip
  BY <1>1, <1>3, <1>6, <1>7, LeftEmpty DEF ScaffoldLeft, a
<1>8. CASE ~c.skip
  <2>1. Left(b) = {At("ignore", Ignore)}
        /\ Left(d) = {At("scaffold", Handover), At("scaffold", Example)}
    BY <1>2, LeftIgnore DEF b, d
  <2>2. Left(EnsureScaffold(c)) = Left(a) \cup Left(b) \cup Left(d)
    BY <1>3, <1>4, <1>5, <1>8
  <2> QED  BY <1>1, <1>3, <1>5, <1>8, <2>1, <2>2 DEF ScaffoldLeft, a
<1> QED  BY <1>7, <1>8

InitLeft(c) ==
    ScaffoldLeft(c) \cup {At("storage", Config)} \cup GenerateLeft
      \cup (IF c.refresh
            THEN {At("inputs", Config), At("refresh", AiContext), At("refresh", Update),
                  At("refresh", DocsIndex)}
            ELSE {})
      \cup {At("settings", Config), At("tasks", Config), At("syncIfNeeded", Config)}

\* What run_project_setup does.
LEMMA InitStepsLeft ==
    ASSUME NEW c
    PROVE  InitSteps(c) \in Seq(GoodStep) /\ Left(InitSteps(c)) = InitLeft(c)
<1> DEFINE a == EnsureScaffold(c)
           b == Do("storage")
           r == IF c.refresh THEN Do("inputs") \o On("refresh", WorkflowFiles) ELSE <<>>
           s == On("settings", <<Config>>)
           t == Do("tasks")
           u == Do("syncIfNeeded")
           refreshLeft == IF c.refresh
                          THEN {At("inputs", Config), At("refresh", AiContext),
                                At("refresh", Update), At("refresh", DocsIndex)}
                          ELSE {}
<1>1. a \in Seq(GoodStep) /\ Left(a) = ScaffoldLeft(c)
  BY ScaffoldSteps
<1>2. b \in Seq(GoodStep) /\ Left(b) = {At("storage", Config)}
  BY LeftOn DEF Ops
<1>3. r \in Seq(GoodStep) /\ Left(r) = refreshLeft
  <2>1. Do("inputs") \in Seq(GoodStep) /\ Left(Do("inputs")) = {At("inputs", Config)}
    BY LeftOn DEF Ops
  <2>2. /\ On("refresh", WorkflowFiles) \in Seq(GoodStep)
        /\ Left(On("refresh", WorkflowFiles))
              = {At("refresh", AiContext), At("refresh", Update), At("refresh", DocsIndex)}
    BY LeftOn, PathsThere DEF Ops, WorkflowFiles
  <2> DEFINE x == Do("inputs")
             y == On("refresh", WorkflowFiles)
  <2>3. x \o y \in Seq(GoodStep) /\ Left(x \o y) = Left(x) \cup Left(y)
    <3> HIDE DEF x, y
    <3> QED  BY <2>1, <2>2, LeftConcat DEF x, y
  <2>4. CASE c.refresh
    <3>1. r = x \o y
      BY <2>4
    <3> HIDE DEF r, x, y
    <3>2. Left(r) = Left(x) \cup Left(y)
      BY <2>3, <3>1
    <3> QED  BY <2>1, <2>2, <2>3, <2>4, <3>1, <3>2 DEF x, y
  <2>5. CASE ~c.refresh
    BY <2>5, LeftEmpty
  <2> QED  BY <2>4, <2>5
<1>4. s \in Seq(GoodStep) /\ Left(s) = {At("settings", Config)}
  BY LeftOn, PathsThere DEF Ops
<1>5. t \in Seq(GoodStep) /\ Left(t) = {At("tasks", Config)}
  BY LeftOn DEF Ops
<1>6. u \in Seq(GoodStep) /\ Left(u) = {At("syncIfNeeded", Config)}
  BY LeftOn DEF Ops
<1>7. InitSteps(c) = a \o b \o Generate \o r \o s \o t \o u
  BY DEF InitSteps
<1> DEFINE p1 == a \o b
           p2 == p1 \o Generate
           p3 == p2 \o r
           p4 == p3 \o s
           p5 == p4 \o t
<1>8. InitSteps(c) = p5 \o u
  BY <1>7
<1> HIDE DEF a, b, r, s, t, u, refreshLeft
<1>9. p1 \in Seq(GoodStep) /\ Left(p1) = Left(a) \cup Left(b)
  BY <1>1, <1>2, LeftConcat
<1> HIDE DEF p1
<1>10. p2 \in Seq(GoodStep) /\ Left(p2) = Left(p1) \cup GenerateLeft
  BY <1>9, GenerateSteps, LeftConcat
<1> HIDE DEF p2
<1>11. p3 \in Seq(GoodStep) /\ Left(p3) = Left(p2) \cup Left(r)
  BY <1>3, <1>10, LeftConcat
<1> HIDE DEF p3
<1>12. p4 \in Seq(GoodStep) /\ Left(p4) = Left(p3) \cup Left(s)
  BY <1>4, <1>11, LeftConcat
<1> HIDE DEF p4
<1>13. p5 \in Seq(GoodStep) /\ Left(p5) = Left(p4) \cup Left(t)
  BY <1>5, <1>12, LeftConcat
<1> HIDE DEF p5
<1>14. p5 \o u \in Seq(GoodStep) /\ Left(p5 \o u) = Left(p5) \cup Left(u)
  BY <1>6, <1>13, LeftConcat
<1>15. Left(InitSteps(c)) = ScaffoldLeft(c) \cup {At("storage", Config)} \cup GenerateLeft
           \cup refreshLeft
           \cup {At("settings", Config), At("tasks", Config), At("syncIfNeeded", Config)}
  <2> HIDE DEF At, ScaffoldLeft, GenerateLeft
  <2> QED  BY <1>1, <1>2, <1>3, <1>4, <1>5, <1>6, <1>8, <1>9, <1>10, <1>11, <1>12, <1>13, <1>14
<1> QED  BY <1>8, <1>14, <1>15 DEF InitLeft, refreshLeft

\* Only init refreshes, and only if it is asked to.
NoRefresh(steps) == \A path : At("refresh", path) \notin Left(steps)

\* The other commands never refresh.
LEMMA OtherSteps ==
    /\ \A syncOnly \in BOOLEAN : /\ BootstrapSteps(syncOnly) \in Seq(GoodStep)
                                 /\ NoRefresh(BootstrapSteps(syncOnly))
    /\ PhaseSteps \in Seq(GoodStep) /\ NoRefresh(PhaseSteps)
    /\ LaunchSteps \in Seq(GoodStep) /\ NoRefresh(LaunchSteps)
<1>1. ASSUME NEW op \in Ops \ {"ignore", "refresh"}
      PROVE  Do(op) \in Seq(GoodStep) /\ NoRefresh(Do(op))
  <2>1. Do(op) \in Seq(GoodStep) /\ Left(Do(op)) = {At(op, Config)}
    BY LeftOn
  <2> QED  BY <2>1 DEF NoRefresh, At
<1>2. Generate \in Seq(GoodStep) /\ NoRefresh(Generate)
  BY GenerateSteps DEF NoRefresh, GenerateLeft, At
<1>3. ASSUME NEW a \in Seq(GoodStep), NEW b \in Seq(GoodStep), NoRefresh(a), NoRefresh(b)
      PROVE  a \o b \in Seq(GoodStep) /\ NoRefresh(a \o b)
  BY <1>3, LeftConcat DEF NoRefresh
<1>4. <<>> \in Seq(GoodStep) /\ NoRefresh(<<>>)
  BY LeftEmpty DEF NoRefresh
<1> DEFINE a == Do("storage")
           b == Do("tasks")
           c == Do("sync")
           d == Do("syncIfNeeded")
           g == Generate
<1>5. /\ a \in Seq(GoodStep) /\ NoRefresh(a) /\ b \in Seq(GoodStep) /\ NoRefresh(b)
      /\ c \in Seq(GoodStep) /\ NoRefresh(c) /\ d \in Seq(GoodStep) /\ NoRefresh(d)
      /\ g \in Seq(GoodStep) /\ NoRefresh(g)
  BY <1>1, <1>2 DEF Ops
<1>6. PhaseSteps = (b \o g) \o c
  BY DEF PhaseSteps
<1>7. LaunchSteps = (IF Missing(AiContext) \/ Missing(Update) THEN g ELSE <<>>) \o d
  BY DEF LaunchSteps
<1>8. \A syncOnly \in BOOLEAN :
          BootstrapSteps(syncOnly) = ((IF syncOnly THEN <<>> ELSE a \o b) \o c) \o g
  BY DEF BootstrapSteps
<1> HIDE DEF a, b, c, d, g
<1>9. PhaseSteps \in Seq(GoodStep) /\ NoRefresh(PhaseSteps)
  <2>1. b \o g \in Seq(GoodStep) /\ NoRefresh(b \o g)
    BY <1>3, <1>5
  <2> QED  BY <1>3, <1>5, <1>6, <2>1
<1>10. LaunchSteps \in Seq(GoodStep) /\ NoRefresh(LaunchSteps)
  <2>1. g \o d \in Seq(GoodStep) /\ NoRefresh(g \o d)
    BY <1>3, <1>5
  <2>2. <<>> \o d \in Seq(GoodStep) /\ NoRefresh(<<>> \o d)
    BY <1>3, <1>4, <1>5
  <2> QED  BY <1>7, <2>1, <2>2
<1>11. ASSUME NEW syncOnly \in BOOLEAN
       PROVE  /\ BootstrapSteps(syncOnly) \in Seq(GoodStep)
              /\ NoRefresh(BootstrapSteps(syncOnly))
  <2> DEFINE e == IF syncOnly THEN <<>> ELSE a \o b
  <2>1. e \in Seq(GoodStep) /\ NoRefresh(e)
    <3>1. a \o b \in Seq(GoodStep) /\ NoRefresh(a \o b)
      BY <1>3, <1>5
    <3> QED  BY <1>4, <3>1
  <2>2. BootstrapSteps(syncOnly) = (e \o c) \o g
    BY <1>8
  <2> HIDE DEF e
  <2>3. e \o c \in Seq(GoodStep) /\ NoRefresh(e \o c)
    BY <1>3, <1>5, <2>1
  <2> QED  BY <1>3, <1>5, <2>2, <2>3
<1> QED  BY <1>9, <1>10, <1>11

(***************************************************************************)
(* Type correctness                                                        *)
(***************************************************************************)

StepsFit ==
    /\ todo \in Seq(GoodStep)
    /\ \A path : Todo("refresh", path) => cmd.refresh

\* Where there are tasks there is a directory for them.
TasksStored == tasks => storage

FilesInv == TypeOK /\ StepsFit /\ TasksStored

\* A good step is a step.
LEMMA GoodSteps == Seq(GoodStep) \subseteq Seq(Step)
BY DEF GoodStep

\* A step of a command takes the first of its steps off.
LEMMA StepTaken ==
    ASSUME FilesInv, Running
    PROVE  /\ Head(todo) \in GoodStep /\ Tail(todo) \in Seq(GoodStep)
           /\ Left(todo) = {Head(todo)} \cup Left(Tail(todo))
BY LeftTail DEF FilesInv, StepsFit, Running

\* A step ends the command, or leaves the others; only the storage adds some.
LEMMA ToDoNext ==
    ASSUME FilesInv, Steps
    PROVE  \/ cmd' = NoCommand /\ todo' = <<>>
           \/ /\ UNCHANGED cmd /\ Running
              /\ todo' \in Seq(GoodStep)
              /\ \/ Left(todo') = Left(Tail(todo))
                 \/ /\ Now("storage")
                    /\ Left(todo') = Left(Tail(todo)) \cup AddLeft
<1>1. CASE Running /\ UNCHANGED cmd /\ todo' = Tail(todo)
  BY <1>1, StepTaken
<1>2. CASE InitStorage
  <2> DEFINE new == IF storage THEN <<>> ELSE On("add", <<Rules, Skill>>)
  <2>1. /\ new \in Seq(GoodStep)
        /\ Left(new) = {} \/ Left(new) = AddLeft
    <3>1. /\ On("add", <<Rules, Skill>>) \in Seq(GoodStep)
          /\ Left(On("add", <<Rules, Skill>>)) = AddLeft
      BY LeftOn, PathsThere DEF Ops, AddLeft
    <3> QED  BY <3>1, LeftEmpty
  <2>2. todo' = new \o Tail(todo) /\ UNCHANGED cmd /\ Running /\ Now("storage")
    BY <1>2 DEF InitStorage, Now
  <2> HIDE DEF new
  <2>3. todo' \in Seq(GoodStep) /\ Left(todo') = Left(new) \cup Left(Tail(todo))
    BY <2>1, <2>2, StepTaken, LeftConcat
  <2> QED  BY <2>1, <2>2, <2>3
<1>3. CASE PrdGone
  BY <1>3 DEF PrdGone
<1> QED
  BY <1>1, <1>2, <1>3
     DEF Steps, WriteFile, SkipFile, UpdateIgnore, ReadInputs, SaveSettings, MakeTasks,
         Sync, SyncIfNeeded, Passes, Now, Writes

\* StepsFit is kept by every step.
LEMMA StepsFitStep ==
    ASSUME FilesInv, Next
    PROVE  StepsFit'
<1>1. NoCommand.refresh = FALSE
  BY DEF NoCommand
<1>2. CASE todo' = <<>>
  BY <1>2, LeftEmpty DEF StepsFit, Todo
<1>3. CASE UNCHANGED <<todo, cmd>>
  BY <1>3 DEF FilesInv, StepsFit, Todo
<1>4. CASE Steps
  <2>1. CASE UNCHANGED cmd /\ Running
    <3>1. \A path : Todo("refresh", path)' => Todo("refresh", path)
      <4>1. \A path : At("refresh", path) \notin AddLeft
        BY DEF At, AddLeft
      <4>2. Left(todo') = {} \/ Left(todo') \subseteq Left(todo) \cup AddLeft
        BY <1>4, <2>1, ToDoNext, StepTaken, LeftEmpty
      <4> HIDE DEF At
      <4> QED  BY <4>1, <4>2 DEF Todo
    <3>2. todo' \in Seq(GoodStep)
      BY <1>4, LeftEmpty, ToDoNext
    <3> QED  BY <2>1, <3>1, <3>2 DEF FilesInv, StepsFit
  <2> QED  BY <1>2, <1>4, <2>1, ToDoNext
<1>5. CASE Commands
  <2>1. ASSUME NEW c, c.refresh \in BOOLEAN, Start(c, InitSteps(c)) PROVE StepsFit'
    <3>1. ~c.refresh => NoRefresh(InitSteps(c))
      <4>1. SUFFICES ASSUME ~c.refresh, NEW path, At("refresh", path) \in InitLeft(c)
                     PROVE  FALSE
        BY InitStepsLeft, Zenon DEF NoRefresh
      <4>2. \A x \in InitLeft(c) : x.op # "refresh"
        BY <4>1 DEF InitLeft, ScaffoldLeft, GenerateLeft, At
      <4> QED  BY <4>1, <4>2 DEF At
    <3>2. todo' = InitSteps(c) /\ cmd' = c
      BY <2>1 DEF Start
    <3>3. InitSteps(c) \in Seq(GoodStep)
      BY InitStepsLeft
    <3>4. \A path : Todo("refresh", path)' => cmd'.refresh
      BY <3>1, <3>2 DEF Todo, NoRefresh
    <3> QED  BY <3>2, <3>3, <3>4 DEF StepsFit
  <2>2. ASSUME NEW c, NEW steps \in Seq(GoodStep), NoRefresh(steps), Start(c, steps)
        PROVE  StepsFit'
    BY <2>2 DEF Start, StepsFit, Todo, NoRefresh
  <2>3. CASE StartInit
    <3>1. PICK skip \in BOOLEAN, refresh \in BOOLEAN, all \in BOOLEAN, force \in ForcePaths :
              LET c == [NoCommand EXCEPT !.kind = "init", !.skip = skip, !.refresh = refresh,
                                         !.all = all, !.force = force,
                                         !.attach = ~prd]
              IN  Start(c, InitSteps(c))
      BY <2>3 DEF StartInit
    <3> DEFINE c == [NoCommand EXCEPT !.kind = "init", !.skip = skip, !.refresh = refresh,
                                      !.all = all, !.force = force, !.attach = ~prd]
    <3>2. c.refresh \in BOOLEAN
      BY DEF NoCommand
    <3>3. Start(c, InitSteps(c))
      BY <3>1
    <3> HIDE DEF c
    <3> QED  BY <2>1, <3>2, <3>3
  <2>4. CASE StartBootstrap \/ StartPhase \/ StartLaunch
    <3>1. \E c, steps : steps \in Seq(GoodStep) /\ NoRefresh(steps) /\ Start(c, steps)
      BY <2>4, OtherSteps DEF StartBootstrap, StartPhase, StartLaunch
    <3> QED  BY <2>2, <3>1
  <2> QED  BY <1>5, <2>3, <2>4 DEF Commands
<1>6. CASE Faults
  BY <1>2, <1>6 DEF Faults, Stop, KillInWrite, Gone
<1>7. CASE Operator \/ Settled
  BY <1>3, <1>7 DEF Operator, EditFile, EditIgnore, EditPrd, Disturbs, Settled, vars
<1> QED  BY <1>4, <1>5, <1>6, <1>7 DEF Next

\* The lists of files as sets.
LEMMA InSeqs ==
    /\ InSeq(Templates) = {AiContext, Handover, Update, Example}
    /\ InSeq(WorkflowFiles) = {AiContext, Update, DocsIndex}
BY DEF InSeq, Templates, WorkflowFiles

\* TasksStored is kept by every step.
LEMMA TasksStoredStep ==
    ASSUME TasksStored, Next
    PROVE  TasksStored'
<1>1. CASE UNCHANGED <<storage, tasks>>
  BY <1>1 DEF TasksStored
<1>2. CASE InitStorage \/ MakeTasks
  BY <1>2 DEF TasksStored, InitStorage, MakeTasks
<1> QED
  BY <1>1, <1>2
     DEF Next, Commands, StartInit, StartBootstrap, StartPhase, StartLaunch, Start, Steps,
         WriteFile, SkipFile, UpdateIgnore, ReadInputs, SaveSettings, PrdGone, Sync,
         SyncIfNeeded, Faults, Stop, KillInWrite, Gone, Operator, EditFile, EditIgnore,
         EditPrd, Disturbs, Settled, project, vars

\* A dry run lists what there is to repair.
LEMMA PlannedType ==
    ASSUME NEW c PROVE Planned(c) \subseteq Repairs
<1>1. PlannedScaffold(c) \subseteq Paths \cup {Ignore}
  BY InSeqs, PathsThere DEF PlannedScaffold
<1>2. PlannedWorkflow(c) \subseteq Paths
  BY InSeqs, PathsThere DEF PlannedWorkflow
<1>3. StaleFiles \subseteq Paths
  BY DEF StaleFiles
<1>4. PlannedTasks(c) \subseteq {Rules, Skill, TasksInit, ParsePrd}
  BY DEF PlannedTasks
<1> QED  BY <1>1, <1>2, <1>3, <1>4, PathsThere DEF Planned, Repairs

\* TypeOK is kept by every step.
LEMMA TypeStep ==
    ASSUME FilesInv, Next
    PROVE  TypeOK'
<1> USE WorkflowFilesAssumption DEF FilesInv
<1>1. /\ \A p, text : text \in Contents => [file EXCEPT ![p] = text] \in [Paths -> Contents]
      /\ \A text \in {"missing", "stub", "rendered", "custom", "outdated", "empty"} :
             text \in Contents
  BY DEF TypeOK, Contents
<1>2. NoCommand \in Command /\ <<>> \in Seq(Step)
  BY DEF NoCommand, Command
<1>3. todo' \in Seq(Step)
  BY StepsFitStep, GoodSteps DEF StepsFit
<1>4. CASE Commands
  <2>1. ASSUME NEW c \in Command, NEW steps, Start(c, steps) PROVE TypeOK'
    <3>1. planned' \subseteq Repairs
      BY <2>1, PlannedType DEF Start
    <3>2. commands' \in 0..MaxCommands
      BY <2>1 DEF Start, TypeOK
    <3> QED  BY <1>3, <2>1, <3>1, <3>2 DEF Start, TypeOK, project
  <2>2. \E c \in Command : \E steps : Start(c, steps)
    <3>1. CASE StartInit
      <4>1. PICK skip \in BOOLEAN, refresh \in BOOLEAN, all \in BOOLEAN, force \in ForcePaths :
                LET c == [NoCommand EXCEPT !.kind = "init", !.skip = skip,
                                           !.refresh = refresh, !.all = all,
                                           !.force = force, !.attach = ~prd]
                IN  Start(c, InitSteps(c))
        BY <3>1 DEF StartInit
      <4> DEFINE c == [NoCommand EXCEPT !.kind = "init", !.skip = skip, !.refresh = refresh,
                                        !.all = all, !.force = force, !.attach = ~prd]
      <4>2. (~prd) \in BOOLEAN
        BY DEF TypeOK
      <4>3. c \in Command
        <5> DEFINE none == ~prd
        <5>1. none \in BOOLEAN /\ c = [NoCommand EXCEPT !.kind = "init", !.skip = skip,
                                           !.refresh = refresh, !.all = all, !.force = force,
                                           !.attach = none]
          BY <4>2
        <5> HIDE DEF none
        <5> QED  BY <5>1 DEF NoCommand, Command
      <4>4. Start(c, InitSteps(c))
        BY <4>1
      <4> HIDE DEF c
      <4> QED  BY <4>3, <4>4
    <3>2. CASE StartBootstrap
      <4>1. PICK all \in BOOLEAN, force \in ForcePaths, fromPrd \in BOOLEAN,
                 syncOnly \in BOOLEAN :
                Start([NoCommand EXCEPT !.kind = "bootstrap", !.all = all, !.force = force,
                                        !.fromPrd = fromPrd], BootstrapSteps(syncOnly))
        BY <3>2 DEF StartBootstrap
      <4>2. [NoCommand EXCEPT !.kind = "bootstrap", !.all = all, !.force = force,
                              !.fromPrd = fromPrd] \in Command
        BY DEF NoCommand, Command
      <4> QED  BY <4>1, <4>2
    <3>3. CASE StartPhase \/ StartLaunch
      <4>1. /\ [NoCommand EXCEPT !.kind = "phase"] \in Command
            /\ [NoCommand EXCEPT !.kind = "launch"] \in Command
        BY DEF NoCommand, Command
      <4> QED  BY <3>3, <4>1 DEF StartPhase, StartLaunch
    <3> QED  BY <1>4, <3>1, <3>2, <3>3 DEF Commands
  <2> QED  BY <2>1, <2>2
<1>5. CASE WriteFile
  <2>1. Head(todo) \in GoodStep
    BY <1>5, StepTaken DEF WriteFile, Writes, Now
  <2>2. Path \in Repairs
    BY <2>1 DEF Path, GoodStep, Step, Repairs
  <2>3. Text \in Contents
    BY DEF Text, Contents
  <2>4. file' \in [Paths -> Contents]
    BY <1>1, <1>5, <2>3 DEF WriteFile
  <2> QED  BY <1>3, <1>5, <2>2, <2>4 DEF WriteFile, Passes, TypeOK, bounds
<1>6. CASE UpdateIgnore
  BY <1>3, <1>6 DEF UpdateIgnore, Passes, TypeOK, bounds, Repairs
<1>7. CASE SkipFile \/ ReadInputs \/ SaveSettings
  BY <1>3, <1>7, PathsThere
     DEF SkipFile, ReadInputs, SaveSettings, Passes, TypeOK, bounds, project, Repairs
<1>8. CASE InitStorage \/ MakeTasks
  BY <1>3, <1>8 DEF InitStorage, MakeTasks, Passes, TypeOK, bounds, Repairs
<1>9. CASE PrdGone
  BY <1>2, <1>3, <1>9 DEF PrdGone, TypeOK, bounds, project
<1>10. CASE Sync \/ SyncIfNeeded
  <2>1. file' \in [Paths -> Contents]
    BY <1>1, <1>10 DEF Sync, SyncIfNeeded, TypeOK
  <2>2. written' \subseteq Repairs
    BY <1>10, PathsThere DEF Sync, SyncIfNeeded, TypeOK, Repairs
  <2> QED  BY <1>3, <1>10, <2>1, <2>2 DEF Sync, SyncIfNeeded, Passes, TypeOK, bounds
<1>11. CASE Faults
  <2>1. file' \in [Paths -> Contents] /\ ignore' \subseteq Entries \cup {"mine"}
    BY <1>1, <1>11 DEF Faults, Stop, KillInWrite, TypeOK
  <2>2. Gone
    BY <1>11 DEF Faults, Stop, KillInWrite
  <2>3. kills' \in 0..MaxKills
    BY <2>2 DEF Gone, TypeOK
  <2> QED  BY <1>2, <1>3, <2>1, <2>2, <2>3 DEF Gone, TypeOK
<1>12. CASE Operator
  <2>1. file' \in [Paths -> Contents]
    BY <1>1, <1>12 DEF Operator, EditFile, EditIgnore, EditPrd, TypeOK
  <2>2. ignore' \subseteq Entries \cup {"mine"} /\ prd' \in BOOLEAN
    <3>1. CASE EditFile
      BY <3>1 DEF EditFile, TypeOK
    <3>2. CASE EditIgnore
      BY <3>2 DEF EditIgnore, TypeOK
    <3>3. CASE EditPrd
      <4>1. (~prd) \in BOOLEAN
        BY DEF TypeOK
      <4> QED  BY <3>3, <4>1 DEF EditPrd, TypeOK
    <3> QED  BY <1>12, <3>1, <3>2, <3>3 DEF Operator
  <2>3. Disturbs
    BY <1>12 DEF Operator, EditFile, EditIgnore, EditPrd
  <2>4. edits' \in 0..MaxEdits
    BY <2>3 DEF Disturbs, TypeOK
  <2> QED  BY <1>3, <2>1, <2>2, <2>3, <2>4 DEF Disturbs, TypeOK
<1>13. CASE Settled
  BY <1>13 DEF Settled, vars, project, bounds, TypeOK
<1> QED
  BY <1>4, <1>5, <1>6, <1>7, <1>8, <1>9, <1>10, <1>11, <1>12, <1>13 DEF Next, Steps

\* The two together are an invariant.
LEMMA FilesInvHolds == Spec => []FilesInv
<1>1. Init => FilesInv
  <2> SUFFICES ASSUME Init PROVE FilesInv
    OBVIOUS
  <2>1. cmd \in Command
    BY DEF Init, NoCommand, Command
  <2>2. todo = <<>> /\ todo \in Seq(GoodStep) /\ todo \in Seq(Step)
    BY DEF Init
  <2>3. TypeOK
    BY <2>1, <2>2, WorkflowFilesAssumption DEF Init, TypeOK
  <2> QED  BY <2>2, <2>3, LeftEmpty DEF FilesInv, StepsFit, Todo, Init, TasksStored
<1>2. FilesInv /\ [Next]_vars => FilesInv'
  <2>1. CASE UNCHANGED vars
    BY <2>1 DEF vars, project, bounds, FilesInv, TypeOK, StepsFit, Todo, TasksStored
  <2> QED  BY <2>1, StepsFitStep, TypeStep, TasksStoredStep DEF FilesInv
<1> QED  BY <1>1, <1>2, PTL DEF Spec

\* Whatever a command finds and whoever interferes, a step is about a path that
\* is there, and no text other than the ones the code knows comes about.
THEOREM TypeCorrect == Spec => []TypeOK
BY FilesInvHolds, PTL DEF FilesInv

(***************************************************************************)
(* No text of the operator is lost                                         *)
(***************************************************************************)

\* What may replace the text of a path.
Excused(p) ==
    \/ Forced(cmd, p)
    \/ cmd.refresh /\ file[p] = "outdated" /\ p # DocsIndex
    \/ p = Config /\ Now("settings")

KeptBy ==
    /\ \A p \in Paths \ {Handover} : (Written(p) /\ file'[p] # file[p]) => Excused(p)
    /\ ignore \subseteq ignore' \/ kills' # kills

\* A file is written over a text for one of the reasons only.
LEMMA WritesExcused ==
    ASSUME FilesInv, Writes, NEW text, file' = [file EXCEPT ![Path] = text]
    PROVE  \A p \in Paths : (Written(p) /\ file'[p] # file[p]) => Excused(p)
<1> SUFFICES ASSUME NEW p \in Paths, Written(p), file'[p] # file[p] PROVE Excused(p)
  OBVIOUS
<1>1. p = Path
  BY DEF FilesInv, TypeOK
<1>2. ~Missing(p)
  BY DEF Written, Missing
<1>3. CASE Now("scaffold")
  BY <1>1, <1>2, <1>3 DEF Writes, Now, ScaffoldNeeded, Excused
<1>4. CASE Now("generate")
  BY <1>1, <1>2, <1>4 DEF Writes, Now, GenerationNeeded, Excused, Written
<1>5. CASE Now("install")
  BY <1>1, <1>2, <1>5 DEF Writes, Now, InstallNeeded, Excused, Forced
<1>6. CASE Now("add")
  BY <1>1, <1>2, <1>6 DEF Writes, Now
<1>7. CASE Now("refresh")
  <2>1. IsStale(p, file[p])
    BY <1>1, <1>7 DEF Writes, Now, RefreshNeeded
  <2>2. file[p] = "outdated" /\ p # DocsIndex
    BY <2>1 DEF IsStale, Written, AiContext, Update, DocsIndex
  <2>3. Head(todo) \in GoodStep /\ Head(todo) \in Left(todo)
    BY <1>7, StepTaken DEF Now
  <2>4. Head(todo) = At("refresh", Path)
    BY <1>7, <2>3 DEF Now, At, Path, GoodStep, Step
  <2>5. cmd.refresh
    BY <2>3, <2>4 DEF FilesInv, StepsFit, Todo
  <2> QED  BY <2>2, <2>5 DEF Excused
<1> QED  BY <1>3, <1>4, <1>5, <1>6, <1>7 DEF Writes

\* TextsKept, for one step.
LEMMA KeptStep ==
    ASSUME FilesInv, Next, edits' = edits
    PROVE  KeptBy
<1>1. CASE UNCHANGED <<file, ignore>>
  BY <1>1 DEF KeptBy
<1>2. CASE WriteFile
  BY <1>2, WritesExcused DEF WriteFile, KeptBy
<1>3. CASE Sync \/ SyncIfNeeded
  BY <1>3 DEF Sync, SyncIfNeeded, KeptBy, FilesInv, TypeOK
<1>4. CASE UpdateIgnore
  BY <1>4 DEF UpdateIgnore, KeptBy
<1>5. CASE KillInWrite
  <2>1. kills' # kills
    BY <1>5 DEF KillInWrite, Gone, FilesInv, TypeOK
  <2>2. CASE Writes /\ file' = [file EXCEPT ![Path] = "empty"]
    BY <2>1, <2>2, WritesExcused DEF KeptBy
  <2>3. CASE file' = [file EXCEPT ![Handover] = "empty"]
    BY <2>1, <2>3 DEF KeptBy, FilesInv, TypeOK
  <2>4. CASE Now("settings") /\ file' = [file EXCEPT ![Config] = "empty"]
    BY <2>1, <2>4 DEF KeptBy, Excused, FilesInv, TypeOK
  <2>5. CASE UNCHANGED file
    BY <2>1, <2>5 DEF KeptBy
  <2> QED  BY <1>5, <2>2, <2>3, <2>4, <2>5 DEF KillInWrite
<1>6. CASE Operator
  BY <1>6 DEF Operator, EditFile, EditIgnore, EditPrd, Disturbs, FilesInv, TypeOK
<1> QED
  BY <1>1, <1>2, <1>3, <1>4, <1>5, <1>6
     DEF Next, Commands, StartInit, StartBootstrap, StartPhase, StartLaunch, Start, Steps,
         SkipFile, InitStorage, ReadInputs, SaveSettings, MakeTasks, PrdGone, Faults, Stop,
         Settled, project, vars

\* Generation, scaffold and refresh keep a text a person or an earlier run has
\* written, in every project and also in a kill; what --force, a refresh of an
\* outdated file and the settings replace are the exceptions.
THEOREM TextsAreKept == Spec => TextsKept
<1>1. FilesInv /\ [Next]_vars =>
          [edits' = edits =>
              /\ \A p \in Paths \ {Handover} :
                     (Written(p) /\ file'[p] # file[p]) =>
                         \/ Forced(cmd, p)
                         \/ cmd.refresh /\ file[p] = "outdated" /\ p # DocsIndex
                         \/ p = Config /\ Now("settings")
              /\ ignore \subseteq ignore' \/ kills' # kills]_vars
  <2>1. CASE UNCHANGED vars
    BY <2>1
  <2>2. CASE Next
    BY <2>2, KeptStep DEF KeptBy, Excused
  <2> QED  BY <2>1, <2>2
<1> QED  BY <1>1, FilesInvHolds, PTL DEF Spec, TextsKept

(***************************************************************************)
(* What an undisturbed init leaves                                         *)
(***************************************************************************)

Undisturbed == cmd.kind = "init" /\ calm

\* A step whose file asks for it, with no --force.
Due(op, path) ==
    \/ op \in {"scaffold", "install"} /\ Missing(path)
    \/ op = "generate" /\ (Missing(path) \/ (path # DocsIndex /\ file[path] = "stub"))
    \/ op = "refresh" /\ RefreshNeeded(path)
    \/ op = "ignore" /\ IgnoreNeeded
    \/ op = "storage" /\ ~storage
    \/ op = "tasks" /\ ~tasks
    \/ op = "syncIfNeeded" /\ Missing(Handover)

\* Steps that are past have nothing to do any more.
PastDone ==
    Undisturbed =>
        /\ Left(todo) \subseteq InitLeft(cmd) \cup AddLeft
        /\ \A op, path : (At(op, path) \in InitLeft(cmd) /\ Due(op, path)) => Todo(op, path)

\* Which operations of init are about which files.
LEMMA InitLeftGood ==
    ASSUME NEW c
    PROVE  \A op, path : At(op, path) \in InitLeft(c) \cup AddLeft =>
               /\ op = "ignore" \/ path \in Paths
               /\ op = "generate" => path \in {AiContext, Update, DocsIndex}
               /\ op \in {"install", "add"} => path \in {Rules, Skill}
               /\ op = "add" <=> At(op, path) \notin InitLeft(c)
BY PathsThere DEF InitLeft, ScaffoldLeft, GenerateLeft, AddLeft, At

\* How an undisturbed init comes to a state: it has begun, or took a step.
LEMMA InitNext ==
    ASSUME FilesInv, Next, Undisturbed'
    PROVE  \/ /\ Left(todo') = InitLeft(cmd') /\ UNCHANGED project
              /\ planned' = Planned(cmd') /\ written' = {}
              /\ cmd'.attach => tasks
           \/ Undisturbed /\ Steps /\ Running /\ UNCHANGED <<cmd, planned>>
           \/ Undisturbed /\ UNCHANGED vars
<1>1. NoCommand.kind # "init"
  BY DEF NoCommand
<1>2. CASE StartInit
  <2>1. PICK skip \in BOOLEAN, refresh \in BOOLEAN, all \in BOOLEAN, force \in ForcePaths :
            LET c == [NoCommand EXCEPT !.kind = "init", !.skip = skip, !.refresh = refresh,
                                       !.all = all, !.force = force, !.attach = ~prd]
            IN  Start(c, InitSteps(c))
    BY <1>2 DEF StartInit
  <2> DEFINE c == [NoCommand EXCEPT !.kind = "init", !.skip = skip, !.refresh = refresh,
                                    !.all = all, !.force = force, !.attach = ~prd]
  <2>2. c.kind = "init" /\ Start(c, InitSteps(c)) /\ (c.attach => tasks)
    BY <1>2, <2>1 DEF NoCommand, StartInit
  <2> HIDE DEF c
  <2>3. /\ cmd' = c /\ todo' = InitSteps(c) /\ planned' = Planned(c) /\ written' = {}
        /\ UNCHANGED project /\ (cmd'.attach => tasks)
    BY <2>2 DEF Start
  <2>4. Left(todo') = InitLeft(cmd')
    BY <2>3, InitStepsLeft
  <2> QED  BY <2>3, <2>4
<1>3. CASE StartBootstrap \/ StartPhase \/ StartLaunch
  <2>1. cmd'.kind # "init"
    BY <1>3 DEF StartBootstrap, StartPhase, StartLaunch, Start, NoCommand
  <2> QED  BY <2>1 DEF Undisturbed
<1>4. CASE Steps
  <2>1. UNCHANGED cmd /\ Running
    BY <1>1, <1>4, ToDoNext DEF Undisturbed
  <2>2. UNCHANGED <<planned, calm>>
    BY <1>4 DEF Steps, WriteFile, SkipFile, UpdateIgnore, InitStorage, ReadInputs,
                SaveSettings, MakeTasks, PrdGone, Sync, SyncIfNeeded, Passes
  <2> QED  BY <1>4, <2>1, <2>2 DEF Undisturbed
<1>5. CASE Faults
  BY <1>1, <1>5 DEF Faults, Stop, KillInWrite, Gone, Undisturbed
<1>6. CASE Operator
  BY <1>6 DEF Operator, EditFile, EditIgnore, EditPrd, Disturbs, Undisturbed
<1>7. CASE Settled
  BY <1>7 DEF Settled, vars, Undisturbed
<1> QED  BY <1>2, <1>3, <1>4, <1>5, <1>6, <1>7 DEF Next, Commands

\* What a step leaves to do.
LEMMA LeftNext ==
    ASSUME FilesInv, PastDone, Undisturbed, Steps, Running, UNCHANGED cmd
    PROVE  /\ Left(todo') \subseteq InitLeft(cmd) \cup AddLeft
           /\ \A op, path : Todo(op, path) => Todo(op, path)' \/ Head(todo) = At(op, path)
           /\ \A op, path : (Todo(op, path)' /\ op # "add") => Todo(op, path)
           /\ Head(todo) \in InitLeft(cmd) \cup AddLeft /\ Head(todo) = At(Head(todo).op, Path)
<1>1. \A op, path : op # "add" => At(op, path) \notin AddLeft
  BY DEF AddLeft, At
<1>2. /\ Left(todo) = {Head(todo)} \cup Left(Tail(todo))
      /\ Left(todo) \subseteq InitLeft(cmd) \cup AddLeft
  BY StepTaken DEF PastDone
<1>3. NoCommand # cmd
  BY DEF NoCommand, Undisturbed
<1>4. \/ Left(todo') = Left(Tail(todo))
      \/ Left(todo') = Left(Tail(todo)) \cup AddLeft
  BY <1>3, ToDoNext
<1>5. Head(todo) = At(Head(todo).op, Path)
  BY StepTaken DEF GoodStep, Step, At, Path
<1> HIDE DEF At, InitLeft, AddLeft
<1> QED  BY <1>1, <1>2, <1>4, <1>5 DEF Todo

\* A text that is written is due for nothing, and leaves the other files alone.
LEMMA WrittenNotDue ==
    ASSUME FilesInv, NEW at \in Paths, NEW text \in {"stub", "rendered"},
           text = "stub" => at = Handover,
           file' = [file EXCEPT ![at] = text], UNCHANGED <<ignore, storage, tasks, cmd>>,
           NEW op, NEW path, At(op, path) \in InitLeft(cmd), Due(op, path)'
    PROVE  Due(op, path) /\ (path # at \/ op \in {"ignore", "storage", "tasks", "syncIfNeeded"})
<1>1. \A q \in Paths : file'[q] = IF q = at THEN text ELSE file[q]
  BY DEF FilesInv, TypeOK
<1>2. /\ op = "ignore" \/ path \in Paths
      /\ op = "generate" => path \in {AiContext, Update, DocsIndex}
  BY InitLeftGood
<1>3. Handover \notin {AiContext, Update, DocsIndex} /\ Handover \in Paths
  BY PathsThere DEF AiContext, Update, DocsIndex, Handover
<1>4. CASE op \in {"scaffold", "install", "generate"}
  BY <1>1, <1>2, <1>3, <1>4 DEF Due, Missing
<1>5. CASE op = "refresh"
  BY <1>1, <1>2, <1>5 DEF Due, Missing, RefreshNeeded, IsStale
<1>6. CASE op \in {"ignore", "storage", "tasks"}
  BY <1>6 DEF Due, IgnoreNeeded
<1>7. CASE op = "syncIfNeeded"
  BY <1>1, <1>3, <1>7 DEF Due, Missing
<1> QED  BY <1>4, <1>5, <1>6, <1>7 DEF Due

\* What is due after a step was due before, and the step was not the one for it.
LEMMA NothingNewDue ==
    ASSUME FilesInv, PastDone, Undisturbed, Steps, Running, UNCHANGED cmd,
           NEW op, NEW path, At(op, path) \in InitLeft(cmd), Due(op, path)'
    PROVE  Due(op, path) /\ Head(todo) # At(op, path)
<1>1. /\ At(op, path).op = op /\ At(op, path).path = path
      /\ Head(todo) = At(op, path) => Head(todo).op = op /\ Path = path
  BY DEF At, Path
<1>2. /\ Head(todo).op = "ignore" \/ Path \in Paths
      /\ op \in {"scaffold", "install", "generate", "refresh", "ignore", "storage", "tasks",
                 "syncIfNeeded"}
  BY LeftNext, InitLeftGood DEF Due
<1>3. CASE WriteFile
  <2>1. Head(todo).op \in {"scaffold", "generate", "refresh", "add", "install"}
    BY <1>3 DEF WriteFile, Writes, Now
  <2>2. Path \in Paths /\ Text \in {"stub", "rendered"} /\ (Text = "stub" => Path = Handover)
    BY <1>2, <2>1 DEF Text
  <2>3. Due(op, path) /\ (path # Path \/ op \in {"ignore", "storage", "tasks", "syncIfNeeded"})
    BY <1>3, <2>2, WrittenNotDue DEF WriteFile
  <2> QED  BY <1>1, <2>1, <2>3
<1>4. CASE SkipFile
  <2>1. Due(op, path)
    BY <1>4 DEF SkipFile, project, Due, Missing, RefreshNeeded, IgnoreNeeded
  <2>2. ASSUME Head(todo) = At(op, path) PROVE Writes
    BY <1>1, <1>4, <2>1, <2>2
       DEF SkipFile, Due, Writes, Now, ScaffoldNeeded, GenerationNeeded, InstallNeeded
  <2> QED  BY <1>4, <2>1, <2>2 DEF SkipFile
<1>5. CASE UpdateIgnore
  <2>1. ~(op = "ignore") /\ UNCHANGED file
    BY <1>5 DEF UpdateIgnore, Due, IgnoreNeeded
  <2>2. Due(op, path)
    BY <1>5, <2>1 DEF UpdateIgnore, Due, Missing, RefreshNeeded
  <2>3. Head(todo).op = "ignore"
    BY <1>5 DEF UpdateIgnore, Now
  <2> QED  BY <1>1, <2>1, <2>2, <2>3
<1>6. CASE InitStorage \/ ReadInputs \/ SaveSettings \/ MakeTasks
  <2>1. /\ UNCHANGED <<file, ignore>>
        /\ storage' = storage \/ storage' = TRUE
        /\ tasks' = tasks \/ tasks' = TRUE
    BY <1>6 DEF InitStorage, ReadInputs, SaveSettings, MakeTasks, project
  <2>2. Due(op, path)
    BY <2>1 DEF Due, Missing, RefreshNeeded, IgnoreNeeded
  <2>3. /\ Head(todo).op \in {"storage", "inputs", "settings", "tasks"}
        /\ Head(todo).op = "storage" => storage'
        /\ Head(todo).op = "tasks" => tasks'
    BY <1>6 DEF InitStorage, ReadInputs, SaveSettings, MakeTasks, Now
  <2>4. (op = "storage" => ~storage') /\ (op = "tasks" => ~tasks')
    BY DEF Due
  <2> QED  BY <1>1, <1>2, <2>2, <2>3, <2>4
<1>7. CASE PrdGone
  BY <1>7 DEF PrdGone, Undisturbed, NoCommand
<1>8. CASE Sync \/ (SyncIfNeeded /\ file' # file)
  <2>1. PICK text \in {"stub", "rendered"} : file' = [file EXCEPT ![Handover] = text]
    BY <1>8 DEF Sync, SyncIfNeeded
  <2>2. UNCHANGED <<ignore, storage, tasks>> /\ Handover \in Paths
        /\ Head(todo).op \in {"sync", "syncIfNeeded"}
    BY <1>8, PathsThere DEF Sync, SyncIfNeeded, Now
  <2>3. /\ Due(op, path)
        /\ path # Handover \/ op \in {"ignore", "storage", "tasks", "syncIfNeeded"}
    BY <2>1, <2>2, WrittenNotDue
  <2>4. op # "syncIfNeeded"
    BY <2>1, <2>2 DEF Due, Missing, FilesInv, TypeOK
  <2> QED  BY <1>1, <1>2, <2>2, <2>3, <2>4
<1>9. CASE SyncIfNeeded /\ UNCHANGED file
  <2>1. Due(op, path) /\ UNCHANGED file
    BY <1>9 DEF SyncIfNeeded, Due, Missing, RefreshNeeded, IgnoreNeeded
  <2>2. ~Missing(Handover)
    <3>1. Handover \in Paths /\ file \in [Paths -> Contents]
      BY PathsThere DEF FilesInv, TypeOK
    <3> QED  BY <1>9, <3>1 DEF SyncIfNeeded, Undisturbed, Missing
  <2>3. op # "syncIfNeeded" /\ Head(todo).op = "syncIfNeeded"
    BY <1>9, <2>1, <2>2 DEF SyncIfNeeded, Now, Due
  <2> QED  BY <1>1, <2>1, <2>3
<1> QED  BY <1>3, <1>4, <1>5, <1>6, <1>7, <1>8, <1>9 DEF Steps

\* PastDone is kept by every step.
LEMMA PastDoneStep ==
    ASSUME FilesInv, PastDone, [Next]_vars
    PROVE  PastDone'
<1>1. CASE UNCHANGED vars
  BY <1>1 DEF vars, project, PastDone, Undisturbed, Todo, Due, Missing, RefreshNeeded,
              IgnoreNeeded
<1>2. CASE Next
  <2> SUFFICES ASSUME Undisturbed' PROVE PastDone'
    BY DEF PastDone
  <2>1. CASE Left(todo') = InitLeft(cmd')
    BY <2>1 DEF PastDone, Todo
  <2>2. CASE Undisturbed /\ Steps /\ Running /\ UNCHANGED cmd
    <3>1. Left(todo') \subseteq InitLeft(cmd') \cup AddLeft
      BY <2>2, LeftNext
    <3>2. ASSUME NEW op, NEW path, At(op, path) \in InitLeft(cmd), Due(op, path)'
          PROVE  Todo(op, path)'
      <4>1. Due(op, path) /\ Head(todo) # At(op, path)
        BY <2>2, <3>2, NothingNewDue
      <4>2. Todo(op, path)
        BY <2>2, <3>2, <4>1 DEF PastDone
      <4> QED  BY <2>2, <4>1, <4>2, LeftNext
    <3> QED  BY <2>2, <3>1, <3>2 DEF PastDone
  <2> QED  BY <1>1, <1>2, <2>1, <2>2, InitNext
<1> QED  BY <1>1, <1>2

\* It is an invariant.
LEMMA PastDoneHolds == Spec => [](FilesInv /\ PastDone)
<1>1. Init => PastDone
  BY DEF Init, PastDone, Undisturbed, NoCommand
<1> QED  BY <1>1, PastDoneStep, FilesInvHolds, PTL DEF Spec

\* At its end no step of it is due.
LEMMA NoneDue ==
    ASSUME PastDone, Finished("init")
    PROVE  \A op, path : At(op, path) \in InitLeft(cmd) => ~Due(op, path)
<1>1. Left(todo) = {}
  BY LeftEmpty DEF Finished, Running
<1> QED  BY <1>1 DEF PastDone, Undisturbed, Finished, Todo

\* A file that is stale would be due for its refresh.
LEMMA CuredThen ==
    ASSUME FilesInv, PastDone, Finished("init"), cmd.refresh
    PROVE  StaleFiles = {}
<1> SUFFICES ASSUME NEW p \in StaleFiles PROVE FALSE
  OBVIOUS
<1>1. Due("refresh", p) /\ p \in {AiContext, Update}
  BY DEF StaleFiles, Due, RefreshNeeded, IsStale
<1>2. At("refresh", p) \in InitLeft(cmd)
  BY <1>1 DEF InitLeft
<1> QED  BY <1>1, <1>2, NoneDue

\* What `init --refresh-workflow` promises: no stale file is left, in whatever
\* state an earlier command or a kill left the project.
THEOREM RefreshAlwaysCures == Spec => []RefreshCures
<1>1. FilesInv /\ PastDone => RefreshCures
  BY CuredThen DEF RefreshCures
<1> QED  BY <1>1, PastDoneHolds, PTL

\* A file a dry run would list would be due.
LEMMA SettledThen ==
    ASSUME FilesInv, PastDone, Finished("init")
    PROVE  InitSettles
<1> DEFINE d == [cmd EXCEPT !.all = FALSE, !.force = {}]
<1>1. /\ d.skip = cmd.skip /\ d.refresh = cmd.refresh /\ \A p : ~Forced(d, p)
  BY DEF FilesInv, TypeOK, Command, Forced
<1>2. /\ At("scaffold", Config) \in InitLeft(cmd) /\ At("syncIfNeeded", Config) \in InitLeft(cmd)
      /\ \A p \in {AiContext, Update, DocsIndex} : At("generate", p) \in InitLeft(cmd)
      /\ \A p \in {Rules, Skill} : At("install", p) \in InitLeft(cmd)
  BY DEF InitLeft, ScaffoldLeft, GenerateLeft
<1>3. ~cmd.skip => /\ At("scaffold", Example) \in InitLeft(cmd)
                   /\ At("ignore", Ignore) \in InitLeft(cmd)
  BY DEF InitLeft, ScaffoldLeft
<1>4. ~Missing(Config) /\ ~Missing(Handover)
  BY <1>2, NoneDue DEF Due
<1>5. \A p \in {AiContext, Update, DocsIndex} :
          ~Missing(p) /\ ~(p # DocsIndex /\ file[p] = "stub")
  BY <1>2, NoneDue DEF Due
<1>6. \A p \in {Rules, Skill} : ~Missing(p)
  BY <1>2, NoneDue DEF Due
<1>7. ~cmd.skip => ~Missing(Example) /\ ~IgnoreNeeded
  BY <1>3, NoneDue DEF Due
<1> HIDE DEF d
<1>8. PlannedScaffold(d) = {}
  BY <1>1, <1>4, <1>5, <1>7, InSeqs DEF PlannedScaffold, ScaffoldNeeded
<1>9. PlannedWorkflow(d) = {}
  BY <1>1, <1>5, InSeqs DEF PlannedWorkflow, GenerationNeeded
<1>10. PlannedTasks(d) = {}
  <2>1. At("storage", Config) \in InitLeft(cmd) /\ At("tasks", Config) \in InitLeft(cmd)
    BY DEF InitLeft
  <2> QED  BY <2>1, NoneDue DEF Due, PlannedTasks
<1>11. Planned(d) = {}
  BY <1>1, <1>8, <1>9, <1>10, CuredThen DEF Planned
<1> QED  BY <1>4, <1>5, <1>6, <1>11 DEF InitSettles, d

\* "Re-runs on an already-ready project are idempotent", and a ready project is
\* what an undisturbed init leaves wherever it began.
THEOREM InitAlwaysSettles == Spec => []InitSettles
<1>1. FilesInv /\ PastDone => InitSettles
  BY SettledThen DEF InitSettles
<1> QED  BY <1>1, PastDoneHolds, PTL

(***************************************************************************)
(* The dry run                                                             *)
(***************************************************************************)

\* A step that will write its file.
WillWrite(op, path) ==
    /\ Todo(op, path)
    /\ \/ op = "scaffold" /\ ScaffoldNeeded(cmd, path)
       \/ op = "generate" /\ GenerationNeeded(cmd, path)
       \/ op = "refresh" /\ RefreshNeeded(path)
       \/ op = "install" /\ InstallNeeded(cmd, path)
       \/ op = "ignore" /\ IgnoreNeeded

InWork(path) == path \in written \/ \E op : WillWrite(op, path)

Listable == Paths \cup {Ignore}

\* What was planned is written or will be, and besides only what has no line.
PlanFollowed ==
    Undisturbed =>
        /\ \A path \in Listable : /\ path \in planned => InWork(path)
                                  /\ InWork(path) => path \in planned \cup Unlisted
        /\ TasksInit \in planned <=> TasksInit \in written \/ ~storage
        /\ ParsePrd \in planned <=> ParsePrd \in written \/ ~tasks

\* The repairs are different things.
LEMMA RepairsThere ==
    /\ TasksInit \notin Listable /\ ParsePrd \notin Listable /\ TasksInit # ParsePrd
    /\ Ignore \in Listable /\ Repairs = Listable \cup {TasksInit, ParsePrd}
BY DEF Listable, Repairs, TasksInit, ParsePrd, Paths, AiContext, Update, DocsIndex, Config,
       Handover, Example, Rules, Skill, Ignore

\* The parts of a plan.
LEMMA PlannedHas ==
    ASSUME NEW c, NEW path
    PROVE  path \in Planned(c) <=>
               \/ path \in PlannedScaffold(c) \/ path \in PlannedTasks(c)
               \/ path \in PlannedWorkflow(c) \/ (c.refresh /\ path \in StaleFiles)
<1>1. CASE c.refresh
  BY <1>1, Zenon DEF Planned
<1>2. CASE ~c.refresh
  BY <1>2 DEF Planned
<1> QED  BY <1>1, <1>2

\* The part of a plan that is about the tasks.
LEMMA PlannedTasksHas ==
    ASSUME NEW c, c.attach => tasks, TasksStored
    PROVE  /\ TasksInit \in PlannedTasks(c) <=> ~storage
           /\ ParsePrd \in PlannedTasks(c) <=> ~tasks
           /\ \A path \in Listable :
                  path \in PlannedTasks(c) <=> ~storage /\ path \in {Rules, Skill} /\ Missing(path)
<1> TasksInit \notin {Rules, Skill} /\ ParsePrd \notin {Rules, Skill}
  BY RepairsThere, PathsThere DEF Listable
<1>1. CASE c.attach
  BY <1>1 DEF PlannedTasks, TasksStored
<1>2. CASE ~c.attach
  BY <1>2, RepairsThere DEF PlannedTasks
<1> QED  BY <1>1, <1>2

\* The labels of the tasks come from one part of the plan.
LEMMA PlannedLabels ==
    ASSUME NEW c, c.attach => tasks, TasksStored
    PROVE  /\ TasksInit \in Planned(c) <=> ~storage
           /\ ParsePrd \in Planned(c) <=> ~tasks
<1>1. PlannedScaffold(c) \cup PlannedWorkflow(c) \cup StaleFiles \subseteq Listable
  BY InSeqs, PathsThere DEF PlannedScaffold, PlannedWorkflow, StaleFiles, Listable
<1>2. \A label \in {TasksInit, ParsePrd} :
          label \in Planned(c) <=> label \in PlannedTasks(c)
  BY <1>1, RepairsThere, PlannedHas
<1> QED  BY <1>2, PlannedTasksHas

\* At its start the steps of init are the plan.
LEMMA PlanBegins ==
    ASSUME FilesInv, Left(todo') = InitLeft(cmd'), UNCHANGED project,
           planned' = Planned(cmd'), written' = {}, cmd'.attach => tasks,
           NEW path \in Listable
    PROVE  /\ path \in planned' => InWork(path)'
           /\ InWork(path)' => path \in planned' \cup Unlisted'
<1> DEFINE c == cmd'
<1>1. \A p : /\ Missing(p)' <=> Missing(p)
             /\ ScaffoldNeeded(cmd, p)' <=> ScaffoldNeeded(c, p)
             /\ GenerationNeeded(cmd, p)' <=> GenerationNeeded(c, p)
             /\ RefreshNeeded(p)' <=> RefreshNeeded(p)
             /\ InstallNeeded(cmd, p)' <=> InstallNeeded(c, p)
             /\ IgnoreNeeded' <=> IgnoreNeeded
  BY DEF project, Missing, ScaffoldNeeded, GenerationNeeded, RefreshNeeded, InstallNeeded,
         IgnoreNeeded
<1>2. At("scaffold", path) \in InitLeft(c) <=>
          path = Config \/ (~c.skip /\ path \in {Handover, Example})
  BY DEF InitLeft, ScaffoldLeft, GenerateLeft, At
<1>3. At("generate", path) \in InitLeft(c) <=> path \in {AiContext, Update, DocsIndex}
  BY DEF InitLeft, ScaffoldLeft, GenerateLeft, At
<1>4. At("refresh", path) \in InitLeft(c) <=>
          c.refresh /\ path \in {AiContext, Update, DocsIndex}
  BY DEF InitLeft, ScaffoldLeft, GenerateLeft, At
<1>5. At("ignore", path) \in InitLeft(c) <=> ~c.skip /\ path = Ignore
  BY DEF InitLeft, ScaffoldLeft, GenerateLeft, At
<1>6. At("install", path) \in InitLeft(c) <=> path \in {Rules, Skill}
  BY DEF InitLeft, ScaffoldLeft, GenerateLeft, At
<1>7. InWork(path)' <=>
          \/ At("scaffold", path) \in InitLeft(c) /\ ScaffoldNeeded(c, path)
          \/ At("generate", path) \in InitLeft(c) /\ GenerationNeeded(c, path)
          \/ At("refresh", path) \in InitLeft(c) /\ RefreshNeeded(path)
          \/ At("install", path) \in InitLeft(c) /\ InstallNeeded(c, path)
          \/ At("ignore", path) \in InitLeft(c) /\ IgnoreNeeded
  BY <1>1 DEF InWork, WillWrite, Todo
<1>8. path \in PlannedScaffold(c) <=>
          \/ path = Config /\ ScaffoldNeeded(c, path)
          \/ /\ ~c.skip
             /\ \/ path \in {AiContext, Handover, Update, Example} /\ ScaffoldNeeded(c, path)
                \/ path = Ignore /\ IgnoreNeeded
  BY InSeqs DEF PlannedScaffold
<1>9. path \in PlannedWorkflow(c) <=>
          path \in {AiContext, Update, DocsIndex} /\ GenerationNeeded(c, path)
  BY InSeqs DEF PlannedWorkflow
<1>10. path \in StaleFiles <=> path \in {AiContext, Update} /\ RefreshNeeded(path)
  BY PathsThere DEF StaleFiles, RefreshNeeded, IsStale
<1>11. path \in PlannedTasks(c) <=> ~storage /\ path \in {Rules, Skill} /\ Missing(path)
  BY PlannedTasksHas DEF FilesInv
<1>12. /\ RefreshNeeded(path) => path \in {AiContext, Update}
       /\ ScaffoldNeeded(c, path) => GenerationNeeded(c, path)
       /\ InstallNeeded(c, path) <=> Missing(path) \/ c.all
  BY DEF RefreshNeeded, IsStale, ScaffoldNeeded, GenerationNeeded, InstallNeeded
<1>13. TasksInit \in planned' <=> ~storage
  BY PlannedLabels DEF FilesInv
<1>14. path \in Unlisted' <=>
           \/ path = Handover \/ (~c.attach /\ path = Config)
           \/ path \in {Rules, Skill} /\ (storage \/ c.all)
  BY <1>13 DEF Unlisted
<1>15. path \in planned' <=>
               \/ path \in PlannedScaffold(c) \/ path \in PlannedTasks(c)
               \/ path \in PlannedWorkflow(c) \/ (c.refresh /\ path \in StaleFiles)
  BY PlannedHas
<1> DEFINE sc == ScaffoldNeeded(c, path)
           ge == GenerationNeeded(c, path)
           re == RefreshNeeded(path)
           ig == IgnoreNeeded
           mi == Missing(path)
<1>16. path \in planned' <=>
           \/ path = Config /\ sc
           \/ /\ ~c.skip
              /\ \/ path \in {AiContext, Handover, Update, Example} /\ sc
                 \/ path = Ignore /\ ig
           \/ ~storage /\ path \in {Rules, Skill} /\ mi
           \/ path \in {AiContext, Update, DocsIndex} /\ ge
           \/ c.refresh /\ path \in {AiContext, Update} /\ re
  BY <1>8, <1>9, <1>10, <1>11, <1>15
<1>17. InWork(path)' <=>
           \/ (path = Config \/ (~c.skip /\ path \in {Handover, Example})) /\ sc
           \/ path \in {AiContext, Update, DocsIndex} /\ ge
           \/ c.refresh /\ path \in {AiContext, Update, DocsIndex} /\ re
           \/ path \in {Rules, Skill} /\ (mi \/ c.all)
           \/ ~c.skip /\ path = Ignore /\ ig
  BY <1>2, <1>3, <1>4, <1>5, <1>6, <1>7, <1>12
<1>18. (sc => ge) /\ (re => path \in {AiContext, Update})
  BY <1>12
<1> HIDE DEF c, sc, ge, re, ig, mi
<1> QED  BY <1>14, <1>16, <1>17, <1>18

\* Paths a step leaves alone keep their place in the plan.
LEMMA PlanUnchanged ==
    ASSUME FilesInv, PastDone, Undisturbed, Steps, Running, UNCHANGED cmd,
           NEW path, path \in written' <=> path \in written,
           path \in Paths => file'[path] = file[path],
           path = Ignore => IgnoreNeeded' = IgnoreNeeded,
           \A op : Head(todo) = At(op, path) => ~WillWrite(op, path)
    PROVE  InWork(path)' <=> InWork(path)
<1>1. \A op : Todo(op, path) => /\ op = "ignore" \/ path \in Paths
                                /\ op = "ignore" => path = Ignore
  <2>1. \A op : At(op, path) \in InitLeft(cmd) \cup AddLeft => (op = "ignore" => path = Ignore)
    BY DEF InitLeft, ScaffoldLeft, GenerateLeft, AddLeft, At
  <2> QED  BY <2>1, InitLeftGood DEF PastDone, Todo
<1>2. ASSUME NEW op, WillWrite(op, path) PROVE WillWrite(op, path)'
  <2>1. Todo(op, path)'
    BY <1>2, LeftNext DEF WillWrite
  <2>2. Todo(op, path)
    BY <1>2 DEF WillWrite
  <2>3. (op = "ignore" /\ path = Ignore) \/ (op # "ignore" /\ path \in Paths)
    BY <1>1, <2>2
  <2>4. path \in Paths =>
            /\ ScaffoldNeeded(cmd, path)' <=> ScaffoldNeeded(cmd, path)
            /\ GenerationNeeded(cmd, path)' <=> GenerationNeeded(cmd, path)
            /\ RefreshNeeded(path)' <=> RefreshNeeded(path)
            /\ InstallNeeded(cmd, path)' <=> InstallNeeded(cmd, path)
    <3> SUFFICES ASSUME path \in Paths
                 PROVE  /\ ScaffoldNeeded(cmd, path)' <=> ScaffoldNeeded(cmd, path)
                        /\ GenerationNeeded(cmd, path)' <=> GenerationNeeded(cmd, path)
                        /\ RefreshNeeded(path)' <=> RefreshNeeded(path)
                        /\ InstallNeeded(cmd, path)' <=> InstallNeeded(cmd, path)
      OBVIOUS
    <3>1. file'[path] = file[path] /\ cmd' = cmd
      OBVIOUS
    <3>2. Missing(path)' <=> Missing(path)
      BY <3>1 DEF Missing
    <3>3. Forced(cmd, path)' <=> Forced(cmd, path)
      BY <3>1 DEF Forced
    <3>4. RefreshNeeded(path)' <=> RefreshNeeded(path)
      BY <3>1, <3>2 DEF RefreshNeeded, IsStale
    <3>5. ScaffoldNeeded(cmd, path)' <=> ScaffoldNeeded(cmd, path)
      BY <3>2, <3>3 DEF ScaffoldNeeded
    <3>6. InstallNeeded(cmd, path)' <=> InstallNeeded(cmd, path)
      BY <3>1, <3>2 DEF InstallNeeded
    <3> QED  BY <3>1, <3>2, <3>3, <3>4, <3>5, <3>6 DEF GenerationNeeded
  <2> QED  BY <1>2, <2>1, <2>3, <2>4 DEF WillWrite
<1>3. ASSUME NEW op, WillWrite(op, path)' PROVE WillWrite(op, path)
  <2>1. op # "add" /\ Todo(op, path)'
    BY <1>3 DEF WillWrite
  <2>2. Todo(op, path)
    BY <2>1, LeftNext
  <2>3. (op = "ignore" /\ path = Ignore) \/ (op # "ignore" /\ path \in Paths)
    BY <1>1, <2>2
  <2>4. path \in Paths =>
            /\ ScaffoldNeeded(cmd, path)' <=> ScaffoldNeeded(cmd, path)
            /\ GenerationNeeded(cmd, path)' <=> GenerationNeeded(cmd, path)
            /\ RefreshNeeded(path)' <=> RefreshNeeded(path)
            /\ InstallNeeded(cmd, path)' <=> InstallNeeded(cmd, path)
    <3> SUFFICES ASSUME path \in Paths
                 PROVE  /\ ScaffoldNeeded(cmd, path)' <=> ScaffoldNeeded(cmd, path)
                        /\ GenerationNeeded(cmd, path)' <=> GenerationNeeded(cmd, path)
                        /\ RefreshNeeded(path)' <=> RefreshNeeded(path)
                        /\ InstallNeeded(cmd, path)' <=> InstallNeeded(cmd, path)
      OBVIOUS
    <3>1. file'[path] = file[path] /\ cmd' = cmd
      OBVIOUS
    <3>2. Missing(path)' <=> Missing(path)
      BY <3>1 DEF Missing
    <3>3. Forced(cmd, path)' <=> Forced(cmd, path)
      BY <3>1 DEF Forced
    <3>4. RefreshNeeded(path)' <=> RefreshNeeded(path)
      BY <3>1, <3>2 DEF RefreshNeeded, IsStale
    <3>5. ScaffoldNeeded(cmd, path)' <=> ScaffoldNeeded(cmd, path)
      BY <3>2, <3>3 DEF ScaffoldNeeded
    <3>6. InstallNeeded(cmd, path)' <=> InstallNeeded(cmd, path)
      BY <3>1, <3>2 DEF InstallNeeded
    <3> QED  BY <3>1, <3>2, <3>3, <3>4, <3>5, <3>6 DEF GenerationNeeded
  <2> QED  BY <1>3, <2>2, <2>3, <2>4 DEF WillWrite
<1> QED  BY <1>2, <1>3 DEF InWork

\* A step keeps every path to the plan.
LEMMA PlanFollowedStep ==
    ASSUME FilesInv, PastDone, Undisturbed, Steps, Running, UNCHANGED cmd,
           NEW path \in Listable
    PROVE  /\ InWork(path) => InWork(path)'
           /\ InWork(path)' => InWork(path) \/ path \in Unlisted
<1>1. /\ Head(todo) \in Left(todo) /\ Head(todo) = At(Head(todo).op, Path)
      /\ Head(todo) \in InitLeft(cmd) \cup AddLeft
      /\ \A op : Head(todo) = At(op, path) => Head(todo).op = op /\ Path = path
  <2>1. \A op : At(op, path).op = op /\ At(op, path).path = path
    BY DEF At
  <2> QED  BY <2>1, StepTaken, LeftNext DEF Path
<1>2. CASE WriteFile
  <2>1. CASE path = Path
    <3>1. CASE Head(todo).op # "add"
      BY <1>1, <1>2, <2>1, <3>1 DEF WriteFile, Writes, Now, WillWrite, Todo, InWork
    <3>2. CASE Head(todo).op = "add"
      <4>1. path \in {Rules, Skill} /\ Missing(path)
        BY <1>1, <1>2, <2>1, <3>2, InitLeftGood DEF WriteFile, Writes, Now
      <4>2. At("install", path) \in InitLeft(cmd)
        BY <4>1 DEF InitLeft, GenerateLeft
      <4>3. Todo("install", path)
        BY <4>1, <4>2 DEF PastDone, Due
      <4>4. InWork(path)
        BY <4>1, <4>3 DEF InWork, WillWrite, InstallNeeded
      <4> QED  BY <1>2, <2>1, <4>4 DEF WriteFile, InWork
    <3> QED  BY <3>1, <3>2
  <2>2. CASE path # Path
    <3>1. /\ path \in written' <=> path \in written
          /\ path \in Paths => file'[path] = file[path]
          /\ IgnoreNeeded' = IgnoreNeeded
      BY <1>2, <2>2 DEF WriteFile, FilesInv, TypeOK, IgnoreNeeded
    <3> QED  BY <1>1, <2>2, <3>1, PlanUnchanged
  <2> QED  BY <2>1, <2>2
<1>3. CASE SkipFile
  <2>1. /\ path \in written' <=> path \in written
        /\ path \in Paths => file'[path] = file[path]
        /\ IgnoreNeeded' = IgnoreNeeded
    BY <1>3 DEF SkipFile, project, IgnoreNeeded
  <2>2. ASSUME NEW op, Head(todo) = At(op, path), WillWrite(op, path) PROVE FALSE
    <3>1. op # "ignore" /\ Head(todo).op = op /\ Path = path
      BY <1>1, <1>3, <2>2 DEF SkipFile
    <3>2. Writes
      BY <1>3, <2>2, <3>1 DEF WillWrite, Writes, Now
    <3> QED  BY <1>3, <3>2 DEF SkipFile
  <2> QED  BY <2>1, <2>2, PlanUnchanged
<1>4. CASE UpdateIgnore
  <2>1. UNCHANGED file /\ Head(todo).op = "ignore"
    BY <1>4 DEF UpdateIgnore, Now
  <2>2. Path = Ignore
    <3>1. Head(todo) \in GoodStep
      BY StepTaken
    <3> QED  BY <2>1, <3>1 DEF GoodStep, Path
  <2>3. CASE path = Ignore /\ IgnoreNeeded
    <3>1. WillWrite("ignore", path)
      BY <1>1, <2>1, <2>2, <2>3 DEF WillWrite, Todo
    <3>2. path \in written'
      BY <1>4, <2>3 DEF UpdateIgnore
    <3> QED  BY <3>1, <3>2 DEF InWork
  <2>4. CASE ~IgnoreNeeded
    <3>1. /\ path \in written' <=> path \in written
          /\ IgnoreNeeded' = IgnoreNeeded
      BY <1>4, <2>4 DEF UpdateIgnore, IgnoreNeeded
    <3>2. \A op : Head(todo) = At(op, path) => ~WillWrite(op, path)
      BY <1>1, <2>1, <2>4 DEF WillWrite
    <3> QED  BY <2>1, <3>1, <3>2, PlanUnchanged
  <2>5. CASE path # Ignore
    <3>1. path \in written' <=> path \in written
      BY <1>4, <2>5 DEF UpdateIgnore
    <3>2. \A op : Head(todo) # At(op, path)
      BY <1>1, <2>2, <2>5
    <3> QED  BY <2>1, <2>5, <3>1, <3>2, PlanUnchanged
  <2> QED  BY <2>3, <2>4, <2>5
<1>5. CASE InitStorage \/ ReadInputs \/ SaveSettings \/ MakeTasks
  <2>1. /\ UNCHANGED <<file, ignore>>
        /\ (path \in written') <=> path \in written \/ (SaveSettings /\ SavesSettings
                                                         /\ path = Config /\ path \in written')
    BY <1>5, RepairsThere DEF InitStorage, ReadInputs, SaveSettings, MakeTasks, project
  <2>2. Head(todo).op \in {"storage", "inputs", "settings", "tasks"}
    BY <1>5 DEF InitStorage, ReadInputs, SaveSettings, MakeTasks, Now
  <2>3. \A op : Head(todo) = At(op, path) => ~WillWrite(op, path)
    BY <1>1, <2>2 DEF WillWrite
  <2>4. IgnoreNeeded' = IgnoreNeeded
    BY <2>1 DEF IgnoreNeeded
  <2>5. CASE path \in written' <=> path \in written
    BY <2>1, <2>3, <2>4, <2>5, PlanUnchanged
  <2>6. CASE SavesSettings /\ path = Config /\ path \in written'
    BY <2>6 DEF SavesSettings, Unlisted, InWork
  <2> QED  BY <2>1, <2>5, <2>6
<1>6. CASE PrdGone
  BY <1>6 DEF PrdGone, Undisturbed, NoCommand
<1>7. CASE Sync \/ SyncIfNeeded
  <2>1. Head(todo).op \in {"sync", "syncIfNeeded"}
    BY <1>7 DEF Sync, SyncIfNeeded, Now
  <2>2. \A op : Head(todo) = At(op, path) => ~WillWrite(op, path)
    BY <1>1, <2>1 DEF WillWrite
  <2>3. CASE path # Handover \/ UNCHANGED <<file, written>>
    <3>1. /\ path \in written' <=> path \in written
          /\ path \in Paths => file'[path] = file[path]
          /\ IgnoreNeeded' = IgnoreNeeded
      BY <1>7, <2>3 DEF Sync, SyncIfNeeded, FilesInv, TypeOK, IgnoreNeeded
    <3> QED  BY <2>2, <3>1, PlanUnchanged
  <2>4. CASE path = Handover /\ Handover \in written'
    BY <2>4 DEF Unlisted, InWork
  <2> QED  BY <1>7, <2>3, <2>4 DEF Sync, SyncIfNeeded
<1> QED  BY <1>2, <1>3, <1>4, <1>5, <1>6, <1>7 DEF Steps

\* A step keeps the storage and the tasks to the plan.
LEMMA LabelsStep ==
    ASSUME FilesInv, Steps
    PROVE  /\ TasksInit \in written' \/ ~storage' <=> TasksInit \in written \/ ~storage
           /\ ParsePrd \in written' \/ ~tasks' <=> ParsePrd \in written \/ ~tasks
<1>1. CASE WriteFile
  <2>1. Path \in Listable
    BY <1>1, StepTaken DEF WriteFile, Writes, Now, Path, GoodStep, Step, Listable
  <2> QED  BY <1>1, <2>1, RepairsThere DEF WriteFile
<1>2. CASE UpdateIgnore \/ SaveSettings \/ Sync \/ SyncIfNeeded
  <2>1. /\ UNCHANGED <<storage, tasks>>
        /\ written' = written \/ \E p \in Listable : written' = written \cup {p}
    BY <1>2, RepairsThere, PathsThere
       DEF UpdateIgnore, SaveSettings, Sync, SyncIfNeeded, project, Listable
  <2> QED  BY <2>1, RepairsThere
<1>3. CASE InitStorage
  BY <1>3, RepairsThere DEF InitStorage
<1>4. CASE MakeTasks
  BY <1>4, RepairsThere DEF MakeTasks
<1>5. CASE SkipFile \/ ReadInputs \/ PrdGone
  BY <1>5 DEF SkipFile, ReadInputs, PrdGone, project
<1> QED  BY <1>1, <1>2, <1>3, <1>4, <1>5 DEF Steps

\* PlanFollowed is kept by every step.
LEMMA PlanFollowedNext ==
    ASSUME FilesInv, PastDone, PlanFollowed, [Next]_vars
    PROVE  PlanFollowed'
<1>1. CASE UNCHANGED vars
  BY <1>1 DEF vars, project, PlanFollowed, Undisturbed, InWork, WillWrite, Todo, Unlisted,
              ScaffoldNeeded, GenerationNeeded, RefreshNeeded, InstallNeeded, IgnoreNeeded,
              Missing
<1>2. CASE Next
  <2> SUFFICES ASSUME Undisturbed' PROVE PlanFollowed'
    BY DEF PlanFollowed
  <2>1. CASE /\ Left(todo') = InitLeft(cmd') /\ UNCHANGED project
             /\ planned' = Planned(cmd') /\ written' = {}
             /\ cmd'.attach => tasks
    <3>1. /\ TasksInit \in planned' <=> ~storage
          /\ ParsePrd \in planned' <=> ~tasks
      BY <2>1, PlannedLabels DEF FilesInv
    <3>2. \A path \in Listable : /\ path \in planned' => InWork(path)'
                                 /\ InWork(path)' => path \in planned' \cup Unlisted'
      BY <2>1, PlanBegins
    <3> QED  BY <2>1, <3>1, <3>2 DEF PlanFollowed, project
  <2>2. CASE Undisturbed /\ Steps /\ Running /\ UNCHANGED <<cmd, planned>>
    <3>1. Unlisted' = Unlisted
      BY <2>2 DEF Unlisted
    <3>2. \A path \in Listable : /\ InWork(path) => InWork(path)'
                                 /\ InWork(path)' => InWork(path) \/ path \in Unlisted
      BY <2>2, PlanFollowedStep
    <3> QED  BY <2>2, <3>1, <3>2, LabelsStep DEF PlanFollowed
  <2> QED  BY <1>1, <1>2, <2>1, <2>2, InitNext
<1> QED  BY <1>1, <1>2

\* `init --dry-run` and init decide in different functions what to do: whatever the
\* list names has been done in the end, and whatever else was written is one of the
\* few things the list has no line for, in every project and for every --force.
THEOREM PlanIsKept == Spec => []PlanKept
<1>1. Init => PlanFollowed
  BY DEF Init, PlanFollowed, Undisturbed, NoCommand
<1>2. FilesInv /\ PastDone /\ PlanFollowed => PlanKept
  <2> SUFFICES ASSUME FilesInv, PastDone, PlanFollowed, Finished("init")
               PROVE  planned \subseteq written /\ written \ planned \subseteq Unlisted
    BY DEF PlanKept
  <2>1. \A op, path : ~WillWrite(op, path)
    BY LeftEmpty DEF Finished, Running, WillWrite, Todo
  <2>2. storage /\ tasks
    <3>1. At("storage", Config) \in InitLeft(cmd) /\ At("tasks", Config) \in InitLeft(cmd)
      BY DEF InitLeft
    <3> QED  BY <3>1, NoneDue DEF Due
  <2>3. planned \subseteq Repairs /\ written \subseteq Repairs
    BY DEF FilesInv, TypeOK
  <2>4. Undisturbed
    BY DEF Undisturbed, Finished
  <2> QED  BY <2>1, <2>2, <2>3, <2>4, RepairsThere DEF PlanFollowed, InWork
<1> QED  BY <1>1, <1>2, PlanFollowedNext, PastDoneHolds, PTL DEF Spec
=============================================================================
