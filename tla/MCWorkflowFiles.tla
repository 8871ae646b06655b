-------------------------- MODULE MCWorkflowFiles --------------------------
(***************************************************************************)
(* Small instances of WorkflowFiles for TLC: an empty directory, a project *)
(* that an older cyclopsctl has set up, and one that a team has adapted.   *)
(***************************************************************************)
EXTENDS WorkflowFiles, TLC

Empty == [p \in Paths |-> "missing"]

Older == (AiContext :> "stub" @@ Update :> "stub" @@ Handover :> "stub"
            @@ Config :> "rendered") @@ Empty

Adapted == (AiContext :> "outdated" @@ Update :> "custom" @@ DocsIndex :> "custom"
              @@ Handover :> "custom" @@ Rules :> "custom" @@ Skill :> "rendered") @@ Empty

MCProjects == {Empty, Older, Adapted}
MCIgnoreFiles == {{}, {"mine", ".env"}}
MCForcePaths == {{}, {AiContext, Handover}}
MCEditedPaths == {AiContext, DocsIndex, Config}
=============================================================================
