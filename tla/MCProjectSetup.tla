--------------------------- MODULE MCProjectSetup ---------------------------
(***************************************************************************)
(* Small instances of ProjectSetup for TLC: two tags, two PRD texts, and   *)
(* the task lists that make every decision on a queue happen.              *)
(***************************************************************************)
EXTENDS ProjectSetup, TLC

P(deps, status) == [deps |-> deps, status |-> status, complexity |-> FALSE]
T(id, deps, status) ==
    [id |-> id, deps |-> deps, status |-> status, text |-> "A", score |-> NoText]

\* A chain, a cycle of two, a dependency on a task that only an older queue has,
\* and a queue that is done from the start, with a complexity.
MCPlans ==
    {<<P({}, "pending"), P({1}, "pending")>>,
     <<P({2}, "pending"), P({1}, "pending")>>,
     <<P({3}, "pending")>>,
     <<[P({}, "done") EXCEPT !.complexity = TRUE]>>}

NoDocument == <<>>
\* Ids with a gap; the last task waits for one that does not exist.
OldDocument == 1 :> {T(1, {}, "done"), T(3, {4}, "pending")}

MCDocuments == {NoDocument, OldDocument}
JustNew == {NoDocument}
ChainOnly == {<<P({}, "pending"), P({1}, "pending")>>}
=============================================================================
