----------------------------- MODULE MCRunLoop -----------------------------
(***************************************************************************)
(* Small instances of RunLoop for TLC: two tasks, the second depending on  *)
(* the first, and the handover texts that make every branch of selection,  *)
(* alignment, guard and verification happen.                               *)
(***************************************************************************)
EXTENDS RunRefinement, TLC

CONSTANTS a1, a2        \* agent handles

MCTasks == {1, 2}
MCDeps == 1 :> {} @@ 2 :> {1}
TwoAgents == {a1, a2}
OneAgent == {a1}
AgentSymmetry == Permutations(TwoAgents)

H(id, rev) == [id |-> id, rev |-> rev]

\* Two texts for task 1, one for task 2, the queue-complete sentinel, a text
\* without a marker.
MCContents == {H(1, 1), H(1, 2), H(2, 1), H(0, 1), H(NoMarker, 1)}

AllPending == [t \in MCTasks |-> "pending"]
FirstDone == [AllPending EXCEPT ![1] = "done"]
FirstCancelled == [AllPending EXCEPT ![1] = "cancelled"]
None == {}

Default ==
    [source |-> "handover", strict |-> FALSE, resume |-> FALSE, fresh |-> FALSE,
     dryRun |-> FALSE, requireAi |-> FALSE, state |-> TRUE, history |-> TRUE,
     firstPrompt |-> TRUE, pinned |-> NoTask, cycles |-> 2, attempts |-> 2]

Resume == [Default EXCEPT !.resume = TRUE]

(* one run, many settings: two cycles without a retry, one cycle with one *)
CycleConfigs ==
    {[Default EXCEPT !.attempts = 1],
     [Default EXCEPT !.cycles = 1, !.strict = TRUE],
     [Default EXCEPT !.source = "sequential", !.strict = TRUE, !.attempts = 1],
     [Default EXCEPT !.fresh = TRUE, !.cycles = 1, !.requireAi = TRUE],
     [Default EXCEPT !.dryRun = TRUE],
     [Default EXCEPT !.pinned = 2, !.attempts = 1, !.state = FALSE, !.history = FALSE],
     [Default EXCEPT !.pinned = 3, !.attempts = 1],
     [Default EXCEPT !.firstPrompt = FALSE, !.cycles = 1, !.attempts = 1]}
CycleQueues == {AllPending, FirstCancelled}
CycleInitHandovers == {H(1, 1), H(2, 1), H(NoMarker, 1)}
CycleImplHandovers == {Missing, H(2, 1)}
CycleUpdateHandovers == {Missing, H(1, 2), H(2, 1), H(NoMarker, 1)}

(* two runs, the second possibly resumed: history, pins, crashes between *)
ResumeConfigs ==
    {Default, Resume,
     [Resume EXCEPT !.source = "sequential"],
     [Resume EXCEPT !.pinned = 1, !.cycles = 1]}
ResumeUpdateHandovers == {H(1, 2), H(2, 1), H(0, 1)}
JustFirst == {H(1, 1)}
JustPending == {AllPending}

(* liveness: retries, premium fallback, same-agent continues and Ctrl+C *)
LiveConfigs ==
    {[Default EXCEPT !.cycles = 1], [Default EXCEPT !.attempts = 1]}
LiveUpdateHandovers == {H(2, 1)}

(* documentation against code *)
ResumedOnly == {[Default EXCEPT !.attempts = 1],
                [Resume EXCEPT !.cycles = 1, !.attempts = 1]}
JustDefault == {[Default EXCEPT !.cycles = 1, !.attempts = 1]}
=============================================================================
