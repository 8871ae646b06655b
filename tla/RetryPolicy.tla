---------------------------- MODULE RetryPolicy ----------------------------
(***************************************************************************)
(* How an AgentRunError is classified: same-agent continue, fresh-agent    *)
(* retry of the cycle, premium-model fallback, or stop.                    *)
(* Source: src/cyclopsctl/runner.py and session.py.                        *)
(***************************************************************************)
EXTENDS Integers

\* An AgentRunError, reduced to what the classification reads:
\*   kind       RunFailureKind: creation/send/wait failed, or the run errored
\*   detail     the SDK returned a result text
\*   billing    the text carries a billing or credits hint
\*   productive the text shows that the agent was already at work
\*   transient  the CursorAgentError behind a startup failure is a blip
Failures == [kind : {"startup", "run"}, detail : BOOLEAN, billing : BOOLEAN,
             productive : BOOLEAN, transient : BOOLEAN]

StartupFailures ==
    {f \in Failures : f.kind = "startup" /\ ~f.detail /\ ~f.billing /\ ~f.productive}

\* extract_run_error_detail looks for a diagnostic only when detail is empty.
RunFailures ==
    {f \in Failures : f.kind = "run" /\ ~f.transient /\ (f.detail => ~f.productive)}

\* The empty-detail failure that a same-agent continue already followed in
\* this phase: none, one without a trace of work, or one with it.
Drops == {"none", "plain", "productive"}

\* Defect: the nudge is repeated as long as runs drop.
ContinueSameAgentAlways(f, drop) == f.kind = "run" /\ ~f.detail

ShouldContinueSameAgent(f, drop) == f.kind = "run" /\ drop = "none" /\ ~f.detail

DropOf(f) == IF f.productive THEN "productive" ELSE "plain"

\* _annotate_continue_failure keeps the first diagnostic, so either failure
\* may show that work was under way.
ProductiveDrop(f, drop) == drop # "none" /\ (f.productive \/ drop = "productive")

IsTransient(f, drop) ==
    /\ ~ProductiveDrop(f, drop)
    /\ \/ f.kind = "run" /\ ~f.detail
       \/ f.kind = "startup" /\ f.transient

\* `max` is 1 when retry_on is "off".
ShouldRetryTransientFailure(f, drop, attempt, max) ==
    attempt < max /\ IsTransient(f, drop)

ShouldRetryWithComposer(f) == f.kind = "run" /\ f.billing
=============================================================================
