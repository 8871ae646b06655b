--------------------------- MODULE MCAgentRuntime ---------------------------
(***************************************************************************)
(* Instances of AgentRuntime for TLC: each setting makes some other part   *)
(* of routing and detection matter.                                        *)
(***************************************************************************)
EXTENDS AgentRuntime, TLC

Variant(fast, effort, thinking) ==
    [fast |-> fast, effort |-> effort, thinking |-> thinking, extended |-> FALSE]

Model(family, generation, name, variants) ==
    [family |-> family, generation |-> generation, name |-> name, variants |-> variants]

\* The catalogue of today: variants with parameters; the strongest grok variant
\* leaves its speed to the catalogue.
Rich == <<
    Model("other", 0, "plain", <<>>),
    Model("composer", 2, "plain", <<Variant("unset", 1, "unset"),
                                    Variant("no", 0, "unset"),
                                    Variant("yes", 0, "unset")>>),
    Model("grok", 2, "plain", <<Variant("unset", 3, "unset"),
                                Variant("no", 2, "unset"),
                                Variant("yes", 3, "unset")>>),
    Model("opus", 1, "plain", <<Variant("no", 3, "yes")>>),
    Model("opus", 2, "plain", <<Variant("yes", 3, "yes"), Variant("unset", 3, "yes"),
                                Variant("no", 3, "yes")>>),
    Model("fable", 2, "thinking", <<Variant("no", 3, "yes"),
                                    [Variant("no", 4, "yes") EXCEPT !.extended = TRUE]>>)>>

\* Ids without variants, as older accounts have them.
Flat == <<
    Model("composer", 1, "fast", <<>>), Model("composer", 1, "plain", <<>>),
    Model("grok", 1, "plain", <<>>), Model("opus", 1, "thinking", <<>>)>>

\* Variants without parameters beside some that say fast=false: before one, newer
\* than one, and after one.
Bares == <<
    Model("composer", 1, "plain", <<Variant("no", 0, "unset")>>),
    Model("composer", 2, "plain", <<Bare, Variant("no", 0, "unset")>>),
    Model("grok", 1, "plain", <<Variant("no", 0, "unset"), Bare>>)>>

\* Composer says fast=false, but there is nothing for the highest scores.
Small == <<
    Model("composer", 2, "plain", <<Variant("no", 0, "unset")>>),
    Model("opus", 2, "plain", <<Variant("no", 3, "yes")>>)>>

NoTable == [k \in {} |-> {}]
NoIds == [text \in Refs |-> 0]
Rule(low, high, model) == [low |-> low, high |-> high, model |-> model]

Base == [table |-> NoTable, file |-> NoTable, flags |-> NoTable,
         default |-> "composer-standard", listing |-> Rich, ids |-> NoIds,
         scores |-> <<9, 10>>]

OpusIn(listing, position) ==
    [Base EXCEPT !.listing = listing, !.ids["claude-opus-4-8"] = position]

MCSettings == {
    Base,
    \* Nothing to detect: everything falls back to the configured default.
    [Base EXCEPT !.listing = <<>>, !.scores = <<3>>],
    [Base EXCEPT !.listing = Flat, !.scores = <<6, 2>>,
                 !.flags = ("grokTier" :> "fast")],
    \* The fallback is premium itself.
    [Base EXCEPT !.table = ("rules" :> <<Rule(9, 10, "opus"), Rule(1, 3, "composer-fast")>>)
                           @@ ("fallback" :> [model |-> "opus", missing |-> NoRef]),
                 !.listing = Flat, !.scores = <<9, 5>>],
    \* Opus by rule, switched off from the command line in one of two.
    [Base EXCEPT !.table = ("rules" :> <<Rule(4, 10, "opus")>>), !.scores = <<9, 4>>],
    [Base EXCEPT !.table = ("rules" :> <<Rule(4, 10, "opus")>>), !.scores = <<9>>,
                 !.flags = ("opusOn" :> FALSE)],
    \* A rules file: tiers from it, and rules that are refused.
    [Base EXCEPT !.file = ("composerTier" :> "fast"), !.scores = <<0, 4>>],
    [Base EXCEPT !.file = ("rules" :> <<Rule(1, 10, "fable")>>), !.scores = <<4>>],
    \* Speeds nobody names, and the bare default in the last resort.
    [Base EXCEPT !.listing = Bares, !.scores = <<2, 7>>],
    [Base EXCEPT !.listing = Small, !.scores = <<2, 10>>],
    \* The id of a premium model: in a rule with its family off, as the default of
    \* the last resort, and as a tier; and one that the account does not have.
    [OpusIn(Rich, 5) EXCEPT !.table = ("rules" :> <<Rule(4, 10, "claude-opus-4-8")>>),
                            !.flags = ("opusOn" :> FALSE), !.scores = <<6>>],
    [OpusIn(Small, 2) EXCEPT !.default = "claude-opus-4-8", !.scores = <<9>>],
    [OpusIn(Rich, 5) EXCEPT !.table = ("grokTier" :> "claude-opus-4-8")
                                      @@ ("composerTier" :> "gpt-5"),
                            !.scores = <<7, 1>>]}
=============================================================================
