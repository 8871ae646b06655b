------------------------------ MODULE Routing ------------------------------
(***************************************************************************)
(* Which model works on a task.                                            *)
(*                                                                         *)
(* Source: src/cyclopsctl/routing.py, and the [routing] section and its    *)
(* command line overrides in config.py.                                    *)
(*                                                                         *)
(* A reference to a model is one of the canonical aliases, or an id that   *)
(* is sent as it is spelled.                                               *)
(***************************************************************************)
EXTENDS ModelCatalogue

\* The ids a configuration may spell out.  Rules and fallback refuse the texts that
\* begin with the name of a family, tiers and default_model take any.
CONSTANT Ids

PremiumFamilies == {"fable", "opus"}
Tiers == {"standard", "fast"} \cup Ids

\* _ALIAS_TO_CANONICAL; NoRef is None.
Aliases == {"composer-standard", "composer-fast", "grok-standard", "grok-fast",
            "fable", "opus"}
Refs == Aliases \cup Ids
NoRef == "none"

ASSUME IdsAssumption == Ids \cap (Aliases \cup {"standard", "fast", NoRef}) = {}

MinScore == 1
MaxScore == 10
NoScore == 0                \* the report has no entry for the task
ComposerMax == 5
GrokMax == 8

Rules == [low : MinScore..MaxScore, high : MinScore..MaxScore, model : Refs]

-----------------------------------------------------------------------------
(***************************************************************************)
(* Configuration.  A table of cyclopsctl.toml or of a rules file has some  *)
(* of six keys; `rules` is a sequence, `fallback` a pair of references.    *)
(***************************************************************************)
Keys == {"rules", "fallback", "composerTier", "grokTier", "opusOn", "fableOn"}
Fallbacks == [model : Refs \cup {NoRef}, missing : Refs \cup {NoRef}]
NoFallback == [model |-> NoRef, missing |-> NoRef]

DefaultRouting ==
    [rules |-> <<>>, fallback |-> NoFallback, composerTier |-> "standard",
     grokTier |-> "standard", opusOn |-> TRUE, fableOn |-> TRUE]

Overlap(r, s) == r.low <= s.high /\ s.low <= r.high

\* parse_routing_config raises for anything else.
ValidRouting(c) ==
    /\ \A i \in DOMAIN c.rules : c.rules[i] \in Rules /\ c.rules[i].low <= c.rules[i].high
    /\ \A i, j \in DOMAIN c.rules : i < j => ~Overlap(c.rules[i], c.rules[j])
    /\ c.fallback \in Fallbacks
    /\ c.composerTier \in Tiers /\ c.grokTier \in Tiers

\* parse_routing_config: missing keys get their defaults.
Parsed(table) ==
    [k \in Keys |-> IF k \in DOMAIN table THEN table[k] ELSE DefaultRouting[k]]

\* A [routing] section: its own table, and that of its rules file; no file is an
\* empty one.  The file is parsed by itself, then what the section does not set is
\* taken from it.  Its rules are rule objects by then, and _parse_routing_rule
\* accepts tables only.  A fallback names one model at least.
SectionRefused(section) ==
    \/ ~ValidRouting(Parsed(section.file)) \/ ~ValidRouting(Parsed(section.table))
    \/ "rules" \notin DOMAIN section.table /\ Parsed(section.file).rules # <<>>
    \/ \E table \in {section.file, section.table} :
          "fallback" \in DOMAIN table /\ table.fallback = NoFallback

\* _parse_routing_section.  A fallback the file does not have is not merged.
Merged(section) ==
    [k \in Keys |-> IF k \in DOMAIN section.table THEN section.table[k]
                    ELSE Parsed(section.file)[k]]

\* _apply_routing_cli_overrides
Overridden(c, flags) ==
    [k \in Keys |-> IF k \in DOMAIN flags THEN flags[k] ELSE c[k]]

-----------------------------------------------------------------------------
(***************************************************************************)
(* Resolving.  `used` is the flag of a decision that is set: used_opus,    *)
(* used_fable, used_grok or none of them.                                  *)
(***************************************************************************)
Resolved(model, used) == [model |-> model, used |-> used]

\* resolve_model_alias
Alias(ref, caps, grokTier) ==
    LET Preset(s, used) == IF s # Missing THEN Resolved(s, used)
                           ELSE Resolved(caps.composer, "none")
    IN CASE ref = "composer-standard" -> Resolved(caps.composerStandard, "none")
         [] ref = "composer-fast" ->
               Resolved(OrElse(caps.composerFast, caps.composerStandard), "none")
         [] ref = "grok-standard" ->
               Preset(OrElse(IF grokTier = "fast" THEN caps.grokFast ELSE Missing,
                             OrElse(caps.grokStandard, caps.grok)), "grok")
         [] ref = "grok-fast" ->
               Preset(OrElse(caps.grokFast, OrElse(caps.grokStandard, caps.grok)), "grok")
         [] ref = "fable" -> Preset(caps.fable, "fable")
         [] ref = "opus" -> Preset(caps.opus, "opus")
         [] OTHER -> Resolved(Spelled(caps.ids, ref), "none")

\* ModelSelection.from_value(default_model): the text is taken for an id, that of
\* an alias too.
RawDefault(ref, ids) ==
    IF ref = "composer-standard" THEN ComposerId ELSE Spelled(ids, ref)

\* Defect: a Fable decision without its flag.
LegacyRouteUnflagged(score, caps, default, fableOn) ==
    IF score <= ComposerMax THEN Resolved(caps.composer, "none")
    ELSE IF score > GrokMax /\ fableOn /\ caps.fable # Missing
         THEN Resolved(caps.fable, "none")
    ELSE IF caps.grok # Missing THEN Resolved(caps.grok, "grok")
    ELSE IF score <= GrokMax THEN Resolved(caps.composer, "none")
    ELSE Resolved(RawDefault(default, caps.ids), "none")

\* _resolve_legacy_score
LegacyRoute(score, caps, default, fableOn) ==
    IF score <= ComposerMax THEN Resolved(caps.composer, "none")
    ELSE IF score > GrokMax /\ fableOn /\ caps.fable # Missing
         THEN Resolved(caps.fable, "fable")
    ELSE IF caps.grok # Missing THEN Resolved(caps.grok, "grok")
    ELSE IF score <= GrokMax THEN Resolved(caps.composer, "none")
    ELSE Resolved(RawDefault(default, caps.ids), "none")

FirstRef(ref, other) == IF ref # NoRef THEN ref ELSE other

Matches(rule, score) == rule.low <= score /\ score <= rule.high

\* Defect: the flags of a family are looked at only after it was resolved.
UngatedPremium(ref, opusOn, fableOn) == FALSE

\* A rule for a family that is switched off.
Gated(ref, opusOn, fableOn) ==
    (ref = "opus" /\ ~opusOn) \/ (ref = "fable" /\ ~fableOn)

\* _resolve_configured_score, with _premium_substitute
ConfiguredRoute(score, c, caps, default, opusOn, fableOn) ==
    LET Ref(r) == Alias(r, caps, c.grokTier)
        fallback == Ref(FirstRef(c.fallback.model, default))
        substitute == IF caps.grok # Missing THEN Resolved(caps.grok, "grok") ELSE fallback
        matching == {i \in DOMAIN c.rules : Matches(c.rules[i], score)}
        rule == c.rules[CHOOSE i \in matching : \A j \in matching : i <= j]
        wanted == Ref(rule.model)
    IN IF score = NoScore
       THEN Ref(FirstRef(c.fallback.missing, FirstRef(c.fallback.model, default)))
       ELSE IF matching = {} THEN fallback
       ELSE IF \/ Gated(rule.model, opusOn, fableOn)
               \/ rule.model \in PremiumFamilies /\ wanted.used # rule.model
            THEN substitute
       ELSE wanted

\* resolve_model_for_score, as ModelRouter.route calls it: a family needs the
\* switch of the configuration and that of the run.
Route(score, c, caps, default, premiumOn) ==
    LET opusOn == c.opusOn /\ premiumOn
        fableOn == c.fableOn /\ premiumOn
    IN IF c.rules = <<>> THEN LegacyRoute(score, caps, default, fableOn)
       ELSE ConfiguredRoute(score, c, caps, default, opusOn, fableOn)
=============================================================================
