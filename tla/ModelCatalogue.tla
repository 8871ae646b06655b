--------------------------- MODULE ModelCatalogue ---------------------------
(***************************************************************************)
(* The presets that are found in the model listing of an account.          *)
(*                                                                         *)
(* Source: src/cyclopsctl/models.py.                                       *)
(*                                                                         *)
(* A listing is a sequence of models; a model has a sequence of variants.  *)
(* Of an id and a display name only what the detection looks for in them   *)
(* is kept: the family, the generation (2 the newest the code knows, 1 the *)
(* one before, 0 any other) and one word of `name`.  Of a variant's        *)
(* parameters: fast, effort, thinking, and a context of a million tokens.  *)
(* A selection is the position of a model in the listing and that of one   *)
(* of its variants, or 0 for the bare id.  A text that is sent as an id    *)
(* names a model of the listing or none: `ids` gives the position, or 0.   *)
(***************************************************************************)
EXTENDS Integers, Sequences, FiniteSets

Families == {"composer", "grok", "fable", "opus", "other"}
Toggle == {"unset", "yes", "no"}
Variants == [fast : Toggle, effort : 0..5, thinking : Toggle, extended : BOOLEAN]
Bare == [fast |-> "unset", effort |-> 0, thinking |-> "unset", extended |-> FALSE]
Models == [family : Families, generation : 0..2,
           name : {"plain", "thinking", "fast", "max"}, variants : Seq(Variants)]

At(i, j) == [model |-> i, variant |-> j]
Missing == At(0, 0)         \* None
ComposerId == At(-1, 0)     \* COMPOSER_MODEL_ID, whether listed or not
ExplicitId == At(-2, 0)     \* an id that is not in the listing

\* ModelSelection(id=text): the bare id.
Spelled(ids, text) == IF ids[text] = 0 THEN ExplicitId ELSE At(ids[text], 0)

Candidates(listing) ==
    {At(i, 0) : i \in DOMAIN listing} \cup
    UNION {{At(i, j) : j \in DOMAIN listing[i].variants} : i \in DOMAIN listing}

ModelOf(listing, s) == listing[s.model]
VariantOf(listing, s) == IF s.variant = 0 THEN Bare ELSE listing[s.model].variants[s.variant]

\* `rank > best[0]`: the first of the highest rank in listing order.
Before(s, t) == s.model < t.model \/ (s.model = t.model /\ s.variant < t.variant)

FirstBest(rank) ==
    IF DOMAIN rank = {} THEN Missing
    ELSE CHOOSE s \in DOMAIN rank :
            \A t \in DOMAIN rank \ {s} :
                rank[t] < rank[s] \/ (rank[t] = rank[s] /\ Before(s, t))

Points(condition, n) == IF condition THEN n ELSE 0

-----------------------------------------------------------------------------
(* High-thinking presets of the premium families *)

\* _is_disqualified_tier
Disqualified(m) == m.name \in {"fast", "max"}

\* Neither fast nor extended context; _variant_rank and _fable_variant_rank
\* return -1 for the rest.
PremiumVariant(m, v) == v.fast # "yes" /\ ~v.extended /\ ~Disqualified(m)

\* The bare id counts if no variant qualifies.
PremiumCandidates(listing, family) ==
    {s \in Candidates(listing) :
        LET m == ModelOf(listing, s)
        IN /\ m.family = family
           /\ IF s.variant > 0 THEN PremiumVariant(m, VariantOf(listing, s))
              ELSE /\ ~Disqualified(m)
                   /\ \A j \in DOMAIN m.variants : ~PremiumVariant(m, m.variants[j])}

\* _model_rank, _fable_model_rank
ModelRank(m) ==
    IF Disqualified(m) THEN -1
    ELSE Points(m.generation = 2, 20) + Points(m.name = "thinking", 55)

ThinkingPoints(m, v, explicit) ==
    IF v.thinking = "yes" THEN explicit
    ELSE Points(m.name = "thinking" /\ v.thinking = "unset", 20)

\* _variant_rank
OpusVariantRank(m, v) ==
    Points(m.generation = 2, 20) + ThinkingPoints(m, v, 30) + Points(v.effort >= 3, 28)

\* _fable_variant_rank, where the name is read without the parameters
FableVariantRank(m, v) ==
    Points(m.generation = 2, 20)
    + (IF v.thinking = "yes" THEN 40 ELSE Points(m.name = "thinking", 20))
    + Points(v.effort = 3, 35) + Points(v.effort = 2, 15) + Points(v.effort >= 4, 10)

\* detect_opus_high_thinking
Opus(listing) ==
    FirstBest([s \in PremiumCandidates(listing, "opus") |->
        LET m == ModelOf(listing, s)
        IN ModelRank(m) + (IF s.variant = 0 THEN ModelRank(m)
                           ELSE OpusVariantRank(m, VariantOf(listing, s)))])

\* detect_fable_high_thinking
Fable(listing) ==
    FirstBest([s \in PremiumCandidates(listing, "fable") |->
        LET m == ModelOf(listing, s)
        IN ModelRank(m) + (IF s.variant = 0 THEN ModelRank(m)
                           ELSE FableVariantRank(m, VariantOf(listing, s)))])

-----------------------------------------------------------------------------
(* Composer and Grok, whose variants are told apart by `fast` *)

\* Defect: only an explicit fast=true counts as fast.
OfTierTrustingDefaults(m, v, fast) ==
    IF m.variants = <<>> THEN (m.name = "fast") = fast
    ELSE IF fast THEN v.fast = "yes" ELSE v.fast # "yes"

\* A variant with parameters must say fast=false to be standard: the default of
\* the catalogue may be fast.  A model without variants goes by its id.
OfTier(m, v, fast) ==
    IF m.variants = <<>> THEN (m.name = "fast") = fast
    ELSE IF fast THEN v.fast = "yes" ELSE v.fast = "no" \/ v = Bare

TierCandidates(listing, family, fast) ==
    {s \in Candidates(listing) :
        LET m == ModelOf(listing, s)
        IN /\ m.family = family
           /\ (s.variant = 0) = (m.variants = <<>>)
           /\ OfTier(m, VariantOf(listing, s), fast)}

ComposerRank(listing, s) ==
    (IF ModelOf(listing, s).generation = 2 THEN 20 ELSE 10) + Points(s.variant > 0, 5)

\* _pick_composer_variant, _detect_composer_fast
PickComposer(listing, fast) ==
    FirstBest([s \in TierCandidates(listing, "composer", fast) |-> ComposerRank(listing, s)])

\* High effort first, then the generation.
GrokRank(listing, s) ==
    LET effort == VariantOf(listing, s).effort
    IN 10 + 5 * ModelOf(listing, s).generation + (IF effort = 3 THEN 30 ELSE 5 * effort)

GrokCandidates(listing, fast) ==
    {s \in TierCandidates(listing, "grok", fast) : ModelOf(listing, s).name # "max"}

\* _pick_grok_variant
PickGrok(listing, fast) ==
    FirstBest([s \in GrokCandidates(listing, fast) |-> GrokRank(listing, s)])

OrElse(s, t) == IF s # Missing THEN s ELSE t

\* _detect_composer_standard
ComposerStandard(listing) == OrElse(PickComposer(listing, FALSE), ComposerId)

\* detect_composer: any other tier is taken for an id.
Composer(listing, ids, tier) ==
    CASE tier = "standard" -> ComposerStandard(listing)
      [] tier = "fast" -> OrElse(PickComposer(listing, TRUE), ComposerStandard(listing))
      [] OTHER -> Spelled(ids, tier)

\* detect_grok
Grok(listing, ids, tier) ==
    CASE tier = "standard" -> PickGrok(listing, FALSE)
      [] tier = "fast" -> OrElse(PickGrok(listing, TRUE), PickGrok(listing, FALSE))
      [] OTHER -> Spelled(ids, tier)

\* discover_model_capabilities; `available` is "not Missing".  The account's ids
\* are kept beside the presets for the texts that routing sends unresolved.
Capabilities(listing, ids, composerTier, grokTier) ==
    [ids |-> ids,
     composer |-> Composer(listing, ids, composerTier),
     composerStandard |-> ComposerStandard(listing),
     composerFast |-> PickComposer(listing, TRUE),
     grok |-> Grok(listing, ids, grokTier),
     grokStandard |-> PickGrok(listing, FALSE),
     grokFast |-> PickGrok(listing, TRUE),
     fable |-> Fable(listing),
     opus |-> Opus(listing)]

-----------------------------------------------------------------------------
(* What a selection is, for stating properties *)

Listed(listing, s) == s.model \in DOMAIN listing

FamilyOf(listing, s) ==
    IF s = ComposerId THEN "composer"
    ELSE IF Listed(listing, s) THEN listing[s.model].family ELSE "none"

\* What speed a selection runs at when it says nothing is up to the catalogue, whose
\* default for Composer and Grok is often fast.
MayBeFast(listing, s) ==
    \/ s = ComposerId
    \/ /\ Listed(listing, s)
       /\ LET m == ModelOf(listing, s)
              v == VariantOf(listing, s)
          IN \/ v.fast = "yes"
             \/ v.fast = "unset" /\ (m.name = "fast" \/ m.family \in {"composer", "grok"})

\* Has no parameters that could say anything, nor an id that does.
Silent(listing, s) ==
    \/ s = ComposerId
    \/ /\ Listed(listing, s)
       /\ VariantOf(listing, s) = Bare
       /\ s.variant = 0 => ModelOf(listing, s).name # "fast"

\* The listing has a variant of that family that says fast=false, and it is of the
\* same generation or a newer one and comes first.
StandardListed(listing, s) ==
    \E t \in Candidates(listing) :
        /\ t.variant > 0 /\ VariantOf(listing, t).fast = "no"
        /\ FamilyOf(listing, t) = FamilyOf(listing, s)
        /\ ModelOf(listing, t).name # "max"
        /\ \/ s = ComposerId
           \/ /\ ModelOf(listing, t).generation >= ModelOf(listing, s).generation
              /\ Before(t, s)
=============================================================================
