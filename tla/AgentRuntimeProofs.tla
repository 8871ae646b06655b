------------------------- MODULE AgentRuntimeProofs -------------------------
(***************************************************************************)
(* Proofs about AgentRuntime: its type invariant, which bridge a retry     *)
(* talks to, which model the detection picks from any listing, and what a  *)
(* run may work with for any configuration.                                *)
(***************************************************************************)
EXTENDS SdkBridgeProofs, WellFoundedInduction

\* The bridge that refused an attempt is the registered one until recovery closes
\* it, or one given up on; then it is replaced by a later one, or by none.
RetryInv ==
    /\ pc \in {"off", "enter"} \/ cmd # "run" => step = "list"
    /\ step = "list" => failedOn = NoBridge
    /\ failedOn # NoBridge => failedOn \in 1..launched
    /\ InRun("recover") /\ failedOn # NoBridge
        => refused /\ (registry = {failedOn} \/ failedOn \in lost)
    /\ pc \in Closing /\ why = "recover" /\ failedOn # NoBridge
        => target = failedOn \/ failedOn \in lost
    /\ pc \in {"discover", "install"} /\ why # "recover" => step = "list"
    /\ pc \in {"relaunch", "discover", "install"} /\ why = "recover" => step # "recover"
    /\ pc \in {"relaunch", "discover"} /\ why = "recover" => env = NoBridge
    /\ pc \in {"discover", "install"} => failedOn < launched
    /\ pc \in Closing /\ why = "recover" => step # "recover"
    /\ RetryAvoidsDeadBridge

\* The counters, where the bound of a step depends on the one before.
RunInv ==
    /\ TypeOK
    /\ step = "recover" => attempt < MaxAttempts

\* The decision is that of the switches as they are: they change only between two
\* decisions.
DecisionInv == step = "work" => decision = RouteNow

\* A run is one whose configuration was accepted, and works on a cycle of it.
AcceptedInv ==
    /\ cmd = "run" => ~SectionRefused(setting)
    /\ step # "list" => cycle >= 1

\* What a valid configuration has, the flags of the command line included.
ValidConfiguration(c) ==
    /\ DOMAIN c.rules \subseteq Nat
    /\ \A i \in DOMAIN c.rules : c.rules[i].model \in Refs
    /\ c.fallback \in Fallbacks
    /\ c.composerTier \in Tiers /\ c.grokTier \in Tiers

\* The references a configuration can resolve to.
References(c, default) ==
    {c.rules[i].model : i \in DOMAIN c.rules}
    \cup {c.fallback.model, c.fallback.missing, default}

\* The selections it spells out by their ids.
Spellings(ids, c, score, default) ==
    {Spelled(ids, text) :
        text \in Ids \cap (References(c, default) \cup {c.composerTier, c.grokTier})}
    \cup (IF c.rules = <<>> /\ score > GrokMax THEN {RawDefault(default, ids)} ELSE {})

\* Runs at the catalogue's speed because nothing better is listed.
Unavoidable(listing, s) == Silent(listing, s) /\ ~StandardListed(listing, s)

\* A selection is of a family, or not in the listing, and may be fast only if `fast`
\* or if that is unavoidable; unless it is spelled out.
Tells(listing, s, family, fast, spelled) ==
    \/ s \in spelled
    \/ /\ FamilyOf(listing, s) \in {"none", family}
       /\ MayBeFast(listing, s)
             => FamilyOf(listing, s) = family /\ (fast \/ Unavoidable(listing, s))

\* No other model is flagged as premium; a model that is not spelled out is flagged
\* if it is premium, and may be fast only if a tier or one of the references asks
\* for it, or if that is unavoidable.
DecisionTells(listing, d, composerTier, grokTier, refs, spelled) ==
    LET family == FamilyOf(listing, d.model)
    IN /\ d.used \in PremiumFamilies => family = d.used
       /\ family \in PremiumFamilies => d.used = family \/ d.model \in spelled
       /\ MayBeFast(listing, d.model) =>
             \/ family = "composer" /\ (composerTier = "fast" \/ "composer-fast" \in refs)
             \/ family = "grok" /\ (grokTier = "fast" \/ "grok-fast" \in refs)
             \/ d.model \in spelled
             \/ Unavoidable(listing, d.model)

-----------------------------------------------------------------------------
(***************************************************************************)
(* Lemmas about detection                                                  *)
(***************************************************************************)

\* Every non-empty set of numbers has a least one.
LEMMA LeastNumber ==
    ASSUME NEW S \in SUBSET Nat, S # {}
    PROVE  \E n \in S : \A m \in S : n <= m
  <1> DEFINE R == {p \in Nat \X Nat : p[1] < p[2]}
  <1>1. R = OpToRel(<, Nat)
    BY DEF OpToRel
  <1>2. IsWellFoundedOn(R, Nat)
    BY <1>1, NatLessThanWellFounded, Zenon
  <1>3. PICK n \in S : \A m \in S : ~(<<m, n>> \in R)
    BY <1>2, WFMin, Zenon
  <1>4. ASSUME NEW m \in S PROVE n <= m
    <2>1. m \in Nat /\ n \in Nat
      OBVIOUS
    <2>2. m < n => <<m, n>> \in R
      BY <2>1
    <2> QED BY <1>3, <2>1, <2>2
  <1> QED BY <1>4

\* The parts of a candidate.
LEMMA CandidateParts ==
    ASSUME NEW listing \in Seq(Models), NEW s \in Candidates(listing)
    PROVE  /\ s.model \in DOMAIN listing /\ s.model \in Nat /\ s.variant \in Nat
           /\ s = At(s.model, s.variant)
           /\ ModelOf(listing, s) \in Models
           /\ VariantOf(listing, s) \in Variants
  <1>1. CASE s \in {At(i, 0) : i \in DOMAIN listing}
    <2>1. PICK i \in DOMAIN listing : s = At(i, 0)
      BY <1>1
    <2>2. i \in Nat /\ listing[i] \in Models
      OBVIOUS
    <2>3. Bare \in Variants
      BY DEF Bare, Variants, Toggle
    <2> QED BY <2>1, <2>2, <2>3 DEF At, ModelOf, VariantOf
  <1>2. CASE s \in UNION {{At(i, j) : j \in DOMAIN listing[i].variants} :
                            i \in DOMAIN listing}
    <2>1. PICK i \in DOMAIN listing : s \in {At(i, j) : j \in DOMAIN listing[i].variants}
      BY <1>2
    <2>2. PICK j \in DOMAIN listing[i].variants : s = At(i, j)
      BY <2>1
    <2>3. i \in Nat /\ listing[i] \in Models
      OBVIOUS
    <2>4. listing[i].variants \in Seq(Variants)
      BY <2>3 DEF Models
    <2>5. j \in Nat /\ listing[i].variants[j] \in Variants
      BY <2>4
    <2>6. s.model = i /\ s.variant = j
      BY <2>2 DEF At
    <2>7. j # 0
      BY <2>4
    <2> QED BY <2>2, <2>3, <2>5, <2>6, <2>7 DEF ModelOf, VariantOf
  <1> QED BY <1>1, <1>2 DEF Candidates

\* The running maximum of the detection: of a listing of any length, the candidate
\* of highest rank, the first one if there are several.
THEOREM FirstBestIsBest ==
    ASSUME NEW listing \in Seq(Models), NEW rank, NEW Bound \in Nat,
           DOMAIN rank \subseteq Candidates(listing), DOMAIN rank # {},
           \A s \in DOMAIN rank : rank[s] \in Int /\ rank[s] <= Bound
    PROVE  /\ FirstBest(rank) \in DOMAIN rank
           /\ \A t \in DOMAIN rank \ {FirstBest(rank)} :
                 \/ rank[t] < rank[FirstBest(rank)]
                 \/ rank[t] = rank[FirstBest(rank)] /\ Before(FirstBest(rank), t)
  <1> DEFINE D == DOMAIN rank
             Best(s) == \A t \in D \ {s} :
                           rank[t] < rank[s] \/ (rank[t] = rank[s] /\ Before(s, t))
  <1>1. \A s \in D : s.model \in Nat /\ s.variant \in Nat /\ s = At(s.model, s.variant)
    BY CandidateParts
  <1>2. PICK a \in D : \A t \in D : rank[t] <= rank[a]
    <2> DEFINE S == {Bound - rank[s] : s \in D}
    <2>1. S \in SUBSET Nat /\ S # {}
      OBVIOUS
    <2>2. PICK n \in S : \A m \in S : n <= m
      BY <2>1, LeastNumber
    <2>3. PICK a \in D : n = Bound - rank[a]
      OBVIOUS
    <2>4. ASSUME NEW t \in D PROVE rank[t] <= rank[a]
      <3>1. Bound - rank[t] \in S
        OBVIOUS
      <3>2. Bound - rank[a] <= Bound - rank[t]
        BY <2>2, <2>3, <3>1
      <3> QED BY <3>2
    <2> QED BY <2>4
  <1> DEFINE A == {s \in D : rank[s] = rank[a]}
  <1>3. PICK b \in A : \A t \in A : b.model <= t.model
    <2> DEFINE S == {s.model : s \in A}
    <2>1. S \in SUBSET Nat /\ S # {}
      BY <1>1
    <2>2. PICK n \in S : \A m \in S : n <= m
      BY <2>1, LeastNumber
    <2> QED BY <2>2
  <1> DEFINE B == {s \in A : s.model = b.model}
  <1>4. PICK c \in B : \A t \in B : c.variant <= t.variant
    <2> DEFINE S == {s.variant : s \in B}
    <2>1. S \in SUBSET Nat /\ S # {}
      BY <1>1
    <2>2. PICK n \in S : \A m \in S : n <= m
      BY <2>1, LeastNumber
    <2> QED BY <2>2
  <1>5. Best(c)
    <2> SUFFICES ASSUME NEW t \in D, t # c
                 PROVE  rank[t] < rank[c] \/ (rank[t] = rank[c] /\ Before(c, t))
      OBVIOUS
    <2>1. rank[c] = rank[a] /\ rank[t] <= rank[a] /\ rank[t] \in Int /\ rank[a] \in Int
      BY <1>2
    <2>2. CASE t \in B
      <3>1. t.model = c.model /\ c.variant <= t.variant
        BY <1>4, <2>2
      <3>2. t.variant # c.variant
        BY <1>1, <3>1
      <3> QED BY <1>1, <2>1, <2>2, <3>1, <3>2 DEF Before
    <2>3. CASE t \in A \ B
      <3>1. c.model = b.model /\ b.model <= t.model /\ t.model # b.model
        BY <1>3, <2>3
      <3> QED BY <1>1, <2>1, <2>3, <3>1 DEF Before
    <2>4. CASE t \notin A
      BY <2>1, <2>4
    <2> QED BY <2>2, <2>3, <2>4
  <1>6. FirstBest(rank) = CHOOSE s \in D : Best(s)
    BY DEF FirstBest
  <1>7. FirstBest(rank) \in D /\ Best(FirstBest(rank))
    BY <1>5, <1>6
  <1> QED BY <1>7

\* Ranks are numbers with a common bound.
LEMMA RanksBounded ==
    ASSUME NEW m \in Models, NEW v \in Variants
    PROVE  /\ ModelRank(m) \in -1..75
           /\ OpusVariantRank(m, v) \in 0..78
           /\ FableVariantRank(m, v) \in 0..95
  <1>1. m.generation \in 0..2 /\ v.effort \in 0..5
    BY DEF Models, Variants
  <1>3. ModelRank(m) \in -1..75
    BY DEF ModelRank, Points
  <1>4. ThinkingPoints(m, v, 30) \in 0..30
    BY DEF ThinkingPoints, Points
  <1>5. OpusVariantRank(m, v) \in 0..78
    BY <1>1, <1>4 DEF OpusVariantRank, Points
  <1>6. FableVariantRank(m, v) \in 0..95
    BY <1>1 DEF FableVariantRank, Points
  <1> QED BY <1>3, <1>5, <1>6

\* The presets of the premium families are missing, or one of the candidates.
LEMMA PremiumPresets ==
    ASSUME NEW listing \in Seq(Models)
    PROVE  /\ Opus(listing) \in PremiumCandidates(listing, "opus") \cup {Missing}
           /\ Fable(listing) \in PremiumCandidates(listing, "fable") \cup {Missing}
  <1> DEFINE O == PremiumCandidates(listing, "opus")
             F == PremiumCandidates(listing, "fable")
             opus == [s \in O |->
                        LET m == ModelOf(listing, s)
                        IN ModelRank(m) + (IF s.variant = 0 THEN ModelRank(m)
                                           ELSE OpusVariantRank(m, VariantOf(listing, s)))]
             fable == [s \in F |->
                        LET m == ModelOf(listing, s)
                        IN ModelRank(m) + (IF s.variant = 0 THEN ModelRank(m)
                                           ELSE FableVariantRank(m, VariantOf(listing, s)))]
  <1>1. O \subseteq Candidates(listing) /\ F \subseteq Candidates(listing)
    BY DEF PremiumCandidates
  <1>2. ASSUME NEW s \in Candidates(listing)
        PROVE  /\ ModelRank(ModelOf(listing, s)) \in -1..75
               /\ OpusVariantRank(ModelOf(listing, s), VariantOf(listing, s)) \in 0..78
               /\ FableVariantRank(ModelOf(listing, s), VariantOf(listing, s)) \in 0..95
    BY <1>2, CandidateParts, RanksBounded
  <1>3. \A s \in O : opus[s] \in Int /\ opus[s] <= 170
    <2> SUFFICES ASSUME NEW s \in O PROVE opus[s] \in Int /\ opus[s] <= 170
      OBVIOUS
    <2>1. opus[s] = ModelRank(ModelOf(listing, s))
                   + (IF s.variant = 0 THEN ModelRank(ModelOf(listing, s))
                      ELSE OpusVariantRank(ModelOf(listing, s), VariantOf(listing, s)))
      OBVIOUS
    <2>2. /\ ModelRank(ModelOf(listing, s)) \in -1..75
          /\ OpusVariantRank(ModelOf(listing, s), VariantOf(listing, s)) \in 0..95
      BY <1>1, <1>2
    <2> HIDE DEF opus
    <2>3. \A a \in -1..75, b \in 0..95, c \in BOOLEAN :
             LET n == a + (IF c THEN a ELSE b) IN n \in Int /\ n <= 170
      OBVIOUS
    <2> QED BY <2>1, <2>2, <2>3, Zenon
  <1>4. \A s \in F : fable[s] \in Int /\ fable[s] <= 170
    <2> SUFFICES ASSUME NEW s \in F PROVE fable[s] \in Int /\ fable[s] <= 170
      OBVIOUS
    <2>1. fable[s] = ModelRank(ModelOf(listing, s))
                   + (IF s.variant = 0 THEN ModelRank(ModelOf(listing, s))
                      ELSE FableVariantRank(ModelOf(listing, s), VariantOf(listing, s)))
      OBVIOUS
    <2>2. /\ ModelRank(ModelOf(listing, s)) \in -1..75
          /\ FableVariantRank(ModelOf(listing, s), VariantOf(listing, s)) \in 0..95
      BY <1>1, <1>2
    <2> HIDE DEF fable
    <2>3. \A a \in -1..75, b \in 0..95, c \in BOOLEAN :
             LET n == a + (IF c THEN a ELSE b) IN n \in Int /\ n <= 170
      OBVIOUS
    <2> QED BY <2>1, <2>2, <2>3, Zenon
  <1>5. Opus(listing) = FirstBest(opus) /\ Fable(listing) = FirstBest(fable)
    BY DEF Opus, Fable
  <1>6. DOMAIN opus = O /\ DOMAIN fable = F /\ 170 \in Nat
    OBVIOUS
  <1> HIDE DEF opus, fable, O, F
  <1>7. FirstBest(opus) \in O \cup {Missing}
    <2>1. CASE O = {}
      BY <1>6, <2>1 DEF FirstBest
    <2>2. CASE O # {}
      BY <1>1, <1>3, <1>6, <2>2, FirstBestIsBest
    <2> QED BY <2>1, <2>2
  <1>8. FirstBest(fable) \in F \cup {Missing}
    <2>1. CASE F = {}
      BY <1>6, <2>1 DEF FirstBest
    <2>2. CASE F # {}
      BY <1>1, <1>4, <1>6, <2>2, FirstBestIsBest
    <2> QED BY <2>1, <2>2
  <1> QED BY <1>5, <1>7, <1>8 DEF O, F

\* The same for the two tiers of Composer and Grok, where the rank tells more.
LEMMA TierPresets ==
    ASSUME NEW listing \in Seq(Models), NEW fast \in BOOLEAN
    PROVE  /\ LET c == PickComposer(listing, fast)
                  C == TierCandidates(listing, "composer", fast)
              IN \/ c = Missing /\ C = {}
                 \/ /\ c \in C
                    /\ \A t \in C \ {c} :
                          \/ ComposerRank(listing, t) < ComposerRank(listing, c)
                          \/ /\ ComposerRank(listing, t) = ComposerRank(listing, c)
                             /\ Before(c, t)
           /\ LET g == PickGrok(listing, fast)
                  G == GrokCandidates(listing, fast)
              IN \/ g = Missing /\ G = {}
                 \/ /\ g \in G
                    /\ \A t \in G \ {g} :
                          \/ GrokRank(listing, t) < GrokRank(listing, g)
                          \/ /\ GrokRank(listing, t) = GrokRank(listing, g)
                             /\ Before(g, t)
  <1> DEFINE C == TierCandidates(listing, "composer", fast)
             G == GrokCandidates(listing, fast)
             composer == [s \in C |-> ComposerRank(listing, s)]
             grok == [s \in G |-> GrokRank(listing, s)]
  <1>1. C \subseteq Candidates(listing) /\ G \subseteq Candidates(listing)
    BY DEF TierCandidates, GrokCandidates
  <1>2. \A s \in C : ComposerRank(listing, s) \in Int /\ ComposerRank(listing, s) <= 60
    BY DEF ComposerRank, Points
  <1>3. \A s \in G : GrokRank(listing, s) \in Int /\ GrokRank(listing, s) <= 60
    <2> SUFFICES ASSUME NEW s \in G
                 PROVE  GrokRank(listing, s) \in Int /\ GrokRank(listing, s) <= 60
      OBVIOUS
    <2>1. ModelOf(listing, s).generation \in 0..2 /\ VariantOf(listing, s).effort \in 0..5
      BY <1>1, CandidateParts DEF Models, Variants
    <2> QED BY <2>1 DEF GrokRank
  <1>4. PickComposer(listing, fast) = FirstBest(composer)
        /\ PickGrok(listing, fast) = FirstBest(grok)
    BY DEF PickComposer, PickGrok
  <1>5. /\ DOMAIN composer = C /\ DOMAIN grok = G /\ 60 \in Nat
        /\ \A s \in C : composer[s] = ComposerRank(listing, s)
        /\ \A s \in G : grok[s] = GrokRank(listing, s)
    OBVIOUS
  <1> HIDE DEF composer, grok, C, G
  <1>6. \/ FirstBest(composer) = Missing /\ C = {}
        \/ /\ FirstBest(composer) \in C
           /\ \A t \in C \ {FirstBest(composer)} :
                 \/ composer[t] < composer[FirstBest(composer)]
                 \/ /\ composer[t] = composer[FirstBest(composer)]
                    /\ Before(FirstBest(composer), t)
    <2>1. CASE C = {}
      BY <1>5, <2>1 DEF FirstBest
    <2>2. CASE C # {}
      BY <1>1, <1>2, <1>5, <2>2, FirstBestIsBest
    <2> QED BY <2>1, <2>2
  <1>7. \/ FirstBest(grok) = Missing /\ G = {}
        \/ /\ FirstBest(grok) \in G
           /\ \A t \in G \ {FirstBest(grok)} :
                 \/ grok[t] < grok[FirstBest(grok)]
                 \/ grok[t] = grok[FirstBest(grok)] /\ Before(FirstBest(grok), t)
    <2>1. CASE G = {}
      BY <1>5, <2>1 DEF FirstBest
    <2>2. CASE G # {}
      BY <1>1, <1>3, <1>5, <2>2, FirstBestIsBest
    <2> QED BY <2>1, <2>2
  <1>8. \/ PickComposer(listing, fast) = Missing /\ C = {}
        \/ /\ PickComposer(listing, fast) \in C
           /\ \A t \in C \ {PickComposer(listing, fast)} :
                 \/ ComposerRank(listing, t) < ComposerRank(listing, PickComposer(listing, fast))
                 \/ /\ ComposerRank(listing, t)
                          = ComposerRank(listing, PickComposer(listing, fast))
                    /\ Before(PickComposer(listing, fast), t)
    BY <1>4, <1>5, <1>6
  <1>9. \/ PickGrok(listing, fast) = Missing /\ G = {}
        \/ /\ PickGrok(listing, fast) \in G
           /\ \A t \in G \ {PickGrok(listing, fast)} :
                 \/ GrokRank(listing, t) < GrokRank(listing, PickGrok(listing, fast))
                 \/ /\ GrokRank(listing, t) = GrokRank(listing, PickGrok(listing, fast))
                    /\ Before(PickGrok(listing, fast), t)
    BY <1>4, <1>5, <1>7
  <1> QED BY <1>8, <1>9 DEF C, G

\* What is not in the listing has no family and no mode.
LEMMA Unlisted ==
    ASSUME NEW listing \in Seq(Models), NEW s \in {Missing, ExplicitId}
    PROVE  FamilyOf(listing, s) = "none" /\ ~MayBeFast(listing, s)
  <1>1. s.model \notin DOMAIN listing /\ s # ComposerId
    BY DEF Missing, ComposerId, ExplicitId, At
  <1> QED BY <1>1 DEF FamilyOf, MayBeFast, Listed

\* A premium preset is a model of its family, and says nothing of fast mode.
LEMMA PremiumCandidate ==
    ASSUME NEW listing \in Seq(Models), NEW family \in PremiumFamilies,
           NEW s \in PremiumCandidates(listing, family)
    PROVE  FamilyOf(listing, s) = family /\ ~MayBeFast(listing, s)
  <1>1. /\ s \in Candidates(listing) /\ s.model \in DOMAIN listing
        /\ s # ComposerId
    BY CandidateParts DEF PremiumCandidates, ComposerId, At
  <1>2. FamilyOf(listing, s) = family
    BY <1>1 DEF PremiumCandidates, FamilyOf, Listed, ModelOf
  <1>3. ModelOf(listing, s).name # "fast"
    BY DEF PremiumCandidates, PremiumVariant, Disqualified
  <1>4. VariantOf(listing, s).fast # "yes"
    <2>1. CASE s.variant = 0
      BY <2>1 DEF VariantOf, Bare
    <2>2. CASE s.variant # 0
      <3>1. s.variant > 0
        BY <1>1, <2>2, CandidateParts
      <3> QED BY <3>1 DEF PremiumCandidates, PremiumVariant
    <2> QED BY <2>1, <2>2
  <1>5. ModelOf(listing, s).family \notin {"composer", "grok"}
    BY DEF PremiumCandidates, PremiumFamilies
  <1> QED BY <1>1, <1>2, <1>3, <1>4, <1>5 DEF MayBeFast

\* A standard preset leaves fast mode to the catalogue only if it has no parameters.
LEMMA TierCandidate ==
    ASSUME NEW listing \in Seq(Models), NEW family, NEW fast \in BOOLEAN,
           NEW s \in TierCandidates(listing, family, fast)
    PROVE  /\ s \in Candidates(listing) /\ s # ComposerId /\ s # Missing
           /\ FamilyOf(listing, s) = family
           /\ ~fast /\ MayBeFast(listing, s) => Silent(listing, s)
  <1>1. /\ s \in Candidates(listing) /\ s.model \in DOMAIN listing
        /\ s # ComposerId /\ s # Missing
    BY CandidateParts DEF TierCandidates, ComposerId, Missing, At
  <1>2. FamilyOf(listing, s) = family
    BY <1>1 DEF TierCandidates, FamilyOf, Listed, ModelOf
  <1>3. ASSUME ~fast, MayBeFast(listing, s) PROVE Silent(listing, s)
    <2>1. OfTier(ModelOf(listing, s), VariantOf(listing, s), fast)
          /\ ((s.variant = 0) = (ModelOf(listing, s).variants = <<>>))
      BY DEF TierCandidates
    <2>2. CASE ModelOf(listing, s).variants = <<>>
      <3>1. VariantOf(listing, s) = Bare /\ ModelOf(listing, s).name # "fast"
        BY <1>3, <2>1, <2>2 DEF VariantOf, OfTier
      <3> QED BY <1>1, <3>1 DEF Silent, Listed
    <2>3. CASE ModelOf(listing, s).variants # <<>>
      <3>1. VariantOf(listing, s).fast = "no" \/ VariantOf(listing, s) = Bare
        BY <1>3, <2>1, <2>3 DEF OfTier
      <3>2. VariantOf(listing, s).fast # "no"
        BY <1>1, <1>3 DEF MayBeFast
      <3> QED BY <1>1, <2>1, <2>3, <3>1, <3>2 DEF Silent, Listed
    <2> QED BY <2>2, <2>3
  <1> QED BY <1>1, <1>2, <1>3

\* A variant that says fast=false is a candidate for the standard tier.
LEMMA StandardCandidate ==
    ASSUME NEW listing \in Seq(Models), NEW t \in Candidates(listing), NEW family,
           t.variant > 0, VariantOf(listing, t).fast = "no", FamilyOf(listing, t) = family
    PROVE  t \in TierCandidates(listing, family, FALSE)
  <1>1. /\ t.model \in DOMAIN listing /\ t.variant \in Nat /\ t # ComposerId
        /\ t = At(t.model, t.variant)
    BY CandidateParts DEF ComposerId, At
  <1>2. ModelOf(listing, t).family = family
    BY <1>1 DEF FamilyOf, Listed, ModelOf
  <1>3. t.variant \in DOMAIN listing[t.model].variants
    <2>1. t \notin {At(i, 0) : i \in DOMAIN listing}
      BY <1>1 DEF At
    <2>2. PICK i \in DOMAIN listing : t \in {At(i, j) : j \in DOMAIN listing[i].variants}
      BY <2>1 DEF Candidates
    <2>3. PICK j \in DOMAIN listing[i].variants : t = At(i, j)
      BY <2>2
    <2> QED BY <2>3 DEF At
  <1>4. ModelOf(listing, t).variants # <<>>
    BY <1>3 DEF ModelOf
  <1>5. t.variant # 0
    BY <1>1
  <1>6. OfTier(ModelOf(listing, t), VariantOf(listing, t), FALSE)
    BY <1>4 DEF OfTier
  <1> QED BY <1>2, <1>4, <1>5, <1>6 DEF TierCandidates

\* A standard preset without parameters is picked only if no variant before it, at
\* least as new, says fast=false; the bare Composer id only if there is none.
LEMMA StandardPick ==
    ASSUME NEW listing \in Seq(Models)
    PROVE  /\ Silent(listing, PickComposer(listing, FALSE))
                => ~StandardListed(listing, PickComposer(listing, FALSE))
           /\ Silent(listing, PickGrok(listing, FALSE))
                => ~StandardListed(listing, PickGrok(listing, FALSE))
           /\ PickComposer(listing, FALSE) = Missing => ~StandardListed(listing, ComposerId)
  <1>1. ASSUME NEW s, NEW t \in Candidates(listing), NEW family,
               s \in TierCandidates(listing, family, FALSE), Silent(listing, s),
               t.variant > 0, VariantOf(listing, t).fast = "no",
               FamilyOf(listing, t) = FamilyOf(listing, s),
               ModelOf(listing, t).generation >= ModelOf(listing, s).generation,
               Before(t, s)
        PROVE  /\ t \in TierCandidates(listing, family, FALSE) \ {s}
               /\ ~Before(s, t)
               /\ ComposerRank(listing, t) >= ComposerRank(listing, s)
               /\ GrokRank(listing, t) >= GrokRank(listing, s)
    <2>1. s \in Candidates(listing) /\ FamilyOf(listing, s) = family /\ s # ComposerId
      BY <1>1, TierCandidate
    <2>2. t \in TierCandidates(listing, family, FALSE)
      BY <1>1, <2>1, StandardCandidate
    <2>3. VariantOf(listing, s) = Bare
      BY <1>1, <2>1 DEF Silent
    <2>9. \A c \in Candidates(listing) :
             /\ c.model \in Nat /\ c.variant \in Nat
             /\ ModelOf(listing, c) \in Models /\ VariantOf(listing, c) \in Variants
      BY CandidateParts
    <2>10. /\ \A m \in Models : m.generation \in 0..2
           /\ \A v \in Variants : v.effort \in 0..5
      BY DEF Models, Variants
    <2>11. VariantOf(listing, s).effort = 0
      BY <2>3 DEF Bare
    <2>4. /\ s.model \in Nat /\ s.variant \in Nat /\ t.model \in Nat /\ t.variant \in Nat
          /\ ModelOf(listing, s).generation \in 0..2 /\ VariantOf(listing, s).effort = 0
          /\ ModelOf(listing, t).generation \in 0..2 /\ VariantOf(listing, t).effort \in 0..5
      BY <2>1, <2>9, <2>10, <2>11
    <2>5. s # t
      BY <1>1, <2>3 DEF Bare
    <2>6. ~Before(s, t)
      BY <1>1, <2>4 DEF Before
    <2>7. ComposerRank(listing, t) >= ComposerRank(listing, s)
      BY <1>1, <2>4 DEF ComposerRank, Points
    <2>8. GrokRank(listing, t) >= GrokRank(listing, s)
      <3> DEFINE m == ModelOf(listing, t).generation
                 n == ModelOf(listing, s).generation
                 e == IF VariantOf(listing, t).effort = 3 THEN 30
                      ELSE 5 * VariantOf(listing, t).effort
      <3>1. e \in 0..30
        <4>1. \A k \in 0..5 : (IF k = 3 THEN 30 ELSE 5 * k) \in 0..30
          OBVIOUS
        <4> QED BY <2>4, <4>1
      <3>2. GrokRank(listing, s) = 10 + 5 * n
        BY <2>4 DEF GrokRank
      <3>3. GrokRank(listing, t) = 10 + 5 * m + e
        BY DEF GrokRank
      <3>4. m \in 0..2 /\ n \in 0..2 /\ m >= n
        BY <1>1, <2>4
      <3> HIDE DEF e, m, n
      <3>5. 10 + 5 * m + e >= 10 + 5 * n
        BY <3>1, <3>4
      <3> QED BY <3>2, <3>3, <3>5
    <2> QED BY <2>2, <2>5, <2>6, <2>7, <2>8
  <1>2. \A s \in Candidates(listing) :
           ComposerRank(listing, s) \in Int /\ GrokRank(listing, s) \in Int
    <2> SUFFICES ASSUME NEW s \in Candidates(listing)
                 PROVE  ComposerRank(listing, s) \in Int /\ GrokRank(listing, s) \in Int
      OBVIOUS
    <2>1. ModelOf(listing, s).generation \in 0..2 /\ VariantOf(listing, s).effort \in 0..5
      BY CandidateParts DEF Models, Variants
    <2> QED BY <2>1 DEF ComposerRank, GrokRank, Points
  <1>3. ASSUME NEW s, s # ComposerId, StandardListed(listing, s)
        PROVE  \E t \in Candidates(listing) :
                  /\ t.variant > 0 /\ VariantOf(listing, t).fast = "no"
                  /\ FamilyOf(listing, t) = FamilyOf(listing, s)
                  /\ ModelOf(listing, t).name # "max"
                  /\ ModelOf(listing, t).generation >= ModelOf(listing, s).generation
                  /\ Before(t, s)
    BY <1>3 DEF StandardListed
  <1>4. ~Silent(listing, Missing)
    BY DEF Silent, Missing, ComposerId, Listed, At
  <1>5. ASSUME Silent(listing, PickComposer(listing, FALSE)),
               StandardListed(listing, PickComposer(listing, FALSE))
        PROVE  FALSE
    <2> DEFINE s == PickComposer(listing, FALSE)
               C == TierCandidates(listing, "composer", FALSE)
    <2>1. /\ s \in C
          /\ \A t \in C \ {s} : \/ ComposerRank(listing, t) < ComposerRank(listing, s)
                                \/ Before(s, t)
      BY <1>4, <1>5, TierPresets
    <2> HIDE DEF s
    <2>2. s \in Candidates(listing) /\ s # ComposerId
      BY <2>1, TierCandidate
    <2>3. Silent(listing, s) /\ StandardListed(listing, s)
      BY <1>5 DEF s
    <2>4. PICK t \in Candidates(listing) :
             /\ t.variant > 0 /\ VariantOf(listing, t).fast = "no"
             /\ FamilyOf(listing, t) = FamilyOf(listing, s)
             /\ ModelOf(listing, t).generation >= ModelOf(listing, s).generation
             /\ Before(t, s)
      BY <1>3, <2>2, <2>3
    <2>5. t \in C \ {s} /\ ~Before(s, t)
          /\ ComposerRank(listing, t) >= ComposerRank(listing, s)
      BY <1>1, <2>1, <2>3, <2>4
    <2>6. ComposerRank(listing, t) \in Int /\ ComposerRank(listing, s) \in Int
      BY <1>2, <2>2
    <2>7. ComposerRank(listing, t) < ComposerRank(listing, s)
      BY <2>1, <2>5
    <2> QED BY <2>5, <2>6, <2>7
  <1>6. ASSUME Silent(listing, PickGrok(listing, FALSE)),
               StandardListed(listing, PickGrok(listing, FALSE))
        PROVE  FALSE
    <2> DEFINE s == PickGrok(listing, FALSE)
               G == GrokCandidates(listing, FALSE)
    <2>1. /\ s \in G
          /\ \A t \in G \ {s} : \/ GrokRank(listing, t) < GrokRank(listing, s)
                                \/ Before(s, t)
      BY <1>4, <1>6, TierPresets
    <2> HIDE DEF s
    <2>2. /\ s \in TierCandidates(listing, "grok", FALSE)
          /\ s \in Candidates(listing) /\ s # ComposerId
      BY <2>1, TierCandidate DEF GrokCandidates
    <2>3. Silent(listing, s) /\ StandardListed(listing, s)
      BY <1>6 DEF s
    <2>4. PICK t \in Candidates(listing) :
             /\ t.variant > 0 /\ VariantOf(listing, t).fast = "no"
             /\ FamilyOf(listing, t) = FamilyOf(listing, s)
             /\ ModelOf(listing, t).name # "max"
             /\ ModelOf(listing, t).generation >= ModelOf(listing, s).generation
             /\ Before(t, s)
      BY <1>3, <2>2, <2>3
    <2>5. t \in TierCandidates(listing, "grok", FALSE) \ {s} /\ ~Before(s, t)
          /\ GrokRank(listing, t) >= GrokRank(listing, s)
      BY <1>1, <2>2, <2>3, <2>4
    <2>6. t \in G \ {s}
      BY <2>4, <2>5 DEF GrokCandidates
    <2>7. GrokRank(listing, t) \in Int /\ GrokRank(listing, s) \in Int
      BY <1>2, <2>2
    <2>8. GrokRank(listing, t) < GrokRank(listing, s)
      BY <2>1, <2>5, <2>6
    <2> QED BY <2>5, <2>7, <2>8
  <1>7. ASSUME PickComposer(listing, FALSE) = Missing, StandardListed(listing, ComposerId)
        PROVE  FALSE
    <2>1. PICK t \in Candidates(listing) :
             /\ t.variant > 0 /\ VariantOf(listing, t).fast = "no"
             /\ FamilyOf(listing, t) = FamilyOf(listing, ComposerId)
      BY <1>7 DEF StandardListed
    <2>2. FamilyOf(listing, t) = "composer"
      BY <2>1 DEF FamilyOf
    <2>3. t \in TierCandidates(listing, "composer", FALSE)
      BY <2>1, <2>2, StandardCandidate
    <2>4. Missing \notin TierCandidates(listing, "composer", FALSE)
      BY TierCandidate
    <2> QED BY <1>7, <2>3, <2>4, TierPresets
  <1> QED BY <1>5, <1>6, <1>7

-----------------------------------------------------------------------------
(***************************************************************************)
(* Lemmas about routing                                                    *)
(***************************************************************************)

\* An alias is flagged as premium only if it is the name of that family.
LEMMA AliasFlag ==
    ASSUME NEW ref, NEW caps, NEW tier
    PROVE  /\ Alias(ref, caps, tier).used \in {"none", "grok", "fable", "opus"}
           /\ Alias(ref, caps, tier).used \in PremiumFamilies
                => Alias(ref, caps, tier).used = ref
  <1> USE DEF Alias, Resolved, PremiumFamilies
  <1>1. CASE ref \in {"composer-standard", "composer-fast"}
    BY <1>1
  <1>2. CASE ref \in {"grok-standard", "grok-fast"}
    BY <1>2
  <1>3. CASE ref \in {"fable", "opus"}
    BY <1>3
  <1>4. CASE ref \notin {"composer-standard", "composer-fast", "grok-standard",
                         "grok-fast", "fable", "opus"}
    BY <1>4
  <1> QED BY <1>1, <1>2, <1>3, <1>4

LEMMA LegacyFlag ==
    ASSUME NEW score, NEW caps, NEW default, NEW fableOn
    PROVE  LET d == LegacyRoute(score, caps, default, fableOn)
           IN d.used \in {"none", "grok", "fable"} /\ (d.used = "fable" => fableOn)
  BY DEF LegacyRoute, Resolved

\* A premium decision is that of a rule whose family is on, or that of a fallback
\* reference.
LEMMA ConfiguredFlag ==
    ASSUME NEW score, NEW c, NEW caps, NEW default, NEW opusOn, NEW fableOn, NEW d,
           d = ConfiguredRoute(score, c, caps, default, opusOn, fableOn)
    PROVE  /\ d.used \in {"none", "grok", "fable", "opus"}
           /\ d.used \in PremiumFamilies =>
                 \/ d.used = "opus" /\ opusOn
                 \/ d.used = "fable" /\ fableOn
                 \/ d.used \in {c.fallback.model, c.fallback.missing, default}
  <1> DEFINE Ref(r) == Alias(r, caps, c.grokTier)
             matching == {i \in DOMAIN c.rules : Matches(c.rules[i], score)}
             rule == c.rules[CHOOSE i \in matching : \A j \in matching : i <= j]
             fallback == Ref(FirstRef(c.fallback.model, default))
             missing == Ref(FirstRef(c.fallback.missing,
                                     FirstRef(c.fallback.model, default)))
             substitute == IF caps.grok # Missing THEN Resolved(caps.grok, "grok")
                           ELSE fallback
             Flagged(s) == /\ s.used \in {"none", "grok", "fable", "opus"}
                           /\ s.used \in PremiumFamilies =>
                                s.used \in {c.fallback.model, c.fallback.missing, default}
  <1>1. Flagged(fallback) /\ Flagged(missing)
    BY AliasFlag DEF FirstRef
  <1>2. Flagged(substitute)
    BY <1>1 DEF Resolved, PremiumFamilies
  <1>3. Ref(rule.model).used \in {"none", "grok", "fable", "opus"}
        /\ (Ref(rule.model).used \in PremiumFamilies => Ref(rule.model).used = rule.model)
    BY AliasFlag
  <1>4. \/ d = missing \/ d = fallback \/ d = substitute
        \/ d = Ref(rule.model) /\ ~Gated(rule.model, opusOn, fableOn)
    BY DEF ConfiguredRoute
  <1> HIDE DEF missing, fallback, substitute, rule, Ref
  <1>5. CASE d = Ref(rule.model) /\ ~Gated(rule.model, opusOn, fableOn)
    BY <1>3, <1>5 DEF Gated, PremiumFamilies
  <1> QED BY <1>1, <1>2, <1>4, <1>5

LEMMA RouteFlag ==
    ASSUME NEW score, NEW c, NEW caps, NEW default, NEW on
    PROVE  LET d == Route(score, c, caps, default, on)
           IN /\ d.used \in {"none", "grok", "fable", "opus"}
              /\ d.used \in PremiumFamilies =>
                    \/ d.used = "opus" /\ c.opusOn /\ on
                    \/ d.used = "fable" /\ c.fableOn /\ on
                    \/ d.used \in {c.fallback.model, c.fallback.missing, default}
  <1>1. CASE c.rules = <<>>
    BY <1>1, LegacyFlag DEF Route, PremiumFamilies
  <1>2. CASE c.rules # <<>>
    BY <1>2, ConfiguredFlag DEF Route
  <1> QED BY <1>1, <1>2

\* A preset is of its family, and the one of a tier may be fast only if that is the
\* fast tier or if that is unavoidable; unless the tier is an id.
LEMMA PresetsTell ==
    ASSUME NEW listing \in Seq(Models), NEW ids, NEW composerTier, NEW grokTier,
           NEW spelled, NEW caps,
           caps = Capabilities(listing, ids, composerTier, grokTier),
           composerTier \in {"standard", "fast"} \/ Spelled(ids, composerTier) \in spelled,
           grokTier \in {"standard", "fast"} \/ Spelled(ids, grokTier) \in spelled
    PROVE  /\ Tells(listing, caps.composer, "composer", composerTier = "fast", spelled)
           /\ Tells(listing, caps.composerStandard, "composer", FALSE, spelled)
           /\ Tells(listing, caps.composerFast, "composer", TRUE, spelled)
           /\ Tells(listing, caps.grok, "grok", grokTier = "fast", spelled)
           /\ Tells(listing, caps.grokStandard, "grok", FALSE, spelled)
           /\ Tells(listing, caps.grokFast, "grok", TRUE, spelled)
           /\ caps.fable = Missing \/ FamilyOf(listing, caps.fable) = "fable"
           /\ caps.opus = Missing \/ FamilyOf(listing, caps.opus) = "opus"
           /\ ~MayBeFast(listing, caps.fable) /\ ~MayBeFast(listing, caps.opus)
  <1> DEFINE Pick(fast) == PickComposer(listing, fast)
             Grk(fast) == PickGrok(listing, fast)
  <1>1. ASSUME NEW family, NEW fast PROVE Tells(listing, Missing, family, fast, spelled)
    BY Unlisted DEF Tells
  <1>2. /\ Tells(listing, Pick(TRUE), "composer", TRUE, spelled)
        /\ Tells(listing, Grk(TRUE), "grok", TRUE, spelled)
    <2>1. Pick(TRUE) \in TierCandidates(listing, "composer", TRUE) \cup {Missing}
      BY TierPresets
    <2>2. Grk(TRUE) \in TierCandidates(listing, "grok", TRUE) \cup {Missing}
      BY TierPresets DEF GrokCandidates
    <2>3. ASSUME NEW family, NEW s \in TierCandidates(listing, family, TRUE)
          PROVE  Tells(listing, s, family, TRUE, spelled)
      BY TierCandidate DEF Tells
    <2> HIDE DEF Pick, Grk
    <2> QED BY <1>1, <2>1, <2>2, <2>3
  <1>3. /\ Tells(listing, Pick(FALSE), "composer", FALSE, spelled)
        /\ Tells(listing, Grk(FALSE), "grok", FALSE, spelled)
    BY <1>1, TierPresets, TierCandidate, StandardPick
       DEF Tells, GrokCandidates, Unavoidable
  <1>4. ASSUME NEW s, NEW family, Tells(listing, s, family, FALSE, spelled)
        PROVE  Tells(listing, s, family, TRUE, spelled)
    BY <1>4 DEF Tells
  <1>5. ASSUME Pick(FALSE) = Missing
        PROVE  Tells(listing, ComposerId, "composer", FALSE, spelled)
    BY <1>5, StandardPick DEF Tells, Unavoidable, Silent, FamilyOf
  <1> HIDE DEF Pick, Grk
  <1>6. Tells(listing, ComposerStandard(listing), "composer", FALSE, spelled)
    BY <1>3, <1>5 DEF ComposerStandard, OrElse, Pick
  <1>7. Tells(listing, Composer(listing, ids, composerTier), "composer",
              composerTier = "fast", spelled)
    <2>1. CASE composerTier = "standard"
      BY <1>6, <2>1 DEF Composer
    <2>2. CASE composerTier = "fast"
      <3>1. Composer(listing, ids, composerTier)
              \in {PickComposer(listing, TRUE), ComposerStandard(listing)}
        BY <2>2 DEF Composer, OrElse
      <3>2. Tells(listing, PickComposer(listing, TRUE), "composer", TRUE, spelled)
        BY <1>2 DEF Pick
      <3>3. Tells(listing, Composer(listing, ids, composerTier), "composer", TRUE, spelled)
        BY <1>4, <1>6, <3>1, <3>2
      <3>4. (composerTier = "fast") = TRUE
        BY <2>2
      <3> QED BY ONLY <3>3, <3>4
    <2>3. CASE composerTier \notin {"standard", "fast"}
      <3>1. Composer(listing, ids, composerTier) = Spelled(ids, composerTier)
        BY <2>3 DEF Composer
      <3> QED BY <2>3, <3>1 DEF Tells
    <2> QED BY <2>1, <2>2, <2>3
  <1>8. Tells(listing, Grok(listing, ids, grokTier), "grok", grokTier = "fast", spelled)
    <2>1. CASE grokTier = "standard"
      BY <1>3, <2>1 DEF Grok, Grk
    <2>2. CASE grokTier = "fast"
      <3>1. Grok(listing, ids, grokTier)
              \in {PickGrok(listing, TRUE), PickGrok(listing, FALSE)}
        BY <2>2 DEF Grok, OrElse
      <3>2. /\ Tells(listing, PickGrok(listing, TRUE), "grok", TRUE, spelled)
            /\ Tells(listing, PickGrok(listing, FALSE), "grok", TRUE, spelled)
        BY <1>2, <1>3, <1>4 DEF Grk
      <3>3. Tells(listing, Grok(listing, ids, grokTier), "grok", TRUE, spelled)
        BY <3>1, <3>2
      <3>4. (grokTier = "fast") = TRUE
        BY <2>2
      <3> QED BY ONLY <3>3, <3>4
    <2>3. CASE grokTier \notin {"standard", "fast"}
      <3>1. Grok(listing, ids, grokTier) = Spelled(ids, grokTier)
        BY <2>3 DEF Grok
      <3> QED BY <2>3, <3>1 DEF Tells
    <2> QED BY <2>1, <2>2, <2>3
  <1>9. /\ Fable(listing) = Missing \/ FamilyOf(listing, Fable(listing)) = "fable"
        /\ Opus(listing) = Missing \/ FamilyOf(listing, Opus(listing)) = "opus"
        /\ ~MayBeFast(listing, Fable(listing)) /\ ~MayBeFast(listing, Opus(listing))
    BY PremiumPresets, PremiumCandidate, Unlisted DEF PremiumFamilies
  <1> QED BY <1>2, <1>3, <1>6, <1>7, <1>8, <1>9 DEF Capabilities, Pick, Grk

\* What a reference stands for: its flag tells the family, and fast mode was asked
\* for by a tier or by the reference, or is unavoidable; unless it is an id.
LEMMA AliasTells ==
    ASSUME NEW listing \in Seq(Models), NEW ids, NEW composerTier, NEW grokTier,
           NEW spelled, NEW ref,
           composerTier \in {"standard", "fast"} \/ Spelled(ids, composerTier) \in spelled,
           grokTier \in {"standard", "fast"} \/ Spelled(ids, grokTier) \in spelled,
           ref \in Aliases \/ Spelled(ids, ref) \in spelled
    PROVE  LET caps == Capabilities(listing, ids, composerTier, grokTier)
           IN DecisionTells(listing, Alias(ref, caps, grokTier), composerTier, grokTier,
                            {ref}, spelled)
  <1> DEFINE caps == Capabilities(listing, ids, composerTier, grokTier)
             d == Alias(ref, caps, grokTier)
             Told(s, used) == DecisionTells(listing, Resolved(s, used), composerTier,
                                            grokTier, {ref}, spelled)
  <1>1. /\ Tells(listing, caps.composer, "composer", composerTier = "fast", spelled)
        /\ Tells(listing, caps.composerStandard, "composer", FALSE, spelled)
        /\ Tells(listing, caps.composerFast, "composer", TRUE, spelled)
        /\ Tells(listing, caps.grok, "grok", grokTier = "fast", spelled)
        /\ Tells(listing, caps.grokStandard, "grok", FALSE, spelled)
        /\ Tells(listing, caps.grokFast, "grok", TRUE, spelled)
        /\ caps.fable = Missing \/ FamilyOf(listing, caps.fable) = "fable"
        /\ caps.opus = Missing \/ FamilyOf(listing, caps.opus) = "opus"
        /\ ~MayBeFast(listing, caps.fable) /\ ~MayBeFast(listing, caps.opus)
    BY PresetsTell
  <1>0. caps.ids = ids
    BY DEF Capabilities
  <1> HIDE DEF caps
  <1>2. Told(caps.composer, "none") /\ Told(caps.composerStandard, "none")
    BY <1>1 DEF Tells, DecisionTells, Resolved, PremiumFamilies
  <1>3. ref = "composer-fast" => Told(caps.composerFast, "none")
    BY <1>1 DEF Tells, DecisionTells, Resolved, PremiumFamilies
  <1>4. Told(caps.grok, "grok") /\ Told(caps.grokStandard, "grok")
    BY <1>1 DEF Tells, DecisionTells, Resolved, PremiumFamilies
  <1>5. ref = "grok-fast" \/ grokTier = "fast" => Told(caps.grokFast, "grok")
    BY <1>1 DEF Tells, DecisionTells, Resolved, PremiumFamilies
  <1>6. /\ caps.fable # Missing => Told(caps.fable, "fable")
        /\ caps.opus # Missing => Told(caps.opus, "opus")
    BY <1>1 DEF DecisionTells, Resolved, PremiumFamilies
  <1>7. ref \notin Aliases => Told(Spelled(ids, ref), "none")
    BY DEF DecisionTells, Resolved, PremiumFamilies
  <1> HIDE DEF Told
  <1>8. \E s, used : d = Resolved(s, used) /\ Told(s, used)
    <2>1. CASE ref = "composer-standard"
      BY <1>2, <2>1 DEF Alias
    <2>2. CASE ref = "composer-fast"
      BY <1>2, <1>3, <2>2 DEF Alias, OrElse
    <2>3. CASE ref = "grok-standard"
      <3>1. \/ d = Resolved(caps.composer, "none") \/ d = Resolved(caps.grok, "grok")
            \/ d = Resolved(caps.grokStandard, "grok")
            \/ grokTier = "fast" /\ d = Resolved(caps.grokFast, "grok")
        <4> DEFINE s == OrElse(IF grokTier = "fast" THEN caps.grokFast ELSE Missing,
                               OrElse(caps.grokStandard, caps.grok))
        <4>1. d = IF s # Missing THEN Resolved(s, "grok") ELSE Resolved(caps.composer, "none")
          BY <2>3 DEF Alias
        <4>2. s \in {caps.grokStandard, caps.grok} \/ (grokTier = "fast" /\ s = caps.grokFast)
          BY DEF OrElse
        <4> HIDE DEF s, d
        <4> QED BY <4>1, <4>2
      <3> QED BY <1>2, <1>4, <1>5, <3>1
    <2>4. CASE ref = "grok-fast"
      <3>1. d \in {Resolved(caps.composer, "none"), Resolved(caps.grok, "grok"),
                   Resolved(caps.grokStandard, "grok"), Resolved(caps.grokFast, "grok")}
        BY <2>4 DEF Alias, OrElse
      <3> QED BY <1>2, <1>4, <1>5, <2>4, <3>1
    <2>5. CASE ref = "fable"
      <3>1. \/ d = Resolved(caps.composer, "none")
            \/ caps.fable # Missing /\ d = Resolved(caps.fable, "fable")
        BY <2>5 DEF Alias
      <3> QED BY <1>2, <1>6, <3>1
    <2>6. CASE ref = "opus"
      <3>1. \/ d = Resolved(caps.composer, "none")
            \/ caps.opus # Missing /\ d = Resolved(caps.opus, "opus")
        BY <2>6 DEF Alias
      <3> QED BY <1>2, <1>6, <3>1
    <2>7. CASE ref \notin Aliases
      <3>1. d = Resolved(Spelled(ids, ref), "none")
        BY <1>0, <2>7 DEF Alias, Aliases
      <3> QED BY <1>7, <2>7, <3>1
    <2> QED BY <2>1, <2>2, <2>3, <2>4, <2>5, <2>6, <2>7 DEF Aliases
  <1> QED BY <1>8 DEF Told, caps

\* More references ask for no less.
LEMMA MoreReferences ==
    ASSUME NEW listing, NEW d, NEW composerTier, NEW grokTier, NEW refs, NEW more,
           NEW spelled,
           DecisionTells(listing, d, composerTier, grokTier, refs, spelled),
           refs \subseteq more
    PROVE  DecisionTells(listing, d, composerTier, grokTier, more, spelled)
  BY DEF DecisionTells

LEMMA LegacyTells ==
    ASSUME NEW listing \in Seq(Models), NEW ids, NEW composerTier, NEW grokTier,
           NEW score \in Int, NEW default, NEW fableOn, NEW refs, NEW spelled,
           composerTier \in {"standard", "fast"} \/ Spelled(ids, composerTier) \in spelled,
           grokTier \in {"standard", "fast"} \/ Spelled(ids, grokTier) \in spelled,
           score > GrokMax => RawDefault(default, ids) \in spelled
    PROVE  LET caps == Capabilities(listing, ids, composerTier, grokTier)
           IN DecisionTells(listing, LegacyRoute(score, caps, default, fableOn),
                            composerTier, grokTier, refs, spelled)
  <1> DEFINE caps == Capabilities(listing, ids, composerTier, grokTier)
             d == LegacyRoute(score, caps, default, fableOn)
             Told(s, used) == DecisionTells(listing, Resolved(s, used), composerTier,
                                            grokTier, refs, spelled)
  <1>1. /\ Tells(listing, caps.composer, "composer", composerTier = "fast", spelled)
        /\ Tells(listing, caps.composerStandard, "composer", FALSE, spelled)
        /\ Tells(listing, caps.composerFast, "composer", TRUE, spelled)
        /\ Tells(listing, caps.grok, "grok", grokTier = "fast", spelled)
        /\ Tells(listing, caps.grokStandard, "grok", FALSE, spelled)
        /\ Tells(listing, caps.grokFast, "grok", TRUE, spelled)
        /\ caps.fable = Missing \/ FamilyOf(listing, caps.fable) = "fable"
        /\ caps.opus = Missing \/ FamilyOf(listing, caps.opus) = "opus"
        /\ ~MayBeFast(listing, caps.fable) /\ ~MayBeFast(listing, caps.opus)
    BY PresetsTell
  <1>0. caps.ids = ids
    BY DEF Capabilities
  <1> HIDE DEF caps
  <1>2. /\ Told(caps.composer, "none") /\ Told(caps.grok, "grok")
        /\ caps.fable # Missing => Told(caps.fable, "fable")
    BY <1>1 DEF Tells, DecisionTells, Resolved, PremiumFamilies
  <1>3. score > GrokMax => Told(RawDefault(default, ids), "none")
    BY DEF DecisionTells, Resolved, PremiumFamilies
  <1> HIDE DEF Told
  <1>4. \/ d = Resolved(caps.composer, "none") \/ d = Resolved(caps.grok, "grok")
        \/ score > GrokMax /\ d = Resolved(RawDefault(default, ids), "none")
        \/ caps.fable # Missing /\ d = Resolved(caps.fable, "fable")
    <2>1. score <= GrokMax \/ score > GrokMax
      BY DEF GrokMax
    <2> QED BY <1>0, <2>1 DEF LegacyRoute
  <1> HIDE DEF d
  <1>5. \E s, used : d = Resolved(s, used) /\ Told(s, used)
    BY <1>2, <1>3, <1>4
  <1> QED BY <1>5 DEF Told, d, caps

\* The rule that counts is the first that matches.
LEMMA FirstMatching ==
    ASSUME NEW matching \in SUBSET Nat, matching # {},
           NEW first, first = CHOOSE i \in matching : \A j \in matching : i <= j
    PROVE  first \in matching /\ \A j \in matching : first <= j
  <1>1. \E i \in matching : \A j \in matching : i <= j
    BY LeastNumber
  <1> QED BY <1>1

LEMMA ConfiguredTells ==
    ASSUME NEW listing \in Seq(Models), NEW ids, NEW c, ValidConfiguration(c),
           NEW score, NEW default \in Refs, NEW opusOn, NEW fableOn, NEW spelled,
           \A ref \in References(c, default) \cup {c.composerTier, c.grokTier} :
              ref \in Ids => Spelled(ids, ref) \in spelled
    PROVE  LET caps == Capabilities(listing, ids, c.composerTier, c.grokTier)
           IN DecisionTells(listing,
                            ConfiguredRoute(score, c, caps, default, opusOn, fableOn),
                            c.composerTier, c.grokTier, References(c, default), spelled)
  <1> DEFINE caps == Capabilities(listing, ids, c.composerTier, c.grokTier)
             d == ConfiguredRoute(score, c, caps, default, opusOn, fableOn)
             Told(e) == DecisionTells(listing, e, c.composerTier, c.grokTier,
                                      References(c, default), spelled)
             Ref(r) == Alias(r, caps, c.grokTier)
             matching == {i \in DOMAIN c.rules : Matches(c.rules[i], score)}
             first == CHOOSE i \in matching : \A j \in matching : i <= j
             fallback == Ref(FirstRef(c.fallback.model, default))
             missing == Ref(FirstRef(c.fallback.missing,
                                     FirstRef(c.fallback.model, default)))
  <1>7. /\ c.composerTier \in {"standard", "fast"} \/ Spelled(ids, c.composerTier) \in spelled
        /\ c.grokTier \in {"standard", "fast"} \/ Spelled(ids, c.grokTier) \in spelled
    BY DEF ValidConfiguration, Tiers
  <1>1. ASSUME NEW r \in References(c, default), r \in Refs PROVE Told(Ref(r))
    <2>1. r \in Aliases \/ Spelled(ids, r) \in spelled
      BY <1>1 DEF Refs
    <2>2. DecisionTells(listing, Ref(r), c.composerTier, c.grokTier, {r}, spelled)
      BY <1>7, <2>1, AliasTells
    <2> QED BY <2>2, MoreReferences
  <1>2. Told(fallback) /\ Told(missing)
    <2>1. /\ FirstRef(c.fallback.model, default) \in References(c, default) \cap Refs
          /\ FirstRef(c.fallback.missing, FirstRef(c.fallback.model, default))
                \in References(c, default) \cap Refs
      BY DEF FirstRef, References, ValidConfiguration, Fallbacks
    <2> HIDE DEF Ref, Told
    <2> QED BY <1>1, <2>1
  <1>3. Told(Resolved(caps.grok, "grok"))
    <2>1. Tells(listing, caps.grok, "grok", c.grokTier = "fast", spelled)
      <3>1. caps = Capabilities(listing, ids, c.composerTier, c.grokTier)
        OBVIOUS
      <3> HIDE DEF caps
      <3> QED BY ONLY <1>7, <3>1, PresetsTell, listing \in Seq(Models)
    <2> HIDE DEF caps
    <2> QED BY <2>1 DEF Tells, DecisionTells, Resolved, PremiumFamilies
  <1>4. matching # {} => Told(Ref(c.rules[first].model))
    <2>1. ASSUME matching # {} PROVE first \in DOMAIN c.rules
      <3>1. matching \in SUBSET Nat /\ matching \subseteq DOMAIN c.rules
        BY DEF ValidConfiguration
      <3>2. first = CHOOSE i \in matching : \A j \in matching : i <= j
        OBVIOUS
      <3> HIDE DEF matching, first
      <3>3. first \in matching
        BY <2>1, <3>1, <3>2, FirstMatching
      <3> QED BY <3>1, <3>3
    <2>2. matching # {} => c.rules[first].model \in References(c, default) \cap Refs
      BY <2>1 DEF References, ValidConfiguration
    <2> HIDE DEF Ref, Told, first, matching
    <2> QED BY <1>1, <2>2
  <1>5. \/ d = missing \/ d = fallback \/ d = Resolved(caps.grok, "grok")
        \/ matching # {} /\ d = Ref(c.rules[first].model)
    BY DEF ConfiguredRoute
  <1> HIDE DEF missing, fallback, Ref, Told, d, first, matching, caps
  <1>6. Told(d)
    BY <1>2, <1>3, <1>4, <1>5
  <1> QED BY <1>6 DEF Told, d, caps

\* Whatever the score, the rules, the switches and the listing, bare ids and
\* parameterless variants included: the flag of a decision, on which the billing
\* retry and the report of a cycle depend, tells the premium family of its model,
\* and fast mode is used only if asked for or if nothing better is listed.  What it
\* cannot tell is named: the ids the configuration spells out.
THEOREM RouteTells ==
    ASSUME NEW listing \in Seq(Models), NEW ids, NEW c, ValidConfiguration(c),
           NEW score \in Int, NEW default \in Refs, NEW on
    PROVE  LET caps == Capabilities(listing, ids, c.composerTier, c.grokTier)
           IN DecisionTells(listing, Route(score, c, caps, default, on),
                            c.composerTier, c.grokTier, References(c, default),
                            Spellings(ids, c, score, default))
  <1> DEFINE spelled == Spellings(ids, c, score, default)
  <1>1. \A ref \in References(c, default) \cup {c.composerTier, c.grokTier} :
           ref \in Ids => Spelled(ids, ref) \in spelled
    BY DEF Spellings
  <1>2. c.rules = <<>> /\ score > GrokMax => RawDefault(default, ids) \in spelled
    BY DEF Spellings
  <1> HIDE DEF spelled
  <1>3. CASE c.rules = <<>>
    <2>1. /\ c.composerTier \in {"standard", "fast"} \/ Spelled(ids, c.composerTier) \in spelled
          /\ c.grokTier \in {"standard", "fast"} \/ Spelled(ids, c.grokTier) \in spelled
      BY <1>1 DEF ValidConfiguration, Tiers
    <2> QED BY <1>2, <1>3, <2>1, LegacyTells DEF Route, spelled
  <1>4. CASE c.rules # <<>>
    BY <1>1, <1>4, ConfiguredTells DEF Route, spelled
  <1> QED BY <1>3, <1>4

-----------------------------------------------------------------------------
(***************************************************************************)
(* Types                                                                   *)
(***************************************************************************)
LEMMA RunInvInit == Init => RunInv
  <1> SUFFICES ASSUME Init PROVE RunInv
    OBVIOUS
  <1>1. BridgeTypeOK
    BY BridgeInvInit DEF Init, BridgeInv
  <1>2. Len(setting.scores) \in Nat /\ MaxAttempts \in Nat
    BY RuntimeAssumption DEF Init, Setting
  <1>3. /\ cycle \in 0..Len(setting.scores) /\ attempt \in 0..MaxAttempts /\ try \in 0..2
        /\ failedOn \in Int
    BY <1>2 DEF Init, NoBridge
  <1>4. premiumOn \in BOOLEAN /\ refused \in BOOLEAN /\ stopped \in BOOLEAN
    BY DEF Init
  <1>5. decision.used \in {"none", "grok", "fable", "opus"} /\ step = "list"
    BY DEF Init, NoDecision, Resolved
  <1> QED
    BY <1>1, <1>3, <1>4, <1>5 DEF Init, RunInv, TypeOK, Steps

LEMMA RunInvNext == RunInv /\ BridgeTypeOK' /\ [Next]_vars => RunInv'
  <1> SUFFICES ASSUME RunInv, BridgeTypeOK', [Next]_vars PROVE RunInv'
    OBVIOUS
  <1> USE DEF RunInv, TypeOK, Steps
  <1>1. Len(setting.scores) \in Nat /\ MaxAttempts \in Nat \ {0}
    BY RuntimeAssumption DEF Setting
  <1>2. CASE UNCHANGED runVars
    BY <1>2 DEF runVars
  <1>3. ASSUME NEW exception \in BOOLEAN, RunEnds(exception) PROVE RunInv'
    BY <1>3 DEF RunEnds
  <1>4. ASSUME NextCycle PROVE RunInv'
    <2>1. CASE cycle = Len(setting.scores) \/ stopped
      BY <1>3, <1>4, <2>1 DEF NextCycle
    <2>2. CASE ~(cycle = Len(setting.scores) \/ stopped)
      <3>4. /\ setting' = setting /\ cycle # Len(setting.scores)
            /\ cycle' = cycle + 1 /\ attempt' = 1 /\ try' = 1 /\ failedOn' = 0
        BY ONLY <1>4, <2>2 DEF NextCycle, NoBridge
      <3>5. cycle \in 0..Len(setting.scores)
        OBVIOUS
      <3>1. cycle' \in 0..Len(setting'.scores) /\ failedOn' \in Int
        BY ONLY <1>1, <3>4, <3>5
      <3>2. attempt' \in 0..MaxAttempts /\ try' \in 0..2
        BY ONLY <1>1, <3>4
      <3>3. refused' \in BOOLEAN
        BY <1>4, <2>2 DEF NextCycle
      <3> QED BY <1>4, <2>2, <3>1, <3>2, <3>3 DEF NextCycle
    <2> QED BY <2>1, <2>2
  <1>5. CASE ListModels \/ CycleDone
    BY <1>4, <1>5 DEF ListModels, CycleDone
  <1>6. CASE ListingFails \/ RaiseInterrupted \/ RunFails
    BY <1>3, <1>6 DEF ListingFails, RaiseInterrupted, RunFails
  <1>7. CASE RouteTask
    <2>1. decision'.used \in {"none", "grok", "fable", "opus"}
      BY <1>7, RouteFlag DEF RouteTask, RouteNow
    <2> QED BY <1>7, <2>1 DEF RouteTask
  <1>8. CASE BillingFails
    <2>1. premiumOn' \in BOOLEAN
      BY <1>8 DEF BillingFails
    <2>2. try' \in 0..2
      BY <1>8 DEF BillingFails
    <2> QED BY <1>8, <2>1, <2>2 DEF BillingFails
  <1>9. CASE AttemptFails
    BY <1>1, <1>9 DEF AttemptFails, Endpoint, NoBridge, BridgeTypeOK
  <1>10. CASE KeepBridge \/ ReplaceBridge
    BY <1>1, <1>10 DEF KeepBridge, ReplaceBridge, RetryNow, InRun
  <1>11. CASE Sigint
    BY <1>11 DEF Sigint
  <1> QED
    BY <1>2, <1>5, <1>6, <1>7, <1>8, <1>9, <1>10, <1>11
       DEF Next, Host, Helper, RunBody, Environment, Exited, vars

\* The variables of a run keep their types: in particular an attempt is never
\* counted beyond the configured maximum.
THEOREM TypeCorrect == Spec => []TypeOK
  <1>1. BridgeInv => BridgeTypeOK
    BY DEF BridgeInv
  <1>2. RunInv => TypeOK
    BY DEF RunInv
  <1> QED
    BY <1>1, <1>2, RunInvInit, RunInvNext, RunImplementsBridge, BridgeInvariant, PTL
       DEF Spec

-----------------------------------------------------------------------------
(***************************************************************************)
(* Premium models                                                          *)
(***************************************************************************)
LEMMA DecisionInvNext == DecisionInv /\ [Next]_vars => DecisionInv'
  <1> SUFFICES ASSUME DecisionInv, [Next]_vars PROVE DecisionInv'
    OBVIOUS
  <1> USE DEF DecisionInv, RouteNow, Configuration, Presets
  <1>1. CASE UNCHANGED runVars
    BY <1>1 DEF runVars
  <1>2. ASSUME NEW exception \in BOOLEAN, RunEnds(exception) PROVE DecisionInv'
    BY <1>2 DEF RunEnds
  <1>3. CASE ListModels \/ CycleDone
    BY <1>2, <1>3 DEF ListModels, CycleDone, NextCycle
  <1>4. CASE ListingFails \/ RaiseInterrupted \/ RunFails
    BY <1>2, <1>4 DEF ListingFails, RaiseInterrupted, RunFails
  <1>5. CASE RouteTask
    BY <1>5 DEF RouteTask
  <1>6. CASE BillingFails \/ AttemptFails
    BY <1>6 DEF BillingFails, AttemptFails
  <1>7. CASE KeepBridge \/ ReplaceBridge
    BY <1>7 DEF KeepBridge, ReplaceBridge, RetryNow
  <1>8. CASE Sigint
    BY <1>8 DEF Sigint
  <1> QED
    BY <1>1, <1>3, <1>4, <1>5, <1>6, <1>7, <1>8
       DEF Next, Host, Helper, RunBody, Environment, Exited, vars

LEMMA AcceptedInvNext == TypeOK /\ AcceptedInv /\ [Next]_vars => AcceptedInv'
  <1> SUFFICES ASSUME TypeOK, AcceptedInv, [Next]_vars PROVE AcceptedInv'
    OBVIOUS
  <1> USE DEF AcceptedInv
  <1>1. setting' = setting /\ (cmd' = cmd \/ Start)
    <2>1. setting' = setting
      <3>1. ASSUME NEW exception \in BOOLEAN, RunEnds(exception) PROVE setting' = setting
        BY <3>1 DEF RunEnds
      <3>2. CASE RunBody
        BY <3>1, <3>2
           DEF RunBody, ListModels, ListingFails, RouteTask, CycleDone, RaiseInterrupted,
               BillingFails, AttemptFails, RunFails, KeepBridge, ReplaceBridge, NextCycle,
               RetryNow
      <3> QED
        BY <3>2 DEF Next, Host, Helper, Sigint, Environment, Exited, vars, runVars
    <2>2. cmd' = cmd \/ Start
      <3>1. CASE StaysInBody \/ UNCHANGED vars
        BY <3>1 DEF StaysInBody, vars, hostVars, callVars
      <3>2. ASSUME NEW exception \in BOOLEAN, RunEnds(exception) PROVE cmd' = cmd
        BY <3>2 DEF RunEnds
      <3>3. CASE RunBody
        BY <3>1, <3>2, <3>3
           DEF RunBody, ListModels, ListingFails, RouteTask, CycleDone, RaiseInterrupted,
               BillingFails, AttemptFails, RunFails, KeepBridge, ReplaceBridge, NextCycle,
               Recover
      <3>4. CASE Host
        BY <3>4
           DEF Host, Probe, EnterConfigured, LeaveClosing, LeaveDone, ExitClosing, Exit,
               Spawn, SpawnFails, Install, InstallFails, DrainFails, Shutdown, Terminate,
               TerminateFails, CloseAborted, FinishOther, Finish
      <3>5. CASE Helper \/ Environment
        BY <3>5
           DEF Helper, Announce, DiscoveryFails, Environment, BridgeDies, callVars,
               Interrupt, InterruptBody, InterruptLaunch, InterruptInstalled,
               InterruptClose, CloseAborted
      <3>6. CASE Sigint
        BY <3>6 DEF Sigint, hostVars, callVars
      <3> QED
        BY <3>1, <3>3, <3>4, <3>5, <3>6 DEF Next, Exited
    <2> QED BY <2>1, <2>2
  <1>2. cmd' = "run" => ~SectionRefused(setting)
    BY <1>1 DEF Start
  <1>3. step' # "list" => cycle' >= 1
    <2>1. cycle \in Nat
      BY <1>1, RuntimeAssumption DEF TypeOK, Setting
    <2>2. ASSUME NEW exception \in BOOLEAN, RunEnds(exception)
          PROVE  UNCHANGED <<step, cycle>>
      BY <2>2 DEF RunEnds
    <2>5. ASSUME NextCycle PROVE step' # "list" => cycle' >= 1
      <3>1. CASE cycle' = cycle + 1
        BY <2>1, <3>1
      <3>2. CASE UNCHANGED <<step, cycle>>
        BY <3>2
      <3> QED BY <2>2, <2>5, <3>1, <3>2 DEF NextCycle
    <2>6. CASE ListModels \/ CycleDone
      BY <2>5, <2>6 DEF ListModels, CycleDone
    <2>7. CASE ListingFails \/ RaiseInterrupted \/ RunFails
      BY <2>2, <2>7 DEF ListingFails, RaiseInterrupted, RunFails
    <2>8. CASE RouteTask \/ BillingFails \/ AttemptFails \/ KeepBridge \/ ReplaceBridge
      BY <2>8
         DEF RouteTask, BillingFails, AttemptFails, KeepBridge, ReplaceBridge, RetryNow,
             InRun
    <2>3. CASE RunBody
      BY <2>3, <2>6, <2>7, <2>8 DEF RunBody
    <2>4. CASE ~RunBody
      <3>1. UNCHANGED <<step, cycle>>
        BY <2>4 DEF Next, Host, Helper, Sigint, Environment, Exited, vars, runVars
      <3> QED BY <3>1
    <2> QED BY <2>3, <2>4
  <1> QED BY <1>1, <1>2, <1>3

\* A configuration that was accepted is valid.
LEMMA AcceptedIsValid ==
    ASSUME setting \in Settings, ~SectionRefused(setting)
    PROVE  setting.listing \in Seq(Models) /\ ValidConfiguration(Configuration)
  <1>1. Setting(setting)
    BY RuntimeAssumption
  <1>2. {"rules", "fallback", "composerTier", "grokTier"} \subseteq Keys
        /\ "rules" \notin DOMAIN setting.flags /\ "fallback" \notin DOMAIN setting.flags
    BY <1>1 DEF Setting, Keys
  <1> DEFINE merged == Merged(setting)
             T == Parsed(setting.table)
             F == Parsed(setting.file)
  <1>3. ValidRouting(T) /\ ValidRouting(F)
    BY DEF SectionRefused
  <1>4. \A k \in Keys : merged[k] = T[k] \/ (k \notin DOMAIN setting.table /\ merged[k] = F[k])
    BY DEF Merged, Parsed
  <1>5. merged.rules = T.rules \/ merged.rules = <<>>
    <2>1. merged["rules"] = T["rules"]
          \/ ("rules" \notin DOMAIN setting.table /\ merged["rules"] = F["rules"])
      BY <1>2, <1>4
    <2> QED BY <2>1 DEF SectionRefused
  <1>6. /\ Configuration.rules = merged.rules /\ Configuration.fallback = merged.fallback
        /\ Configuration.composerTier
              \in {merged.composerTier} \cup Tiers
        /\ Configuration.grokTier \in {merged.grokTier} \cup Tiers
    BY <1>1, <1>2 DEF Configuration, Overridden, Setting
  <1>7. DOMAIN T.rules \subseteq Nat
    BY <1>1, <1>2 DEF Setting, Parsed, DefaultRouting
  <1>8. \A i \in DOMAIN T.rules : T.rules[i].model \in Refs
    BY <1>3 DEF ValidRouting, Rules
  <1>9. /\ merged.fallback \in {T.fallback, F.fallback}
        /\ merged.composerTier \in {T.composerTier, F.composerTier}
        /\ merged.grokTier \in {T.grokTier, F.grokTier}
    BY <1>2, <1>4
  <1> HIDE DEF merged, T, F
  <1>10. /\ merged.fallback \in Fallbacks
         /\ merged.composerTier \in Tiers /\ merged.grokTier \in Tiers
    BY <1>3, <1>9 DEF ValidRouting
  <1> QED BY <1>1, <1>5, <1>6, <1>7, <1>8, <1>10 DEF Setting, ValidConfiguration

LEMMA DecisionTellsNow ==
    ASSUME TypeOK, DecisionInv, AcceptedInv, InRun("work")
    PROVE  DecisionTells(setting.listing, decision, Configuration.composerTier,
                         Configuration.grokTier, Named, SpelledOut)
  <1>1. decision = Route(setting.scores[cycle], Configuration, Presets, setting.default,
                         premiumOn)
    BY DEF DecisionInv, InRun, RouteNow
  <1>2. setting.listing \in Seq(Models) /\ ValidConfiguration(Configuration)
    BY AcceptedIsValid DEF TypeOK, AcceptedInv, InRun
  <1>3. Named = References(Configuration, setting.default)
    BY DEF Named, References
  <1>4. SpelledOut = Spellings(setting.ids, Configuration, setting.scores[cycle],
                               setting.default)
    BY <1>3 DEF SpelledOut, Spellings
  <1>5. setting.default \in Refs /\ setting.scores[cycle] \in Int
    <2>1. /\ Setting(setting) /\ cycle \in 1..Len(setting.scores)
      BY RuntimeAssumption DEF TypeOK, AcceptedInv, InRun, Setting
    <2>2. setting.scores \in Seq(NoScore..MaxScore) /\ setting.default \in Refs
      BY <2>1 DEF Setting
    <2>3. \A S : setting.scores \in Seq(S) => setting.scores[cycle] \in S
      BY <2>1
    <2>4. setting.scores[cycle] \in NoScore..MaxScore
      BY <2>2, <2>3
    <2> QED BY <2>2, <2>4 DEF NoScore, MaxScore
  <1> QED BY <1>1, <1>2, <1>3, <1>4, <1>5, RouteTells DEF Presets

LEMMA DecisionIsGated == TypeOK /\ DecisionInv /\ AcceptedInv => PremiumGated
  <1> SUFFICES ASSUME TypeOK, DecisionInv, AcceptedInv, InRun("work"),
                      Family \in PremiumFamilies, ~FamilyOn(Family),
                      decision.model \notin SpelledOut
               PROVE  Family \in {Configuration.fallback.model,
                                  Configuration.fallback.missing, setting.default}
    BY DEF PremiumGated
  <1>1. decision = Route(setting.scores[cycle], Configuration, Presets, setting.default,
                         premiumOn)
    BY DEF DecisionInv, InRun, RouteNow
  <1>2. decision.used = Family
    BY DecisionTellsNow DEF DecisionTells, Family
  <1> QED
    BY <1>1, <1>2, RouteFlag DEF FamilyOn, PremiumFamilies

\* Once a family is off, by the configuration or since a billing failure, the run
\* works with a model of it only where the configuration names the family as the
\* fallback or spells out the model: for every listing, every table of rules and
\* any number of cycles and attempts.
THEOREM PremiumIsGated == Spec => []PremiumGated
  <1>1. Init => DecisionInv /\ AcceptedInv
    BY DEF Init, DecisionInv, BridgeInit, AcceptedInv
  <1> QED
    BY <1>1, DecisionInvNext, AcceptedInvNext, DecisionIsGated, TypeCorrect, PTL DEF Spec

\* A run never sets the premium flag, which the billing retry looks at, for another
\* model, and works with a premium model without it only if the configuration spells
\* out its id: for every account listing, every table of rules and any number of
\* cycles and attempts.
THEOREM PremiumIsFlagged == Spec => []PremiumRunsAreFlagged
  <1>1. Init => DecisionInv /\ AcceptedInv
    BY DEF Init, DecisionInv, BridgeInit, AcceptedInv
  <1>2. TypeOK /\ DecisionInv /\ AcceptedInv => PremiumRunsAreFlagged
    <2> SUFFICES ASSUME TypeOK, DecisionInv, AcceptedInv, InRun("work")
                 PROVE  /\ decision.used \in PremiumFamilies => Family = decision.used
                        /\ Family \in PremiumFamilies
                              => decision.used = Family \/ decision.model \in SpelledOut
      BY DEF PremiumRunsAreFlagged
    <2> QED BY DecisionTellsNow DEF DecisionTells, Family
  <1> QED
    BY <1>1, <1>2, DecisionInvNext, AcceptedInvNext, TypeCorrect, PTL DEF Spec

\* Fast mode, which costs more, is never used because a model or a variant says
\* nothing, unless nothing in the listing that comes first and is as new says
\* fast=false, or the configuration spells out the id: for every listing, whatever
\* defaults its models have.
THEOREM FastIsAsked == Spec => []FastOnlyIfAsked
  <1>1. Init => DecisionInv /\ AcceptedInv
    BY DEF Init, DecisionInv, BridgeInit, AcceptedInv
  <1>2. TypeOK /\ DecisionInv /\ AcceptedInv => FastOnlyIfAsked
    <2> SUFFICES ASSUME TypeOK, DecisionInv, AcceptedInv, InRun("work"),
                        MayBeFast(setting.listing, decision.model),
                        decision.model \notin SpelledOut,
                        ~Unavoidable(setting.listing, decision.model)
                 PROVE  FastAsked(Family)
      BY DEF FastOnlyIfAsked, Unavoidable
    <2> QED BY DecisionTellsNow DEF DecisionTells, FastAsked, FastRefs, Family
  <1> QED
    BY <1>1, <1>2, DecisionInvNext, AcceptedInvNext, TypeCorrect, PTL DEF Spec

-----------------------------------------------------------------------------
(***************************************************************************)
(* Retries                                                                 *)
(***************************************************************************)
LEMMA RetryInvInit == Init => RetryInv
  BY DEF Init, BridgeInit, RetryInv, RetryAvoidsDeadBridge, InRun, Closing, NoBridge

LEMMA RetryInvNext == BridgeInv /\ TypeOK /\ RetryInv /\ [Next]_vars => RetryInv'
  <1> SUFFICES ASSUME BridgeInv, TypeOK, RetryInv, [Next]_vars PROVE RetryInv'
    OBVIOUS
  <1> USE DEF BridgeInv, RetryInv, RetryAvoidsDeadBridge, InRun, Endpoint, Closing,
              Launching, NoBridge, External, NotOpen, bridgeVars
  <1>1. /\ launched \in Nat /\ env \in Int /\ client \in Int /\ failedOn \in Int
        /\ step \in {"list", "route", "work", "recover"}
    BY DEF TypeOK, BridgeTypeOK, Steps
  <1>2. /\ pc \in {"relaunch"} => why = "recover"
        /\ why = "recover" => cmd = "run"
        /\ pc = "enter" => why # "recover"
    BY DEF Nesting
  <1>3. ASSUME UNCHANGED runVars,
               Contexts \/ Launch \/ Close \/ Finish \/ BridgeDies \/ Interrupt
        PROVE  RetryInv'
    <2> USE <1>1, <1>2, <1>3 DEF runVars
    <2>1. CASE Begin
      BY <2>1 DEF Begin
    <2>2. CASE Dispatch
      BY <2>2 DEF Dispatch
    <2>3. CASE Probe
      BY <2>3 DEF Probe
    <2>4. CASE EnterConfigured
      BY <2>4 DEF EnterConfigured, OpenContext
    <2>5. CASE LeaveClosing
      BY <2>5 DEF LeaveClosing, BeginClose
    <2>6. CASE LeaveDone
      BY <2>6 DEF LeaveDone, DropContext
    <2>7. CASE ExitClosing
      BY <2>7 DEF ExitClosing, BeginClose
    <2>8. CASE Exit
      BY <2>8 DEF Exit
    <2>9. CASE Spawn
      BY <2>9 DEF Spawn, MayLaunch
    <2>10. CASE SpawnFails
      BY <2>10 DEF SpawnFails, MayLaunch, LaunchFails, AfterContext, Registry
    <2>11. CASE Announce
      BY <2>11 DEF Announce
    <2>12. CASE DiscoveryFails
      <3>1. CASE why = "recover"
        BY <2>12, <3>1 DEF DiscoveryFails, Terminated, Lose, LaunchFails, Registry
      <3>2. CASE why # "recover"
        BY <2>12, <3>2 DEF DiscoveryFails, Terminated, Lose, LaunchFails, AfterContext
      <3> QED BY <3>1, <3>2
    <2>13. CASE Install
      BY <2>13 DEF Install, Registered, OpenContext
    <2>14. CASE InstallFails
      <3>1. CASE why = "recover"
        BY <2>14, <3>1 DEF InstallFails, Terminated, Lose, LaunchFails, Registry
      <3>2. CASE why # "recover"
        BY <2>14, <3>2 DEF InstallFails, Terminated, Lose, LaunchFails, AfterContext
      <3> QED BY <3>1, <3>2
    <2>15. CASE DrainFails
      BY <2>15
         DEF DrainFails, Registered, Terminated, Lose, LaunchFails, AfterContext
    <2>16. CASE Shutdown
      BY <2>16 DEF Shutdown
    <2>17. CASE Terminate
      BY <2>17 DEF Terminate, Terminated, Lose, AfterClose
    <2>18. CASE TerminateFails
      BY <2>18 DEF TerminateFails, Lose, CloseAborted
    <2>19. CASE Finish
      BY <2>19 DEF Finish, EndBody
    <2>20. CASE BridgeDies
      BY <2>20 DEF BridgeDies, callVars
    <2>21. CASE InterruptBody
      BY <2>21 DEF InterruptBody, EndBody
    <2>22. CASE InterruptLaunch
      BY <2>22 DEF InterruptLaunch, AfterContext, Lose
    <2>23. CASE InterruptInstalled
      BY <2>23 DEF InterruptInstalled, AfterContext, Registered
    <2>24. CASE InterruptClose
      BY <2>24 DEF InterruptClose, Lose, CloseAborted
    <2> QED
      BY <1>3, <2>1, <2>2, <2>3, <2>4, <2>5, <2>6, <2>7, <2>8, <2>9, <2>10,
         <2>11, <2>12, <2>13, <2>14, <2>15, <2>16, <2>17, <2>18, <2>19, <2>20,
         <2>21, <2>22, <2>23, <2>24
         DEF Contexts, Launch, Close, Interrupt
  <1>4. CASE UNCHANGED vars
    BY <1>4 DEF vars, runVars, hostVars, callVars
  <1>5. ASSUME NEW exception \in BOOLEAN, pc = "body", RunEnds(exception) PROVE RetryInv'
    BY <1>1, <1>2, <1>5 DEF RunEnds, EndBody
  <1>6. CASE ListModels \/ CycleDone
    BY <1>1, <1>2, <1>5, <1>6
       DEF ListModels, CycleDone, NextCycle, StaysInBody, hostVars, callVars
  <1>7. CASE ListingFails \/ RaiseInterrupted \/ RunFails
    BY <1>5, <1>7 DEF ListingFails, RaiseInterrupted, RunFails
  <1>8. CASE RouteTask \/ BillingFails
    BY <1>1, <1>8 DEF RouteTask, BillingFails, StaysInBody, hostVars, callVars
  <1>9. CASE AttemptFails
    BY <1>1, <1>9
       DEF AttemptFails, StaysInBody, hostVars, callVars, Registry, BridgeTypeOK, Attached
  <1>10. CASE KeepBridge
    BY <1>1, <1>10 DEF KeepBridge, NeedsBridge, RetryNow, StaysInBody, hostVars, callVars
  <1>11. CASE ReplaceBridge
    BY <1>1, <1>11 DEF ReplaceBridge, RetryNow, Recover, BeginClose
  <1>12. CASE Sigint
    BY <1>12 DEF Sigint, hostVars, callVars
  <1>13. CASE Host \/ Helper \/ Environment
    BY <1>3, <1>13
       DEF Host, Helper, Environment, Start, FinishOther, Contexts, Launch, Close
  <1> QED
    BY <1>4, <1>6, <1>7, <1>8, <1>9, <1>10, <1>11, <1>12, <1>13
       DEF Next, RunBody, Exited

\* A retry does not talk to the managed bridge that refused the last attempt, unless
\* that bridge was given up on in a close or a relaunch that failed half-way.
THEOREM RetriesAvoidDeadBridge == Spec => []RetryAvoidsDeadBridge
  <1>1. RetryInv => RetryAvoidsDeadBridge
    BY DEF RetryInv
  <1> QED
    BY <1>1, RetryInvInit, RetryInvNext, TypeCorrect, RunImplementsBridge,
       BridgeInvariant, PTL DEF Spec

-----------------------------------------------------------------------------
(***************************************************************************)
(* How long a run can last                                                 *)
(***************************************************************************)
StepsAhead(s) ==
    IF s = "list" THEN 3 ELSE IF s = "route" THEN 2 ELSE IF s = "work" THEN 1 ELSE 0

\* A run has fewer cycles to go, or fewer attempts at this one, or only the second
\* try of an attempt, or fewer steps of a try.
Ahead ==
    \/ Len(setting'.scores) - cycle' < Len(setting.scores) - cycle
    \/ /\ cycle' = cycle
       /\ \/ MaxAttempts - attempt' < MaxAttempts - attempt
          \/ /\ attempt' = attempt
             /\ \/ 2 - try' < 2 - try
                \/ try' = try /\ StepsAhead(step') < StepsAhead(step)

\* Whatever fails, a step of the body brings the run nearer to its end, or ends it;
\* and what happens around the body, closing and launching bridges included, never
\* sets it back.
BodyMakesHeadway ==
    [][/\ RunBody => Ahead \/ (UNCHANGED <<setting, cycle, attempt, try, step>>
                               /\ pc' \in {"leave", "exit"})
       /\ ~RunBody => UNCHANGED <<setting, cycle, attempt, try, step>>]_vars

\* The four counters are numbers, so that none can fall for ever.
CountersBounded ==
    /\ Len(setting.scores) - cycle \in Nat /\ MaxAttempts - attempt \in Nat
    /\ 2 - try \in Nat /\ StepsAhead(step) \in Nat

LEMMA CountersOfRun == TypeOK => CountersBounded
  <1> SUFFICES ASSUME TypeOK PROVE CountersBounded
    OBVIOUS
  <1>1. Len(setting.scores) \in Nat /\ MaxAttempts \in Nat
    BY RuntimeAssumption DEF TypeOK, Setting
  <1> QED BY <1>1 DEF TypeOK, StepsAhead, CountersBounded

\* The retries of a run, through whatever bridges they go, are bounded by the
\* configuration, and so is the number of tries of an attempt.
THEOREM RetriesRunOut == Spec => BodyMakesHeadway /\ []CountersBounded
  <1>1. ASSUME TypeOK, Next
        PROVE  /\ RunBody => Ahead \/ (UNCHANGED <<setting, cycle, attempt, try, step>>
                                       /\ pc' \in {"leave", "exit"})
               /\ ~RunBody => UNCHANGED <<setting, cycle, attempt, try, step>>
    <2>1. /\ Len(setting.scores) \in Nat /\ MaxAttempts \in Nat \ {0}
          /\ cycle \in 0..Len(setting.scores) /\ attempt \in 0..MaxAttempts /\ try \in 0..2
      <3>1. Len(setting.scores) \in Nat /\ MaxAttempts \in Nat \ {0}
        BY <1>1, RuntimeAssumption DEF TypeOK, Setting
      <3> QED BY <1>1, <3>1 DEF TypeOK
    <2> DEFINE Ends == /\ UNCHANGED <<setting, cycle, attempt, try, step>>
                       /\ pc' \in {"leave", "exit"}
    <2>2. ASSUME NEW exception \in BOOLEAN, RunEnds(exception) PROVE Ends
      BY <2>2 DEF RunEnds, EndBody
    <2>3. ASSUME NextCycle PROVE Ahead \/ Ends
      <3>1. CASE cycle = Len(setting.scores) \/ stopped
        BY <2>2, <2>3, <3>1 DEF NextCycle
      <3>2. CASE ~(cycle = Len(setting.scores) \/ stopped)
        <4>1. setting' = setting /\ cycle' = cycle + 1
          BY <2>3, <3>2 DEF NextCycle
        <4>2. Len(setting'.scores) - cycle' < Len(setting.scores) - cycle
          BY <2>1, <4>1
        <4> QED BY <4>2 DEF Ahead
      <3> QED BY <3>1, <3>2
    <2>4. CASE ListModels \/ CycleDone
      BY <2>3, <2>4 DEF ListModels, CycleDone, RunBody
    <2>5. CASE ListingFails \/ RaiseInterrupted \/ RunFails
      BY <2>2, <2>5 DEF ListingFails, RaiseInterrupted, RunFails, RunBody
    <2>6. CASE RouteTask \/ AttemptFails
      BY <2>6 DEF RouteTask, AttemptFails, InRun, Ahead, StepsAhead, RunBody
    <2>7. CASE BillingFails
      BY <2>7 DEF BillingFails, Ahead, RunBody
    <2>8. CASE KeepBridge \/ ReplaceBridge
      <3>1. cycle' = cycle /\ attempt' = attempt + 1
        BY <2>8 DEF KeepBridge, ReplaceBridge, RetryNow
      <3>2. MaxAttempts - attempt' < MaxAttempts - attempt
        BY <2>1, <3>1
      <3> QED BY <2>8, <3>1, <3>2 DEF Ahead, RunBody
    <2>9. CASE ~RunBody
      <3>1. UNCHANGED runVars \/ Sigint
        BY <1>1, <2>9 DEF Next, Host, Helper, Environment, Exited, vars
      <3>2. UNCHANGED <<setting, cycle, attempt, try, step>>
        BY <3>1 DEF runVars, Sigint
      <3> QED BY <2>9, <3>2
    <2> HIDE DEF Ends
    <2> QED BY <2>4, <2>5, <2>6, <2>7, <2>8, <2>9 DEF Ends, RunBody
  <1> QED BY <1>1, CountersOfRun, TypeCorrect, PTL DEF Spec, BodyMakesHeadway, CountersBounded
=============================================================================
