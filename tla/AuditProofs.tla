----------------------------- MODULE AuditProofs -----------------------------
(***************************************************************************)
(* What holds of the scan of every site: of its values, which ScoreProofs  *)
(* computes, of its actions and of its report.                             *)
(***************************************************************************)
EXTENDS ScoreProofs

(***************************************************************************)
(* The calibration curve.                                                  *)
(***************************************************************************)
(* calibrate() keeps the order of two scores: a better raw score is never  *)
(* shown as a worse one, across the anchors of the curve too.              *)
THEOREM CalibrateMonotone ==
  ASSUME NEW s \in Int, NEW t \in Int, s <= t
  PROVE  Calibrate(s) <= Calibrate(t)
  BY SMTT(30) DEF Calibrate, Between, RoundDiv, Most, Least

(***************************************************************************)
(* The mean of the components that apply lies between the worst and the    *)
(* best of them: for the weights of the overall score and of each stage,   *)
(* with the offer and without it.  First the seven scores as numbers.      *)
(***************************************************************************)
Numbers(scores) == \A k \in ComponentNames : scores[k] \in Score
Applied == {ComponentNames, ComponentNames \ {"offer_clarity"}}
Within(score, S) == (\E x \in S : x <= score) /\ (\E x \in S : score <= x)
Spanned(score, scores, applicable) ==
  /\ \E c \in applicable : scores[c] <= score
  /\ \E c \in applicable : score <= scores[c]

Six == {"entity_clarity", "prompt_coverage", "sourceability", "structured_data", "evidence_trust",
        "technical_access"}
LEMMA WithoutOffer == ComponentNames \ {"offer_clarity"} = Six
  BY DEF ComponentNames, Six

(* The mean as plain arithmetic: with and without the offer. *)
LEMMA MeanOfSeven ==
  ASSUME NEW w, NEW scores
  PROVE  WeightedMean(w, scores, ComponentNames) =
           RoundDiv(w["entity_clarity"] * scores["entity_clarity"]
                    + w["offer_clarity"] * scores["offer_clarity"]
                    + w["prompt_coverage"] * scores["prompt_coverage"]
                    + w["sourceability"] * scores["sourceability"]
                    + w["structured_data"] * scores["structured_data"]
                    + w["evidence_trust"] * scores["evidence_trust"]
                    + w["technical_access"] * scores["technical_access"],
                    w["entity_clarity"] + w["offer_clarity"] + w["prompt_coverage"]
                    + w["sourceability"] + w["structured_data"]
                    + w["evidence_trust"] + w["technical_access"])
  BY DEF WeightedMean, Over7, Term, Share, If, ComponentNames

LEMMA MeanOfSix ==
  ASSUME NEW w, NEW scores
  PROVE  WeightedMean(w, scores, Six) =
           RoundDiv(w["entity_clarity"] * scores["entity_clarity"]
                    + 0
                    + w["prompt_coverage"] * scores["prompt_coverage"]
                    + w["sourceability"] * scores["sourceability"]
                    + w["structured_data"] * scores["structured_data"]
                    + w["evidence_trust"] * scores["evidence_trust"]
                    + w["technical_access"] * scores["technical_access"],
                    w["entity_clarity"] + 0 + w["prompt_coverage"]
                    + w["sourceability"] + w["structured_data"]
                    + w["evidence_trust"] + w["technical_access"])
  BY DEF WeightedMean, Over7, Term, Share, If, Six

LEMMA MeanBetween ==
  ASSUME NEW scores, Numbers(scores), NEW applicable \in Applied,
         NEW w \in {ComponentWeights, RetrievalWeights, CitationWeights, AnswerWeights}
  PROVE  Spanned(WeightedMean(w, scores, applicable), scores, applicable)
<1>a. PICK a \in Score : a = scores["entity_clarity"]
  BY DEF Numbers, ComponentNames
<1>b. PICK b \in Score : b = scores["offer_clarity"]
  BY DEF Numbers, ComponentNames
<1>c. PICK c \in Score : c = scores["prompt_coverage"]
  BY DEF Numbers, ComponentNames
<1>d. PICK d \in Score : d = scores["sourceability"]
  BY DEF Numbers, ComponentNames
<1>e. PICK e \in Score : e = scores["structured_data"]
  BY DEF Numbers, ComponentNames
<1>f. PICK f \in Score : f = scores["evidence_trust"]
  BY DEF Numbers, ComponentNames
<1>g. PICK g \in Score : g = scores["technical_access"]
  BY DEF Numbers, ComponentNames
<1>1. Spanned(WeightedMean(ComponentWeights, scores, ComponentNames), scores, ComponentNames)
  <2>1. WeightedMean(ComponentWeights, scores, ComponentNames)
          = RoundDiv(20 * a + 20 * b + 20 * c + 15 * d + 10 * e + 10 * f + 5 * g,
                     20 + 20 + 20 + 15 + 10 + 10 + 5)
    BY <1>a, <1>b, <1>c, <1>d, <1>e, <1>f, <1>g, MeanOfSeven DEF ComponentWeights
  <2>2. Within(RoundDiv(20 * a + 20 * b + 20 * c + 15 * d + 10 * e + 10 * f + 5 * g,
                        20 + 20 + 20 + 15 + 10 + 10 + 5),
               {a, b, c, d, e, f, g})
    BY SMTT(30) DEF Within, RoundDiv, Score
  <2>3. \A x \in {a, b, c, d, e, f, g} : \E k \in ComponentNames : x = scores[k]
    BY <1>a, <1>b, <1>c, <1>d, <1>e, <1>f, <1>g DEF ComponentNames
  <2>. QED
    BY <2>1, <2>2, <2>3 DEF Spanned, Within
<1>2. Spanned(WeightedMean(ComponentWeights, scores, Six), scores, Six)
  <2>1. WeightedMean(ComponentWeights, scores, Six)
          = RoundDiv(20 * a + 0 + 20 * c + 15 * d + 10 * e + 10 * f + 5 * g,
                     20 + 0 + 20 + 15 + 10 + 10 + 5)
    BY <1>a, <1>b, <1>c, <1>d, <1>e, <1>f, <1>g, MeanOfSix DEF ComponentWeights
  <2>2. Within(RoundDiv(20 * a + 0 + 20 * c + 15 * d + 10 * e + 10 * f + 5 * g,
                        20 + 0 + 20 + 15 + 10 + 10 + 5),
               {a, c, d, e, f, g})
    BY SMTT(30) DEF Within, RoundDiv, Score
  <2>3. \A x \in {a, c, d, e, f, g} : \E k \in Six : x = scores[k]
    BY <1>a, <1>b, <1>c, <1>d, <1>e, <1>f, <1>g DEF Six
  <2>. QED
    BY <2>1, <2>2, <2>3 DEF Spanned, Within
<1>3. Spanned(WeightedMean(RetrievalWeights, scores, ComponentNames), scores, ComponentNames)
  <2>1. WeightedMean(RetrievalWeights, scores, ComponentNames)
          = RoundDiv(15 * a + 15 * b + 30 * c + 0 * d + 10 * e + 0 * f + 30 * g,
                     15 + 15 + 30 + 0 + 10 + 0 + 30)
    BY <1>a, <1>b, <1>c, <1>d, <1>e, <1>f, <1>g, MeanOfSeven DEF RetrievalWeights
  <2>2. Within(RoundDiv(15 * a + 15 * b + 30 * c + 0 * d + 10 * e + 0 * f + 30 * g,
                        15 + 15 + 30 + 0 + 10 + 0 + 30),
               {a, b, c, d, e, f, g})
    BY SMTT(30) DEF Within, RoundDiv, Score
  <2>3. \A x \in {a, b, c, d, e, f, g} : \E k \in ComponentNames : x = scores[k]
    BY <1>a, <1>b, <1>c, <1>d, <1>e, <1>f, <1>g DEF ComponentNames
  <2>. QED
    BY <2>1, <2>2, <2>3 DEF Spanned, Within
<1>4. Spanned(WeightedMean(RetrievalWeights, scores, Six), scores, Six)
  <2>1. WeightedMean(RetrievalWeights, scores, Six)
          = RoundDiv(15 * a + 0 + 30 * c + 0 * d + 10 * e + 0 * f + 30 * g,
                     15 + 0 + 30 + 0 + 10 + 0 + 30)
    BY <1>a, <1>b, <1>c, <1>d, <1>e, <1>f, <1>g, MeanOfSix DEF RetrievalWeights
  <2>2. Within(RoundDiv(15 * a + 0 + 30 * c + 0 * d + 10 * e + 0 * f + 30 * g,
                        15 + 0 + 30 + 0 + 10 + 0 + 30),
               {a, c, d, e, f, g})
    BY SMTT(30) DEF Within, RoundDiv, Score
  <2>3. \A x \in {a, c, d, e, f, g} : \E k \in Six : x = scores[k]
    BY <1>a, <1>b, <1>c, <1>d, <1>e, <1>f, <1>g DEF Six
  <2>. QED
    BY <2>1, <2>2, <2>3 DEF Spanned, Within
<1>5. Spanned(WeightedMean(CitationWeights, scores, ComponentNames), scores, ComponentNames)
  <2>1. WeightedMean(CitationWeights, scores, ComponentNames)
          = RoundDiv(10 * a + 0 * b + 20 * c + 30 * d + 15 * e + 25 * f + 0 * g,
                     10 + 0 + 20 + 30 + 15 + 25 + 0)
    BY <1>a, <1>b, <1>c, <1>d, <1>e, <1>f, <1>g, MeanOfSeven DEF CitationWeights
  <2>2. Within(RoundDiv(10 * a + 0 * b + 20 * c + 30 * d + 15 * e + 25 * f + 0 * g,
                        10 + 0 + 20 + 30 + 15 + 25 + 0),
               {a, b, c, d, e, f, g})
    BY SMTT(30) DEF Within, RoundDiv, Score
  <2>3. \A x \in {a, b, c, d, e, f, g} : \E k \in ComponentNames : x = scores[k]
    BY <1>a, <1>b, <1>c, <1>d, <1>e, <1>f, <1>g DEF ComponentNames
  <2>. QED
    BY <2>1, <2>2, <2>3 DEF Spanned, Within
<1>6. Spanned(WeightedMean(CitationWeights, scores, Six), scores, Six)
  <2>1. WeightedMean(CitationWeights, scores, Six)
          = RoundDiv(10 * a + 0 + 20 * c + 30 * d + 15 * e + 25 * f + 0 * g,
                     10 + 0 + 20 + 30 + 15 + 25 + 0)
    BY <1>a, <1>b, <1>c, <1>d, <1>e, <1>f, <1>g, MeanOfSix DEF CitationWeights
  <2>2. Within(RoundDiv(10 * a + 0 + 20 * c + 30 * d + 15 * e + 25 * f + 0 * g,
                        10 + 0 + 20 + 30 + 15 + 25 + 0),
               {a, c, d, e, f, g})
    BY SMTT(30) DEF Within, RoundDiv, Score
  <2>3. \A x \in {a, c, d, e, f, g} : \E k \in Six : x = scores[k]
    BY <1>a, <1>b, <1>c, <1>d, <1>e, <1>f, <1>g DEF Six
  <2>. QED
    BY <2>1, <2>2, <2>3 DEF Spanned, Within
<1>7. Spanned(WeightedMean(AnswerWeights, scores, ComponentNames), scores, ComponentNames)
  <2>1. WeightedMean(AnswerWeights, scores, ComponentNames)
          = RoundDiv(0 * a + 15 * b + 25 * c + 45 * d + 10 * e + 5 * f + 0 * g,
                     0 + 15 + 25 + 45 + 10 + 5 + 0)
    BY <1>a, <1>b, <1>c, <1>d, <1>e, <1>f, <1>g, MeanOfSeven DEF AnswerWeights
  <2>2. Within(RoundDiv(0 * a + 15 * b + 25 * c + 45 * d + 10 * e + 5 * f + 0 * g,
                        0 + 15 + 25 + 45 + 10 + 5 + 0),
               {a, b, c, d, e, f, g})
    BY SMTT(30) DEF Within, RoundDiv, Score
  <2>3. \A x \in {a, b, c, d, e, f, g} : \E k \in ComponentNames : x = scores[k]
    BY <1>a, <1>b, <1>c, <1>d, <1>e, <1>f, <1>g DEF ComponentNames
  <2>. QED
    BY <2>1, <2>2, <2>3 DEF Spanned, Within
<1>8. Spanned(WeightedMean(AnswerWeights, scores, Six), scores, Six)
  <2>1. WeightedMean(AnswerWeights, scores, Six)
          = RoundDiv(0 * a + 0 + 25 * c + 45 * d + 10 * e + 5 * f + 0 * g,
                     0 + 0 + 25 + 45 + 10 + 5 + 0)
    BY <1>a, <1>b, <1>c, <1>d, <1>e, <1>f, <1>g, MeanOfSix DEF AnswerWeights
  <2>2. Within(RoundDiv(0 * a + 0 + 25 * c + 45 * d + 10 * e + 5 * f + 0 * g,
                        0 + 0 + 25 + 45 + 10 + 5 + 0),
               {a, c, d, e, f, g})
    BY SMTT(30) DEF Within, RoundDiv, Score
  <2>3. \A x \in {a, c, d, e, f, g} : \E k \in Six : x = scores[k]
    BY <1>a, <1>b, <1>c, <1>d, <1>e, <1>f, <1>g DEF Six
  <2>. QED
    BY <2>1, <2>2, <2>3 DEF Spanned, Within
<1>9. applicable \in {ComponentNames, Six}
  BY WithoutOffer DEF Applied
<1>. QED
  BY <1>1, <1>2, <1>3, <1>4, <1>5, <1>6, <1>7, <1>8, <1>9

(***************************************************************************)
(* What a scan stores is what the pipeline made of some pages: either of   *)
(* the pages as they are, or, after a scan that failed, of those before.   *)
(***************************************************************************)
Produced ==
  \E s \in Sites, o \in Outcomes : Read(s, o) # << >> /\ scan = RunPipeline(s, o)

LEMMA Fields ==
  ASSUME NEW s, NEW o, NEW r, r = RunPipeline(s, o)
  PROVE  /\ r.pages = Read(s, o) /\ r.meta = CrawlMeta(s, o)
         /\ r.profile = BuildProfile(r.pages) /\ r.clusters = GenerateClusters(r.profile)
         /\ r.report = BuildReport(r.pages, r.meta, r.profile, r.clusters, r.readiness, r.actions)
         /\ r.coverage = ComputeCoverage(r.clusters, r.pages, r.profile)
         /\ r.readiness = ComputeReadiness(r.pages, r.profile, r.coverage, r.meta)
         /\ r.actions = ComputeActions(r.readiness, r.pages, r.profile, r.coverage)
  BY DEF RunPipeline, Profiled, Covered, Assessed, Advised, Reported

LEMMA ProducedStays == Spec => [](Produced /\ site \in Sites)
<1>1. Init => Produced /\ site \in Sites
  BY DEF Init, Produced
<1>2. Produced /\ site \in Sites /\ [Next]_vars => (Produced /\ site \in Sites)'
  <2>1. ASSUME Produced, NEW published \in Edits, NEW outcome \in Outcomes, Rescan(published, outcome)
        PROVE  Produced' /\ site' \in Sites
    BY <2>1 DEF Produced, Rescan, Edits
  <2>2. ASSUME Produced, site \in Sites, UNCHANGED vars
        PROVE  Produced' /\ site' \in Sites
    BY <2>2 DEF Produced, vars
  <2>. QED
    BY <2>1, <2>2 DEF Next
<1>. QED
  BY <1>1, <1>2, PTL DEF Spec

(***************************************************************************)
(* The actions: which rule makes which, of which family and category.      *)
(***************************************************************************)
RuleAction(r, family) ==
  CASE family = "RDY-001"  -> Act(r, family, family, "entity", "entity_clarity", 90, 2)
    [] family = "RDY-002"  -> Act(r, family, family, "offer", "offer_clarity", 80, 3)
    [] family = "RDY-003"  -> Act(r, family, family, "local", "prompt_coverage", 70, 2)
    [] family = "RDY-005"  -> Act(r, family, family, "structured_data", "structured_data", 75, 2)
    [] family = "RDY-006"  -> Act(r, family, family, "coverage", "prompt_coverage", 85, 3)
    [] family = "RDY-007"  -> Act(r, family, family, "offer", "offer_clarity", 50, 3)
    [] family = "RDY-008"  -> Act(r, family, family, "trust", "evidence_trust", 70, 3)
    [] family = "RDY-010"  -> Act(r, family, family, "technical", "technical_access", 60, 3)
    [] family = "RDY-004A" -> Act(r, family, family, "sourceability", "sourceability", 75, 3)
    [] family = "RDY-004B" -> Act(r, family, family, "sourceability", "sourceability", 70, 3)
    [] family = "RDY-004C" -> Act(r, family, family, "sourceability", "sourceability", 70, 3)
    [] family = "RDY-004D" -> Act(r, family, family, "sourceability", "sourceability", 70, 3)
    [] family = "RDY-012"  -> Act(r, family, family, "sourceability", "sourceability", 50, 3)
    [] family = "RDY-013"  -> Act(r, family, family, "sourceability", "sourceability", 50, 3)
    [] family = "RDY-011"  -> Act(r, family, family, "coverage", "prompt_coverage", 80, 3)
    [] family = "RDY-009A" -> Act(r, family, family, "technical", "technical_access", 50, 2)
    [] family = "RDY-014"  -> Act(r, family, family, "technical", "technical_access", 50, 2)
OfferAction(r) == Act(r, "RDY-002B", "RDY-002", "offer", "offer_clarity", 85, 3)

Others(r, pages, profile, coverage) ==
  ActionsV1(r, pages, profile, coverage) \cup SourceActions(r, pages)
    \cup Rdy011(r, coverage) \cup Rdy009A(r, pages) \cup Rdy014(r, pages)
Ruled(a, r) == /\ a = RuleAction(r, a.family)
               /\ a.rule = a.family
               /\ a.rule \notin FallbackRules

Weighed(a, r) == \E component \in ComponentNames, impact \in Int, effort \in 1..3 :
                   a.priority = Priority(r, component, impact, effort)

LEMMA OfOthers ==
  ASSUME NEW r, NEW pages, NEW profile, NEW coverage,
         NEW a \in Others(r, pages, profile, coverage)
  PROVE  /\ Ruled(a, r) /\ Weighed(a, r)
         /\ a.family = "RDY-002" => a \in Rdy002(r, pages, profile)
         /\ a.rule = "RDY-011" => a \in Rdy011(r, coverage)
         /\ a.category = "offer" =>
              a \in Rdy002(r, pages, profile) \cup Rdy007(r, profile, coverage)
<1>1. CASE a \in Rdy001(r, profile)
  <2>1. a = Act(r, "RDY-001", "RDY-001", "entity", "entity_clarity", 90, 2)
    BY <1>1 DEF Rdy001, When
  <2>2. a.rule = "RDY-001" /\ a.family = "RDY-001" /\ a.category = "entity"
    BY <2>1 DEF Act
  <2>3. Ruled(a, r)
    BY <2>1, <2>2 DEF Ruled, RuleAction, FallbackRules, Fallbacks
  <2>4. Weighed(a, r)
    BY <2>1 DEF Weighed, Act, ComponentNames
  <2>. QED
    BY <2>2, <2>3, <2>4
<1>2. CASE a \in Rdy002(r, pages, profile)
  <2>1. a = Act(r, "RDY-002", "RDY-002", "offer", "offer_clarity", 80, 3)
    BY <1>2 DEF Rdy002, When
  <2>2. a.rule = "RDY-002" /\ a.family = "RDY-002" /\ a.category = "offer"
    BY <2>1 DEF Act
  <2>3. Ruled(a, r)
    BY <2>1, <2>2 DEF Ruled, RuleAction, FallbackRules, Fallbacks
  <2>4. Weighed(a, r)
    BY <2>1 DEF Weighed, Act, ComponentNames
  <2>. QED
    BY <1>2, <2>2, <2>3, <2>4
<1>3. CASE a \in Rdy003(r, profile, coverage)
  <2>1. a = Act(r, "RDY-003", "RDY-003", "local", "prompt_coverage", 70, 2)
    BY <1>3 DEF Rdy003, When
  <2>2. a.rule = "RDY-003" /\ a.family = "RDY-003" /\ a.category = "local"
    BY <2>1 DEF Act
  <2>3. Ruled(a, r)
    BY <2>1, <2>2 DEF Ruled, RuleAction, FallbackRules, Fallbacks
  <2>4. Weighed(a, r)
    BY <2>1 DEF Weighed, Act, ComponentNames
  <2>. QED
    BY <2>2, <2>3, <2>4
<1>4. CASE a \in Rdy005(r, pages)
  <2>1. a = Act(r, "RDY-005", "RDY-005", "structured_data", "structured_data", 75, 2)
    BY <1>4 DEF Rdy005, When
  <2>2. a.rule = "RDY-005" /\ a.family = "RDY-005" /\ a.category = "structured_data"
    BY <2>1 DEF Act
  <2>3. Ruled(a, r)
    BY <2>1, <2>2 DEF Ruled, RuleAction, FallbackRules, Fallbacks
  <2>4. Weighed(a, r)
    BY <2>1 DEF Weighed, Act, ComponentNames
  <2>. QED
    BY <2>2, <2>3, <2>4
<1>5. CASE a \in Rdy006(r, coverage)
  <2>1. a = Act(r, "RDY-006", "RDY-006", "coverage", "prompt_coverage", 85, 3)
    BY <1>5 DEF Rdy006, When
  <2>2. a.rule = "RDY-006" /\ a.family = "RDY-006" /\ a.category = "coverage"
    BY <2>1 DEF Act
  <2>3. Ruled(a, r)
    BY <2>1, <2>2 DEF Ruled, RuleAction, FallbackRules, Fallbacks
  <2>4. Weighed(a, r)
    BY <2>1 DEF Weighed, Act, ComponentNames
  <2>. QED
    BY <2>2, <2>3, <2>4
<1>6. CASE a \in Rdy007(r, profile, coverage)
  <2>1. a = Act(r, "RDY-007", "RDY-007", "offer", "offer_clarity", 50, 3)
    BY <1>6 DEF Rdy007, When
  <2>2. a.rule = "RDY-007" /\ a.family = "RDY-007" /\ a.category = "offer"
    BY <2>1 DEF Act
  <2>3. Ruled(a, r)
    BY <2>1, <2>2 DEF Ruled, RuleAction, FallbackRules, Fallbacks
  <2>4. Weighed(a, r)
    BY <2>1 DEF Weighed, Act, ComponentNames
  <2>. QED
    BY <1>6, <2>2, <2>3, <2>4
<1>7. CASE a \in Rdy008(r)
  <2>1. a = Act(r, "RDY-008", "RDY-008", "trust", "evidence_trust", 70, 3)
    BY <1>7 DEF Rdy008, When
  <2>2. a.rule = "RDY-008" /\ a.family = "RDY-008" /\ a.category = "trust"
    BY <2>1 DEF Act
  <2>3. Ruled(a, r)
    BY <2>1, <2>2 DEF Ruled, RuleAction, FallbackRules, Fallbacks
  <2>4. Weighed(a, r)
    BY <2>1 DEF Weighed, Act, ComponentNames
  <2>. QED
    BY <2>2, <2>3, <2>4
<1>8. CASE a \in Rdy010(r, pages)
  <2>1. a = Act(r, "RDY-010", "RDY-010", "technical", "technical_access", 60, 3)
    BY <1>8 DEF Rdy010, When
  <2>2. a.rule = "RDY-010" /\ a.family = "RDY-010" /\ a.category = "technical"
    BY <2>1 DEF Act
  <2>3. Ruled(a, r)
    BY <2>1, <2>2 DEF Ruled, RuleAction, FallbackRules, Fallbacks
  <2>4. Weighed(a, r)
    BY <2>1 DEF Weighed, Act, ComponentNames
  <2>. QED
    BY <2>2, <2>3, <2>4
<1>9. CASE a \in Rdy011(r, coverage)
  <2>1. a = Act(r, "RDY-011", "RDY-011", "coverage", "prompt_coverage", 80, 3)
    BY <1>9 DEF Rdy011, When
  <2>2. a.rule = "RDY-011" /\ a.family = "RDY-011" /\ a.category = "coverage"
    BY <2>1 DEF Act
  <2>3. Ruled(a, r)
    BY <2>1, <2>2 DEF Ruled, RuleAction, FallbackRules, Fallbacks
  <2>4. Weighed(a, r)
    BY <2>1 DEF Weighed, Act, ComponentNames
  <2>. QED
    BY <1>9, <2>2, <2>3, <2>4
<1>10. CASE a \in Rdy009A(r, pages)
  <2>1. a = Act(r, "RDY-009A", "RDY-009A", "technical", "technical_access", 50, 2)
    BY <1>10 DEF Rdy009A, When
  <2>2. a.rule = "RDY-009A" /\ a.family = "RDY-009A" /\ a.category = "technical"
    BY <2>1 DEF Act
  <2>3. Ruled(a, r)
    BY <2>1, <2>2 DEF Ruled, RuleAction, FallbackRules, Fallbacks
  <2>4. Weighed(a, r)
    BY <2>1 DEF Weighed, Act, ComponentNames
  <2>. QED
    BY <2>2, <2>3, <2>4
<1>11. CASE a \in Rdy014(r, pages)
  <2>1. a = Act(r, "RDY-014", "RDY-014", "technical", "technical_access", 50, 2)
    BY <1>11 DEF Rdy014, When
  <2>2. a.rule = "RDY-014" /\ a.family = "RDY-014" /\ a.category = "technical"
    BY <2>1 DEF Act
  <2>3. Ruled(a, r)
    BY <2>1, <2>2 DEF Ruled, RuleAction, FallbackRules, Fallbacks
  <2>4. Weighed(a, r)
    BY <2>1 DEF Weighed, Act, ComponentNames
  <2>. QED
    BY <2>2, <2>3, <2>4
<1>12. CASE a \in SourceActions(r, pages)
  <2>0. PICK t \in SourceRules : a = Act(r, t.rule, t.rule, "sourceability", "sourceability", t.impact, 3)
    BY <1>12 DEF SourceActions
  <2>1. CASE t = [rule |-> "RDY-004A", signal |-> "quantified", impact |-> 75]
    <3>1. a = Act(r, "RDY-004A", "RDY-004A", "sourceability", "sourceability", 75, 3)
      BY <2>0, <2>1
    <3>2. a.rule = "RDY-004A" /\ a.family = "RDY-004A" /\ a.category = "sourceability"
      BY <3>1 DEF Act
    <3>3. Ruled(a, r)
      BY <3>1, <3>2 DEF Ruled, RuleAction, FallbackRules, Fallbacks
    <3>4. Weighed(a, r)
      BY <3>1 DEF Weighed, Act, ComponentNames
    <3>. QED
      BY <3>2, <3>3, <3>4
  <2>2. CASE t = [rule |-> "RDY-004B", signal |-> "attribution", impact |-> 70]
    <3>1. a = Act(r, "RDY-004B", "RDY-004B", "sourceability", "sourceability", 70, 3)
      BY <2>0, <2>2
    <3>2. a.rule = "RDY-004B" /\ a.family = "RDY-004B" /\ a.category = "sourceability"
      BY <3>1 DEF Act
    <3>3. Ruled(a, r)
      BY <3>1, <3>2 DEF Ruled, RuleAction, FallbackRules, Fallbacks
    <3>4. Weighed(a, r)
      BY <3>1 DEF Weighed, Act, ComponentNames
    <3>. QED
      BY <3>2, <3>3, <3>4
  <2>3. CASE t = [rule |-> "RDY-004C", signal |-> "extractability", impact |-> 70]
    <3>1. a = Act(r, "RDY-004C", "RDY-004C", "sourceability", "sourceability", 70, 3)
      BY <2>0, <2>3
    <3>2. a.rule = "RDY-004C" /\ a.family = "RDY-004C" /\ a.category = "sourceability"
      BY <3>1 DEF Act
    <3>3. Ruled(a, r)
      BY <3>1, <3>2 DEF Ruled, RuleAction, FallbackRules, Fallbacks
    <3>4. Weighed(a, r)
      BY <3>1 DEF Weighed, Act, ComponentNames
    <3>. QED
      BY <3>2, <3>3, <3>4
  <2>4. CASE t = [rule |-> "RDY-004D", signal |-> "answers", impact |-> 70]
    <3>1. a = Act(r, "RDY-004D", "RDY-004D", "sourceability", "sourceability", 70, 3)
      BY <2>0, <2>4
    <3>2. a.rule = "RDY-004D" /\ a.family = "RDY-004D" /\ a.category = "sourceability"
      BY <3>1 DEF Act
    <3>3. Ruled(a, r)
      BY <3>1, <3>2 DEF Ruled, RuleAction, FallbackRules, Fallbacks
    <3>4. Weighed(a, r)
      BY <3>1 DEF Weighed, Act, ComponentNames
    <3>. QED
      BY <3>2, <3>3, <3>4
  <2>5. CASE t = [rule |-> "RDY-012", signal |-> "freshness", impact |-> 50]
    <3>1. a = Act(r, "RDY-012", "RDY-012", "sourceability", "sourceability", 50, 3)
      BY <2>0, <2>5
    <3>2. a.rule = "RDY-012" /\ a.family = "RDY-012" /\ a.category = "sourceability"
      BY <3>1 DEF Act
    <3>3. Ruled(a, r)
      BY <3>1, <3>2 DEF Ruled, RuleAction, FallbackRules, Fallbacks
    <3>4. Weighed(a, r)
      BY <3>1 DEF Weighed, Act, ComponentNames
    <3>. QED
      BY <3>2, <3>3, <3>4
  <2>6. CASE t = [rule |-> "RDY-013", signal |-> "author", impact |-> 50]
    <3>1. a = Act(r, "RDY-013", "RDY-013", "sourceability", "sourceability", 50, 3)
      BY <2>0, <2>6
    <3>2. a.rule = "RDY-013" /\ a.family = "RDY-013" /\ a.category = "sourceability"
      BY <3>1 DEF Act
    <3>3. Ruled(a, r)
      BY <3>1, <3>2 DEF Ruled, RuleAction, FallbackRules, Fallbacks
    <3>4. Weighed(a, r)
      BY <3>1 DEF Weighed, Act, ComponentNames
    <3>. QED
      BY <3>2, <3>3, <3>4
  <2>. QED
    BY <2>1, <2>2, <2>3, <2>4, <2>5, <2>6 DEF SourceRules
<1>. QED
  BY <1>1, <1>2, <1>3, <1>4, <1>5, <1>6, <1>7, <1>8, <1>9, <1>10, <1>11, <1>12 DEF Others, ActionsV1

(* What fills a gap has a rule of its own, and a category for each rule.   *)
LEMMA OfFallbacks ==
  ASSUME NEW r, NEW actions, NEW a \in FallbackActions(r, actions)
  PROVE  /\ \E f \in Fallbacks : a = Act(r, f.rule, f.rule, f.category, f.component, 60, 3)
         /\ a.rule = a.family /\ a.rule \in FallbackRules /\ a.category # "offer"
         /\ \A b \in actions : a.category # b.category
<1>1. PICK f \in Fallbacks : /\ a = Act(r, f.rule, f.rule, f.category, f.component, 60, 3)
                             /\ \A b \in actions : b.category # f.category
  BY DEF FallbackActions
<1>2. a.rule = f.rule /\ a.family = f.rule /\ a.category = f.category
  BY <1>1 DEF Act
<1>3. f.category # "offer"
  BY DEF Fallbacks
<1>. QED
  BY <1>1, <1>2, <1>3 DEF FallbackRules

LEMMA FallbackDiffers ==
  ASSUME NEW f \in Fallbacks, NEW g \in Fallbacks
  PROVE  f.category = g.category \/ f.rule = g.rule => f = g
  BY DEF Fallbacks

LEMMA OneFallback ==
  ASSUME NEW r, NEW actions, NEW a \in FallbackActions(r, actions),
         NEW b \in FallbackActions(r, actions), a.category = b.category \/ a.rule = b.rule
  PROVE  a = b
<1>1. PICK f \in Fallbacks : a = Act(r, f.rule, f.rule, f.category, f.component, 60, 3)
  BY OfFallbacks
<1>2. PICK g \in Fallbacks : b = Act(r, g.rule, g.rule, g.category, g.component, 60, 3)
  BY OfFallbacks
<1>3. /\ a.rule = f.rule /\ a.category = f.category
      /\ b.rule = g.rule /\ b.category = g.category
  BY <1>1, <1>2 DEF Act
<1>. QED
  BY <1>1, <1>2, <1>3, FallbackDiffers

(* RDY-002B stands in for RDY-002, whose family it has. *)
LEMMA OfOffer ==
  ASSUME NEW r, NEW pages, NEW profile, NEW a \in Rdy002B(r, pages, profile)
  PROVE  /\ a = Act(r, "RDY-002B", "RDY-002", "offer", "offer_clarity", 85, 3)
         /\ a.rule = "RDY-002B" /\ a.family = "RDY-002" /\ a.rule \notin FallbackRules
         /\ Rdy002(r, pages, profile) = {} /\ profile.siteType \notin NonCommercial
<1>1. a = Act(r, "RDY-002B", "RDY-002", "offer", "offer_clarity", 85, 3)
  BY DEF Rdy002B, When
<1>2. a.rule = "RDY-002B" /\ a.family = "RDY-002"
  BY <1>1 DEF Act
<1>3. Rdy002(r, pages, profile) = {} /\ profile.siteType \notin NonCommercial
  BY DEF Rdy002B, When
<1>. QED
  BY <1>1, <1>2, <1>3 DEF FallbackRules, Fallbacks

(* Two actions of one family are one action; deduplication then has        *)
(* nothing left to choose, whatever the priorities.                        *)
LEMMA OneAFamily ==
  ASSUME NEW r, NEW pages, NEW profile, NEW coverage, NEW rules,
         rules = RuleActions(r, pages, profile, coverage),
         NEW a \in rules \cup FallbackActions(r, rules),
         NEW b \in rules \cup FallbackActions(r, rules), a.family = b.family
  PROVE  a = b
<1>0. rules = Others(r, pages, profile, coverage) \cup Rdy002B(r, pages, profile)
  BY DEF RuleActions, Others
<1>1. CASE a \in Others(r, pages, profile, coverage) /\ b \in Others(r, pages, profile, coverage)
  BY <1>1, OfOthers DEF Ruled
<1>2. CASE a \in Rdy002B(r, pages, profile) /\ b \in Rdy002B(r, pages, profile)
  BY <1>2, OfOffer
<1>3. ASSUME NEW x \in Others(r, pages, profile, coverage), NEW y \in Rdy002B(r, pages, profile)
      PROVE  x.family # y.family
  BY OfOthers, OfOffer
<1>4. CASE a \in FallbackActions(r, rules) /\ b \in FallbackActions(r, rules)
  BY <1>4, OfFallbacks, OneFallback
<1>5. ASSUME NEW x \in FallbackActions(r, rules), NEW y \in rules
      PROVE  x.family # y.family
  <2>1. x.family \in FallbackRules
    BY OfFallbacks
  <2>2. CASE y \in Others(r, pages, profile, coverage)
    BY <2>1, <2>2, OfOthers DEF Ruled
  <2>3. CASE y \in Rdy002B(r, pages, profile)
    BY <2>1, <2>3, OfOffer DEF FallbackRules, Fallbacks
  <2>. QED
    BY <1>0, <2>2, <2>3
<1>. QED
  BY <1>0, <1>1, <1>2, <1>3, <1>4, <1>5

LEMMA ActionsFocused ==
  ASSUME NEW r, NEW pages, NEW profile, NEW coverage,
         NEW a \in ComputeActions(r, pages, profile, coverage),
         NEW b \in ComputeActions(r, pages, profile, coverage)
  PROVE  /\ a.family = b.family => a = b
         /\ a.rule \in FallbackRules /\ b.category = a.category => a = b
<1>. DEFINE rules == RuleActions(r, pages, profile, coverage)
<1>1. a \in rules \cup FallbackActions(r, rules) /\ b \in rules \cup FallbackActions(r, rules)
  BY DEF ComputeActions, Deduplicated
<1>2. ASSUME a.family = b.family PROVE a = b
  BY <1>1, <1>2, OneAFamily
<1>3. ASSUME a.rule \in FallbackRules, b.category = a.category PROVE a = b
  <2>1. \A x \in rules : x.rule \notin FallbackRules
    BY OfOthers, OfOffer DEF RuleActions, Others, Ruled
  <2>2. a \in FallbackActions(r, rules)
    BY <1>1, <1>3, <2>1
  <2>3. b \in FallbackActions(r, rules)
    BY <1>1, <1>3, <2>2, OfFallbacks
  <2>. QED
    BY <1>3, <2>2, <2>3, OneFallback
<1>. QED
  BY <1>2, <1>3

(* At most one action a family, and none beside what fills a gap: of every *)
(* scan of every site, without a hypothesis on scores.                     *)
THEOREM AdviceFocused == Spec => []AdviceIsFocused
<1>1. Produced => AdviceIsFocused
  BY Fields, ActionsFocused DEF Produced, AdviceIsFocused
<1>. QED
  BY <1>1, ProducedStays, PTL

(* The languages of a scan depend on the questions, on the profile by its  *)
(* brand and its language, and each on its own pages.                      *)
LEMMA SameProfile ==
  ASSUME NEW clusters, NEW pages, NEW p, NEW q, p.brand = q.brand, p.language = q.language
  PROVE  ScoreClusters(clusters, pages, p) = ScoreClusters(clusters, pages, q)
  BY DEF ScoreClusters, ScoreCluster

LEMMA SameLanguage ==
  ASSUME NEW clusters, NEW s, NEW t, NEW p, NEW q, p.brand = q.brand, p.language = q.language,
         NEW e \in LanguageCoverage(clusters, s, p), NEW f \in LanguageCoverage(clusters, t, q),
         e.language = f.language, OwnPages(s, e.language) = OwnPages(t, e.language)
  PROVE  e = f
<1>1. PICK l : e = [language |-> l, pages |-> Len(OwnPages(s, l)),
                    score |-> Aggregate(ScoreClusters(clusters, OwnPages(s, l), p))]
  BY DEF LanguageCoverage
<1>2. PICK m : f = [language |-> m, pages |-> Len(OwnPages(t, m)),
                    score |-> Aggregate(ScoreClusters(clusters, OwnPages(t, m), q))]
  BY DEF LanguageCoverage
<1>3. l = m /\ OwnPages(s, l) = OwnPages(t, m)
  BY <1>1, <1>2
<1>. QED
  BY <1>1, <1>2, <1>3, SameProfile

LEMMA LanguagesOf ==
  ASSUME NEW clusters, NEW pages, NEW p
  PROVE  ComputeCoverage(clusters, pages, p).languages = LanguageCoverage(clusters, pages, p)
  BY DEF ComputeCoverage

LEMMA ReadinessOf ==
  ASSUME NEW pages, NEW profile, NEW coverage, NEW meta,
         NEW r, r = ComputeReadiness(pages, profile, coverage, meta)
  PROVE  /\ r.applicable = Applicable(profile)
         /\ r.overall = WeightedMean(ComponentWeights, r.scores, r.applicable)
         /\ \A k \in DOMAIN StageRollups :
              r.stages[k] = WeightedMean(StageRollups[k], r.scores, r.applicable)
  BY DEF ComputeReadiness

(* Pages of one language do not move the coverage of another one.          *)
THEOREM LanguagesKept == Spec => LanguageKept
<1>. DEFINE Step ==
       (/\ scan'.clusters = scan.clusters
        /\ scan'.profile.brand = scan.profile.brand
        /\ scan'.profile.language = scan.profile.language)
       => \A e \in scan.coverage.languages, f \in scan'.coverage.languages :
            /\ e.language = f.language
            /\ OwnPages(scan.pages, e.language) = OwnPages(scan'.pages, e.language)
            => e = f
<1>1. ASSUME Produced, Produced' PROVE Step
  <2>1. scan.coverage.languages = LanguageCoverage(scan.clusters, scan.pages, scan.profile)
    <3>1. scan.coverage = ComputeCoverage(scan.clusters, scan.pages, scan.profile)
      BY <1>1, Fields DEF Produced
    <3>. QED
      BY <3>1, LanguagesOf
  <2>2. scan'.coverage.languages = LanguageCoverage(scan'.clusters, scan'.pages, scan'.profile)
    <3>1. scan'.coverage = ComputeCoverage(scan'.clusters, scan'.pages, scan'.profile)
      BY <1>1, Fields DEF Produced
    <3>. QED
      BY <3>1, LanguagesOf
  <2>. QED
    BY <2>1, <2>2, SameLanguage
<1>. QED
  BY <1>1, ProducedStays, PTL DEF LanguageKept

(***************************************************************************)
(* With scores that are scores.                                            *)
(***************************************************************************)
LEMMA WeightInt ==
  ASSUME NEW x \in Score, NEW y \in Score
  PROVE  Most(3000, x) * (10000 - y) \in Int
<1>1. x \in Int /\ y \in Int
  BY DEF Score
<1>2. Most(3000, x) \in Int
  BY <1>1 DEF Most
<1>3. 10000 - y \in Int
  BY <1>1
<1>. QED
  BY <1>2, <1>3

LEMMA PriorityInt ==
  ASSUME NEW r, NEW component, r.scores[component] \in Score, r.confidence \in Score,
         NEW impact \in Int, NEW effort \in 1..3
  PROVE  Priority(r, component, impact, effort) \in Int
<1>. DEFINE weight == Most(3000, r.confidence) * (10000 - r.scores[component])
<1>1. weight \in Int
  BY WeightInt
<1>. HIDE DEF weight
<1>2. RoundDiv(weight, 10000) \in Int
  BY <1>1 DEF RoundDiv
<1>3. ASSUME NEW gap \in Int PROVE RoundDiv(impact * gap, 100 * effort) \in Int
  <2>1. impact * gap \in Int
    OBVIOUS
  <2>2. 100 * effort \in {100, 200, 300}
    OBVIOUS
  <2>3. ASSUME NEW x \in Int, NEW y \in {100, 200, 300} PROVE RoundDiv(x, y) \in Int
    BY DEF RoundDiv
  <2>. QED
    BY <2>1, <2>2, <2>3
<1>. QED
  BY <1>2, <1>3 DEF Priority, weight

(* What a priority is computed from. *)
Measured(r) == Numbers(r.scores) /\ r.confidence \in Score

(* Deduplication keeps an action of every rule that fired.                 *)
LEMMA ActionKept ==
  ASSUME NEW r, Measured(r), NEW pages, NEW profile, NEW coverage, NEW rules,
         rules = RuleActions(r, pages, profile, coverage),
         NEW a \in rules \cup FallbackActions(r, rules)
  PROVE  a \in ComputeActions(r, pages, profile, coverage)
<1>1. a.priority \in Int
  <2>1. Weighed(a, r)
    <3>1. CASE a \in Others(r, pages, profile, coverage)
      BY <3>1, OfOthers
    <3>2. CASE a \in Rdy002B(r, pages, profile)
      BY <3>2, OfOffer DEF Weighed, Act, ComponentNames
    <3>3. CASE a \in FallbackActions(r, rules)
      <4>1. PICK f \in Fallbacks : a = Act(r, f.rule, f.rule, f.category, f.component, 60, 3)
        BY <3>3, OfFallbacks
      <4>2. f.component \in ComponentNames
        BY DEF Fallbacks, ComponentNames
      <4>. QED
        BY <4>1, <4>2 DEF Weighed, Act
    <3>. QED
      BY <3>1, <3>2, <3>3 DEF RuleActions, Others
  <2>. QED
    BY <2>1, PriorityInt DEF Weighed, Measured, Numbers
<1>2. \A b \in rules \cup FallbackActions(r, rules) : b.family = a.family => b = a
  BY OneAFamily
<1>3. a.priority <= a.priority
  BY <1>1
<1>. QED
  BY <1>2, <1>3 DEF ComputeActions, Deduplicated

LEMMA WeakAnswered ==
  ASSUME NEW r, Measured(r), NEW pages, NEW profile, NEW coverage,
         r.applicable = Applicable(profile),
         NEW c \in r.applicable, r.scores[c] < Good
  PROVE  \E a \in ComputeActions(r, pages, profile, coverage) : a.category = CategoryOf[c]
<1>. DEFINE rules == RuleActions(r, pages, profile, coverage)
<1>1. ASSUME NEW a \in rules \cup FallbackActions(r, rules), a.category = CategoryOf[c]
      PROVE  \E b \in ComputeActions(r, pages, profile, coverage) : b.category = CategoryOf[c]
  BY <1>1, ActionKept
<1>2. CASE c = "offer_clarity"
  <2>1. profile.siteType \notin NonCommercial
    BY <1>2 DEF Applicable
  <2>2. ASSUME NEW a \in Rdy002(r, pages, profile) \cup Rdy002B(r, pages, profile)
        PROVE  a \in rules /\ a.category = "offer"
    <3>1. a \in rules
      BY DEF RuleActions, ActionsV1
    <3>2. a.category = "offer"
      BY DEF Rdy002, Rdy002B, When, Act
    <3>. QED
      BY <3>1, <3>2
  <2>3. Rdy002(r, pages, profile) # {} \/ Rdy002B(r, pages, profile) # {}
    BY <1>2, <2>1 DEF Rdy002B, When, Good
  <2>4. CategoryOf[c] = "offer"
    BY <1>2 DEF CategoryOf
  <2>. QED
    BY <1>1, <2>2, <2>3, <2>4
<1>3. CASE c # "offer_clarity"
  <2>1. PICK f \in Fallbacks : f.component = c /\ f.category = CategoryOf[c]
    <3>1. c \in ComponentNames
      BY DEF Applicable
    <3>. QED
      BY <1>3, <3>1 DEF Fallbacks, CategoryOf, ComponentNames
  <2>2. CASE \E a \in rules : a.category = f.category
    BY <1>1, <2>1, <2>2
  <2>3. CASE \A a \in rules : a.category # f.category
    <3>. DEFINE a == Act(r, f.rule, f.rule, f.category, f.component, 60, 3)
    <3>1. a \in FallbackActions(r, rules)
      BY <2>1, <2>3 DEF FallbackActions
    <3>2. a.category = CategoryOf[c]
      BY <2>1 DEF Act
    <3>. QED
      BY <1>1, <3>1, <3>2
  <2>. QED
    BY <2>2, <2>3
<1>. QED
  BY <1>2, <1>3

(***************************************************************************)
(* Every scan: what the steps of the pipeline return is of its type.       *)
(***************************************************************************)
LEMMA OverallIs ==
  ASSUME NEW scores, Numbers(scores), NEW applicable \in Applied
  PROVE  WeightedMean(ComponentWeights, scores, applicable) \in Score
<1>. DEFINE term(k) == Term(ComponentWeights, scores, applicable, k)
            share(k) == Share(ComponentWeights, applicable, k)
            mean == WeightedMean(ComponentWeights, scores, applicable)
<1>1. ASSUME NEW k \in ComponentNames
      PROVE  scores[k] \in Int /\ ComponentWeights[k] \in Nat
  <2>1. scores[k] \in Int
    BY ScoreIs DEF Numbers
  <2>2. ComponentWeights[k] \in Nat
    BY DEF ComponentWeights, ComponentNames
  <2>. QED
    BY <2>1, <2>2
<1>2. ASSUME NEW k \in ComponentNames
      PROVE  term(k) \in Int /\ share(k) \in Nat
  <2>1. PICK a \in Int : a = scores[k]
    BY <1>1
  <2>2. PICK b \in Nat : b = ComponentWeights[k]
    BY <1>1
  <2>3. If(k \in applicable, b * a) \in Int /\ If(k \in applicable, b) \in Nat
    BY DEF If
  <2>. QED
    BY <2>1, <2>2, <2>3 DEF Term, Share
<1>3. share("entity_clarity") = 20 /\ "entity_clarity" \in ComponentNames
  BY DEF Applied, ComponentNames, Share, If, ComponentWeights
<1>4. mean = RoundDiv(Over7(term), Over7(share))
  BY DEF WeightedMean
<1>. HIDE DEF term, share
<1>5. Over7(term) \in Int /\ Over7(share) \in Nat /\ Over7(share) >= 20
  BY <1>2, <1>3 DEF Over7, ComponentNames
<1>6. ASSUME NEW a \in Int, NEW b \in Nat, b >= 20 PROVE RoundDiv(a, b) \in Int
  BY <1>6 DEF RoundDiv
<1>7. mean \in Int
  BY <1>4, <1>5, <1>6
<1>8. Spanned(mean, scores, applicable)
  BY MeanBetween
<1>. HIDE DEF mean
<1>9. \A k \in applicable : scores[k] \in Score
  BY DEF Numbers, Applied
<1>10. PICK k \in applicable, l \in applicable : scores[k] <= mean /\ mean <= scores[l]
  BY <1>8 DEF Spanned
<1>11. 0 <= scores[k] /\ scores[l] <= 10000 /\ scores[k] \in Int /\ scores[l] \in Int
  BY <1>9, ScoreIs
<1>. QED
  BY <1>7, <1>10, <1>11, InScore DEF mean

ScanTyped(r) ==
  /\ r.pages \in Seq(Page) /\ Len(r.pages) <= MaxPages
  /\ r.meta \in Meta /\ ProfileTyped(r.profile)
  /\ r.clusters \in Seq(Clusters) /\ Len(r.clusters) <= MaxClusters
  /\ r.coverage.clusters \in Seq(Results) /\ r.coverage.score \in Score
  /\ r.coverage.clusters = ScoreClusters(r.clusters, r.pages, r.profile)
  /\ r.readiness.applicable = Applicable(r.profile) /\ r.readiness.applicable \in Applied
  /\ Numbers(r.readiness.scores) /\ r.readiness.overall \in Score
  /\ r.readiness.confidence \in Score

LEMMA ConfidenceOf ==
  ASSUME NEW pages, NEW profile, NEW coverage, NEW meta,
         NEW r, r = ComputeReadiness(pages, profile, coverage, meta)
  PROVE  r.confidence = Confidence(pages, profile, coverage, meta)
  BY DEF ComputeReadiness

LEMMA ScanIs ==
  ASSUME NEW s \in Sites, NEW o \in Outcomes, NEW r, r = RunPipeline(s, o)
  PROVE  ScanTyped(r)
<1>1. r.pages \in Seq(Page) /\ Len(r.pages) <= MaxPages /\ r.meta \in Meta
  BY Fields, ReadIs, CrawlMetaIs
<1>2. ProfileTyped(r.profile)
  BY <1>1, Fields, ProfileIs
<1>3. r.clusters \in Seq(Clusters) /\ Len(r.clusters) <= MaxClusters
  BY <1>2, Fields, ClustersAre
<1>4. /\ r.coverage.clusters \in Seq(Results) /\ r.coverage.score \in Score
      /\ r.coverage.clusters = ScoreClusters(r.clusters, r.pages, r.profile)
  BY <1>1, <1>2, <1>3, Fields, CoverageIs
<1>5. r.readiness = ComputeReadiness(r.pages, r.profile, r.coverage, r.meta)
  BY Fields
<1>6. r.coverage.score \in Int
  BY <1>4, ScoreIs
<1>7. Numbers(r.readiness.scores)
  BY <1>1, <1>2, <1>5, <1>6, ScoresAre DEF Numbers
<1>8. r.readiness.applicable = Applicable(r.profile) /\ r.readiness.applicable \in Applied
  BY <1>5, ReadinessOf DEF Applicable, Applied
<1>9. r.readiness.overall \in Score
  BY <1>5, <1>7, <1>8, ReadinessOf, OverallIs
<1>10. r.readiness.confidence \in Score
  BY <1>1, <1>2, <1>4, <1>5, ConfidenceOf, ConfidenceIs
<1>. QED
  BY <1>1, <1>2, <1>3, <1>4, <1>7, <1>8, <1>9, <1>10 DEF ScanTyped

LEMMA ProducedTyped == Produced => ScanTyped(scan)
  BY ScanIs DEF Produced

(* Every score, alignment and confidence of a scan is a score, and a scan  *)
(* asks at most MaxClusters questions.                                     *)
THEOREM TypeCorrect == Spec => []TypeOK
<1>1. Produced /\ site \in Sites => TypeOK
  <2>. SUFFICES ASSUME Produced, site \in Sites PROVE TypeOK
    OBVIOUS
  <2>1. ScanTyped(scan)
    BY ProducedTyped
  <2>2. ASSUME NEW i \in DOMAIN scan.coverage.clusters
        PROVE  /\ scan.coverage.clusters[i].requirements \in Score
               /\ scan.coverage.clusters[i].alignment \in Score
               /\ scan.coverage.clusters[i].score \in Score
    <3>1. scan.coverage.clusters[i] \in Results
      BY <2>1, Places DEF ScanTyped
    <3>. QED
      BY <3>1 DEF Results
  <2>. QED
    BY <2>1, <2>2 DEF TypeOK, ScanTyped, Numbers
<1>. QED
  BY <1>1, ProducedStays, PTL

(* Invariant 3 of the benchmark: a component that applies and is shown     *)
(* below "Good" has an action of its category.                             *)
THEOREM WeakHasAdvice == Spec => []WeakHasAction
<1>1. Produced => WeakHasAction
  <2>. SUFFICES ASSUME Produced PROVE WeakHasAction
    OBVIOUS
  <2>1. Measured(scan.readiness)
    BY ProducedTyped DEF Measured, ScanTyped
  <2>2. scan.readiness.applicable = Applicable(scan.profile)
    BY ProducedTyped DEF ScanTyped
  <2>3. scan.actions = ComputeActions(scan.readiness, scan.pages, scan.profile, scan.coverage)
    BY Fields DEF Produced
  <2>. QED
    BY <2>1, <2>2, <2>3, WeakAnswered DEF WeakHasAction
<1>. QED
  BY <1>1, ProducedStays, PTL

(* The overall score and the stages lie between the worst and the best of  *)
(* the components that apply.                                              *)
THEOREM OverallIsBetween == Spec => []OverallBetween
<1>1. Produced => OverallBetween
  <2>. SUFFICES ASSUME Produced PROVE OverallBetween
    OBVIOUS
  <2>. DEFINE r == scan.readiness
  <2>0. r = ComputeReadiness(scan.pages, scan.profile, scan.coverage, scan.meta)
    BY Fields DEF Produced
  <2>1. Numbers(r.scores)
    BY ProducedTyped DEF ScanTyped
  <2>3. r.applicable \in Applied
    BY ProducedTyped DEF ScanTyped
  <2>4. r.overall = WeightedMean(ComponentWeights, r.scores, r.applicable)
    BY <2>0, ReadinessOf
  <2>5. \A k \in DOMAIN StageRollups : r.stages[k] = WeightedMean(StageRollups[k], r.scores, r.applicable)
    BY <2>0, ReadinessOf
  <2>6. \A k \in DOMAIN StageRollups : StageRollups[k] \in {RetrievalWeights, CitationWeights, AnswerWeights}
    BY DEF StageRollups
  <2>7. \A w \in {ComponentWeights, RetrievalWeights, CitationWeights, AnswerWeights} :
          Spanned(WeightedMean(w, r.scores, r.applicable), r.scores, r.applicable)
    BY <2>1, <2>3, MeanBetween
  <2>8. \A x : Spanned(x, r.scores, r.applicable) => Spans(x)
    BY DEF Spanned, Spans
  <2>. QED
    BY <2>4, <2>5, <2>6, <2>7, <2>8 DEF OverallBetween
<1>. QED
  BY <1>1, ProducedStays, PTL

(***************************************************************************)
(* The report: at least six components are ranked, so that the best three  *)
(* and the last three are not the same.                                    *)
(***************************************************************************)
Order == <<"entity_clarity", "offer_clarity", "prompt_coverage", "sourceability",
           "structured_data", "evidence_trust", "technical_access">>

LEMMA OrderIs ==
  /\ DOMAIN Order = 1..7 /\ \A i \in 1..7 : Order[i] \in ComponentNames
  /\ \A i, j \in 1..7 : Order[i] = Order[j] => i = j
  /\ \A i \in 1..7 : Order[i] = "offer_clarity" <=> i = 2
<1>1. DOMAIN Order = 1..7
  BY DEF Order
<1>2. /\ Order[1] = "entity_clarity" /\ Order[2] = "offer_clarity" /\ Order[3] = "prompt_coverage"
      /\ Order[4] = "sourceability" /\ Order[5] = "structured_data" /\ Order[6] = "evidence_trust"
      /\ Order[7] = "technical_access"
  BY DEF Order
<1>3. \A i \in 1..7 : i \in {1, 2, 3, 4, 5, 6, 7}
  OBVIOUS
<1>. QED
  BY <1>1, <1>2, <1>3 DEF ComponentNames

RankedPlaces(r) == {i \in DOMAIN Order : Order[i] \in r.applicable}

LEMMA RankedPlacesAre ==
  ASSUME NEW r, r.applicable \in Applied
  PROVE  /\ IsFiniteSet(RankedPlaces(r)) /\ Cardinality(RankedPlaces(r)) >= 6
         /\ Cardinality(RankedPlaces(r)) \in Nat
<1>1. IsFiniteSet(1..7) /\ Cardinality(1..7) = 7
  <2>1. PICK n \in Int : n = 7
    OBVIOUS
  <2>2. PICK m \in Int : m = 1
    OBVIOUS
  <2>3. IsFiniteSet(m..n) /\ Cardinality(m..n) = IF m > n THEN 0 ELSE n - m + 1
    BY FS_Interval
  <2>. QED
    BY <2>1, <2>2, <2>3
<1>2. RankedPlaces(r) = 1..7 \/ RankedPlaces(r) = (1..7) \ {2}
  BY OrderIs DEF RankedPlaces, Applied
<1>3. /\ IsFiniteSet((1..7) \ {2})
      /\ Cardinality((1..7) \ {2}) = Cardinality(1..7) - 1
  <2>1. 2 \in 1..7
    OBVIOUS
  <2>. QED
    BY <1>1, <2>1, FS_RemoveElement
<1>. QED
  BY <1>1, <1>2, <1>3

LEMMA BetterOrders ==
  ASSUME NEW r, Numbers(r.scores)
  PROVE  Orders(Better(r, Order), RankedPlaces(r))
<1>1. \A i \in RankedPlaces(r) : i \in DOMAIN Order /\ i \in Int /\ r.scores[Order[i]] \in Int
  BY OrderIs, ScoreIs DEF RankedPlaces, Numbers
<1>2. ASSUME NEW i \in RankedPlaces(r), NEW j \in RankedPlaces(r)
      PROVE  <<i, j>> \in Better(r, Order) <=>
               \/ r.scores[Order[i]] > r.scores[Order[j]]
               \/ r.scores[Order[i]] = r.scores[Order[j]] /\ i < j
  BY <1>1 DEF Better
<1>. QED
  BY <1>1, <1>2 DEF Orders

LEMMA OrderedIs ==
  ASSUME NEW r, Numbers(r.scores), r.applicable \in Applied
  PROVE  /\ Ordered(r) \in Seq(r.applicable) /\ Len(Ordered(r)) >= 6
         /\ \A i, j \in 1..Len(Ordered(r)) : i < j => Ordered(r)[i] # Ordered(r)[j]
<1>. DEFINE places == SortBy(RankedPlaces(r), Better(r, Order))
            ranked == [i \in DOMAIN places |-> Order[places[i]]]
<1>1. Sorts(places, RankedPlaces(r), Better(r, Order))
  BY RankedPlacesAre, BetterOrders, SortIs
<1>2. Ordered(r) = ranked
  BY DEF Ordered, RankedPlaces, Order
<1>. HIDE DEF places
<1>3. PICK n \in Nat : n = Len(places) /\ n >= 6 /\ DOMAIN places = 1..n
  BY <1>1, RankedPlacesAre, Places DEF Sorts
<1>4. /\ \A i \in 1..n : places[i] \in RankedPlaces(r)
      /\ \A i, j \in 1..n : i < j => places[i] # places[j]
  BY <1>1, <1>3, Places DEF Sorts
<1>5. \A i \in 1..n : ranked[i] = Order[places[i]] /\ places[i] \in 1..7 /\ ranked[i] \in r.applicable
  BY <1>3, <1>4, OrderIs DEF RankedPlaces
<1>6. ranked \in [1..n -> r.applicable]
  BY <1>3, <1>5
<1>. HIDE DEF ranked
<1>7. ASSUME NEW i \in 1..n, NEW j \in 1..n, i < j PROVE ranked[i] # ranked[j]
  <2>1. places[i] # places[j] /\ places[i] \in 1..7 /\ places[j] \in 1..7
    BY <1>4, <1>5, <1>7
  <2>2. Order[places[i]] # Order[places[j]]
    BY <2>1, OrderIs
  <2>. QED
    BY <1>5, <2>2
<1>8. ranked \in Seq(r.applicable) /\ Len(ranked) = n
  BY <1>6, FunctionIsSeq
<1>. QED
  BY <1>2, <1>3, <1>7, <1>8

(* What a slice of a sequence holds. *)
LEMMA Slice ==
  ASSUME NEW V, NEW s \in Seq(V), NEW m \in Nat \ {0}, NEW n \in Nat, n <= Len(s),
         NEW x \in ToSet(SubSeq(s, m, n))
  PROVE  \E k \in 1..Len(s) : m <= k /\ k <= n /\ x = s[k]
<1>. DEFINE part == SubSeq(s, m, n)
<1>1. \A i \in m..n : s[i] \in V
  BY Places
<1>2. /\ part \in Seq(V) /\ Len(part) = IF m <= n THEN n - m + 1 ELSE 0
      /\ \A i \in 1..(n - m + 1) : part[i] = s[m + i - 1]
  BY <1>1, SubSeqProperties
<1>3. x \in ToSet(part)
  OBVIOUS
<1>. HIDE DEF part
<1>4. PICK i \in 1..Len(part) : x = part[i]
  BY <1>2, <1>3, Places
<1>5. i \in Nat /\ 1 <= i /\ m + i - 1 <= n /\ x = s[m + i - 1]
  BY <1>2, <1>4
<1>6. Len(s) \in Nat
  BY Places
<1>. QED
  BY <1>5, <1>6

LEMMA RanksApart ==
  ASSUME NEW r, Numbers(r.scores), r.applicable \in Applied
  PROVE  Strengths(r) \cup Gaps(r) \subseteq r.applicable /\ Strengths(r) \cap Gaps(r) = {}
<1>1. PICK n \in Nat : n = Len(Ordered(r)) /\ n >= 6
  BY OrderedIs, Places
<1>. DEFINE s == Ordered(r)
<1>2. s \in Seq(r.applicable) /\ \A k \in 1..n : s[k] \in r.applicable
  BY <1>1, OrderedIs, Places
<1>3. \A i, j \in 1..n : i < j => s[i] # s[j]
  BY <1>1, OrderedIs
<1>4. /\ \A c \in Strengths(r) : c \in ToSet(SubSeq(s, 1, 3))
      /\ \A c \in Gaps(r) : c \in ToSet(SubSeq(s, n - 2, n))
  BY <1>1 DEF Strengths, Gaps
<1>. HIDE DEF s
<1>5. ASSUME NEW c \in Strengths(r) PROVE \E k \in 1..n : k <= 3 /\ c = s[k]
  <2>1. c \in ToSet(SubSeq(s, 1, 3)) /\ 3 <= Len(s) /\ n = Len(s)
    BY <1>1, <1>4 DEF s
  <2>2. \E k \in 1..Len(s) : 1 <= k /\ k <= 3 /\ c = s[k]
    BY <1>2, <2>1, Slice
  <2>. QED
    BY <2>1, <2>2
<1>6. ASSUME NEW c \in Gaps(r) PROVE \E k \in 1..n : k >= 4 /\ c = s[k]
  <2>1. c \in ToSet(SubSeq(s, n - 2, n)) /\ n <= Len(s) /\ n = Len(s)
    BY <1>1, <1>4 DEF s
  <2>2. PICK m \in Nat \ {0} : m = n - 2 /\ m >= 4
    BY <1>1
  <2>3. c \in ToSet(SubSeq(s, m, n))
    BY <2>1, <2>2
  <2>4. \E k \in 1..Len(s) : m <= k /\ k <= n /\ c = s[k]
    BY <1>2, <2>1, <2>3, Slice
  <2>. QED
    BY <2>1, <2>2, <2>4
<1>. QED
  BY <1>2, <1>3, <1>5, <1>6

(* What the report says of a component agrees with what it says elsewhere: *)
(* with its rank, with its level and with the advice.                      *)
THEOREM ReportIsConsistent == Spec => []ReportAgrees
<1>1. Produced => ReportAgrees
  <2>. SUFFICES ASSUME Produced PROVE ReportAgrees
    OBVIOUS
  <2>. DEFINE r == scan.readiness
  <2>1. /\ Measured(r) /\ r.applicable \in Applied
        /\ r.applicable = Applicable(scan.profile)
    BY ProducedTyped DEF ScanTyped, Measured
  <2>2. /\ scan.actions = ComputeActions(r, scan.pages, scan.profile, scan.coverage)
        /\ scan.report = BuildReport(scan.pages, scan.meta, scan.profile, scan.clusters, r, scan.actions)
    BY Fields DEF Produced
  <2>3. /\ scan.report.strengths = Strengths(r) /\ scan.report.gaps = Gaps(r)
        /\ scan.report.advice = {a.category : a \in scan.actions}
        /\ \A c \in ComponentNames :
             scan.report.levels[c] = IF c \in r.applicable THEN ScoreLevel(r.scores[c]) ELSE "N/A"
    BY <2>2 DEF BuildReport
  <2>4. Strengths(r) \cup Gaps(r) \subseteq r.applicable /\ Strengths(r) \cap Gaps(r) = {}
    BY <2>1, RanksApart DEF Measured
  <2>5. \A c \in r.applicable : c \in ComponentNames /\ r.scores[c] \in Int
    BY <2>1, ScoreIs DEF Applied, Measured, Numbers
  <2>6. \A c \in r.applicable : scan.report.levels[c] = ScoreLevel(r.scores[c])
    BY <2>3, <2>5
  <2>7. \A c \in Strengths(r) : r.scores[c] >= Good
    BY DEF Strengths
  <2>8. ASSUME NEW c \in r.applicable, ScoreLevel(r.scores[c]) \in {"NeedsImprovement", "Weak"}
        PROVE  CategoryOf[c] \in scan.report.advice
    <3>1. r.scores[c] < Good
      BY <2>5, <2>8 DEF ScoreLevel, Good
    <3>2. \E a \in scan.actions : a.category = CategoryOf[c]
      BY <2>1, <2>2, <3>1, WeakAnswered
    <3>. QED
      BY <2>3, <3>2
  <2>. HIDE DEF r
  <2>9. \A c \in r.applicable : ScoreLevel(r.scores[c]) # "N/A"
    BY DEF ScoreLevel
  <2>10. \A c \in Strengths(r) : ScoreLevel(r.scores[c]) \in {"Good", "Strong", "Excellent"}
    BY <2>4, <2>5, <2>7 DEF ScoreLevel, Good
  <2>. QED
    BY <2>3, <2>4, <2>6, <2>8, <2>9, <2>10 DEF ReportAgrees
<1>. QED
  BY <1>1, ProducedStays, PTL

(***************************************************************************)
(* The questions of a scan.                                                *)
(***************************************************************************)
(* A shop is asked about its products, or its list of questions is full.   *)
LEMMA ShopIsAsked ==
  ASSUME NEW p, ProfileTyped(p), p.products # << >>
  PROVE  \E s \in CandidateSpecs(p) : s.intent \in {"comparison", "buying_advice"}
<1>1. CASE p.categories = << >>
  <2>. DEFINE n == p.products[1]
              ev == {Key("product", n)}
              s == Ask("comparison", NoName, NoName, n, NoName, ev)
              asked == {"alternative", "pricing"} \cup (IF n \in Suppressed(p) THEN {} ELSE {"comparison"})
              of(intent) == Ask(intent, NoName, NoName, n, NoName, ev)
  <2>1. n \in ToSet(p.products)
    <3>1. p.products \in Seq(Name) /\ Len(p.products) \in Nat /\ Len(p.products) # 0
      BY Places, EmptySeq DEF ProfileTyped
    <3>2. 1 \in 1..Len(p.products)
      BY <3>1
    <3>3. p.products[1] \in {p.products[i] : i \in 1..Len(p.products)}
      BY <3>2
    <3>. QED
      BY <3>1, <3>3, Places
  <2>2. "comparison" \in asked
    BY <1>1 DEF Suppressed
  <2>3. s \in {of(intent) : intent \in asked}
    BY <2>2
  <2>4. {of(intent) : intent \in asked} \subseteq ProductSpecs(p)
    BY <2>1 DEF ProductSpecs
  <2>5. s.intent = "comparison"
    BY DEF Ask
  <2>6. s \in CandidateSpecs(p)
    BY <2>3, <2>4 DEF CandidateSpecs
  <2>. HIDE DEF s
  <2>. QED
    BY <2>5, <2>6
<1>2. CASE p.categories # << >>
  <2>. DEFINE c == p.categories[1]
              of(n, intent) == Ask(intent, n, NoName, NoName, NoName, {Key("product_category", n)})
              s == of(c, "buying_advice")
  <2>1. c \in ToSet(p.categories)
    <3>1. p.categories \in Seq(Name) /\ Len(p.categories) \in Nat /\ Len(p.categories) # 0
      BY <1>2, Places, EmptySeq DEF ProfileTyped
    <3>2. 1 \in 1..Len(p.categories)
      BY <3>1
    <3>3. p.categories[1] \in {p.categories[i] : i \in 1..Len(p.categories)}
      BY <3>2
    <3>. QED
      BY <3>1, <3>3, Places
  <2>2. s \in CategorySpecs(p)
    <3>1. CategorySpecs(p) = {of(n, intent) : n \in ToSet(p.categories),
                                intent \in {"buying_advice", "category_pricing", "category_discovery"}}
      BY DEF CategorySpecs
    <3>. HIDE DEF of, c
    <3>. QED
      BY <2>1, <3>1
  <2>3. s.intent = "buying_advice"
    BY DEF Ask
  <2>4. s \in CandidateSpecs(p)
    BY <2>2 DEF CandidateSpecs
  <2>. HIDE DEF s
  <2>. QED
    BY <2>3, <2>4
<1>. QED
  BY <1>1, <1>2

(* Dropping the comparisons of what a site only lists never leaves a shop  *)
(* without a question on how its products compare or which to choose,      *)
(* unless the list of questions is full.                                   *)
THEOREM ShopsAreAsked == Spec => []CatalogueIsAsked
<1>1. Produced => CatalogueIsAsked
  <2>. SUFFICES ASSUME Produced, scan.profile.products # << >>, Len(scan.clusters) < MaxClusters
                PROVE  \E i \in DOMAIN scan.clusters :
                         scan.clusters[i].spec.intent \in {"comparison", "buying_advice"}
    BY DEF CatalogueIsAsked
  <2>1. ProfileTyped(scan.profile) /\ scan.clusters = GenerateClusters(scan.profile)
    BY ProducedTyped, Fields DEF ScanTyped, Produced
  <2>2. PICK s \in CandidateSpecs(scan.profile) : s.intent \in {"comparison", "buying_advice"}
    BY <2>1, ShopIsAsked
  <2>3. \E i \in DOMAIN scan.clusters : scan.clusters[i].spec = s
    BY <2>1, ClustersAre
  <2>. QED
    BY <2>2, <2>3
<1>. QED
  BY <1>1, ProducedStays, PTL

(* What is scored is what was asked, and what was asked names something.   *)
LEMMA ScoredIsAsked ==
  ASSUME Produced, NEW i \in DOMAIN scan.coverage.clusters,
         NEW c, c = scan.coverage.clusters[i]
  PROVE  /\ c.cluster.spec \in Specs /\ Concepts(c.cluster.spec) # << >>
         /\ c.alignment = Alignment(c.cluster.spec, scan.pages, scan.profile.language)
<1>1. /\ ScanTyped(scan) /\ scan.clusters = GenerateClusters(scan.profile)
      /\ scan.profile = BuildProfile(scan.pages)
  BY ProducedTyped, Fields DEF Produced
<1>2. ProfileTyped(scan.profile) /\ NamesGiven(scan.profile)
  BY <1>1, ProfileGiven DEF ScanTyped
<1>3. i \in DOMAIN scan.clusters /\ c = ScoreCluster(scan.clusters[i], scan.pages, scan.profile)
  BY <1>1 DEF ScanTyped, ScoreClusters
<1>4. c.cluster = scan.clusters[i] /\ c.alignment = Alignment(scan.clusters[i].spec, scan.pages, scan.profile.language)
  BY <1>3 DEF ScoreCluster
<1>5. scan.clusters[i].spec \in CandidateSpecs(scan.profile)
  BY <1>1, <1>2, <1>3, ClustersAre
<1>6. scan.clusters[i].spec \in Specs
  BY <1>2, <1>5, CandidateSpecsTyped
<1>. QED
  BY <1>2, <1>4, <1>5, <1>6, CandidatesGiven

(* RDY-011 gives advice that can be followed: a question lacks alignment,  *)
(* and no page names all it is about, unless it has one name twice.        *)
THEOREM AdviceIsUseful == Spec => []AdviceCanBeFollowed
<1>1. Produced => AdviceCanBeFollowed
  <2>. SUFFICES ASSUME Produced, NEW a \in scan.actions, a.rule = "RDY-011"
                PROVE  \E i \in DOMAIN scan.coverage.clusters :
                         LET c == scan.coverage.clusters[i] IN
                         /\ c.requirements >= 5000 /\ c.alignment < 5000
                         /\ ~Named(c.cluster.spec) \/ NamedTwice(c.cluster.spec)
    BY DEF AdviceCanBeFollowed
  <2>. DEFINE r == scan.readiness
              rules == RuleActions(r, scan.pages, scan.profile, scan.coverage)
  <2>1. a \in rules \cup FallbackActions(r, rules)
    BY Fields DEF Produced, ComputeActions, Deduplicated
  <2>2. a \in Others(r, scan.pages, scan.profile, scan.coverage)
    <3>1. ASSUME a \in Rdy002B(r, scan.pages, scan.profile) PROVE FALSE
      BY <3>1, OfOffer
    <3>2. ASSUME a \in FallbackActions(r, rules) PROVE FALSE
      BY <3>2, OfFallbacks DEF FallbackRules, Fallbacks
    <3>. QED
      BY <2>1, <3>1, <3>2 DEF RuleActions, Others
  <2>3. PICK i \in DOMAIN scan.coverage.clusters :
          scan.coverage.clusters[i].requirements >= 5000 /\ scan.coverage.clusters[i].alignment < 5000
    <3>1. a \in Rdy011(r, scan.coverage)
      BY <2>2, OfOthers
    <3>. QED
      BY <3>1 DEF Rdy011, When, Some
  <2>. DEFINE c == scan.coverage.clusters[i]
              s == c.cluster.spec
  <2>4. s \in Specs /\ Concepts(s) # << >> /\ c.alignment = Alignment(s, scan.pages, scan.profile.language)
    BY ScoredIsAsked
  <2>5. /\ scan.pages \in Seq(Page) /\ Len(scan.pages) <= MaxPages /\ scan.profile.language \in Supported
    BY ProducedTyped DEF ScanTyped, ProfileTyped
  <2>6. c.alignment \in Int
    <3>1. c.alignment \in Score
      BY <2>4, <2>5, AlignmentIs
    <3>. QED
      BY <3>1, ScoreIs
  <2>7. ASSUME Named(s), ~NamedTwice(s) PROVE FALSE
    <3>1. Len(Concepts(s)) \in Nat /\ Cardinality(ToSet(Concepts(s))) \in Nat
      BY <2>4, ConceptsAre, Places, ElementsFinite, FS_CardinalityType
    <3>2. Len(Concepts(s)) <= Cardinality(ToSet(Concepts(s)))
      BY <2>7, <3>1 DEF NamedTwice
    <3>3. \E k \in DOMAIN scan.pages : NamedOn(s, scan.pages[k])
      BY <2>4, <2>7, <3>2 DEF Named, NamedOn
    <3>4. Alignment(s, scan.pages, scan.profile.language) >= 5000
      BY <2>4, <2>5, <3>3, AlignmentIs
    <3>. QED
      BY <2>3, <2>4, <2>6, <3>4
  <2>. QED
    BY <2>3, <2>7
<1>. QED
  BY <1>1, ProducedStays, PTL

-----------------------------------------------------------------------------
(* Evidence.  When every page is read again, whatever one page has is had  *)
(* by a page, and whatever two pages have is had by two.                   *)
LEMMA CountIs ==
  ASSUME NEW V, NEW s \in Seq(V), NEW I \in SUBSET (1..Len(s))
  PROVE  /\ IsFiniteSet(I) /\ Cardinality(I) \in Nat
         /\ Cardinality(I) >= 1 <=> I # {}
         /\ Cardinality(I) >= 2 <=> \E i, j \in I : i # j
<1>1. IsFiniteSet(I) /\ Cardinality(I) \in Nat
  BY Places, FS_Subset, FS_CardinalityType
<1>2. Cardinality(I) = 0 <=> I = {}
  BY <1>1, FS_EmptySet
<1>3. ASSUME NEW i \in I
      PROVE  /\ Cardinality(I \ {i}) = Cardinality(I) - 1
             /\ Cardinality(I \ {i}) = 0 <=> I \ {i} = {}
  <2>1. IsFiniteSet(I \ {i}) /\ Cardinality(I \ {i}) = Cardinality(I) - 1
    BY <1>1, FS_RemoveElement
  <2>. QED
    BY <2>1, FS_EmptySet
<1>4. CASE I = {}
  BY <1>1, <1>2, <1>4
<1>5. CASE I # {}
  <2>1. PICK i \in I : TRUE
    BY <1>5
  <2>2. Cardinality(I) >= 2 <=> I \ {i} # {}
    <3>1. PICK n \in Nat : n = Cardinality(I)
      BY <1>1
    <3>2. n # 0
      BY <1>2, <1>5, <3>1
    <3>3. n - 1 = 0 <=> I \ {i} = {}
      BY <1>3, <3>1
    <3>4. n >= 2 <=> n - 1 # 0
      BY <3>2
    <3>5. n >= 2 <=> I \ {i} # {}
      BY <3>3, <3>4
    <3>. QED
      BY <3>1, <3>5
  <2>3. (\E j, k \in I : j # k) <=> I \ {i} # {}
    <3>1. ASSUME NEW j \in I, NEW k \in I, j # k PROVE \E l \in I : l # i
      <4>1. CASE j = i
        BY <3>1, <4>1
      <4>2. CASE j # i
        BY <4>2
      <4>. QED
        BY <4>1, <4>2
    <3>2. ASSUME NEW l \in I, l # i PROVE \E j, k \in I : j # k
      BY <3>2
    <3>3. I \ {i} # {} <=> \E l \in I : l # i
      OBVIOUS
    <3>. QED
      BY <3>1, <3>2, <3>3
  <2>. QED
    BY <1>1, <1>2, <1>5, <2>2, <2>3
<1>. QED
  BY <1>4, <1>5

LEMMA AllReadAgain ==
  ASSUME NEW old \in Seq(Page), NEW new \in Seq(Page), ReadAgain(old, new)
  PROVE  \A i \in 1..Len(old) : \E k \in 1..Len(new) : new[k] = old[i]
<1>. SUFFICES ASSUME NEW i \in 1..Len(old)
              PROVE  \E k \in 1..Len(new) : new[k] = old[i]
  OBVIOUS
<1>. DEFINE I == {k \in 1..Len(old) : old[k] = old[i]}
            K == {k \in 1..Len(new) : new[k] = old[i]}
<1>1. i \in I
  OBVIOUS
<1>2. Cardinality(I) <= Cardinality(K)
  <2>1. DOMAIN old = 1..Len(old) /\ DOMAIN new = 1..Len(new) /\ old[i] \in ToSet(old)
    BY Places
  <2>. QED
    BY <2>1 DEF ReadAgain, Count
<1>3. I \in SUBSET (1..Len(old)) /\ K \in SUBSET (1..Len(new))
  OBVIOUS
<1>. HIDE DEF I, K
<1>4. Cardinality(I) >= 1 /\ Cardinality(I) \in Nat
  BY <1>1, <1>3, CountIs
<1>5. Cardinality(K) >= 1
  <2>1. Cardinality(K) \in Nat
    BY <1>3, CountIs
  <2>. QED
    BY <1>2, <1>4, <2>1
<1>6. K # {}
  BY <1>3, <1>5, CountIs
<1>. QED
  BY <1>6 DEF K

LEMMA TwoReadAgain ==
  ASSUME NEW old \in Seq(Page), NEW new \in Seq(Page), ReadAgain(old, new),
         NEW i \in 1..Len(old), NEW j \in 1..Len(old), i # j
  PROVE  \E k, l \in 1..Len(new) : k # l /\ new[k] = old[i] /\ new[l] = old[j]
<1>1. CASE old[i] # old[j]
  <2>1. PICK k \in 1..Len(new), l \in 1..Len(new) : new[k] = old[i] /\ new[l] = old[j]
    BY AllReadAgain
  <2>. QED
    BY <1>1, <2>1
<1>2. CASE old[i] = old[j]
  <2>. DEFINE I == {k \in 1..Len(old) : old[k] = old[i]}
              K == {k \in 1..Len(new) : new[k] = old[i]}
  <2>1. i \in I /\ j \in I
    BY <1>2
  <2>2. Cardinality(I) <= Cardinality(K)
    <3>1. DOMAIN old = 1..Len(old) /\ DOMAIN new = 1..Len(new) /\ old[i] \in ToSet(old)
      BY Places
    <3>. QED
      BY <3>1 DEF ReadAgain, Count
  <2>3. I \in SUBSET (1..Len(old)) /\ K \in SUBSET (1..Len(new))
    OBVIOUS
  <2>. HIDE DEF I, K
  <2>4. Cardinality(I) >= 2 /\ Cardinality(I) \in Nat
    BY <2>1, <2>3, CountIs
  <2>5. Cardinality(K) >= 2
    <3>1. Cardinality(K) \in Nat
      BY <2>3, CountIs
    <3>. QED
      BY <2>2, <2>4, <3>1
  <2>6. \E k, l \in K : k # l
    BY <2>3, <2>5, CountIs
  <2>. QED
    BY <1>2, <2>6 DEF K
<1>. QED
  BY <1>1, <1>2


(* The strength of each signal, for pages that are read again. *)
LEMMA SomeReadAgain ==
  ASSUME NEW old \in Seq(Page), NEW new \in Seq(Page), ReadAgain(old, new)
  PROVE  /\ ToSet(old) \subseteq ToSet(new)
         /\ Types(old) \subseteq Types(new)
         /\ DOMAIN old = 1..Len(old) /\ DOMAIN new = 1..Len(new)
         /\ \A i \in DOMAIN old : \E k \in DOMAIN new : new[k] = old[i]
<1>1. DOMAIN old = 1..Len(old) /\ DOMAIN new = 1..Len(new)
  BY Places
<1>2. \A i \in DOMAIN old : \E k \in DOMAIN new : new[k] = old[i]
  BY <1>1, AllReadAgain
<1>3. Types(old) \subseteq Types(new)
  BY <1>2 DEF Types
<1>4. ToSet(old) \subseteq ToSet(new)
  BY <1>1, <1>2, Places
<1>. QED
  BY <1>1, <1>2, <1>3, <1>4

LEMMA MentionGrows ==
  ASSUME NEW old \in Seq(Page), NEW new \in Seq(Page), ReadAgain(old, new), NEW t
  PROVE  Mention(t, old) <= Mention(t, new)
<1>. DEFINE I == {i \in DOMAIN old : InPage(t, old[i])}
            K == {k \in DOMAIN new : InPage(t, new[k])}
            headed(pages) == \E i \in DOMAIN pages : Heads(t, pages[i])
            marked(pages) == \E i \in DOMAIN pages : InJson(t, pages[i])
            graded(pages, n) == IF t = NoName THEN 0 ELSE IF headed(pages) THEN 10000
                                ELSE IF marked(pages) THEN 8000
                                ELSE IF n >= 2 THEN 6000 ELSE IF n = 1 THEN 4000 ELSE 0
<1>1. Mention(t, old) = graded(old, Cardinality(I)) /\ Mention(t, new) = graded(new, Cardinality(K))
  BY DEF Mention, Count, Some
<1>2. /\ DOMAIN old = 1..Len(old) /\ DOMAIN new = 1..Len(new)
      /\ \A i \in DOMAIN old : \E k \in DOMAIN new : new[k] = old[i]
  BY SomeReadAgain
<1>3. (headed(old) => headed(new)) /\ (marked(old) => marked(new))
  BY <1>2
<1>4. I \in SUBSET (1..Len(old)) /\ K \in SUBSET (1..Len(new))
  BY <1>2
<1>5. I # {} => K # {}
  BY <1>2
<1>6. (\E i, j \in I : i # j) => \E k, l \in K : k # l
  <2>. SUFFICES ASSUME NEW i \in I, NEW j \in I, i # j PROVE \E k, l \in K : k # l
    OBVIOUS
  <2>1. i \in 1..Len(old) /\ j \in 1..Len(old)
    BY <1>2
  <2>2. PICK k \in 1..Len(new), l \in 1..Len(new) : k # l /\ new[k] = old[i] /\ new[l] = old[j]
    BY <2>1, TwoReadAgain
  <2>3. k \in K /\ l \in K
    BY <1>2, <2>2
  <2>. QED
    BY <2>2, <2>3
<1>. HIDE DEF I, K
<1>7. PICK m \in Nat : m = Cardinality(I) /\ (m >= 1 <=> I # {}) /\ (m >= 2 <=> \E i, j \in I : i # j)
  BY <1>4, CountIs
<1>8. PICK n \in Nat : n = Cardinality(K) /\ (n >= 1 <=> K # {}) /\ (n >= 2 <=> \E k, l \in K : k # l)
  BY <1>4, CountIs
<1>9. (m >= 1 => n >= 1) /\ (m >= 2 => n >= 2)
  BY <1>5, <1>6, <1>7, <1>8
<1>10. graded(old, m) <= graded(new, n)
  <2>. HIDE DEF headed, marked
  <2>. QED
    BY <1>3, <1>9
<1>. QED
  BY <1>1, <1>7, <1>8, <1>10

LEMMA DepthGrows ==
  ASSUME NEW old \in Seq(Page), NEW new \in Seq(Page), ReadAgain(old, new), NEW t
  PROVE  Depth(t, old) <= Depth(t, new)
<1>. DEFINE deep(pages) == \E i \in DOMAIN pages :
              pages[i].type \in Dedicated /\ InPage(t, pages[i]) /\ pages[i].length >= 200
            told(pages) == Least(Mention(t, pages), 7000)
<1>1. \A i \in DOMAIN old : \E k \in DOMAIN new : new[k] = old[i]
  BY SomeReadAgain
<1>2. deep(old) => deep(new)
  BY <1>1
<1>3. PICK m \in Int : m = Mention(t, old) /\ m <= 10000
  BY MentionIs, ScoreIs
<1>4. PICK n \in Int : n = Mention(t, new) /\ n <= 10000
  BY MentionIs, ScoreIs
<1>5. m <= n
  BY <1>3, <1>4, MentionGrows
<1>6. told(old) <= told(new) /\ told(old) <= 7000 /\ told(old) \in Int /\ told(new) \in Int
  BY <1>3, <1>4, <1>5 DEF Least
<1>7. told(new) >= 0
  BY MentionIs, ScoreIs DEF Least
<1>8. \A pages : Depth(t, pages) = IF t = NoName THEN 0 ELSE IF deep(pages) THEN 10000 ELSE told(pages)
  BY DEF Depth, Some
<1>. HIDE DEF deep, told
<1>. QED
  BY <1>2, <1>6, <1>7, <1>8

LEMMA ColocationGrows ==
  ASSUME NEW old \in Seq(Page), NEW new \in Seq(Page), ReadAgain(old, new), NEW s, NEW t
  PROVE  Colocation(s, t, old) <= Colocation(s, t, new)
<1>. DEFINE both(pages) == \E i \in DOMAIN pages : InPage(s, pages[i]) /\ InPage(t, pages[i])
            each(pages) == Mention(s, pages) > 0 /\ Mention(t, pages) > 0
<1>1. \A i \in DOMAIN old : \E k \in DOMAIN new : new[k] = old[i]
  BY SomeReadAgain
<1>2. both(old) => both(new)
  BY <1>1
<1>3. each(old) => each(new)
  <2>1. /\ Mention(s, old) \in Int /\ Mention(s, new) \in Int
        /\ Mention(t, old) \in Int /\ Mention(t, new) \in Int
    BY MentionIs, ScoreIs
  <2>2. Mention(s, old) <= Mention(s, new) /\ Mention(t, old) <= Mention(t, new)
    BY MentionGrows
  <2>. QED
    BY <2>1, <2>2
<1>4. \A pages : Colocation(s, t, pages) = IF s = NoName \/ t = NoName THEN 0
                   ELSE IF both(pages) THEN 10000 ELSE IF each(pages) THEN 5000 ELSE 0
  BY DEF Colocation, Some
<1>. HIDE DEF both, each
<1>. QED
  BY <1>2, <1>3, <1>4

LEMMA StrengthsGrow ==
  ASSUME NEW old \in Seq(Page), NEW new \in Seq(Page), ReadAgain(old, new),
         NEW brand, NEW later, brand # NoName => later # NoName
  PROVE  /\ IdentityStrength(old, brand) <= IdentityStrength(new, later)
         /\ PricingStrength(old) <= PricingStrength(new)
         /\ TrustStrength(old) <= TrustStrength(new)
<1>1. /\ Types(old) \subseteq Types(new)
      /\ \A i \in DOMAIN old : \E k \in DOMAIN new : new[k] = old[i]
  BY SomeReadAgain
<1>2. IdentityStrength(old, brand) <= IdentityStrength(new, later)
  <2>. DEFINE told(pages) == Types(pages) \cap {"about", "legal", "contact"} # {}
              graded(p, b) == IF b /\ p THEN 10000 ELSE IF b \/ p THEN IF p THEN 4000 ELSE 6000 ELSE 0
  <2>1. told(old) => told(new)
    BY <1>1
  <2>2. /\ IdentityStrength(old, brand) = graded(told(old), brand # NoName)
        /\ IdentityStrength(new, later) = graded(told(new), later # NoName)
    BY DEF IdentityStrength, Grade
  <2>. HIDE DEF told
  <2>. QED
    BY <2>1, <2>2
<1>3. PricingStrength(old) <= PricingStrength(new)
  <2>1. Some(old, LAMBDA p : InPage({"price"}, p)) => Some(new, LAMBDA p : InPage({"price"}, p))
    BY <1>1 DEF Some
  <2>2. "pricing" \in Types(old) => "pricing" \in Types(new)
    BY <1>1
  <2>. QED
    BY <2>1, <2>2 DEF PricingStrength, Grade
<1>4. TrustStrength(old) <= TrustStrength(new)
  <2>. DEFINE cases(pages) == Types(pages) \cap {"case_study", "reference"} # {}
              legal(pages) == "legal" \in Types(pages)
  <2>1. (cases(old) => cases(new)) /\ (legal(old) => legal(new))
    BY <1>1
  <2>2. \A pages : TrustStrength(pages) = IF cases(pages) /\ legal(pages) THEN 10000
                     ELSE IF cases(pages) \/ legal(pages) THEN 6000 ELSE 0
    BY DEF TrustStrength, Grade
  <2>. HIDE DEF cases, legal
  <2>. QED
    BY <2>1, <2>2
<1>. QED
  BY <1>2, <1>3, <1>4

LEMMA RequirementsGrow ==
  ASSUME NEW old \in Seq(Page), NEW new \in Seq(Page), ReadAgain(old, new),
         NEW brand, NEW later, brand # NoName => later # NoName, NEW c
  PROVE  RequirementsScore(c, old, brand) <= RequirementsScore(c, new, later)
<1>. DEFINE R == Requirements(c.intent)
            before == [r \in R |-> r.weight * Signal(r.signal, c, old, brand)]
            after  == [r \in R |-> r.weight * Signal(r.signal, c, new, later)]
<1>1. IsFiniteSet(R) /\ \A r \in R : r.weight \in Nat /\ r.signal \in Signals
  BY RequirementsBalanced DEF Balanced
<1>2. ASSUME NEW signal \in Signals
      PROVE  Signal(signal, c, old, brand) <= Signal(signal, c, new, later)
  BY MentionGrows, DepthGrows, ColocationGrows, StrengthsGrow DEF Signal, Signals
<1>3. ASSUME NEW r \in R
      PROVE  before[r] \in Int /\ after[r] \in Int /\ before[r] <= after[r]
  <2>1. PICK a \in Int : a = Signal(r.signal, c, old, brand)
    BY <1>1, SignalIs, ScoreIs
  <2>2. PICK b \in Int : b = Signal(r.signal, c, new, later)
    BY <1>1, SignalIs, ScoreIs
  <2>3. a <= b
    BY <1>1, <1>2, <2>1, <2>2
  <2>4. \A w \in Nat : w * a \in Int /\ w * b \in Int /\ w * a <= w * b
    BY <2>3
  <2>5. r.weight \in Nat /\ before[r] = r.weight * a /\ after[r] = r.weight * b
    BY <1>1, <2>1, <2>2
  <2>. QED
    BY <2>4, <2>5
<1>4. /\ RequirementsScore(c, old, brand) = SumFunctionOnSet(before, R) \div 100
      /\ RequirementsScore(c, new, later) = SumFunctionOnSet(after, R) \div 100
  BY DEF RequirementsScore, SumFunction
<1>. HIDE DEF R, before, after
<1>5. Numeric(before, R) /\ Numeric(after, R)
  BY <1>3 DEF Numeric
<1>6. SumFunctionOnSet(before, R) <= SumFunctionOnSet(after, R)
  BY <1>1, <1>3, <1>5, SumLess
<1>7. SumFunctionOnSet(before, R) \in Int /\ SumFunctionOnSet(after, R) \in Int
  BY <1>1, <1>5, SumInt
<1>8. \A a, b \in Int : a <= b => a \div 100 <= b \div 100
  OBVIOUS
<1>. QED
  BY <1>4, <1>6, <1>7, <1>8

LEMMA AskedIs ==
  ASSUME NEW s \in Sites, NEW o \in Outcomes, NEW r, r = RunPipeline(s, o), NEW c \in Asked(r)
  PROVE  c.requirements = RequirementsScore(c.cluster.spec, r.pages, r.profile.brand)
<1>1. ScanTyped(r)
  BY ScanIs
<1>2. PICK i \in DOMAIN r.coverage.clusters : c = r.coverage.clusters[i]
  BY DEF Asked
<1>3. i \in DOMAIN r.clusters /\ c = ScoreCluster(r.clusters[i], r.pages, r.profile)
  BY <1>1, <1>2 DEF ScanTyped, ScoreClusters
<1>. QED
  BY <1>3 DEF ScoreCluster

(* Publishing pages takes no evidence away, of any site and any history:   *)
(* thresholds of counts and shares are only ever crossed upwards.          *)
THEOREM EvidenceIsKept == Spec => EvidenceGrows
<1>. DEFINE Step == (/\ ReadAgain(scan.pages, scan'.pages)
                     /\ scan.profile.brand # NoName => scan'.profile.brand # NoName)
                    => \A c \in Asked(scan), d \in Asked(scan') :
                         c.cluster.spec = d.cluster.spec => c.requirements <= d.requirements
<1>1. ASSUME Produced, Produced' PROVE Step
  <2>1. ScanTyped(scan) /\ ScanTyped(scan')
    BY <1>1, ScanIs DEF Produced
  <2>2. scan.pages \in Seq(Page) /\ scan'.pages \in Seq(Page)
    BY <2>1 DEF ScanTyped
  <2>3. \A c \in Asked(scan) :
          c.requirements = RequirementsScore(c.cluster.spec, scan.pages, scan.profile.brand)
    BY <1>1, AskedIs DEF Produced
  <2>4. \A d \in Asked(scan') :
          d.requirements = RequirementsScore(d.cluster.spec, scan'.pages, scan'.profile.brand)
    BY <1>1, AskedIs DEF Produced
  <2>. QED
    BY <2>2, <2>3, <2>4, RequirementsGrow
<1>. QED
  BY <1>1, ProducedStays, PTL DEF EvidenceGrows

=============================================================================
