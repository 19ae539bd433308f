------------------------------ MODULE Scoring -------------------------------
(***************************************************************************)
(* compute_readiness (methodology v2): seven components of weighted        *)
(* signals, the calibration curve, the overall score and the three stages  *)
(* over the components that apply, and the confidence of the measurement.  *)
(* Strengths count ten-thousandths, scores hundredths of a point; a signal *)
(* that does not apply leaves the denominator.                             *)
(***************************************************************************)
EXTENDS Coverage

NotApplicable == -1
Sub(weight, strength) == [weight |-> weight, strength |-> strength]
If(condition, strength) == IF condition THEN strength ELSE 0

(* The signals of a component that apply, and its score. *)
Applying(c) == {k \in DOMAIN c : c[k].strength # NotApplicable}
Component(c) ==
  LET weight == SumFunction([k \in Applying(c) |-> c[k].weight])
  IN IF weight = 0 THEN 0
     ELSE RoundDiv(SumFunction([k \in Applying(c) |-> c[k].weight * c[k].strength]), weight)

Ratio(pages, Test(_)) ==
  IF pages = << >> THEN 0 ELSE RoundDiv(10000 * Count(pages, Test), Len(pages))
Has(pages, types) == Types(pages) \cap types # {}
HasCase(pages)    == Has(pages, {"case_study", "reference"})
LinkedTypes(pages) == {ClassifyLink(l) : l \in UNION {ToSet(pages[i].links) : i \in DOMAIN pages}}
HasOrLinked(pages, type) == type \in Types(pages) \cup LinkedTypes(pages)

(* Organizations by their type alone: a business known only by its shape,  *)
(* which the profile accepts, is none here.                                *)
Orgs(pages) == {n \in ToSet(Nodes(pages)) : n.types \cap OrgMarkers # {}}
OrgNamed(pages) == {n.name : n \in Orgs(pages)} \ {NoName}
CoreFields(n) ==
  Cardinality(n.fields \cap {"url", "address"}) + If(n.name # NoName, 1)
    + If(n.fields \cap {"telephone", "email"} # {}, 1)
DedicatedText(pages, length) ==
  Some(pages, LAMBDA p : p.type \in {"service", "product"} /\ p.length >= length)

(***************************************************************************)
(* The components.                                                         *)
(***************************************************************************)
Entity(pages, profile) ==
  LET stated == Count(pages, LAMBDA p : profile.brand # NoName
                        /\ (profile.brand \subseteq p.h1
                            \/ \E i \in DOMAIN p.title : profile.brand \subseteq p.title[i]))
  IN [ brand     |-> Sub(20, If(profile.brand # NoName, 10000)),
       legal     |-> Sub(10, If(profile.legal # NoName, 10000)),
       domain    |-> Sub(15, Jaccard(profile.brand, Domain, 10000)),
       imprint   |-> Sub(15, If(Has(pages, {"about"}), 5000)
                             + If(Has(pages, {"contact", "legal"}), 5000)),
       place     |-> Sub(10, If(profile.countries # {}, 5000) + If(profile.locations # << >>, 5000)),
       aliases   |-> Sub(10, IF profile.needsConfirmation THEN 3000
                             ELSE Most(5000, 10000 - 2000 * Cardinality(profile.aliases))),
       organization |-> Sub(15, If(OrgNamed(pages) # {}, 10000)),
       pages     |-> Sub(5, Least(2, stated) * 5000) ]

Offer(pages, profile) ==
  LET services == Len(profile.services)
      places   == profile.locations # << >>
  IN [ services  |-> Sub(20, RoundDiv(10000 * Least(services, 3), 3)),
       dedicated |-> Sub(20, RoundDiv(10000 * Least(Count(pages, LAMBDA p : p.type \in {"service", "product"}), 3), 3)),
       taxonomy  |-> Sub(15, 2500 * Least(services + Len(profile.products), 4)),
       relation  |-> Sub(15, If(services > 0, IF profile.brand # NoName THEN 10000 ELSE 6000)),
       audience  |-> Sub(10, NotApplicable),
       location  |-> Sub(10, IF places THEN IF services > 0 THEN 10000 ELSE 5000
                             ELSE IF profile.siteType = "local_business" THEN 0 ELSE NotApplicable),
       detail    |-> Sub(10, Grade(DedicatedText(pages, 400), DedicatedText(pages, 200), 5000)) ]

Saturate(total, steps) ==
  LET reached == {s \in steps : total >= s[1]}
  IN IF reached = {} THEN 0 ELSE Max({s[2] : s \in reached})

FigureSteps   == {<<1, 2500>>, <<3, 5000>>, <<6, 7500>>, <<11, 10000>>}
CitationSteps == {<<1, 4000>>, <<2, 7000>>, <<4, 10000>>}
AnswerSteps   == {<<1, 5000>>, <<3, 8000>>, <<6, 10000>>}

(* Figures per thousand words, on the best content page that has words. *)
ContentPages(pages) == Where(pages, LAMBDA p :
  p.type \in {"service", "product", "pricing", "guide", "case_study", "home", "about"} /\ p.words >= 30)
Density(p) == (1000 * p.figures) \div p.words
Quantified(pages) ==
  Max({0} \cup {Saturate(Density(p), FigureSteps) : p \in ToSet(ContentPages(pages))})

(* The age in days of the newest date counts; a date after the measurement *)
(* (a negative age) does not, nor does a missing one.                      *)
TimelyPages(pages) ==
  Where(pages, LAMBDA p : p.type \in {"pricing", "product", "blog", "guide", "case_study"})
Fresh(age) ==
  IF age < 0 THEN 0 ELSE IF age <= 180 THEN 10000 ELSE IF age <= 365 THEN 8000
  ELSE IF age <= 730 THEN 5000 ELSE 2500
Freshness(pages) ==
  IF TimelyPages(pages) = << >> THEN NotApplicable
  ELSE Max({0} \cup {Fresh(p.age) : p \in ToSet(TimelyPages(pages))})

EditorialPages(pages) ==
  Where(pages, LAMBDA p : p.type \in {"blog", "guide", "case_study", "reference"})
Authored(pages) ==
  IF EditorialPages(pages) = << >> THEN NotApplicable
  ELSE Ratio(EditorialPages(pages), LAMBDA p : p.authored)

Citations(pages) == SumFunction([i \in DOMAIN pages |-> pages[i].citations])
Answers(pages)   == SumFunction([i \in DOMAIN pages |-> pages[i].answers])
Structures(pages) == UNION {pages[i].structures : i \in DOMAIN pages}

Sourceability(pages) ==
  LET core == Structures(pages) \cap {"table", "procedure", "definition", "comparison"}
      told == Cardinality(core \ {"table"})
  IN [ quantified     |-> Sub(18, Quantified(pages)),
       attribution    |-> Sub(15, Saturate(Citations(pages), CitationSteps)),
       extractability |-> Sub(15, IF core # {} THEN Least(10000, RoundDiv(10000 * Cardinality(core), 3))
                                  ELSE If("list" \in Structures(pages), 2000)),
       answers        |-> Sub(12, Saturate(Answers(pages), AnswerSteps)),
       freshness      |-> Sub(10, Freshness(pages)),
       author         |-> Sub(8, Authored(pages)),
       depth          |-> Sub(10, If(HasCase(pages), 4000) + If(Quantified(pages) > 0, 3000)
                                  + If(core \cap {"procedure", "definition"} # {}, 3000)),
       explained      |-> Sub(7, RoundDiv(10000 * told, 3)),
       topics         |-> Sub(5, Ratio(pages, LAMBDA p : p.title # << >> /\ p.h1 # NoName /\ p.type # "other")) ]

Structured(pages) ==
  LET types == UNION {n.types : n \in ToSet(Nodes(pages))}
  IN [ organization |-> Sub(25, If(OrgNamed(pages) # {}, 10000)),
       fields    |-> Sub(15, 2500 * Max({0} \cup {CoreFields(n) : n \in Orgs(pages)})),
       offering  |-> Sub(20, If(types \cap {"service", "product"} # {}, 10000)),
       markup    |-> Sub(15, Ratio(pages, LAMBDA p : p.nodes # << >>)),
       canonical |-> Sub(10, Ratio(pages, LAMBDA p : p.canonical)),
       breadcrumbs |-> Sub(5, Grade("breadcrumblist" \in types, Some(pages, LAMBDA p : p.links # << >>), 5000)),
       agreement |-> Sub(10, IF Cardinality(OrgNamed(pages)) > 1 THEN 5000 ELSE 10000) ]

(* Identity and policy pages count when they are linked, the case studies  *)
(* only when they were read.                                               *)
Trust(pages, profile) ==
  LET legal    == HasOrLinked(pages, "legal")
      figures  == Some(pages, LAMBDA p : p.figures > 0)
  IN [ about     |-> Sub(15, If(HasOrLinked(pages, "about"), 10000)),
       contact   |-> Sub(15, If(HasOrLinked(pages, "contact"), 5000) + If(legal, 5000)),
       cases     |-> Sub(15, If(HasCase(pages), 10000)),
       customers |-> Sub(10, If(HasCase(pages), 5000)),
       authors   |-> Sub(10, Grade(OrgNamed(pages) # {}, legal, 5000)),
       dates     |-> Sub(10, If(Some(Nodes(pages), LAMBDA n : "date" \in n.fields), 10000)),
       claims    |-> Sub(15, If(figures, 5000) + If(Citations(pages) > 0, 3000) + If(HasCase(pages), 2000)),
       policies  |-> Sub(5, If(legal, 10000)),
       place     |-> Sub(5, Grade(profile.locations # << >> /\ Cardinality(profile.countries) <= 1,
                                  profile.locations # << >>, 5000)) ]

(***************************************************************************)
(* What the crawl says of itself.                                          *)
(***************************************************************************)
Crawled(meta) ==
  IF meta.requested = 0 THEN If(meta.crawled > 0, 10000)
  ELSE Least(10000, RoundDiv(10000 * meta.crawled, meta.requested))
ValidRatio(meta) ==
  IF meta.crawled + meta.errors = 0 THEN 10000
  ELSE RoundDiv(10000 * meta.crawled, meta.crawled + meta.errors)
UniqueRatio(pages) ==
  IF pages = << >> THEN 0
  ELSE RoundDiv(10000 * Cardinality({pages[i].hash : i \in DOMAIN pages}), Len(pages))
Readable(pages) == Ratio(pages, LAMBDA p : p.length >= 200)

Technical(pages, meta) ==
  [ homepage  |-> Sub(15, If(meta.homepage, 10000)),
    crawlable |-> Sub(20, Crawled(meta)),
    robots    |-> Sub(10, If(~meta.blocked, 10000)),
    canonical |-> Sub(10, Ratio(pages, LAMBDA p : p.canonical)),
    readable  |-> Sub(20, Readable(pages)),
    unique    |-> Sub(10, UniqueRatio(pages)),
    links     |-> Sub(10, Ratio(pages, LAMBDA p : p.links # << >>)),
    responses |-> Sub(5, ValidRatio(meta)) ]

(* A crawl that stopped at its limit with pages left saw a sample only. *)
Completeness(meta) ==
  IF meta.requested > 0 /\ meta.crawled >= meta.requested /\ meta.discovered > meta.crawled
  THEN Least(Crawled(meta), 5000 + RoundDiv(5000 * meta.crawled, meta.discovered))
  ELSE Crawled(meta)

Confidence(pages, profile, coverage, meta) ==
  LET evidence == SumFunction([e \in profile.evidence |-> e.confidence])
      answered == Count(coverage.clusters, LAMBDA r : r.score > 0)
  IN Component([ completeness |-> Sub(30, Completeness(meta)),
       evidence   |-> Sub(25, IF profile.evidence = {} THEN 0
                              ELSE RoundDiv(evidence, Cardinality(profile.evidence))),
       classified |-> Sub(15, Ratio(pages, LAMBDA p : p.type # "other")),
       clusters   |-> Sub(15, IF coverage.clusters = << >> THEN 0
                              ELSE RoundDiv(10000 * answered, Len(coverage.clusters))),
       parsing    |-> Sub(10, IF Some(pages, LAMBDA p : p.nodes # << >>) THEN 10000 ELSE 7000),
       extraction |-> Sub(5, Ratio(pages, LAMBDA p : p.length > 0)) ])

(***************************************************************************)
(* Calibration, overall score and stages.                                  *)
(***************************************************************************)
(* Between two anchors <<x0, y0>> and <<x1, y1>> of the curve. *)
Between(x, x0, y0, x1, y1) == y0 + RoundDiv((y1 - y0) * (x - x0), x1 - x0)
Calibrate(score) ==
  LET x == Most(0, Least(10000, score))
  IN IF x <= 3500 THEN Between(x, 0, 0, 3500, 4000)
     ELSE IF x <= 5500 THEN Between(x, 3500, 4000, 5500, 6400)
     ELSE IF x <= 7000 THEN Between(x, 5500, 6400, 7000, 8300)
     ELSE IF x <= 8500 THEN Between(x, 7000, 8300, 8500, 9400)
     ELSE Between(x, 8500, 9400, 10000, 10000)

ComponentNames == {"entity_clarity", "offer_clarity", "prompt_coverage", "sourceability",
                   "structured_data", "evidence_trust", "technical_access"}
ComponentWeights == [ entity_clarity |-> 20, offer_clarity |-> 20, prompt_coverage |-> 20,
  sourceability |-> 15, structured_data |-> 10, evidence_trust |-> 10, technical_access |-> 5 ]
RetrievalWeights == [ technical_access |-> 30, prompt_coverage |-> 30, entity_clarity |-> 15,
  offer_clarity |-> 15, structured_data |-> 10, sourceability |-> 0, evidence_trust |-> 0 ]
CitationWeights == [ sourceability |-> 30, evidence_trust |-> 25, prompt_coverage |-> 20,
  structured_data |-> 15, entity_clarity |-> 10, offer_clarity |-> 0, technical_access |-> 0 ]
AnswerWeights == [ sourceability |-> 45, prompt_coverage |-> 25, offer_clarity |-> 15,
  structured_data |-> 10, evidence_trust |-> 5, entity_clarity |-> 0, technical_access |-> 0 ]
StageRollups ==
  [retrieval |-> RetrievalWeights, citation |-> CitationWeights, answer |-> AnswerWeights]

(* The weighted mean of the components that apply. *)
Term(weights, scores, applicable, k) == If(k \in applicable, weights[k] * scores[k])
\* Mutant: the weights are not renormalised.
ShareOfAll(weights, applicable, k) == weights[k]

Share(weights, applicable, k) == If(k \in applicable, weights[k])
Over7(f(_)) ==
    f("entity_clarity") + f("offer_clarity") + f("prompt_coverage") + f("sourceability")
  + f("structured_data") + f("evidence_trust") + f("technical_access")
WeightedMean(weights, scores, applicable) ==
  RoundDiv(Over7(LAMBDA k : Term(weights, scores, applicable, k)),
           Over7(LAMBDA k : Share(weights, applicable, k)))

Applicable(profile) ==
  IF profile.siteType \in NonCommercial THEN ComponentNames \ {"offer_clarity"} ELSE ComponentNames

ComputeReadiness(pages, profile, coverage, meta) ==
  LET scores == [ entity_clarity   |-> Calibrate(Component(Entity(pages, profile))),
                  offer_clarity    |-> Calibrate(Component(Offer(pages, profile))),
                  prompt_coverage  |-> Calibrate(coverage.score),
                  sourceability    |-> Calibrate(Component(Sourceability(pages))),
                  structured_data  |-> Calibrate(Component(Structured(pages))),
                  evidence_trust   |-> Calibrate(Component(Trust(pages, profile))),
                  technical_access |-> Calibrate(Component(Technical(pages, meta))) ]
      applicable == Applicable(profile)
  IN [ scores |-> scores, applicable |-> applicable,
       overall |-> WeightedMean(ComponentWeights, scores, applicable),
       stages |-> [s \in DOMAIN StageRollups |-> WeightedMean(StageRollups[s], scores, applicable)],
       confidence |-> Confidence(pages, profile, coverage, meta) ]
=============================================================================
