------------------------------- MODULE Audit --------------------------------
(***************************************************************************)
(* run_pipeline and build_report: a scan of a site, from the pages that    *)
(* were read to the report, and the scans that follow it while the owner   *)
(* edits the site.  A scan is one synchronous call that keeps nothing of   *)
(* the scans before it, so it is one action; its result is what is stored. *)
(***************************************************************************)
EXTENDS Actions

CONSTANTS Catalogue,    \* the pages an owner may publish, in the order a crawl meets them
          MaxPages,     \* limits.max_pages
          SiteBound     \* pages on a site

(* A logarithm is known of every number of pages a crawl may read, and of  *)
(* one more.                                                               *)
ASSUME CatalogueAssumption == Catalogue \in Seq(Page) /\ MaxPages \in Nat
ASSUME LnAssumption ==
  /\ \A n \in 1..(MaxPages + 1) : Ln[n] \in Int
  /\ \A m, n \in 1..(MaxPages + 1) : m <= n => Ln[m] <= Ln[n]

VARIABLES site,         \* the published pages, as places of the catalogue
          scan          \* the ScanResult of the last scan

vars == <<site, scan>>

Homes == {i \in DOMAIN Catalogue : Catalogue[i].type = "home"}
Sites == {s \in SUBSET DOMAIN Catalogue :
            Cardinality(s) <= SiteBound /\ Cardinality(s \cap Homes) = 1}

(* What can happen to a crawl, besides the limit it may reach: nothing,    *)
(* the start page fails, robots.txt refuses it, a link leads nowhere.      *)
Outcomes == {"clean", "home_error", "home_refused", "dead_link"}

Read(published, outcome) ==
  LET unread == IF outcome \in {"home_error", "home_refused"} THEN Homes ELSE {}
      places == Where([i \in DOMAIN Catalogue |-> i], LAMBDA i : i \in published \ unread)
  IN [i \in 1..Least(MaxPages, Len(places)) |-> Catalogue[places[i]]]

(* The dead link is found last: a crawl at its limit leaves it waiting.    *)
CrawlMeta(published, outcome) ==
  LET pages  == Read(published, outcome)
      failed == \/ outcome = "home_error"
                \/ outcome = "dead_link" /\ Len(pages) < MaxPages
  IN [ requested |-> MaxPages, crawled |-> Len(pages),
       discovered |-> Cardinality(published) + If(outcome = "dead_link", 1),
       errors |-> If(failed, 1),
       homepage |-> outcome \in {"clean", "dead_link"},
       blocked |-> outcome = "home_refused" ]

(* The steps of run_pipeline, from the last to the first: each is given    *)
(* what the steps before it found.                                         *)
Reported(pages, meta, outcome, profile, clusters, coverage, readiness, actions) ==
  [ pages |-> pages, meta |-> meta, outcome |-> outcome, profile |-> profile,
    clusters |-> clusters, coverage |-> coverage, readiness |-> readiness,
    actions |-> actions,
    report |-> BuildReport(pages, meta, profile, clusters, readiness, actions) ]

Advised(pages, meta, outcome, profile, clusters, coverage, readiness) ==
  Reported(pages, meta, outcome, profile, clusters, coverage, readiness,
           ComputeActions(readiness, pages, profile, coverage))

Assessed(pages, meta, outcome, profile, clusters, coverage) ==
  Advised(pages, meta, outcome, profile, clusters, coverage,
          ComputeReadiness(pages, profile, coverage, meta))

Covered(pages, meta, outcome, profile, clusters) ==
  Assessed(pages, meta, outcome, profile, clusters, ComputeCoverage(clusters, pages, profile))

Profiled(pages, meta, outcome, profile) ==
  Covered(pages, meta, outcome, profile, GenerateClusters(profile))

RunPipeline(published, outcome) ==
  LET pages == Read(published, outcome)
  IN  Profiled(pages, CrawlMeta(published, outcome), outcome, BuildProfile(pages))

Init ==
  /\ site \in Sites
  /\ \E outcome \in Outcomes :
       Read(site, outcome) # << >> /\ scan = RunPipeline(site, outcome)

(* The owner publishes or withdraws a page and has the site scanned again. *)
(* A scan that read no page fails and stores nothing.  Bounds: an edit and *)
(* a crawl that did not go well are steps of their own, and such a crawl   *)
(* is repeated before the next edit.                                       *)
Edits == {s \in Sites : Cardinality((s \ site) \cup (site \ s)) <= 1}
Rescan(published, outcome) ==
  /\ published # site => scan.outcome = "clean" /\ outcome = "clean"
  /\ scan.outcome = "clean" \/ outcome = "clean"
  /\ site' = published
  /\ scan' = IF Read(published, outcome) = << >> THEN scan ELSE RunPipeline(published, outcome)

Next == \E published \in Edits, outcome \in Outcomes : Rescan(published, outcome)
Spec == Init /\ [][Next]_vars

-----------------------------------------------------------------------------
Score == 0..10000

(* Every score, alignment and confidence of a result is one of Score, and  *)
(* a scan asks at most MaxClusters questions (compute_readiness clamps,    *)
(* score_clusters and the alignment engine rely on weights that add up).   *)
TypeOK ==
  /\ site \in Sites
  /\ \A c \in ComponentNames : scan.readiness.scores[c] \in Score
  /\ scan.readiness.overall \in Score /\ scan.readiness.confidence \in Score
  /\ scan.coverage.score \in Score
  /\ \A i \in DOMAIN scan.coverage.clusters :
       /\ scan.coverage.clusters[i].requirements \in Score
       /\ scan.coverage.clusters[i].alignment \in Score
       /\ scan.coverage.clusters[i].score \in Score
  /\ Len(scan.clusters) <= MaxClusters

(* Invariant 3 of benchmark/expectations.py: a component that applies and  *)
(* is shown below "Good" has an action of its category, whatever rules     *)
(* fired, were taken for one family or were left to the fallback.          *)
CategoryOf == [ entity_clarity |-> "entity", offer_clarity |-> "offer",
  prompt_coverage |-> "coverage", sourceability |-> "sourceability",
  structured_data |-> "structured_data", evidence_trust |-> "trust",
  technical_access |-> "technical" ]
WeakHasAction ==
  \A c \in scan.readiness.applicable :
    scan.readiness.scores[c] < Good => \E a \in scan.actions : a.category = CategoryOf[c]

(* The docstring of methodology/v2/actions.py: at most one action a        *)
(* family.  And what fills a gap stands alone: no action of a rule has the *)
(* category of a fallback's.                                               *)
FallbackRules == {f.rule : f \in Fallbacks}
AdviceIsFocused ==
  \A a, b \in scan.actions :
    /\ a.family = b.family => a = b
    /\ a.rule \in FallbackRules /\ b.category = a.category => a = b

(* RDY-011 asks the owner to name what a question is about in the title or *)
(* the heading of a page.  No page does so already, unless the question    *)
(* has one name in two of its fields: the engine counts the name twice and *)
(* finds it once, so no page can be aligned with the question in full.     *)
Named(spec) == \E i \in DOMAIN scan.pages : \A t \in ToSet(Concepts(spec)) : FieldWeight(t, scan.pages[i]) = 10
NamedTwice(spec) == Cardinality(ToSet(Concepts(spec))) < Len(Concepts(spec))
AdviceCanBeFollowed ==
  (\E a \in scan.actions : a.rule = "RDY-011") =>
    \E i \in DOMAIN scan.coverage.clusters :
      LET c == scan.coverage.clusters[i] IN
      /\ c.requirements >= 5000 /\ c.alignment < 5000
      /\ ~Named(c.cluster.spec) \/ NamedTwice(c.cluster.spec)

(* The overall score and the stages lie between the worst and the best of  *)
(* the components that apply: one that does not apply neither lifts nor    *)
(* lowers them (compute_readiness and compute_stages renormalise).         *)
Spans(score) ==
  /\ \E c \in scan.readiness.applicable : scan.readiness.scores[c] <= score
  /\ \E c \in scan.readiness.applicable : score <= scan.readiness.scores[c]
OverallBetween ==
  Spans(scan.readiness.overall) /\ \A s \in DOMAIN StageRollups : Spans(scan.readiness.stages[s])

(* What the report says of a component agrees: none is a strength and a    *)
(* gap, one that does not apply is neither, a strength is "Good" and the   *)
(* report has advice for a gap that is not (build_report, compute_actions).*)
ReportAgrees ==
  LET report == scan.report IN
  /\ report.strengths \cap report.gaps = {}
  /\ \A c \in report.strengths \cup report.gaps : report.levels[c] # "N/A"
  /\ \A c \in report.strengths : report.levels[c] \in {"Good", "Strong", "Excellent"}
  /\ \A c \in report.gaps :
       report.levels[c] \in {"NeedsImprovement", "Weak"} => CategoryOf[c] \in report.advice

(* A site that sells things is asked how they compare or which to choose:  *)
(* dropping the comparisons of what a site only lists (generator.py) never *)
(* leaves it without such a question.  Only a list that is full may lack   *)
(* one: there the priorities decide.                                       *)
CatalogueIsAsked ==
  scan.profile.products # << >> /\ Len(scan.clusters) < MaxClusters =>
    \E i \in DOMAIN scan.clusters : scan.clusters[i].spec.intent \in {"comparison", "buying_advice"}

(* Publishing pages takes no evidence away: when every page is read again  *)
(* (two pages may read alike) and the brand stays known, what the pages    *)
(* say for a question that both scans ask only grows (coverage/engine.py). *)
ReadAgain(old, new) ==
  \A p \in ToSet(old) : Count(old, LAMBDA q : q = p) <= Count(new, LAMBDA q : q = p)
Asked(s) == {s.coverage.clusters[i] : i \in DOMAIN s.coverage.clusters}
EvidenceGrows ==
  [][ (/\ ReadAgain(scan.pages, scan'.pages)
       /\ scan.profile.brand # NoName => scan'.profile.brand # NoName)
      => \A c \in Asked(scan), d \in Asked(scan') :
           c.cluster.spec = d.cluster.spec => c.requirements <= d.requirements ]_vars

(* The coverage of a language is that of its own pages: pages of another   *)
(* language do not move it while the questions stay what they are.         *)
LanguageKept ==
  [][ (/\ scan'.clusters = scan.clusters
       /\ scan'.profile.brand = scan.profile.brand
       /\ scan'.profile.language = scan.profile.language)
      => \A e \in scan.coverage.languages, f \in scan'.coverage.languages :
           /\ e.language = f.language
           /\ OwnPages(scan.pages, e.language) = OwnPages(scan'.pages, e.language)
           => e = f ]_vars

-----------------------------------------------------------------------------
(* What a comment says and the code does not do: methodology/v2/           *)
(* actions.py:415-416, "On non-commercial (content/data) sites Offer       *)
(* Clarity is N/A, not weak, so no offer action is emitted".  The rules    *)
(* taken over from v1 look at the services of a site and not at its type.  *)
NoOfferAdvice ==
  scan.profile.siteType \in NonCommercial => \A a \in scan.actions : a.category # "offer"
=============================================================================
