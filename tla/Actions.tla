------------------------------ MODULE Actions -------------------------------
(***************************************************************************)
(* compute_actions (methodology v2): what the owner is told to do, one     *)
(* action per family, and build_report: levels, strengths, gaps and how    *)
(* far the report can be trusted.  Texts are left out.                     *)
(***************************************************************************)
EXTENDS Scoring

When(condition, action) == IF condition THEN {action} ELSE {}

(* Priority: impact (hundredths) x confidence x gap / effort, in           *)
(* ten-thousandths.                                                        *)
Priority(r, component, impact, effort) ==
  RoundDiv(impact * RoundDiv(Most(3000, r.confidence) * (10000 - r.scores[component]), 10000),
           100 * effort)
Severity(priority) ==
  IF priority >= 2000 THEN "critical" ELSE IF priority >= 1000 THEN "high"
  ELSE IF priority >= 500 THEN "medium" ELSE "low"
Act(r, rule, family, category, component, impact, effort) ==
  LET priority == Priority(r, component, impact, effort)
  IN [rule |-> rule, family |-> family, category |-> category,
      priority |-> priority, severity |-> Severity(priority)]

Scored(coverage, intent) ==
  Where(coverage.clusters, LAMBDA c : c.cluster.spec.intent = intent)

(***************************************************************************)
(* The rules taken over from v1 (004 and 009 are replaced below).          *)
(***************************************************************************)
Rdy001(r, profile) ==
  When(profile.needsConfirmation \/ r.scores.entity_clarity < 7000,
       Act(r, "RDY-001", "RDY-001", "entity", "entity_clarity", 90, 2))
Rdy002(r, pages, profile) ==
  When(profile.services # << >> /\ Offer(pages, profile).dedicated.strength < 6700,
       Act(r, "RDY-002", "RDY-002", "offer", "offer_clarity", 80, 3))
LocallyWeak(coverage) ==
  LET local == Scored(coverage, "local")
      total == SumFunction([i \in DOMAIN local |-> local[i].score])
  IN local = << >> \/ total < 5000 * Len(local)
Rdy003(r, profile, coverage) ==
  When(profile.locations # << >> /\ LocallyWeak(coverage),
       Act(r, "RDY-003", "RDY-003", "local", "prompt_coverage", 70, 2))
Rdy005(r, pages) ==
  When(r.scores.structured_data < 6000 \/ Structured(pages).organization.strength < 10000,
       Act(r, "RDY-005", "RDY-005", "structured_data", "structured_data", 75, 2))
Rdy006(r, coverage) ==
  When(coverage.clusters # << >> /\ r.scores.prompt_coverage < 6000,
       Act(r, "RDY-006", "RDY-006", "coverage", "prompt_coverage", 85, 3))
Rdy007(r, profile, coverage) ==
  When(Len(profile.services) >= 2 /\ ~Some(Scored(coverage, "combined_service"), LAMBDA c : c.score >= 5000),
       Act(r, "RDY-007", "RDY-007", "offer", "offer_clarity", 50, 3))
Rdy008(r) ==
  When(r.scores.evidence_trust < 6000,
       Act(r, "RDY-008", "RDY-008", "trust", "evidence_trust", 70, 3))
Rdy010(r, pages) ==
  When(Readable(pages) < 6000,
       Act(r, "RDY-010", "RDY-010", "technical", "technical_access", 60, 3))

ActionsV1(r, pages, profile, coverage) ==
  Rdy001(r, profile) \cup Rdy002(r, pages, profile) \cup Rdy003(r, profile, coverage)
    \cup Rdy005(r, pages) \cup Rdy006(r, coverage) \cup Rdy007(r, profile, coverage)
    \cup Rdy008(r) \cup Rdy010(r, pages)

(***************************************************************************)
(* The rules of v2.                                                        *)
(***************************************************************************)
SourceRules == {
  [rule |-> "RDY-004A", signal |-> "quantified",     impact |-> 75],
  [rule |-> "RDY-004B", signal |-> "attribution",    impact |-> 70],
  [rule |-> "RDY-004C", signal |-> "extractability", impact |-> 70],
  [rule |-> "RDY-004D", signal |-> "answers",        impact |-> 70],
  [rule |-> "RDY-012",  signal |-> "freshness",      impact |-> 50],
  [rule |-> "RDY-013",  signal |-> "author",         impact |-> 50] }

(* A signal that does not apply asks for nothing. *)
SourceActions(r, pages) ==
  LET strength(signal) == Sourceability(pages)[signal].strength
  IN {Act(r, s.rule, s.rule, "sourceability", "sourceability", s.impact, 3) :
        s \in {t \in SourceRules : /\ strength(t.signal) # NotApplicable
                                   /\ strength(t.signal) < 5000}}

Rdy011(r, coverage) ==
  When(Some(coverage.clusters, LAMBDA c : c.requirements >= 5000 /\ c.alignment < 5000),
       Act(r, "RDY-011", "RDY-011", "coverage", "prompt_coverage", 80, 3))
Rdy009A(r, pages) ==
  When(pages # << >> /\ UniqueRatio(pages) < 9000,
       Act(r, "RDY-009A", "RDY-009A", "technical", "technical_access", 50, 2))
Rdy014(r, pages) ==
  When(Ratio(pages, LAMBDA p : p.type = "other") > 5000,
       Act(r, "RDY-014", "RDY-014", "technical", "technical_access", 50, 2))

(* An offer that applies and is below "Good" has an action: RDY-002, or    *)
(* this one, of the same family.                                           *)
Rdy002B(r, pages, profile) ==
  When(/\ profile.siteType \notin NonCommercial
       /\ r.scores.offer_clarity < 6500
       /\ Rdy002(r, pages, profile) = {},
       Act(r, "RDY-002B", "RDY-002", "offer", "offer_clarity", 85, 3))

(* So has every other component that applies and is below "Good". *)
Good == 6500
Fallbacks == {
  [component |-> "entity_clarity",   rule |-> "RDY-001B", category |-> "entity"],
  [component |-> "prompt_coverage",  rule |-> "RDY-006B", category |-> "coverage"],
  [component |-> "sourceability",    rule |-> "RDY-004Z", category |-> "sourceability"],
  [component |-> "structured_data",  rule |-> "RDY-005B", category |-> "structured_data"],
  [component |-> "evidence_trust",   rule |-> "RDY-008B", category |-> "trust"],
  [component |-> "technical_access", rule |-> "RDY-010B", category |-> "technical"] }
\* Mutants: another threshold; a fallback beside the rule that fired.
FallbackBelowHalf(r, actions) ==
  {Act(r, f.rule, f.rule, f.category, f.component, 60, 3) :
     f \in {g \in Fallbacks : /\ g.component \in r.applicable
                              /\ r.scores[g.component] < 5000
                              /\ \A a \in actions : a.category # g.category}}
FallbackUnchecked(r, actions) ==
  {Act(r, f.rule, f.rule, f.category, f.component, 60, 3) :
     f \in {g \in Fallbacks : /\ g.component \in r.applicable
                              /\ r.scores[g.component] < Good}}

FallbackActions(r, actions) ==
  {Act(r, f.rule, f.rule, f.category, f.component, 60, 3) :
     f \in {g \in Fallbacks : /\ g.component \in r.applicable
                              /\ r.scores[g.component] < Good
                              /\ \A a \in actions : a.category # g.category}}

RuleActions(r, pages, profile, coverage) ==
  ActionsV1(r, pages, profile, coverage) \cup SourceActions(r, pages)
    \cup Rdy011(r, coverage) \cup Rdy009A(r, pages) \cup Rdy014(r, pages)
    \cup Rdy002B(r, pages, profile)

(* One action a family, that of the highest priority. *)
Deduplicated(actions) ==
  {a \in actions : \A b \in actions : b.family = a.family => b.priority <= a.priority}

ComputeActions(r, pages, profile, coverage) ==
  LET actions == RuleActions(r, pages, profile, coverage)
  IN Deduplicated(actions \cup FallbackActions(r, actions))

(***************************************************************************)
(* The report.                                                             *)
(***************************************************************************)
ScoreLevel(score) ==
  IF score >= 9000 THEN "Excellent" ELSE IF score >= 8000 THEN "Strong"
  ELSE IF score >= Good THEN "Good" ELSE IF score >= 5000 THEN "NeedsImprovement" ELSE "Weak"
ConfidenceBand(score) ==
  IF score >= 8500 THEN "High" ELSE IF score >= 7000 THEN "Moderate" ELSE "Low"

(* The best first; components of one score keep their order. *)
Better(r, order) ==
  {q \in (DOMAIN order) \X (DOMAIN order) :
     \/ r.scores[order[q[1]]] > r.scores[order[q[2]]]
     \/ r.scores[order[q[1]]] = r.scores[order[q[2]]] /\ q[1] < q[2]}

\* Mutant: those that do not apply, too.
OrderedAll(r) ==
  LET order == <<"entity_clarity", "offer_clarity", "prompt_coverage", "sourceability",
                 "structured_data", "evidence_trust", "technical_access">>
      places == SortBy(DOMAIN order, Better(r, order))
  IN [i \in DOMAIN places |-> order[places[i]]]

Ordered(r) ==
  LET order == <<"entity_clarity", "offer_clarity", "prompt_coverage", "sourceability",
                 "structured_data", "evidence_trust", "technical_access">>
      places == SortBy({i \in DOMAIN order : order[i] \in r.applicable}, Better(r, order))
  IN [i \in DOMAIN places |-> order[places[i]]]

Strengths(r) ==
  {c \in ToSet(SubSeq(Ordered(r), 1, 3)) : r.scores[c] >= Good}
Gaps(r) ==
  LET ranked == Ordered(r)
  IN {c \in ToSet(SubSeq(ranked, Len(ranked) - 2, Len(ranked))) : r.scores[c] < 8000}

(* Why there is no question to ask. *)
ClusterNote(clusters, profile) ==
  IF clusters # << >> THEN {}
  ELSE When(profile.brand = NoName, "identity")
         \cup When(profile.services = << >> /\ profile.products = << >>, "offering")

Provisional(pages, meta) ==
  ~meta.homepage \/ meta.blocked \/ ValidRatio(meta) < 8000 \/ pages = << >>

(* The weakest two signals below one half, the strongest two from there. *)
Diagnosis(component) ==
  LET below  == {q \in Applying(component) \X Applying(component) :
                   component[q[1]].strength < component[q[2]].strength}
      ranked == SortBy(Applying(component), below)
  IN [limiting  |-> {k \in ToSet(SubSeq(ranked, 1, 2)) : component[k].strength < 5000},
      strongest |-> {k \in ToSet(SubSeq(ranked, Len(ranked) - 1, Len(ranked))) : component[k].strength >= 5000}]

BuildReport(pages, meta, profile, clusters, r, actions) ==
  [ overall    |-> ScoreLevel(r.overall),
    levels     |-> [c \in ComponentNames |->
                      IF c \in r.applicable THEN ScoreLevel(r.scores[c]) ELSE "N/A"],
    strengths  |-> Strengths(r), gaps |-> Gaps(r),
    stages     |-> [s \in DOMAIN r.stages |-> ScoreLevel(r.stages[s])],
    diagnoses  |-> [offer |-> Diagnosis(Offer(pages, profile)), source |-> Diagnosis(Sourceability(pages))],
    band       |-> ConfidenceBand(r.confidence),
    provisional |-> Provisional(pages, meta),
    note       |-> ClusterNote(clusters, profile),
    advice     |-> {a.category : a \in actions} ]
=============================================================================
