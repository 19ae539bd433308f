------------------------------ MODULE Prompts -------------------------------
(***************************************************************************)
(* generate_clusters: the questions a buyer may ask about the business of  *)
(* a profile, each with a priority that no readiness signal enters.        *)
(* Priorities and weights count ten-thousandths.  A prompt is its words:   *)
(* those of its template and those of what it asks about.                  *)
(***************************************************************************)
EXTENDS Profile

CONSTANTS MaxClusters,    \* QUICK_MAX_CLUSTERS or FULL_MAX_CLUSTERS
          TemplateWords   \* TemplateWords[l]: the content words of the templates of language l
ASSUME TemplatesAssumption == MaxClusters \in Nat /\ TemplateWords \in [Supported -> Name]

(* How central an intent is, and how close to a purchase; hundredths. *)
Relevance == [
  recommendation |-> 100, local |-> 95, category_discovery |-> 90, best_of |-> 85,
  comparison |-> 85, pricing |-> 80, combined_service |-> 80, trust |-> 75,
  alternative |-> 75, branded |-> 40, topic_info |-> 90, buying_advice |-> 92,
  category_pricing |-> 84 ]
CommercialIntent == [
  recommendation |-> 90, local |-> 85, category_discovery |-> 70, best_of |-> 80,
  comparison |-> 80, pricing |-> 80, combined_service |-> 75, trust |-> 60,
  alternative |-> 70, branded |-> 50, topic_info |-> 40, buying_advice |-> 75,
  category_pricing |-> 80 ]

(* A cluster without its priority; two specs with one key are one spec. *)
Ask(intent, topic, service, product, location, evidence) ==
  [intent |-> intent, topic |-> topic, service |-> service, product |-> product,
   location |-> location, evidence |-> evidence]
Key(field, name) == [field |-> field, value |-> name]

ServiceSpecs(p) ==
  UNION {LET ev == {Key("service", s)} IN
         {Ask("category_discovery", s, s, NoName, NoName, ev),
          Ask("recommendation", NoName, s, NoName, NoName, ev)}
         \cup {Ask("local", NoName, s, NoName, l, ev \cup {Key("location", l)}) :
                 l \in ToSet(p.locations)} : s \in ToSet(p.services)}

(* A product the site only lists is not asked to be compared, if there is *)
(* a category to ask about instead.                                       *)
\* Mutant: also without a category.
SuppressedAlways(p) == p.thirdParty

Suppressed(p) == IF p.categories = << >> THEN {} ELSE p.thirdParty

ProductSpecs(p) ==
  UNION {LET ev == {Key("product", s)} IN
         {Ask(intent, NoName, NoName, s, NoName, ev) :
            intent \in {"alternative", "pricing"}
                       \cup (IF s \in Suppressed(p) THEN {} ELSE {"comparison"})} :
         s \in ToSet(p.products)}

CombinedSpecs(p) ==
  IF Len(p.services) < 2 THEN {}
  ELSE {Ask("combined_service", NoName, p.services[1], p.services[2], NoName,
              {Key("service", p.services[1]), Key("service", p.services[2])})}

PrimaryTopic(p) ==
  Head(p.services \o p.categories \o <<p.brand>>)

PrimarySpecs(p) ==
  IF PrimaryTopic(p) = NoName THEN {}
  ELSE {Ask(intent, NoName, PrimaryTopic(p), NoName, NoName, {Key("service", PrimaryTopic(p))}) :
          intent \in {"trust", "best_of"}}

BrandSpecs(p) ==
  IF p.brand = NoName THEN {}
  ELSE {Ask("branded", p.brand, NoName, NoName, NoName, {Key("brand_name", p.brand)})}

CategorySpecs(p) ==
  {Ask(intent, c, NoName, NoName, NoName, {Key("product_category", c)}) :
     c \in ToSet(p.categories), intent \in {"buying_advice", "category_pricing", "category_discovery"}}

TopicSpecs(p) ==
  {Ask("topic_info", t, NoName, NoName, NoName, {Key("topic", t)}) : t \in ToSet(p.topics)}

CandidateSpecs(p) ==
  ServiceSpecs(p) \cup ProductSpecs(p) \cup CombinedSpecs(p) \cup PrimarySpecs(p)
    \cup BrandSpecs(p) \cup CategorySpecs(p) \cup TopicSpecs(p)

(***************************************************************************)
(* Priorities.                                                             *)
(***************************************************************************)
EvidenceStrength(spec, p) ==
  LET found == {e.confidence : e \in {f \in p.evidence : Key(f.field, f.value) \in spec.evidence}}
  IN IF found = {} THEN 5000 ELSE Max(found)

Base(spec, p) ==
    35 * Relevance[spec.intent] + 30 * CommercialIntent[spec.intent]
  + RoundDiv(EvidenceStrength(spec, p), 5)
  + (IF spec.location = NoName THEN 0 ELSE 500)

(* The more clusters of its intent come before it, the less it adds. *)
Diversity(s, ordered) ==
  LET earlier == Cardinality({i \in DOMAIN ordered :
                   /\ ordered[i].intent = s.intent
                   /\ \E j \in DOMAIN ordered : i < j /\ ordered[j] = s})
  IN RoundDiv(1000, 1 + earlier)

PromptWords(spec, lang) ==
  TemplateWords[lang] \cup spec.topic \cup spec.service \cup spec.product \cup spec.location

GenerateClusters(p) ==
  LET specs   == CandidateSpecs(p)
      ordered == SortBy(specs, {q \in specs \X specs : Base(q[1], p) > Base(q[2], p)})
      built   == {[spec |-> s, priority |-> Base(s, p) + Diversity(s, ordered)] : s \in specs}
      ranked  == SortBy(built, {q \in built \X built : q[1].priority > q[2].priority})
  IN SubSeq(ranked, 1, Least(MaxClusters, Len(ranked)))
=============================================================================
