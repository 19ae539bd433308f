------------------------------ MODULE Coverage ------------------------------
(***************************************************************************)
(* How well the pages answer the clusters: the evidence each intent        *)
(* requires, the alignment of a page with a cluster's concepts and         *)
(* prompts, their blend, and the coverage of each language by its own      *)
(* pages.  Strengths count ten-thousandths, scores hundredths of a point.  *)
(***************************************************************************)
EXTENDS Prompts

CONSTANT Ln    \* Ln[n]: the natural logarithm of n in thousandths

(***************************************************************************)
(* Evidence.                                                               *)
(***************************************************************************)
Dedicated == {"service", "product", "pricing", "location", "about"}
JsonNames(n) == {n.name, n.legal, n.alternate, n.country, n.city} \cup n.sellers \cup n.categories

(* A phrase is in a page when one of its texts holds it. *)
InPage(t, p) == \E text \in ToSet(p.title) \cup {p.h1, p.text} \cup p.headings : t \subseteq text
InJson(t, p) == \E n \in ToSet(p.nodes) : \E name \in JsonNames(n) : t \subseteq name
Heads(t, p)  == p.type \in Dedicated /\ (t \subseteq p.h1 \/ \E i \in DOMAIN p.title : t \subseteq p.title[i])

\* Mutant: a share of the pages, where the engine counts them.
MentionByShare(t, pages) ==
  LET n == Count(pages, LAMBDA p : InPage(t, p))
  IN IF t = NoName THEN 0
     ELSE IF Some(pages, LAMBDA p : Heads(t, p)) THEN 10000
     ELSE IF Some(pages, LAMBDA p : InJson(t, p)) THEN 8000
     ELSE IF 2 * n > Len(pages) THEN 6000 ELSE IF n >= 1 THEN 4000 ELSE 0

Mention(t, pages) ==
  LET n == Count(pages, LAMBDA p : InPage(t, p))
  IN IF t = NoName THEN 0
     ELSE IF Some(pages, LAMBDA p : Heads(t, p)) THEN 10000
     ELSE IF Some(pages, LAMBDA p : InJson(t, p)) THEN 8000
     ELSE IF n >= 2 THEN 6000 ELSE IF n = 1 THEN 4000 ELSE 0

Depth(t, pages) ==
  IF t = NoName THEN 0
  ELSE IF Some(pages, LAMBDA p : p.type \in Dedicated /\ InPage(t, p) /\ p.length >= 200) THEN 10000
  ELSE Least(Mention(t, pages), 7000)

Colocation(s, t, pages) ==
  IF s = NoName \/ t = NoName THEN 0
  ELSE IF Some(pages, LAMBDA p : InPage(s, p) /\ InPage(t, p)) THEN 10000
  ELSE IF Mention(s, pages) > 0 /\ Mention(t, pages) > 0 THEN 5000 ELSE 0

Grade(whole, part, strength) == IF whole THEN 10000 ELSE IF part THEN strength ELSE 0

IdentityStrength(pages, brand) ==
  LET page == Types(pages) \cap {"about", "legal", "contact"} # {}
  IN Grade(brand # NoName /\ page, brand # NoName \/ page, IF page THEN 4000 ELSE 6000)
PricingStrength(pages) ==
  Grade("pricing" \in Types(pages), Some(pages, LAMBDA p : InPage({"price"}, p)), 6000)
TrustStrength(pages) ==
  LET cases == Types(pages) \cap {"case_study", "reference"} # {}
      legal == "legal" \in Types(pages)
  IN Grade(cases /\ legal, cases \/ legal, 6000)

(* What each intent requires, in percent; intents of topics and            *)
(* categories require nothing and so score nothing.                        *)
Needs(weight, signal) == [weight |-> weight, signal |-> signal]
Requirements(intent) ==
  CASE intent = "local" ->
         {Needs(30, "mention_service"), Needs(25, "mention_location"),
          Needs(25, "colocation_sl"), Needs(10, "identity"), Needs(10, "depth_service")}
    [] intent = "recommendation" ->
         {Needs(40, "mention_service"), Needs(20, "identity"), Needs(40, "depth_service")}
    [] intent = "category_discovery" ->
         {Needs(45, "mention_service"), Needs(35, "depth_service"), Needs(20, "identity")}
    [] intent = "best_of" ->
         {Needs(40, "mention_service"), Needs(35, "depth_service"), Needs(25, "identity")}
    [] intent = "comparison" ->
         {Needs(45, "mention_product"), Needs(35, "depth_product"), Needs(20, "identity")}
    [] intent = "alternative" ->
         {Needs(50, "mention_product"), Needs(30, "depth_product"), Needs(20, "identity")}
    [] intent = "pricing" ->
         {Needs(50, "pricing"), Needs(30, "mention_product"), Needs(20, "identity")}
    [] intent = "trust" ->
         {Needs(40, "identity"), Needs(40, "trust"), Needs(20, "depth_service")}
    [] intent = "combined_service" ->
         {Needs(50, "colocation_services"), Needs(25, "mention_service"), Needs(25, "mention_product")}
    [] intent = "branded" -> {Needs(50, "identity"), Needs(50, "mention_brand")}
    [] OTHER -> {}

Signal(signal, c, pages, brand) ==
  CASE signal = "mention_service"  -> Mention(c.service, pages)
    [] signal = "mention_location" -> Mention(c.location, pages)
    [] signal = "mention_product"  -> Mention(c.product, pages)
    [] signal = "mention_brand"    -> Mention(c.topic, pages)
    [] signal = "depth_service"    -> Depth(c.service, pages)
    [] signal = "depth_product"    -> Depth(c.product, pages)
    [] signal = "colocation_sl"    -> Colocation(c.service, c.location, pages)
    [] signal = "colocation_services" -> Colocation(c.service, c.product, pages)
    [] signal = "identity"         -> IdentityStrength(pages, brand)
    [] signal = "pricing"          -> PricingStrength(pages)
    [] signal = "trust"            -> TrustStrength(pages)

RequirementsScore(c, pages, brand) ==
  SumFunction([r \in Requirements(c.intent) |-> r.weight * Signal(r.signal, c, pages, brand)]) \div 100

(***************************************************************************)
(* Alignment: concepts by the field that states them, prompt words by      *)
(* field and rarity, concepts on one page.                                 *)
(***************************************************************************)
FieldWeight(words, p) ==
  IF words \subseteq TitleWords(p) \/ words \subseteq p.h1 THEN 10
  ELSE IF words \subseteq UNION p.headings THEN 8
  ELSE IF words \subseteq p.text THEN 5 ELSE 0

Idf(w, pages) == Ln[Len(pages) + 1] - Ln[Count(pages, LAMBDA p : w \in p.text) + 1] + 1000

PromptAlignment(words, p, pages) ==
  LET whole == SumFunction([w \in words |-> Idf(w, pages)])
  IN IF words = {} THEN 0
     ELSE RoundDiv(200 * SumFunction([w \in words |-> Idf(w, pages) * FieldWeight({w}, p)]), whole)

(* The cluster's concepts, one for each field that has one: a service that *)
(* is also the topic is two concepts with one label.                       *)
Concepts(c) == Where(<<c.service, c.product, c.topic, c.location>>, LAMBDA t : t # NoName)
Present(c, p) == {t \in ToSet(Concepts(c)) : FieldWeight(t, p) > 0}

PageAlignment(c, p, pages, lang) ==
  LET total    == Len(Concepts(c))
      present  == Cardinality(Present(c, p))
      strength == [i \in DOMAIN Concepts(c) |-> FieldWeight(Concepts(c)[i], p)]
      together == IF present = 0 THEN 0 ELSE IF total > 1 /\ present = 1 THEN 750 ELSE 1500
  IN   (IF total = 0 THEN 0 ELSE RoundDiv(4000 * present, total)
                                 + RoundDiv(250 * SumFunction(strength), total))
     + PromptAlignment(PromptWords(c, lang), p, pages) + together

(* The places of a sequence of scores, the highest score first. *)
ByScore(score) ==
  SortBy(DOMAIN score, {q \in (DOMAIN score) \X (DOMAIN score) : score[q[1]] > score[q[2]]})

\* Mutant: the weights of the best page and of the best three, swapped.
AlignmentByTopThree(c, pages, lang) ==
  LET score == [i \in DOMAIN pages |-> PageAlignment(c, pages[i], pages, lang)]
      order == ByScore(score)
      top   == SubSeq(order, 1, Least(3, Len(order)))
  IN IF pages = << >> THEN 0
     ELSE RoundDiv(2 * Len(top) * score[order[1]] + 8 * SumFunctionOnSet(score, ToSet(top)),
                   10 * Len(top))

Alignment(c, pages, lang) ==
  LET score == [i \in DOMAIN pages |-> PageAlignment(c, pages[i], pages, lang)]
      order == ByScore(score)
      top   == SubSeq(order, 1, Least(3, Len(order)))
  IN IF pages = << >> THEN 0
     ELSE RoundDiv(8 * Len(top) * score[order[1]] + 2 * SumFunctionOnSet(score, ToSet(top)),
                   10 * Len(top))

(***************************************************************************)
(* The blend, and its average weighted by priority.                        *)
(***************************************************************************)
\* Mutant: weights that do not add up.
BlendHeavy(requirements, alignment) == RoundDiv(70 * requirements + 40 * alignment, 100)

Blend(requirements, alignment) == RoundDiv(70 * requirements + 30 * alignment, 100)

ScoreCluster(c, pages, profile) ==
  LET requirements == RequirementsScore(c.spec, pages, profile.brand)
      alignment    == Alignment(c.spec, pages, profile.language)
  IN [cluster |-> c, requirements |-> requirements, alignment |-> alignment,
      score |-> Blend(requirements, alignment)]

Aggregate(results) ==
  IF results = << >> THEN 0
  ELSE RoundDiv(SumFunction([i \in DOMAIN results |-> results[i].score * results[i].cluster.priority]),
                SumFunction([i \in DOMAIN results |-> results[i].cluster.priority]))

ScoreClusters(clusters, pages, profile) ==
  [i \in DOMAIN clusters |-> ScoreCluster(clusters[i], pages, profile)]

(* A page counts for its own language and region only. *)
OwnPages(pages, l) == Where(pages, LAMBDA p : p.lang = l)

\* Mutant: a region is scored on the pages of its language.
LanguageByBase(clusters, pages, profile) ==
  LET langs == {pages[i].lang : i \in DOMAIN pages} \ {NoLang}
      own(l) == Where(pages, LAMBDA p : p.lang.base = l.base)
  IN IF Cardinality(langs) < 2 \/ clusters = << >> THEN {}
     ELSE {[language |-> l, pages |-> Len(own(l)),
            score |-> Aggregate(ScoreClusters(clusters, own(l), profile))] : l \in langs}

LanguageCoverage(clusters, pages, profile) ==
  LET langs == {pages[i].lang : i \in DOMAIN pages} \ {NoLang}
  IN IF Cardinality(langs) < 2 \/ clusters = << >> THEN {}
     ELSE {[language |-> l, pages |-> Len(OwnPages(pages, l)),
            score |-> Aggregate(ScoreClusters(clusters, OwnPages(pages, l), profile))] : l \in langs}

ComputeCoverage(clusters, pages, profile) ==
  LET results == ScoreClusters(clusters, pages, profile)
  IN [clusters |-> results, score |-> Aggregate(results),
      languages |-> LanguageCoverage(clusters, pages, profile)]
=============================================================================
