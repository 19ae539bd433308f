----------------------------- MODULE ScoreProofs ------------------------------
(***************************************************************************)
(* The values that a scan computes, for every site: the pages it reads,    *)
(* the profile, the clusters and their priorities, requirements,           *)
(* alignments, components and confidence.                                  *)
(***************************************************************************)
EXTENDS Audit, SiteProofs

-----------------------------------------------------------------------------
(* Numbers of Score, and small sets of names. *)
LEMMA InScore ==
  ASSUME NEW x \in Int, 0 <= x, x <= 10000
  PROVE  x \in Score
  BY DEF Score

LEMMA ScoreIs ==
  ASSUME NEW x \in Score
  PROVE  x \in Int /\ x \in Nat /\ 0 <= x /\ x <= 10000
  BY DEF Score

LEMMA Three ==
  ASSUME NEW a, NEW b, NEW c
  PROVE  IsFiniteSet({a, b, c})
<1>1. IsFiniteSet({a} \cup {b})
  BY FS_Singleton, FS_Union
<1>2. IsFiniteSet(({a} \cup {b}) \cup {c})
  BY <1>1, FS_Singleton, FS_Union
<1>3. {a, b, c} = ({a} \cup {b}) \cup {c}
  OBVIOUS
<1>. QED
  BY <1>2, <1>3

LEMMA Enumerated ==
  ASSUME NEW a, NEW b, NEW c, NEW d, NEW e, NEW f, NEW g, NEW h, NEW i
  PROVE  IsFiniteSet({a, b, c, d, e, f, g, h, i})
<1>. DEFINE A == {a, b, c}
            D == {d, e, f}
            G == {g, h, i}
<1>1. IsFiniteSet(A) /\ IsFiniteSet(D) /\ IsFiniteSet(G)
  BY Three
<1>2. {a, b, c, d, e, f, g, h, i} \subseteq (A \cup D) \cup G
  OBVIOUS
<1>. HIDE DEF A, D, G
<1>3. IsFiniteSet(A \cup D)
  BY <1>1, FS_Union
<1>4. IsFiniteSet((A \cup D) \cup G)
  BY <1>1, <1>3, FS_Union
<1>. QED
  BY <1>2, <1>4, FS_Subset

-----------------------------------------------------------------------------
(* A component is the mean of its signals: a number when its strengths are *)
(* numbers, and a score when each of them is a score or does not apply.    *)
Rated(q)   == q.weight \in Nat \ {0} /\ q.strength \in Int
Graded(q)  == q.weight \in Nat \ {0} /\ q.strength \in Score \cup {NotApplicable}

LEMMA SubIs ==
  ASSUME NEW w \in Nat \ {0}, NEW s
  PROVE  /\ s \in Int => Rated(Sub(w, s))
         /\ s \in Score \cup {NotApplicable} => Graded(Sub(w, s))
  BY DEF Sub, Rated, Graded

LEMMA IfInt ==
  ASSUME NEW condition, NEW s \in Int
  PROVE  If(condition, s) \in Int
  BY DEF If

LEMMA WholeIs ==
  ASSUME NEW c, IsFiniteSet(DOMAIN c), NEW w, w = [k \in Applying(c) |-> c[k].weight],
         \A k \in DOMAIN c : c[k].weight \in Nat \ {0}
  PROVE  /\ IsFiniteSet(Applying(c))
         /\ SumFunction(w) = SumFunctionOnSet(w, Applying(c))
         /\ SumFunction(w) \in Nat
         /\ Applying(c) # {} => SumFunction(w) # 0
<1>1. IsFiniteSet(Applying(c)) /\ Applying(c) \subseteq DOMAIN c
  BY FS_Subset DEF Applying
<1>2. SumFunction(w) = SumFunctionOnSet(w, Applying(c))
  BY DEF SumFunction
<1>3. \A k \in Applying(c) : w[k] \in Nat \ {0}
  BY <1>1
<1>4. CASE Applying(c) = {}
  BY <1>1, <1>2, <1>4, SumEmpty
<1>5. CASE Applying(c) # {}
  BY <1>1, <1>2, <1>3, <1>5, SumPositive
<1>. QED
  BY <1>1, <1>2, <1>4, <1>5

LEMMA ComponentInt ==
  ASSUME NEW c, IsFiniteSet(DOMAIN c), \A k \in DOMAIN c : Rated(c[k])
  PROVE  Component(c) \in Int
<1>. DEFINE w == [k \in Applying(c) |-> c[k].weight]
            t == [k \in Applying(c) |-> c[k].weight * c[k].strength]
<1>1. /\ IsFiniteSet(Applying(c)) /\ SumFunction(w) \in Nat
  BY WholeIs DEF Rated
<1>2. Numeric(t, Applying(c))
  BY DEF Numeric, Rated, Applying
<1>3. SumFunction(t) = SumFunctionOnSet(t, Applying(c))
  BY DEF SumFunction
<1>4. SumFunction(t) \in Int
  <2>. HIDE DEF t
  <2>. QED
    BY <1>1, <1>2, <1>3, SumInt
<1>5. Component(c) = IF SumFunction(w) = 0 THEN 0 ELSE RoundDiv(SumFunction(t), SumFunction(w))
  BY DEF Component
<1>6. ASSUME NEW a \in Int, NEW b \in Nat, b # 0 PROVE RoundDiv(a, b) \in Int
  BY <1>6 DEF RoundDiv
<1>. HIDE DEF w, t
<1>. QED
  BY <1>1, <1>4, <1>5, <1>6

LEMMA ComponentScore ==
  ASSUME NEW c, IsFiniteSet(DOMAIN c), \A k \in DOMAIN c : Graded(c[k])
  PROVE  Component(c) \in Score
<1>. DEFINE A == Applying(c)
            w == [k \in A |-> c[k].weight]
            t == [k \in A |-> c[k].weight * c[k].strength]
<1>1. IsFiniteSet(A) /\ SumFunction(w) = SumFunctionOnSet(w, A) /\ SumFunction(w) \in Nat
  BY WholeIs DEF Graded
<1>2. \A k \in A : w[k] \in Nat
  BY DEF Graded, Applying
<1>3. ASSUME NEW k \in A
      PROVE  t[k] \in Nat /\ t[k] <= 10000 * w[k]
  <2>1. c[k].weight \in Nat /\ c[k].strength \in Score
    BY DEF Graded, Applying
  <2>2. ASSUME NEW x \in Nat, NEW y \in Score
        PROVE  x * y \in Nat /\ x * y <= 10000 * x
    <3>1. y \in Nat /\ 10000 - y \in Nat
      BY DEF Score
    <3>2. x * y \in Nat /\ x * (10000 - y) \in Nat
      BY <3>1
    <3>3. x * (10000 - y) = 10000 * x - x * y
      BY <3>1
    <3>. QED
      BY <3>1, <3>2, <3>3
  <2>. QED
    BY <2>1, <2>2
<1>4. SumFunction(t) = SumFunctionOnSet(t, A)
  BY DEF SumFunction
<1>5. Component(c) = IF SumFunction(w) = 0 THEN 0 ELSE RoundDiv(SumFunction(t), SumFunction(w))
  BY DEF Component
<1>. HIDE DEF A, w, t
<1>6. SumFunction(t) \in Nat /\ SumFunction(t) <= 10000 * SumFunction(w)
  <2>1. PICK hi \in Nat : hi = 10000
    OBVIOUS
  <2>2. \A k \in A : t[k] \in Nat /\ t[k] <= hi * w[k]
    BY <1>3, <2>1
  <2>3. SumFunctionOnSet(t, A) \in Nat /\ SumFunctionOnSet(t, A) <= hi * SumFunctionOnSet(w, A)
    BY <1>1, <1>2, <2>2, MeanBelow, Zenon
  <2>. QED
    BY <1>1, <1>4, <2>1, <2>3
<1>7. CASE SumFunction(w) # 0
  <2>1. /\ SumFunction(w) \in Nat \ {0} /\ 0 \in Int /\ 10000 \in Int
        /\ SumFunction(t) \in Int /\ 0 * SumFunction(w) <= SumFunction(t)
    BY <1>1, <1>6, <1>7
  <2>2. /\ RoundDiv(SumFunction(t), SumFunction(w)) \in Int
        /\ 0 <= RoundDiv(SumFunction(t), SumFunction(w))
        /\ RoundDiv(SumFunction(t), SumFunction(w)) <= 10000
    BY <1>6, <2>1, RoundDivBetween
  <2>3. Component(c) = RoundDiv(SumFunction(t), SumFunction(w))
    BY <1>5, <1>7
  <2>. QED
    BY <2>2, <2>3, InScore
<1>. QED
  BY <1>5, <1>7, InScore

-----------------------------------------------------------------------------
(* What the signals are made of: shares of the pages, steps, likeness.     *)
Part(s, X) == IF s = << >> THEN 0 ELSE RoundDiv(10000 * Cardinality(X), Len(s))

LEMMA ShareIs ==
  ASSUME NEW a \in Nat, NEW b \in Nat \ {0}, a <= b
  PROVE  RoundDiv(10000 * a, b) \in Score
<1>1. 10000 * a \in Int /\ 0 * b <= 10000 * a /\ 10000 * a <= 10000 * b
  OBVIOUS
<1>2. RoundDiv(10000 * a, b) \in Int /\ 0 <= RoundDiv(10000 * a, b) /\ RoundDiv(10000 * a, b) <= 10000
  BY <1>1, RoundDivBetween
<1>. QED
  BY <1>2, InScore

LEMMA PartIs ==
  ASSUME NEW V, NEW s \in Seq(V), NEW X \in SUBSET DOMAIN s
  PROVE  Part(s, X) \in Score
<1>1. CASE s = << >>
  BY <1>1, InScore DEF Part
<1>2. CASE s # << >>
  <2>1. Len(s) \in Nat /\ Len(s) # 0
    BY <1>2, Places, EmptySeq
  <2>2. Cardinality(X) \in Nat /\ Cardinality(X) <= Len(s)
    BY <2>1, PartCounted
  <2>. QED
    BY <1>2, <2>1, <2>2, ShareIs DEF Part
<1>. QED
  BY <1>1, <1>2

LEMMA JaccardIs ==
  ASSUME NEW a \in Name, NEW b \in Name, NEW whole \in Nat
  PROVE  Jaccard(a, b, whole) \in 0..whole
<1>1. CASE a = {} \/ b = {}
  BY <1>1 DEF Jaccard
<1>2. CASE ~ (a = {} \/ b = {})
  <2>1. /\ a \cap b \in Name /\ a \cup b \in Name /\ a \cup b # {}
        /\ a \cap b \in SUBSET (a \cup b)
    BY <1>2 DEF Name
  <2>. DEFINE n == Cardinality(a \cap b)
              m == Cardinality(a \cup b)
  <2>2. n \in Nat /\ m \in Nat /\ m # 0 /\ n <= m
    BY <2>1, NamesFinite, FS_EmptySet, FS_Subset
  <2>. HIDE DEF n, m
  <2>3. whole * n \in Int /\ 0 * m <= whole * n /\ whole * n <= whole * m
    <3>1. PICK d \in Nat : m = n + d
      <4>1. m - n \in Nat /\ m = n + (m - n)
        BY <2>2
      <4>. QED
        BY <4>1
    <3>2. whole * m = whole * n + whole * d /\ whole * d \in Nat /\ whole * n \in Nat
      BY <2>2, <3>1
    <3>. QED
      BY <2>2, <3>2
  <2>4. 0 \in Int /\ whole \in Int /\ m \in Nat \ {0}
    BY <2>2
  <2>5. /\ RoundDiv(whole * n, m) \in Int
        /\ 0 <= RoundDiv(whole * n, m) /\ RoundDiv(whole * n, m) <= whole
    BY <2>3, <2>4, RoundDivBetween
  <2>6. Jaccard(a, b, whole) = RoundDiv(whole * n, m)
    BY <1>2 DEF Jaccard, n, m
  <2>. QED
    BY <2>4, <2>5, <2>6
<1>. QED
  BY <1>1, <1>2

LEMMA SaturateIs ==
  ASSUME NEW total, NEW steps, IsFiniteSet(steps), \A s \in steps : s[2] \in Score
  PROVE  Saturate(total, steps) \in Score
<1>. DEFINE reached == {s \in steps : total >= s[1]}
            second == [s \in steps |-> s[2]]
            values == {second[s] : s \in reached}
<1>1. IsFiniteSet(reached) /\ reached \subseteq steps
  BY FS_Subset
<1>2. Saturate(total, steps) = IF reached = {} THEN 0 ELSE Max(values)
  <2>1. values = {s[2] : s \in reached}
    OBVIOUS
  <2>. QED
    BY <2>1 DEF Saturate
<1>3. \A s \in reached : second[s] \in Score
  OBVIOUS
<1>. HIDE DEF reached, second
<1>4. IsFiniteSet(values)
  BY <1>1, ImageFinite
<1>5. values \subseteq Score /\ values \subseteq Int
  BY <1>3, ScoreIs
<1>6. reached # {} => values # {}
  OBVIOUS
<1>. HIDE DEF values
<1>7. reached # {} => Max(values) \in Score
  BY <1>4, <1>5, <1>6, MaxIs
<1>. QED
  BY <1>2, <1>7, InScore

(* The largest of 0 and the numbers that a sequence gives. *)
LEMMA LargestIs ==
  ASSUME NEW I, IsFiniteSet(I), NEW f, NEW S \in SUBSET Int, 0 \in S, \A i \in I : f[i] \in S
  PROVE  Max({0} \cup {f[i] : i \in I}) \in S
<1>. DEFINE B == {f[i] : i \in I}
            values == {0} \cup B
<1>1. IsFiniteSet(values)
  <2>1. IsFiniteSet(B)
    BY ImageFinite
  <2>2. IsFiniteSet({0})
    BY FS_Singleton
  <2>. HIDE DEF B
  <2>. QED
    BY <2>1, <2>2, FS_Union
<1>2. values \subseteq S /\ values # {} /\ values \in SUBSET Int
  OBVIOUS
<1>. HIDE DEF values
<1>3. Max(values) \in values
  BY <1>1, <1>2, MaxIs
<1>. QED
  BY <1>2, <1>3 DEF values

-----------------------------------------------------------------------------
(* The components of compute_readiness, of typed pages and profiles.       *)
EvidenceFields == {"legal_name", "product", "service", "language", "country", "location",
                   "product_category", "brand_name"}
Evidences == [field : EvidenceFields, value : Name, confidence : Score]
ProfileTyped(p) ==
  /\ p.brand \in Name /\ p.aliases \in SUBSET Name /\ p.language \in Supported
  /\ p.services \in Seq(Name) /\ p.products \in Seq(Name) /\ p.locations \in Seq(Name)
  /\ p.categories \in Seq(Name) /\ p.topics \in Seq(Name)
  /\ p.evidence \in SUBSET Evidences
Meta == [requested : Nat, crawled : Nat, discovered : Nat, errors : Nat,
         homepage : BOOLEAN, blocked : BOOLEAN]

LEMMA EntityNumber ==
  ASSUME NEW pages \in Seq(Page), NEW profile, ProfileTyped(profile)
  PROVE  Component(Entity(pages, profile)) \in Int
<1>. DEFINE c == Entity(pages, profile)
<1>1. DOMAIN c = {"brand", "legal", "domain", "imprint", "place", "aliases", "organization", "pages"}
  BY DEF Entity
<1>2. IsFiniteSet(DOMAIN c)
  <2>1. IsFiniteSet({"brand", "legal", "domain", "imprint", "place", "aliases", "organization", "pages", "pages"})
    BY Enumerated
  <2>2. DOMAIN c = {"brand", "legal", "domain", "imprint", "place", "aliases", "organization", "pages", "pages"}
    BY <1>1
  <2>. QED
    BY <2>1, <2>2
<1>3. /\ c["brand"] = Sub(20, If(profile.brand # NoName, 10000))
      /\ c["legal"] = Sub(10, If(profile.legal # NoName, 10000))
      /\ c["imprint"] = Sub(15, If(Has(pages, {"about"}), 5000) + If(Has(pages, {"contact", "legal"}), 5000))
      /\ c["place"] = Sub(10, If(profile.countries # {}, 5000) + If(profile.locations # << >>, 5000))
      /\ c["organization"] = Sub(15, If(OrgNamed(pages) # {}, 10000))
  BY DEF Entity
<1>4. \E s \in Int : c["domain"] = Sub(15, s)
  <2>1. PICK whole \in Nat : whole = 10000
    OBVIOUS
  <2>2. profile.brand \in Name /\ Domain \in Name
    BY WordsAssumption DEF ProfileTyped
  <2>3. Jaccard(profile.brand, Domain, whole) \in 0..whole
    BY <2>2, JaccardIs
  <2>4. c["domain"] = Sub(15, Jaccard(profile.brand, Domain, whole))
    BY <2>1 DEF Entity
  <2>. QED
    BY <2>3, <2>4
<1>5. \E s \in Int : c["aliases"] = Sub(10, s)
  <2>1. Cardinality(profile.aliases) \in Nat
    <3>1. profile.aliases \in SUBSET Name
      BY DEF ProfileTyped
    <3>. QED
      BY <3>1, NamesFinite, FS_Subset, FS_CardinalityType
  <2>2. Most(5000, 10000 - 2000 * Cardinality(profile.aliases)) \in Int
    BY <2>1 DEF Most
  <2>3. c["aliases"] = Sub(10, IF profile.needsConfirmation THEN 3000
                               ELSE Most(5000, 10000 - 2000 * Cardinality(profile.aliases)))
    BY DEF Entity
  <2>. QED
    BY <2>2, <2>3
<1>6. \E s \in Int : c["pages"] = Sub(5, s)
  <2>. DEFINE X == {j \in DOMAIN pages : profile.brand # NoName
                     /\ (profile.brand \subseteq pages[j].h1
                         \/ \E i \in DOMAIN pages[j].title : profile.brand \subseteq pages[j].title[i])}
  <2>1. Cardinality(X) \in Nat
    BY PartCounted
  <2>2. c["pages"] = Sub(5, Least(2, Cardinality(X)) * 5000)
    BY DEF Entity, Count
  <2>. HIDE DEF X
  <2>3. Least(2, Cardinality(X)) * 5000 \in Int
    BY <2>1 DEF Least
  <2>. QED
    BY <2>2, <2>3
<1>. HIDE DEF c
<1>7. /\ Rated(c["brand"]) /\ Rated(c["legal"]) /\ Rated(c["imprint"])
      /\ Rated(c["place"]) /\ Rated(c["organization"])
  BY <1>3, SubIs, IfInt
<1>8. \A k \in DOMAIN c : Rated(c[k])
  BY <1>1, <1>4, <1>5, <1>6, <1>7, SubIs
<1>. QED
  BY <1>2, <1>8, ComponentInt DEF c

LEMMA GradeInt ==
  ASSUME NEW whole, NEW part, NEW s \in Int
  PROVE  Grade(whole, part, s) \in Int
  BY DEF Grade

LEMMA OfferNumber ==
  ASSUME NEW pages \in Seq(Page), NEW profile, ProfileTyped(profile)
  PROVE  Component(Offer(pages, profile)) \in Int
<1>. DEFINE c == Offer(pages, profile)
            m == Len(profile.services)
            n == Len(profile.products)
            X == {j \in DOMAIN pages : pages[j].type \in {"service", "product"}}
<1>1. DOMAIN c = {"services", "dedicated", "taxonomy", "relation", "audience", "location", "detail"}
  BY DEF Offer
<1>2. IsFiniteSet(DOMAIN c)
  <2>1. IsFiniteSet({"services", "dedicated", "taxonomy", "relation", "audience", "location", "detail", "detail", "detail"})
    BY Enumerated
  <2>2. DOMAIN c = {"services", "dedicated", "taxonomy", "relation", "audience", "location", "detail", "detail", "detail"}
    BY <1>1
  <2>. QED
    BY <2>1, <2>2
<1>3. m \in Nat /\ n \in Nat /\ Cardinality(X) \in Nat
  BY Places, PartCounted DEF ProfileTyped
<1>4. /\ c["services"] = Sub(20, RoundDiv(10000 * Least(m, 3), 3))
      /\ c["dedicated"] = Sub(20, RoundDiv(10000 * Least(Cardinality(X), 3), 3))
      /\ c["taxonomy"] = Sub(15, 2500 * Least(m + n, 4))
      /\ c["relation"] = Sub(15, If(m > 0, IF profile.brand # NoName THEN 10000 ELSE 6000))
      /\ c["audience"] = Sub(10, NotApplicable)
      /\ c["detail"] = Sub(10, Grade(DedicatedText(pages, 400), DedicatedText(pages, 200), 5000))
  BY DEF Offer, Count
<1>5. c["location"] = Sub(10, IF profile.locations # << >> THEN IF m > 0 THEN 10000 ELSE 5000
                              ELSE IF profile.siteType = "local_business" THEN 0 ELSE NotApplicable)
  BY DEF Offer
<1>. HIDE DEF c, m, n, X
<1>6. /\ RoundDiv(10000 * Least(m, 3), 3) \in Int
      /\ RoundDiv(10000 * Least(Cardinality(X), 3), 3) \in Int
      /\ 2500 * Least(m + n, 4) \in Int
  BY <1>3 DEF RoundDiv, Least
<1>7. NotApplicable \in Int
  BY DEF NotApplicable
<1>8. /\ Rated(c["services"]) /\ Rated(c["dedicated"]) /\ Rated(c["taxonomy"])
      /\ Rated(c["audience"]) /\ Rated(c["location"])
  BY <1>4, <1>5, <1>6, <1>7, SubIs
<1>9. Rated(c["relation"]) /\ Rated(c["detail"])
  BY <1>4, SubIs, IfInt, GradeInt
<1>10. \A k \in DOMAIN c : Rated(c[k])
  BY <1>1, <1>8, <1>9
<1>. QED
  BY <1>2, <1>10, ComponentInt DEF c

LEMMA PageIs ==
  ASSUME NEW p \in Page
  PROVE  /\ p.lang \in Lang /\ p.hreflang \in SUBSET Lang /\ p.title \in Seq(Name) /\ p.h1 \in Name
         /\ p.headings \in SUBSET Name /\ p.siteName \in Name /\ p.text \in Name
         /\ p.city \in Name /\ p.operator \in Name
         /\ p.length \in Nat /\ p.words \in Nat /\ p.figures \in Nat /\ p.citations \in Nat
         /\ p.answers \in Nat /\ p.age \in Int /\ p.nodes \in Seq(Node) /\ p.links \in Seq(Link)
  BY DEF Page

LEMMA NodesTyped ==
  ASSUME NEW pages \in Seq(Page)
  PROVE  Nodes(pages) \in Seq(Node)
<1>. DEFINE ss == [i \in DOMAIN pages |-> pages[i].nodes]
<1>1. \A i \in DOMAIN pages : pages[i].nodes \in Seq(Node)
  BY Places, PageIs
<1>2. ss \in Seq(Seq(Node))
  <2>1. Len(pages) \in Nat /\ DOMAIN pages = 1..Len(pages)
    BY Places
  <2>2. ss \in [1..Len(pages) -> Seq(Node)]
    BY <1>1, <2>1
  <2>. HIDE DEF ss
  <2>. QED
    BY <2>1, <2>2, FunctionIsSeq
<1>3. Nodes(pages) = FlattenSeq(ss)
  BY DEF Nodes, Concat
<1>. HIDE DEF ss
<1>. QED
  BY <1>2, <1>3, FlattenIs

LEMMA StepsAre ==
  ASSUME NEW steps \in {FigureSteps, CitationSteps, AnswerSteps}
  PROVE  IsFiniteSet(steps) /\ \A s \in steps : s[2] \in Score
<1>. DEFINE Step == (1..11) \X Score
<1>1. IsFiniteSet(1..11) /\ IsFiniteSet(Score)
  <2>1. PICK whole \in Int : whole = 10000
    OBVIOUS
  <2>2. PICK few \in Int : few = 11
    OBVIOUS
  <2>3. 0 \in Int /\ 1 \in Int
    OBVIOUS
  <2>4. IsFiniteSet(0..whole) /\ IsFiniteSet(1..few)
    BY <2>3, FS_Interval, Zenon
  <2>. QED
    BY <2>1, <2>2, <2>4 DEF Score
<1>2. IsFiniteSet(Step)
  BY <1>1, FS_Product
<1>4. \A x \in {2500, 4000, 5000, 7000, 7500, 8000, 10000} : x \in Score
  BY DEF Score
<1>5. FigureSteps \subseteq Step
  BY <1>4 DEF FigureSteps
<1>6. CitationSteps \subseteq Step
  BY <1>4 DEF CitationSteps
<1>7. AnswerSteps \subseteq Step
  BY <1>4 DEF AnswerSteps
<1>8. \A s \in Step : s[2] \in Score
  OBVIOUS
<1>. HIDE DEF Step
<1>. QED
  BY <1>2, <1>5, <1>6, <1>7, <1>8, FS_Subset

LEMMA ChosenPages ==
  ASSUME NEW pages \in Seq(Page)
  PROVE  ContentPages(pages) \in Seq(Page) /\ TimelyPages(pages) \in Seq(Page)
         /\ EditorialPages(pages) \in Seq(Page)
<1>. DEFINE X == {i \in DOMAIN pages :
                    /\ pages[i].type \in {"service", "product", "pricing", "guide", "case_study", "home", "about"}
                    /\ pages[i].words >= 30}
            Y == {i \in DOMAIN pages : pages[i].type \in {"pricing", "product", "blog", "guide", "case_study"}}
            Z == {i \in DOMAIN pages : pages[i].type \in {"blog", "guide", "case_study", "reference"}}
<1>1. ContentPages(pages) = Kept(pages, X)
  BY DEF ContentPages, Where, Concat, Kept
<1>2. TimelyPages(pages) = Kept(pages, Y)
  BY DEF TimelyPages, Where, Concat, Kept
<1>3. EditorialPages(pages) = Kept(pages, Z)
  BY DEF EditorialPages, Where, Concat, Kept
<1>. HIDE DEF X, Y, Z
<1>. QED
  BY <1>1, <1>2, <1>3, KeptIs

LEMMA QuantifiedScore ==
  ASSUME NEW pages \in Seq(Page)
  PROVE  Quantified(pages) \in Score
<1>. DEFINE S == ToSet(ContentPages(pages))
            f == [p \in S |-> Saturate(Density(p), FigureSteps)]
<1>1. Quantified(pages) = Max({0} \cup {f[p] : p \in S})
  BY DEF Quantified
<1>2. IsFiniteSet(S)
  BY ChosenPages, ElementsFinite
<1>3. \A p \in S : f[p] \in Score
  BY StepsAre, SaturateIs
<1>4. 0 \in Score /\ Score \in SUBSET Int
  BY DEF Score
<1>. HIDE DEF f, S
<1>. QED
  BY <1>1, <1>2, <1>3, <1>4, LargestIs

LEMMA FreshnessScore ==
  ASSUME NEW pages \in Seq(Page)
  PROVE  Freshness(pages) \in Score \cup {NotApplicable}
<1>. DEFINE S == ToSet(TimelyPages(pages))
            f == [p \in S |-> Fresh(p.age)]
<1>1. Freshness(pages) = IF TimelyPages(pages) = << >> THEN NotApplicable
                         ELSE Max({0} \cup {f[p] : p \in S})
  BY DEF Freshness
<1>2. IsFiniteSet(S)
  BY ChosenPages, ElementsFinite
<1>3. \A p \in S : f[p] \in Score
  <2>1. \A age : Fresh(age) \in Score
    BY DEF Fresh, Score
  <2>. QED
    BY <2>1
<1>4. 0 \in Score /\ Score \in SUBSET Int
  BY DEF Score
<1>. HIDE DEF f, S
<1>. QED
  BY <1>1, <1>2, <1>3, <1>4, LargestIs

LEMMA AuthoredScore ==
  ASSUME NEW pages \in Seq(Page)
  PROVE  Authored(pages) \in Score \cup {NotApplicable}
<1>. DEFINE s == EditorialPages(pages)
            X == {i \in DOMAIN s : s[i].authored}
<1>1. s \in Seq(Page)
  BY ChosenPages
<1>2. Authored(pages) = IF s = << >> THEN NotApplicable ELSE Part(s, X)
  BY DEF Authored, Ratio, Part, Count
<1>. HIDE DEF s
<1>3. Part(s, X) \in Score
  BY <1>1, PartIs
<1>. QED
  BY <1>2, <1>3

LEMMA ScoreInt ==
  ASSUME NEW s \in Score \cup {NotApplicable}
  PROVE  s \in Int
  BY DEF Score, NotApplicable

LEMMA SourceabilityNumber ==
  ASSUME NEW pages \in Seq(Page)
  PROVE  Component(Sourceability(pages)) \in Int
<1>. DEFINE c == Sourceability(pages)
            core == Structures(pages) \cap {"table", "procedure", "definition", "comparison"}
            told == Cardinality(core \ {"table"})
            X == {i \in DOMAIN pages : pages[i].title # << >> /\ pages[i].h1 # NoName /\ pages[i].type # "other"}
<1>1. DOMAIN c = {"quantified", "attribution", "extractability", "answers", "freshness", "author",
                  "depth", "explained", "topics"}
  BY DEF Sourceability
<1>2. IsFiniteSet(DOMAIN c)
  <2>1. IsFiniteSet({"quantified", "attribution", "extractability", "answers", "freshness", "author",
                     "depth", "explained", "topics"})
    BY Enumerated
  <2>. QED
    BY <1>1, <2>1
<1>3. Cardinality(core) \in Nat /\ told \in Nat
  <2>. DEFINE four == {"table", "procedure", "definition", "comparison", "comparison",
                       "comparison", "comparison", "comparison", "comparison"}
  <2>1. IsFiniteSet(four)
    BY Enumerated
  <2>2. core \in SUBSET four /\ core \ {"table"} \in SUBSET four
    OBVIOUS
  <2>. HIDE DEF core, four
  <2>. QED
    BY <2>1, <2>2, FS_Subset, FS_CardinalityType
<1>4. /\ c["quantified"] = Sub(18, Quantified(pages))
      /\ c["attribution"] = Sub(15, Saturate(Citations(pages), CitationSteps))
      /\ c["answers"] = Sub(12, Saturate(Answers(pages), AnswerSteps))
      /\ c["freshness"] = Sub(10, Freshness(pages))
      /\ c["author"] = Sub(8, Authored(pages))
  BY DEF Sourceability
<1>5. /\ c["extractability"] = Sub(15, IF core # {} THEN Least(10000, RoundDiv(10000 * Cardinality(core), 3))
                                      ELSE If("list" \in Structures(pages), 2000))
      /\ c["depth"] = Sub(10, If(HasCase(pages), 4000) + If(Quantified(pages) > 0, 3000)
                             + If(core \cap {"procedure", "definition"} # {}, 3000))
      /\ c["explained"] = Sub(7, RoundDiv(10000 * told, 3))
  BY DEF Sourceability
<1>6. c["topics"] = Sub(5, Part(pages, X))
  BY DEF Sourceability, Ratio, Part, Count
<1>7. Part(pages, X) \in Int
  BY PartIs, ScoreIs
<1>. HIDE DEF c, core, told, X
<1>8. /\ Least(10000, RoundDiv(10000 * Cardinality(core), 3)) \in Int
      /\ RoundDiv(10000 * told, 3) \in Int
  BY <1>3 DEF RoundDiv, Least
<1>9. /\ Saturate(Citations(pages), CitationSteps) \in Int
      /\ Saturate(Answers(pages), AnswerSteps) \in Int
  BY StepsAre, SaturateIs, ScoreIs
<1>10. /\ Rated(c["quantified"]) /\ Rated(c["attribution"]) /\ Rated(c["answers"])
       /\ Rated(c["freshness"]) /\ Rated(c["author"]) /\ Rated(c["topics"])
  BY <1>4, <1>6, <1>7, <1>9, QuantifiedScore, FreshnessScore, AuthoredScore, ScoreInt, SubIs
<1>11. Rated(c["extractability"]) /\ Rated(c["depth"]) /\ Rated(c["explained"])
  BY <1>5, <1>8, IfInt, SubIs
<1>12. \A k \in DOMAIN c : Rated(c[k])
  BY <1>1, <1>10, <1>11
<1>. QED
  BY <1>2, <1>12, ComponentInt DEF c

LEMMA CoreFieldsInt ==
  ASSUME NEW n
  PROVE  CoreFields(n) \in Int
<1>. DEFINE two == {"url", "address"}
            kept == n.fields \cap two
<1>1. IsFiniteSet({"url", "address", "address"})
  BY Three
<1>2. two = {"url", "address", "address"}
  OBVIOUS
<1>3. kept \in SUBSET two
  OBVIOUS
<1>4. Cardinality(kept) \in Nat
  <2>. HIDE DEF two, kept
  <2>. QED
    BY <1>1, <1>2, <1>3, FS_Subset, FS_CardinalityType
<1>5. CoreFields(n) = Cardinality(kept) + If(n.name # NoName, 1)
                        + If(n.fields \cap {"telephone", "email"} # {}, 1)
  BY DEF CoreFields
<1>. HIDE DEF kept
<1>6. If(n.name # NoName, 1) \in Int /\ If(n.fields \cap {"telephone", "email"} # {}, 1) \in Int
  BY IfInt
<1>. QED
  BY <1>4, <1>5, <1>6

LEMMA StructuredNumber ==
  ASSUME NEW pages \in Seq(Page)
  PROVE  Component(Structured(pages)) \in Int
<1>. DEFINE c == Structured(pages)
            types == UNION {n.types : n \in ToSet(Nodes(pages))}
            S == Orgs(pages)
            f == [n \in S |-> CoreFields(n)]
            counts == {CoreFields(n) : n \in S}
            linked == Some(pages, LAMBDA p : p.links # << >>)
            X == {i \in DOMAIN pages : pages[i].nodes # << >>}
            Y == {i \in DOMAIN pages : pages[i].canonical}
<1>1. DOMAIN c = {"organization", "fields", "offering", "markup", "canonical", "breadcrumbs", "agreement"}
  BY DEF Structured
<1>2. IsFiniteSet(DOMAIN c)
  <2>1. IsFiniteSet({"organization", "fields", "offering", "markup", "canonical", "breadcrumbs", "agreement",
                     "agreement", "agreement"})
    BY Enumerated
  <2>. QED
    BY <1>1, <2>1
<1>3. /\ c["organization"] = Sub(25, If(OrgNamed(pages) # {}, 10000))
      /\ c["offering"] = Sub(20, If(types \cap {"service", "product"} # {}, 10000))
      /\ c["agreement"] = Sub(10, IF Cardinality(OrgNamed(pages)) > 1 THEN 5000 ELSE 10000)
  BY DEF Structured
<1>4. c["fields"] = Sub(15, 2500 * Max({0} \cup counts))
  BY DEF Structured
<1>5. c["markup"] = Sub(15, Part(pages, X)) /\ c["canonical"] = Sub(10, Part(pages, Y))
  BY DEF Structured, Ratio, Part, Count
<1>6. c["breadcrumbs"] = Sub(5, Grade("breadcrumblist" \in types, linked, 5000))
  BY DEF Structured
<1>7. Part(pages, X) \in Int /\ Part(pages, Y) \in Int
  BY PartIs, ScoreIs
<1>8. Max({0} \cup counts) \in Int
  <2>1. IsFiniteSet(S)
    <3>1. S \subseteq ToSet(Nodes(pages))
      BY DEF Orgs
    <3>. QED
      BY <3>1, NodesTyped, ElementsFinite, FS_Subset
  <2>2. \A n \in S : f[n] \in Int
    BY CoreFieldsInt
  <2>3. Int \in SUBSET Int /\ 0 \in Int
    OBVIOUS
  <2>4. counts = {f[n] : n \in S}
    OBVIOUS
  <2>. HIDE DEF f, S, counts
  <2>. QED
    BY <2>1, <2>2, <2>3, <2>4, LargestIs
<1>. HIDE DEF c, types, S, f, counts, linked, X, Y
<1>9. 2500 * Max({0} \cup counts) \in Int
  BY <1>8
<1>10. /\ Rated(c["organization"]) /\ Rated(c["offering"]) /\ Rated(c["agreement"])
       /\ Rated(c["fields"]) /\ Rated(c["markup"]) /\ Rated(c["canonical"])
  BY <1>3, <1>4, <1>5, <1>7, <1>9, IfInt, SubIs
<1>11. Rated(c["breadcrumbs"])
  BY <1>6, GradeInt, SubIs
<1>12. \A k \in DOMAIN c : Rated(c[k])
  BY <1>1, <1>10, <1>11
<1>. QED
  BY <1>2, <1>12, ComponentInt DEF c

LEMMA TrustNumber ==
  ASSUME NEW pages, NEW profile
  PROVE  Component(Trust(pages, profile)) \in Int
<1>. DEFINE c == Trust(pages, profile)
            legal == HasOrLinked(pages, "legal")
            figures == Some(pages, LAMBDA p : p.figures > 0)
            dated == Some(Nodes(pages), LAMBDA n : "date" \in n.fields)
<1>1. DOMAIN c = {"about", "contact", "cases", "customers", "authors", "dates", "claims", "policies", "place"}
  BY DEF Trust
<1>2. IsFiniteSet(DOMAIN c)
  <2>1. IsFiniteSet({"about", "contact", "cases", "customers", "authors", "dates", "claims", "policies", "place"})
    BY Enumerated
  <2>. QED
    BY <1>1, <2>1
<1>3. /\ c["about"] = Sub(15, If(HasOrLinked(pages, "about"), 10000))
      /\ c["contact"] = Sub(15, If(HasOrLinked(pages, "contact"), 5000) + If(legal, 5000))
      /\ c["cases"] = Sub(15, If(HasCase(pages), 10000))
      /\ c["customers"] = Sub(10, If(HasCase(pages), 5000))
      /\ c["policies"] = Sub(5, If(legal, 10000))
  BY DEF Trust
<1>4. /\ c["authors"] = Sub(10, Grade(OrgNamed(pages) # {}, legal, 5000))
      /\ c["place"] = Sub(5, Grade(profile.locations # << >> /\ Cardinality(profile.countries) <= 1,
                                   profile.locations # << >>, 5000))
  BY DEF Trust
<1>5. c["dates"] = Sub(10, If(dated, 10000))
  BY DEF Trust
<1>6. c["claims"] = Sub(15, If(figures, 5000) + If(Citations(pages) > 0, 3000) + If(HasCase(pages), 2000))
  BY DEF Trust
<1>. HIDE DEF c, legal, figures, dated
<1>7. /\ Rated(c["about"]) /\ Rated(c["contact"]) /\ Rated(c["cases"]) /\ Rated(c["customers"])
      /\ Rated(c["policies"])
  BY <1>3, IfInt, SubIs
<1>8. Rated(c["authors"]) /\ Rated(c["place"])
  BY <1>4, GradeInt, SubIs
<1>9. Rated(c["dates"])
  BY <1>5, IfInt, SubIs
<1>10. Rated(c["claims"])
  BY <1>6, IfInt, SubIs
<1>11. \A k \in DOMAIN c : Rated(c[k])
  BY <1>1, <1>7, <1>8, <1>9, <1>10
<1>. QED
  BY <1>2, <1>11, ComponentInt DEF c

LEMMA CrawledScore ==
  ASSUME NEW meta \in Meta
  PROVE  Crawled(meta) \in Score /\ ValidRatio(meta) \in Score
<1>1. /\ meta.requested \in Nat /\ meta.crawled \in Nat /\ meta.errors \in Nat
  BY DEF Meta
<1>2. Crawled(meta) \in Score
  <2>1. CASE meta.requested = 0
    BY <2>1 DEF Crawled, If, Score
  <2>2. CASE meta.requested # 0
    <3>. DEFINE x == RoundDiv(10000 * meta.crawled, meta.requested)
    <3>1. meta.requested \in Nat \ {0} /\ 10000 * meta.crawled \in Nat
      BY <1>1, <2>2
    <3>2. x \in Nat
      <4>1. ASSUME NEW a \in Nat, NEW b \in Nat \ {0} PROVE RoundDiv(a, b) \in Nat
        BY DEF RoundDiv
      <4>. QED
        BY <3>1, <4>1
    <3>3. Crawled(meta) = Least(10000, x)
      BY <2>2 DEF Crawled
    <3>. HIDE DEF x
    <3>. QED
      BY <3>2, <3>3 DEF Least, Score
  <2>. QED
    BY <2>1, <2>2
<1>3. ValidRatio(meta) \in Score
  <2>1. CASE meta.crawled + meta.errors = 0
    BY <2>1 DEF ValidRatio, Score
  <2>2. CASE meta.crawled + meta.errors # 0
    <3>1. meta.crawled + meta.errors \in Nat \ {0} /\ meta.crawled <= meta.crawled + meta.errors
      BY <1>1, <2>2
    <3>2. RoundDiv(10000 * meta.crawled, meta.crawled + meta.errors) \in Score
      BY <1>1, <3>1, ShareIs
    <3>. QED
      BY <2>2, <3>2 DEF ValidRatio
  <2>. QED
    BY <2>1, <2>2
<1>. QED
  BY <1>2, <1>3

LEMMA UniqueScore ==
  ASSUME NEW pages \in Seq(Page)
  PROVE  UniqueRatio(pages) \in Score /\ Readable(pages) \in Score
<1>. DEFINE I == 1..Len(pages)
            f == [i \in I |-> pages[i].hash]
            hashes == {pages[i].hash : i \in DOMAIN pages}
            X == {i \in DOMAIN pages : pages[i].length >= 200}
<1>1. DOMAIN pages = I /\ Len(pages) \in Nat /\ IsFiniteSet(I) /\ Cardinality(I) = Len(pages)
  BY Places
<1>2. hashes = {f[i] : i \in I}
  BY <1>1
<1>3. UniqueRatio(pages) = IF pages = << >> THEN 0 ELSE RoundDiv(10000 * Cardinality(hashes), Len(pages))
  BY DEF UniqueRatio
<1>4. Readable(pages) = Part(pages, X)
  BY DEF Readable, Ratio, Part, Count
<1>5. Part(pages, X) \in Score
  BY PartIs
<1>. HIDE DEF f, I, X, hashes
<1>6. Cardinality(hashes) \in Nat /\ Cardinality(hashes) <= Len(pages)
  BY <1>1, <1>2, ImageFinite, FS_CardinalityType
<1>7. pages # << >> => Len(pages) \in Nat \ {0}
  BY <1>1, EmptySeq
<1>8. UniqueRatio(pages) \in Score
  BY <1>3, <1>6, <1>7, ShareIs, InScore
<1>. QED
  BY <1>4, <1>5, <1>8

LEMMA TechnicalNumber ==
  ASSUME NEW pages \in Seq(Page), NEW meta \in Meta
  PROVE  Component(Technical(pages, meta)) \in Int
<1>. DEFINE c == Technical(pages, meta)
            X == {i \in DOMAIN pages : pages[i].canonical}
            Y == {i \in DOMAIN pages : pages[i].links # << >>}
<1>1. DOMAIN c = {"homepage", "crawlable", "robots", "canonical", "readable", "unique", "links", "responses"}
  BY DEF Technical
<1>2. IsFiniteSet(DOMAIN c)
  <2>1. IsFiniteSet({"homepage", "crawlable", "robots", "canonical", "readable", "unique", "links", "responses",
                     "responses"})
    BY Enumerated
  <2>. QED
    BY <1>1, <2>1
<1>3. /\ c["homepage"] = Sub(15, If(meta.homepage, 10000)) /\ c["crawlable"] = Sub(20, Crawled(meta))
      /\ c["robots"] = Sub(10, If(~meta.blocked, 10000)) /\ c["readable"] = Sub(20, Readable(pages))
      /\ c["unique"] = Sub(10, UniqueRatio(pages)) /\ c["responses"] = Sub(5, ValidRatio(meta))
  BY DEF Technical
<1>4. c["canonical"] = Sub(10, Part(pages, X)) /\ c["links"] = Sub(10, Part(pages, Y))
  BY DEF Technical, Ratio, Part, Count
<1>5. Part(pages, X) \in Int /\ Part(pages, Y) \in Int
  BY PartIs, ScoreIs
<1>6. /\ Crawled(meta) \in Int /\ Readable(pages) \in Int /\ UniqueRatio(pages) \in Int
      /\ ValidRatio(meta) \in Int
  BY CrawledScore, UniqueScore, ScoreIs
<1>. HIDE DEF c, X, Y
<1>7. /\ Rated(c["homepage"]) /\ Rated(c["crawlable"]) /\ Rated(c["robots"]) /\ Rated(c["readable"])
      /\ Rated(c["unique"]) /\ Rated(c["responses"]) /\ Rated(c["canonical"]) /\ Rated(c["links"])
  BY <1>3, <1>4, <1>5, <1>6, IfInt, SubIs
<1>8. \A k \in DOMAIN c : Rated(c[k])
  BY <1>1, <1>7
<1>. QED
  BY <1>2, <1>8, ComponentInt DEF c

-----------------------------------------------------------------------------
(* A crawl reads at most MaxPages pages of the catalogue, and tells how    *)
(* many it was asked for, found and failed to read.                        *)
LEMMA ReadIs ==
  ASSUME NEW published, NEW outcome
  PROVE  Read(published, outcome) \in Seq(Page) /\ Len(Read(published, outcome)) <= MaxPages
<1>. DEFINE I == DOMAIN Catalogue
            s == [i \in I |-> i]
            unread == IF outcome \in {"home_error", "home_refused"} THEN Homes ELSE {}
            X == {i \in DOMAIN s : s[i] \in published \ unread}
            places == Kept(s, X)
            n == Least(MaxPages, Len(places))
            f == [i \in 1..n |-> Catalogue[places[i]]]
<1>1. Read(published, outcome) = f
  BY DEF Read, Where, Concat, Kept
<1>2. Len(Catalogue) \in Nat /\ I = 1..Len(Catalogue) /\ \A i \in I : Catalogue[i] \in Page
  BY CatalogueAssumption, Places
<1>3. s \in [1..Len(Catalogue) -> I]
  BY <1>2
<1>4. s \in Seq(I)
  <2>. HIDE DEF s, I
  <2>. QED
    BY <1>2, <1>3, FunctionIsSeq
<1>. HIDE DEF s, X, I
<1>5. places \in Seq(I)
  BY <1>4, KeptIs
<1>6. Len(places) \in Nat /\ \A i \in 1..Len(places) : places[i] \in I
  BY <1>5, Places
<1>7. n \in Nat /\ n <= MaxPages /\ n <= Len(places)
  BY <1>6, CatalogueAssumption DEF Least
<1>8. f \in [1..n -> Page]
  BY <1>2, <1>6, <1>7
<1>. HIDE DEF f, n
<1>. QED
  BY <1>1, <1>7, <1>8, FunctionIsSeq

LEMMA CrawlMetaIs ==
  ASSUME NEW published \in Sites, NEW outcome
  PROVE  CrawlMeta(published, outcome) \in Meta
<1>. DEFINE pages == Read(published, outcome)
            failed == outcome = "home_error" \/ (outcome = "dead_link" /\ Len(pages) < MaxPages)
<1>1. Len(pages) \in Nat
  BY ReadIs, Places
<1>2. Cardinality(published) \in Nat
  <2>1. published \in SUBSET DOMAIN Catalogue
    BY DEF Sites
  <2>. QED
    BY <2>1, CatalogueAssumption, PartCounted
<1>3. CrawlMeta(published, outcome) =
        [ requested |-> MaxPages, crawled |-> Len(pages),
          discovered |-> Cardinality(published) + If(outcome = "dead_link", 1),
          errors |-> If(failed, 1), homepage |-> outcome \in {"clean", "dead_link"},
          blocked |-> outcome = "home_refused" ]
  BY DEF CrawlMeta
<1>. HIDE DEF pages, failed
<1>4. If(failed, 1) \in Nat /\ If(outcome = "dead_link", 1) \in Nat
  BY DEF If
<1>5. Cardinality(published) + If(outcome = "dead_link", 1) \in Nat
  BY <1>2, <1>4
<1>. QED
  BY <1>1, <1>3, <1>4, <1>5, CatalogueAssumption DEF Meta

-----------------------------------------------------------------------------
(* calibrate() of scoring/engine.py clamps what it is given, so that what  *)
(* is shown of a component is a score whatever its signals add up to.      *)
LEMMA CalibrateRange ==
  ASSUME NEW s \in Int
  PROVE  Calibrate(s) \in Score
<1>1. Calibrate(s) \in Int
  BY SMTT(30) DEF Calibrate, Between, RoundDiv, Most, Least
<1>2. Calibrate(s) >= 0
  BY SMTT(30) DEF Calibrate, Between, RoundDiv, Most, Least
<1>3. Calibrate(s) <= 10000
  BY SMTT(30) DEF Calibrate, Between, RoundDiv, Most, Least
<1>. QED
  BY <1>1, <1>2, <1>3, InScore

LEMMA ScoresAre ==
  ASSUME NEW pages \in Seq(Page), NEW profile, ProfileTyped(profile), NEW meta \in Meta,
         NEW coverage, coverage.score \in Int,
         NEW r, r = ComputeReadiness(pages, profile, coverage, meta)
  PROVE  \A c \in ComponentNames : r.scores[c] \in Score
<1>1. /\ r.scores["entity_clarity"] = Calibrate(Component(Entity(pages, profile)))
      /\ r.scores["offer_clarity"] = Calibrate(Component(Offer(pages, profile)))
      /\ r.scores["prompt_coverage"] = Calibrate(coverage.score)
      /\ r.scores["sourceability"] = Calibrate(Component(Sourceability(pages)))
      /\ r.scores["structured_data"] = Calibrate(Component(Structured(pages)))
      /\ r.scores["evidence_trust"] = Calibrate(Component(Trust(pages, profile)))
      /\ r.scores["technical_access"] = Calibrate(Component(Technical(pages, meta)))
  BY DEF ComputeReadiness
<1>2. /\ r.scores["entity_clarity"] \in Score /\ r.scores["offer_clarity"] \in Score
      /\ r.scores["prompt_coverage"] \in Score
  BY <1>1, EntityNumber, OfferNumber, CalibrateRange
<1>3. /\ r.scores["sourceability"] \in Score /\ r.scores["structured_data"] \in Score
      /\ r.scores["evidence_trust"] \in Score /\ r.scores["technical_access"] \in Score
  BY <1>1, SourceabilityNumber, StructuredNumber, TrustNumber, TechnicalNumber, CalibrateRange
<1>. QED
  BY <1>2, <1>3 DEF ComponentNames

-----------------------------------------------------------------------------
(* The profile: every name it holds is a set of words.                     *)
LEMMA NoNameIs == NoName \in Name
  BY DEF NoName, Name

LEMMA NodeIs ==
  ASSUME NEW n \in Node
  PROVE  /\ n.name \in Name /\ n.legal \in Name /\ n.alternate \in Name /\ n.country \in Name
         /\ n.city \in Name /\ n.categories \in SUBSET Name
  BY DEF Node

LEMMA FirstIs ==
  ASSUME NEW V, NEW s \in Seq(V), s # << >>
  PROVE  Head(s) \in V
  BY HeadTailProperties

LEMMA Prefix ==
  ASSUME NEW V, NEW s \in Seq(V), NEW n \in Nat
  PROVE  /\ SubSeq(s, 1, Least(n, Len(s))) \in Seq(V)
         /\ Len(SubSeq(s, 1, Least(n, Len(s)))) = Least(n, Len(s))
         /\ Least(n, Len(s)) \in 0..Len(s) /\ Least(n, Len(s)) <= n
         /\ \A i \in 1..Least(n, Len(s)) : SubSeq(s, 1, Least(n, Len(s)))[i] = s[i]
<1>. DEFINE m == Least(n, Len(s))
<1>1. Len(s) \in Nat /\ \A i \in 1..Len(s) : s[i] \in V
  BY Places
<1>2. m \in Nat /\ m <= n /\ m <= Len(s)
  BY <1>1 DEF Least
<1>. HIDE DEF m
<1>3. \A i \in 1..m : s[i] \in V
  BY <1>1, <1>2
<1>4. 1 \in Int /\ m \in Int
  BY <1>2
<1>5. /\ SubSeq(s, 1, m) \in Seq(V)
      /\ Len(SubSeq(s, 1, m)) = IF 1 <= m THEN m - 1 + 1 ELSE 0
      /\ \A i \in 1..(m - 1 + 1) : SubSeq(s, 1, m)[i] = s[1 + i - 1]
  BY <1>3, <1>4, SubSeqProperties
<1>6. Len(SubSeq(s, 1, m)) = m
  BY <1>2, <1>5
<1>7. ASSUME NEW i \in 1..m PROVE SubSeq(s, 1, m)[i] = s[i]
  <2>1. m - 1 + 1 = m /\ 1 + i - 1 = i
    BY <1>2
  <2>. QED
    BY <1>5, <2>1
<1>8. m \in 0..Len(s)
  BY <1>1, <1>2
<1>. QED
  BY <1>2, <1>5, <1>6, <1>7, <1>8 DEF m

LEMMA OrgNodesTyped ==
  ASSUME NEW pages \in Seq(Page)
  PROVE  /\ OrgNodes(pages) \in Seq(Node)
         /\ \A i \in DOMAIN OrgNodes(pages) : OrgNodes(pages)[i] \in Node
<1>. DEFINE s == Nodes(pages)
            X == {i \in DOMAIN s : IsOrg(s[i])}
<1>1. OrgNodes(pages) = Kept(s, X)
  BY DEF OrgNodes, Where, Concat, Kept
<1>2. s \in Seq(Node)
  BY NodesTyped
<1>. HIDE DEF s, X
<1>3. OrgNodes(pages) \in Seq(Node)
  BY <1>1, <1>2, KeptIs
<1>. QED
  BY <1>3, Places

LEMMA ImprintsTyped ==
  ASSUME NEW pages \in Seq(Page)
  PROVE  Imprints(pages) \in Seq(Page)
<1>. DEFINE X == {i \in DOMAIN pages : pages[i].type \in {"legal", "about"} /\ pages[i].length > 0}
<1>1. Imprints(pages) = Kept(pages, X)
  BY DEF Imprints, Where, Concat, Kept
<1>. HIDE DEF X
<1>. QED
  BY <1>1, KeptIs

LEMMA LanguagesAre ==
  ASSUME NEW pages \in Seq(Page)
  PROVE  Languages(pages) \in SUBSET Words
<1>1. \A i \in DOMAIN pages : pages[i].lang \in Lang /\ pages[i].hreflang \in SUBSET Lang
  BY Places, PageIs
<1>2. \A l \in Lang : l.base \in Words \cup {Unstated}
  BY DEF Lang
<1>. QED
  BY <1>1, <1>2 DEF Languages

LEMMA PlacesOfBusiness ==
  ASSUME NEW pages \in Seq(Page)
  PROVE  Countries(pages) \in SUBSET Name /\ Locations(pages) \in SUBSET Name
<1>. DEFINE s == Imprints(pages)
            X == {i \in DOMAIN s : s[i].city # NoName}
            printed == Kept(s, X)
            stated == {OrgNodes(pages)[i].city : i \in DOMAIN OrgNodes(pages)} \ {NoName}
<1>1. Countries(pages) \in SUBSET Name /\ stated \in SUBSET Name
  BY OrgNodesTyped, NodeIs DEF Countries
<1>2. Locations(pages) = IF stated # {} THEN stated
                         ELSE {printed[i].city : i \in DOMAIN printed \cap {1}}
  BY DEF Locations, Where, Concat, Kept
<1>3. s \in Seq(Page)
  BY ImprintsTyped
<1>. HIDE DEF s, X, stated
<1>4. printed \in Seq(Page)
  BY <1>3, KeptIs
<1>. HIDE DEF printed
<1>5. \A i \in DOMAIN printed : printed[i].city \in Name
  BY <1>4, Places, PageIs
<1>. QED
  BY <1>1, <1>2, <1>5

LEMMA EvidenceIs ==
  ASSUME NEW field, NEW value, NEW confidence
  PROVE  /\ Evidence(field, value, confidence).field = field
         /\ Evidence(field, value, confidence).value = value
         /\ Evidence(field, value, confidence).confidence = confidence
         /\ field \in EvidenceFields /\ value \in Name /\ confidence \in Score
              => Evidence(field, value, confidence) \in Evidences
  BY DEF Evidence, Evidences

LEMMA LegalNameIs ==
  ASSUME NEW pages \in Seq(Page)
  PROVE  LegalName(pages) \in Evidences /\ LegalName(pages).value \in Name
<1>. DEFINE n == OrgNodes(pages)
            s == Imprints(pages)
            X == {i \in DOMAIN n : n[i].legal # NoName}
            Y == {i \in DOMAIN s : s[i].operator # NoName}
            stated == Kept(n, X)
            printed == Kept(s, Y)
<1>1. LegalName(pages) =
        IF stated # << >> THEN Evidence("legal_name", Head(stated).legal, 9000)
        ELSE IF printed # << >> THEN Evidence("legal_name", Head(printed).operator, 7000)
        ELSE Evidence("legal_name", NoName, 0)
  BY DEF LegalName, Where, Concat, Kept
<1>2. n \in Seq(Node) /\ s \in Seq(Page)
  BY OrgNodesTyped, ImprintsTyped
<1>. HIDE DEF n, s, X, Y
<1>3. stated \in Seq(Node) /\ printed \in Seq(Page)
  BY <1>2, KeptIs
<1>. HIDE DEF stated, printed
<1>4. stated # << >> => Head(stated).legal \in Name
  BY <1>3, FirstIs, NodeIs
<1>5. printed # << >> => Head(printed).operator \in Name
  BY <1>3, FirstIs, PageIs
<1>6. \A x \in {0, 7000, 9000} : x \in Score
  BY DEF Score
<1>7. "legal_name" \in EvidenceFields
  BY DEF EvidenceFields
<1>8. CASE stated # << >>
  BY <1>1, <1>4, <1>6, <1>7, <1>8, EvidenceIs
<1>9. CASE stated = << >> /\ printed # << >>
  BY <1>1, <1>5, <1>6, <1>7, <1>9, EvidenceIs
<1>10. CASE stated = << >> /\ printed = << >>
  BY <1>1, <1>6, <1>7, <1>10, EvidenceIs, NoNameIs
<1>. QED
  BY <1>8, <1>9, <1>10

(* The brand. *)
Candidates == [name : Name, score : Score]

LEMMA TitleTyped ==
  ASSUME NEW p \in Page
  PROVE  Suffix(p) \in Name
<1>1. p.title \in Seq(Name)
  BY PageIs
<1>2. CASE Len(p.title) > 1
  <2>1. Len(p.title) \in Nat /\ Last(p.title) = p.title[Len(p.title)]
    BY <1>1, Places DEF Last
  <2>2. Len(p.title) \in 1..Len(p.title)
    BY <1>2, <2>1
  <2>3. Last(p.title) \in Name
    BY <1>1, <2>1, <2>2, Places
  <2>. QED
    BY <1>2, <2>3 DEF Suffix
<1>3. CASE ~(Len(p.title) > 1)
  BY <1>3, NoNameIs DEF Suffix
<1>. QED
  BY <1>2, <1>3

LEMMA BrandScoreIs ==
  ASSUME NEW name \in Name, NEW pages
  PROVE  BrandScore(name, pages) \in Score
<1>1. PICK whole \in Nat : whole = 1000
  OBVIOUS
<1>2. Jaccard(name, Domain, whole) \in 0..whole
  BY JaccardIs, WordsAssumption
<1>3. PICK j \in 0..1000 : j = Jaccard(name, Domain, 1000)
  BY <1>1, <1>2
<1>. DEFINE a == IF name \in OrgNames(pages) THEN 3000 ELSE 0
            b == IF name \in SiteNames(pages) \cup Repeated(pages) THEN 2500 ELSE 0
            c == IF StatedOn(name, pages, {"about", "legal", "contact"}) THEN 2000 ELSE 0
            d == IF StatedOn(name, pages, {"home"}) THEN 1500 ELSE 0
<1>4. BrandScore(name, pages) = a + b + c + d + j
  BY <1>3 DEF BrandScore
<1>5. a \in 0..3000 /\ b \in 0..2500 /\ c \in 0..2000 /\ d \in 0..1500
  OBVIOUS
<1>. HIDE DEF a, b, c, d
<1>6. a + b + c + d + j \in Int /\ 0 <= a + b + c + d + j /\ a + b + c + d + j <= 10000
  BY <1>5
<1>. QED
  BY <1>4, <1>6, InScore

LEMMA NamesAre ==
  ASSUME NEW pages \in Seq(Page)
  PROVE  /\ OrgNames(pages) \in SUBSET Name /\ SiteNames(pages) \in SUBSET Name
         /\ TitleSuffixes(pages) \in SUBSET Name
<1>1. \A n \in ToSet(OrgNodes(pages)) : n \in Node
  BY OrgNodesTyped, ElementsFinite
<1>2. OrgNames(pages) \in SUBSET Name
  BY <1>1, NodeIs DEF OrgNames
<1>3. \A i \in DOMAIN pages : pages[i].siteName \in Name /\ Suffix(pages[i]) \in Name
  BY Places, PageIs, TitleTyped
<1>. QED
  BY <1>2, <1>3 DEF SiteNames, TitleSuffixes

LEMMA CandidatesAre ==
  ASSUME NEW pages \in Seq(Page)
  PROVE  BrandCandidates(pages) \in SUBSET Candidates /\ IsFiniteSet(BrandCandidates(pages))
<1>. DEFINE named == {d \in OrgNames(pages) \cup SiteNames(pages) \cup TitleSuffixes(pages) \cup {Domain} :
                        ~ d \subseteq Generic /\ BrandScore(d, pages) > 0}
            f == [c \in named |-> [name |-> c, score |-> BrandScore(c, pages)]]
<1>1. named \in SUBSET Name
  BY NamesAre, WordsAssumption
<1>2. BrandCandidates(pages) = {[name |-> c, score |-> BrandScore(c, pages)] : c \in named}
  BY DEF BrandCandidates
<1>. HIDE DEF named
<1>3. BrandCandidates(pages) = {f[c] : c \in named}
  BY <1>2
<1>4. \A c \in named : f[c] \in Candidates
  BY <1>1, BrandScoreIs DEF Candidates
<1>5. IsFiniteSet(named)
  BY <1>1, NamesFinite, FS_Subset
<1>. HIDE DEF f
<1>. QED
  BY <1>3, <1>4, <1>5, ImageFinite

LEMMA RankedIs ==
  ASSUME NEW S \in SUBSET Candidates, IsFiniteSet(S)
  PROVE  Ranked(S) \in Seq(Candidates)
<1>. DEFINE names == {q \in Name \X Name : Before(q[1], q[2])}
            below == {q \in S \X S :
                        \/ q[1].score > q[2].score
                        \/ q[1].score = q[2].score /\ Before(q[1].name, q[2].name)}
<1>1. Ranked(S) = SortBy(S, below)
  BY DEF Ranked
<1>2. Orders(names, Name)
  BY BeforeOrders
<1>3. \A a, b \in Name : <<a, b>> \in names <=> Before(a, b)
  OBVIOUS
<1>4. \A x \in S : x.name \in Name /\ x.score \in Int
  <2>1. \A x \in Candidates : x.name \in Name /\ x.score \in Score
    BY DEF Candidates
  <2>. QED
    BY <2>1, ScoreIs
<1>5. \A x \in Name : ~Before(x, x)
  BY <1>2, <1>3 DEF Orders
<1>6. \A x, y, z \in Name : Before(x, y) /\ Before(y, z) => Before(x, z)
  BY <1>2, <1>3 DEF Orders
<1>7. Orders(below, S)
  <2>1. ASSUME NEW x \in S PROVE <<x, x>> \notin below
    BY <1>4, <1>5
  <2>2. ASSUME NEW x \in S, NEW y \in S, NEW z \in S, <<x, y>> \in below, <<y, z>> \in below
        PROVE  <<x, z>> \in below
    <3>1. x.score >= y.score /\ y.score >= z.score
      BY <1>4, <2>2
    <3>2. CASE x.score > z.score
      BY <3>2
    <3>3. CASE ~(x.score > z.score)
      <4>1. x.score = y.score /\ y.score = z.score
        BY <1>4, <3>1, <3>3
      <4>2. Before(x.name, y.name) /\ Before(y.name, z.name)
        BY <1>4, <2>2, <4>1
      <4>3. Before(x.name, z.name)
        BY <1>4, <1>6, <4>2
      <4>. QED
        BY <4>1, <4>3
    <3>. QED
      BY <3>2, <3>3
  <2>. HIDE DEF below
  <2>. QED
    BY <2>1, <2>2 DEF Orders
<1>. HIDE DEF below
<1>8. Sorts(Ranked(S), S, below)
  BY <1>1, <1>7, SortIs
<1>9. Ranked(S) \in Seq(S)
  BY <1>8, SortHolds
<1>. QED
  BY <1>9, SeqMonotonic

Branded(b) == b.name \in Name /\ b.confidence \in Score /\ b.aliases \in SUBSET Name

LEMMA BrandTyped ==
  ASSUME NEW name \in Name, NEW confidence \in Score, NEW aliases \in SUBSET Name
  PROVE  Branded(Brand(name, confidence, aliases))
  BY DEF Brand, Branded

LEMMA BrandOfIs ==
  ASSUME NEW pages, NEW ranked \in Seq(Candidates)
  PROVE  Branded(BrandOf(pages, ranked))
<1>. DEFINE best == Head(ranked)
            aliases == {c.name : c \in {d \in ToSet(Tail(ranked)) : d.score >= AliasMin}}
<1>1. DomainBrand(pages) \in Name
  BY WordsAssumption, NoNameIs DEF DomainBrand
<1>2. ASSUME ranked # << >> PROVE best \in Candidates /\ aliases \in SUBSET Name
  <2>1. best \in Candidates /\ Tail(ranked) \in Seq(Candidates)
    BY <1>2, HeadTailProperties
  <2>2. ToSet(Tail(ranked)) \subseteq Candidates
    BY <2>1, ElementsFinite
  <2>3. \A c \in Candidates : c.name \in Name
    BY DEF Candidates
  <2>. QED
    BY <2>1, <2>2, <2>3
<1>3. \E ambiguous : BrandOf(pages, ranked) =
        IF ranked # << >> /\ best.score >= MinBrandScore /\ ~ambiguous
        THEN Brand(best.name, best.score, aliases)
        ELSE IF DomainBrand(pages) # NoName THEN Brand(DomainBrand(pages), 5500, {})
        ELSE Brand(NoName, IF ranked = << >> THEN 0 ELSE best.score, {})
  <2>. DEFINE rivals == Where(Tail(ranked), LAMBDA c : ~SameBrand(best.name, c.name))
              ambiguous == /\ rivals # << >>
                           /\ best.score - Head(rivals).score < AmbiguityMargin
                           /\ Head(rivals).score >= AmbiguityRivalMin
  <2>1. BrandOf(pages, ranked) =
          IF ranked # << >> /\ best.score >= MinBrandScore /\ ~ambiguous
          THEN Brand(best.name, best.score, aliases)
          ELSE IF DomainBrand(pages) # NoName THEN Brand(DomainBrand(pages), 5500, {})
          ELSE Brand(NoName, IF ranked = << >> THEN 0 ELSE best.score, {})
    BY DEF BrandOf
  <2>. HIDE DEF best, aliases, ambiguous
  <2>. QED
    BY <2>1
<1>4. 0 \in Score /\ 5500 \in Score /\ {} \in SUBSET Name
  BY DEF Score
<1>5. \A c \in Candidates : c.name \in Name /\ c.score \in Score
  BY DEF Candidates
<1>. HIDE DEF best, aliases
<1>6. ranked # << >> => Branded(Brand(best.name, best.score, aliases))
  BY <1>2, <1>5, BrandTyped
<1>7. Branded(Brand(DomainBrand(pages), 5500, {}))
  BY <1>1, <1>4, BrandTyped
<1>8. Branded(Brand(NoName, IF ranked = << >> THEN 0 ELSE best.score, {}))
  BY <1>2, <1>4, <1>5, NoNameIs, BrandTyped
<1>. QED
  BY <1>3, <1>6, <1>7, <1>8

LEMMA ResolveBrandIs ==
  ASSUME NEW pages \in Seq(Page)
  PROVE  Branded(ResolveBrand(pages))
  BY CandidatesAre, RankedIs, BrandOfIs DEF ResolveBrand

(* What the business offers. *)
Kinds == {"service", "product"}

LEMMA KindScores ==
  /\ \A k \in Kinds : k \in EvidenceFields
  /\ \A x \in {4000, 5000, 6000, 9000} : x \in Score
  BY DEF Kinds, EvidenceFields, Score

LEMMA PageOffersTyped ==
  ASSUME NEW p \in Page, NEW kind \in Kinds
  PROVE  PageOffers(p, kind) \in Seq(Evidences)
<1>. DEFINE X == {i \in DOMAIN p.nodes : OfKind(p.nodes[i], kind)}
            Y == {i \in DOMAIN p.links : p.links[i].path = kind}
            nodes == OfferNodes(p, kind)
            links == OfferLinks(p, kind)
            a == [i \in DOMAIN nodes |-> Evidence(kind, nodes[i].name, 9000)]
            b == [i \in DOMAIN links |-> Evidence(kind, links[i].text, 6000)]
            own == Evidence(kind, p.h1, 5000)
            c == IF p.type = kind THEN <<own>> ELSE << >>
<1>1. PageOffers(p, kind) = a \o b \o c
  BY DEF PageOffers
<1>2. nodes = Kept(p.nodes, X) /\ links = Kept(p.links, Y)
  BY DEF OfferNodes, OfferLinks, Where, Concat, Kept
<1>3. p.nodes \in Seq(Node) /\ p.links \in Seq(Link) /\ p.h1 \in Name
  BY PageIs
<1>. HIDE DEF X, Y
<1>4. nodes \in Seq(Node) /\ links \in Seq(Link)
  BY <1>2, <1>3, KeptIs
<1>. HIDE DEF nodes, links
<1>5. /\ DOMAIN nodes = 1..Len(nodes) /\ Len(nodes) \in Nat /\ \A i \in DOMAIN nodes : nodes[i] \in Node
      /\ DOMAIN links = 1..Len(links) /\ Len(links) \in Nat /\ \A i \in DOMAIN links : links[i] \in Link
  BY <1>4, Places
<1>6. \A l \in Link : l.text \in Name
  BY DEF Link
<1>7. \A i \in DOMAIN nodes : a[i] \in Evidences
  BY <1>5, NodeIs, EvidenceIs, KindScores
<1>8. \A i \in DOMAIN links : b[i] \in Evidences
  BY <1>5, <1>6, EvidenceIs, KindScores
<1>9. a \in [1..Len(nodes) -> Evidences] /\ b \in [1..Len(links) -> Evidences]
  BY <1>5, <1>7, <1>8
<1>10. own \in Evidences
  BY <1>3, EvidenceIs, KindScores
<1>11. c \in Seq(Evidences)
  BY <1>10
<1>. HIDE DEF a, b, c
<1>12. a \in Seq(Evidences) /\ b \in Seq(Evidences)
  BY <1>5, <1>9, FunctionIsSeq
<1>13. a \o b \in Seq(Evidences)
  BY <1>12, Joined
<1>. QED
  BY <1>1, <1>11, <1>13, Joined

LEMMA OffersTyped ==
  ASSUME NEW pages \in Seq(Page), NEW kind \in Kinds
  PROVE  Offers(pages, kind) \in Seq(Evidences)
<1>. DEFINE ss == [i \in DOMAIN pages |-> PageOffers(pages[i], kind)]
            s == FlattenSeq(ss)
            X == {i \in DOMAIN s : Plausible(s[i].value)}
<1>1. Offers(pages, kind) = Kept(s, X)
  BY DEF Offers, Where, Concat, Kept
<1>2. ss \in [1..Len(pages) -> Seq(Evidences)] /\ Len(pages) \in Nat
  <2>1. DOMAIN pages = 1..Len(pages) /\ Len(pages) \in Nat /\ \A i \in DOMAIN pages : pages[i] \in Page
    BY Places
  <2>2. \A i \in DOMAIN pages : ss[i] \in Seq(Evidences)
    BY <2>1, PageOffersTyped
  <2>. QED
    BY <2>1, <2>2
<1>. HIDE DEF ss, X
<1>3. ss \in Seq(Seq(Evidences))
  BY <1>2, FunctionIsSeq
<1>4. s \in Seq(Evidences)
  BY <1>3, FlattenIs
<1>. HIDE DEF s
<1>. QED
  BY <1>1, <1>4, KeptIs

LEMMA FirstOffersTyped ==
  ASSUME NEW pages \in Seq(Page), NEW kind \in Kinds
  PROVE  FirstOffers(Offers(pages, kind)) \in SUBSET Evidences
<1>. DEFINE s == Offers(pages, kind)
<1>1. s \in Seq(Evidences)
  BY OffersTyped
<1>. HIDE DEF s
<1>2. \A i \in DOMAIN s : s[i] \in Evidences
  BY <1>1, Places
<1>3. FirstOffers(s) \in SUBSET Evidences
  BY <1>2 DEF FirstOffers
<1>. QED
  BY <1>3 DEF s

LEMMA ValuesTyped ==
  ASSUME NEW E \in SUBSET Evidences
  PROVE  Values(E) \in SUBSET Name
  BY DEF Values, Evidences

LEMMA CategoriesTyped ==
  ASSUME NEW pages \in Seq(Page), NEW brand
  PROVE  Categories(pages, brand) \in Seq(Name)
<1>. DEFINE all == UNION {n.categories : n \in {m \in ToSet(Nodes(pages)) : OfKind(m, "product")}}
            kept == {c \in all : CleanCategory(c, brand)}
            sorted == Sorted(kept)
<1>1. Categories(pages, brand) = SubSeq(sorted, 1, Least(6, Len(sorted)))
  BY DEF Categories
<1>2. \A n \in ToSet(Nodes(pages)) : n \in Node
  BY NodesTyped, ElementsFinite
<1>3. \A n \in ToSet(Nodes(pages)) : n.categories \in SUBSET Name
  BY <1>2, NodeIs
<1>4. kept \in SUBSET Name
  BY <1>3
<1>. HIDE DEF kept
<1>5. sorted \in Seq(Name)
  BY <1>4, SortedIs
<1>. HIDE DEF sorted
<1>. QED
  BY <1>1, <1>5, Prefix

LEMMA BaredTyped ==
  ASSUME NEW part \in Name, NEW brand, NEW locations
  PROVE  Bared(part, brand, locations) \in Name
  BY DEF Bared, Name

LEMMA OfferPartsTyped ==
  ASSUME NEW title \in Seq(Name), NEW brand, NEW locations
  PROVE  OfferParts(title, brand, locations) \in Seq(Name)
<1>. DEFINE s == [i \in DOMAIN title |-> Bared(title[i], brand, locations)]
            X == {i \in DOMAIN s : OfferPart(s[i])}
<1>1. OfferParts(title, brand, locations) = Kept(s, X)
  BY DEF OfferParts, Where, Concat, Kept
<1>2. DOMAIN title = 1..Len(title) /\ Len(title) \in Nat /\ \A i \in DOMAIN title : title[i] \in Name
  BY Places
<1>3. s \in [1..Len(title) -> Name]
  BY <1>2, BaredTyped
<1>. HIDE DEF s, X
<1>4. s \in Seq(Name)
  BY <1>2, <1>3, FunctionIsSeq
<1>. QED
  BY <1>1, <1>4, KeptIs

LEMMA TitleOffersTyped ==
  ASSUME NEW pages \in Seq(Page), NEW brand, NEW locations
  PROVE  TitleOffers(pages, brand, locations) \in SUBSET Evidences
<1>. DEFINE X == {i \in DOMAIN pages : pages[i].type = "home" /\ pages[i].title # << >>}
            homes == TitledHomes(pages)
            names == OfferParts(Head(homes).title, brand, locations)
            first == {j \in DOMAIN names : Cardinality({names[k] : k \in 1..(j - 1)}) < 3}
<1>1. TitleOffers(pages, brand, locations) =
        IF homes = << >> \/ ~Some(OrgNodes(pages), Shape) THEN {}
        ELSE {Evidence("service", names[i], 4000) : i \in first}
  BY DEF TitleOffers
<1>2. homes = Kept(pages, X)
  BY DEF TitledHomes, Where, Concat, Kept
<1>. HIDE DEF X
<1>3. homes \in Seq(Page)
  BY <1>2, KeptIs
<1>. HIDE DEF homes
<1>4. homes # << >> => names \in Seq(Name)
  BY <1>3, FirstIs, PageIs, OfferPartsTyped
<1>. HIDE DEF names
<1>5. homes # << >> => \A i \in DOMAIN names : names[i] \in Name
  BY <1>4, Places
<1>6. homes # << >> => \A i \in first : names[i] \in Name
  BY <1>5
<1>7. "service" \in EvidenceFields /\ 4000 \in Score
  BY KindScores DEF Kinds
<1>. HIDE DEF first
<1>8. homes # << >> => \A i \in first : Evidence("service", names[i], 4000) \in Evidences
  BY <1>6, <1>7, EvidenceIs
<1>. QED
  BY <1>1, <1>8

LEMMA GenLanguageIs ==
  ASSUME NEW primary, NEW languages \in SUBSET Words
  PROVE  GenLanguage(primary, languages) \in Supported
<1>. DEFINE both == languages \cap Supported
            Earliest(l) == \A m \in both \ {l} : Place(l) < Place(m)
<1>1. \A l \in both : Place(l) \in Nat /\ Alphabet[Place(l)] = l
  BY PlaceIs
<1>2. ASSUME both # {} PROVE \E l \in both : Earliest(l)
  <2>1. PICK l \in both : TRUE
    BY <1>2
  <2>2. CASE \E m \in both \ {l} : ~(Place(l) < Place(m))
    <3>1. PICK m \in both \ {l} : ~(Place(l) < Place(m))
      BY <2>2
    <3>2. Place(m) # Place(l)
      BY <1>1, <2>1, <3>1
    <3>3. Place(m) < Place(l)
      BY <1>1, <2>1, <3>1, <3>2
    <3>4. both \ {m} = {l}
      BY <2>1, <3>1 DEF Supported
    <3>5. Earliest(m)
      BY <3>3, <3>4
    <3>. QED
      BY <3>1, <3>5
  <2>3. CASE ~(\E m \in both \ {l} : ~(Place(l) < Place(m)))
    BY <2>1, <2>3
  <2>. QED
    BY <2>2, <2>3
<1>3. GenLanguage(primary, languages) =
        IF primary \in Supported THEN primary ELSE IF both = {} THEN "en" ELSE CHOOSE l \in both : Earliest(l)
  BY DEF GenLanguage
<1>4. both \subseteq Supported /\ "en" \in Supported
  BY DEF Supported
<1>5. both # {} => (CHOOSE l \in both : Earliest(l)) \in both
  BY <1>2
<1>. HIDE DEF both
<1>. QED
  BY <1>3, <1>4, <1>5

(* The topics of a site that offers nothing. *)
LEMMA LongestIs ==
  ASSUME NEW names \in Seq(Name)
  PROVE  Longest(names) \in Seq(Name) /\ (names # << >> => Longest(names) # << >>)
<1>. DEFINE I == 1..Len(names)
            size == [i \in I |-> Cardinality(names[i])]
            X == {i \in DOMAIN names : ~ \E j \in DOMAIN names : Cardinality(names[j]) > Cardinality(names[i])}
            sizes == {size[i] : i \in I}
<1>1. Longest(names) = Kept(names, X)
  BY DEF Longest, Some, Where, Concat, Kept
<1>2. Len(names) \in Nat /\ DOMAIN names = I /\ IsFiniteSet(I) /\ \A i \in I : names[i] \in Name
  BY Places
<1>3. \A i \in I : size[i] \in Int
  BY <1>2, NamesFinite
<1>4. \A i \in I : size[i] = Cardinality(names[i])
  OBVIOUS
<1>. HIDE DEF size
<1>5. IsFiniteSet(sizes)
  BY <1>2, ImageFinite
<1>6. sizes \in SUBSET Int
  BY <1>3
<1>7. ASSUME names # << >> PROVE \E i \in I : i \in X
  <2>1. I # {}
    <3>1. Len(names) # 0
      BY <1>7, EmptySeq
    <3>2. 1 \in I
      BY <1>2, <3>1
    <3>. QED
      BY <3>2
  <2>2. sizes # {}
    BY <2>1
  <2>3. Max(sizes) \in sizes /\ \A y \in sizes : y <= Max(sizes)
    BY <1>5, <1>6, <2>2, MaxIs
  <2>4. PICK i \in I : size[i] = Max(sizes)
    BY <2>3
  <2>5. \A j \in I : size[j] <= size[i]
    BY <2>3, <2>4
  <2>6. \A j \in I : ~(Cardinality(names[j]) > Cardinality(names[i]))
    BY <1>3, <1>4, <2>5
  <2>. QED
    BY <1>2, <2>6
<1>. HIDE DEF X, I, sizes
<1>8. /\ Longest(names) \in Seq(Name)
      /\ ToSet(Longest(names)) = {names[i] : i \in DOMAIN names \cap X}
  BY <1>1, KeptIs
<1>9. ASSUME names # << >>, Longest(names) = << >> PROVE FALSE
  <2>1. ToSet(<< >>) = {}
    BY DEF ToSet
  <2>. QED
    BY <1>2, <1>7, <1>8, <1>9, <2>1
<1>. QED
  BY <1>8, <1>9

LEMMA SubjectTyped ==
  ASSUME NEW parts \in Seq(Name), NEW brand
  PROVE  Subject(parts, brand) \in Name
<1>. DEFINE X == {i \in DOMAIN parts : parts[i] # brand.name /\ parts[i] # Domain}
            others == Unbranded(parts, brand)
            named == IF Len(parts) >= 2 /\ others # << >> THEN Head(Longest(others)) ELSE UNION ToSet(parts)
<1>1. Subject(parts, brand) = IF brand.name \subseteq named THEN named \ brand.name ELSE named
  BY DEF Subject
<1>2. others = Kept(parts, X)
  BY DEF Unbranded, Where, Concat, Kept
<1>. HIDE DEF X
<1>3. others \in Seq(Name)
  BY <1>2, KeptIs
<1>. HIDE DEF others
<1>4. others # << >> => Head(Longest(others)) \in Name
  BY <1>3, LongestIs, FirstIs
<1>5. UNION ToSet(parts) \in Name
  <2>1. ToSet(parts) \subseteq Name
    BY ElementsFinite
  <2>. QED
    BY <2>1 DEF Name
<1>6. named \in Name
  BY <1>4, <1>5
<1>. HIDE DEF named
<1>7. named \ brand.name \in Name
  BY <1>6 DEF Name
<1>. QED
  BY <1>1, <1>6, <1>7

LEMMA SubjectsTyped ==
  ASSUME NEW raw \in Seq(Seq(Name)), NEW brand, NEW lang
  PROVE  Subjects(raw, brand, lang) \in Seq(Name)
<1>. DEFINE s == [i \in DOMAIN raw |-> Subject(raw[i], brand)]
            X == {i \in DOMAIN s : Topical(s[i], lang)}
<1>1. Subjects(raw, brand, lang) = Kept(s, X)
  BY DEF Subjects, Where, Concat, Kept
<1>2. DOMAIN raw = 1..Len(raw) /\ Len(raw) \in Nat /\ \A i \in DOMAIN raw : raw[i] \in Seq(Name)
  BY Places
<1>3. s \in [1..Len(raw) -> Name]
  BY <1>2, SubjectTyped
<1>. HIDE DEF s, X
<1>4. s \in Seq(Name)
  BY <1>2, <1>3, FunctionIsSeq
<1>. QED
  BY <1>1, <1>4, KeptIs

LEMMA TitlesTyped ==
  ASSUME NEW pages \in Seq(Page), NEW lang
  PROVE  ContentTitles(pages, lang) \in Seq(Seq(Name)) /\ HomeTitles(pages, lang) \in Seq(Seq(Name))
<1>. DEFINE X == {i \in DOMAIN pages : /\ Spoken(pages[i], lang)
                                       /\ pages[i].type \notin {"home", "legal", "contact", "about", "faq"}}
            Y == {i \in DOMAIN pages : Spoken(pages[i], lang) /\ pages[i].type = "home"}
            contents == Kept(pages, X)
            homes == Kept(pages, Y)
            a == [i \in DOMAIN contents |-> <<<<contents[i].h1>>, contents[i].title>>]
            b == [i \in DOMAIN homes |-> <<homes[i].title, <<homes[i].h1>>>>]
<1>1. ContentTitles(pages, lang) = FlattenSeq(a)
  BY DEF ContentTitles, Where, Concat, Kept
<1>2. HomeTitles(pages, lang) = FlattenSeq(b)
  BY DEF HomeTitles, Where, Concat, Kept
<1>. HIDE DEF X, Y
<1>3. contents \in Seq(Page) /\ homes \in Seq(Page)
  BY KeptIs
<1>. HIDE DEF contents, homes
<1>4. /\ DOMAIN contents = 1..Len(contents) /\ Len(contents) \in Nat /\ \A i \in DOMAIN contents : contents[i] \in Page
      /\ DOMAIN homes = 1..Len(homes) /\ Len(homes) \in Nat /\ \A i \in DOMAIN homes : homes[i] \in Page
  BY <1>3, Places
<1>5. ASSUME NEW x \in Name, NEW t \in Seq(Name)
      PROVE  <<<<x>>, t>> \in Seq(Seq(Name)) /\ <<t, <<x>>>> \in Seq(Seq(Name))
  <2>1. <<x>> \in Seq(Name)
    OBVIOUS
  <2>. DEFINE V == Seq(Name)
              y == <<x>>
  <2>. HIDE DEF V, y
  <2>2. ASSUME NEW v \in V, NEW w \in V PROVE <<v, w>> \in Seq(V)
    OBVIOUS
  <2>. QED
    BY <2>1, <2>2 DEF V, y
<1>6. a \in [1..Len(contents) -> Seq(Seq(Name))] /\ b \in [1..Len(homes) -> Seq(Seq(Name))]
  BY <1>4, <1>5, PageIs
<1>. HIDE DEF a, b
<1>7. a \in Seq(Seq(Seq(Name))) /\ b \in Seq(Seq(Seq(Name)))
  BY <1>4, <1>6, FunctionIsSeq
<1>. QED
  BY <1>1, <1>2, <1>7, FlattenIs

LEMMA AddTopicTyped ==
  ASSUME NEW N, NEW seen \in Seq(N), NEW t \in N
  PROVE  AddTopic(seen, t) \in Seq(N)
<1>1. Append(seen, t) \in Seq(N)
  BY AppendProperties
<1>. QED
  BY <1>1 DEF AddTopic

LEMMA FoldedTopics ==
  ASSUME NEW N, NEW found \in Seq(N)
  PROVE  FoldLeft(AddTopic, << >>, found) \in Seq(N)
<1>. DEFINE S == DOMAIN found
            V == Seq(N)
            pick == [s \in SUBSET S |-> Max(s)]
            combine == [q \in S \X V |-> AddTopic(q[2], found[q[1]])]
            Step(h, s) == IF s = {} THEN << >> ELSE AddTopic(h[s \ {Max(s)}], found[Max(s)])
            f == CHOOSE h : h = [s \in SUBSET S |-> Step(h, s)]
<1>1. FoldLeft(AddTopic, << >>, found) = f[S]
  BY DEF FoldLeft, MapThenFoldSet
<1>2. IsFiniteSet(S) /\ S \in SUBSET Int /\ \A i \in S : found[i] \in N
  BY Places
<1>3. \A s \in SUBSET S : s # {} => Max(s) \in s
  BY <1>2, MaxIs, FS_Subset
<1>4. << >> \in V
  OBVIOUS
<1>5. combine \in [S \X V -> V]
  BY <1>2, AddTopicTyped
<1>6. PICK k \in [SUBSET S -> V] : Folds(k, S, pick, combine, << >>)
  <2>1. \A s \in SUBSET S : s # {} => pick[s] \in s
    BY <1>3
  <2>. HIDE DEF pick, combine, V, S
  <2>. QED
    BY <1>2, <1>4, <1>5, <2>1, Recursion
<1>7. k = [s \in SUBSET S |-> Step(k, s)]
  <2>1. ASSUME NEW s \in SUBSET S PROVE k[s] = Step(k, s)
    <3>1. CASE s = {}
      BY <1>6, <3>1 DEF Folds
    <3>2. CASE s # {}
      <4>1. k[s] = combine[<<pick[s], k[s \ {pick[s]}]>>]
        BY <1>6, <3>2 DEF Folds
      <4>2. pick[s] = Max(s) /\ Max(s) \in S /\ s \ {Max(s)} \in SUBSET S
        BY <1>3, <3>2
      <4>3. k[s \ {Max(s)}] \in V
        BY <1>6, <4>2
      <4>4. \A x \in S, y \in V : combine[<<x, y>>] = AddTopic(y, found[x])
        OBVIOUS
      <4>. HIDE DEF pick, combine, S, V
      <4>. QED
        BY <3>2, <4>1, <4>2, <4>3, <4>4
    <3>. QED
      BY <3>1, <3>2
  <2>. QED
    BY <1>6, <2>1
<1>8. f = [s \in SUBSET S |-> Step(f, s)]
  BY <1>7
<1>9. \A s \in SUBSET S : f[s] = Step(f, s)
  BY <1>8
<1>. HIDE DEF f, pick, combine
<1>10. \A s \in SUBSET S : f[s] \in V
  <2>. DEFINE T == {s \in SUBSET S : f[s] \in V}
  <2>1. ASSUME NEW s \in SUBSET S, \A t \in SUBSET s : t # s => t \in T PROVE s \in T
    <3>1. CASE s = {}
      BY <1>4, <1>9, <3>1
    <3>2. CASE s # {}
      <4>1. Max(s) \in s /\ s \ {Max(s)} \in T
        BY <1>3, <2>1, <3>2
      <4>2. f[s] = AddTopic(f[s \ {Max(s)}], found[Max(s)])
        BY <1>9, <3>2
      <4>3. f[s \ {Max(s)}] \in V /\ found[Max(s)] \in N
        BY <1>2, <4>1
      <4>4. \A y \in V, x \in N : AddTopic(y, x) \in V
        BY AddTopicTyped
      <4>. HIDE DEF V
      <4>5. f[s] \in V
        BY <4>2, <4>3, <4>4
      <4>. QED
        BY <4>5
    <3>. QED
      BY <3>1, <3>2
  <2>2. \A s \in SUBSET S : s \in T
    <3>. HIDE DEF T, S
    <3>. QED
      BY <1>2, <2>1, SubsetInduction
  <2>. QED
    BY <2>2
<1>. QED
  BY <1>1, <1>10

LEMMA TopicsTyped ==
  ASSUME NEW pages \in Seq(Page), NEW brand, NEW lang
  PROVE  Topics(pages, brand, lang) \in Seq(Name)
<1>. DEFINE found == Subjects(ContentTitles(pages, lang), brand, lang)
            fallback == Subjects(HomeTitles(pages, lang), brand, lang)
<1>1. Topics(pages, brand, lang) = IF found # << >> THEN FoldLeft(AddTopic, << >>, found)
                                   ELSE SubSeq(fallback, 1, Least(1, Len(fallback)))
  BY DEF Topics
<1>2. found \in Seq(Name) /\ fallback \in Seq(Name)
  BY TitlesTyped, SubjectsTyped
<1>. HIDE DEF found, fallback
<1>3. FoldLeft(AddTopic, << >>, found) \in Seq(Name)
  BY <1>2, FoldedTopics
<1>4. SubSeq(fallback, 1, Least(1, Len(fallback))) \in Seq(Name)
  BY <1>2, Prefix
<1>. QED
  BY <1>1, <1>3, <1>4

LEMMA StatedEvidence ==
  ASSUME NEW field \in EvidenceFields, NEW N \in SUBSET Name
  PROVE  {Evidence(field, c, 9000) : c \in N} \in SUBSET Evidences
<1>1. 9000 \in Score
  BY KindScores
<1>. QED
  BY <1>1, EvidenceIs

LEMMA ProfileIs ==
  ASSUME NEW pages \in Seq(Page)
  PROVE  ProfileTyped(BuildProfile(pages))
<1>. DEFINE p == BuildProfile(pages)
            brand == ResolveBrand(pages)
            legal == LegalName(pages)
            locations == Locations(pages)
            languages == Languages(pages)
            countries == Countries(pages)
            products == FirstOffers(Offers(pages, "product"))
            stated == FirstOffers(Offers(pages, "service"))
            services == IF stated = {} /\ products = {} THEN TitleOffers(pages, brand, locations) ELSE stated
            lang == GenLanguage(PrimaryLanguage(pages), languages)
            categories == Categories(pages, brand)
            topics == IF services = {} /\ products = {} THEN Topics(pages, brand, lang) ELSE << >>
            offered == {e \in services \cup products \cup {legal} : e.confidence > 0}
            spoken == {Evidence("language", {l}, 9000) : l \in languages}
            placed == {Evidence("country", c, 9000) : c \in countries}
            located == {Evidence("location", l, 9000) : l \in locations}
            sorted == {Evidence("product_category", c, 9000) : c \in ToSet(categories)}
            named == IF brand.name = NoName THEN {}
                     ELSE {Evidence("brand_name", brand.name, brand.confidence)}
<1>1. /\ p.brand = brand.name /\ p.aliases = brand.aliases /\ p.language = lang
      /\ p.services = Sorted(Values(services)) /\ p.products = Sorted(Values(products))
      /\ p.locations = Sorted(locations) /\ p.categories = categories /\ p.topics = topics
  BY DEF BuildProfile
<1>2. p.evidence = offered \cup spoken \cup placed \cup located \cup sorted \cup named
  BY DEF BuildProfile
<1>3. Branded(brand)
  BY ResolveBrandIs
<1>4. legal \in Evidences /\ locations \in SUBSET Name /\ countries \in SUBSET Name /\ languages \in SUBSET Words
  BY LegalNameIs, PlacesOfBusiness, LanguagesAre
<1>5. products \in SUBSET Evidences /\ stated \in SUBSET Evidences
  BY FirstOffersTyped DEF Kinds
<1>6. services \in SUBSET Evidences
  <2>1. TitleOffers(pages, brand, locations) \in SUBSET Evidences
    BY TitleOffersTyped
  <2>. QED
    BY <1>5, <2>1
<1>7. lang \in Supported
  BY <1>4, GenLanguageIs
<1>8. categories \in Seq(Name)
  BY CategoriesTyped
<1>9. topics \in Seq(Name)
  <2>1. Topics(pages, brand, lang) \in Seq(Name)
    BY TopicsTyped
  <2>2. << >> \in Seq(Name)
    OBVIOUS
  <2>. QED
    BY <2>1, <2>2
<1>. HIDE DEF p, brand, legal, locations, languages, countries, products, stated, services, lang, categories, topics
<1>10. Sorted(Values(services)) \in Seq(Name) /\ Sorted(Values(products)) \in Seq(Name) /\ Sorted(locations) \in Seq(Name)
  BY <1>4, <1>5, <1>6, ValuesTyped, SortedIs
<1>11. offered \in SUBSET Evidences
  BY <1>4, <1>5, <1>6
<1>12. spoken \in SUBSET Evidences
  <2>1. 9000 \in Score /\ "language" \in EvidenceFields
    BY KindScores DEF EvidenceFields
  <2>2. \A l \in languages : {l} \in Name
    BY <1>4 DEF Name
  <2>3. \A l \in languages : Evidence("language", {l}, 9000) \in Evidences
    <3>. SUFFICES ASSUME NEW l \in languages PROVE Evidence("language", {l}, 9000) \in Evidences
      OBVIOUS
    <3>1. PICK n \in Name : n = {l}
      BY <2>2
    <3>2. Evidence("language", n, 9000) \in Evidences
      BY <2>1, EvidenceIs
    <3>. QED
      BY <3>1, <3>2
  <2>. DEFINE said(l) == Evidence("language", {l}, 9000)
  <2>4. \A l \in languages : said(l) \in Evidences
    BY <2>3
  <2>5. spoken = {said(l) : l \in languages}
    OBVIOUS
  <2>. HIDE DEF said, spoken
  <2>. QED
    BY <2>4, <2>5
<1>13. placed \in SUBSET Evidences /\ located \in SUBSET Evidences
  <2>1. "country" \in EvidenceFields /\ "location" \in EvidenceFields
    BY DEF EvidenceFields
  <2>. QED
    BY <1>4, <2>1, StatedEvidence
<1>14. sorted \in SUBSET Evidences
  <2>1. "product_category" \in EvidenceFields
    BY DEF EvidenceFields
  <2>2. ToSet(categories) \in SUBSET Name
    BY <1>8, ElementsFinite
  <2>. QED
    BY <2>1, <2>2, StatedEvidence
<1>15. named \in SUBSET Evidences
  <2>1. "brand_name" \in EvidenceFields
    BY DEF EvidenceFields
  <2>2. Evidence("brand_name", brand.name, brand.confidence) \in Evidences
    BY <1>3, <2>1, EvidenceIs DEF Branded
  <2>. QED
    BY <2>2
<1>. HIDE DEF offered, spoken, placed, located, sorted, named
<1>16. p.evidence \in SUBSET Evidences
  BY <1>2, <1>11, <1>12, <1>13, <1>14, <1>15
<1>17. p.brand \in Name /\ p.aliases \in SUBSET Name /\ p.language \in Supported
  BY <1>1, <1>3, <1>7 DEF Branded
<1>18. /\ p.services \in Seq(Name) /\ p.products \in Seq(Name) /\ p.locations \in Seq(Name)
       /\ p.categories \in Seq(Name) /\ p.topics \in Seq(Name)
  BY <1>1, <1>8, <1>9, <1>10
<1>. QED
  BY <1>16, <1>17, <1>18 DEF p, ProfileTyped

-----------------------------------------------------------------------------
(* The questions: finitely many candidates, each with a positive priority. *)
Intents == {"recommendation", "local", "category_discovery", "best_of", "comparison", "pricing",
            "combined_service", "trust", "alternative", "branded", "topic_info", "buying_advice",
            "category_pricing"}
KeyFields == {"service", "product", "location", "brand_name", "product_category", "topic"}
Keys  == [field : KeyFields, value : Name]
Specs == [intent : Intents, topic : Name, service : Name, product : Name, location : Name,
          evidence : SUBSET Keys]
Clusters == [spec : Specs, priority : Nat \ {0}]

LEMMA PairsFinite ==
  ASSUME NEW S, IsFiniteSet(S), NEW T, IsFiniteSet(T)
  PROVE  IsFiniteSet(S \X T)
  BY FS_Product

LEMMA ScoreFinite == IsFiniteSet(Score)
<1>1. PICK whole \in Int : whole = 10000
  OBVIOUS
<1>2. 0 \in Int
  OBVIOUS
<1>3. IsFiniteSet(0..whole)
  BY <1>2, FS_Interval, Zenon
<1>. QED
  BY <1>1, <1>3 DEF Score

LEMMA EvidencesFinite == IsFiniteSet(Evidences)
<1>. DEFINE S == EvidenceFields \X (Name \X Score)
            f == [q \in S |-> [field |-> q[1], value |-> q[2][1], confidence |-> q[2][2]]]
<1>1. IsFiniteSet({"legal_name", "product", "service", "language", "country", "location",
                   "product_category", "brand_name", "brand_name"})
  BY Enumerated
<1>2. IsFiniteSet(EvidenceFields)
  BY <1>1 DEF EvidenceFields
<1>3. IsFiniteSet(S)
  BY <1>2, NamesFinite, ScoreFinite, PairsFinite
<1>4. ASSUME NEW e \in Evidences PROVE \E q \in S : f[q] = e
  <2>1. /\ e.field \in EvidenceFields /\ e.value \in Name /\ e.confidence \in Score
        /\ e = [field |-> e.field, value |-> e.value, confidence |-> e.confidence]
    BY DEF Evidences
  <2>2. <<e.field, <<e.value, e.confidence>>>> \in S
    BY <2>1
  <2>3. f[<<e.field, <<e.value, e.confidence>>>>] = e
    BY <2>1, <2>2
  <2>. QED
    BY <2>2, <2>3
<1>. HIDE DEF f, S
<1>5. IsFiniteSet({f[q] : q \in S})
  BY <1>3, ImageFinite
<1>6. Evidences \subseteq {f[q] : q \in S}
  BY <1>4
<1>. QED
  BY <1>5, <1>6, FS_Subset

LEMMA KeysFinite == IsFiniteSet(Keys)
<1>. DEFINE S == KeyFields \X Name
            f == [q \in S |-> [field |-> q[1], value |-> q[2]]]
<1>1. IsFiniteSet({"service", "product", "location", "brand_name", "product_category", "topic",
                   "topic", "topic", "topic"})
  BY Enumerated
<1>2. IsFiniteSet(KeyFields)
  BY <1>1 DEF KeyFields
<1>3. IsFiniteSet(S)
  BY <1>2, NamesFinite, PairsFinite
<1>4. ASSUME NEW k \in Keys PROVE \E q \in S : f[q] = k
  <2>1. k.field \in KeyFields /\ k.value \in Name /\ k = [field |-> k.field, value |-> k.value]
    BY DEF Keys
  <2>2. <<k.field, k.value>> \in S
    BY <2>1
  <2>3. f[<<k.field, k.value>>] = k
    BY <2>1, <2>2
  <2>. QED
    BY <2>2, <2>3
<1>. HIDE DEF f, S
<1>5. IsFiniteSet({f[q] : q \in S})
  BY <1>3, ImageFinite
<1>6. Keys \subseteq {f[q] : q \in S}
  BY <1>4
<1>. QED
  BY <1>5, <1>6, FS_Subset

LEMMA SpecsFinite == IsFiniteSet(Specs)
<1>. DEFINE K == SUBSET Keys
            T == (Name \X Name) \X (Name \X Name)
            S == (Intents \X K) \X T
            f == [q \in S |-> [intent |-> q[1][1], topic |-> q[2][1][1], service |-> q[2][1][2],
                               product |-> q[2][2][1], location |-> q[2][2][2], evidence |-> q[1][2]]]
<1>1. IsFiniteSet(Intents)
  <2>. DEFINE A == {"recommendation", "local", "category_discovery", "best_of", "comparison", "pricing",
                    "combined_service", "trust", "alternative"}
              B == {"branded", "topic_info", "buying_advice", "category_pricing", "category_pricing",
                    "category_pricing", "category_pricing", "category_pricing", "category_pricing"}
  <2>1. IsFiniteSet(A) /\ IsFiniteSet(B)
    BY Enumerated
  <2>2. Intents = A \cup B
    BY DEF Intents
  <2>. HIDE DEF A, B
  <2>. QED
    BY <2>1, <2>2, FS_Union
<1>2. IsFiniteSet(K)
  BY KeysFinite, FS_SUBSET
<1>3. IsFiniteSet(S)
  <2>1. IsFiniteSet(Name \X Name)
    BY NamesFinite, PairsFinite
  <2>2. IsFiniteSet(T)
    BY <2>1, PairsFinite
  <2>. HIDE DEF K, T
  <2>3. IsFiniteSet(Intents \X K)
    BY <1>1, <1>2, PairsFinite
  <2>. QED
    BY <2>2, <2>3, PairsFinite
<1>4. ASSUME NEW s \in Specs PROVE \E q \in S : f[q] = s
  <2>. DEFINE q == <<<<s.intent, s.evidence>>, <<<<s.topic, s.service>>, <<s.product, s.location>>>>>>
  <2>1. /\ s.intent \in Intents /\ s.evidence \in K /\ s.topic \in Name /\ s.service \in Name
        /\ s.product \in Name /\ s.location \in Name
        /\ s = [intent |-> s.intent, topic |-> s.topic, service |-> s.service, product |-> s.product,
                location |-> s.location, evidence |-> s.evidence]
    BY DEF Specs
  <2>. HIDE DEF K
  <2>2. q \in S
    BY <2>1
  <2>3. f[q] = s
    BY <2>1, <2>2
  <2>. QED
    BY <2>2, <2>3
<1>. HIDE DEF f, S, K, T
<1>5. IsFiniteSet({f[q] : q \in S})
  BY <1>3, ImageFinite
<1>6. Specs \subseteq {f[q] : q \in S}
  BY <1>4
<1>. QED
  BY <1>5, <1>6, FS_Subset

LEMMA AskIs ==
  ASSUME NEW intent \in Intents, NEW topic \in Name, NEW service \in Name, NEW product \in Name,
         NEW location \in Name, NEW evidence \in SUBSET Keys
  PROVE  Ask(intent, topic, service, product, location, evidence) \in Specs
  BY DEF Ask, Specs

LEMMA KeyIs ==
  ASSUME NEW field \in KeyFields, NEW name \in Name
  PROVE  Key(field, name) \in Keys
  BY DEF Key, Keys

LEMMA ServiceSpecsTyped ==
  ASSUME NEW p, ProfileTyped(p)
  PROVE  ServiceSpecs(p) \in SUBSET Specs
<1>. DEFINE ev(s) == {Key("service", s)}
            two(s) == {Ask("category_discovery", s, s, NoName, NoName, ev(s)),
                       Ask("recommendation", NoName, s, NoName, NoName, ev(s))}
            near(s) == {Ask("local", NoName, s, NoName, l, ev(s) \cup {Key("location", l)}) : l \in ToSet(p.locations)}
<1>1. ServiceSpecs(p) = UNION {two(s) \cup near(s) : s \in ToSet(p.services)}
  BY DEF ServiceSpecs
<1>2. ToSet(p.services) \in SUBSET Name /\ ToSet(p.locations) \in SUBSET Name
  BY ElementsFinite DEF ProfileTyped
<1>3. {"category_discovery", "recommendation", "local"} \subseteq Intents /\ {"service", "location"} \subseteq KeyFields
  BY DEF Intents, KeyFields
<1>4. ASSUME NEW s \in ToSet(p.services) PROVE ev(s) \in SUBSET Keys
  BY <1>2, <1>3, KeyIs
<1>5. ASSUME NEW s \in ToSet(p.services) PROVE two(s) \in SUBSET Specs
  <2>. HIDE DEF ev
  <2>1. s \in Name /\ NoName \in Name /\ ev(s) \in SUBSET Keys
    BY <1>2, <1>4, NoNameIs
  <2>2. Ask("category_discovery", s, s, NoName, NoName, ev(s)) \in Specs
    BY <1>3, <2>1, AskIs
  <2>3. Ask("recommendation", NoName, s, NoName, NoName, ev(s)) \in Specs
    BY <1>3, <2>1, AskIs
  <2>. QED
    BY <2>2, <2>3
<1>6. ASSUME NEW s \in ToSet(p.services), NEW l \in ToSet(p.locations)
      PROVE  Ask("local", NoName, s, NoName, l, ev(s) \cup {Key("location", l)}) \in Specs
  <2>1. Key("location", l) \in Keys
    BY <1>2, <1>3, KeyIs
  <2>. HIDE DEF ev
  <2>2. ev(s) \cup {Key("location", l)} \in SUBSET Keys
    BY <1>4, <2>1
  <2>3. s \in Name /\ l \in Name /\ NoName \in Name
    BY <1>2, NoNameIs
  <2>. QED
    BY <1>3, <2>2, <2>3, AskIs
<1>7. \A s \in ToSet(p.services) : near(s) \in SUBSET Specs
  <2>. HIDE DEF ev
  <2>. QED
    BY <1>6
<1>. HIDE DEF two, near
<1>. QED
  BY <1>1, <1>5, <1>7

LEMMA ProductSpecsTyped ==
  ASSUME NEW p, ProfileTyped(p)
  PROVE  ProductSpecs(p) \in SUBSET Specs
<1>. DEFINE ev(s) == {Key("product", s)}
            asked(s) == {"alternative", "pricing"} \cup (IF s \in Suppressed(p) THEN {} ELSE {"comparison"})
            three(s) == {Ask(intent, NoName, NoName, s, NoName, ev(s)) : intent \in asked(s)}
<1>1. ProductSpecs(p) = UNION {three(s) : s \in ToSet(p.products)}
  BY DEF ProductSpecs
<1>2. ToSet(p.products) \in SUBSET Name
  BY ElementsFinite DEF ProfileTyped
<1>3. {"alternative", "pricing", "comparison"} \subseteq Intents /\ "product" \in KeyFields
  BY DEF Intents, KeyFields
<1>4. ASSUME NEW s \in ToSet(p.products), NEW intent \in asked(s)
      PROVE  Ask(intent, NoName, NoName, s, NoName, ev(s)) \in Specs
  <2>1. intent \in Intents
    BY <1>3
  <2>2. ev(s) \in SUBSET Keys
    BY <1>2, <1>3, KeyIs
  <2>. HIDE DEF ev, asked
  <2>3. s \in Name /\ NoName \in Name
    BY <1>2, NoNameIs
  <2>. QED
    BY <2>1, <2>2, <2>3, AskIs
<1>5. \A s \in ToSet(p.products) : three(s) \in SUBSET Specs
  <2>. HIDE DEF ev, asked
  <2>. QED
    BY <1>4
<1>. HIDE DEF three
<1>. QED
  BY <1>1, <1>5

LEMMA CombinedSpecsTyped ==
  ASSUME NEW p, ProfileTyped(p)
  PROVE  CombinedSpecs(p) \in SUBSET Specs
<1>1. p.services \in Seq(Name)
  BY DEF ProfileTyped
<1>2. CASE Len(p.services) < 2
  BY <1>2 DEF CombinedSpecs
<1>3. CASE ~(Len(p.services) < 2)
  <2>. DEFINE ev == {Key("service", p.services[1]), Key("service", p.services[2])}
  <2>1. p.services[1] \in Name /\ p.services[2] \in Name
    <3>1. 1 \in 1..Len(p.services) /\ 2 \in 1..Len(p.services)
      BY <1>1, <1>3, Places
    <3>. QED
      BY <1>1, <3>1, Places
  <2>2. "service" \in KeyFields /\ "combined_service" \in Intents
    BY DEF KeyFields, Intents
  <2>3. ev \in SUBSET Keys
    BY <2>1, <2>2, KeyIs
  <2>4. CombinedSpecs(p) = {Ask("combined_service", NoName, p.services[1], p.services[2], NoName, ev)}
    BY <1>3 DEF CombinedSpecs
  <2>. HIDE DEF ev
  <2>5. Ask("combined_service", NoName, p.services[1], p.services[2], NoName, ev) \in Specs
    BY <2>1, <2>2, <2>3, NoNameIs, AskIs
  <2>. QED
    BY <2>4, <2>5
<1>. QED
  BY <1>2, <1>3

LEMMA PrimarySpecsTyped ==
  ASSUME NEW p, ProfileTyped(p)
  PROVE  PrimarySpecs(p) \in SUBSET Specs
<1>. DEFINE t == PrimaryTopic(p)
            ev == {Key("service", t)}
<1>1. t \in Name
  <2>1. p.services \in Seq(Name) /\ p.categories \in Seq(Name) /\ p.brand \in Name
    BY DEF ProfileTyped
  <2>2. <<p.brand>> \in Seq(Name) /\ Len(<<p.brand>>) = 1
    BY <2>1
  <2>. DEFINE a == p.services \o p.categories
              all == a \o <<p.brand>>
  <2>3. a \in Seq(Name) /\ Len(a) \in Nat
    BY <2>1, Joined, Places
  <2>4. t = Head(all)
    BY DEF PrimaryTopic
  <2>. HIDE DEF a
  <2>5. all \in Seq(Name) /\ Len(all) = Len(a) + 1
    BY <2>2, <2>3, Joined
  <2>. HIDE DEF all
  <2>6. all # << >>
    BY <2>3, <2>5
  <2>. QED
    BY <2>4, <2>5, <2>6, FirstIs
<1>2. "service" \in KeyFields /\ {"trust", "best_of"} \subseteq Intents
  BY DEF KeyFields, Intents
<1>3. PrimarySpecs(p) = IF t = NoName THEN {}
                        ELSE {Ask(intent, NoName, t, NoName, NoName, ev) : intent \in {"trust", "best_of"}}
  BY DEF PrimarySpecs
<1>. HIDE DEF t
<1>4. ev \in SUBSET Keys
  BY <1>1, <1>2, KeyIs
<1>. HIDE DEF ev
<1>5. \A intent \in {"trust", "best_of"} : Ask(intent, NoName, t, NoName, NoName, ev) \in Specs
  BY <1>1, <1>2, <1>4, NoNameIs, AskIs
<1>. QED
  BY <1>3, <1>5

LEMMA BrandSpecsTyped ==
  ASSUME NEW p, ProfileTyped(p)
  PROVE  BrandSpecs(p) \in SUBSET Specs
<1>. DEFINE ev == {Key("brand_name", p.brand)}
<1>1. p.brand \in Name
  BY DEF ProfileTyped
<1>2. "brand_name" \in KeyFields /\ "branded" \in Intents
  BY DEF KeyFields, Intents
<1>3. ev \in SUBSET Keys
  BY <1>1, <1>2, KeyIs
<1>4. BrandSpecs(p) = IF p.brand = NoName THEN {} ELSE {Ask("branded", p.brand, NoName, NoName, NoName, ev)}
  BY DEF BrandSpecs
<1>. HIDE DEF ev
<1>5. Ask("branded", p.brand, NoName, NoName, NoName, ev) \in Specs
  BY <1>1, <1>2, <1>3, NoNameIs, AskIs
<1>. QED
  BY <1>4, <1>5

LEMMA CategorySpecsTyped ==
  ASSUME NEW p, ProfileTyped(p)
  PROVE  CategorySpecs(p) \in SUBSET Specs /\ TopicSpecs(p) \in SUBSET Specs
<1>. DEFINE C == ToSet(p.categories)
            T == ToSet(p.topics)
            three == {"buying_advice", "category_pricing", "category_discovery"}
            asked(c, intent) == Ask(intent, c, NoName, NoName, NoName, {Key("product_category", c)})
            about(t) == Ask("topic_info", t, NoName, NoName, NoName, {Key("topic", t)})
<1>1. C \in SUBSET Name /\ T \in SUBSET Name
  BY ElementsFinite DEF ProfileTyped
<1>2. three \subseteq Intents /\ "topic_info" \in Intents /\ {"product_category", "topic"} \subseteq KeyFields
  BY DEF Intents, KeyFields
<1>3. /\ CategorySpecs(p) = {asked(c, intent) : c \in C, intent \in three}
      /\ TopicSpecs(p) = {about(t) : t \in T}
  BY DEF CategorySpecs, TopicSpecs
<1>. HIDE DEF C, T, three
<1>4. ASSUME NEW c \in C, NEW intent \in three
      PROVE  asked(c, intent) \in Specs
  <2>1. Key("product_category", c) \in Keys /\ c \in Name /\ NoName \in Name
    BY <1>1, <1>2, KeyIs, NoNameIs
  <2>2. {Key("product_category", c)} \in SUBSET Keys
    BY <2>1
  <2>. QED
    BY <1>2, <2>1, <2>2, AskIs
<1>5. ASSUME NEW t \in T
      PROVE  about(t) \in Specs
  <2>1. Key("topic", t) \in Keys /\ t \in Name /\ NoName \in Name
    BY <1>1, <1>2, KeyIs, NoNameIs
  <2>2. {Key("topic", t)} \in SUBSET Keys
    BY <2>1
  <2>. QED
    BY <1>2, <2>1, <2>2, AskIs
<1>. HIDE DEF asked, about
<1>6. CategorySpecs(p) \in SUBSET Specs
  BY <1>3, <1>4
<1>7. TopicSpecs(p) \in SUBSET Specs
  BY <1>3, <1>5
<1>. QED
  BY <1>6, <1>7

LEMMA CandidateSpecsTyped ==
  ASSUME NEW p, ProfileTyped(p)
  PROVE  CandidateSpecs(p) \in SUBSET Specs /\ IsFiniteSet(CandidateSpecs(p))
<1>1. CandidateSpecs(p) \in SUBSET Specs
  BY ServiceSpecsTyped, ProductSpecsTyped, CombinedSpecsTyped, PrimarySpecsTyped, BrandSpecsTyped,
     CategorySpecsTyped DEF CandidateSpecs
<1>. QED
  BY <1>1, SpecsFinite, FS_Subset

-----------------------------------------------------------------------------
(* Priorities, and the clusters in their order. *)
LEMMA ByNumber ==
  ASSUME NEW S, NEW f, \A x \in S : f[x] \in Int
  PROVE  Orders({q \in S \X S : f[q[1]] > f[q[2]]}, S)
<1>. DEFINE below == {q \in S \X S : f[q[1]] > f[q[2]]}
<1>1. \A x, y \in S : <<x, y>> \in below <=> f[x] > f[y]
  OBVIOUS
<1>. HIDE DEF below
<1>2. \A x \in S : <<x, x>> \notin below
  BY <1>1
<1>3. ASSUME NEW x \in S, NEW y \in S, NEW z \in S, <<x, y>> \in below, <<y, z>> \in below
      PROVE  <<x, z>> \in below
  BY <1>1, <1>3
<1>4. Orders(below, S)
  BY <1>2, <1>3 DEF Orders
<1>. QED
  BY <1>4 DEF below

LEMMA WeightsAre ==
  ASSUME NEW i \in Intents
  PROVE  Relevance[i] \in Nat \ {0} /\ CommercialIntent[i] \in Nat \ {0}
  BY DEF Intents, Relevance, CommercialIntent

LEMMA EvidenceStrengthIs ==
  ASSUME NEW spec, NEW p, ProfileTyped(p)
  PROVE  EvidenceStrength(spec, p) \in Score
<1>. DEFINE E == {e \in p.evidence : Key(e.field, e.value) \in spec.evidence}
            g == [e \in E |-> e.confidence]
            found == {e.confidence : e \in E}
<1>1. EvidenceStrength(spec, p) = IF found = {} THEN 5000 ELSE Max(found)
  BY DEF EvidenceStrength
<1>2. E \in SUBSET Evidences
  BY DEF ProfileTyped
<1>3. IsFiniteSet(E)
  BY <1>2, EvidencesFinite, FS_Subset
<1>4. \A e \in E : g[e] \in Score
  BY <1>2 DEF Evidences
<1>5. found = {g[e] : e \in E}
  <2>. HIDE DEF E
  <2>. QED
    OBVIOUS
<1>. HIDE DEF E, g, found
<1>6. IsFiniteSet(found)
  BY <1>3, <1>5, ImageFinite
<1>7. found \in SUBSET Score /\ Score \in SUBSET Int /\ 5000 \in Score
  BY <1>4, <1>5 DEF Score
<1>8. found # {} => Max(found) \in found
  BY <1>6, <1>7, MaxIs
<1>9. CASE found = {}
  BY <1>1, <1>7, <1>9
<1>10. CASE found # {}
  <2>3. \A x \in found : x \in Score
    BY <1>7
  <2>1. Max(found) \in Score
    BY <1>8, <1>10, <2>3
  <2>2. EvidenceStrength(spec, p) = Max(found)
    BY <1>1, <1>10
  <2>. QED
    BY <2>1, <2>2
<1>. QED
  BY <1>9, <1>10

LEMMA BaseIs ==
  ASSUME NEW spec \in Specs, NEW p, ProfileTyped(p)
  PROVE  Base(spec, p) \in Nat \ {0}
<1>1. spec.intent \in Intents
  BY DEF Specs
<1>2. PICK a \in Nat \ {0} : a = Relevance[spec.intent]
  BY <1>1, WeightsAre
<1>3. PICK b \in Nat \ {0} : b = CommercialIntent[spec.intent]
  BY <1>1, WeightsAre
<1>4. PICK c \in Nat : c = EvidenceStrength(spec, p)
  BY EvidenceStrengthIs, ScoreIs
<1>5. RoundDiv(c, 5) \in Nat
  BY DEF RoundDiv
<1>6. PICK d \in Nat : d = RoundDiv(c, 5)
  BY <1>5
<1>7. Base(spec, p) = 35 * a + 30 * b + d + (IF spec.location = NoName THEN 0 ELSE 500)
  BY <1>2, <1>3, <1>4, <1>6 DEF Base
<1>. QED
  BY <1>7

LEMMA DiversityIs ==
  ASSUME NEW s, NEW ordered \in Seq(Specs)
  PROVE  Diversity(s, ordered) \in Nat
<1>. DEFINE X == {i \in DOMAIN ordered :
                    /\ ordered[i].intent = s.intent
                    /\ \E j \in DOMAIN ordered : i < j /\ ordered[j] = s}
<1>1. Diversity(s, ordered) = RoundDiv(1000, 1 + Cardinality(X))
  BY DEF Diversity
<1>2. X \in SUBSET DOMAIN ordered
  OBVIOUS
<1>. HIDE DEF X
<1>3. Cardinality(X) \in 0..Len(ordered) /\ Len(ordered) \in Nat
  BY <1>2, PartCounted, Places
<1>4. PICK n \in Nat : n = Cardinality(X)
  BY <1>3
<1>5. RoundDiv(1000, 1 + n) \in Nat
  BY DEF RoundDiv
<1>. QED
  BY <1>1, <1>4, <1>5

LEMMA ClusterIs ==
  ASSUME NEW s \in Specs, NEW n \in Nat \ {0}
  PROVE  [spec |-> s, priority |-> n] \in Clusters
  BY DEF Clusters

(* The questions that are asked: at most MaxClusters of the candidates, and *)
(* all of them when there are fewer.                                        *)
LEMMA ClustersAre ==
  ASSUME NEW p, ProfileTyped(p)
  PROVE  /\ GenerateClusters(p) \in Seq(Clusters)
         /\ Len(GenerateClusters(p)) <= MaxClusters
         /\ Len(GenerateClusters(p)) < MaxClusters =>
              \A s \in CandidateSpecs(p) : \E i \in DOMAIN GenerateClusters(p) :
                GenerateClusters(p)[i].spec = s
         /\ \A i \in DOMAIN GenerateClusters(p) : GenerateClusters(p)[i].spec \in CandidateSpecs(p)
<1>. DEFINE specs == CandidateSpecs(p)
            base == [s \in specs |-> Base(s, p)]
            ordered == SortBy(specs, {q \in specs \X specs : Base(q[1], p) > Base(q[2], p)})
            cluster == [s \in specs |-> [spec |-> s, priority |-> Base(s, p) + Diversity(s, ordered)]]
            built == {[spec |-> s, priority |-> Base(s, p) + Diversity(s, ordered)] : s \in specs}
            priority == [c \in built |-> c.priority]
            ranked == SortBy(built, {q \in built \X built : q[1].priority > q[2].priority})
<1>1. GenerateClusters(p) = SubSeq(ranked, 1, Least(MaxClusters, Len(ranked)))
  BY DEF GenerateClusters
<1>2. specs \in SUBSET Specs /\ IsFiniteSet(specs)
  BY CandidateSpecsTyped
<1>3. \A s \in specs : base[s] \in Nat \ {0}
  BY <1>2, BaseIs
<1>. HIDE DEF specs
<1>4. ordered \in Seq(Specs)
  <2>. DEFINE below == {q \in specs \X specs : base[q[1]] > base[q[2]]}
  <2>0. below = {q \in specs \X specs : Base(q[1], p) > Base(q[2], p)}
    OBVIOUS
  <2>1. Sorts(ordered, specs, below)
    <3>. HIDE DEF base
    <3>1. Orders(below, specs)
      BY <1>3, ByNumber
    <3>. HIDE DEF below
    <3>. QED
      BY <1>2, <2>0, <3>1, SortIs
  <2>. HIDE DEF below
  <2>2. ordered \in Seq(specs)
    BY <2>1, SortHolds
  <2>. QED
    BY <1>2, <2>2, SeqMonotonic
<1>. HIDE DEF ordered
<1>5. \A s \in specs : cluster[s] \in Clusters /\ cluster[s].spec = s
  <2>. SUFFICES ASSUME NEW s \in specs PROVE cluster[s] \in Clusters /\ cluster[s].spec = s
    OBVIOUS
  <2>1. PICK n \in Nat : n = Diversity(s, ordered)
    BY <1>4, DiversityIs
  <2>2. Base(s, p) + n \in Nat \ {0}
    BY <1>2, BaseIs
  <2>3. cluster[s] = [spec |-> s, priority |-> Base(s, p) + n]
    BY <2>1
  <2>. QED
    BY <1>2, <2>2, <2>3, ClusterIs
<1>16. built = {cluster[s] : s \in specs}
  OBVIOUS
<1>. HIDE DEF cluster, base, built
<1>6. built \in SUBSET Clusters /\ IsFiniteSet(built)
  BY <1>2, <1>5, <1>16, ImageFinite
<1>7. /\ \A s \in specs : \E c \in built : c.spec = s
      /\ \A c \in built : c.spec \in specs
  BY <1>5, <1>16
<1>8. \A c \in built : priority[c] \in Int
  BY <1>6 DEF Clusters
<1>9. ranked \in Seq(Clusters) /\ ToSet(ranked) = built
  <2>. DEFINE below == {q \in built \X built : priority[q[1]] > priority[q[2]]}
  <2>0. below = {q \in built \X built : q[1].priority > q[2].priority}
    OBVIOUS
  <2>1. Sorts(ranked, built, below)
    <3>. HIDE DEF priority
    <3>1. Orders(below, built)
      BY <1>8, ByNumber
    <3>. HIDE DEF below
    <3>. QED
      BY <1>6, <2>0, <3>1, SortIs
  <2>. HIDE DEF below
  <2>2. ranked \in Seq(built) /\ ToSet(ranked) = built
    BY <2>1, SortHolds
  <2>. QED
    BY <1>6, <2>2, SeqMonotonic
<1>. HIDE DEF ranked
<1>10. MaxClusters \in Nat
  BY TemplatesAssumption
<1>. DEFINE m == Least(MaxClusters, Len(ranked))
            asked == SubSeq(ranked, 1, m)
<1>11. /\ asked \in Seq(Clusters) /\ Len(asked) = m /\ m <= MaxClusters
       /\ \A i \in 1..m : asked[i] = ranked[i]
  BY <1>9, <1>10, Prefix
<1>12. /\ DOMAIN asked = 1..Len(asked)
       /\ \A c \in built : \E i \in 1..Len(ranked) : ranked[i] = c
  BY <1>9, <1>11, Places, ElementsFinite
<1>13. m < MaxClusters => m = Len(ranked)
  <2>1. Len(ranked) \in Nat
    BY <1>9, Places
  <2>. QED
    BY <1>10, <2>1 DEF Least
<1>17. Len(ranked) \in Nat /\ m <= Len(ranked)
  BY <1>9, <1>10, Places DEF Least
<1>18. \A i \in 1..Len(ranked) : ranked[i] \in built
  BY <1>9, Places
<1>. HIDE DEF m, asked
<1>19. m \in Nat /\ \A i \in 1..m : asked[i].spec \in specs
  <2>1. m \in Nat
    BY <1>11, Places
  <2>2. \A i \in 1..m : i \in 1..Len(ranked)
    BY <1>17, <2>1
  <2>. QED
    BY <1>7, <1>11, <1>18, <2>1, <2>2
<1>14. Len(asked) < MaxClusters => \A s \in specs : \E i \in DOMAIN asked : asked[i].spec = s
  BY <1>7, <1>11, <1>12, <1>13
<1>15. GenerateClusters(p) = asked
  BY <1>1 DEF asked, m
<1>. QED
  BY <1>11, <1>12, <1>14, <1>15, <1>19 DEF specs

-----------------------------------------------------------------------------
(* What each intent requires: its weights add up to a hundred at most, and *)
(* the strength of what it requires is a score.                            *)
Signals == {"mention_service", "mention_location", "mention_product", "mention_brand",
            "depth_service", "depth_product", "colocation_sl", "colocation_services",
            "identity", "pricing", "trust"}
Balanced(R) ==
  /\ IsFiniteSet(R)
  /\ \A r \in R : r.weight \in Nat /\ r.signal \in Signals
  /\ SumFunctionOnSet([r \in R |-> r.weight], R) <= 100

LEMMA SumExtended ==
  ASSUME NEW S, IsFiniteSet(S), NEW x, NEW w, \A y \in S \cup {x} : w[y] \in Nat,
         NEW T, T = S \cup {x}
  PROVE  /\ IsFiniteSet(T)
         /\ SumFunctionOnSet(w, S) \in Int /\ SumFunctionOnSet(w, T) \in Int
         /\ SumFunctionOnSet(w, T) <= SumFunctionOnSet(w, S) + w[x]
<1>1. IsFiniteSet(T)
  BY FS_AddElement
<1>2. Numeric(w, S) /\ Numeric(w, T)
  BY DEF Numeric
<1>3. PICK p \in Int : p = SumFunctionOnSet(w, S)
  BY <1>2, SumInt
<1>4. PICK q \in Int : q = SumFunctionOnSet(w, T)
  BY <1>1, <1>2, SumInt
<1>5. PICK n \in Nat : n = w[x]
  OBVIOUS
<1>6. q <= p + n
  <2>1. CASE x \in S
    <3>1. T = S
      BY <2>1
    <3>2. q = p
      BY <1>3, <1>4, <3>1
    <3>. QED
      BY <3>2
  <2>2. CASE x \notin S
    <3>1. T \ {x} = S /\ x \in T
      BY <2>2
    <3>2. SumFunctionOnSet(w, T) = w[x] + SumFunctionOnSet(w, T \ {x})
      BY <1>1, <1>2, <3>1, SumSplit
    <3>3. SumFunctionOnSet(w, T \ {x}) = p
      BY <1>3, <3>1
    <3>4. q = n + p
      BY <1>4, <1>5, <3>2, <3>3
    <3>. QED
      BY <3>4
  <2>. QED
    BY <2>1, <2>2
<1>. QED
  BY <1>1, <1>3, <1>4, <1>5, <1>6

LEMMA SumOfThree ==
  ASSUME NEW a, NEW b, NEW c, NEW w, \A y \in {a, b, c} : w[y] \in Nat, NEW T, T = {a, b, c}
  PROVE  /\ IsFiniteSet(T) /\ SumFunctionOnSet(w, T) \in Int
         /\ SumFunctionOnSet(w, T) <= w[a] + w[b] + w[c]
<1>. DEFINE E == {}
            A == {a}
            B == {a, b}
<1>1. IsFiniteSet(E) /\ SumFunctionOnSet(w, E) = 0
  BY FS_EmptySet, SumEmpty
<1>2. /\ A = E \cup {a} /\ B = A \cup {b} /\ T = B \cup {c}
      /\ \A y \in T : w[y] \in Nat
  OBVIOUS
<1>. HIDE DEF E, A, B
<1>3. /\ IsFiniteSet(A) /\ SumFunctionOnSet(w, A) \in Int
      /\ SumFunctionOnSet(w, A) <= SumFunctionOnSet(w, E) + w[a]
  BY <1>1, <1>2, SumExtended
<1>4. /\ IsFiniteSet(B) /\ SumFunctionOnSet(w, B) \in Int
      /\ SumFunctionOnSet(w, B) <= SumFunctionOnSet(w, A) + w[b]
  BY <1>2, <1>3, SumExtended
<1>5. /\ IsFiniteSet(T) /\ SumFunctionOnSet(w, T) \in Int
      /\ SumFunctionOnSet(w, T) <= SumFunctionOnSet(w, B) + w[c]
  BY <1>2, <1>4, SumExtended
<1>6. w[a] \in Nat /\ w[b] \in Nat /\ w[c] \in Nat
  OBVIOUS
<1>. QED
  BY <1>1, <1>3, <1>4, <1>5, <1>6

Need == [weight : Nat, signal : Signals]

LEMMA ThreeBalanced ==
  ASSUME NEW a \in Need, NEW b \in Need, NEW c \in Need,
         a.weight + b.weight + c.weight <= 100
  PROVE  Balanced({a, b, c})
<1>. DEFINE R == {a, b, c}
            w == [r \in R |-> r.weight]
<1>1. \A r \in R : r.weight \in Nat /\ r.signal \in Signals
  BY DEF Need
<1>2. w[a] = a.weight /\ w[b] = b.weight /\ w[c] = c.weight /\ \A r \in R : w[r] \in Nat
  BY <1>1
<1>3. R = {a, b, c}
  OBVIOUS
<1>. HIDE DEF R, w
<1>4. IsFiniteSet(R) /\ SumFunctionOnSet(w, R) \in Int /\ SumFunctionOnSet(w, R) <= w[a] + w[b] + w[c]
  BY <1>2, <1>3, SumOfThree
<1>5. w[a] \in Nat /\ w[b] \in Nat /\ w[c] \in Nat
  BY <1>2, <1>3
<1>6. SumFunctionOnSet(w, R) <= 100
  BY <1>2, <1>4, <1>5
<1>. QED
  BY <1>1, <1>3, <1>4, <1>6 DEF Balanced, w

LEMMA TwoBalanced ==
  ASSUME NEW a \in Need, NEW b \in Need, a.weight + b.weight <= 100
  PROVE  Balanced({a, b})
<1>. DEFINE R == {a, b}
            A == {a}
            E == {}
            w == [r \in R |-> r.weight]
<1>1. \A r \in R : r.weight \in Nat /\ r.signal \in Signals
  BY DEF Need
<1>2. w[a] = a.weight /\ w[b] = b.weight /\ \A r \in R : w[r] \in Nat
  BY <1>1
<1>3. R = {a, b} /\ A = E \cup {a} /\ R = A \cup {b}
  OBVIOUS
<1>4. IsFiniteSet(E) /\ SumFunctionOnSet(w, E) = 0
  BY FS_EmptySet, SumEmpty
<1>. HIDE DEF R, A, E, w
<1>5. IsFiniteSet(A) /\ SumFunctionOnSet(w, A) \in Int /\ SumFunctionOnSet(w, A) <= SumFunctionOnSet(w, E) + w[a]
  BY <1>2, <1>3, <1>4, SumExtended
<1>6. IsFiniteSet(R) /\ SumFunctionOnSet(w, R) \in Int /\ SumFunctionOnSet(w, R) <= SumFunctionOnSet(w, A) + w[b]
  BY <1>2, <1>3, <1>5, SumExtended
<1>7. w[a] \in Nat /\ w[b] \in Nat
  BY <1>2, <1>3
<1>8. SumFunctionOnSet(w, R) <= 100
  BY <1>2, <1>4, <1>5, <1>6, <1>7
<1>. QED
  BY <1>1, <1>3, <1>6, <1>8 DEF Balanced, w

LEMMA FiveBalanced ==
  ASSUME NEW a \in Need, NEW b \in Need, NEW c \in Need, NEW d \in Need, NEW e \in Need,
         a.weight + b.weight + c.weight + d.weight + e.weight <= 100
  PROVE  Balanced({a, b, c, d, e})
<1>. DEFINE R == {a, b, c, d, e}
            S == {a, b, c}
            T == {a, b, c, d}
            w == [r \in R |-> r.weight]
<1>1. \A r \in R : r.weight \in Nat /\ r.signal \in Signals
  BY DEF Need
<1>2. /\ w[a] = a.weight /\ w[b] = b.weight /\ w[c] = c.weight /\ w[d] = d.weight /\ w[e] = e.weight
      /\ \A r \in R : w[r] \in Nat
  BY <1>1
<1>3. R = {a, b, c, d, e} /\ S = {a, b, c} /\ T = S \cup {d} /\ R = T \cup {e}
  OBVIOUS
<1>. HIDE DEF R, S, T, w
<1>4. IsFiniteSet(S) /\ SumFunctionOnSet(w, S) \in Int /\ SumFunctionOnSet(w, S) <= w[a] + w[b] + w[c]
  BY <1>2, <1>3, SumOfThree
<1>5. /\ IsFiniteSet(T) /\ SumFunctionOnSet(w, T) \in Int
      /\ SumFunctionOnSet(w, T) <= SumFunctionOnSet(w, S) + w[d]
  BY <1>2, <1>3, <1>4, SumExtended
<1>6. /\ IsFiniteSet(R) /\ SumFunctionOnSet(w, R) \in Int
      /\ SumFunctionOnSet(w, R) <= SumFunctionOnSet(w, T) + w[e]
  BY <1>2, <1>3, <1>5, SumExtended
<1>7. w[a] \in Nat /\ w[b] \in Nat /\ w[c] \in Nat /\ w[d] \in Nat /\ w[e] \in Nat
  BY <1>2, <1>3
<1>8. SumFunctionOnSet(w, R) <= 100
  BY <1>2, <1>4, <1>5, <1>6, <1>7
<1>. QED
  BY <1>1, <1>3, <1>6, <1>8 DEF Balanced, w

LEMMA RequirementsBalanced ==
  ASSUME NEW intent
  PROVE  Balanced(Requirements(intent))
<1>1. CASE intent = "local"
  <2>. DEFINE a == Needs(30, "mention_service")
              b == Needs(25, "mention_location")
              c == Needs(25, "colocation_sl")
              d == Needs(10, "identity")
              e == Needs(10, "depth_service")
  <2>1. Requirements(intent) = {a, b, c, d, e}
    BY <1>1 DEF Requirements
  <2>2. a \in Need /\ b \in Need /\ c \in Need /\ d \in Need /\ e \in Need
    BY DEF Need, Needs, Signals
  <2>3. a.weight = 30 /\ b.weight = 25 /\ c.weight = 25 /\ d.weight = 10 /\ e.weight = 10
    BY DEF Needs
  <2>. HIDE DEF a, b, c, d, e
  <2>. QED
    BY <2>1, <2>2, <2>3, FiveBalanced
<1>2. CASE intent = "recommendation"
  <2>. DEFINE a == Needs(40, "mention_service")
              b == Needs(20, "identity")
              c == Needs(40, "depth_service")
  <2>1. Requirements(intent) = {a, b, c}
    BY <1>2 DEF Requirements
  <2>2. a \in Need /\ b \in Need /\ c \in Need
    BY DEF Need, Needs, Signals
  <2>3. a.weight = 40 /\ b.weight = 20 /\ c.weight = 40
    BY DEF Needs
  <2>. HIDE DEF a, b, c
  <2>. QED
    BY <2>1, <2>2, <2>3, ThreeBalanced
<1>3. CASE intent = "category_discovery"
  <2>. DEFINE a == Needs(45, "mention_service")
              b == Needs(35, "depth_service")
              c == Needs(20, "identity")
  <2>1. Requirements(intent) = {a, b, c}
    BY <1>3 DEF Requirements
  <2>2. a \in Need /\ b \in Need /\ c \in Need
    BY DEF Need, Needs, Signals
  <2>3. a.weight = 45 /\ b.weight = 35 /\ c.weight = 20
    BY DEF Needs
  <2>. HIDE DEF a, b, c
  <2>. QED
    BY <2>1, <2>2, <2>3, ThreeBalanced
<1>4. CASE intent = "best_of"
  <2>. DEFINE a == Needs(40, "mention_service")
              b == Needs(35, "depth_service")
              c == Needs(25, "identity")
  <2>1. Requirements(intent) = {a, b, c}
    BY <1>4 DEF Requirements
  <2>2. a \in Need /\ b \in Need /\ c \in Need
    BY DEF Need, Needs, Signals
  <2>3. a.weight = 40 /\ b.weight = 35 /\ c.weight = 25
    BY DEF Needs
  <2>. HIDE DEF a, b, c
  <2>. QED
    BY <2>1, <2>2, <2>3, ThreeBalanced
<1>5. CASE intent = "comparison"
  <2>. DEFINE a == Needs(45, "mention_product")
              b == Needs(35, "depth_product")
              c == Needs(20, "identity")
  <2>1. Requirements(intent) = {a, b, c}
    BY <1>5 DEF Requirements
  <2>2. a \in Need /\ b \in Need /\ c \in Need
    BY DEF Need, Needs, Signals
  <2>3. a.weight = 45 /\ b.weight = 35 /\ c.weight = 20
    BY DEF Needs
  <2>. HIDE DEF a, b, c
  <2>. QED
    BY <2>1, <2>2, <2>3, ThreeBalanced
<1>6. CASE intent = "alternative"
  <2>. DEFINE a == Needs(50, "mention_product")
              b == Needs(30, "depth_product")
              c == Needs(20, "identity")
  <2>1. Requirements(intent) = {a, b, c}
    BY <1>6 DEF Requirements
  <2>2. a \in Need /\ b \in Need /\ c \in Need
    BY DEF Need, Needs, Signals
  <2>3. a.weight = 50 /\ b.weight = 30 /\ c.weight = 20
    BY DEF Needs
  <2>. HIDE DEF a, b, c
  <2>. QED
    BY <2>1, <2>2, <2>3, ThreeBalanced
<1>7. CASE intent = "pricing"
  <2>. DEFINE a == Needs(50, "pricing")
              b == Needs(30, "mention_product")
              c == Needs(20, "identity")
  <2>1. Requirements(intent) = {a, b, c}
    BY <1>7 DEF Requirements
  <2>2. a \in Need /\ b \in Need /\ c \in Need
    BY DEF Need, Needs, Signals
  <2>3. a.weight = 50 /\ b.weight = 30 /\ c.weight = 20
    BY DEF Needs
  <2>. HIDE DEF a, b, c
  <2>. QED
    BY <2>1, <2>2, <2>3, ThreeBalanced
<1>8. CASE intent = "trust"
  <2>. DEFINE a == Needs(40, "identity")
              b == Needs(40, "trust")
              c == Needs(20, "depth_service")
  <2>1. Requirements(intent) = {a, b, c}
    BY <1>8 DEF Requirements
  <2>2. a \in Need /\ b \in Need /\ c \in Need
    BY DEF Need, Needs, Signals
  <2>3. a.weight = 40 /\ b.weight = 40 /\ c.weight = 20
    BY DEF Needs
  <2>. HIDE DEF a, b, c
  <2>. QED
    BY <2>1, <2>2, <2>3, ThreeBalanced
<1>9. CASE intent = "combined_service"
  <2>. DEFINE a == Needs(50, "colocation_services")
              b == Needs(25, "mention_service")
              c == Needs(25, "mention_product")
  <2>1. Requirements(intent) = {a, b, c}
    BY <1>9 DEF Requirements
  <2>2. a \in Need /\ b \in Need /\ c \in Need
    BY DEF Need, Needs, Signals
  <2>3. a.weight = 50 /\ b.weight = 25 /\ c.weight = 25
    BY DEF Needs
  <2>. HIDE DEF a, b, c
  <2>. QED
    BY <2>1, <2>2, <2>3, ThreeBalanced
<1>10. CASE intent = "branded"
  <2>. DEFINE a == Needs(50, "identity")
              b == Needs(50, "mention_brand")
  <2>1. Requirements(intent) = {a, b}
    BY <1>10 DEF Requirements
  <2>2. a \in Need /\ b \in Need
    BY DEF Need, Needs, Signals
  <2>3. a.weight = 50 /\ b.weight = 50
    BY DEF Needs
  <2>. HIDE DEF a, b
  <2>. QED
    BY <2>1, <2>2, <2>3, TwoBalanced
<1>11. CASE intent \notin {"local", "recommendation", "category_discovery", "best_of", "comparison",
                           "alternative", "pricing", "trust", "combined_service", "branded"}
  <2>1. Requirements(intent) = {}
    BY <1>11 DEF Requirements
  <2>2. SumFunctionOnSet([r \in {} |-> r.weight], {}) = 0
    BY SumEmpty
  <2>. QED
    BY <2>1, <2>2, FS_EmptySet DEF Balanced
<1>. QED
  BY <1>1, <1>2, <1>3, <1>4, <1>5, <1>6, <1>7, <1>8, <1>9, <1>10, <1>11

LEMMA MentionIs ==
  ASSUME NEW t, NEW pages
  PROVE  Mention(t, pages) \in Score
<1>1. 0 \in Score /\ 4000 \in Score /\ 6000 \in Score /\ 8000 \in Score /\ 10000 \in Score
  BY DEF Score
<1>2. Mention(t, pages) \in {0, 4000, 6000, 8000, 10000}
  BY DEF Mention
<1>. QED
  BY <1>1, <1>2

LEMMA DepthIs ==
  ASSUME NEW t, NEW pages
  PROVE  Depth(t, pages) \in Score
<1>1. 0 \in Score /\ 7000 \in Score /\ 10000 \in Score
  BY DEF Score
<1>2. Least(Mention(t, pages), 7000) \in Score
  BY <1>1, MentionIs DEF Least
<1>. QED
  BY <1>1, <1>2 DEF Depth

LEMMA ColocationIs ==
  ASSUME NEW s, NEW t, NEW pages
  PROVE  Colocation(s, t, pages) \in Score
<1>1. 0 \in Score /\ 5000 \in Score /\ 10000 \in Score
  BY DEF Score
<1>. QED
  BY <1>1 DEF Colocation

LEMMA StrengthsAre ==
  ASSUME NEW pages, NEW brand
  PROVE  /\ IdentityStrength(pages, brand) \in Score
         /\ PricingStrength(pages) \in Score
         /\ TrustStrength(pages) \in Score
<1>. DEFINE S == {0, 4000, 6000, 10000}
<1>1. \A x \in S : x \in Score
  BY DEF Score
<1>2. IdentityStrength(pages, brand) \in S
  BY DEF IdentityStrength, Grade
<1>3. PricingStrength(pages) \in S
  BY DEF PricingStrength, Grade
<1>4. TrustStrength(pages) \in S
  BY DEF TrustStrength, Grade
<1>. HIDE DEF S
<1>. QED
  BY <1>1, <1>2, <1>3, <1>4

LEMMA SignalIs ==
  ASSUME NEW signal \in Signals, NEW c, NEW pages, NEW brand
  PROVE  Signal(signal, c, pages, brand) \in Score
<1>. QED
  BY MentionIs, DepthIs, ColocationIs, StrengthsAre DEF Signal, Signals

LEMMA RequirementsIs ==
  ASSUME NEW c, NEW pages, NEW brand
  PROVE  RequirementsScore(c, pages, brand) \in Score
<1>. DEFINE R == Requirements(c.intent)
            w == [r \in R |-> r.weight]
            t == [r \in R |-> r.weight * Signal(r.signal, c, pages, brand)]
<1>1. Balanced(R)
  BY RequirementsBalanced
<1>2. IsFiniteSet(R) /\ SumFunctionOnSet(w, R) <= 100 /\ \A r \in R : r.weight \in Nat /\ r.signal \in Signals
  BY <1>1 DEF Balanced
<1>3. RequirementsScore(c, pages, brand) = SumFunctionOnSet(t, R) \div 100
  BY DEF RequirementsScore, SumFunction
<1>4. PICK whole \in Nat : whole = 10000
  OBVIOUS
<1>5. \A r \in R : w[r] \in Nat
  BY <1>2
<1>6. ASSUME NEW r \in R PROVE t[r] \in Nat /\ t[r] <= whole * w[r]
  <2>1. PICK s \in Nat : s = Signal(r.signal, c, pages, brand) /\ s <= whole
    BY <1>2, <1>4, SignalIs, ScoreIs
  <2>2. r.weight \in Nat
    BY <1>2
  <2>3. t[r] = r.weight * s /\ w[r] = r.weight
    BY <2>1
  <2>4. \A a \in Nat : a * s \in Nat /\ a * s <= whole * a
    BY <2>1
  <2>. QED
    BY <2>2, <2>3, <2>4
<1>. HIDE DEF R, w, t
<1>7. /\ SumFunctionOnSet(w, R) \in Nat /\ SumFunctionOnSet(t, R) \in Nat
      /\ SumFunctionOnSet(t, R) <= whole * SumFunctionOnSet(w, R)
  BY <1>2, <1>5, <1>6, MeanBelow
<1>8. ASSUME NEW a \in Nat, NEW b \in Nat, a <= whole * b, b <= 100
      PROVE  a \div 100 \in Int /\ 0 <= a \div 100 /\ a \div 100 <= 10000
  BY <1>4, <1>8
<1>. QED
  BY <1>2, <1>3, <1>7, <1>8, InScore

-----------------------------------------------------------------------------
(* Alignment. *)
LEMMA FieldWeightIs ==
  ASSUME NEW words, NEW p
  PROVE  FieldWeight(words, p) \in 0..10
  BY DEF FieldWeight

LEMMA IdfIs ==
  ASSUME NEW w, NEW pages \in Seq(Page), Len(pages) <= MaxPages
  PROVE  Idf(w, pages) \in Nat \ {0}
<1>. DEFINE X == {i \in DOMAIN pages : w \in pages[i].text}
<1>1. Idf(w, pages) = Ln[Len(pages) + 1] - Ln[Cardinality(X) + 1] + 1000
  BY DEF Idf, Count
<1>2. X \in SUBSET DOMAIN pages
  OBVIOUS
<1>. HIDE DEF X
<1>3. Cardinality(X) \in 0..Len(pages) /\ Len(pages) \in Nat /\ MaxPages \in Nat
  BY <1>2, PartCounted, Places, CatalogueAssumption
<1>4. PICK m \in 1..(MaxPages + 1) : m = Cardinality(X) + 1 /\ m <= Len(pages) + 1
  BY <1>3
<1>5. PICK n \in 1..(MaxPages + 1) : n = Len(pages) + 1
  BY <1>3
<1>6. Ln[m] \in Int /\ Ln[n] \in Int /\ Ln[m] <= Ln[n]
  BY <1>4, <1>5, LnAssumption
<1>7. PICK a \in Int : a = Ln[m]
  BY <1>6
<1>8. PICK b \in Int : b = Ln[n]
  BY <1>6
<1>9. Idf(w, pages) = b - a + 1000 /\ a <= b
  BY <1>1, <1>4, <1>5, <1>6, <1>7, <1>8
<1>. QED
  BY <1>9

LEMMA ProductBelow ==
  ASSUME NEW a \in Nat, NEW b \in Nat, NEW n \in Nat, b <= n
  PROVE  a * b \in Nat /\ a * b <= n * a
<1>1. PICK d \in Nat : n = b + d
  <2>1. n - b \in Nat /\ n = b + (n - b)
    OBVIOUS
  <2>. QED
    BY <2>1
<1>2. n * a = a * b + a * d /\ a * d \in Nat /\ a * b \in Nat
  BY <1>1
<1>. QED
  BY <1>2

LEMMA PromptAlignmentIs ==
  ASSUME NEW words \in Name, NEW p, NEW pages \in Seq(Page), Len(pages) <= MaxPages
  PROVE  PromptAlignment(words, p, pages) \in Nat /\ PromptAlignment(words, p, pages) <= 2000
<1>. DEFINE w == [x \in words |-> Idf(x, pages)]
            t == [x \in words |-> Idf(x, pages) * FieldWeight({x}, p)]
<1>1. PromptAlignment(words, p, pages) =
        IF words = {} THEN 0
        ELSE RoundDiv(200 * SumFunctionOnSet(t, words), SumFunctionOnSet(w, words))
  BY DEF PromptAlignment, SumFunction
<1>2. IsFiniteSet(words)
  BY NamesFinite
<1>3. \A x \in words : w[x] \in Nat \ {0}
  BY IdfIs
<1>4. ASSUME NEW x \in words PROVE t[x] \in Nat /\ t[x] <= 10 * w[x]
  <2>1. PICK a \in Nat : a = Idf(x, pages)
    BY IdfIs
  <2>2. PICK b \in Nat : b = FieldWeight({x}, p) /\ b <= 10
    BY FieldWeightIs
  <2>3. t[x] = a * b /\ w[x] = a
    BY <2>1, <2>2
  <2>4. a * b \in Nat /\ a * b <= 10 * a
    <3>1. PICK n \in Nat : n = 10
      OBVIOUS
    <3>2. a * b \in Nat /\ a * b <= n * a
      BY <2>2, <3>1, ProductBelow
    <3>. QED
      BY <3>1, <3>2
  <2>. QED
    BY <2>3, <2>4
<1>. HIDE DEF w, t
<1>5. /\ SumFunctionOnSet(w, words) \in Nat /\ SumFunctionOnSet(t, words) \in Nat
      /\ SumFunctionOnSet(t, words) <= 10 * SumFunctionOnSet(w, words)
  BY <1>2, <1>3, <1>4, MeanBelow
<1>6. words # {} => SumFunctionOnSet(w, words) \in Nat \ {0}
  BY <1>2, <1>3, SumPositive
<1>7. ASSUME words # {}
      PROVE  PromptAlignment(words, p, pages) \in Nat /\ PromptAlignment(words, p, pages) <= 2000
  <2>1. PICK a \in Nat : a = SumFunctionOnSet(t, words)
    BY <1>5
  <2>2. PICK b \in Nat \ {0} : b = SumFunctionOnSet(w, words)
    BY <1>6, <1>7
  <2>3. a <= 10 * b
    BY <1>5, <2>1, <2>2
  <2>4. PICK hi \in Int : hi = 2000
    OBVIOUS
  <2>5. PICK lo \in Int : lo = 0
    OBVIOUS
  <2>6. 200 * a \in Int /\ lo * b <= 200 * a /\ 200 * a <= hi * b
    BY <2>3, <2>4, <2>5
  <2>7. RoundDiv(200 * a, b) \in Int /\ lo <= RoundDiv(200 * a, b) /\ RoundDiv(200 * a, b) <= hi
    BY <2>6, RoundDivBetween
  <2>8. PromptAlignment(words, p, pages) = RoundDiv(200 * a, b)
    BY <1>1, <1>7, <2>1, <2>2
  <2>9. PICK c \in Int : c = RoundDiv(200 * a, b)
    BY <2>7
  <2>. QED
    BY <2>4, <2>5, <2>7, <2>8, <2>9
<1>8. CASE words = {}
  <2>1. PromptAlignment(words, p, pages) = 0
    BY <1>1, <1>8
  <2>. QED
    BY <2>1
<1>. QED
  BY <1>7, <1>8

LEMMA PromptWordsAre ==
  ASSUME NEW spec \in Specs, NEW lang \in Supported
  PROVE  PromptWords(spec, lang) \in Name
<1>1. TemplateWords[lang] \in Name
  BY TemplatesAssumption
<1>2. spec.topic \in Name /\ spec.service \in Name /\ spec.product \in Name /\ spec.location \in Name
  BY DEF Specs
<1>. QED
  BY <1>1, <1>2 DEF PromptWords, Name

LEMMA ConceptsAre ==
  ASSUME NEW c \in Specs
  PROVE  /\ Concepts(c) \in Seq(Name)
         /\ ToSet(Concepts(c)) = {c.service, c.product, c.topic, c.location} \ {NoName}
<1>. DEFINE s == <<c.service, c.product, c.topic, c.location>>
            X == {i \in DOMAIN s : s[i] # NoName}
<1>1. Concepts(c) = Kept(s, X)
  <2>1. Concepts(c) = FlattenSeq([i \in DOMAIN s |-> IF s[i] # NoName THEN <<s[i]>> ELSE << >>])
    BY DEF Concepts, Where, Concat
  <2>2. [i \in DOMAIN s |-> IF s[i] # NoName THEN <<s[i]>> ELSE << >>] =
          [i \in DOMAIN s |-> IF i \in X THEN <<s[i]>> ELSE << >>]
    <3>. HIDE DEF s
    <3>. QED
      OBVIOUS
  <2>. HIDE DEF s, X
  <2>. QED
    BY <2>1, <2>2 DEF Kept
<1>2. s \in Seq(Name)
  BY DEF Specs
<1>3. DOMAIN s = 1..4 /\ s[1] = c.service /\ s[2] = c.product /\ s[3] = c.topic /\ s[4] = c.location
  OBVIOUS
<1>4. \A i : i \in X <=> i \in 1..4 /\ s[i] # NoName
  OBVIOUS
<1>. HIDE DEF s, X
<1>5. Kept(s, X) \in Seq(Name) /\ ToSet(Kept(s, X)) = {s[i] : i \in DOMAIN s \cap X}
  BY <1>2, KeptIs
<1>6. {s[i] : i \in DOMAIN s \cap X} = {c.service, c.product, c.topic, c.location} \ {NoName}
  BY <1>3, <1>4
<1>. QED
  BY <1>1, <1>5, <1>6

(* Of at most ten thousand: four for the concepts on the page, two and a   *)
(* half for the fields, two for the prompt, one and a half together.  A    *)
(* page that names every concept in its title or heading has eight.        *)
NamedOn(c, p) ==
  /\ Concepts(c) # << >> /\ Len(Concepts(c)) <= Cardinality(ToSet(Concepts(c)))
  /\ \A t \in ToSet(Concepts(c)) : FieldWeight(t, p) = 10

LEMMA ShareOf ==
  ASSUME NEW part \in Nat, NEW whole \in Nat \ {0}, NEW n \in Nat, part <= n * whole
  PROVE  /\ RoundDiv(part, whole) \in Nat /\ RoundDiv(part, whole) <= n
         /\ part = n * whole => RoundDiv(part, whole) = n
<1>1. PICK lo \in Int : lo = 0
  OBVIOUS
<1>2. lo * whole <= part /\ part \in Int /\ n \in Int
  BY <1>1
<1>3. RoundDiv(part, whole) \in Int /\ lo <= RoundDiv(part, whole) /\ RoundDiv(part, whole) <= n
  BY <1>2, RoundDivBetween
<1>4. ASSUME part = n * whole PROVE RoundDiv(part, whole) = n
  <2>1. n * whole <= part /\ part <= n * whole
    BY <1>4
  <2>2. RoundDiv(part, whole) \in Int /\ n <= RoundDiv(part, whole) /\ RoundDiv(part, whole) <= n
    BY <2>1, <1>2, RoundDivBetween
  <2>. QED
    BY <2>2
<1>. QED
  BY <1>1, <1>3, <1>4

LEMMA PageAlignmentIs ==
  ASSUME NEW c \in Specs, NEW p, NEW pages \in Seq(Page), Len(pages) <= MaxPages,
         NEW lang \in Supported
  PROVE  /\ PageAlignment(c, p, pages, lang) \in Score
         /\ NamedOn(c, p) => PageAlignment(c, p, pages, lang) >= 8000
<1>. DEFINE s == Concepts(c)
            I == DOMAIN s
            strength == [i \in DOMAIN s |-> FieldWeight(s[i], p)]
            asked == PromptWords(c, lang)
<1>1. PICK total \in Nat : total = Len(s) /\ DOMAIN s = 1..total
  BY ConceptsAre, Places
<1>2. s \in Seq(Name) /\ IsFiniteSet(I) /\ Cardinality(I) = total
  BY <1>1, ConceptsAre, Places
<1>3. PICK present \in 0..total :
        /\ present = Cardinality(Present(c, p))
        /\ NamedOn(c, p) => present = total
  <2>1. IsFiniteSet(ToSet(s)) /\ Cardinality(ToSet(s)) <= Len(s)
    BY <1>2, ElementsFinite
  <2>2. Present(c, p) \subseteq ToSet(s)
    BY DEF Present
  <2>3. Cardinality(Present(c, p)) \in Nat /\ Cardinality(Present(c, p)) <= Cardinality(ToSet(s))
        /\ Cardinality(ToSet(s)) \in Nat
    BY <2>1, <2>2, FS_Subset, FS_CardinalityType
  <2>4. ASSUME NamedOn(c, p) PROVE Cardinality(Present(c, p)) = total
    <3>1. Present(c, p) = ToSet(s)
      BY <2>4 DEF NamedOn, Present
    <3>2. total <= Cardinality(ToSet(s))
      BY <1>1, <2>4 DEF NamedOn
    <3>. QED
      BY <1>1, <2>1, <2>3, <3>1, <3>2
  <2>. QED
    BY <1>1, <2>1, <2>3, <2>4
<1>4. PICK sum \in Nat :
        /\ sum = SumFunction(strength) /\ sum <= 10 * total
        /\ NamedOn(c, p) => sum = 10 * total
  <2>1. SumFunction(strength) = SumFunctionOnSet(strength, I)
    BY DEF SumFunction
  <2>2. \A i \in I : strength[i] \in Nat /\ strength[i] <= 10
    BY FieldWeightIs
  <2>3. NamedOn(c, p) => \A i \in I : strength[i] = 10
    <3>1. \A i \in I : s[i] \in ToSet(s)
      BY <1>1, <1>2, ElementsFinite
    <3>. HIDE DEF s
    <3>. QED
      BY <3>1 DEF NamedOn, s
  <2>. DEFINE ones == [i \in I |-> 1]
  <2>4. \A i \in I : ones[i] = 1
    OBVIOUS
  <2>. HIDE DEF I, strength, ones, s
  <2>5. SumFunctionOnSet(ones, I) = total
    <3>1. SumFunctionOnSet(ones, I) = 1 * Cardinality(I)
      BY <1>2, <2>4, SumConstant
    <3>. QED
      BY <1>2, <3>1
  <2>6. SumFunctionOnSet(strength, I) \in Nat /\ SumFunctionOnSet(strength, I) <= 10 * total
    <3>1. (\A i \in I : ones[i] \in Nat) /\ \A i \in I : strength[i] \in Nat /\ strength[i] <= 10 * ones[i]
      BY <2>2, <2>4
    <3>. QED
      BY <1>2, <2>5, <3>1, MeanBelow
  <2>7. NamedOn(c, p) => SumFunctionOnSet(strength, I) = 10 * total
    <3>1. ASSUME NamedOn(c, p) PROVE SumFunctionOnSet(strength, I) = 10 * Cardinality(I)
      BY <1>2, <2>3, <3>1, SumConstant
    <3>. QED
      BY <1>2, <3>1
  <2>. QED
    BY <2>1, <2>6, <2>7
<1>5. PICK prompt \in Nat : prompt = PromptAlignment(asked, p, pages) /\ prompt <= 2000
  <2>1. asked \in Name
    BY PromptWordsAre
  <2>. HIDE DEF asked
  <2>2. PromptAlignment(asked, p, pages) \in Nat /\ PromptAlignment(asked, p, pages) <= 2000
    BY <2>1, PromptAlignmentIs
  <2>. QED
    BY <2>2
<1>6. PICK together \in Nat :
        /\ together <= 1500
        /\ together = IF present = 0 THEN 0 ELSE IF total > 1 /\ present = 1 THEN 750 ELSE 1500
        /\ present # 0 /\ present = total => together = 1500
  OBVIOUS
<1>7. PageAlignment(c, p, pages, lang) =
        (IF total = 0 THEN 0 ELSE RoundDiv(4000 * present, total) + RoundDiv(250 * sum, total))
          + prompt + together
  BY <1>1, <1>3, <1>4, <1>5, <1>6 DEF PageAlignment
<1>8. NamedOn(c, p) => total # 0
  BY <1>1, <1>2, EmptySeq DEF NamedOn
<1>. HIDE DEF s, I, strength, asked
<1>9. CASE total = 0
  <2>1. PageAlignment(c, p, pages, lang) = prompt + together
    BY <1>7, <1>9
  <2>2. prompt <= 2000 /\ together <= 1500
    BY <1>5, <1>6
  <2>3. prompt + together \in 0..10000
    BY <2>2
  <2>. QED
    BY <1>8, <1>9, <2>1, <2>3 DEF Score
<1>10. CASE total # 0
  <2>1. PICK four \in Nat : four = 4000
    OBVIOUS
  <2>2. PICK quarter \in Nat : quarter = 2500
    OBVIOUS
  <2>3. PICK part \in Nat :
          /\ part = 4000 * present /\ part <= four * total
          /\ present = total => part = four * total
    BY <1>3, <2>1
  <2>4. PICK fields \in Nat :
          /\ fields = 250 * sum /\ fields <= quarter * total
          /\ sum = 10 * total => fields = quarter * total
    BY <1>4, <2>2
  <2>8. total \in Nat \ {0}
    BY <1>10
  <2>5. PICK first \in Nat :
          /\ first = RoundDiv(part, total) /\ first <= 4000
          /\ NamedOn(c, p) => first = 4000
    <3>1. /\ RoundDiv(part, total) \in Nat /\ RoundDiv(part, total) <= four
          /\ part = four * total => RoundDiv(part, total) = four
      BY <2>3, <2>8, ShareOf
    <3>. QED
      BY <1>3, <2>1, <2>3, <3>1
  <2>6. PICK second \in Nat :
          /\ second = RoundDiv(fields, total) /\ second <= 2500
          /\ NamedOn(c, p) => second = 2500
    <3>1. /\ RoundDiv(fields, total) \in Nat /\ RoundDiv(fields, total) <= quarter
          /\ fields = quarter * total => RoundDiv(fields, total) = quarter
      BY <2>4, <2>8, ShareOf
    <3>. QED
      BY <1>4, <2>2, <2>4, <3>1
  <2>7. NamedOn(c, p) => together = 1500
    BY <1>3, <1>6, <1>10
  <2>9. PageAlignment(c, p, pages, lang) = first + second + prompt + together
    BY <1>7, <1>10, <2>3, <2>4, <2>5, <2>6
  <2>10. first + second + prompt + together \in 0..10000
    <3>1. prompt <= 2000 /\ together <= 1500 /\ first <= 4000 /\ second <= 2500
      BY <1>5, <1>6, <2>5, <2>6
    <3>. QED
      BY <3>1
  <2>11. NamedOn(c, p) => first + second + prompt + together >= 8000
    BY <2>5, <2>6, <2>7
  <2>. QED
    BY <2>9, <2>10, <2>11 DEF Score
<1>. QED
  BY <1>9, <1>10

(* Alignment blends the best page with the mean of the best three. *)
BestOf(score, three) == SubSeq(ByScore(score), 1, Least(three, Len(ByScore(score))))

LEMMA BestThree ==
  ASSUME NEW n \in Nat \ {0}, NEW whole \in Nat, NEW three \in Nat \ {0},
         NEW score \in [1..n -> 0..whole]
  PROVE  /\ Len(BestOf(score, three)) \in Nat \ {0}
         /\ ByScore(score)[1] \in 1..n
         /\ \A i \in 1..n : score[i] <= score[ByScore(score)[1]]
         /\ SumFunctionOnSet(score, ToSet(BestOf(score, three))) \in Nat
         /\ SumFunctionOnSet(score, ToSet(BestOf(score, three))) <= whole * Len(BestOf(score, three))
<1>. DEFINE order == ByScore(score)
            top == BestOf(score, three)
<1>13. top = SubSeq(order, 1, Least(three, Len(order)))
  BY DEF BestOf
<1>. DEFINE below == {q \in (1..n) \X (1..n) : score[q[1]] > score[q[2]]}
<1>0. \A i \in 1..n : score[i] \in Nat /\ score[i] <= whole
  OBVIOUS
<1>1. Sorts(order, 1..n, below)
  <2>1. DOMAIN score = 1..n
    OBVIOUS
  <2>2. order = SortBy(1..n, below)
    BY <2>1 DEF ByScore
  <2>3. Orders(below, 1..n)
    <3>1. \A x \in 1..n : score[x] \in Int
      BY <1>0
    <3>. QED
      BY <3>1, ByNumber
  <2>4. IsFiniteSet(1..n)
    BY FS_Interval
  <2>. HIDE DEF below, order
  <2>. QED
    BY <2>2, <2>3, <2>4, SortIs
<1>2. \A x, y \in 1..n : score[x] > score[y] => <<x, y>> \in below
  OBVIOUS
<1>. HIDE DEF below, order, top
<1>3. /\ order \in Seq(1..n) /\ Len(order) = n
      /\ \A x \in 1..n : \E i \in 1..n : order[i] = x
      /\ \A i, j \in 1..n : i < j => <<order[j], order[i]>> \notin below
  <2>1. Cardinality(1..n) = n
    BY FS_Interval
  <2>. QED
    BY <1>1, <2>1 DEF Sorts
<1>4. order[1] \in 1..n
  <2>1. 1 \in 1..Len(order)
    BY <1>3
  <2>2. \A i \in 1..Len(order) : order[i] \in 1..n
    BY <1>3, Places
  <2>. QED
    BY <2>1, <2>2
<1>5. ASSUME NEW x \in 1..n PROVE score[x] <= score[order[1]]
  <2>1. PICK i \in 1..n : order[i] = x
    BY <1>3
  <2>2. CASE i = 1
    BY <1>0, <1>4, <2>1, <2>2
  <2>3. CASE i # 1
    <3>1. 1 < i /\ 1 \in 1..n
      BY <2>3
    <3>2. <<x, order[1]>> \notin below
      BY <1>3, <2>1, <3>1
    <3>3. ~(score[x] > score[order[1]])
      BY <1>2, <1>4, <3>2
    <3>. QED
      BY <1>0, <1>4, <3>3
  <2>. QED
    BY <2>2, <2>3
<1>6. top \in Seq(1..n) /\ Len(top) \in Nat \ {0}
  <2>2. top \in Seq(1..n) /\ Len(top) = Least(three, Len(order))
    BY <1>3, <1>13, Prefix
  <2>3. Least(three, Len(order)) \in Nat \ {0}
    BY <1>3 DEF Least
  <2>. QED
    BY <2>2, <2>3
<1>. DEFINE S == ToSet(top)
            ones == [i \in S |-> 1]
<1>7. IsFiniteSet(S) /\ S \subseteq 1..n /\ Cardinality(S) <= Len(top) /\ Cardinality(S) \in Nat
  <2>1. IsFiniteSet(S) /\ S \subseteq 1..n /\ Cardinality(S) <= Len(top)
    BY <1>6, ElementsFinite
  <2>. QED
    BY <2>1, FS_CardinalityType
<1>8. \A i \in S : ones[i] = 1
  OBVIOUS
<1>. HIDE DEF S, ones
<1>10. SumFunctionOnSet(ones, S) = Cardinality(S)
  <2>1. PICK one \in Int : one = 1
    OBVIOUS
  <2>2. SumFunctionOnSet(ones, S) = one * Cardinality(S)
    BY <1>7, <1>8, <2>1, SumConstant
  <2>. QED
    BY <1>7, <2>1, <2>2
<1>11. /\ SumFunctionOnSet(score, S) \in Nat
       /\ SumFunctionOnSet(score, S) <= whole * SumFunctionOnSet(ones, S)
  <2>1. \A i \in S : ones[i] \in Nat
    BY <1>8
  <2>2. \A i \in S : score[i] \in Nat /\ score[i] <= whole * ones[i]
    <3>1. whole * 1 = whole
      OBVIOUS
    <3>2. \A i \in S : whole * ones[i] = whole
      BY <1>8, <3>1
    <3>. QED
      BY <1>0, <1>7, <3>2
  <2>. QED
    BY <1>7, <2>1, <2>2, MeanBelow
<1>12. SumFunctionOnSet(score, S) <= whole * Len(top)
  <2>1. PICK a \in Nat : a = Cardinality(S)
    BY <1>7
  <2>2. PICK b \in Nat : b = Len(top)
    BY <1>6
  <2>7. a <= b
    BY <1>7, <2>1, <2>2
  <2>8. whole * a \in Nat /\ whole * a <= b * whole
    BY <2>7, ProductBelow
  <2>3. whole * a <= whole * b /\ whole * a \in Nat /\ whole * b \in Nat
    BY <2>8
  <2>4. SumFunctionOnSet(score, S) <= whole * a
    BY <1>10, <1>11, <2>1
  <2>5. PICK x \in Nat : x = SumFunctionOnSet(score, S)
    BY <1>11
  <2>9. x <= whole * a
    BY <2>4, <2>5
  <2>6. x <= whole * b
    BY <2>3, <2>9
  <2>. QED
    BY <2>2, <2>5, <2>6
<1>. QED
  BY <1>4, <1>5, <1>6, <1>11, <1>12 DEF S, order, top

LEMMA AlignmentIs ==
  ASSUME NEW c \in Specs, NEW pages \in Seq(Page), Len(pages) <= MaxPages, NEW lang \in Supported
  PROVE  /\ Alignment(c, pages, lang) \in Score
         /\ (\E i \in DOMAIN pages : NamedOn(c, pages[i])) => Alignment(c, pages, lang) >= 5000
<1>. DEFINE n == Len(pages)
            score == [i \in DOMAIN pages |-> PageAlignment(c, pages[i], pages, lang)]
            order == ByScore(score)
            top   == SubSeq(order, 1, Least(3, Len(order)))
            sum   == SumFunctionOnSet(score, ToSet(top))
<1>1. Alignment(c, pages, lang) =
        IF pages = << >> THEN 0
        ELSE RoundDiv(8 * Len(top) * score[order[1]] + 2 * sum, 10 * Len(top))
  BY DEF Alignment
<1>2. DOMAIN pages = 1..n /\ n \in Nat
  BY Places
<1>3. CASE pages = << >>
  <2>1. DOMAIN pages = {} /\ Alignment(c, pages, lang) = 0
    BY <1>1, <1>3
  <2>. QED
    BY <2>1 DEF Score
<1>4. CASE pages # << >>
  <2>1. n \in Nat \ {0}
    BY <1>2, <1>4, EmptySeq
  <2>2. score \in [1..n -> Score]
    <3>1. ASSUME NEW i \in 1..n
          PROVE  /\ PageAlignment(c, pages[i], pages, lang) \in Score
                 /\ NamedOn(c, pages[i]) => PageAlignment(c, pages[i], pages, lang) >= 8000
      BY PageAlignmentIs
    <3>. QED
      BY <1>2, <3>1
  <2>3. \A i \in DOMAIN pages : NamedOn(c, pages[i]) => score[i] >= 8000
    BY PageAlignmentIs
  <2>. HIDE DEF n, score
  <2>17. order = ByScore(score) /\ top = SubSeq(order, 1, Least(3, Len(order)))
         /\ sum = SumFunctionOnSet(score, ToSet(top))
    OBVIOUS
  <2>. HIDE DEF order, top, sum
  <2>4. /\ Len(top) \in Nat \ {0}
        /\ order[1] \in 1..n /\ \A i \in 1..n : score[i] <= score[order[1]]
        /\ sum \in Nat /\ sum <= 10000 * Len(top)
    <3>1. PICK whole \in Nat : whole = 10000
      OBVIOUS
    <3>2. PICK three \in Nat \ {0} : three = 3
      OBVIOUS
    <3>3. top = BestOf(score, three)
      BY <2>17, <3>2 DEF BestOf
    <3>4. score \in [1..n -> 0..whole] /\ order = ByScore(score)
      <4>1. \A x \in Score : x \in 0..whole
        BY <3>1 DEF Score
      <4>. QED
        BY <2>2, <2>17, <4>1
    <3>5. /\ Len(top) \in Nat \ {0}
          /\ order[1] \in 1..n /\ \A i \in 1..n : score[i] <= score[order[1]]
          /\ SumFunctionOnSet(score, ToSet(top)) \in Nat
          /\ SumFunctionOnSet(score, ToSet(top)) <= whole * Len(top)
      <4>1. /\ Len(BestOf(score, three)) \in Nat \ {0}
            /\ ByScore(score)[1] \in 1..n
            /\ \A i \in 1..n : score[i] <= score[ByScore(score)[1]]
            /\ SumFunctionOnSet(score, ToSet(BestOf(score, three))) \in Nat
            /\ SumFunctionOnSet(score, ToSet(BestOf(score, three))) <= whole * Len(BestOf(score, three))
        BY <2>1, <3>4, BestThree
      <4>. QED
        BY <3>3, <3>4, <4>1
    <3>6. sum \in Nat /\ sum <= whole * Len(top)
      BY <2>17, <3>5
    <3>. QED
      BY <3>1, <3>5, <3>6
  <2>5. PICK k \in Nat \ {0} : k = Len(top)
    BY <2>4
  <2>6. PICK best \in Nat : best = score[order[1]] /\ best <= 10000
    <3>1. score[order[1]] \in Score
      BY <2>2, <2>4
    <3>. QED
      BY <3>1, ScoreIs
  <2>7. PICK rest \in Nat : rest = sum /\ rest <= 10000 * k
    BY <2>4, <2>5
  <2>8. PICK part \in Nat : part = k * best /\ part <= 10000 * k
    <3>1. PICK whole \in Nat : whole = 10000
      OBVIOUS
    <3>2. best * k \in Nat /\ k * best \in Nat /\ k * best <= whole * k
      BY <2>6, <3>1, ProductBelow
    <3>. QED
      BY <3>1, <3>2
  <2>9. PICK whole \in Nat : whole = 8 * part + 2 * rest /\ whole <= 100000 * k /\ 8 * part <= whole
    BY <2>7, <2>8
  <2>10. 8 * Len(top) * score[order[1]] + 2 * sum = whole
    <3>1. 8 * k * best = 8 * part
      BY <2>8
    <3>. QED
      BY <2>5, <2>6, <2>7, <2>9, <3>1
  <2>11. PICK d \in Nat \ {0} : d = 10 * k
    OBVIOUS
  <2>12. Alignment(c, pages, lang) = RoundDiv(whole, d)
    BY <1>1, <1>4, <2>5, <2>10, <2>11
  <2>13. PICK hi \in Int : hi = 10000
    OBVIOUS
  <2>14. ASSUME NEW lo \in Int, lo * d <= whole
         PROVE  RoundDiv(whole, d) \in Int /\ lo <= RoundDiv(whole, d) /\ RoundDiv(whole, d) <= hi
    <3>1. whole <= hi * d
      BY <2>9, <2>11, <2>13
    <3>2. whole \in Int
      BY <2>9
    <3>. QED
      BY <2>14, <3>1, <3>2, RoundDivBetween
  <2>15. RoundDiv(whole, d) \in Score
    <3>1. PICK lo \in Int : lo = 0
      OBVIOUS
    <3>2. lo * d <= whole
      BY <3>1
    <3>3. RoundDiv(whole, d) \in Int /\ lo <= RoundDiv(whole, d) /\ RoundDiv(whole, d) <= hi
      BY <2>14, <3>2
    <3>. QED
      BY <2>13, <3>1, <3>3, InScore
  <2>16. ASSUME NEW i \in DOMAIN pages, NamedOn(c, pages[i]) PROVE RoundDiv(whole, d) >= 5000
    <3>1. best >= 8000
      <4>1. score[i] >= 8000 /\ score[i] <= best /\ score[i] \in Score
        BY <1>2, <2>2, <2>3, <2>4, <2>6, <2>16 DEF n
      <4>. QED
        BY <4>1, ScoreIs
    <3>2. 8000 * k <= part
      <4>1. PICK least \in Nat : least = 8000
        OBVIOUS
      <4>2. k * least <= best * k
        BY <3>1, <4>1, ProductBelow
      <4>. QED
        BY <2>8, <4>1, <4>2
    <3>3. PICK lo \in Int : lo = 5000
      OBVIOUS
    <3>4. lo * d <= whole
      BY <2>9, <2>11, <3>2, <3>3
    <3>5. RoundDiv(whole, d) \in Int /\ lo <= RoundDiv(whole, d)
      BY <2>14, <3>4
    <3>. QED
      BY <3>3, <3>5
  <2>. QED
    BY <2>12, <2>15, <2>16
<1>. QED
  BY <1>3, <1>4

LEMMA BlendIs ==
  ASSUME NEW r \in Score, NEW a \in Score
  PROVE  Blend(r, a) \in Score
<1>1. PICK x \in Nat : x = r /\ x <= 10000
  BY ScoreIs
<1>2. PICK y \in Nat : y = a /\ y <= 10000
  BY ScoreIs
<1>3. PICK part \in Nat : part = 70 * x + 30 * y
  OBVIOUS
<1>4. PICK hundred \in Nat \ {0} : hundred = 100
  OBVIOUS
<1>5. PICK n \in Nat : n = 10000
  OBVIOUS
<1>6. part <= n * hundred
  BY <1>1, <1>2, <1>3, <1>4, <1>5
<1>7. RoundDiv(part, hundred) \in Nat /\ RoundDiv(part, hundred) <= n
  BY <1>6, ShareOf
<1>. QED
  BY <1>1, <1>2, <1>3, <1>4, <1>5, <1>7, InScore DEF Blend

-----------------------------------------------------------------------------
(* Coverage. *)
Results == [cluster : Clusters, requirements : Score, alignment : Score, score : Score]

LEMMA ResultIs ==
  ASSUME NEW c \in Clusters, NEW pages \in Seq(Page), Len(pages) <= MaxPages,
         NEW profile, ProfileTyped(profile)
  PROVE  ScoreCluster(c, pages, profile) \in Results
<1>1. c.spec \in Specs /\ profile.language \in Supported
  BY DEF Clusters, ProfileTyped
<1>2. RequirementsScore(c.spec, pages, profile.brand) \in Score
  BY RequirementsIs
<1>3. Alignment(c.spec, pages, profile.language) \in Score
  BY <1>1, AlignmentIs
<1>4. Blend(RequirementsScore(c.spec, pages, profile.brand), Alignment(c.spec, pages, profile.language)) \in Score
  BY <1>2, <1>3, BlendIs
<1>. QED
  BY <1>2, <1>3, <1>4 DEF ScoreCluster, Results

LEMMA ResultsAre ==
  ASSUME NEW clusters \in Seq(Clusters), NEW pages \in Seq(Page), Len(pages) <= MaxPages,
         NEW profile, ProfileTyped(profile)
  PROVE  ScoreClusters(clusters, pages, profile) \in Seq(Results)
<1>1. Len(clusters) \in Nat /\ DOMAIN clusters = 1..Len(clusters)
      /\ \A i \in 1..Len(clusters) : clusters[i] \in Clusters
  BY Places
<1>2. \A i \in 1..Len(clusters) : ScoreCluster(clusters[i], pages, profile) \in Results
  BY <1>1, ResultIs
<1>3. ScoreClusters(clusters, pages, profile) =
        [i \in 1..Len(clusters) |-> ScoreCluster(clusters[i], pages, profile)]
  BY <1>1 DEF ScoreClusters
<1>4. ScoreClusters(clusters, pages, profile) \in [1..Len(clusters) -> Results]
  BY <1>2, <1>3
<1>. QED
  BY <1>1, <1>4, FunctionIsSeq

LEMMA AggregateIs ==
  ASSUME NEW results \in Seq(Results)
  PROVE  Aggregate(results) \in Score
<1>. DEFINE I == DOMAIN results
            w == [i \in I |-> results[i].cluster.priority]
            t == [i \in I |-> results[i].score * results[i].cluster.priority]
<1>1. Aggregate(results) = IF results = << >> THEN 0
                           ELSE RoundDiv(SumFunctionOnSet(t, I), SumFunctionOnSet(w, I))
  BY DEF Aggregate, SumFunction
<1>2. /\ Len(results) \in Nat /\ I = 1..Len(results) /\ IsFiniteSet(I)
      /\ \A i \in I : results[i] \in Results
  BY Places
<1>3. \A i \in I : w[i] \in Nat \ {0}
  BY <1>2 DEF Results, Clusters
<1>4. PICK whole \in Nat : whole = 10000
  OBVIOUS
<1>5. ASSUME NEW i \in I PROVE t[i] \in Nat /\ t[i] <= whole * w[i]
  <2>1. results[i].score \in Score
    BY <1>2 DEF Results
  <2>2. PICK s \in Nat : s = results[i].score /\ s <= whole
    BY <1>4, <2>1, ScoreIs
  <2>3. PICK a \in Nat : a = w[i]
    BY <1>3
  <2>4. t[i] = s * a
    BY <2>2, <2>3
  <2>5. a * s \in Nat /\ a * s <= whole * a /\ s * a = a * s
    BY <2>2, ProductBelow
  <2>. QED
    BY <2>3, <2>4, <2>5
<1>6. results # << >> => I # {}
  <2>1. results # << >> => Len(results) \in Nat \ {0}
    BY EmptySeq
  <2>2. results # << >> => 1 \in I
    BY <1>2, <2>1
  <2>. HIDE DEF I
  <2>. QED
    BY <2>2
<1>. HIDE DEF I, w, t
<1>7. /\ SumFunctionOnSet(w, I) \in Nat /\ SumFunctionOnSet(t, I) \in Nat
      /\ SumFunctionOnSet(t, I) <= whole * SumFunctionOnSet(w, I)
  BY <1>2, <1>3, <1>5, MeanBelow
<1>8. CASE results = << >>
  <2>1. Aggregate(results) = 0
    BY <1>1, <1>8
  <2>. QED
    BY <2>1 DEF Score
<1>9. CASE results # << >>
  <2>1. PICK b \in Nat \ {0} : b = SumFunctionOnSet(w, I)
    BY <1>2, <1>3, <1>6, <1>9, SumPositive
  <2>2. PICK a \in Nat : a = SumFunctionOnSet(t, I) /\ a <= whole * b
    BY <1>7, <2>1
  <2>3. RoundDiv(a, b) \in Nat /\ RoundDiv(a, b) <= whole
    BY <2>2, ShareOf
  <2>4. Aggregate(results) = RoundDiv(a, b)
    BY <1>1, <1>9, <2>1, <2>2
  <2>. QED
    BY <1>4, <2>3, <2>4, InScore
<1>. QED
  BY <1>8, <1>9

LEMMA CoverageIs ==
  ASSUME NEW clusters \in Seq(Clusters), NEW pages \in Seq(Page), Len(pages) <= MaxPages,
         NEW profile, ProfileTyped(profile),
         NEW coverage, coverage = ComputeCoverage(clusters, pages, profile)
  PROVE  /\ coverage.clusters \in Seq(Results) /\ coverage.score \in Score
         /\ coverage.clusters = ScoreClusters(clusters, pages, profile)
<1>1. /\ coverage.clusters = ScoreClusters(clusters, pages, profile)
      /\ coverage.score = Aggregate(ScoreClusters(clusters, pages, profile))
  BY DEF ComputeCoverage
<1>. QED
  BY <1>1, ResultsAre, AggregateIs

-----------------------------------------------------------------------------
(* Confidence: a mean of scores. *)
LEMMA CompletenessIs ==
  ASSUME NEW meta \in Meta
  PROVE  Completeness(meta) \in Score
<1>. DEFINE seen == 5000 + RoundDiv(5000 * meta.crawled, meta.discovered)
<1>1. Crawled(meta) \in Score
  BY CrawledScore
<1>2. CASE meta.requested > 0 /\ meta.crawled >= meta.requested /\ meta.discovered > meta.crawled
  <2>1. Completeness(meta) = Least(Crawled(meta), seen)
    BY <1>2 DEF Completeness
  <2>2. PICK a \in Nat : a = meta.crawled
    BY DEF Meta
  <2>3. PICK b \in Nat \ {0} : b = meta.discovered /\ a <= b
    BY <1>2, <2>2 DEF Meta
  <2>4. PICK half \in Nat : half = 5000
    OBVIOUS
  <2>5. PICK part \in Nat : part = half * a
    BY <2>2, <2>4
  <2>6. part <= half * b
    BY <2>3, <2>4, <2>5
  <2>7. RoundDiv(part, b) \in Nat /\ RoundDiv(part, b) <= half
    BY <2>6, ShareOf
  <2>8. seen \in Nat
    BY <2>2, <2>3, <2>4, <2>5, <2>7
  <2>. HIDE DEF seen
  <2>9. PICK c \in Nat : c = Crawled(meta) /\ c <= 10000
    BY <1>1, ScoreIs
  <2>10. PICK s \in Nat : s = seen
    BY <2>8
  <2>11. Least(c, s) \in Nat /\ Least(c, s) <= 10000
    BY <2>9 DEF Least
  <2>. QED
    BY <2>1, <2>9, <2>10, <2>11, InScore
<1>3. CASE ~(meta.requested > 0 /\ meta.crawled >= meta.requested /\ meta.discovered > meta.crawled)
  BY <1>1, <1>3 DEF Completeness
<1>. QED
  BY <1>2, <1>3

LEMMA EvidenceMean ==
  ASSUME NEW E \in SUBSET Evidences, E # {},
         NEW f, f = [e \in E |-> e.confidence]
  PROVE  RoundDiv(SumFunction(f), Cardinality(E)) \in Score
<1>. DEFINE one == [e \in E |-> 1]
<1>1. IsFiniteSet(E) /\ Cardinality(E) \in Nat /\ Cardinality(E) # 0
  BY EvidencesFinite, FS_Subset, FS_CardinalityType, FS_EmptySet
<1>2. SumFunction(f) = SumFunctionOnSet(f, E)
  BY DEF SumFunction
<1>3. PICK whole \in Nat : whole = 10000
  OBVIOUS
<1>4. \A e \in E : one[e] \in Nat /\ one[e] = 1
  OBVIOUS
<1>5. \A e \in E : f[e] \in Nat /\ f[e] <= whole * one[e]
  <2>1. \A e \in E : f[e] = e.confidence /\ e.confidence \in Score
    BY DEF Evidences
  <2>2. \A e \in E : f[e] \in Nat /\ f[e] <= whole
    BY <1>3, <2>1, ScoreIs
  <2>. QED
    BY <1>3, <1>4, <2>2
<1>. HIDE DEF one
<1>6. SumFunctionOnSet(one, E) = 1 * Cardinality(E)
  BY <1>1, <1>4, SumConstant
<1>7. /\ SumFunctionOnSet(one, E) \in Nat /\ SumFunctionOnSet(f, E) \in Nat
      /\ SumFunctionOnSet(f, E) <= whole * SumFunctionOnSet(one, E)
  BY <1>1, <1>4, <1>5, MeanBelow
<1>8. PICK b \in Nat \ {0} : b = Cardinality(E) /\ b = SumFunctionOnSet(one, E)
  BY <1>1, <1>6
<1>9. PICK a \in Nat : a = SumFunctionOnSet(f, E) /\ a <= whole * b
  BY <1>7, <1>8
<1>10. RoundDiv(a, b) \in Nat /\ RoundDiv(a, b) <= whole
  BY <1>9, ShareOf
<1>. QED
  BY <1>2, <1>3, <1>8, <1>9, <1>10, InScore

LEMMA ConfidenceIs ==
  ASSUME NEW pages \in Seq(Page), NEW profile, ProfileTyped(profile), NEW meta \in Meta,
         NEW coverage, coverage.clusters \in Seq(Results)
  PROVE  Confidence(pages, profile, coverage, meta) \in Score
<1>. DEFINE evidence == SumFunction([e \in profile.evidence |-> e.confidence])
            mean == IF profile.evidence = {} THEN 0
                    ELSE RoundDiv(evidence, Cardinality(profile.evidence))
            answered == {i \in DOMAIN coverage.clusters : coverage.clusters[i].score > 0}
            X == {i \in DOMAIN pages : pages[i].type # "other"}
            Y == {i \in DOMAIN pages : pages[i].length > 0}
            parsing == IF Some(pages, LAMBDA p : p.nodes # << >>) THEN 10000 ELSE 7000
            c == [ completeness |-> Sub(30, Completeness(meta)), evidence |-> Sub(25, mean),
                   classified |-> Sub(15, Part(pages, X)),
                   clusters |-> Sub(15, Part(coverage.clusters, answered)),
                   parsing |-> Sub(10, parsing), extraction |-> Sub(5, Part(pages, Y)) ]
<1>1. Confidence(pages, profile, coverage, meta) = Component(c)
  BY DEF Confidence, Ratio, Part, Count
<1>2. DOMAIN c = {"completeness", "evidence", "classified", "clusters", "parsing", "extraction"}
  OBVIOUS
<1>4. /\ c["completeness"] = Sub(30, Completeness(meta)) /\ c["evidence"] = Sub(25, mean)
      /\ c["classified"] = Sub(15, Part(pages, X))
      /\ c["clusters"] = Sub(15, Part(coverage.clusters, answered))
      /\ c["parsing"] = Sub(10, parsing) /\ c["extraction"] = Sub(5, Part(pages, Y))
  OBVIOUS
<1>5. /\ X \in SUBSET DOMAIN pages /\ Y \in SUBSET DOMAIN pages
      /\ answered \in SUBSET DOMAIN coverage.clusters
  OBVIOUS
<1>6. mean \in Score
  <2>1. CASE profile.evidence = {}
    BY <2>1 DEF Score
  <2>2. CASE profile.evidence # {}
    <3>1. profile.evidence \in SUBSET Evidences
      BY DEF ProfileTyped
    <3>2. RoundDiv(evidence, Cardinality(profile.evidence)) \in Score
      BY <2>2, <3>1, EvidenceMean
    <3>. QED
      BY <2>2, <3>2
  <2>. QED
    BY <2>1, <2>2
<1>7. parsing \in Score
  BY DEF Score
<1>. HIDE DEF c, mean, answered, X, Y, parsing, evidence
<1>7a. IsFiniteSet(DOMAIN c)
  <2>1. IsFiniteSet({"completeness", "evidence", "classified", "clusters", "parsing", "extraction",
                     "extraction", "extraction", "extraction"})
    BY Enumerated
  <2>. QED
    BY <1>2, <2>1
<1>8. Completeness(meta) \in Score
  BY CompletenessIs
<1>9. /\ Part(pages, X) \in Score /\ Part(pages, Y) \in Score
      /\ Part(coverage.clusters, answered) \in Score
  BY <1>5, PartIs
<1>10. /\ Graded(c["completeness"]) /\ Graded(c["evidence"]) /\ Graded(c["classified"])
       /\ Graded(c["clusters"]) /\ Graded(c["parsing"]) /\ Graded(c["extraction"])
  BY <1>4, <1>6, <1>7, <1>8, <1>9, SubIs
<1>11. \A k \in DOMAIN c : Graded(c[k])
  BY <1>2, <1>10
<1>. QED
  BY <1>1, <1>7a, <1>11, ComponentScore

-----------------------------------------------------------------------------
(* What a profile offers and tells of has a name, and so each question has *)
(* a concept.                                                              *)
Given == Name \ {NoName}

LEMMA SeqWithin ==
  ASSUME NEW V, NEW W, NEW s \in Seq(V), ToSet(s) \subseteq W
  PROVE  s \in Seq(W)
<1>1. Len(s) \in Nat /\ s \in [1..Len(s) -> V] /\ \A i \in 1..Len(s) : s[i] \in ToSet(s)
  BY Places, LenProperties
<1>2. s \in [1..Len(s) -> W]
  BY <1>1
<1>. QED
  BY <1>1, <1>2, FunctionIsSeq

LEMMA HasName ==
  ASSUME NEW n
  PROVE  /\ Plausible(n) => n # NoName
         /\ \A lang : Topical(n, lang) => n # NoName
<1>1. Cardinality(NoName) = 0
  BY FS_EmptySet DEF NoName
<1>. QED
  BY <1>1 DEF Plausible, Topical

LEMMA OffersGiven ==
  ASSUME NEW pages \in Seq(Page), NEW kind \in Kinds
  PROVE  Values(FirstOffers(Offers(pages, kind))) \subseteq Given
<1>. DEFINE ss == [i \in DOMAIN pages |-> PageOffers(pages[i], kind)]
            s == FlattenSeq(ss)
            X == {i \in DOMAIN s : Plausible(s[i].value)}
            o == Offers(pages, kind)
<1>1. o = Kept(s, X)
  BY DEF Offers, Where, Concat, Kept
<1>2. ss \in [1..Len(pages) -> Seq(Evidences)] /\ Len(pages) \in Nat
  <2>1. DOMAIN pages = 1..Len(pages) /\ Len(pages) \in Nat /\ \A i \in DOMAIN pages : pages[i] \in Page
    BY Places
  <2>2. \A i \in DOMAIN pages : ss[i] \in Seq(Evidences)
    BY <2>1, PageOffersTyped
  <2>. QED
    BY <2>1, <2>2
<1>3. \A i \in X : Plausible(s[i].value)
  OBVIOUS
<1>. HIDE DEF ss, X
<1>4. ss \in Seq(Seq(Evidences))
  BY <1>2, FunctionIsSeq
<1>5. s \in Seq(Evidences)
  BY <1>4, FlattenIs
<1>. HIDE DEF s
<1>6. ToSet(Kept(s, X)) = {s[i] : i \in DOMAIN s \cap X} /\ Kept(s, X) \in Seq(Evidences)
  BY <1>5, KeptIs
<1>7. \A x \in ToSet(o) : x.value # NoName
  BY <1>1, <1>3, <1>6, HasName
<1>. HIDE DEF o
<1>8. DOMAIN o = 1..Len(o) /\ \A i \in 1..Len(o) : o[i] \in Evidences /\ o[i] \in ToSet(o)
  <2>1. o \in Seq(Evidences)
    BY <1>1, <1>6
  <2>. QED
    BY <2>1, Places
<1>9. \A x \in FirstOffers(o) : x.value \in Given
  <2>1. \A x \in FirstOffers(o) : x \in Evidences /\ x \in ToSet(o)
    BY <1>8 DEF FirstOffers
  <2>. QED
    BY <1>7, <2>1 DEF Evidences, Given
<1>. QED
  BY <1>9 DEF Values, o

LEMMA TitleGiven ==
  ASSUME NEW pages \in Seq(Page), NEW brand, NEW locations
  PROVE  Values(TitleOffers(pages, brand, locations)) \subseteq Given
<1>. DEFINE X == {i \in DOMAIN pages : pages[i].type = "home" /\ pages[i].title # << >>}
            homes == TitledHomes(pages)
            title == Head(homes).title
            parts == [i \in DOMAIN title |-> Bared(title[i], brand, locations)]
            Y == {i \in DOMAIN parts : OfferPart(parts[i])}
            names == OfferParts(title, brand, locations)
            first == {j \in DOMAIN names : Cardinality({names[k] : k \in 1..(j - 1)}) < 3}
<1>1. TitleOffers(pages, brand, locations) =
        IF homes = << >> \/ ~Some(OrgNodes(pages), Shape) THEN {}
        ELSE {Evidence("service", names[i], 4000) : i \in first}
  BY DEF TitleOffers
<1>2. homes = Kept(pages, X)
  BY DEF TitledHomes, Where, Concat, Kept
<1>. HIDE DEF X
<1>3. homes \in Seq(Page)
  BY <1>2, KeptIs
<1>4. names = Kept(parts, Y)
  BY DEF OfferParts, Where, Concat, Kept
<1>5. \A i \in Y : Plausible(parts[i])
  BY DEF OfferPart
<1>6. ASSUME homes # << >> PROVE names \in Seq(Given)
  <2>. HIDE DEF homes
  <2>1. title \in Seq(Name)
    BY <1>3, <1>6, FirstIs, PageIs
  <2>. HIDE DEF title
  <2>2. DOMAIN title = 1..Len(title) /\ Len(title) \in Nat /\ \A i \in DOMAIN title : title[i] \in Name
    BY <2>1, Places
  <2>3. parts \in [1..Len(title) -> Name]
    BY <2>2, BaredTyped
  <2>. HIDE DEF parts, Y, names
  <2>4. parts \in Seq(Name)
    BY <2>2, <2>3, FunctionIsSeq
  <2>5. names \in Seq(Name) /\ ToSet(names) = {parts[i] : i \in DOMAIN parts \cap Y}
    BY <1>4, <2>4, KeptIs
  <2>6. ToSet(names) \subseteq Name
    BY <2>5, ElementsFinite
  <2>7. \A n \in ToSet(names) : n # NoName
    BY <1>5, <2>5, HasName
  <2>8. ToSet(names) \subseteq Given
    BY <2>6, <2>7 DEF Given
  <2>. QED
    BY <2>5, <2>8, SeqWithin
<1>. HIDE DEF homes, names
<1>7. homes # << >> => \A i \in first : names[i] \in Given
  BY <1>6, Places
<1>. HIDE DEF first
<1>8. ASSUME NEW e \in TitleOffers(pages, brand, locations) PROVE e.value \in Given
  BY <1>1, <1>7 DEF Evidence
<1>. QED
  BY <1>8 DEF Values

LEMMA CategoriesGiven ==
  ASSUME NEW pages \in Seq(Page), NEW brand
  PROVE  Categories(pages, brand) \in Seq(Given)
<1>. DEFINE all == UNION {n.categories : n \in {m \in ToSet(Nodes(pages)) : OfKind(m, "product")}}
            kept == {c \in all : CleanCategory(c, brand)}
            sorted == Sorted(kept)
<1>1. Categories(pages, brand) = SubSeq(sorted, 1, Least(6, Len(sorted)))
  BY DEF Categories
<1>2. \A n \in ToSet(Nodes(pages)) : n.categories \in SUBSET Name
  BY NodesTyped, ElementsFinite, NodeIs
<1>3. kept \in SUBSET Name
  BY <1>2
<1>4. kept \in SUBSET Given
  BY <1>3, HasName DEF CleanCategory, Given
<1>. HIDE DEF kept
<1>5. sorted \in Seq(Given)
  <2>1. sorted \in Seq(kept)
    BY <1>3, SortedIs
  <2>. HIDE DEF sorted
  <2>. QED
    BY <1>4, <2>1, SeqMonotonic
<1>. HIDE DEF sorted
<1>. QED
  BY <1>1, <1>5, Prefix

LEMMA SubjectsGiven ==
  ASSUME NEW raw \in Seq(Seq(Name)), NEW brand, NEW lang
  PROVE  Subjects(raw, brand, lang) \in Seq(Given)
<1>. DEFINE s == [i \in DOMAIN raw |-> Subject(raw[i], brand)]
            X == {i \in DOMAIN s : Topical(s[i], lang)}
            q == Subjects(raw, brand, lang)
<1>1. q = Kept(s, X)
  BY DEF Subjects, Where, Concat, Kept
<1>2. DOMAIN raw = 1..Len(raw) /\ Len(raw) \in Nat /\ \A i \in DOMAIN raw : raw[i] \in Seq(Name)
  BY Places
<1>3. s \in [1..Len(raw) -> Name]
  BY <1>2, SubjectTyped
<1>4. \A i \in X : s[i] # NoName
  BY HasName
<1>. HIDE DEF s, X, q
<1>5. s \in Seq(Name)
  BY <1>2, <1>3, FunctionIsSeq
<1>6. q \in Seq(Name) /\ ToSet(q) = {s[i] : i \in DOMAIN s \cap X}
  BY <1>1, <1>5, KeptIs
<1>7. ToSet(q) \subseteq Name
  BY <1>6, ElementsFinite
<1>8. ToSet(q) \subseteq Given
  BY <1>4, <1>6, <1>7 DEF Given
<1>9. q \in Seq(Given)
  BY <1>6, <1>8, SeqWithin
<1>. QED
  BY <1>9 DEF q

LEMMA TopicsGiven ==
  ASSUME NEW pages \in Seq(Page), NEW brand, NEW lang
  PROVE  Topics(pages, brand, lang) \in Seq(Given)
<1>. DEFINE found == Subjects(ContentTitles(pages, lang), brand, lang)
            fallback == Subjects(HomeTitles(pages, lang), brand, lang)
<1>1. Topics(pages, brand, lang) = IF found # << >> THEN FoldLeft(AddTopic, << >>, found)
                                   ELSE SubSeq(fallback, 1, Least(1, Len(fallback)))
  BY DEF Topics
<1>2. found \in Seq(Given) /\ fallback \in Seq(Given)
  BY TitlesTyped, SubjectsGiven
<1>. HIDE DEF found, fallback
<1>3. FoldLeft(AddTopic, << >>, found) \in Seq(Given)
  BY <1>2, FoldedTopics
<1>4. SubSeq(fallback, 1, Least(1, Len(fallback))) \in Seq(Given)
  BY <1>2, Prefix
<1>. QED
  BY <1>1, <1>3, <1>4

NamesGiven(p) ==
  /\ p.services \in Seq(Given) /\ p.products \in Seq(Given)
  /\ p.categories \in Seq(Given) /\ p.topics \in Seq(Given)

LEMMA SortedGiven ==
  ASSUME NEW S, S \subseteq Given
  PROVE  Sorted(S) \in Seq(Given)
<1>1. S \in SUBSET Name
  BY DEF Given
<1>2. Sorted(S) \in Seq(S)
  BY <1>1, SortedIs
<1>. QED
  BY <1>2, SeqMonotonic

LEMMA ProfileGiven ==
  ASSUME NEW pages \in Seq(Page)
  PROVE  NamesGiven(BuildProfile(pages))
<1>. DEFINE p == BuildProfile(pages)
            brand == ResolveBrand(pages)
            locations == Locations(pages)
            products == FirstOffers(Offers(pages, "product"))
            stated == FirstOffers(Offers(pages, "service"))
            services == IF stated = {} /\ products = {} THEN TitleOffers(pages, brand, locations) ELSE stated
            lang == GenLanguage(PrimaryLanguage(pages), Languages(pages))
            topics == IF services = {} /\ products = {} THEN Topics(pages, brand, lang) ELSE << >>
<1>1. /\ p.services = Sorted(Values(services)) /\ p.products = Sorted(Values(products))
      /\ p.categories = Categories(pages, brand) /\ p.topics = topics
  BY DEF BuildProfile
<1>2. Values(products) \subseteq Given /\ Values(stated) \subseteq Given
  BY OffersGiven DEF Kinds
<1>3. Values(TitleOffers(pages, brand, locations)) \subseteq Given
  BY TitleGiven
<1>4. Values(services) \subseteq Given
  BY <1>2, <1>3
<1>5. topics \in Seq(Given)
  <2>1. Topics(pages, brand, lang) \in Seq(Given) /\ << >> \in Seq(Given)
    BY TopicsGiven
  <2>. QED
    BY <2>1
<1>6. Categories(pages, brand) \in Seq(Given)
  BY CategoriesGiven
<1>. HIDE DEF p, brand, services, products, stated, topics
<1>7. Sorted(Values(services)) \in Seq(Given) /\ Sorted(Values(products)) \in Seq(Given)
  BY <1>2, <1>4, SortedGiven
<1>8. NamesGiven(p)
  BY <1>1, <1>5, <1>6, <1>7 DEF NamesGiven
<1>. QED
  BY <1>8 DEF p

LEMMA CandidatesGiven ==
  ASSUME NEW p, ProfileTyped(p), NamesGiven(p), NEW s \in CandidateSpecs(p)
  PROVE  Concepts(s) # << >>
<1>1. /\ \A n \in ToSet(p.services) : n # NoName
      /\ \A n \in ToSet(p.products) : n # NoName
      /\ \A n \in ToSet(p.categories) : n # NoName
      /\ \A n \in ToSet(p.topics) : n # NoName
  BY ElementsFinite DEF NamesGiven, Given
<1>2. s \in Specs
  BY CandidateSpecsTyped
<1>3. \E n \in {s.service, s.product, s.topic, s.location} : n # NoName
  <2>1. CASE s \in ServiceSpecs(p)
    BY <1>1, <2>1 DEF ServiceSpecs, Ask
  <2>2. CASE s \in ProductSpecs(p)
    BY <1>1, <2>2 DEF ProductSpecs, Ask
  <2>3. CASE s \in CombinedSpecs(p)
    <3>1. s.service = p.services[1] /\ ~(Len(p.services) < 2)
      BY <2>3 DEF CombinedSpecs, Ask
    <3>2. p.services \in Seq(Given) /\ Len(p.services) \in Nat
      BY Places DEF NamesGiven
    <3>3. 1 \in 1..Len(p.services)
      BY <3>1, <3>2
    <3>4. p.services[1] \in Given
      BY <3>2, <3>3, Places
    <3>. QED
      BY <3>1, <3>4 DEF Given
  <2>4. CASE s \in PrimarySpecs(p)
    BY <2>4 DEF PrimarySpecs, Ask
  <2>5. CASE s \in BrandSpecs(p)
    BY <2>5 DEF BrandSpecs, Ask
  <2>6. CASE s \in CategorySpecs(p)
    BY <1>1, <2>6 DEF CategorySpecs, Ask
  <2>7. CASE s \in TopicSpecs(p)
    BY <1>1, <2>7 DEF TopicSpecs, Ask
  <2>. QED
    BY <2>1, <2>2, <2>3, <2>4, <2>5, <2>6, <2>7 DEF CandidateSpecs
<1>4. ToSet(Concepts(s)) # {}
  BY <1>2, <1>3, ConceptsAre
<1>5. ToSet(<< >>) = {}
  BY DEF ToSet
<1>. QED
  BY <1>4, <1>5

=============================================================================
