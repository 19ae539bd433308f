-------------------------------- MODULE Site --------------------------------
(***************************************************************************)
(* The pages a crawl leaves, and the business profile that                 *)
(* geo_worker.profile reads off them.  A name, a heading or a text is the  *)
(* set of its words: a phrase is in a text when its words are.  Order      *)
(* inside a phrase, casing, casing-restoring display names and spellings   *)
(* without spaces are left out.  Confidences, strengths and brand scores   *)
(* are integers that count ten-thousandths.                                *)
(***************************************************************************)
EXTENDS Integers, Sequences, FiniteSets, SequencesExt

CONSTANTS Alphabet,     \* every word, in alphabetical order
          Domain,       \* the words of the registrable domain
          Generic,      \* words that are never a brand: "docs", "home", ...
          Prose,        \* words that give a sentence or a menu label away
          Foreign       \* Foreign[l]: words that are not of language l

Words == ToSet(Alphabet)
Name  == SUBSET Words
ASSUME WordsAssumption == Alphabet \in Seq(STRING) /\ Domain \in Name

NoName  == {}
Unstated == ""    \* the base of the language of a page that states none
NoLang  == [base |-> Unstated, region |-> ""]
Supported == {"de", "en"}

(* round() of a quotient, and the quotient of a percentage. *)
RoundDiv(a, b) == (a + b \div 2) \div b
Least(a, b) == IF a <= b THEN a ELSE b
Most(a, b)  == IF a >= b THEN a ELSE b
Count(s, Test(_)) == Cardinality({i \in DOMAIN s : Test(s[i])})
Some(s, Test(_))  == \E i \in DOMAIN s : Test(s[i])
Concat(s, f(_))   == FlattenSeq([i \in DOMAIN s |-> f(s[i])])
Where(s, Test(_)) == Concat(s, LAMBDA x : IF Test(x) THEN <<x>> ELSE << >>)

(* sorted(S, key=...): least first, ties in some fixed order; below is the *)
(* set of the pairs <<x, y>> of S with x before y.                         *)
SortBy(S, below) ==
  LET sort[R \in SUBSET S] ==
        IF R = {} THEN << >>
        ELSE LET least == CHOOSE x \in R : \A y \in R : <<y, x>> \notin below
             IN  <<least>> \o sort[R \ {least}]
  IN sort[S]

(* Names are ordered by the first word only one of them has. *)
Place(w) == CHOOSE i \in DOMAIN Alphabet : Alphabet[i] = w
Before(a, b) ==
  \E w \in a \ b : \A v \in b \ a : Place(w) < Place(v)
Sorted(names) == SortBy(names, {q \in names \X names : Before(q[1], q[2])})

Jaccard(a, b, whole) ==
  IF a = {} \/ b = {} THEN 0
  ELSE RoundDiv(whole * Cardinality(a \cap b), Cardinality(a \cup b))
SameBrand(a, b) == a # {} /\ b # {} /\ (a \subseteq b \/ b \subseteq a)

(***************************************************************************)
(* What the extraction leaves of a page.                                   *)
(***************************************************************************)
Lang == [base : Words \cup {Unstated}, region : STRING]
Link == [path : STRING, label : STRING, text : Name]
Node == [ types : SUBSET STRING, name : Name, legal : Name, alternate : Name,
          country : Name, city : Name, sellers : SUBSET Name, hosts : SUBSET STRING,
          categories : SUBSET Name, fields : SUBSET STRING ]
Page == [ type : STRING, lang : Lang, hreflang : SUBSET Lang, title : Seq(Name), h1 : Name,
          headings : SUBSET Name, siteName : Name, text : Name, length : Nat, words : Nat,
          figures : Nat, citations : Nat, answers : Nat, structures : SUBSET STRING,
          authored : BOOLEAN, age : Int, hash : STRING, canonical : BOOLEAN,
          city : Name, operator : Name, nodes : Seq(Node), links : Seq(Link) ]

Types(pages)   == {pages[i].type : i \in DOMAIN pages}
Nodes(pages)   == Concat(pages, LAMBDA p : p.nodes)
TitleWords(p)  == UNION {p.title[i] : i \in DOMAIN p.title}
Suffix(p)      == IF Len(p.title) > 1 THEN Last(p.title) ELSE NoName
SiteText(pages) == UNION {pages[i].text : i \in DOMAIN pages}

(* A link is evidence of a page of the type its path or its label names. *)
ClassifyLink(l) == IF l.path \in {"home", "other"} THEN l.label ELSE l.path

(* The node of the business: an organization by its type, or a named node  *)
(* with an address or a telephone.                                         *)
Shape(n) == n.fields \cap {"address", "telephone"} # {}
OrgMarkers == {"organization", "localbusiness"}
NonOrg == {"website", "article", "product", "service", "person", "breadcrumblist"}
IsOrg(n) ==
  \/ n.types \cap OrgMarkers # {}
  \/ /\ n.types # {}
     /\ n.types \cap NonOrg = {}
     /\ n.name # NoName
     /\ Shape(n)
OrgNodes(pages) == Where(Nodes(pages), IsOrg)

Evidence(field, value, confidence) ==
  [field |-> field, value |-> value, confidence |-> confidence]

(***************************************************************************)
(* Languages, places and the legal name.                                   *)
(***************************************************************************)
Languages(pages) ==
  {l.base : l \in UNION {{pages[i].lang} \cup pages[i].hreflang : i \in DOMAIN pages}} \ {Unstated}

PrimaryLanguage(pages) ==
  LET n(b) == Count(pages, LAMBDA p : p.lang.base = b)
      spoken == {pages[i].lang.base : i \in DOMAIN pages} \ {Unstated}
  IN IF spoken = {} THEN Unstated
     ELSE CHOOSE b \in spoken :
            \A c \in spoken \ {b} : n(b) > n(c) \/ (n(b) = n(c) /\ Place(b) < Place(c))

Imprints(pages) ==
  Where(pages, LAMBDA p : p.type \in {"legal", "about"} /\ p.length > 0)

Countries(pages) ==
  {OrgNodes(pages)[i].country : i \in DOMAIN OrgNodes(pages)} \ {NoName}
Locations(pages) ==
  LET stated == {OrgNodes(pages)[i].city : i \in DOMAIN OrgNodes(pages)} \ {NoName}
      printed == Where(Imprints(pages), LAMBDA p : p.city # NoName)
  IN IF stated # {} THEN stated
     ELSE {printed[i].city : i \in DOMAIN printed \cap {1}}

(* The name and the evidence for it. *)
LegalName(pages) ==
  LET stated  == Where(OrgNodes(pages), LAMBDA n : n.legal # NoName)
      printed == Where(Imprints(pages), LAMBDA p : p.operator # NoName)
  IN IF stated # << >> THEN Evidence("legal_name", Head(stated).legal, 9000)
     ELSE IF printed # << >> THEN Evidence("legal_name", Head(printed).operator, 7000)
     ELSE Evidence("legal_name", NoName, 0)

(***************************************************************************)
(* The brand: scored candidates, a rival that is too close, a fallback.    *)
(***************************************************************************)
MinBrandScore     == 5000
AmbiguityMargin   == 1000
AmbiguityRivalMin == 3500
AliasMin          == 4000

OrgNames(pages) ==
  UNION {{n.name, n.legal, n.alternate} : n \in ToSet(OrgNodes(pages))} \ {NoName}
SiteNames(pages) == {pages[i].siteName : i \in DOMAIN pages} \ {NoName}
TitleSuffixes(pages)  == {Suffix(pages[i]) : i \in DOMAIN pages} \ {NoName}
Repeated(pages)  ==
  {s \in TitleSuffixes(pages) : Count(pages, LAMBDA p : Suffix(p) = s) >= 2}
StatedOn(name, pages, types) ==
  Some(pages, LAMBDA p : p.type \in types /\ (name \subseteq TitleWords(p) \/ name \subseteq p.h1))

BrandScore(name, pages) ==
    (IF name \in OrgNames(pages) THEN 3000 ELSE 0)
  + (IF name \in SiteNames(pages) \cup Repeated(pages) THEN 2500 ELSE 0)
  + (IF StatedOn(name, pages, {"about", "legal", "contact"}) THEN 2000 ELSE 0)
  + (IF StatedOn(name, pages, {"home"}) THEN 1500 ELSE 0)
  + Jaccard(name, Domain, 1000)

BrandCandidates(pages) ==
  {[name |-> c, score |-> BrandScore(c, pages)] :
     c \in {d \in OrgNames(pages) \cup SiteNames(pages) \cup TitleSuffixes(pages) \cup {Domain} :
              ~ d \subseteq Generic /\ BrandScore(d, pages) > 0}}

Ranked(candidates) ==
  SortBy(candidates, {q \in candidates \X candidates :
                        \/ q[1].score > q[2].score
                        \/ q[1].score = q[2].score /\ Before(q[1].name, q[2].name)})

DomainBrand(pages) ==
  IF /\ Cardinality(Domain) = 1 /\ ~ Domain \subseteq Generic
     /\ Some(pages, LAMBDA p : /\ p.type = "home"
                               /\ Domain \subseteq p.siteName \cup TitleWords(p) \cup p.h1)
  THEN Domain ELSE NoName

Brand(name, confidence, aliases) ==
  [name |-> name, confidence |-> confidence, aliases |-> aliases]

BrandOf(pages, ranked) ==
  LET best   == Head(ranked)
      rivals == Where(Tail(ranked), LAMBDA c : ~SameBrand(best.name, c.name))
      ambiguous == /\ rivals # << >>
                   /\ best.score - Head(rivals).score < AmbiguityMargin
                   /\ Head(rivals).score >= AmbiguityRivalMin
  IN IF ranked # << >> /\ best.score >= MinBrandScore /\ ~ambiguous
     THEN Brand(best.name, best.score,
                {c.name : c \in {d \in ToSet(Tail(ranked)) : d.score >= AliasMin}})
     ELSE IF DomainBrand(pages) # NoName THEN Brand(DomainBrand(pages), 5500, {})
     ELSE Brand(NoName, IF ranked = << >> THEN 0 ELSE best.score, {})

ResolveBrand(pages) == BrandOf(pages, Ranked(BrandCandidates(pages)))
=============================================================================
