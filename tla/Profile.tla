------------------------------ MODULE Profile -------------------------------
(***************************************************************************)
(* build_profile: what the business offers, whether it sells what it       *)
(* lists, the topics of a site that offers nothing, the type of the site,  *)
(* and the profile that joins them with brand, places and languages.       *)
(***************************************************************************)
EXTENDS Site

Plausible(name) == Cardinality(name) \in 1..8 /\ name \cap Prose = {}

(* A node with a service type is a service, whatever else it is. *)
OfKind(n, kind) ==
  /\ n.name # NoName
  /\ kind \in n.types
  /\ kind = "product" => "service" \notin n.types

(***************************************************************************)
(* Offers of a kind in the order they are read: per page its JSON-LD, its  *)
(* navigation, its own heading.  The first source of a name is kept.       *)
(***************************************************************************)
OfferNodes(p, kind) == Where(p.nodes, LAMBDA n : OfKind(n, kind))
OfferLinks(p, kind) == Where(p.links, LAMBDA l : l.path = kind)
PageOffers(p, kind) ==
     [i \in DOMAIN OfferNodes(p, kind) |-> Evidence(kind, OfferNodes(p, kind)[i].name, 9000)]
  \o [i \in DOMAIN OfferLinks(p, kind) |-> Evidence(kind, OfferLinks(p, kind)[i].text, 6000)]
  \o (IF p.type = kind THEN <<Evidence(kind, p.h1, 5000)>> ELSE << >>)
Offers(pages, kind) ==
  Where(Concat(pages, LAMBDA p : PageOffers(p, kind)), LAMBDA o : Plausible(o.value))

FirstOffers(offers) ==
  {offers[i] : i \in {j \in DOMAIN offers : \A k \in 1..(j - 1) : offers[k].value # offers[j].value}}
Values(evidence) == {e.value : e \in evidence}

(***************************************************************************)
(* Who sells a listed product: the offer's sellers decide, then its hosts. *)
(***************************************************************************)
OwnParty(name, brand, legal) ==
  \/ \E known \in {brand.name, legal} \cup brand.aliases : SameBrand(name, known)
  \/ Domain \subseteq name

Party(n, brand, legal) ==
  IF n.sellers # {} THEN IF \E s \in n.sellers : OwnParty(s, brand, legal) THEN "own" ELSE "third"
  ELSE IF n.hosts # {} THEN IF "own" \in n.hosts THEN "own" ELSE "third"
  ELSE "unknown"

ProductsOf(pages, party, brand, legal) ==
  {n.name : n \in {m \in ToSet(Nodes(pages)) : OfKind(m, "product") /\ Party(m, brand, legal) = party}}

CleanCategory(name, brand) ==
  Plausible(name) /\ Cardinality(name) <= 4 /\ ~SameBrand(name, brand.name)

Categories(pages, brand) ==
  LET all == UNION {n.categories : n \in {m \in ToSet(Nodes(pages)) : OfKind(m, "product")}}
      sorted == Sorted({c \in all : CleanCategory(c, brand)})
  IN SubSeq(sorted, 1, Least(6, Len(sorted)))

CatalogMode(pages, products, brand, legal) ==
  IF /\ Cardinality(products \cap ProductsOf(pages, "third", brand, legal)) >= 2
     /\ ProductsOf(pages, "own", brand, legal) = {}
  THEN "third_party" ELSE IF products # {} THEN "own" ELSE ""

(***************************************************************************)
(* A site whose schema describes a real business and that names no         *)
(* offering: the parts of its home page's title, without brand and places. *)
(***************************************************************************)
Bared(part, brand, locations) ==
  LET named == IF brand.name \subseteq part THEN part \ brand.name ELSE part
  IN  named \ UNION {l \in locations : l \subseteq named}
OfferPart(name) == Plausible(name) /\ Cardinality(name) <= 4 /\ ~ name \subseteq Generic
OfferParts(title, brand, locations) ==
  Where([i \in DOMAIN title |-> Bared(title[i], brand, locations)], OfferPart)
TitledHomes(pages) == Where(pages, LAMBDA p : p.type = "home" /\ p.title # << >>)
TitleOffers(pages, brand, locations) ==
  LET names == OfferParts(Head(TitledHomes(pages)).title, brand, locations)
  IN IF TitledHomes(pages) = << >> \/ ~Some(OrgNodes(pages), Shape) THEN {}
     ELSE {Evidence("service", names[i], 4000) :
             i \in {j \in DOMAIN names : Cardinality({names[k] : k \in 1..(j - 1)}) < 3}}

(***************************************************************************)
(* Topics of a site without offerings.                                     *)
(***************************************************************************)
GenLanguage(primary, languages) ==
  IF primary \in Supported THEN primary
  ELSE IF languages \cap Supported = {} THEN "en"
  ELSE CHOOSE l \in languages \cap Supported :
         \A m \in (languages \cap Supported) \ {l} : Place(l) < Place(m)

(* The subject of a title: its first longest part that is not the brand. *)
Unbranded(parts, brand) == Where(parts, LAMBDA q : q # brand.name /\ q # Domain)
Longest(names) == Where(names, LAMBDA q : ~Some(names, LAMBDA r : Cardinality(r) > Cardinality(q)))
Subject(parts, brand) ==
  LET others == Unbranded(parts, brand)
      named  == IF Len(parts) >= 2 /\ others # << >> THEN Head(Longest(others)) ELSE UNION ToSet(parts)
  IN IF brand.name \subseteq named THEN named \ brand.name ELSE named

Topical(t, lang) ==
  /\ Cardinality(t) \in 2..6
  /\ t \cap (Prose \cup Foreign[lang]) = {}
  /\ ~ t \subseteq Generic

Subjects(raw, brand, lang) ==
  Where([i \in DOMAIN raw |-> Subject(raw[i], brand)], LAMBDA t : Topical(t, lang))

Spoken(p, lang) == p.lang.base \in {Unstated, lang}
ContentTitles(pages, lang) ==
  Concat(Where(pages, LAMBDA p :
           Spoken(p, lang) /\ p.type \notin {"home", "legal", "contact", "about", "faq"}),
         LAMBDA p : <<<<p.h1>>, p.title>>)
HomeTitles(pages, lang) ==
  Concat(Where(pages, LAMBDA p : Spoken(p, lang) /\ p.type = "home"), LAMBDA p : <<p.title, <<p.h1>>>>)

(* Eight topics at most, none that is near one before it. *)
Near(t, u) == t \subseteq u \/ u \subseteq t
AddTopic(seen, t) ==
  IF Len(seen) >= 8 \/ Some(seen, LAMBDA u : Near(t, u)) THEN seen ELSE Append(seen, t)
Topics(pages, brand, lang) ==
  LET found    == Subjects(ContentTitles(pages, lang), brand, lang)
      fallback == Subjects(HomeTitles(pages, lang), brand, lang)
  IN IF found # << >> THEN FoldLeft(AddTopic, << >>, found)
     ELSE SubSeq(fallback, 1, Least(1, Len(fallback)))

(***************************************************************************)
(* The type of the site: the first rule that applies.                      *)
(***************************************************************************)
NonCommercial == {"documentation_reference", "publisher_editorial"}

SiteTypeRules(pages, services, products, locations, brand) ==
  LET n     == Most(Len(pages), 1)
      jl    == UNION {m.types : m \in ToSet(Nodes(pages))}
      typed(types) == Count(pages, LAMBDA p : p.type \in types)
      editorial == typed({"blog", "guide", "case_study", "reference"})
      authored  == Count(pages, LAMBDA p : p.authored)
      rule(applies, type) == [applies |-> applies, type |-> type]
  IN << rule("dataset" \in jl, "documentation_reference"),
        rule(/\ "product" \in jl \/ typed({"product"}) >= 2 \/ products # {}
             /\ "cart" \in SiteText(pages), "ecommerce"),
        rule("localbusiness" \in jl, "local_business"),
        rule(locations # {} /\ "directions" \in SiteText(pages), "local_business"),
        rule("softwareapplication" \in jl, "saas"),
        rule(/\ typed({"pricing"}) > 0
             /\ "trial" \in SiteText(pages) /\ locations = {}, "saas"),
        rule(2 * editorial >= n /\ n >= 3, "publisher_editorial"),
        rule(5 * editorial >= 2 * n /\ authored >= 2, "publisher_editorial"),
        rule(5 * typed({"reference"}) >= 2 * n /\ n >= 3, "documentation_reference"),
        rule(services # {} /\ locations # {}, "local_business"),
        rule(services # {}, "service_business"),
        rule(brand.name # NoName /\ n <= 3, "portfolio_personal_brand"),
        rule(TRUE, "unknown") >>

ClassifySite(pages, services, products, locations, brand) ==
  Where(SiteTypeRules(pages, services, products, locations, brand),
            LAMBDA r : r.applies)[1].type

(***************************************************************************)
(* The profile.  The confirmed name of build_profile is left out: no       *)
(* caller in the service passes one.                                       *)
(***************************************************************************)
BuildProfile(pages) ==
  LET brand     == ResolveBrand(pages)
      legal     == LegalName(pages)
      locations == Locations(pages)
      products  == FirstOffers(Offers(pages, "product"))
      stated    == FirstOffers(Offers(pages, "service"))
      services  == IF stated = {} /\ products = {}
                   THEN TitleOffers(pages, brand, locations) ELSE stated
      none      == services = {} /\ products = {}
      lang      == GenLanguage(PrimaryLanguage(pages), Languages(pages))
      categories == Categories(pages, brand)
      third     == Values(products) \cap ProductsOf(pages, "third", brand, legal.value)
  IN [ brand |-> brand.name, aliases |-> brand.aliases,
       needsConfirmation |-> brand.name = NoName,
       legal |-> legal.value,
       languages |-> Languages(pages), language |-> lang,
       countries |-> Countries(pages), locations |-> Sorted(locations),
       services |-> Sorted(Values(services)), products |-> Sorted(Values(products)),
       thirdParty |-> third,
       catalog |-> CatalogMode(pages, Values(products), brand, legal.value),
       categories |-> categories,
       siteType |-> ClassifySite(pages, services, products, locations, brand),
       topics |-> IF none THEN Topics(pages, brand, lang) ELSE << >>,
       evidence |-> {e \in services \cup products \cup {legal} : e.confidence > 0}
         \cup {Evidence("language", {l}, 9000) : l \in Languages(pages)}
         \cup {Evidence("country", c, 9000) : c \in Countries(pages)}
         \cup {Evidence("location", l, 9000) : l \in locations}
         \cup {Evidence("product_category", c, 9000) : c \in ToSet(categories)}
         \cup (IF brand.name = NoName THEN {}
               ELSE {Evidence("brand_name", brand.name, brand.confidence)}) ]
=============================================================================
