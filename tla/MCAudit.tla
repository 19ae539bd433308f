------------------------------ MODULE MCAudit -------------------------------
(* Twelve pages of which a site has one home and up to three others.          *)
EXTENDS Audit

En == [base |-> "en", region |-> ""]
Gb == [base |-> "en", region |-> "gb"]
De == [base |-> "de", region |-> ""]

MCAlphabet == <<"acme", "bonn", "cart", "dach", "de", "directions", "en", "gmbh", "guide", "heater",
  "heating", "home", "moon", "offer", "phases", "price", "provider", "pump", "repair", "roof", "solar", "the", "trial",
  "which", "zenith">>
MCDomain   == {"acme"}
MCGeneric  == {"home", "guide"}
MCProse    == {"the"}
MCForeign  == [l \in {"de", "en"} |-> IF l = "en" THEN {"dach"} ELSE {"roof", "repair"}]
MCTemplateWords == [l \in {"de", "en"} |-> {"offer", "provider", "which"}]
MCLn == <<0, 693, 1099, 1386, 1609, 1792>>

Plain == [ type |-> "other", lang |-> En, hreflang |-> {}, title |-> << >>, h1 |-> {}, headings |-> {},
           siteName |-> {}, text |-> {}, length |-> 300, words |-> 100, figures |-> 0, citations |-> 0,
           answers |-> 0, structures |-> {}, authored |-> FALSE, age |-> -1, hash |-> "", canonical |-> TRUE,
           city |-> {}, operator |-> {}, nodes |-> << >>, links |-> << >> ]
Bare == [ types |-> {}, name |-> {}, legal |-> {}, alternate |-> {}, country |-> {}, city |-> {},
          sellers |-> {}, hosts |-> {}, categories |-> {}, fields |-> {} ]

(* A home that states the business, and one that tells of it in its title  *)
(* and its schema's shape alone.                                           *)
Business == [Plain EXCEPT !.type = "home", !.title = <<{"roof", "repair"}, {"acme"}>>, !.h1 = {"acme"},
  !.siteName = {"acme"}, !.hash = "a", !.text = {"roof", "repair", "acme", "bonn", "price"}, !.figures = 1,
  !.nodes = <<[Bare EXCEPT !.types = {"organization"}, !.name = {"acme"}, !.fields = {"url", "telephone"}]>>,
  !.links = <<[path |-> "service", label |-> "service", text |-> {"roof", "repair"}],
              [path |-> "other", label |-> "legal", text |-> {"home"}]>>]
Letters == [Plain EXCEPT !.type = "home", !.title = <<{"moon", "phases"}, {"zenith"}>>, !.h1 = {"moon", "guide"},
  !.hash = "b", !.length = 100, !.text = {"moon", "phases", "zenith"}, !.canonical = FALSE]
Roofs == [Plain EXCEPT !.type = "service", !.title = <<{"roof", "repair"}, {"acme"}>>, !.h1 = {"roof", "repair"},
  !.hash = "c", !.length = 500, !.text = {"roof", "repair", "bonn", "price"}, !.figures = 4, !.answers = 3,
  !.structures = {"table", "procedure"},
  !.nodes = <<[Bare EXCEPT !.types = {"service"}, !.name = {"roof", "repair"}]>>]
Dach == [Plain EXCEPT !.type = "service", !.lang = De, !.title = <<{"dach"}, {"acme"}>>, !.h1 = {"dach"},
  !.hash = "d", !.text = {"dach", "bonn"}, !.headings = {{"dach"}}, !.answers = 1]
Imprint == [Plain EXCEPT !.type = "legal", !.title = <<{"acme", "gmbh"}>>, !.h1 = {"acme"}, !.hash = "e",
  !.text = {"acme", "gmbh", "bonn"}, !.operator = {"acme", "gmbh"}, !.city = {"bonn"}]
Shop == [Plain EXCEPT !.type = "product", !.title = <<{"pump"}, {"zenith"}>>, !.h1 = {"pump"}, !.hash = "f",
  !.text = {"pump", "heater", "cart", "price"}, !.age = 400,
  !.nodes = <<[Bare EXCEPT !.types = {"product"}, !.name = {"pump"}, !.sellers = {{"zenith"}}],
              [Bare EXCEPT !.types = {"product"}, !.name = {"heater"}, !.sellers = {{"zenith"}}]>>]
Own == [Plain EXCEPT !.type = "product", !.title = <<{"solar"}>>, !.h1 = {"solar"}, !.hash = "g",
  !.text = {"solar", "trial"}, !.nodes = <<[Bare EXCEPT !.types = {"product"}, !.name = {"solar"},
                                             !.hosts = {"own"}, !.categories = {{"heating"}}]>>]
Moon == [Plain EXCEPT !.type = "guide", !.title = <<{"moon", "phases"}, {"zenith"}>>, !.h1 = {"moon", "phases"},
  !.hash = "h", !.text = {"moon", "phases"}, !.authored = TRUE, !.age = 90, !.structures = {"definition", "list"},
  !.citations = 2]
Post == [Plain EXCEPT !.type = "blog", !.lang = Gb, !.title = <<{"solar", "heater"}, {"zenith"}>>, !.h1 = {"solar", "heater"},
  !.hash = "h", !.text = {"solar", "heater"}, !.age = -30]
Prices == [Plain EXCEPT !.type = "pricing", !.title = <<{"price"}>>, !.h1 = {"price"}, !.hash = "i", !.text = {"price", "trial"},
  !.figures = 9, !.age = 800, !.links = <<[path |-> "about", label |-> "other", text |-> {"home"}]>>]

(* Another company's name on an about page, and tables of data.            *)
Owner == [Plain EXCEPT !.type = "about", !.title = <<{"zenith"}>>, !.h1 = {"zenith"}, !.siteName = {"zenith"},
  !.hash = "j", !.text = {"zenith", "bonn"},
  !.nodes = <<[Bare EXCEPT !.types = {"localbusiness"}, !.name = {"zenith"}, !.legal = {"zenith", "gmbh"},
                           !.country = {"de"}, !.fields = {"url", "address", "email", "date"}]>>]
Data == [Plain EXCEPT !.type = "reference", !.title = <<{"moon", "phases"}, {"acme"}>>, !.h1 = {"moon"}, !.hash = "k",
  !.text = {"moon", "phases", "price"}, !.figures = 20, !.age = 200, !.structures = {"table"}, !.canonical = FALSE,
  !.nodes = <<[Bare EXCEPT !.types = {"dataset"}]>>]

MCCatalogue == <<Business, Letters, Roofs, Dach, Imprint, Shop, Own, Moon, Post, Prices, Owner, Data>>
=============================================================================
