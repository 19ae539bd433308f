SPECIFICATION Spec
CONSTANTS
  Alphabet <- MCAlphabet
  Domain <- MCDomain
  Generic <- MCGeneric
  Prose <- MCProse
  Foreign <- MCForeign
  TemplateWords <- MCTemplateWords
  Ln <- MCLn
  Catalogue <- MCCatalogue
  MaxClusters = 9
  MaxPages = 4
  SiteBound = 4
INVARIANT NoOfferAdvice
