SPECIFICATION Spec
CONSTANTS
  Alphabet <- MCAlphabet
  Domain <- MCDomain
  Generic <- MCGeneric
  Prose <- MCProse
  Foreign <- MCForeign
  TemplateWords <- MCTemplateWords
  Ln <- MCLn
  Catalogue <- MCCatalogue
  MaxClusters = 9
  MaxPages = 4
  SiteBound = 4
INVARIANTS
  TypeOK
  WeakHasAction
  AdviceIsFocused
  AdviceCanBeFollowed
  OverallBetween
  ReportAgrees
  CatalogueIsAsked
PROPERTIES
  EvidenceGrows
  LanguageKept
