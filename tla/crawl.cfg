CONSTANTS
    Urls <- MCUrls
    Start = "home"
    RobotsUrl = "robots"
    Internal = {"private"}
    Canonical <- MCCanonical
    TypePriority <- MCTypePriority
    Locale <- MCLocale
    NoLocale = "none"
    RobotsFiles <- MCRobotsFiles
    LinkSets <- MCLinkSets
    Sizes = {1, 2}
    MaxPages = 2
    MaxDepth = 2
    MaxBody = 2
    MaxTotal = 3
    MaxRenders = 1
    MaxRedirects = 1
SPECIFICATION Spec
INVARIANTS TypeOK EachUrlOnce WithinLimits RequestsAllowed StatusIsTrue
PROPERTIES PrimaryFirst Terminates
