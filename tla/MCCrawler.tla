------------------------------ MODULE MCCrawler ------------------------------
(* A site with an English root, a page spelled in two ways, a German copy of *)
(* higher type priority, a private host, and one sitemap.                    *)
EXTENDS Crawler

MCUrls == {"home", "page", "page/", "de", "private", "robots", "map"}
MCCanonical == [u \in MCUrls |-> IF u = "page/" THEN "page" ELSE u]
MCTypePriority == [u \in MCUrls |->
    CASE u = "home" -> 100 [] u = "de" -> 95 [] OTHER -> 30]
MCLocale == [u \in MCUrls |-> IF u = "de" THEN "de" ELSE IF u = "page" THEN "en" ELSE "none"]
MCRobotsFiles == {[disallow |-> {"page"}, sitemaps |-> <<>>],
                  [disallow |-> {"home"}, sitemaps |-> <<"map">>],
                  [disallow |-> {"private"}, sitemaps |-> <<"map", "map">>]}
MCLinkSets == {{}, {"page/", "de"}, {"page", "private"}, {"home", "de"}}

=============================================================================
