---------------------------- MODULE CrawlerProofs ----------------------------
(* Safety of the crawl for every set of URLs, every site and all limits.    *)
EXTENDS Crawler, FiniteSetTheorems, FunctionTheorems, TLAPS

\* Where the crawl stands and what it may have asked for by then
Phases ==
    /\ pc = "seed" => /\ sent.job = "none" /\ heap = {} /\ seen = {} /\ visited = {}
                      /\ metrics.pages = 0 /\ metrics.bytes = 0
    /\ pc \in {"seed", "robots", "sitemaps"} =>
         /\ sent.job # "page" /\ visited = {} /\ ~homepage /\ ~blockedCore
    /\ pc = "robots" => heap = {} /\ seen = {}
    /\ status = "running" <=> pc # "done"

\* The frontier is what was seen and not taken, and its ranks are current
Frontier ==
    /\ \A e \in heap : e.rank = Priority(e.url, primary)
    /\ \A u \in seen : u \in visited \/ \E e \in heap : e.url = u

Budget ==
    /\ pc \in {"seed", "robots", "sitemaps"} => metrics.pages = 0 /\ metrics.bytes = 0
    /\ pc = "page" => metrics.pages < MaxPages /\ metrics.bytes < MaxTotal

Asking ==
    /\ pc = "page" => /\ entry.url \in visited
                      /\ entry.url \notin robots.disallow
                      /\ redirects = 0 => target \notin robots.disallow
    /\ homepage => Start \notin robots.disallow
    /\ blockedCore => Start \in robots.disallow

Ends ==
    /\ status = "completed" => heap = {}
    /\ status = "partial" => heap # {} /\ ~Open
    /\ status = "failed" => sent.job = "none"

Inv == TypeOK /\ EachUrlOnce /\ WithinLimits /\ RequestsAllowed
         /\ Phases /\ Frontier /\ Budget /\ Asking /\ Ends

-----------------------------------------------------------------------------
\* What enqueue, set_primary_locale and the priority compute.
LEMMA PriorityType ==
  ASSUME NEW u \in Urls, NEW p \in Locales \cup {NoLocale}
  PROVE  /\ Priority(u, p) \in Int
         /\ OffLocale(u, p) => Priority(u, p) <= 0
         /\ ~OffLocale(u, p) => Priority(u, p) > 0
<1>1. TypePriority[u] \in 1 .. 100
  BY CrawlerAssumption DEF Penalty
<1>2. CASE OffLocale(u, p)
  BY <1>1, <1>2 DEF Priority, Penalty
<1>3. CASE ~OffLocale(u, p)
  BY <1>1, <1>3 DEF Priority, Penalty
<1> QED
  BY <1>2, <1>3

LEMMA NewUrls ==
  ASSUME NEW urls \in SUBSET Urls, NEW s
  PROVE  /\ New(urls, s) \subseteq Urls
         /\ New(urls, s) \cap s = {}
         /\ New(urls, s) \subseteq {Canonical[u] : u \in Urls}
BY CrawlerAssumption DEF New

LEMMA EntriesOf ==
  ASSUME NEW urls \in SUBSET Urls, NEW d \in 0 .. MaxDepth,
         NEW p \in Locales \cup {NoLocale}, NEW b \in Nat
  PROVE  /\ Entries(urls, d, p, b) \subseteq Entry
         /\ \A e \in Entries(urls, d, p, b) : e.url \in urls /\ e.rank = Priority(e.url, p)
         /\ \A u \in urls : \E e \in Entries(urls, d, p, b) : e.url = u
         /\ \A e, f \in Entries(urls, d, p, b) : e.url = f.url => e = f
<1> DEFINE R(u) == [rank |-> Priority(u, p), batch |-> b, url |-> u, depth |-> d]
<1>1. \A u \in urls : R(u) \in Entry /\ R(u).url = u /\ R(u).rank = Priority(u, p)
  BY PriorityType DEF Entry
<1>2. \A e \in Entries(urls, d, p, b) : e.url \in urls /\ e = R(e.url)
  BY DEF Entries
<1>3. \A u \in urls : R(u) \in Entries(urls, d, p, b)
  BY DEF Entries
<1> HIDE DEF R
<1> QED
  BY <1>1, <1>2, <1>3

LEMMA RerankedIs ==
  ASSUME NEW h \in SUBSET Entry, NEW p \in Locales \cup {NoLocale},
         \A e, f \in h : e.url = f.url => e = f
  PROVE  /\ Reranked(h, p) \subseteq Entry
         /\ \A e \in Reranked(h, p) : /\ \E g \in h : g.url = e.url
                                      /\ e.rank = Priority(e.url, p)
         /\ \A g \in h : \E e \in Reranked(h, p) : e.url = g.url
         /\ \A e, f \in Reranked(h, p) : e.url = f.url => e = f
<1> DEFINE R(e) == [e EXCEPT !.rank = Priority(e.url, p)]
<1>1. \A e \in h : Priority(e.url, p) \in Int
  BY PriorityType DEF Entry
<1>2. \A e \in h : R(e) \in Entry /\ R(e).url = e.url /\ R(e).rank = Priority(e.url, p)
  BY <1>1 DEF Entry
<1>3. \A e \in Reranked(h, p) : \E g \in h : e = R(g)
  BY DEF Reranked
<1>4. \A e \in h : R(e) \in Reranked(h, p)
  BY DEF Reranked
<1> HIDE DEF R
<1>5. \A e, f \in Reranked(h, p) : e.url = f.url => e = f
  <2> SUFFICES ASSUME NEW e \in Reranked(h, p), NEW f \in Reranked(h, p), e.url = f.url
               PROVE  e = f
    OBVIOUS
  <2>1. PICK g \in h : e = R(g)
    BY <1>3
  <2>2. PICK k \in h : f = R(k)
    BY <1>3
  <2> QED
    BY <1>2, <2>1, <2>2
<1> QED
  BY <1>2, <1>3, <1>4, <1>5

LEMMA SettledType ==
  ASSUME NEW p \in Locales \cup {NoLocale}, NEW c \in Locales \cup {NoLocale}
  PROVE  Settled(p, c) \in Locales \cup {NoLocale}
BY DEF Settled

-----------------------------------------------------------------------------
\* The seed: nothing has been asked for.
LEMMA Initially == Init => Inv
<1> SUFFICES ASSUME Init PROVE Inv
  OBVIOUS
<1> USE CrawlerAssumption DEF Init
<1>1. TypeOK
  <2>1. entry \in Entry /\ metrics \in Metrics /\ heap \subseteq Entry
    BY DEF Entry, Metrics
  <2>2. robots \in [disallow : SUBSET Urls, sitemaps : Seq(Urls)]
    OBVIOUS
  <2>3. sent \in [url : Urls, job : Fetches \cup {"none"}, direct : BOOLEAN]
    OBVIOUS
  <2>4. /\ pc = "seed" /\ status = "running" /\ target \in Urls /\ redirects \in 0 .. MaxRedirects
        /\ batch \in Nat /\ seen = {} /\ visited = {} /\ primary = NoLocale
        /\ homepage = FALSE /\ blockedCore = FALSE
    OBVIOUS
  <2> HIDE DEF Init
  <2> QED
    BY <2>1, <2>2, <2>3, <2>4 DEF TypeOK, Fetches, Status
<1>2. EachUrlOnce /\ WithinLimits /\ RequestsAllowed
  BY DEF EachUrlOnce, WithinLimits, RequestsAllowed, Fetches
<1>3. Phases /\ Frontier /\ Budget /\ Asking /\ Ends
  BY DEF Phases, Frontier, Budget, Asking, Ends
<1> QED
  BY <1>1, <1>2, <1>3 DEF Inv

\* Steps that leave the frontier alone.
LEMMA FrontierKept ==
  ASSUME TypeOK, EachUrlOnce, Frontier, UNCHANGED <<frontierVars, visited>>
  PROVE  EachUrlOnce' /\ Frontier'
BY DEF EachUrlOnce, Frontier, frontierVars, Entry, TypeOK

LEMMA RedirectStep == Inv /\ Redirect => Inv'
<1> SUFFICES ASSUME Inv, Redirect PROVE Inv'
  OBVIOUS
<1> USE DEF Inv, Redirect, Request, resultVars, frontierVars
<1>1. TypeOK'
  BY CrawlerAssumption DEF TypeOK, Fetches
<1>2. EachUrlOnce' /\ Frontier'
  BY FrontierKept
<1>3. RequestsAllowed'
  BY DEF RequestsAllowed, Valid, Asking, Fetches
<1>4. WithinLimits' /\ Phases' /\ Budget' /\ Asking' /\ Ends'
  BY DEF WithinLimits, Phases, Budget, Asking, Ends, Fetches, Open, TypeOK
<1> QED
  BY <1>1, <1>2, <1>3, <1>4

LEMMA TransportErrorStep == Inv /\ TransportError => Inv'
<1> SUFFICES ASSUME Inv, TransportError PROVE Inv'
  OBVIOUS
<1> USE DEF Inv, TransportError, Request, frontierVars
<1>1. TypeOK'
  BY CrawlerAssumption DEF TypeOK, Fetches, Status
<1>2. EachUrlOnce' /\ Frontier'
  BY FrontierKept
<1>3. RequestsAllowed'
  BY DEF RequestsAllowed, Valid, Asking, Fetches
<1>4. WithinLimits' /\ Phases' /\ Budget' /\ Asking' /\ Ends'
  BY DEF WithinLimits, Phases, Budget, Asking, Ends, Fetches, Open
<1> QED
  BY <1>1, <1>2, <1>3, <1>4

LEMMA SeedStep == Inv /\ (SeedBlocked \/ SeedValid) => Inv'
<1> SUFFICES ASSUME Inv, SeedBlocked \/ SeedValid PROVE Inv'
  OBVIOUS
<1> USE DEF Inv, SeedBlocked, SeedValid, Fetch, resultVars, frontierVars
<1>1. TypeOK'
  BY CrawlerAssumption DEF TypeOK, Fetches, Status
<1>2. EachUrlOnce' /\ Frontier'
  BY FrontierKept
<1>3. RequestsAllowed' /\ WithinLimits' /\ Phases' /\ Budget' /\ Asking' /\ Ends'
  BY DEF RequestsAllowed, WithinLimits, Phases, Budget, Asking, Ends, Fetches, Open
<1> QED
  BY <1>1, <1>2, <1>3

\* robots.txt read or not: the rules are set and the seed is enqueued.
LEMMA PolicyStep ==
  ASSUME Inv, NEW file \in [disallow : SUBSET Urls, sitemaps : Seq(Urls)], Policy(file),
         \/ UNCHANGED sent
         \/ sent' \in [url : Urls \ Internal, job : {"robots"}, direct : BOOLEAN]
  PROVE  Inv'
<1> USE DEF Inv, Policy, resultVars
<1>1. primary' \in Locales \cup {NoLocale}
  BY CrawlerAssumption, SettledType DEF TypeOK, Locales
<1>2. /\ heap' \subseteq Entry /\ \E e \in heap' : e.url = Start
      /\ \A e \in heap' : e.url = Start /\ e.rank = Priority(e.url, primary')
      /\ \A e, f \in heap' : e.url = f.url => e = f
  <2> DEFINE p == primary'
  <2>1. heap' = Entries({Start}, 0, p, 0)
    OBVIOUS
  <2>2. {Start} \in SUBSET Urls /\ 0 \in 0 .. MaxDepth /\ 0 \in Nat
    BY CrawlerAssumption
  <2>3. p \in Locales \cup {NoLocale}
    BY <1>1
  <2> HIDE DEF Inv, Policy, p
  <2>4. /\ Entries({Start}, 0, p, 0) \subseteq Entry
        /\ \A e \in Entries({Start}, 0, p, 0) : e.url \in {Start} /\ e.rank = Priority(e.url, p)
        /\ \A u \in {Start} : \E e \in Entries({Start}, 0, p, 0) : e.url = u
        /\ \A e, f \in Entries({Start}, 0, p, 0) : e.url = f.url => e = f
    BY <2>2, <2>3, EntriesOf
  <2> QED
    BY <2>1, <2>4 DEF p
<1>4. /\ pc' = "loop" /\ file.sitemaps = <<>> /\ UNCHANGED <<target, redirects>>
      \/ /\ pc' = "sitemaps" /\ file.sitemaps # <<>>
         /\ target' \in Urls /\ redirects' = 0
  BY DEF ReadNext, Fetch
<1>5. visited = {} /\ ~homepage /\ ~blockedCore /\ status = "running" /\ sent'.job # "page"
  BY DEF Phases
<1>6. TypeOK'
  <2>1. sent' \in [url : Urls, job : Fetches \cup {"none"}, direct : BOOLEAN]
    BY DEF TypeOK, Fetches
  <2>2. /\ robots' \in [disallow : SUBSET Urls, sitemaps : Seq(Urls)]
        /\ pc' = "sitemaps" => robots'.sitemaps # <<>>
    BY <1>4
  <2>3. /\ entry' \in Entry /\ metrics' \in Metrics /\ homepage' \in BOOLEAN
        /\ blockedCore' \in BOOLEAN /\ status' \in Status /\ visited' \subseteq Urls
        /\ target' \in Urls /\ redirects' \in 0 .. MaxRedirects
    BY CrawlerAssumption, <1>4 DEF TypeOK
  <2>4. pc' \in Fetches \cup {"loop"} /\ batch' \in Nat /\ seen' \subseteq Urls
    BY CrawlerAssumption, <1>4 DEF Fetches
  <2> QED
    BY <1>1, <1>2, <2>1, <2>2, <2>3, <2>4 DEF TypeOK
<1>7. EachUrlOnce' /\ Frontier'
  <2>1. seen' = {Start} /\ visited' = {} /\ Start \in {Canonical[u] : u \in Urls}
    BY CrawlerAssumption, <1>5
  <2> HIDE DEF Inv, Policy
  <2> QED
    BY <1>2, <2>1 DEF EachUrlOnce, Frontier
<1>8. RequestsAllowed'
  BY <1>5, <1>4 DEF RequestsAllowed, Fetches
<1>9. WithinLimits' /\ Phases' /\ Budget' /\ Asking' /\ Ends'
  BY <1>4, <1>5 DEF WithinLimits, Phases, Budget, Asking, Ends, Fetches
<1> QED
  BY <1>6, <1>7, <1>8, <1>9

LEMMA RobotsStep == Inv /\ (RobotsRead \/ RobotsNone) => Inv'
<1> SUFFICES ASSUME Inv, RobotsRead \/ RobotsNone PROVE Inv'
  OBVIOUS
<1> DEFINE none == [disallow |-> {}, sitemaps |-> <<>>]
<1>0. none \in [disallow : SUBSET Urls, sitemaps : Seq(Urls)]
  OBVIOUS
<1>1. PICK file \in [disallow : SUBSET Urls, sitemaps : Seq(Urls)] :
        /\ Policy(file)
        /\ Request \/ UNCHANGED sent
  <2>1. CASE RobotsRead
    BY CrawlerAssumption, <2>1 DEF RobotsRead
  <2>2. CASE RobotsNone
    BY <1>0, <2>2, Zenon DEF RobotsNone, Blocked, FetchError
  <2> QED
    BY <2>1, <2>2
<1>2. Request => sent' \in [url : Urls \ Internal, job : {"robots"}, direct : BOOLEAN]
  BY <1>1 DEF Inv, TypeOK, Request, Valid, Policy
<1> QED
  BY <1>1, <1>2, PolicyStep

\* A batch of new URLs joins what waits, re-ranked for the language p.
LEMMA Joined ==
  ASSUME Inv, NEW fresh \in SUBSET Urls, NEW d \in 0 .. MaxDepth,
         NEW p \in Locales \cup {NoLocale}, fresh \cap seen = {},
         fresh \subseteq {Canonical[u] : u \in Urls},
         NEW h, h \subseteq Entry,
         \A e \in h : e.rank = Priority(e.url, p) /\ \E g \in heap : g.url = e.url,
         \A g \in heap : \E e \in h : e.url = g.url,
         \A e, f \in h : e.url = f.url => e = f,
         heap' = h \cup Entries(fresh, d, p, batch),
         seen' = seen \cup fresh, primary' = p, UNCHANGED visited
  PROVE  EachUrlOnce' /\ Frontier' /\ heap' \subseteq Entry
<1> DEFINE new == Entries(fresh, d, p, batch)
<1>1. /\ new \subseteq Entry
      /\ \A e \in new : e.url \in fresh /\ e.rank = Priority(e.url, p)
      /\ \A u \in fresh : \E e \in new : e.url = u
      /\ \A e, f \in new : e.url = f.url => e = f
  <2>1. batch \in Nat
    BY DEF Inv, TypeOK
  <2> QED
    BY <2>1, EntriesOf
<1>2. /\ seen \subseteq {Canonical[u] : u \in Urls} /\ visited \subseteq seen
      /\ \A e \in heap : e.url \in seen /\ e.url \notin visited
      /\ \A u \in seen : u \in visited \/ \E e \in heap : e.url = u
  BY DEF Inv, EachUrlOnce, Frontier
<1>3. heap' = h \cup new
  OBVIOUS
<1> HIDE DEF new
<1>4. heap' \subseteq Entry /\ \A e \in heap' : e.rank = Priority(e.url, primary')
  BY <1>1, <1>3
<1>5. \A e \in h : e.url \in seen /\ e.url \notin visited /\ e.url \notin fresh
  BY <1>2
<1>6. \A e \in heap' : e.url \in seen' /\ e.url \notin visited'
  BY <1>1, <1>2, <1>3, <1>5
<1>7. \A e, f \in heap' : e.url = f.url => e = f
  BY <1>1, <1>3, <1>5
<1>8. \A u \in seen' : u \in visited' \/ \E e \in heap' : e.url = u
  BY <1>1, <1>2, <1>3
<1>9. seen' \subseteq {Canonical[u] : u \in Urls} /\ visited' \subseteq seen'
  BY <1>2
<1> QED
  BY <1>4, <1>6, <1>7, <1>8, <1>9 DEF EachUrlOnce, Frontier

LEMMA ListedStep ==
  ASSUME Inv, NEW locs \in SUBSET Urls, Listed(locs),
         \/ UNCHANGED sent
         \/ sent' \in [url : Urls \ Internal, job : {"sitemaps"}, direct : BOOLEAN]
  PROVE  Inv'
<1>1. /\ pc = "sitemaps" /\ robots.sitemaps # <<>>
      /\ heap' = heap \cup Entries(New(locs, seen), 1, primary, batch)
      /\ seen' = seen \cup New(locs, seen) /\ batch' = batch + 1
      /\ robots' = [robots EXCEPT !.sitemaps = Tail(@)]
      /\ ReadNext(robots'.sitemaps)
      /\ UNCHANGED <<entry, primary, metrics, homepage, blockedCore, status, visited>>
  BY DEF Listed, Inv, TypeOK, resultVars
<1>2. /\ robots' \in [disallow : SUBSET Urls, sitemaps : Seq(Urls)]
      /\ robots'.disallow = robots.disallow
  <2>1. robots \in [disallow : SUBSET Urls, sitemaps : Seq(Urls)]
    BY DEF Inv, TypeOK
  <2>2. Tail(robots.sitemaps) \in Seq(Urls)
    BY <1>1, <2>1
  <2> QED
    BY <1>1, <2>1, <2>2
<1>3. \/ pc' = "loop" /\ UNCHANGED <<target, redirects>>
      \/ /\ pc' = "sitemaps" /\ robots'.sitemaps # <<>>
         /\ target' \in Urls /\ redirects' = 0
  BY <1>1, <1>2 DEF ReadNext, Fetch
<1>4. EachUrlOnce' /\ Frontier' /\ heap' \subseteq Entry
  <2>1. /\ primary \in Locales \cup {NoLocale} /\ heap \subseteq Entry /\ 1 \in 0 .. MaxDepth
        /\ \A e \in heap : e.rank = Priority(e.url, primary)
        /\ \A e, f \in heap : e.url = f.url => e = f
    BY CrawlerAssumption DEF Inv, TypeOK, Frontier, EachUrlOnce
  <2>2. /\ New(locs, seen) \in SUBSET Urls /\ New(locs, seen) \cap seen = {}
        /\ New(locs, seen) \subseteq {Canonical[u] : u \in Urls}
    BY NewUrls
  <2> QED
    BY <1>1, <2>1, <2>2, Joined
<1>5. visited = {} /\ ~homepage /\ ~blockedCore /\ status = "running" /\ sent'.job # "page"
  BY <1>1 DEF Inv, Phases
<1>6. TypeOK'
  <2>1. sent' \in [url : Urls, job : Fetches \cup {"none"}, direct : BOOLEAN]
    BY DEF Inv, TypeOK, Fetches
  <2>2. seen' \subseteq Urls /\ batch' \in Nat
    BY <1>1, NewUrls DEF Inv, TypeOK
  <2>3. /\ entry' \in Entry /\ metrics' \in Metrics /\ homepage' \in BOOLEAN
        /\ blockedCore' \in BOOLEAN /\ status' \in Status /\ visited' \subseteq Urls
        /\ primary' \in Locales \cup {NoLocale}
    BY <1>1 DEF Inv, TypeOK
  <2>4. /\ target' \in Urls /\ redirects' \in 0 .. MaxRedirects
        /\ pc' \in Fetches \cup {"loop"} /\ (pc' = "sitemaps" => robots'.sitemaps # <<>>)
    BY CrawlerAssumption, <1>3 DEF Inv, TypeOK, Fetches
  <2> QED
    BY <1>2, <1>4, <2>1, <2>2, <2>3, <2>4 DEF TypeOK
<1>7. RequestsAllowed'
  BY <1>2, <1>5 DEF RequestsAllowed, Fetches, Inv
<1>8. WithinLimits' /\ Phases' /\ Budget' /\ Asking' /\ Ends'
  BY <1>1, <1>2, <1>3, <1>5 DEF Inv, WithinLimits, Phases, Budget, Asking, Ends, Fetches
<1> QED
  BY <1>4, <1>6, <1>7, <1>8 DEF Inv

LEMMA SitemapStep == Inv /\ (SitemapRead \/ SitemapNone) => Inv'
<1> SUFFICES ASSUME Inv, SitemapRead \/ SitemapNone PROVE Inv'
  OBVIOUS
<1>1. PICK locs \in SUBSET Urls : Listed(locs) /\ (Request \/ UNCHANGED sent)
  <2>1. CASE SitemapRead
    BY CrawlerAssumption, <2>1 DEF SitemapRead
  <2>2. CASE SitemapNone
    BY <2>2 DEF SitemapNone, Blocked, FetchError
  <2> QED
    BY <2>1, <2>2
<1>2. Request => sent' \in [url : Urls \ Internal, job : {"sitemaps"}, direct : BOOLEAN]
  BY <1>1 DEF Inv, TypeOK, Request, Valid, Listed
<1> QED
  BY <1>1, <1>2, ListedStep

-----------------------------------------------------------------------------
\* The main loop.
LEMMA EndStep == Inv /\ (Stop \/ Cancel) => Inv'
<1> SUFFICES ASSUME Inv, Stop \/ Cancel PROVE Inv'
  OBVIOUS
<1>1. PICK s \in {"partial", "completed", "cancelled"} :
        Ended(s) /\ (s = "partial" => heap # {} /\ ~Open) /\ (s = "completed" => heap = {})
  BY DEF Stop, Cancel
<1> USE DEF Inv, Ended, frontierVars
<1>2. TypeOK'
  BY <1>1 DEF TypeOK, Fetches, Status
<1>3. EachUrlOnce' /\ Frontier'
  BY <1>1, FrontierKept
<1>4. RequestsAllowed' /\ WithinLimits' /\ Phases' /\ Budget' /\ Asking' /\ Ends'
  BY <1>1 DEF RequestsAllowed, WithinLimits, Phases, Budget, Asking, Ends, Fetches, Open
<1> QED
  BY <1>2, <1>3, <1>4

\* An entry leaves the frontier.
LEMMA Popped ==
  ASSUME Inv, NEW e \in heap, Pop(e), UNCHANGED <<seen, primary>>
  PROVE  /\ EachUrlOnce' /\ Frontier' /\ heap' \subseteq Entry
         /\ e \in Entry /\ e.url \in Urls /\ visited' \subseteq Urls /\ e.url \in visited'
         /\ metrics.pages < MaxPages /\ metrics.bytes < MaxTotal
<1>1. heap' = heap \ {e} /\ visited' = visited \cup {e.url}
  BY DEF Pop
<1>2. e \in Entry /\ e.url \in Urls /\ heap \subseteq Entry /\ visited \subseteq Urls
  BY DEF Inv, TypeOK, Entry
<1>3. EachUrlOnce'
  BY <1>1 DEF Inv, EachUrlOnce
<1>4. Frontier'
  <2>1. \A f \in heap' : f.rank = Priority(f.url, primary')
    BY <1>1 DEF Inv, Frontier
  <2>2. \A u \in seen' : u \in visited' \/ \E f \in heap' : f.url = u
    BY <1>1 DEF Inv, Frontier
  <2> QED
    BY <2>1, <2>2 DEF Frontier
<1> QED
  BY <1>1, <1>2, <1>3, <1>4 DEF Pop, Open

LEMMA PopDisallowedStep == Inv /\ PopDisallowed => Inv'
<1> SUFFICES ASSUME Inv, NEW e \in heap, Pop(e), e.url \in robots.disallow,
                    metrics' = [metrics EXCEPT !.skipped = @ + 1],
                    blockedCore' = (blockedCore \/ e.url = Start),
                    UNCHANGED <<pc, target, redirects, entry, robots, seen, batch, primary,
                                homepage, status, sent>>
             PROVE  Inv'
  BY DEF PopDisallowed
<1>1. /\ EachUrlOnce' /\ Frontier' /\ heap' \subseteq Entry /\ visited' \subseteq Urls
      /\ pc = "loop"
  BY Popped DEF Pop
<1>2. /\ metrics' \in Metrics /\ metrics'.pages = metrics.pages
      /\ metrics'.bytes = metrics.bytes /\ metrics'.renders = metrics.renders
  BY DEF Inv, TypeOK, Metrics
<1>3. TypeOK'
  BY <1>1, <1>2 DEF Inv, TypeOK
<1>4. RequestsAllowed' /\ WithinLimits' /\ Phases' /\ Budget' /\ Asking' /\ Ends'
  BY <1>1, <1>2 DEF Inv, RequestsAllowed, WithinLimits, Phases, Budget, Asking, Ends, Fetches
<1> QED
  BY <1>1, <1>3, <1>4 DEF Inv

LEMMA PopAllowedStep == Inv /\ PopAllowed => Inv'
<1> SUFFICES ASSUME Inv, NEW e \in heap, Pop(e), e.url \notin robots.disallow,
                    entry' = e, Fetch("page", e.url),
                    UNCHANGED <<robots, seen, batch, primary, resultVars, sent>>
             PROVE  Inv'
  BY DEF PopAllowed
<1>1. /\ EachUrlOnce' /\ Frontier' /\ heap' \subseteq Entry /\ visited' \subseteq Urls
      /\ pc = "loop" /\ e \in Entry /\ e.url \in Urls /\ e.url \in visited'
      /\ metrics.pages < MaxPages /\ metrics.bytes < MaxTotal
  BY Popped DEF Pop
<1>2. TypeOK'
  BY CrawlerAssumption, <1>1 DEF Inv, TypeOK, Fetch, Fetches, resultVars
<1>3. RequestsAllowed' /\ WithinLimits' /\ Phases' /\ Budget' /\ Asking' /\ Ends'
  BY <1>1 DEF Inv, RequestsAllowed, WithinLimits, Phases, Budget, Asking, Ends, Fetches,
              Fetch, resultVars
<1> QED
  BY <1>1, <1>2, <1>3 DEF Inv

\* A fetch that yields no page.
LEMMA NoPageStep ==
  ASSUME Inv, NEW m \in Metrics, NoPage(m),
         m.pages = metrics.pages, m.renders = metrics.renders,
         m.bytes < MaxTotal + MaxBody,
         \/ UNCHANGED sent
         \/ Request
  PROVE  Inv'
<1> USE DEF Inv, NoPage, frontierVars
<1>1. TypeOK'
  <2>1. sent' \in [url : Urls, job : Fetches \cup {"none"}, direct : BOOLEAN]
    <3>1. CASE UNCHANGED sent
      BY <3>1 DEF TypeOK
    <3>2. CASE Request
      BY <3>2 DEF TypeOK, Request
    <3> QED
      BY <3>1, <3>2
  <2>2. metrics' \in Metrics /\ pc' = "loop"
    OBVIOUS
  <2> QED
    BY <2>1, <2>2 DEF TypeOK
<1>2. EachUrlOnce' /\ Frontier'
  BY FrontierKept
<1>3. RequestsAllowed'
  <2>1. CASE UNCHANGED sent
    BY <2>1 DEF RequestsAllowed
  <2>2. CASE Request
    BY <2>2 DEF RequestsAllowed, Request, Valid, Asking
  <2> QED
    BY <2>1, <2>2
<1>4. WithinLimits' /\ Phases' /\ Budget' /\ Asking' /\ Ends'
  BY DEF WithinLimits, Phases, Budget, Asking, Ends, Request
<1> QED
  BY <1>1, <1>2, <1>3, <1>4

LEMMA ReadIs ==
  ASSUME Inv, pc = "page", NEW size \in Sizes
  PROVE  /\ Read(size) \in Metrics /\ Read(size).pages = metrics.pages
         /\ Read(size).renders = metrics.renders /\ Read(size).bytes < MaxTotal + MaxBody
<1>1. /\ metrics \in Metrics /\ redirects \in Nat /\ size \in Nat /\ size <= MaxBody
      /\ metrics.bytes < MaxTotal
  BY CrawlerAssumption DEF Inv, TypeOK, Budget
<1>2. Read(size) = [metrics EXCEPT !.redirects = @ + redirects, !.bytes = @ + size]
  BY DEF Read
<1>3. /\ metrics.bytes \in Nat /\ metrics.redirects \in Nat
      /\ metrics.bytes + size \in Nat /\ metrics.redirects + redirects \in Nat
  BY <1>1 DEF Metrics
<1>4. /\ Read(size) \in Metrics /\ Read(size).bytes = metrics.bytes + size
      /\ Read(size).pages = metrics.pages /\ Read(size).renders = metrics.renders
  BY <1>1, <1>2, <1>3 DEF Metrics
<1>5. MaxTotal \in Nat /\ MaxBody \in Nat
  BY CrawlerAssumption
<1> QED
  BY <1>1, <1>3, <1>4, <1>5

LEMMA OutcomeStep == Inv /\ (PageBlocked \/ PageError \/ HttpError \/ NotHtml) => Inv'
<1> SUFFICES ASSUME Inv, PageBlocked \/ PageError \/ HttpError \/ NotHtml PROVE Inv'
  OBVIOUS
<1>1. metrics \in Metrics /\ metrics.bytes < MaxTotal + MaxBody
  BY DEF Inv, TypeOK, WithinLimits
<1>2. CASE PageBlocked
  <2> DEFINE m == [metrics EXCEPT !.blocked = @ + 1]
  <2>1. m \in Metrics /\ m.pages = metrics.pages /\ m.renders = metrics.renders /\ m.bytes = metrics.bytes
    BY <1>1 DEF Metrics
  <2>2. NoPage(m) /\ UNCHANGED sent
    BY <1>2 DEF PageBlocked, Blocked
  <2> HIDE DEF m
  <2> QED
    BY <1>1, <2>1, <2>2, NoPageStep
<1>3. CASE PageError
  <2> DEFINE m == [metrics EXCEPT !.errors = @ + 1]
  <2>1. m \in Metrics /\ m.pages = metrics.pages /\ m.renders = metrics.renders /\ m.bytes = metrics.bytes
    BY <1>1 DEF Metrics
  <2>2. NoPage(m) /\ Request
    BY <1>3 DEF PageError, FetchError
  <2> HIDE DEF m
  <2> QED
    BY <1>1, <2>1, <2>2, NoPageStep
<1>4. CASE HttpError
  <2>1. PICK size \in Sizes : Request /\ NoPage([Read(size) EXCEPT !.errors = @ + 1])
    BY <1>4 DEF HttpError
  <2> DEFINE m == [Read(size) EXCEPT !.errors = @ + 1]
  <2>2. pc = "page" /\ NoPage(m)
    BY <2>1 DEF NoPage
  <2>3. /\ Read(size) \in Metrics /\ Read(size).pages = metrics.pages
        /\ Read(size).renders = metrics.renders /\ Read(size).bytes < MaxTotal + MaxBody
    BY <2>2, ReadIs
  <2>4. m \in Metrics /\ m.pages = metrics.pages /\ m.renders = metrics.renders /\ m.bytes < MaxTotal + MaxBody
    BY <2>3 DEF Metrics
  <2> HIDE DEF m
  <2> QED
    BY <2>1, <2>2, <2>4, NoPageStep
<1>5. CASE NotHtml
  <2>1. PICK size \in Sizes : Request /\ NoPage(Read(size))
    BY <1>5 DEF NotHtml
  <2>2. pc = "page"
    BY <2>1 DEF NoPage
  <2> QED
    BY <2>1, <2>2, ReadIs, NoPageStep
<1> QED
  BY <1>2, <1>3, <1>4, <1>5

\* A page: counted, the language settled, its links enqueued.
LEMMA PageStep == Inv /\ Page => Inv'
<1> SUFFICES ASSUME Inv, NEW size \in Sizes, NEW thin \in BOOLEAN, NEW links \in SUBSET Urls,
                    NEW language \in Locales \cup {NoLocale},
                    Html(size, thin, links, language)
             PROVE  Inv'
  BY CrawlerAssumption DEF Page
<1> DEFINE p == primary'
           d == IF entry.depth < MaxDepth THEN entry.depth + 1 ELSE MaxDepth
           fresh == Fresh(entry, links)
<1>0. /\ pc = "page" /\ pc' = "loop" /\ Request
      /\ metrics' = [Read(size) EXCEPT !.pages = @ + 1,
                       !.renders = @ + (IF thin /\ @ < MaxRenders THEN 1 ELSE 0)]
      /\ homepage' = (homepage \/ entry.url = Start)
      /\ p = IF entry.url = Start THEN Settled(primary, language) ELSE primary
      /\ seen' = seen \cup fresh
      /\ heap' = Reranked(heap, p) \cup Entries(fresh, entry.depth + 1, p, batch)
      /\ batch' = batch + 1
      /\ UNCHANGED <<target, redirects, entry, robots, blockedCore, status, visited>>
  BY DEF Html
<1>1. p \in Locales \cup {NoLocale}
  BY <1>0, SettledType DEF Inv, TypeOK
<1>2. /\ fresh \in SUBSET Urls /\ fresh \cap seen = {}
      /\ fresh \subseteq {Canonical[u] : u \in Urls}
      /\ d \in 0 .. MaxDepth /\ (fresh # {} => d = entry.depth + 1)
  <2>1. entry.depth \in 0 .. MaxDepth /\ MaxDepth \in Nat
    BY CrawlerAssumption DEF Inv, TypeOK, Entry
  <2> QED
    BY <2>1, NewUrls DEF Fresh
<1>3. Entries(fresh, entry.depth + 1, p, batch) = Entries(fresh, d, p, batch)
  BY <1>2 DEF Entries
<1> DEFINE h == Reranked(heap, p)
<1>4. /\ h \subseteq Entry
      /\ \A e \in h : e.rank = Priority(e.url, p) /\ \E g \in heap : g.url = e.url
      /\ \A g \in heap : \E e \in h : e.url = g.url
      /\ \A e, f \in h : e.url = f.url => e = f
  <2>1. heap \in SUBSET Entry /\ \A e, f \in heap : e.url = f.url => e = f
    BY DEF Inv, TypeOK, EachUrlOnce
  <2> HIDE DEF p
  <2> QED
    BY <1>1, <2>1, RerankedIs
<1>5. EachUrlOnce' /\ Frontier' /\ heap' \subseteq Entry
  <2>1. /\ heap' = h \cup Entries(fresh, d, p, batch)
        /\ seen' = seen \cup fresh /\ primary' = p /\ UNCHANGED visited
    BY <1>0, <1>3
  <2> HIDE DEF p, h, d, fresh
  <2> QED
    BY <1>1, <1>2, <1>4, <2>1, Joined
<1>6. /\ metrics' \in Metrics /\ metrics'.bytes < MaxTotal + MaxBody
      /\ metrics'.pages = metrics.pages + 1
      /\ metrics'.renders <= MaxRenders /\ metrics'.renders <= metrics.renders + 1
  <2>1. /\ Read(size) \in Metrics /\ Read(size).pages = metrics.pages
        /\ Read(size).renders = metrics.renders /\ Read(size).bytes < MaxTotal + MaxBody
    BY <1>0, ReadIs
  <2>2. metrics.renders \in Nat /\ metrics.renders <= MaxRenders /\ MaxRenders \in Nat
    BY CrawlerAssumption DEF Inv, TypeOK, WithinLimits, Metrics
  <2> DEFINE more == IF thin /\ Read(size).renders < MaxRenders THEN 1 ELSE 0
  <2>3. /\ more \in 0 .. 1 /\ metrics.renders + more <= MaxRenders
        /\ metrics.pages \in Nat
    BY <2>1, <2>2 DEF Metrics
  <2>4. metrics' = [Read(size) EXCEPT !.pages = @ + 1, !.renders = @ + more]
    BY <1>0
  <2> HIDE DEF more
  <2>. DEFINE r == Read(size)
  <2>6. r \in Metrics /\ r.pages + 1 \in Nat /\ r.renders + more \in Nat
    BY <2>1, <2>2, <2>3
  <2>7. metrics' = [r EXCEPT !.pages = r.pages + 1, !.renders = r.renders + more]
    BY <2>4
  <2> HIDE DEF r
  <2>8. /\ metrics' \in Metrics /\ metrics'.bytes = r.bytes
        /\ metrics'.pages = r.pages + 1 /\ metrics'.renders = r.renders + more
    BY <2>6, <2>7 DEF Metrics
  <2>5. /\ metrics' \in Metrics /\ metrics'.bytes = Read(size).bytes
        /\ metrics'.pages = metrics.pages + 1 /\ metrics'.renders = metrics.renders + more
    BY <2>1, <2>8 DEF r
  <2> QED
    BY <2>1, <2>2, <2>3, <2>5
<1>7. TypeOK'
  <2>1. seen' \subseteq Urls /\ batch' \in Nat /\ primary' \in Locales \cup {NoLocale}
    BY <1>0, <1>1, <1>2 DEF Inv, TypeOK
  <2>2. /\ sent' \in [url : Urls, job : Fetches \cup {"none"}, direct : BOOLEAN]
        /\ homepage' \in BOOLEAN
    BY <1>0 DEF Inv, TypeOK, Request
  <2> QED
    BY <1>0, <1>5, <1>6, <2>1, <2>2 DEF Inv, TypeOK
<1>8. RequestsAllowed'
  BY <1>0 DEF Inv, RequestsAllowed, Request, Valid, Asking, Fetches
<1>9. WithinLimits' /\ Budget'
  <2>1. metrics \in Metrics /\ metrics.pages < MaxPages /\ metrics.renders <= metrics.pages
    BY <1>0 DEF Inv, TypeOK, Budget, WithinLimits
  <2>2. metrics.pages \in Nat /\ metrics.renders \in Nat /\ MaxPages \in Nat
    BY CrawlerAssumption, <2>1 DEF Metrics
  <2>3. metrics'.renders \in Nat
    BY <1>6 DEF Metrics
  <2>4. metrics'.pages <= MaxPages /\ metrics'.renders <= metrics'.pages
    BY <1>6, <2>1, <2>2, <2>3
  <2> QED
    BY <1>0, <1>6, <2>4 DEF WithinLimits, Budget
<1>10. Phases' /\ Asking' /\ Ends'
  BY <1>0 DEF Inv, Phases, Asking, Ends, Request
<1> QED
  BY <1>5, <1>7, <1>8, <1>9, <1>10 DEF Inv

-----------------------------------------------------------------------------
\* The invariant is inductive.
THEOREM Invariance == Spec => []Inv
<1>1. Inv /\ [Next]_vars => Inv'
  <2> SUFFICES ASSUME Inv, [Next]_vars PROVE Inv'
    OBVIOUS
  <2>1. CASE Crawl
    BY <2>1, RedirectStep, TransportErrorStep, SeedStep, RobotsStep, SitemapStep, EndStep,
       PopDisallowedStep, PopAllowedStep, OutcomeStep, PageStep DEF Crawl
  <2>2. CASE UNCHANGED vars
    BY <2>2 DEF vars, frontierVars, resultVars, Inv, TypeOK, EachUrlOnce, WithinLimits,
                RequestsAllowed, Phases, Frontier, Budget, Asking, Ends, Open
  <2> QED
    BY <2>1, <2>2 DEF Next, Done
<1> QED
  BY <1>1, Initially, PTL DEF Spec

\* Every variable keeps its type, for any site and any answers.
THEOREM CrawlTyped == Spec => []TypeOK
BY Invariance, PTL DEF Inv

\* However the URLs are spelled and found, each waits once and is taken once.
THEOREM UrlsOnce == Spec => []EachUrlOnce
BY Invariance, PTL DEF Inv

\* Pages, renders and bytes keep to their limits, for any limits.
THEOREM Limits == Spec => []WithinLimits
BY Invariance, PTL DEF Inv

\* No hop of any fetch asks a refused host, no page is asked against the rules.
THEOREM Allowed == Spec => []RequestsAllowed
BY Invariance, PTL DEF Inv

\* The status tells what was left behind.
THEOREM Status_True == Spec => []StatusIsTrue
<1>1. Inv => StatusIsTrue
  <2> SUFFICES ASSUME Inv PROVE StatusIsTrue
    OBVIOUS
  <2>1. status = "completed" => visited = seen
    BY DEF Inv, Ends, Frontier, EachUrlOnce
  <2>2. status = "partial" =>
          visited # seen /\ (metrics.pages >= MaxPages \/ metrics.bytes >= MaxTotal)
    <3>1. metrics.pages \in Nat /\ metrics.bytes \in Nat
      BY DEF Inv, TypeOK, Metrics
    <3> QED
      BY CrawlerAssumption, <3>1 DEF Inv, Ends, EachUrlOnce, Open
  <2> QED
    BY <2>1, <2>2 DEF StatusIsTrue, Inv, Ends, Asking
<1> QED
  BY <1>1, Invariance, PTL

\* Nothing in another language is taken while the primary language waits.
THEOREM PrimaryComesFirst == Spec => PrimaryFirst
<1>1. Inv /\ [Next]_vars =>
        [pc = "loop" => \A e \in heap \ heap' :
            OffLocale(e.url, primary) => \A f \in heap : OffLocale(f.url, primary)]_vars
  <2> SUFFICES ASSUME Inv, Next, pc = "loop", NEW e \in heap \ heap',
                      OffLocale(e.url, primary), NEW f \in heap
               PROVE  OffLocale(f.url, primary)
    BY DEF vars
  <2>1. PICK g \in heap : Pop(g)
    BY DEF Next, Done, vars, frontierVars, Crawl, SeedBlocked, SeedValid, Redirect,
       TransportError, RobotsRead, RobotsNone, Policy, SitemapRead, SitemapNone, Listed,
       Stop, Cancel, Ended, PopDisallowed, PopAllowed, PageBlocked, PageError, HttpError,
       NotHtml, NoPage, Page, Html, Request, Fetches
  <2>2. e = g /\ Before(e, f)
    BY <2>1 DEF Pop, First
  <2>3. /\ e.rank = Priority(e.url, primary) /\ f.rank = Priority(f.url, primary)
        /\ e.url \in Urls /\ f.url \in Urls /\ primary \in Locales \cup {NoLocale}
    BY DEF Inv, Frontier, TypeOK, Entry
  <2>4. e.rank >= f.rank
    BY <2>2, <2>3, PriorityType DEF Before
  <2> QED
    BY <2>3, <2>4, PriorityType
<1> QED
  BY <1>1, Invariance, PTL DEF Spec, PrimaryFirst

-----------------------------------------------------------------------------
(* What ends a crawl.  A site may have any number of URLs, but what waits   *)
(* is finite: a page and a sitemap are documents of finitely many links.    *)
LEMMA ImageFinite ==
  ASSUME NEW S, IsFiniteSet(S), NEW f
  PROVE  IsFiniteSet({f[x] : x \in S})
<1> DEFINE g == [x \in S |-> f[x]]
<1>1. g \in Surjection(S, {f[x] : x \in S})
  BY DEF Surjection
<1> QED
  BY <1>1, FS_Surjection

LEMMA EntriesFinite ==
  ASSUME NEW links, IsFiniteSet(links), NEW s, NEW d, NEW p, NEW b
  PROVE  IsFiniteSet(Entries(New(links, s), d, p, b)) /\ IsFiniteSet(Entries({}, d, p, b))
<1>1. IsFiniteSet({Canonical[u] : u \in links})
  BY ImageFinite
<1>2. IsFiniteSet(New(links, s))
  BY <1>1, FS_Subset DEF New
<1>3. ASSUME NEW T, IsFiniteSet(T) PROVE IsFiniteSet(Entries(T, d, p, b))
  <2> DEFINE f == [u \in T |-> [rank |-> Priority(u, p), batch |-> b, url |-> u, depth |-> d]]
  <2>1. IsFiniteSet({f[u] : u \in T})
    BY <1>3, ImageFinite
  <2>2. Entries(T, d, p, b) = {f[u] : u \in T}
    BY DEF Entries
  <2> QED
    BY <2>1, <2>2
<1> QED
  BY <1>2, <1>3, FS_EmptySet

LEMMA RerankedFinite ==
  ASSUME NEW h, IsFiniteSet(h), NEW p
  PROVE  IsFiniteSet(Reranked(h, p))
<1> DEFINE f == [e \in h |-> [e EXCEPT !.rank = Priority(e.url, p)]]
<1>1. Reranked(h, p) = {f[e] : e \in h}
  BY DEF Reranked
<1> HIDE DEF f
<1>2. IsFiniteSet({f[e] : e \in h})
  BY ImageFinite
<1> QED
  BY <1>1, <1>2

LEMMA HeapFinite == IsFiniteSet(heap) /\ [Next]_vars => IsFiniteSet(heap)'
<1> SUFFICES ASSUME IsFiniteSet(heap), [Next]_vars PROVE IsFiniteSet(heap')
  OBVIOUS
<1>1. ASSUME NEW file, Policy(file) PROVE IsFiniteSet(heap')
  <2>1. IsFiniteSet({Start})
    BY FS_Singleton
  <2>2. New({Start}, {}) = {Start}
    BY CrawlerAssumption DEF New
  <2> QED
    BY <1>1, <2>1, <2>2, EntriesFinite DEF Policy
<1>2. ASSUME NEW locs, IsFiniteSet(locs), Listed(locs) PROVE IsFiniteSet(heap')
  BY <1>2, EntriesFinite, FS_Union DEF Listed
<1>3. ASSUME NEW e, Pop(e) PROVE IsFiniteSet(heap')
  BY <1>3, FS_Subset DEF Pop
<1>4. ASSUME NEW size, NEW thin, NEW links \in LinkSets, NEW language, Html(size, thin, links, language)
      PROVE  IsFiniteSet(heap')
  <2>1. IsFiniteSet(links)
    BY CrawlerAssumption
  <2>2. IsFiniteSet(Entries(Fresh(entry, links), entry.depth + 1, primary', batch))
    BY <2>1, EntriesFinite DEF Fresh
  <2> QED
    BY <1>4, <2>2, RerankedFinite, FS_Union DEF Html
<1>5. CASE UNCHANGED heap
  BY <1>5
<1>6. CASE Crawl
  <2>1. CASE RobotsRead \/ RobotsNone
    BY <1>1, <2>1 DEF RobotsRead, RobotsNone
  <2>2. CASE SitemapRead \/ SitemapNone
    BY <1>2, <2>2, CrawlerAssumption, FS_EmptySet DEF SitemapRead, SitemapNone
  <2>3. CASE PopDisallowed \/ PopAllowed
    BY <1>3, <2>3 DEF PopDisallowed, PopAllowed
  <2>4. CASE Page
    BY <1>4, <2>4 DEF Page
  <2> QED
    BY <1>5, <1>6, <2>1, <2>2, <2>3, <2>4
       DEF Crawl, SeedBlocked, SeedValid, Redirect, TransportError, Stop, Cancel, Ended,
           PageBlocked, PageError, HttpError, NotHtml, NoPage, frontierVars
<1> QED
  BY <1>5, <1>6 DEF Next, Done, vars, frontierVars

(* What is left of a crawl, the most significant first: the phases, the     *)
(* sitemaps, the pages of the budget, the URLs that wait (and the one that  *)
(* is fetched), the redirects of the fetch.  Compared like words, what is   *)
(* left cannot shrink for ever.                                             *)
Phase == [seed |-> 4, robots |-> 3, sitemaps |-> 2, loop |-> 1, page |-> 1, done |-> 0]
Left == << Phase[pc], Len(robots.sitemaps), MaxPages - metrics.pages,
           2 * Cardinality(heap) + (IF pc = "page" THEN 1 ELSE 0), MaxRedirects - redirects >>
Less(a, b) == \E i \in 1 .. 5 : a[i] < b[i] /\ \A j \in 1 .. 5 : j < i => a[j] = b[j]

LEMMA LessAt ==
  ASSUME NEW i \in 1 .. 5, NEW a, NEW b, a[i] < b[i], \A j \in 1 .. 5 : j < i => a[j] = b[j]
  PROVE  Less(a, b)
BY DEF Less

LEMMA LeftIs ==
  ASSUME Inv, IsFiniteSet(heap)
  PROVE  /\ Cardinality(heap) \in Nat /\ Len(robots.sitemaps) \in Nat
         /\ MaxPages - metrics.pages \in Nat /\ MaxRedirects - redirects \in Nat
         /\ \A i \in 1 .. 5 : Left[i] \in Nat
<1>1. Cardinality(heap) \in Nat
  BY FS_CardinalityType
<1>2. Len(robots.sitemaps) \in Nat
  BY DEF Inv, TypeOK
<1>3. MaxPages - metrics.pages \in Nat /\ MaxRedirects - redirects \in Nat
  BY CrawlerAssumption DEF Inv, TypeOK, WithinLimits, Metrics
<1>4. Phase[pc] \in Nat
  BY DEF Phase, Inv, TypeOK, Fetches
<1> QED
  BY <1>1, <1>2, <1>3, <1>4 DEF Left

\* A phase ends, a redirect is followed: the cheap steps.
LEMMA PhaseEnds ==
  ASSUME Phase[pc'] < Phase[pc]
  PROVE  Less(Left', Left)
BY LessAt DEF Left, Phase

LEMMA RedirectLess ==
  ASSUME Inv, Redirect
  PROVE  Less(Left', Left)
<1>1. /\ UNCHANGED <<pc, robots, heap, metrics>> /\ redirects' = redirects + 1
      /\ redirects \in Int /\ MaxRedirects \in Int
  BY CrawlerAssumption DEF Redirect, frontierVars, resultVars, Inv, TypeOK
<1>2. Left'[5] < Left[5] /\ \A j \in 1 .. 5 : j < 5 => Left'[j] = Left[j]
  BY <1>1 DEF Left
<1> QED
  BY <1>2, LessAt

LEMMA SitemapLess ==
  ASSUME Inv, NEW locs, Listed(locs)
  PROVE  Less(Left', Left)
<1>1. /\ pc = "sitemaps" /\ robots.sitemaps \in Seq(Urls) /\ robots.sitemaps # <<>>
      /\ robots'.sitemaps = Tail(robots.sitemaps)
  BY DEF Listed, Inv, TypeOK
<1>2. Len(robots'.sitemaps) < Len(robots.sitemaps)
  BY <1>1
<1>3. CASE pc' = "sitemaps"
  <2>1. Left'[2] < Left[2] /\ \A j \in 1 .. 5 : j < 2 => Left'[j] = Left[j]
    BY <1>1, <1>2, <1>3 DEF Left
  <2> QED
    BY <2>1, LessAt
<1>4. CASE pc' = "loop"
  BY <1>1, <1>4, PhaseEnds DEF Phase
<1> QED
  BY <1>3, <1>4, <1>1 DEF Listed, ReadNext, Fetch

LEMMA PopLess ==
  ASSUME Inv, IsFiniteSet(heap), NEW e \in heap, Pop(e), pc' \in {"loop", "page"},
         robots' = robots, metrics'.pages = metrics.pages
  PROVE  Less(Left', Left)
<1>1. Cardinality(heap') = Cardinality(heap) - 1 /\ Cardinality(heap) \in Nat
  BY FS_RemoveElement, FS_CardinalityType DEF Pop
<1>2. pc = "loop"
  BY DEF Pop
<1>3. Left'[4] < Left[4] /\ \A j \in 1 .. 5 : j < 4 => Left'[j] = Left[j]
  BY <1>1, <1>2 DEF Left, Phase
<1> QED
  BY <1>3, LessAt

LEMMA NoPageLess ==
  ASSUME Inv, IsFiniteSet(heap), NEW m, NoPage(m), m.pages = metrics.pages
  PROVE  Less(Left', Left)
<1>1. /\ pc = "page" /\ pc' = "loop" /\ metrics' = m /\ robots' = robots /\ heap' = heap
  BY DEF NoPage, frontierVars
<1>2. Cardinality(heap) \in Nat
  BY FS_CardinalityType
<1>3. Left'[4] < Left[4] /\ \A j \in 1 .. 5 : j < 4 => Left'[j] = Left[j]
  BY <1>1, <1>2 DEF Left, Phase
<1> QED
  BY <1>3, LessAt

LEMMA HtmlLess ==
  ASSUME Inv, NEW size, NEW thin, NEW links, NEW language, Html(size, thin, links, language)
  PROVE  Less(Left', Left)
<1>1. /\ pc = "page" /\ pc' = "loop" /\ robots' = robots /\ metrics.pages \in Nat
      /\ metrics'.pages = metrics.pages + 1
  BY DEF Html, Read, Inv, TypeOK, Metrics
<1>2. Left'[3] < Left[3] /\ \A j \in 1 .. 5 : j < 3 => Left'[j] = Left[j]
  BY <1>1, CrawlerAssumption DEF Left, Phase
<1> QED
  BY <1>2, LessAt

\* Every step of a crawl leaves less of it, whatever the site answers and
\* however many URLs it has: fetcher.py counts the redirects of a fetch,
\* crawler.py:70 the pages, frontier.py takes each URL once.
Shrinking == [][Less(Left', Left)]_vars
LEMMA StepsShrink ==
  ASSUME Inv, IsFiniteSet(heap), Crawl
  PROVE  Less(Left', Left)
<1>1. CASE SeedBlocked \/ SeedValid
  BY <1>1, PhaseEnds DEF SeedBlocked, SeedValid, Fetch, Phase
<1>2. CASE Redirect
  BY <1>2, RedirectLess
<1>3. CASE TransportError
  BY <1>3, PhaseEnds DEF TransportError, Request, Fetches, Phase
<1>4. CASE RobotsRead \/ RobotsNone
  <2>1. pc = "robots" /\ pc' \in {"loop", "sitemaps"}
    BY <1>4 DEF RobotsRead, RobotsNone, Policy, ReadNext, Fetch
  <2> QED
    BY <2>1, PhaseEnds DEF Phase
<1>5. CASE SitemapRead \/ SitemapNone
  BY <1>5, SitemapLess DEF SitemapRead, SitemapNone
<1>6. CASE Stop \/ Cancel
  BY <1>6, PhaseEnds DEF Stop, Cancel, Ended, Phase
<1>7. CASE PopDisallowed \/ PopAllowed
  <2>1. PICK e \in heap : /\ Pop(e) /\ pc' \in {"loop", "page"} /\ robots' = robots
                          /\ metrics'.pages = metrics.pages
    BY <1>7 DEF PopDisallowed, PopAllowed, Pop, Fetch, resultVars, Inv, TypeOK, Metrics
  <2> QED
    BY <2>1, PopLess
<1>8. CASE PageBlocked \/ PageError \/ HttpError \/ NotHtml
  <2> DEFINE Counted(m) == [m EXCEPT !.errors = @ + 1]
  <2>0. metrics \in Metrics
    BY DEF Inv, TypeOK
  <2>1. CASE PageBlocked
    <3>1. [metrics EXCEPT !.blocked = @ + 1].pages = metrics.pages
      BY <2>0 DEF Metrics
    <3> QED
      BY <2>1, <3>1, NoPageLess DEF PageBlocked
  <2>2. CASE PageError
    <3>1. Counted(metrics).pages = metrics.pages
      BY <2>0 DEF Metrics
    <3> QED
      BY <2>2, <3>1, NoPageLess DEF PageError
  <2>3. ASSUME NEW size PROVE Read(size).pages = metrics.pages /\ Counted(Read(size)).pages = metrics.pages
    BY <2>0 DEF Metrics, Read
  <2>4. CASE HttpError
    BY <2>3, <2>4, NoPageLess DEF HttpError
  <2>5. CASE NotHtml
    BY <2>3, <2>5, NoPageLess DEF NotHtml
  <2> QED
    BY <1>8, <2>1, <2>2, <2>4, <2>5
<1>9. CASE Page
  BY <1>9, HtmlLess DEF Page
<1> QED
  BY <1>1, <1>2, <1>3, <1>4, <1>5, <1>6, <1>7, <1>8, <1>9 DEF Crawl

\* No crawl goes on for ever, of a site of however many URLs: what is left are
\* five natural numbers that shrink with every step.
THEOREM CrawlShrinks == Spec => /\ [](\A i \in 1 .. 5 : Left[i] \in Nat)
                                /\ Shrinking
<1>1. Init => IsFiniteSet(heap)
  BY FS_EmptySet DEF Init
<1>2. Inv /\ IsFiniteSet(heap) => \A i \in 1 .. 5 : Left[i] \in Nat
  BY LeftIs
<1>3. Inv /\ IsFiniteSet(heap) /\ [Next]_vars => [Less(Left', Left)]_vars
  BY StepsShrink DEF Next, Done
<1> QED
  BY <1>1, <1>2, <1>3, Invariance, HeapFinite, PTL DEF Spec, Shrinking
=============================================================================
