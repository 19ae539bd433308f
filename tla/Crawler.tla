------------------------------- MODULE Crawler -------------------------------
(***************************************************************************)
(* One crawl of one site (crawler/crawler.py, frontier.py, fetcher.py and  *)
(* the target validation of security/validator.py).  The crawl is one      *)
(* thread; everything it meets is the environment's choice: what each      *)
(* request answers (it may change between two requests), whether a name    *)
(* still resolves to public addresses, the rules of robots.txt, the        *)
(* sitemaps, the links, the declared language, the renderer.               *)
(***************************************************************************)
EXTENDS Integers, FiniteSets, Sequences

CONSTANTS
    Urls,          \* normalised URLs: pages, robots.txt, sitemaps, other hosts
    Start,         \* the seed
    RobotsUrl,     \* robots.txt of the seed's origin
    Internal,      \* URLs whose host the policy refuses, whatever DNS says
    Canonical,     \* Urls -> Urls: without fragment and trailing slash
    TypePriority,  \* Urls -> Nat: the priority of the page type
    Locale,        \* Urls -> the locale segment of the path, or NoLocale
    NoLocale,
    RobotsFiles,   \* [disallow: SUBSET Urls, sitemaps: Seq(Urls)]
    LinkSets,      \* what a page may link to, what a sitemap may list
    Sizes,         \* sizes of bodies that are read in full
    MaxPages, MaxDepth, MaxBody, MaxTotal, MaxRenders, MaxRedirects

Locales == {Locale[u] : u \in Urls}
Penalty == 100     \* _OFF_LOCALE_PENALTY

ASSUME CrawlerAssumption ==
    /\ Start \in Urls /\ RobotsUrl \in Urls /\ Internal \subseteq Urls
    /\ Canonical \in [Urls -> Urls] /\ Canonical[Start] = Start
    /\ TypePriority \in [Urls -> 1 .. Penalty]
    /\ DOMAIN Locale = Urls
    /\ RobotsFiles \subseteq [disallow : SUBSET Urls, sitemaps : Seq(Urls)]
    /\ LinkSets \subseteq SUBSET Urls /\ \A links \in LinkSets : IsFiniteSet(links)
    /\ MaxPages \in Nat /\ MaxDepth \in Nat /\ MaxDepth >= 1 /\ MaxBody \in Nat
    /\ MaxTotal \in Nat \ {0} /\ MaxRenders \in Nat /\ MaxRedirects \in Nat
    /\ Sizes \subseteq 0 .. MaxBody

VARIABLES
    pc,        \* where the crawl is; "robots", "sitemaps" and "page" are fetches
    target,    \* the URL of the hop about to be requested
    redirects, \* redirects followed in this fetch
    entry,     \* the frontier entry being crawled
    robots,    \* the disallowed URLs, and the sitemaps still to be read
    heap, seen, batch, primary,       \* the Frontier
    metrics, homepage, blockedCore, status,   \* the CrawlResult
    visited, sent                     \* history: URLs popped, the last request

frontierVars == <<heap, seen, batch, primary>>
resultVars == <<metrics, homepage, blockedCore, status>>
vars == <<pc, target, redirects, entry, robots, frontierVars, resultVars, visited, sent>>

Entry == [rank : Int, batch : Nat, url : Urls, depth : 0 .. MaxDepth]
Metrics == [pages : Nat, renders : Nat, bytes : Nat, errors : Nat,
            blocked : Nat, skipped : Nat, redirects : Nat]
Status == {"running", "completed", "partial", "cancelled", "failed", "raised"}
Fetches == {"robots", "sitemaps", "page"}

Init ==
    /\ pc = "seed" /\ target = Start /\ redirects = 0
    /\ entry = [rank |-> 0, batch |-> 0, url |-> Start, depth |-> 0]
    /\ robots = [disallow |-> {}, sitemaps |-> <<>>]
    /\ heap = {} /\ seen = {} /\ batch = 0 /\ primary = NoLocale
    /\ metrics = [pages |-> 0, renders |-> 0, bytes |-> 0, errors |-> 0,
                  blocked |-> 0, skipped |-> 0, redirects |-> 0]
    /\ homepage = FALSE /\ blockedCore = FALSE /\ status = "running"
    /\ visited = {} /\ sent = [url |-> Start, job |-> "none", direct |-> TRUE]

-----------------------------------------------------------------------------
(* The frontier: a heap of (-priority, insertion, url, depth).  The links  *)
(* of one page are one batch; which of them was written first is left open. *)

OffLocale(u, p) == p # NoLocale /\ Locale[u] # NoLocale /\ Locale[u] # p
Priority(u, p) == TypePriority[u] - (IF OffLocale(u, p) THEN Penalty ELSE 0)

\* enqueue, for a set of URLs at one depth
NewUnchecked(urls, s) == {Canonical[u] : u \in urls}   \* mutant: _seen not consulted
New(urls, s) == {Canonical[u] : u \in urls} \ s
Entries(urls, d, p, b) ==
    {[rank |-> Priority(u, p), batch |-> b, url |-> u, depth |-> d] : u \in urls}

\* set_primary_locale: the first recognised code wins and re-ranks the heap
RerankedNever(h, p) == h   \* mutant: what waits keeps its old rank
Settled(p, code) == IF p = NoLocale THEN code ELSE p
Reranked(h, p) == {[e EXCEPT !.rank = Priority(e.url, p)] : e \in h}

Before(e, f) == \/ e.rank > f.rank
                \/ e.rank = f.rank /\ e.batch <= f.batch
First(e) == e \in heap /\ \A f \in heap : Before(e, f)

-----------------------------------------------------------------------------
(* One fetch: each hop is validated, then requested.                       *)

\* validate_target: a refused host, or a name that does not resolve, or not
\* to public addresses only, at this moment
ValidFirst(u) == redirects > 0 \/ u \notin Internal   \* mutant: only the first hop
Valid(u) == u \notin Internal
Request ==
    /\ pc \in Fetches /\ Valid(target)
    /\ sent' = [url |-> target, job |-> pc, direct |-> redirects = 0]
Fetch(job, u) == pc' = job /\ target' = u /\ redirects' = 0

RedirectUncounted ==   \* mutant: a loop may redirect for ever
    /\ Request /\ redirects < MaxRedirects
    /\ \E u \in Urls : target' = u
    /\ UNCHANGED <<pc, redirects, entry, robots, frontierVars, resultVars, visited>>
Redirect ==
    /\ Request /\ redirects < MaxRedirects
    /\ \E u \in Urls : target' = u
    /\ redirects' = redirects + 1
    /\ UNCHANGED <<pc, entry, robots, frontierVars, resultVars, visited>>

\* SSRFBlocked: nothing is sent.  FetchError, after the request: a body over
\* the cap, or one redirect too many.
Blocked == pc \in Fetches /\ UNCHANGED sent
FetchError == Request

\* An httpx error is caught by no caller: the pipeline raises
TransportError ==
    /\ Request
    /\ pc' = "done" /\ status' = "raised"
    /\ UNCHANGED <<target, redirects, entry, robots, frontierVars, metrics,
                   homepage, blockedCore, visited>>

-----------------------------------------------------------------------------
(* Seed, robots.txt, sitemaps.                                             *)

SeedBlocked ==
    /\ pc = "seed"
    /\ pc' = "done" /\ status' = "failed"
    /\ UNCHANGED <<target, redirects, entry, robots, frontierVars, metrics,
                   homepage, blockedCore, visited, sent>>

SeedValid ==
    /\ pc = "seed" /\ Valid(Start)
    /\ Fetch("robots", RobotsUrl)
    /\ UNCHANGED <<entry, robots, frontierVars, resultVars, visited, sent>>

\* The next sitemap, or the main loop when all were read
ReadNext(sitemaps) ==
    IF sitemaps = <<>>
    THEN pc' = "loop" /\ UNCHANGED <<target, redirects>>
    ELSE Fetch("sitemaps", Head(sitemaps))

Policy(file) ==
    /\ pc = "robots"
    /\ robots' = file
    /\ primary' = Settled(primary, Locale[Start])
    /\ seen' = {Start}
    /\ heap' = Entries({Start}, 0, primary', 0)
    /\ batch' = 1
    /\ ReadNext(file.sitemaps)
    /\ UNCHANGED <<entry, resultVars, visited>>

RobotsRead == Request /\ \E file \in RobotsFiles : Policy(file)
\* ... or no file: blocked, failed, or an answer other than 200
RobotsNone == (Blocked \/ FetchError) /\ Policy([disallow |-> {}, sitemaps |-> <<>>])

Listed(locs) ==
    /\ pc = "sitemaps"
    /\ seen' = seen \cup New(locs, seen)
    /\ heap' = heap \cup Entries(New(locs, seen), 1, primary, batch)
    /\ batch' = batch + 1
    /\ robots' = [robots EXCEPT !.sitemaps = Tail(@)]
    /\ ReadNext(robots'.sitemaps)
    /\ UNCHANGED <<entry, primary, resultVars, visited>>

SitemapRead == Request /\ \E locs \in LinkSets : Listed(locs)
SitemapNone == (Blocked \/ FetchError) /\ Listed({})

-----------------------------------------------------------------------------
(* The main loop.                                                          *)

OpenLate == heap # {} /\ metrics.pages <= MaxPages /\ metrics.bytes < MaxTotal   \* mutant
Open == heap # {} /\ metrics.pages < MaxPages /\ metrics.bytes < MaxTotal

Ended(s) ==
    /\ pc = "loop"
    /\ pc' = "done" /\ status' = s
    /\ UNCHANGED <<target, redirects, entry, robots, frontierVars, metrics,
                   homepage, blockedCore, visited, sent>>

StopByPages ==   \* mutant: forgets that the bytes may have run out
    ~Open /\ Ended(IF metrics.pages >= MaxPages THEN "partial" ELSE "completed")
Stop == ~Open /\ Ended(IF heap # {} THEN "partial" ELSE "completed")
Cancel == Open /\ Ended("cancelled")

Pop(e) ==
    /\ pc = "loop" /\ Open /\ First(e)
    /\ heap' = heap \ {e}
    /\ visited' = visited \cup {e.url}

PopDisallowed ==
    \E e \in heap :
        /\ Pop(e) /\ e.url \in robots.disallow
        /\ metrics' = [metrics EXCEPT !.skipped = @ + 1]
        /\ blockedCore' = (blockedCore \/ e.url = Start)
        /\ UNCHANGED <<pc, target, redirects, entry, robots, seen, batch, primary,
                       homepage, status, sent>>

PopAllowed ==
    \E e \in heap :
        /\ Pop(e) /\ e.url \notin robots.disallow
        /\ entry' = e
        /\ Fetch("page", e.url)
        /\ UNCHANGED <<robots, seen, batch, primary, resultVars, sent>>

NoPage(m) ==
    /\ pc = "page" /\ pc' = "loop"
    /\ metrics' = m
    /\ UNCHANGED <<target, redirects, entry, robots, frontierVars, homepage,
                   blockedCore, status, visited>>

PageBlocked == Blocked /\ NoPage([metrics EXCEPT !.blocked = @ + 1])
PageError == FetchError /\ NoPage([metrics EXCEPT !.errors = @ + 1])

\* A response was read: its redirects and its size count
Read(size) == [metrics EXCEPT !.redirects = @ + redirects, !.bytes = @ + size]

HttpError ==   \* status >= 400
    /\ Request
    /\ \E size \in Sizes : NoPage([Read(size) EXCEPT !.errors = @ + 1])
NotHtml == Request /\ \E size \in Sizes : NoPage(Read(size))

FreshAnyDepth(e, links) == New(links, seen)   \* mutant: links followed at any depth
Fresh(e, links) == IF e.depth < MaxDepth THEN New(links, seen) ELSE {}

\* extract_page, the capped browser fallback, and the links
Html(size, thin, links, language) ==
    /\ Request /\ pc = "page" /\ pc' = "loop"
    /\ metrics' = [Read(size) EXCEPT
                     !.pages = @ + 1,
                     !.renders = @ + (IF thin /\ @ < MaxRenders THEN 1 ELSE 0)]
    /\ homepage' = (homepage \/ entry.url = Start)
    /\ primary' = IF entry.url = Start THEN Settled(primary, language) ELSE primary
    /\ seen' = seen \cup Fresh(entry, links)
    /\ heap' = Reranked(heap, primary')
                 \cup Entries(Fresh(entry, links), entry.depth + 1, primary', batch)
    /\ batch' = batch + 1
    /\ UNCHANGED <<target, redirects, entry, robots, blockedCore, status, visited>>

Page == \E size \in Sizes, thin \in BOOLEAN, links \in LinkSets,
           language \in Locales \cup {NoLocale} : Html(size, thin, links, language)

Done == pc = "done" /\ UNCHANGED vars

Crawl == \/ SeedBlocked \/ SeedValid \/ Redirect \/ TransportError
         \/ RobotsRead \/ RobotsNone \/ SitemapRead \/ SitemapNone
         \/ Stop \/ Cancel \/ PopDisallowed \/ PopAllowed
         \/ PageBlocked \/ PageError \/ HttpError \/ NotHtml \/ Page
Next == Crawl \/ Done

\* One thread with bounded timeouts on every request: it keeps running
Spec == Init /\ [][Next]_vars /\ WF_vars(Crawl)
-----------------------------------------------------------------------------
(* Properties.                                                             *)

\* Type: every variable keeps its type; depths stay within max_depth
\* (crawler.py:123, 165).
TypeOK ==
    /\ pc \in Fetches \cup {"seed", "loop", "done"}
    /\ target \in Urls /\ redirects \in 0 .. MaxRedirects
    /\ entry \in Entry /\ heap \subseteq Entry /\ batch \in Nat
    /\ robots \in [disallow : SUBSET Urls, sitemaps : Seq(Urls)]
    /\ pc = "sitemaps" => robots.sitemaps # <<>>
    /\ seen \subseteq Urls /\ visited \subseteq Urls
    /\ primary \in Locales \cup {NoLocale}
    /\ metrics \in Metrics /\ homepage \in BOOLEAN /\ blockedCore \in BOOLEAN
    /\ status \in Status
    /\ sent \in [url : Urls, job : Fetches \cup {"none"}, direct : BOOLEAN]

\* However a URL is spelled and however often robots, sitemaps, links and
\* redirects lead to it, it waits once and is taken once (frontier.py:130-142).
EachUrlOnce ==
    /\ seen \subseteq {Canonical[u] : u \in Urls}
    /\ \A e \in heap : e.url \in seen \ visited
    /\ \A e, f \in heap : e.url = f.url => e = f
    /\ visited \subseteq seen

\* The budgets hold in every state: pages and renders exactly, and the bytes
\* of the answers read overshoot by less than one body, because the total is
\* tested before a fetch and added after it (crawler.py:70-72, 95, 109).
WithinLimits ==
    /\ metrics.pages <= MaxPages
    /\ metrics.renders <= MaxRenders /\ metrics.renders <= metrics.pages
    /\ metrics.bytes < MaxTotal + MaxBody

\* No request, on any hop of any fetch, goes to a refused host, and no
\* page taken from the frontier is requested against robots.txt
\* (fetcher.py:51, crawler.py:78).  The hops after the first are not asked of
\* robots.txt, although transport.py:24-26 says that no disallowed path is
\* fetched.
RequestsAllowed ==
    sent.job \in Fetches =>
        /\ sent.url \notin Internal
        /\ sent.job = "page" /\ sent.direct => sent.url \notin robots.disallow

\* The status tells what was left: a completed crawl took every URL it
\* learnt of, a partial one stopped at a limit with URLs waiting, a failed one
\* asked nothing; a start page that was read was not blocked (crawler.py:80-82,
\* 118-119, 127-134).
StatusIsTrue ==
    /\ status = "completed" => visited = seen
    /\ status = "partial" =>
         visited # seen /\ (metrics.pages >= MaxPages \/ metrics.bytes >= MaxTotal)
    /\ status = "failed" => sent.job = "none"
    /\ ~(homepage /\ blockedCore)

\* A translated copy is taken only when nothing in the primary language
\* waits, also when it was found before the language was known
\* (frontier.py:96-121).
PrimaryFirst ==
    [][pc = "loop" => \A e \in heap \ heap' :
            OffLocale(e.url, primary) => \A f \in heap : OffLocale(f.url, primary)]_vars

\* Every crawl ends, whatever the servers answer (fetcher.py:49, crawler.py:70).
Terminates == <>(pc = "done")
=============================================================================
