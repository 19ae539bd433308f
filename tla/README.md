# Formal models of GEO, the AI search readiness audit

These TLA+ modules model the repository in two halves. In the first, several processes share
state: the scan queue and its workers, the submission of scans, the waking of the worker, the
payments that unlock a report, the crawler against a changing site, accounts and sessions. The
second is the audit itself: what a scan makes of the pages it read, from the business profile
to the report, followed over the edits of a site's owner. TLC checks both on small instances;
TLAPS proves every invariant and action property that the runs check, and the refinement, for
every number of jobs, workers, requests, URLs and pages.

`tlc -config queue.cfg MCScanQueue.tla` runs a check, `tlapm ScanQueueProofs.tla` checks
proofs. `PROJECT.json` lists the runs, the source lines behind each definition, the
mutants that each property detects, the hazards and the findings.

## 1. Inventory

Paths are relative to `src/`; `geo_worker/` stands for `apps/worker/src/geo_worker/`.

| Component | State | Operations | Talks to |
|---|---|---|---|
| Scan submission: `apps/web/lib/scans/repository.ts`, `api/projects/quick-scan/route.ts` | organizations, projects, scans, jobs; one transaction per submission under an advisory lock | `ensureAnonymousOrg`, `createQuickScan` | Postgres; wake-up |
| Worker wake-up: `lib/scans/dispatch.ts`, `.github/workflows/process-scans.yml` | the workflow's concurrency group | dispatch, schedule, run | GitHub; draining worker |
| Queue and workers: `geo_worker/jobs/*`, `apps/worker/scripts/*` | job and scan rows; one open session per worker | lease, run, succeed, retry, dead-letter, recover, start, stop | Postgres; pipeline |
| Persistence: `geo_worker/persistence/store.py` | snapshots, profiles, actions, reports | `persist_scan_result` in the job's transaction | Postgres |
| Payments: `lib/payments/*`, `api/checkout`, `api/stripe/webhook`, `api/scans/[id]/unlock`, `report/[id]/page.tsx` | payments, stripe_events | promo redemption, checkout, webhook, return from Checkout | Stripe; Postgres |
| Crawler: `geo_worker/crawler/*` | frontier, metrics, robots rules | `crawl`, fetch with redirects, sitemaps, render | audited site; address rules |
| robots.txt verdicts: `crawler/ai_agents.py`, `lib/robots/*` | none | two displays of one verdict | report; web tool |
| Accounts: `lib/auth/*` | users, sessions, tokens, login attempts | register, verify, login, login limiter, logout | Postgres |
| Tenant access: `lib/tenant/repository.ts`, `lib/auth/context.ts` | none | reads that no page and no route calls yet | Postgres |
| Rate limiters: `lib/scans/abuse.ts` | timestamps per key, per instance | `slidingLimiter` | every public route |
| Profile: `geo_worker/profile`, `extraction` | none | `build_profile`, `classify_site_type` | pipeline |
| Questions and coverage: `clusters`, `coverage`, `relevance`, `methodology/v2/coverage.py` | none | `generate_clusters`, `compute_coverage` | pipeline |
| Scoring: `scoring`, `methodology/v2` | none | components, calibration, overall, stages, confidence | pipeline |
| Actions and report: `actions`, `methodology/v2/actions.py`, `pipeline/report.py`, `runner.py` | the stored result of the last scan | `compute_actions`, `build_report`, `run_pipeline` | queue, report page |
| URL and address safety: `geo_worker/security` | none | classification of URLs and IPs | crawler |
| Status page: `components/scan/ScanPending.tsx` | polling state in the browser | poll until decided | submission API |
| Content pages, SEO, benchmark harness | none | rendering; offline calibration | - |

The web side and the worker never call each other. They meet in Postgres: the web inserts a
scan and its job in one transaction, a worker leases the job, runs the pipeline and commits
the outcome, and the browser polls the scan's row. A repository dispatch only shortens the
wait. ADR 0003 says that scale-out "is already safe - leasing uses FOR UPDATE SKIP LOCKED
and recovery uses lease expiry - but is untested under real concurrency"; this is the
question the first model answers.

What is hard, and what makes each component correct:

* **Queue.** One transaction holds the lease, the crawl and the result. Workers die, lose
  their connection inside the pipeline (and with it the row lock) and fail statements.
  Correct: one live session per job; a result is published once and all of it; job and scan
  row agree; a decided scan stays as it is; every accepted scan is decided once faults stop.
* **Submission.** Requests race for the organization and the project; the cooldown is
  measured from BEGIN, the lock is granted later. Correct: one live scan per window.
* **Wake-up.** Dispatches are lost and coalesced, and a run may be past its last look at the
  queue. Correct: only a lost message, a lost run or a backoff needs the schedule.
* **Payments.** Statements commit one by one; deliveries repeat and overlap with the return;
  handlers die. Correct: the ledger tells the truth, a payment that has
  been answered for is settled, the overrun of the promo cap is bounded, who has paid is unlocked.
* **Crawler.** Every answer is the site's choice. Correct: each URL is taken once, the budgets
  hold, refused hosts and refused paths are not asked, the status tells what was left, the
  primary language comes first even when it becomes known late, every crawl ends.
* **Accounts.** Check-then-act on verification tokens, the login limiter, the login ledger and
  sessions, without transactions around them. Correct: a token verifies once, the overrun of the
  limiter is bounded, every session is in the ledger.
* **Audit.** No concurrency, but thirty rules, nine stages and their thresholds that must agree
  for every site: what is weak has advice, advice is focused and can be followed, a score that
  does not apply moves nothing, languages do not leak into each other, and publishing a page
  takes no evidence away.

## 2. Modules

| Module | Models | State |
|---|---|---|
| `ScanService` | what the queue promises: a bounded number of recorded tries, then one decision | `state`, `tries`, `reports` |
| `ScanQueue` | `jobs/queue.py`, `worker.py`, `processor.py`, `loop.py`, `retry.py`, `store.py`, `process_jobs.py` | committed `job`, `scan`, `snapshot`, `report`; `pc`, `tx` per worker |
| `ScanQueueProofs` | proofs about `ScanQueue` | |
| `Entitlements` | promo, checkout, webhook and return handlers | payments and stripe_events; `req` per handler; `session`, `scanOf`, `acked` at Stripe |
| `EntitlementsProofs` | proofs about `Entitlements` | |
| `QuickScan` | `repository.ts`, `dispatch.ts`, the workflow | `orgs`, `scans`, `req` per handler, `run`, `pending`; `clock`; `missed` |
| `QuickScanProofs` | proofs about `QuickScan` | |
| `Crawler` | `crawler.py`, `frontier.py`, `fetcher.py`, `transport.py`, `robots.py`, `types.py` | the frontier, the fetch under way, metrics, status; `visited`, `sent` |
| `CrawlerProofs` | proofs about `Crawler` | |
| `Accounts` | `service.ts`, `session.ts`, `rateLimit.ts` | users, tokens, attempts, sessions; `req` per handler; `verified` |
| `AccountsProofs` | proofs about `Accounts` | |
| `Site` | the shape of a page; languages, places, legal name and brand in `profile/rules.py` | - |
| `Profile` | offerings, categories, topics, `site_type.py`, `build_profile` | - |
| `Prompts` | `clusters/generator.py` | - |
| `Coverage` | `coverage/engine.py`, `relevance/engine.py`, `methodology/v2/coverage.py` | - |
| `Scoring` | `scoring/*`, `methodology/v2/scoring.py`, `offer.py`, `sourceability.py`, `stages.py` | - |
| `Actions` | `actions/rules.py`, `methodology/v2/actions.py`, `pipeline/report.py` | - |
| `Audit` | `pipeline/runner.py` and the life of a site | `site`, `scan` |
| `SiteProofs` | lemmas about the operators of `Site`: sums, sorts, maxima, selections, rounding | |
| `ScoreProofs` | lemmas about the values of a scan: pages, profile, questions, coverage, scores | |
| `AuditProofs` | proofs about `Audit`: scores, actions, report, pairs of scans | |
| `MC...` | the constants of the instances | |

`Site` to `Audit` are one chain of EXTENDS in the order of the pipeline: each module has the
operators of one stage, and `Audit` composes them into `RunPipeline`.

### ScanQueue

`job`, `scan`, `snapshot` and `report` are the committed tables. `tx[w]` is worker `w`'s open
session: its copy of the job row, the scan's status and the rows it has added. `Lease` is
`lease_next_job` up to the flush of `crawling` (nothing is committed); `PersistResult`,
`NoPages`, `RetryTransportError`, `GiveUpTransportError` and `TerminalError` are the ways
`process_one` ends a job; `Commit` is the caller's commit; `Recover` and `StartDrain` run
`recover_stale_jobs`. A row lock is a live session: `LoseConnection` frees the lock while the
worker works on, `NoticeLostConnection` is its next statement. `DatabaseError` abandons the
session, because the except block of `process_one` needs the session that has just failed.
`OneSessionPerJob` is about sessions the database knows; "no other worker can double-process it"
(`worker.py:3`) claims more, since a worker that has lost its connection crawls on beside the next
holder. `PublishedOnce` says that nothing comes of it.

Clocks: `available_at` and `lease_until` are kept as the time that is left, cut off at 0,
since only their sign is read; `Tick` is the only passage of time. `Stranded` rows are
`running` when the model starts: the only way recovery finds work (`OnlyStrandedRun`).

The pipeline is abstracted to its outcome: pages analysed, none, a transport error, or
any other exception. `priority` is not modelled, as no code in the repository sets it; a
scan has one job because the idempotency key is the scan's id. A recovery batch is
20 rows, more than any instance has. Profile and action rows go with the snapshot.

### Entitlements

Each handler is between two of its `await`ed statements; every statement commits on its own,
and `Fail` is death at any point. `hasEntitlement` and `resolveScanOwner` are one step: the
second reads rows that no modelled step changes, so nothing can happen in between that the
two could tell. Signature checks, code comparison, rate limits and the amounts are inputs.
`KnownScans` have a row (and a report); a request may name others. Stripe is external: a
session may complete before its payment clears, and its completion event is delivered until
it has been answered 200. The redirect from Checkout unlocks too (`Return`), although
README.md:50 says the webhook alone does; the comment at `report/[id]/page.tsx:30` says it is
meant to, so the model follows the code.

### QuickScan

`SelectOrg` and `InsertOrg` are two statements of `ensureAnonymousOrg`; the upsert of the
anonymous user cannot fail or differ and is left out. `Begin` fixes `now()`. `LockAndCheck`
takes the advisory lock, upserts the project and looks for a recent scan: one step, since
only a holder of the lock inserts a scan of the project, so the look at the table may as well
happen when the lock is granted. `CommitScan` makes the scan and the job visible and releases
the lock. `triggerWorker` wakes a worker or is lost; either way the request succeeds. The
workflow runs of one concurrency group are `run` and `pending`; a run is `ending` between its
last look at the queue and its end. The worker's effect on a scan is its outcome; how it
comes about is ScanQueue. `missed` is a history variable: the undecided scans for which
nobody was woken, whose run was lost, or that were put off.

### Crawler

`pc` is the fetch under way (robots, sitemaps, a page) or the head of the loop. `Fetch`
validates a hop, `Request` sends it and `Redirect` goes to the next; the other actions are the
ways `fetch` can end and what the loop does with the outcome. A URL's type, locale and canonical
spelling are functions of it; what a page links to, which language it declares, whether it is
thin, how large it is and what robots.txt says are chosen anew at every step. `Reranked` is
`set_primary_locale`, which reorders what already waits. `TransportError` is an httpx exception:
`crawl` does not catch it, so the crawl raises and the queue retries it from nothing. The address
and URL rules are the set `Internal`. `RequestsAllowed` speaks of the first hop of a page only,
because redirects are followed without asking robots.txt again (`fetcher.py:49-67`); the comment
at `transport.py:24-26`, "we never fetch a path the site disallows", claims more than that.

### Accounts

Each handler is between two of its `await`ed statements, and `Die` stops one anywhere. The two
transactions (`registerUser`, `verifyEmail`) are invisible until they commit; the row lock of
the consumed token is what a second `VerifyBegin` waits for. `LoginCheck` counts failures,
`LoginVerify` hashes, `LoginFails` and `LoginRecords` write the ledger, `CreateSession` follows
in a statement of its own. A user is the normalised address; the mail, the hash and the cookie
are left out. `MaxClock` and `MaxAttempts` bound the model only.

### Site, Profile, Prompts, Coverage, Scoring, Actions, Audit

A page is a record: its type, language, title parts, heading, text, JSON-LD nodes, links and the
counts that `page_signals` takes. A name, a heading and a text are sets of words, and a phrase is
in a text when its words are. Strengths, confidences and priorities count ten-thousandths,
scores hundredths of a point, rounded where the code rounds a result (not at every intermediate
`round`); logarithms are a table. Left out: order and spelling inside a phrase, display names,
word lists (`Generic`, `Prose`, `Foreign` are constants), the confirmed name and the audiences
and industries of a profile, which no code of the service sets, methodology v1, which no scan is
created with any more, and all wording.

`Rescan` is one action: `run_scan_job` is one synchronous call that shares nothing with the
scans before it, and its concurrency is the subject of `ScanQueue`. A scan that read no page
stores nothing. Between two scans the owner adds or removes at most one page; an edit and a crawl
that did not go well are steps of their own, and such a crawl is repeated before the next edit.
That limits the pairs of scans that are compared, not the sites: all of them, with every outcome
of the crawl, are initial states. `Profiled` to `Reported` are the steps of `run_pipeline` in a
row, each given what the ones before it found.

## 3. Runs

| Run | Specification and instance | Shows |
|---|---|---|
| `queue` | `FairSpec`; 2 jobs (one stranded), 1 loop worker, 1 draining worker, 3 attempts, lease 1 tick, backoff 1 then 2 | all invariants, `DecidedForGood`, `EveryScanIsDecided`, `ImplementsService` |
| `queue_failure` | `Spec` | refutes "a failure marks that scan failed" (`loop.py:12`) |
| `queue_crash` | `FairSpec` | refutes "until max_attempts is reached, then dead-letter it" (`queue.py:75`) |
| `entitlements` | `FairSpec`; 2 requests in flight, 2 scans and a forged id, 1 session, cap 1 | the cap's overrun is bounded, ledger, `AnsweredIsSettled`, `PaidIsUnlockedOrOrphaned` |
| `promo_cap` | `Spec`; no sessions | refutes "enforces its cap before granting" (`entitlements.ts:118`) |
| `webhook_lost` | `FairSpec`; 1 scan, 1 session | refutes "Redeliveries are safe" (`webhook/route.ts:15`) |
| `quick_scan` | `FairSpec`; 2 requests in flight, 1 domain, 3 scans, 2 attempts, window 1, clock 0..1 | `OneScanPerWindow`, `WokenOrMissed`, `EveryScanIsDrained` |
| `cold_start` | `Spec`, same instance | refutes "cannot both pass the dedup check" (`repository.ts:48`) |
| `crawl` | `Spec` (fair); 7 URLs: root, a page in two spellings, a German copy, a refused host, robots.txt, a sitemap; 2 pages, depth 2, 3 bytes, 1 render, 1 redirect | five invariants, `PrimaryFirst`, `Terminates` |
| `accounts` | `Spec`; 2 users, 2 requests in flight, budgets 1 and 2, clock 0..1 | `BudgetHolds`, `VerifiedOnce`, `SessionsRecorded` |
| `audit` | `Spec`; 12 pages, sites of a home and up to 3 others, `MaxPages` 4, 9 questions | seven invariants, `EvidenceGrows`, `LanguageKept` |
| `content_offer` | `Spec`, same instance | refutes "no offer action is emitted" (`methodology/v2/actions.py:415`) |

**Bounds.** Two workers are enough for every race on a row: a lock has one holder and one
waiter, and a lost connection gives a zombie and a new holder. Two kinds of worker cover both
entry points. Three attempts give a first, a middle and a last one, and both sides of the cap
of the backoff. The second job shows that an old one does not hold up a younger one. In
`Entitlements` two requests are what it takes to overrun the cap; the proof covers the rest.
In `QuickScan` three scans are a first one, its failure and two simultaneous successors;
`MaxScans` guards `Post`, `MaxClock` guards `Tick`, and neither stands for anything in the
code. The runs of `Entitlements` and `QuickScan` may come to rest when everything is used up,
so they do not check for deadlock; nor does that of `Accounts`. Those of `ScanQueue`, `Crawler`
and `Audit` do. In `Crawler` two pages and three bytes let each limit be the first to stop the
crawl; one redirect is one more than the number at which the fetch gives up after none, and the
sitemap that robots.txt names twice is read twice. In `Accounts` two requests are what it takes
to pass the limiter together or to race for a token.

In `Audit` four pages are enough for each rule to fire and not to fire: the twelve pages of the
catalogue are a business and a content home, services in two languages, an imprint, a shop of
other companies' products, an own product with a category, a guide, a regional post with the
same content, prices, another company's about page, and a data set. They make every site type,
an ambiguous brand, a brand known from its domain only, a site without questions, one language
and three, a third-party and an own catalogue. `MaxClusters` 9 (15 in the code) is reached, so
the cap cuts; `MaxPages` 4 is reached with a link left over, so a crawl that saw a sample occurs.
A component that does not apply occurs with each of the two types it does not apply to.

**Fairness.** `ScanQueue`: supervisors and the schedule restart a stopped worker and a running
one goes on, so each worker's steps are weakly fair; crashes, errors and shutdowns are not.
`EveryScanIsDecided` supposes that the faults end (`FaultsEnd`): without it a job that fails
in the database each time is retried for ever, and, being the oldest, is tried before all
others (findings `queue_failure` and `queue_crash`). `Entitlements`: a live handler goes on,
and Stripe redelivers; redelivery is strongly fair because `Handlers` bounds the model and not
the deployment, where a new request always finds an instance. Nothing forces a customer to
return. `QuickScan`: the schedule fires, a run goes on, a backoff passes; `ProcessOne` is
strongly fair, that is, not every run is lost before its first job. Requests need no fairness:
the property is about committed scans. `Crawler`: one thread whose requests all have timeouts,
so weak fairness of its steps; `Terminates` then holds whatever is answered. `Accounts` and
`Audit` state only safety.

**Findings.** `PROJECT.json` quotes, for each violation, the comment that the code departs
from. In short: a database failure is never recorded; a crash undoes the attempt counter that
bounds retries; the limited promo code can be overrun by concurrent redemptions; a webhook that
dies after claiming its event makes redeliveries no-ops; two cold-start submissions create two
anonymous organizations and two scans; a content site, to which Offer Clarity does not apply, is
told to write pages for its offer.

Modelling showed departures that have no run of their own: the properties say what the code does
guarantee, and these lines say what it does not.

* `quick-scan/route.ts:29` wakes the worker for new scans only, since "a reused one is already
  done". `createQuickScan` reuses every scan that has not failed (`repository.ts:68`), one that is
  queued included: submitted again after a lost dispatch, it still waits for the schedule.
  `EveryScanIsDrained` says that it is decided then.
* Redirects are not asked of robots.txt again (`fetcher.py:49-67` against `transport.py:24-26`);
  `RequestsAllowed` is about first hops.
* `relevance/engine.py:138-148` counts the concepts of a question by field and finds them by
  label: a `category_discovery` question, whose topic is its service, has two concepts with one
  label and cannot be aligned in full. RDY-011 may then ask for what a page already does;
  `AdviceCanBeFollowed` makes the exception explicit (`NamedTwice`).
* `topic_info`, `buying_advice` and `category_pricing` have no entry in `_REQUIREMENTS`
  (`coverage/engine.py:27`): such a question scores at most 30, its alignment's share.
* The profile accepts a business by the shape of its node (`profile/rules.py:216`), the scoring by
  its type name only (`scoring/engine.py:24`): the first names it, the second misses its schema.

## 4. Proofs

The eight proof modules are checked by `tlapm` from nothing, with SMT, Zenon and, for the temporal
steps, LS4. `ScoreProofs` takes about five minutes, `AuditProofs` three, the others less than two.

**ScanQueueProofs**, for all `Jobs`, workers, `MaxAttempts`, ticks and `Stranded`. Assumed:
jobs are numbers, the two kinds of worker differ, `MaxAttempts` is positive, ticks are
natural, powers of two up to `MaxAttempts` are natural (the prover knows nothing of
exponentiation), `NoTx` is no session. The properties are not inductive on their own. `IInv`
adds: a worker has a session exactly while it is busy; **a live session is current**, that is,
its row lock has kept the committed row queued, one attempt behind the session's copy; a
session about to commit requeues, publishes or fails soundly; nothing is stored for an
undecided scan; rows that are not queued do not wait. `LiveSessionIsCurrent` carries the
argument: whatever zombies do, only a live session commits, and it replaces exactly the row it
has read. Each action has a lemma, `NextInv` puts them together, and `Invariance` gives
`TypeCorrect`, `RowLockIsExclusive`, `PublishesOnce`, `StatusesAgree`, `QueuedCanBeLeased`,
`NoLeaseIsCommitted`.
`DecisionsAreFinal` (an action property) and `QueueImplementsService` (the refinement) follow
from the same invariant and two lemmas that say what a step can do to the rows.

**EntitlementsProofs**, for all finite `Handlers`, all scans, sessions and positive caps.
`TheLedgerIsTrue` needs that rows and ledger entries exist only for created sessions (so that
a session's scan never changes under them) and that what a grant in flight has found out stays
so, because entitlements are never withdrawn. `TheOverrunIsBounded` counts: a handler passes
the check only while `redeemed < LimitedMax` and then was not among those past it, and an
insert moves one from the one count to the other; hence redemptions stay below
`LimitedMax + Cardinality(Handlers)`.
`TypeCorrect` holds of tables, ledger and requests. Three more facts say why the ledger can be
trusted and where it cannot: of all deliveries of one event at most one is past the claim, and only
while the ledger says `received` (`OneDeliveryClaims`); what the ledger has decided stays, and an
event whose claimer died is stuck for good, the reason of finding `webhook_lost`
(`NoSecondChance`); and no step takes an entitlement or a row away (`UnlockedForGood`). Together with
the ledger they are the safety part of `PaidIsUnlockedOrOrphaned`: a payment that Stripe stops
redelivering has unlocked its scan, is being worked on, or is orphaned (`AnsweredPaymentsAreSettled`).

**QuickScanProofs**, for all finite `Handlers`, all domains and any window, attempts, clock and
number of scans. `TypeCorrect` needs that `Post` leaves room for every scan in flight (`Room`)
and that a dispatch names a committed scan. `OneScan` rests on `WindowInv`: the lock of one
organization and domain has one holder (`LockIsExclusive`), and while a holder that found
nothing is in its transaction, every scan of its project that has not failed is a window older
than its BEGIN (`NothingRecent`); a second commit would need a second holder. It does not
matter how long the lock was waited for. `NoWakeUpIsLost` rests on `WakeInv`: every ready scan
is awaited by a run, a run behind it or a dispatch to come, and a job that was put off counts
as missed until it is decided (`PutOffIsMissed`), so the end of its backoff asks nothing of the
group.

**CrawlerProofs**, for any URLs, sites, robots files and limits. `Inv` adds to the checked
invariants what each phase has done so far (`Phases`), that the frontier is what was seen and
not taken, with current ranks (`Frontier`), that a page is asked for only while both budgets are
open (`Budget`), that the entry under way was allowed when it was taken (`Asking`), and why the
crawl ended (`Ends`). `StatusIsTrue` needs `Frontier`: a completed crawl has an empty heap, so
everything seen was taken. `PrimaryComesFirst` is an action property: ranks are current, and
an off-locale penalty exceeds every type priority, so the best entry is off-locale only when all
are. `CrawlShrinks` is the part of `Terminates` that needs no fairness: five natural numbers (phase,
sitemaps, pages of the budget, URLs that wait, redirects), compared like words, shrink with every
step, so no answers can keep a crawl going. It does not suppose that the site is finite, only that
each page and each sitemap has finitely many links (`CrawlerAssumption`): what waits is then finite.

**AccountsProofs**, for any users, handlers and budgets. `Inv` adds what a request in
flight has found out and stays true (`InFlight`: whoever registers has no row yet, whoever
verifies holds a pending user) and that at most one verification holds
a token. `BudgetIsKept` counts like `TheOverrunIsBounded`: a guess passes the limiter only while the
failures are below the budget and at most the other requests have guesses on their way; what it then
writes moves from the one count to the other, and a tick only takes failures out of the window.
`SessionsAccounted` needs `Accounted`: the sessions of a user and the requests that have written
their row and not yet opened a session are, together, at most as many as the rows.

**SiteProofs** are the facts that everything about the audit keeps needing. The operators of the
audit fold over sets and sequences of any size, and the library's induction theorems, which take an
operator, cannot be instantiated. Two lemmas replace them, stated for sets and functions instead:
`SubsetInduction` (a set of subsets that holds one when it holds all its proper subsets holds
all) and `Recursion` (a function on the subsets of a finite set that is defined from its
values on smaller ones exists). From these follow what a sum is, element by element (`SumIs`,
`SumLess`, `SumSplit`), what a sort returns (`SortIs`: the elements, each once, in order), what a
flattening and a selection hold (`FlattenIs`, `KeptIs`), and between what bounds a rounded weighted
mean lies (`WeightedMeanBetween`).

**ScoreProofs** follow the pipeline and say of which type and in which range each of its values is:
pages read (`CrawlMetaIs`), profile (`ProfileIs`), questions (`ClustersAre`: at most `MaxClusters`
of finitely many candidates, in the order of their priorities), requirements, alignments and
coverage (`CoverageIs`), the seven components (`ScoresAre`), confidence (`ConfidenceIs`). The
requirements of an intent have weights that add up to at most a hundred
(`RequirementsBalanced`), and the parts of an alignment stay within theirs.

**AuditProofs**, for any catalogue, any limits and any history of scans, prove all seven
invariants and both action properties of the run. What is stored is always the result of one
`RunPipeline` (`Produced`); the rest is about that result. Assumed: the alphabet is a sequence and
the domain, the words of the templates and the pages of the catalogue are of their types
(`WordsAssumption`, `TemplatesAssumption`, `CatalogueAssumption`), as what the extractor and
`TEMPLATES` yield is; and `Ln`, the table for `math.log`, is monotone (`LnAssumption`).

* `TypeCorrect` puts the lemmas of `ScoreProofs` together.
* `WeakHasAdvice` follows the action of a weak component through rules, fallbacks and
  deduplication: priorities are numbers, so a family keeps a best one, which has the same category.
  `AdviceFocused` rests on a table of which rule has which family and category
  (`OfOthers`, `OfFallbacks`, `OneAFamily`).
* `OverallIsBetween` is `MeanBetween`: a weighted mean of seven scores, or of the six that apply,
  rounded half up, lies between the least and the greatest, for the weights of the overall score
  and of each stage.
* `ReportIsConsistent` counts ranks: strengths and gaps are taken from the two ends of one ranking
  that do not meet (`RanksApart`), and a gap below Good has advice as every weak component has.
* `ShopsAreAsked` is about the candidates of a shop, of which none is cut while the list has room.
  When the list is full the priorities decide and a shop may be asked neither question, hence the
  hypothesis `Len(scan.clusters) < MaxClusters` of `CatalogueIsAsked`.
* `AdviceIsUseful`: a page that names all concepts of a question, each of them once, in its title or
  heading lifts the question's alignment to 50 on its own (`AlignmentIs`), where RDY-011 ends.
* `LanguagesKept` follows because a language's coverage reads its own pages, the questions, the brand
  and the generation language only.
* `EvidenceIsKept` does not use which edit or crawl lies between the two scans. Each signal of a question counts
  pages up to a limit or asks for one, so it is monotone in the pages that are read. `ReadAgain`
  compares how often a page is read and not just whether it is: two of the catalogue's pages may
  read alike, and with one of them gone a signal that counts pages falls although the set of what
  was read is the same.
* `CalibrateMonotone` holds of the curve across its anchors, for all integers.

**Only model-checked:** the properties that need fairness (`EveryScanIsDecided`,
`PaidIsUnlockedOrOrphaned`, `EveryScanIsDrained`, `Terminates`), since the proof system has no rules
for liveness under fairness and ENABLED. The safety part of their arguments is proved:
`NoWakeUpIsLost`, `AnsweredPaymentsAreSettled`, `CrawlShrinks` and the refinement. Of the other
properties of passing runs each is stated by a theorem.

## 5. Not modelled

* Page content, SEO and rendering; HTML and JSON-LD parsing, regular expressions and word lists
  (a page enters as a record of what extraction finds); all wording of questions, actions and
  reports; the fix prompts. These transform text and keep no state.
* Classification of addresses and normalization of URLs (`geo_worker/security`): enter the crawl
  as verdicts.
* robots.txt verdicts for AI agents (`ai_agents.py`, `lib/robots`): they are displayed and enter
  neither the crawl nor a score. Rate limiters: best-effort by their own comment, memory of one
  instance.
* Tenant access (`lib/tenant/repository.ts`, `getSession`, `lib/auth/context.ts`): reads that only
  tests call; pages and routes serve scans and reports by scan id.
* The frozen methodology v1: no scan is created with it. The benchmark: offline.
* Migrations; the connection pool; clock skew between workers and the database (one clock). A
  limited promo code configured below 1 (`PROMO_LIMITED_MAX=0.5` is floored to a cap of 0).
  Recovery in batches of 20 rows, more than any instance has.
