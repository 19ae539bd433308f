----------------------------- MODULE QuickScan -----------------------------
(***************************************************************************)
(* POST /api/projects/quick-scan: concurrent submissions against Postgres, *)
(* and the waking of the GitHub Actions worker that drains the queue       *)
(* (apps/web/lib/scans/repository.ts and dispatch.ts,                      *)
(* .github/workflows/process-scans.yml).  What the worker does to one job  *)
(* is ScanQueue; here a run takes the oldest ready scan and ends it.       *)
(***************************************************************************)
EXTENDS Naturals, FiniteSets, Sequences

CONSTANTS
  Handlers,    \* requests that can be in flight at once
  Domains,     \* normalised domains
  Window,      \* DOMAIN_COOLDOWN_MINUTES, in ticks
  MaxAttempts, \* attempts of a job before it is dead
  MaxClock,    \* bound of the model: ticks
  MaxScans     \* bound of the model: scans

ASSUME HandlersAreFinite  == IsFiniteSet(Handlers) /\ Handlers # {}
ASSUME BoundsAreNat       == {Window, MaxAttempts, MaxClock, MaxScans} \subseteq Nat

VARIABLES
  clock,   \* now()
  orgs,    \* organizations of the anonymous user, by created_at rank
  scans,   \* the committed scans, each with its job, in order of commit
  req,     \* what each handler is doing, with its open transaction
  run,     \* the workflow run of group process-scans
  pending, \* a run of the group waits behind it
  missed   \* undecided scans whose wake-up was lost, or whose run was, or that were put off

vars == <<clock, orgs, scans, req, run, pending, missed>>
worker == <<run, pending>>

OrgRank  == 1..Cardinality(Handlers)
\* 'waiting': queued again, with available_at in the future.
Status   == {"queued", "waiting", "completed", "failed"}
Scan     == [org : OrgRank, domain : Domains, at : 0..MaxClock,
             status : Status, tries : 0..MaxAttempts]

Idle     == [at |-> "idle"]
Request  == {Idle}
  \cup [at : {"getOrg", "newOrg"}, domain : Domains]
  \cup [at : {"begin"}, domain : Domains, org : OrgRank]
  \cup [at : {"lock", "insert", "reuse"}, domain : Domains, org : OrgRank,
        now : 0..MaxClock]
  \cup [at : {"dispatch"}, scan : 1..MaxScans]

Init ==
  /\ clock = 0
  /\ orgs = {}
  /\ scans = <<>>
  /\ req = [h \in Handlers |-> Idle]
  /\ run = "none"
  /\ pending = FALSE
  /\ missed = {}

Goes(h, r) == req' = [req EXCEPT ![h] = r]
Busy       == {h \in Handlers : req[h] # Idle}

----------------------------------------------------------------------------
(* The request, up to its transaction: statements of their own. *)

\* The handler accepts a domain; the guard is MaxScans, a bound of the model.
Post(h, d) ==
  /\ req[h] = Idle
  /\ Len(scans) + Cardinality(Busy) < MaxScans
  /\ Goes(h, [at |-> "getOrg", domain |-> d])
  /\ UNCHANGED <<clock, orgs, scans, worker, missed>>

Began(h, o) == Goes(h, [at |-> "begin", domain |-> req[h].domain, org |-> o])

\* ... WHERE owner_user_id = $1 ORDER BY created_at LIMIT 1.
SelectOrg(h) ==
  /\ req[h].at = "getOrg"
  /\ IF orgs = {}
       THEN Goes(h, [at |-> "newOrg", domain |-> req[h].domain])
       ELSE \E o \in orgs : (\A p \in orgs : o <= p) /\ Began(h, o)
  /\ UNCHANGED <<clock, orgs, scans, worker, missed>>

\* No constraint makes the organization unique.  Statements that overlap may
\* commit in another order than their created_at, hence any free rank.
InsertOrg(h) ==
  /\ req[h].at = "newOrg"
  /\ \E o \in OrgRank \ orgs : orgs' = orgs \cup {o} /\ Began(h, o)
  /\ UNCHANGED <<clock, scans, worker, missed>>

----------------------------------------------------------------------------
(* createQuickScan's transaction. *)

\* BEGIN: now() is fixed here, before the lock is waited for.
Begin(h) ==
  /\ req[h].at = "begin"
  /\ Goes(h, [at |-> "lock", domain |-> req[h].domain, org |-> req[h].org, now |-> clock])
  /\ UNCHANGED <<clock, orgs, scans, worker, missed>>

\* The project's scans that are not failed and younger than the window at BEGIN.
Recent(h) ==
  {s \in DOMAIN scans : /\ scans[s].org = req[h].org /\ scans[s].domain = req[h].domain
                        /\ scans[s].status # "failed"
                        /\ scans[s].at + Window > req[h].now}

Decides(h) ==
  /\ Goes(h, [req[h] EXCEPT !.at = IF Recent(h) = {} THEN "insert" ELSE "reuse"])
  /\ UNCHANGED <<clock, orgs, scans, worker, missed>>

\* The transactions that hold the advisory lock of an organization and a domain.
Holders(o, d) ==
  {h \in Handlers : /\ req[h].at \in {"insert", "reuse"}
                    /\ req[h].org = o /\ req[h].domain = d}

\* Mutant: the advisory lock is not taken.
CheckUnlocked(h) == req[h].at = "lock" /\ Decides(h)

\* pg_advisory_xact_lock, the upsert of the project, which the same key protects,
\* and the look for a recent scan: one step, as only a holder of the lock adds one.
LockAndCheck(h) ==
  /\ req[h].at = "lock"
  /\ Holders(req[h].org, req[h].domain) = {}
  /\ Decides(h)

\* COMMIT of a new scan and its job: both become visible, the lock is released.
CommitScan(h) ==
  /\ req[h].at = "insert"
  /\ scans' = Append(scans, [org |-> req[h].org, domain |-> req[h].domain, at |-> req[h].now,
                             status |-> "queued", tries |-> 0])
  /\ Goes(h, [at |-> "dispatch", scan |-> Len(scans) + 1])
  /\ UNCHANGED <<clock, orgs, worker, missed>>

\* COMMIT of a reuse: no scan, no job and no wake-up.
CommitReuse(h) ==
  /\ req[h].at = "reuse"
  /\ Goes(h, Idle)
  /\ UNCHANGED <<clock, orgs, scans, worker, missed>>

----------------------------------------------------------------------------
(* Waking the worker: repository_dispatch, or the schedule. *)

\* Mutant: a trigger that finds a run in progress is dropped.
DropTrigger ==
  /\ run' = IF run = "none" THEN "draining" ELSE run
  /\ UNCHANGED pending

\* The concurrency group: one run in progress, at most one behind it.
Trigger ==
  /\ run' = IF run = "none" THEN "draining" ELSE run
  /\ pending' = (pending \/ run # "none")

\* triggerWorker: it never fails the request, whatever becomes of the dispatch.
triggerWorker(h) ==
  /\ req[h].at = "dispatch"
  /\ Goes(h, Idle)
  /\ \/ Trigger /\ UNCHANGED missed
     \/ missed' = missed \cup {req[h].scan} /\ UNCHANGED worker
  /\ UNCHANGED <<clock, orgs, scans>>

\* The request dies: an open transaction is rolled back, its lock is released, and
\* a scan already committed is left without its wake-up.
Die(h) ==
  /\ req[h] # Idle
  /\ Goes(h, Idle)
  /\ missed' = missed \cup (IF req[h].at = "dispatch" THEN {req[h].scan} ELSE {})
  /\ UNCHANGED <<clock, orgs, scans, worker>>

\* The schedule, every ten minutes.
Cron ==
  /\ ~pending
  /\ Trigger
  /\ UNCHANGED <<clock, orgs, scans, req, missed>>

----------------------------------------------------------------------------
(* A workflow run: scripts/process_jobs.py. *)

Queued == {s \in DOMAIN scans : scans[s].status = "queued"}
Moves(s, st, n) == scans' = [scans EXCEPT ![s].status = st, ![s].tries = n]

\* Mutant: retries are not counted against MaxAttempts.
ProcessUncounted ==
  /\ run = "draining"
  /\ \E s \in Queued :
       /\ \A t \in Queued : s <= t
       /\ \/ /\ \E st \in {"completed", "failed"} : Moves(s, st, 0)
             /\ missed' = missed \ {s}
          \/ Moves(s, "waiting", scans[s].tries + 1) /\ missed' = missed \cup {s}
  /\ UNCHANGED <<clock, orgs, req, worker>>

\* Mutant: a job that was put off is not leased again.
ProcessOnlyFresh ==
  /\ run = "draining"
  /\ \E s \in {q \in Queued : scans[q].tries = 0} :
       /\ \A t \in Queued : s <= t
       /\ \/ /\ \E st \in {"completed", "failed"} : Moves(s, st, 0)
             /\ missed' = missed \ {s}
          \/ Moves(s, "waiting", 1) /\ missed' = missed \cup {s}
  /\ UNCHANGED <<clock, orgs, req, worker>>

\* process_one: the oldest ready job is finished, failed, or put off.  The attempts
\* of a decided scan are forgotten: nothing reads them.
ProcessOne ==
  /\ run = "draining"
  /\ \E s \in Queued :
       /\ \A t \in Queued : s <= t
       /\ LET n == scans[s].tries + 1
          IN  \/ /\ \E st \in {"completed", "failed"} : Moves(s, st, 0)
                 /\ missed' = missed \ {s}
              \/ n < MaxAttempts /\ Moves(s, "waiting", n) /\ missed' = missed \cup {s}
  /\ UNCHANGED <<clock, orgs, req, worker>>

\* available_at has passed; nothing wakes a worker for it.
BackoffEnds(s) ==
  /\ s \in DOMAIN scans
  /\ scans[s].status = "waiting"
  /\ Moves(s, "queued", scans[s].tries)
  /\ UNCHANGED <<clock, orgs, req, worker, missed>>

\* process_one found no job: the run is ending, but still holds the group.
FindNone ==
  /\ run = "draining"
  /\ Queued = {}
  /\ run' = "ending"
  /\ UNCHANGED <<clock, orgs, scans, req, pending, missed>>

Handover == run' = (IF pending THEN "draining" ELSE "none") /\ pending' = FALSE

RunEnds ==
  /\ run = "ending"
  /\ Handover
  /\ UNCHANGED <<clock, orgs, scans, req, missed>>

\* The runner is lost: its open transaction is rolled back, its job stays queued.
RunDies ==
  /\ run = "draining"
  /\ Handover
  /\ missed' = missed \cup Queued
  /\ UNCHANGED <<clock, orgs, scans, req>>

Tick ==
  /\ clock < MaxClock
  /\ clock' = clock + 1
  /\ UNCHANGED <<orgs, scans, req, worker, missed>>

Next ==
  \/ \E h \in Handlers :
       \/ \E d \in Domains : Post(h, d)
       \/ SelectOrg(h) \/ InsertOrg(h) \/ Begin(h) \/ LockAndCheck(h)
       \/ CommitScan(h) \/ CommitReuse(h) \/ triggerWorker(h) \/ Die(h)
  \/ Cron \/ ProcessOne \/ (\E s \in 1..MaxScans : BackoffEnds(s))
  \/ FindNone \/ RunEnds \/ RunDies \/ Tick

Spec == Init /\ [][Next]_vars

\* The schedule keeps firing, a run goes on, a backoff passes, and not every run is
\* lost before it has finished a job.  Nothing is assumed of the requests.
FairSpec ==
  /\ Spec
  /\ WF_vars(Cron) /\ WF_vars(FindNone) /\ WF_vars(RunEnds)
  /\ \A s \in 1..MaxScans : WF_vars(BackoffEnds(s))
  /\ SF_vars(ProcessOne)

----------------------------------------------------------------------------
TypeOK ==
  /\ clock \in 0..MaxClock
  /\ orgs \subseteq OrgRank
  /\ scans \in Seq(Scan) /\ Len(scans) <= MaxScans
  /\ req \in [Handlers -> Request]
  /\ run \in {"none", "draining", "ending"}
  /\ pending \in BOOLEAN
  /\ missed \subseteq DOMAIN scans

Apart(s, t) == scans[s].at + Window <= scans[t].at \/ scans[t].at + Window <= scans[s].at

\* "One scan per domain per window" (repository.ts:64), for the scans of one
\* project: whatever waits between BEGIN and the lock, and whatever fails in
\* between, two scans that are not failed are requested a window apart.
OneScanPerWindow ==
  \A s, t \in DOMAIN scans :
    /\ s # t
    /\ scans[s].org = scans[t].org /\ scans[s].domain = scans[t].domain
    /\ "failed" \notin {scans[s].status, scans[t].status}
    => Apart(s, t)

\* No wake-up is lost by coalescing: a ready scan has a run that will still look at
\* the queue, one that waits, or a dispatch to come, unless its own dispatch or
\* its run was lost or it was put off.  Only these need the schedule.
WokenOrMissed ==
  \A s \in Queued \ missed :
    \/ run = "draining" \/ pending
    \/ \E h \in Handlers : req[h] = [at |-> "dispatch", scan |-> s]

\* The schedule makes up for every wake-up that was missed: each scan is decided.
EveryScanIsDrained ==
  \A s \in 1..MaxScans :
    s \in DOMAIN scans ~> s \in DOMAIN scans /\ scans[s].status \in {"completed", "failed"}

----------------------------------------------------------------------------
(* What comments say and the code does not do; each is refuted by a run. *)

\* repository.ts:48-50 "two simultaneous submissions for the same domain cannot both
\* pass the dedup check and each start a scan".
OneScanPerDomain ==
  \A s, t \in DOMAIN scans :
    /\ s # t /\ scans[s].domain = scans[t].domain
    /\ "failed" \notin {scans[s].status, scans[t].status}
    => Apart(s, t)
=============================================================================
