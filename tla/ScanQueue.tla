----------------------------- MODULE ScanQueue -----------------------------
(***************************************************************************)
(* The scan job queue: the `jobs` table in Postgres, the web transaction   *)
(* that fills it (apps/web/lib/scans/repository.ts) and the Python workers *)
(* that drain it (apps/worker/src/geo_worker/jobs).                        *)
(*                                                                         *)
(* `job`, `scan`, `snapshot` and `report` are the COMMITTED tables, what   *)
(* every other session and the polling browser can read.  tx[w] is the     *)
(* open database session of worker w: the rows as the session has changed  *)
(* them, invisible until Commit(w) and lost by anything that ends the      *)
(* session earlier.  A scan has one job (the idempotency key is the scan   *)
(* id), so a member of Jobs names both.                                    *)
(***************************************************************************)
EXTENDS Naturals, FiniteSets

CONSTANTS
  Jobs,          \* jobs and their scans; the number is the rank of created_at
  LoopWorkers,   \* processes running scripts/run_worker.py
  DrainWorkers,  \* processes running scripts/process_jobs.py
  MaxAttempts,   \* jobs.max_attempts
  LeaseTicks,    \* DEFAULT_LEASE_SECONDS, in clock ticks
  RetryBase,     \* RETRY_BASE_SECONDS, in clock ticks
  RetryMax,      \* RETRY_MAX_SECONDS, in clock ticks
  Stranded,      \* jobs whose row is found `running` when the model starts
  NoTx           \* "this worker has no open session"

Workers == LoopWorkers \cup DrainWorkers

ASSUME JobsAreRanked      == Jobs \subseteq Nat
ASSUME StrandedAreJobs    == Stranded \subseteq Jobs
ASSUME WorkerKindsDiffer  == LoopWorkers \cap DrainWorkers = {}
ASSUME MaxAttemptsIsPos   == MaxAttempts \in Nat \ {0}
ASSUME TicksAreNat        == LeaseTicks \in Nat /\ RetryBase \in Nat /\ RetryMax \in Nat
ASSUME PowersAreNat       == \A a \in 0..MaxAttempts : 2^a \in Nat

----------------------------------------------------------------------------
JobStatus  == {"absent", "queued", "running", "succeeded", "dead"}
ScanStatus == {"absent", "queued", "crawling", "completed", "partial", "failed"}

Published == {"completed", "partial"}
Decided   == Published \cup {"failed"}

\* `wait` is available_at - now and `lease` is lease_until - now, both cut off
\* at 0: only their sign is ever read, so the clock itself needs no variable.
JobRow == [status : JobStatus, attempt : 0..MaxAttempts, wait : Nat, lease : 0..LeaseTicks]

NoRow     == [status |-> "absent", attempt |-> 0, wait |-> 0, lease |-> 0]
QueuedRow == [status |-> "queued", attempt |-> 0, wait |-> 0, lease |-> 0]
StrandedRows == [status : {"running"}, attempt : 1..MaxAttempts, wait : {0}, lease : 0..LeaseTicks]

\* What a session has read and changed: its job and scan rows and the rows added.
Session == [job : Jobs, live : BOOLEAN, row : JobRow, scan : ScanStatus,
            snapshot : {0, 1}, report : {0, 1}]

ASSUME NoTxIsNoSession == NoTx \notin Session

VARIABLES job, scan, snapshot, report, pc, tx
db   == <<job, scan, snapshot, report>>
vars == <<job, scan, snapshot, report, pc, tx>>

Busy == {"crawling", "committing"}

Init ==
  /\ job \in [Jobs -> {NoRow} \cup StrandedRows]
  /\ \A j \in Jobs : j \in Stranded <=> job[j] # NoRow
  /\ scan = [j \in Jobs |-> IF j \in Stranded THEN "crawling" ELSE "absent"]
  /\ snapshot = [j \in Jobs |-> 0]
  /\ report = [j \in Jobs |-> 0]
  /\ pc = [w \in Workers |-> "down"]
  /\ tx = [w \in Workers |-> NoTx]

----------------------------------------------------------------------------
(* The web side. *)

\* Mutant: a conflicting insert revives the old job.
Resubmit(j) ==
  /\ job[j].status \in {"absent", "dead"}
  /\ job' = [job EXCEPT ![j] = QueuedRow]
  /\ scan' = [scan EXCEPT ![j] = "queued"]
  /\ UNCHANGED <<snapshot, report, pc, tx>>

\* createQuickScan inserts the scan and its job in one transaction.
Submit(j) ==
  /\ job[j].status = "absent"
  /\ job' = [job EXCEPT ![j] = QueuedRow]
  /\ scan' = [scan EXCEPT ![j] = "queued"]
  /\ UNCHANGED <<snapshot, report, pc, tx>>

----------------------------------------------------------------------------
(* Leasing and lease recovery. *)

\* Row locks: FOR UPDATE holds the job row for as long as the session lives.
Locked == {j \in Jobs : \E w \in Workers : tx[w] # NoTx /\ tx[w].live /\ tx[w].job = j}

\* Mutant: the SELECT has no FOR UPDATE SKIP LOCKED.
ReadyOrLocked == {j \in Jobs : job[j].status = "queued" /\ job[j].wait = 0}

Ready == {j \in Jobs : job[j].status = "queued" /\ job[j].wait = 0 /\ j \notin Locked}

\* The session of a worker that has leased j and set its scan to crawling.
Leased(j) ==
  [job |-> j, live |-> TRUE,
   row |-> [status |-> "running", attempt |-> job[j].attempt + 1,
            wait |-> job[j].wait, lease |-> LeaseTicks],
   scan |-> "crawling", snapshot |-> 0, report |-> 0]

Oldest(j) == j \in Ready /\ \A k \in Ready : j <= k

\* Mutants: the lease is committed at once; the lease does not count the attempt.
LeaseAndCommit(w) ==
  /\ pc[w] = "idle"
  /\ \E j \in Jobs :
       /\ Oldest(j)
       /\ tx' = [tx EXCEPT ![w] = Leased(j)]
       /\ job' = [job EXCEPT ![j] = Leased(j).row]
  /\ pc' = [pc EXCEPT ![w] = "crawling"]
  /\ UNCHANGED <<scan, snapshot, report>>
LeaseUncounted(w) ==
  /\ pc[w] = "idle"
  /\ \E j \in Jobs :
       /\ Oldest(j)
       /\ tx' = [tx EXCEPT ![w] = [Leased(j) EXCEPT !.row.attempt = job[j].attempt]]
  /\ pc' = [pc EXCEPT ![w] = "crawling"]
  /\ UNCHANGED db

\* lease_next_job, then run_scan_job up to the flush of `crawling`: the oldest
\* ready row nobody has locked.  Nothing of it is committed.
Lease(w) ==
  /\ pc[w] = "idle"
  /\ \E j \in Jobs :
       /\ Oldest(j)
       /\ tx' = [tx EXCEPT ![w] = Leased(j)]
  /\ pc' = [pc EXCEPT ![w] = "crawling"]
  /\ UNCHANGED db

\* Mutant: the lease test is reversed.
Fresh == {j \in Jobs : job[j].status = "running" /\ job[j].lease > 0 /\ j \notin Locked}

Stale == {j \in Jobs : job[j].status = "running" /\ job[j].lease = 0 /\ j \notin Locked}

\* Mutant: one attempt too many is allowed.
TooLate == {j \in Stale : job[j].attempt > MaxAttempts}

Exhausted == {j \in Stale : job[j].attempt >= MaxAttempts}

\* recover_stale_jobs and _fail_scan, committed at once (the batch of 20 rows
\* exceeds every instance checked here).
RecoverStaleJobs ==
  /\ job' = [j \in Jobs |->
       IF j \in Exhausted THEN [job[j] EXCEPT !.status = "dead"]
       ELSE IF j \in Stale THEN [job[j] EXCEPT !.status = "queued", !.lease = 0, !.wait = 0]
       ELSE job[j]]
  /\ scan' = [j \in Jobs |->
       IF j \in Exhausted /\ scan[j] \notin {"completed", "failed"} THEN "failed" ELSE scan[j]]
  /\ UNCHANGED <<snapshot, report>>

\* The loop recovers every 30 s, between two jobs.
Recover(w) ==
  /\ w \in LoopWorkers
  /\ pc[w] = "idle"
  /\ RecoverStaleJobs
  /\ UNCHANGED <<pc, tx>>

----------------------------------------------------------------------------
(* One job, inside the session that leased it. *)

\* process_one has flushed its last change; only the commit is left.
Finish(w, status, wait, scanStatus, added) ==
  /\ pc[w] = "crawling"
  /\ tx[w].live
  /\ tx' = [tx EXCEPT ![w] =
       [job |-> tx[w].job, live |-> TRUE,
        row |-> [status |-> status, attempt |-> tx[w].row.attempt, wait |-> wait,
                 lease |-> IF status = "queued" THEN 0 ELSE tx[w].row.lease],
        scan |-> scanStatus, snapshot |-> added.snapshot, report |-> added.report]]
  /\ pc' = [pc EXCEPT ![w] = "committing"]
  /\ UNCHANGED db

Nothing  == [snapshot |-> 0, report |-> 0]
Analysis == [snapshot |-> 1, report |-> 0]
Full     == [snapshot |-> 1, report |-> 1]

\* The pipeline analysed pages: persist_scan_result, then mark_succeeded.
PersistResult(w) ==
  \E s \in Published : Finish(w, "succeeded", 0, s, Full)

\* Nothing could be crawled: the scan fails, the job has done its work.
NoPages(w) == Finish(w, "succeeded", 0, "failed", Nothing)

retry_delay(attempt) ==
  LET exponent == IF attempt > 1 THEN attempt - 1 ELSE 0
      delay    == RetryBase * 2^exponent
  IN  IF delay <= RetryMax THEN delay ELSE RetryMax

\* Mutant: the retry does not look at max_attempts.
RetryUnbounded(w) ==
  /\ tx[w] # NoTx
  /\ Finish(w, "queued", retry_delay(tx[w].row.attempt), "queued", Nothing)

\* httpx.TransportError out of the crawl, attempts left: mark_for_retry.
RetryTransportError(w) ==
  /\ tx[w] # NoTx
  /\ tx[w].row.attempt < MaxAttempts
  /\ Finish(w, "queued", retry_delay(tx[w].row.attempt), "queued", Nothing)

\* Mutant: the job dies and its scan is left as it was.
GiveUpJobOnly(w) ==
  /\ tx[w] # NoTx
  /\ tx[w].row.attempt >= MaxAttempts
  /\ Finish(w, "dead", 0, "queued", Nothing)

\* The last attempt failed too: mark_dead.
GiveUpTransportError(w) ==
  /\ tx[w] # NoTx
  /\ tx[w].row.attempt >= MaxAttempts
  /\ Finish(w, "dead", 0, "failed", Nothing)

\* Any other exception: mark_dead.  One raised while persist_scan_result was
\* adding rows leaves those pending, and the SELECT of the except block flushes
\* them: they are committed with the failure.
TerminalError(w) ==
  \E added \in {Nothing, Analysis} : Finish(w, "dead", 0, "failed", added)

Resolve(w) ==
  \/ PersistResult(w)
  \/ NoPages(w)
  \/ RetryTransportError(w)
  \/ GiveUpTransportError(w)
  \/ TerminalError(w)

\* The session's rows become everybody's.
Publish(w) ==
  /\ job' = [job EXCEPT ![tx[w].job] = tx[w].row]
  /\ scan' = [scan EXCEPT ![tx[w].job] = tx[w].scan]
  /\ snapshot' = [snapshot EXCEPT ![tx[w].job] = @ + tx[w].snapshot]
  /\ report' = [report EXCEPT ![tx[w].job] = @ + tx[w].report]
  /\ pc' = [pc EXCEPT ![w] = "idle"]
  /\ tx' = [tx EXCEPT ![w] = NoTx]

\* Mutant: rows are written on a fresh connection after the first was lost.
CommitAnyway(w) == pc[w] = "committing" /\ Publish(w)

Commit(w) ==
  /\ pc[w] = "committing"
  /\ tx[w].live
  /\ Publish(w)

----------------------------------------------------------------------------
(* What goes wrong. *)

\* Closing a session rolls it back.  The exception that escaped process_one is
\* caught by run_worker_loop and ends process_jobs.
Abandon(w) ==
  /\ tx' = [tx EXCEPT ![w] = NoTx]
  /\ pc' = [pc EXCEPT ![w] = IF w \in LoopWorkers THEN "idle" ELSE "down"]
  /\ UNCHANGED db

\* A statement or the commit fails in the database.  The session is unusable
\* until rolled back, so the SELECT in process_one's except block raises too.
DatabaseError(w) ==
  /\ pc[w] \in Busy
  /\ tx[w].live
  /\ Abandon(w)

\* The server ends the transaction and frees its locks while the worker, inside
\* the pipeline, does not notice.
LoseConnection(w) ==
  /\ pc[w] \in Busy
  /\ tx[w].live
  /\ tx' = [tx EXCEPT ![w].live = FALSE]
  /\ UNCHANGED <<job, scan, snapshot, report, pc>>

\* The next statement on the dead connection raises.
NoticeLostConnection(w) ==
  /\ pc[w] \in Busy
  /\ ~tx[w].live
  /\ Abandon(w)

\* The process is killed.  (An idle one with nothing ready to lease cannot be
\* told from one that was shut down or has drained the queue.)
Crash(w) ==
  /\ pc[w] \in Busy \/ (pc[w] = "idle" /\ Ready # {})
  /\ pc' = [pc EXCEPT ![w] = "down"]
  /\ tx' = [tx EXCEPT ![w] = NoTx]
  /\ UNCHANGED db

----------------------------------------------------------------------------
(* Process lifecycle and time. *)

StartLoop(w) ==
  /\ w \in LoopWorkers
  /\ pc[w] = "down"
  /\ pc' = [pc EXCEPT ![w] = "idle"]
  /\ UNCHANGED <<job, scan, snapshot, report, tx>>

\* process_jobs recovers before it drains.
StartDrain(w) ==
  /\ w \in DrainWorkers
  /\ pc[w] = "down"
  /\ RecoverStaleJobs
  /\ pc' = [pc EXCEPT ![w] = "idle"]
  /\ UNCHANGED tx

\* SIGTERM: the loop ends between two jobs.
Shutdown(w) ==
  /\ w \in LoopWorkers
  /\ pc[w] = "idle"
  /\ pc' = [pc EXCEPT ![w] = "down"]
  /\ UNCHANGED <<job, scan, snapshot, report, tx>>

\* process_one returned None: nothing left to drain.
DrainDone(w) ==
  /\ w \in DrainWorkers
  /\ pc[w] = "idle"
  /\ Ready = {}
  /\ pc' = [pc EXCEPT ![w] = "down"]
  /\ UNCHANGED <<job, scan, snapshot, report, tx>>

Tick ==
  /\ \E j \in Jobs : job[j].wait > 0 \/ (job[j].status = "running" /\ job[j].lease > 0)
  /\ job' = [j \in Jobs |->
       [job[j] EXCEPT !.wait  = IF @ > 0 THEN @ - 1 ELSE 0,
                      !.lease = IF @ > 0 /\ job[j].status = "running" THEN @ - 1 ELSE @]]
  /\ UNCHANGED <<scan, snapshot, report, pc, tx>>

----------------------------------------------------------------------------
Fault(w) == Crash(w) \/ DatabaseError(w) \/ LoseConnection(w) \/ Shutdown(w)

Next ==
  \/ \E j \in Jobs : Submit(j)
  \/ Tick
  \/ \E w \in Workers :
       \/ StartLoop(w) \/ StartDrain(w) \/ DrainDone(w) \/ Recover(w)
       \/ Lease(w) \/ Resolve(w) \/ Commit(w) \/ NoticeLostConnection(w)
       \/ Fault(w)

Spec == Init /\ [][Next]_vars

\* Supervisors and the cron restart a stopped worker, and a running one goes on.
Fairness ==
  /\ WF_vars(Tick)
  /\ \A w \in Workers :
       /\ WF_vars(StartLoop(w)) /\ WF_vars(StartDrain(w)) /\ WF_vars(DrainDone(w))
       /\ WF_vars(Recover(w)) /\ WF_vars(Lease(w)) /\ WF_vars(Resolve(w))
       /\ WF_vars(Commit(w)) /\ WF_vars(NoticeLostConnection(w))

FairSpec == Spec /\ Fairness

----------------------------------------------------------------------------
(* What the queue promises. *)

TypeOK ==
  /\ job \in [Jobs -> JobRow]
  /\ scan \in [Jobs -> ScanStatus]
  /\ snapshot \in [Jobs -> Nat]
  /\ report \in [Jobs -> Nat]
  /\ pc \in [Workers -> {"down", "idle"} \cup Busy]
  /\ tx \in [Workers -> Session \cup {NoTx}]

\* "The row lock is held for the whole scan - no other worker can double-process
\* it" (worker.py:3): two sessions the database still knows hold different jobs.
\* The comment says more: a worker whose connection is lost runs the pipeline to
\* its end beside the next holder.  That nothing comes of it is PublishedOnce.
OneSessionPerJob ==
  \A v, w \in Workers :
    v # w /\ tx[v] # NoTx /\ tx[w] # NoTx /\ tx[v].live /\ tx[w].live => tx[v].job # tx[w].job

\* persist_scan_result publishes all or nothing, once: a scan shown as
\* completed or partial has exactly one report, resting on one snapshot, and no
\* other scan has a report, whatever workers died or ran the job twice.
PublishedOnce ==
  \A j \in Jobs :
    /\ report[j] = IF scan[j] \in Published THEN 1 ELSE 0
    /\ report[j] <= snapshot[j] /\ snapshot[j] <= 1

\* The two status machines agree in every committed state: a waiting job's scan
\* is undecided, a finished job's scan is decided, and only a scan without a
\* report belongs to a dead job.
JobTellsScan ==
  \A j \in Jobs :
    /\ job[j].status = "absent" <=> scan[j] = "absent"
    /\ job[j].status \in {"queued", "running"} <=> scan[j] \in {"queued", "crawling"}
    /\ job[j].status = "dead" => scan[j] = "failed"

\* lease_next_job never needs to look at max_attempts: a job that is queued has
\* an attempt left.
QueuedHasAttemptLeft ==
  \A j \in Jobs : job[j].status = "queued" => job[j].attempt < MaxAttempts

\* A lease is never committed, so no crash of these workers leaves a `running`
\* row for recover_stale_jobs to find: it serves only rows that were there before.
OnlyStrandedRun ==
  \A j \in Jobs : job[j].status = "running" => j \in Stranded

\* Once the browser has been told completed, partial or failed it stops polling:
\* no step changes a decided scan, its report or its job any more.
DecidedForGood ==
  [][\A j \in Jobs : scan[j] \in Decided =>
       /\ scan'[j] = scan[j] /\ report'[j] = report[j] /\ snapshot'[j] = snapshot[j]
       /\ job'[j] = job[j]]_vars

\* If workers eventually stop failing, every scan that was accepted is decided:
\* retries end, locks are freed, and an old job cannot hold up the younger ones.
FaultsEnd == <>[][\A w \in Workers : ~Fault(w)]_vars
EveryScanIsDecided ==
  FaultsEnd => \A j \in Jobs :
    job[j].status \in {"queued", "running"} ~> scan[j] \in Decided

\* The tables seen as the abstract service: running rows were left by workers
\* that are gone, so to the outside they wait like queued ones.
ServiceState == [j \in Jobs |->
  IF job[j].status = "absent" THEN "new"
  ELSE IF job[j].status \in {"queued", "running"} THEN "waiting"
  ELSE IF scan[j] \in Published THEN "answered" ELSE "failed"]
ServiceTries == [j \in Jobs |-> job[j].attempt]

Service == INSTANCE ScanService WITH
  Scans <- Jobs, state <- ServiceState, tries <- ServiceTries, reports <- report

\* The queue with its workers, sessions, crashes and recovery implements the
\* service the web side relies on: no try is recorded twice or skipped, none is
\* recorded after the decision, and a report appears exactly with the answer.
ImplementsService == Service!Spec

----------------------------------------------------------------------------
(* What comments say and the code does not do; each is refuted by a run. *)

\* loop.py:12 "a failure marks that scan failed and dead-letters the job without
\* stopping the loop": a loop worker that leaves a job recorded something of it.
FailureIsRecorded ==
  [][\A w \in LoopWorkers : pc[w] \in Busy /\ tx[w].live /\ pc'[w] = "idle" =>
       job'[tx[w].job] # job[tx[w].job]]_vars

\* queue.py:73 "the worker crashed or was killed [...] Requeue it until
\* max_attempts is reached, then dead-letter it and fail its scan so the UI stops
\* waiting": whatever the crashes, an accepted scan is decided in the end.
OnlyCrashes == <>[][\A w \in Workers : Fault(w) => Crash(w)]_vars
CrashesAreDeadLettered ==
  OnlyCrashes => \A j \in Jobs : job[j].status = "queued" ~> scan[j] \in Decided
=============================================================================
