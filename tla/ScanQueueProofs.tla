-------------------------- MODULE ScanQueueProofs --------------------------
(***************************************************************************)
(* Proofs about ScanQueue, for any number of jobs, workers, attempts and   *)
(* ticks, and for any set of stranded rows.                                *)
(***************************************************************************)
EXTENDS ScanQueue, TLAPS

\* A worker has a session exactly while it is busy.
BusyHasSession == \A w \in Workers : pc[w] \in Busy <=> tx[w] # NoTx

\* What a live session knows of the tables stays true while it lives: its row
\* lock keeps everybody else away from the job, and so from the scan.
LiveSessionIsCurrent ==
  \A w \in Workers : tx[w] # NoTx /\ tx[w].live =>
    /\ job[tx[w].job].status = "queued"
    /\ tx[w].row.attempt = job[tx[w].job].attempt + 1

\* The three kinds of ending a session is about to commit.
Requeues(s)  == /\ s.row.status = "queued" /\ s.row.attempt < MaxAttempts
                /\ s.scan = "queued" /\ s.snapshot = 0 /\ s.report = 0
Publishes(s) == /\ s.row.status = "succeeded" /\ s.row.wait = 0
                /\ s.scan \in Published /\ s.snapshot = 1 /\ s.report = 1
Fails(s)     == /\ s.row.status \in {"succeeded", "dead"} /\ s.row.wait = 0
                /\ s.scan = "failed" /\ s.report = 0
EndingsAreSound ==
  \A w \in Workers : pc[w] = "committing" =>
    Requeues(tx[w]) \/ Publishes(tx[w]) \/ Fails(tx[w])

\* Nothing is stored for a scan before its decision.
NothingStoredEarly ==
  \A j \in Jobs : scan[j] \notin Decided => snapshot[j] = 0

\* Only a queued job waits, and only a submitted one has been tried.
QuietRows ==
  \A j \in Jobs : /\ job[j].status # "queued" => job[j].wait = 0
                  /\ job[j].status = "absent" => job[j].attempt = 0

IInv ==
  /\ TypeOK
  /\ BusyHasSession
  /\ OneSessionPerJob
  /\ LiveSessionIsCurrent
  /\ EndingsAreSound
  /\ NothingStoredEarly
  /\ QuietRows
  /\ PublishedOnce
  /\ JobTellsScan
  /\ QueuedHasAttemptLeft
  /\ OnlyStrandedRun

----------------------------------------------------------------------------
\* The backoff of mark_for_retry is a number of ticks, never above RetryMax.
LEMMA RetryDelayType ==
  ASSUME NEW a \in 1..MaxAttempts
  PROVE  retry_delay(a) \in Nat /\ retry_delay(a) <= RetryMax
<1> DEFINE e == IF a > 1 THEN a - 1 ELSE 0
<1>1. e \in 0..MaxAttempts
  BY MaxAttemptsIsPos
<1>2. 2^e \in Nat
  BY <1>1, PowersAreNat
<1>3. RetryBase * 2^e \in Nat
  BY <1>2, TicksAreNat
<1> QED
  BY <1>3, TicksAreNat DEF retry_delay

\* A job row and its columns.
LEMMA RowColumns ==
  ASSUME NEW r \in JobRow
  PROVE  /\ r.status \in JobStatus
         /\ r.attempt \in Nat /\ r.attempt \in 0..MaxAttempts
         /\ r.wait \in Nat
         /\ r.lease \in Nat /\ r.lease \in 0..LeaseTicks
         /\ r = [status |-> r.status, attempt |-> r.attempt, wait |-> r.wait, lease |-> r.lease]
BY MaxAttemptsIsPos, TicksAreNat DEF JobRow

----------------------------------------------------------------------------
\* The invariant holds of the tables as the model finds them.
LEMMA InitInv == Init => IInv
<1> SUFFICES ASSUME Init PROVE IInv
  OBVIOUS
<1> USE MaxAttemptsIsPos, TicksAreNat, StrandedAreJobs
<1>1. \A j \in Jobs : IF j \in Stranded THEN job[j] \in StrandedRows ELSE job[j] = NoRow
  BY DEF Init
<1>2. NoRow \in JobRow /\ StrandedRows \subseteq JobRow
  BY DEF NoRow, StrandedRows, JobRow, JobStatus
<1>3. TypeOK
  BY <1>2 DEF Init, TypeOK, ScanStatus
<1>4. /\ BusyHasSession /\ OneSessionPerJob /\ LiveSessionIsCurrent /\ EndingsAreSound
  BY DEF Init, BusyHasSession, OneSessionPerJob, LiveSessionIsCurrent, EndingsAreSound, Busy
<1>5. NothingStoredEarly /\ PublishedOnce
  BY DEF Init, NothingStoredEarly, PublishedOnce, Decided, Published
<1>6. JobTellsScan /\ QuietRows /\ QueuedHasAttemptLeft /\ OnlyStrandedRun
  BY <1>1 DEF Init, JobTellsScan, QuietRows, QueuedHasAttemptLeft, OnlyStrandedRun,
              NoRow, StrandedRows
<1> QED
  BY <1>3, <1>4, <1>5, <1>6 DEF IInv

----------------------------------------------------------------------------
(* Steps of the web side, of time and of recovery: no session is opened or closed. *)

\* createQuickScan touches one row that no session works on.
LEMMA SubmitInv ==
  ASSUME IInv, NEW j \in Jobs, Submit(j)
  PROVE  IInv'
<1> USE DEF IInv, Submit
<1>1. QueuedRow \in JobRow
  BY MaxAttemptsIsPos, TicksAreNat DEF QueuedRow, JobRow, JobStatus
<1>2. TypeOK'
  BY <1>1 DEF TypeOK, ScanStatus
<1>3. BusyHasSession' /\ OneSessionPerJob'
  BY DEF BusyHasSession, OneSessionPerJob
<1>4. LiveSessionIsCurrent'
  <2>1. \A w \in Workers : tx[w] # NoTx /\ tx[w].live => tx[w].job \in Jobs \ {j}
    BY DEF LiveSessionIsCurrent, TypeOK, Session
  <2> QED
    BY <2>1 DEF LiveSessionIsCurrent, TypeOK
<1>5. EndingsAreSound'
  BY DEF EndingsAreSound, Requeues, Publishes, Fails
<1>6. NothingStoredEarly' /\ PublishedOnce'
  <2>1. scan[j] = "absent" /\ scan' = [scan EXCEPT ![j] = "queued"]
    BY DEF JobTellsScan
  <2>2. scan \in [Jobs -> ScanStatus] /\ UNCHANGED <<snapshot, report>>
    BY DEF TypeOK
  <2> QED
    BY <2>1, <2>2 DEF NothingStoredEarly, PublishedOnce, Decided, Published
<1>7. QuietRows' /\ JobTellsScan'
  BY DEF QuietRows, JobTellsScan, TypeOK, QueuedRow
<1>8. QueuedHasAttemptLeft' /\ OnlyStrandedRun'
  BY MaxAttemptsIsPos DEF QueuedHasAttemptLeft, OnlyStrandedRun, TypeOK, QueuedRow
<1> QED
  BY <1>2, <1>3, <1>4, <1>5, <1>6, <1>7, <1>8

\* A second passes for one row: only its two counters go down.
LEMMA TickedRow ==
  ASSUME IInv, Tick, NEW j \in Jobs
  PROVE  /\ job'[j] \in JobRow
         /\ job'[j].status = job[j].status
         /\ job'[j].attempt = job[j].attempt
         /\ job[j].wait = 0 => job'[j].wait = 0
         /\ job[j].status \notin {"queued", "running"} => job'[j] = job[j]
<1> DEFINE wait  == IF job[j].wait > 0 THEN job[j].wait - 1 ELSE 0
           lease == IF job[j].lease > 0 /\ job[j].status = "running"
                      THEN job[j].lease - 1 ELSE job[j].lease
<1>1. job[j] \in JobRow
  BY DEF IInv, TypeOK
<1>2. /\ wait \in Nat /\ lease \in 0..LeaseTicks /\ (job[j].wait = 0 => wait = 0)
      /\ job[j].status # "running" => lease = job[j].lease
  BY <1>1, RowColumns, TicksAreNat
<1>3. job'[j] = [job[j] EXCEPT !.wait = wait, !.lease = lease]
  BY DEF Tick
<1>4. job[j].status \notin {"queued", "running"} => wait = job[j].wait
  BY <1>2 DEF IInv, QuietRows
<1> HIDE DEF wait, lease
<1>5. job'[j] = [status |-> job[j].status, attempt |-> job[j].attempt,
                 wait |-> wait, lease |-> lease]
  BY <1>1, <1>3 DEF JobRow
<1> QED
  BY <1>1, <1>2, <1>4, <1>5, RowColumns DEF JobRow

\* The passing of time keeps the invariant: no session reads wait or lease again.
LEMMA TickInv ==
  ASSUME IInv, Tick
  PROVE  IInv'
<1>0. UNCHANGED <<scan, snapshot, report, pc, tx>> /\ job' = [j \in Jobs |-> job'[j]]
  BY DEF Tick
<1> USE <1>0 DEF IInv
<1>1. \A j \in Jobs :
        /\ job'[j] \in JobRow
        /\ job'[j].status = job[j].status
        /\ job'[j].attempt = job[j].attempt
        /\ job[j].wait = 0 => job'[j].wait = 0
  BY TickedRow
<1>2. TypeOK'
  BY <1>1 DEF TypeOK
<1>3. BusyHasSession' /\ OneSessionPerJob'
  BY DEF BusyHasSession, OneSessionPerJob
<1>4. LiveSessionIsCurrent'
  <2>1. \A w \in Workers : tx[w] # NoTx => tx[w].job \in Jobs
    BY DEF TypeOK, Session
  <2> QED
    BY <1>1, <2>1 DEF LiveSessionIsCurrent
<1>5. EndingsAreSound'
  BY DEF EndingsAreSound, Requeues, Publishes, Fails
<1>6. NothingStoredEarly' /\ PublishedOnce'
  BY DEF NothingStoredEarly, PublishedOnce
<1>7. QuietRows' /\ JobTellsScan' /\ QueuedHasAttemptLeft' /\ OnlyStrandedRun'
  BY <1>1 DEF QuietRows, JobTellsScan, QueuedHasAttemptLeft, OnlyStrandedRun
<1> QED
  BY <1>2, <1>3, <1>4, <1>5, <1>6, <1>7

\* What recover_stale_jobs does to one row.
LEMMA RecoveredRow ==
  ASSUME IInv, RecoverStaleJobs, NEW j \in Jobs
  PROVE  /\ job'[j] \in JobRow
         /\ \/ /\ job'[j] = job[j] /\ scan'[j] = scan[j]
            \/ /\ job[j].status = "running" /\ job'[j].status = "queued"
               /\ job'[j].attempt = job[j].attempt /\ job[j].attempt < MaxAttempts
               /\ scan[j] \in {"queued", "crawling"} /\ scan'[j] = scan[j]
            \/ /\ job[j].status = "running" /\ job'[j].status = "dead"
               /\ job'[j].attempt = job[j].attempt /\ job[j].attempt = MaxAttempts
               /\ job'[j].wait = 0
               /\ scan[j] \in {"queued", "crawling"} /\ scan'[j] = "failed"
<1>1. job[j] \in JobRow /\ job[j].status # "running" => j \notin Stale
  BY DEF IInv, TypeOK, Stale
<1>2. /\ job[j].status \in JobStatus /\ job[j].attempt \in 0..MaxAttempts
      /\ job[j].wait \in Nat /\ job[j].lease \in 0..LeaseTicks
      /\ MaxAttempts \in Nat /\ LeaseTicks \in Nat
  BY RowColumns, MaxAttemptsIsPos, TicksAreNat DEF IInv, TypeOK
<1>3. CASE j \notin Stale
  BY <1>3 DEF RecoverStaleJobs, Exhausted, IInv, TypeOK
<1>4. ASSUME j \in Stale
      PROVE  job[j] \in JobRow /\ job[j].status = "running" /\ job[j].wait = 0
             /\ scan[j] \in {"queued", "crawling"}
  BY <1>4 DEF Stale, IInv, JobTellsScan, TypeOK, QuietRows
<1>5. CASE j \in Stale /\ job[j].attempt < MaxAttempts
  <2>1. j \notin Exhausted
    BY <1>2, <1>5 DEF Exhausted
  <2>2. job'[j] = [job[j] EXCEPT !.status = "queued", !.lease = 0, !.wait = 0]
        /\ scan'[j] = scan[j]
    BY <1>5, <2>1 DEF RecoverStaleJobs
  <2>3. job'[j] = [status |-> "queued", attempt |-> job[j].attempt, wait |-> 0, lease |-> 0]
    BY <1>4, <1>5, <2>2 DEF JobRow
  <2>4. job'[j] \in JobRow
    BY <1>2, <2>3 DEF JobRow, JobStatus
  <2> QED
    BY <1>4, <1>5, <2>2, <2>3, <2>4
<1>6. CASE j \in Stale /\ job[j].attempt >= MaxAttempts
  <2>1. j \in Exhausted
    BY <1>6 DEF Exhausted
  <2>2. job'[j] = [job[j] EXCEPT !.status = "dead"] /\ scan'[j] = "failed"
    BY <1>4, <1>6, <2>1 DEF RecoverStaleJobs
  <2> QED
    BY <1>2, <1>4, <1>6, <2>2 DEF JobRow, JobStatus
<1> QED
  BY <1>2, <1>3, <1>5, <1>6

\* recover_stale_jobs keeps the invariant: the rows it changes belong to no session.
LEMMA RecoverInv ==
  ASSUME IInv, RecoverStaleJobs, UNCHANGED tx,
         \A w \in Workers : pc'[w] \in Busy <=> pc[w] \in Busy,
         \A w \in Workers : pc[w] \in Busy => pc'[w] = pc[w],
         pc' \in [Workers -> {"down", "idle"} \cup Busy]
  PROVE  IInv'
<1> USE DEF IInv
<1>2. \A j \in Jobs : job'[j] \in JobRow /\ scan'[j] \in ScanStatus
  BY RecoveredRow DEF TypeOK, ScanStatus
<1>3. TypeOK'
  BY <1>2 DEF TypeOK, RecoverStaleJobs
<1>4. BusyHasSession' /\ OneSessionPerJob'
  BY DEF BusyHasSession, OneSessionPerJob
<1>5. LiveSessionIsCurrent'
  <2> SUFFICES ASSUME NEW w \in Workers, tx[w] # NoTx, tx[w].live
               PROVE  job'[tx[w].job] = job[tx[w].job]
    BY DEF LiveSessionIsCurrent
  <2>1. tx[w].job \in Jobs /\ job[tx[w].job].status = "queued"
    BY DEF LiveSessionIsCurrent, TypeOK, Session
  <2> QED
    BY <2>1, RecoveredRow
<1>6. EndingsAreSound'
  BY DEF EndingsAreSound, Requeues, Publishes, Fails, Busy
<1>7. NothingStoredEarly' /\ PublishedOnce'
  <2> SUFFICES ASSUME NEW j \in Jobs
               PROVE  /\ scan'[j] \notin Decided => snapshot[j] = 0
                      /\ report[j] = IF scan'[j] \in Published THEN 1 ELSE 0
    BY DEF NothingStoredEarly, PublishedOnce, RecoverStaleJobs
  <2> QED
    BY RecoveredRow DEF NothingStoredEarly, PublishedOnce, Decided, Published
<1>8. QuietRows' /\ JobTellsScan' /\ QueuedHasAttemptLeft' /\ OnlyStrandedRun'
  <2> SUFFICES ASSUME NEW j \in Jobs
               PROVE  /\ job'[j].status # "queued" => job'[j].wait = 0
                      /\ job'[j].status = "absent" => job'[j].attempt = 0
                      /\ job'[j].status = "absent" <=> scan'[j] = "absent"
                      /\ job'[j].status \in {"queued", "running"}
                           <=> scan'[j] \in {"queued", "crawling"}
                      /\ job'[j].status = "dead" => scan'[j] = "failed"
                      /\ job'[j].status = "queued" => job'[j].attempt < MaxAttempts
                      /\ job'[j].status = "running" => j \in Stranded
    BY DEF QuietRows, JobTellsScan, QueuedHasAttemptLeft, OnlyStrandedRun
  <2>1. CASE job'[j] = job[j] /\ scan'[j] = scan[j]
    BY <2>1 DEF QuietRows, JobTellsScan, QueuedHasAttemptLeft, OnlyStrandedRun
  <2> QED
    BY <2>1, RecoveredRow
<1> QED
  BY <1>3, <1>4, <1>5, <1>6, <1>7, <1>8

----------------------------------------------------------------------------
(* Steps of one worker.  Each changes the session of that worker alone. *)

TablePart ==
  /\ NothingStoredEarly /\ QuietRows /\ PublishedOnce
  /\ JobTellsScan /\ QueuedHasAttemptLeft /\ OnlyStrandedRun

\* A step that leaves the tables alone leaves alone what the invariant says of them alone.
LEMMA TablesKept ==
  ASSUME IInv, UNCHANGED db
  PROVE  TablePart'
BY DEF IInv, db, TablePart, NothingStoredEarly, QuietRows, PublishedOnce, JobTellsScan,
       QueuedHasAttemptLeft, OnlyStrandedRun

\* lease_next_job keeps the invariant: the row it takes is nobody's, and has an attempt left.
LEMMA LeaseInv ==
  ASSUME IInv, NEW w \in Workers, Lease(w)
  PROVE  IInv'
<1> USE DEF IInv
<1>1. PICK j \in Jobs : j \in Ready /\ tx' = [tx EXCEPT ![w] = Leased(j)]
  BY DEF Lease, Oldest
<1>2. UNCHANGED db /\ pc[w] = "idle" /\ pc' = [pc EXCEPT ![w] = "crawling"]
  BY DEF Lease
<1>3. /\ job[j].status = "queued" /\ job[j] \in JobRow /\ job[j].attempt < MaxAttempts
      /\ \A v \in Workers : tx[v] # NoTx /\ tx[v].live => tx[v].job # j
  BY <1>1 DEF Ready, Locked, TypeOK, QueuedHasAttemptLeft
<1>4. Leased(j).row \in JobRow
  BY <1>3, RowColumns, MaxAttemptsIsPos, TicksAreNat DEF Leased, JobRow, JobStatus
<1>5. /\ Leased(j) \in Session /\ Leased(j).job = j
      /\ Leased(j).row.attempt = job[j].attempt + 1
  BY <1>4 DEF Leased, Session, ScanStatus
<1>6. Leased(j) # NoTx
  BY <1>5, NoTxIsNoSession
<1>7. TypeOK'
  BY <1>1, <1>2, <1>5 DEF TypeOK, db, Busy
<1>8. BusyHasSession'
  BY <1>1, <1>2, <1>6 DEF BusyHasSession, TypeOK, Busy
<1>9. OneSessionPerJob'
  BY <1>1, <1>3, <1>5 DEF OneSessionPerJob, TypeOK
<1>10. LiveSessionIsCurrent'
  BY <1>1, <1>2, <1>3, <1>5 DEF LiveSessionIsCurrent, TypeOK, db
<1>11. EndingsAreSound'
  BY <1>1, <1>2 DEF EndingsAreSound, Requeues, Publishes, Fails, TypeOK
<1> QED
  BY <1>2, <1>7, <1>8, <1>9, <1>10, <1>11, TablesKept DEF TablePart

\* process_one has ended the job in one of the three ways.
LEMMA FinishInv ==
  ASSUME IInv, NEW w \in Workers,
         NEW status \in JobStatus, NEW wait \in Nat, NEW s \in ScanStatus,
         NEW added \in [snapshot : {0, 1}, report : {0, 1}],
         Finish(w, status, wait, s, added),
         \/ status = "queued" /\ s = "queued" /\ added = Nothing
              /\ tx[w].row.attempt < MaxAttempts
         \/ status = "succeeded" /\ s \in Published /\ added = Full /\ wait = 0
         \/ status \in {"succeeded", "dead"} /\ s = "failed" /\ added.report = 0 /\ wait = 0
  PROVE  IInv'
<1> USE DEF IInv
<1> DEFINE row == [status |-> status, attempt |-> tx[w].row.attempt, wait |-> wait,
                   lease |-> IF status = "queued" THEN 0 ELSE tx[w].row.lease]
           t   == [job |-> tx[w].job, live |-> TRUE, row |-> row, scan |-> s,
                   snapshot |-> added.snapshot, report |-> added.report]
<1>1. /\ pc[w] = "crawling" /\ tx[w].live /\ UNCHANGED db
      /\ tx' = [tx EXCEPT ![w] = t]
      /\ pc' = [pc EXCEPT ![w] = "committing"]
  BY DEF Finish
<1>2. tx[w] # NoTx /\ tx[w] \in Session
  BY <1>1 DEF BusyHasSession, Busy, TypeOK
<1>3. tx[w].row \in JobRow /\ tx[w].job \in Jobs
  BY <1>2 DEF Session
<1>4. row \in JobRow
  BY <1>3, RowColumns, TicksAreNat DEF JobRow
<1>5. t \in Session
  BY <1>3, <1>4 DEF Session
<1>6. t # NoTx
  BY <1>5, NoTxIsNoSession
<1>7. Requeues(t) \/ Publishes(t) \/ Fails(t)
  BY DEF Requeues, Publishes, Fails, Nothing, Full
<1>8. t.job = tx[w].job /\ t.live /\ t.row.attempt = tx[w].row.attempt
  OBVIOUS
<1> HIDE DEF t, row
<1>9. TypeOK'
  BY <1>1, <1>5 DEF TypeOK, db, Busy
<1>10. BusyHasSession'
  BY <1>1, <1>6 DEF BusyHasSession, TypeOK, Busy
<1>11. OneSessionPerJob'
  BY <1>1, <1>2, <1>8 DEF OneSessionPerJob, TypeOK
<1>12. LiveSessionIsCurrent'
  BY <1>1, <1>2, <1>8 DEF LiveSessionIsCurrent, TypeOK, db
<1>13. EndingsAreSound'
  BY <1>1, <1>7 DEF EndingsAreSound, Requeues, Publishes, Fails, TypeOK
<1> QED
  BY <1>1, <1>9, <1>10, <1>11, <1>12, <1>13, TablesKept DEF TablePart

\* Every way process_one can end a job keeps the invariant: each is a sound ending.
LEMMA ResolveInv ==
  ASSUME IInv, NEW w \in Workers, Resolve(w)
  PROVE  IInv'
<1> USE DEF JobStatus, ScanStatus, Published, Nothing, Analysis, Full
<1>1. CASE PersistResult(w)
  BY <1>1, FinishInv DEF PersistResult
<1>2. CASE NoPages(w)
  BY <1>2, FinishInv DEF NoPages
<1>3. CASE RetryTransportError(w)
  <2>1. tx[w].row \in JobRow
    BY <1>3 DEF RetryTransportError, IInv, TypeOK, Session
  <2>2. pc[w] = "crawling" /\ tx[w].live
    BY <1>3 DEF RetryTransportError, Finish
  <2>3. tx[w].row.attempt \in 1..MaxAttempts
    <3>1. tx[w] \in Session /\ tx[w].job \in Jobs
      BY <1>3 DEF RetryTransportError, IInv, TypeOK, Session
    <3>2. tx[w].row.attempt = job[tx[w].job].attempt + 1
      BY <1>3, <2>2 DEF RetryTransportError, IInv, LiveSessionIsCurrent
    <3>3. job[tx[w].job].attempt \in Nat /\ tx[w].row.attempt \in 0..MaxAttempts
      BY <2>1, <3>1, RowColumns DEF IInv, TypeOK
    <3> QED
      BY <3>2, <3>3, MaxAttemptsIsPos
  <2>4. retry_delay(tx[w].row.attempt) \in Nat
    BY <2>3, RetryDelayType
  <2> QED
    BY <1>3, <2>4, FinishInv DEF RetryTransportError
<1>4. CASE GiveUpTransportError(w)
  BY <1>4, FinishInv DEF GiveUpTransportError
<1>5. CASE TerminalError(w)
  BY <1>5, FinishInv DEF TerminalError
<1> QED
  BY <1>1, <1>2, <1>3, <1>4, <1>5 DEF Resolve

\* A commit decides or requeues the session's job, which was still waiting, and
\* touches no other.
LEMMA CommitEffect ==
  ASSUME IInv, NEW w \in Workers, Commit(w)
  PROVE  LET k == tx[w].job IN
         /\ k \in Jobs /\ tx[w] \in Session /\ tx[w] # NoTx /\ tx[w].live
         /\ job[k].status = "queued" /\ scan[k] \in {"queued", "crawling"}
         /\ job[k].attempt < MaxAttempts /\ tx[w].row.attempt = job[k].attempt + 1
         /\ snapshot[k] = 0 /\ report[k] = 0
         /\ job'[k] = tx[w].row /\ scan'[k] = tx[w].scan
         /\ snapshot'[k] = tx[w].snapshot /\ report'[k] = tx[w].report
         /\ Requeues(tx[w]) \/ Publishes(tx[w]) \/ Fails(tx[w])
         /\ \A j \in Jobs \ {k} : job'[j] = job[j] /\ scan'[j] = scan[j]
                                   /\ snapshot'[j] = snapshot[j] /\ report'[j] = report[j]
<1> USE DEF IInv
<1> DEFINE k == tx[w].job
<1>1. /\ pc[w] = "committing" /\ tx[w].live
      /\ job' = [job EXCEPT ![k] = tx[w].row]
      /\ scan' = [scan EXCEPT ![k] = tx[w].scan]
      /\ snapshot' = [snapshot EXCEPT ![k] = @ + tx[w].snapshot]
      /\ report' = [report EXCEPT ![k] = @ + tx[w].report]
      /\ pc' = [pc EXCEPT ![w] = "idle"]
      /\ tx' = [tx EXCEPT ![w] = NoTx]
  BY DEF Commit, Publish
<1>2. tx[w] # NoTx /\ tx[w] \in Session
  BY <1>1 DEF BusyHasSession, Busy, TypeOK
<1>3. /\ k \in Jobs /\ tx[w].row \in JobRow /\ tx[w].scan \in ScanStatus
      /\ tx[w].snapshot \in {0, 1} /\ tx[w].report \in {0, 1}
  BY <1>2 DEF Session
<1>4. job[k].status = "queued" /\ scan[k] \in {"queued", "crawling"}
      /\ snapshot[k] = 0 /\ report[k] = 0
  BY <1>1, <1>2, <1>3 DEF LiveSessionIsCurrent, JobTellsScan, NothingStoredEarly, PublishedOnce,
                          Decided, Published
<1>5. Requeues(tx[w]) \/ Publishes(tx[w]) \/ Fails(tx[w])
  BY <1>1 DEF EndingsAreSound
<1>6. \A j \in Jobs \ {k} : job'[j] = job[j] /\ scan'[j] = scan[j]
                             /\ snapshot'[j] = snapshot[j] /\ report'[j] = report[j]
  BY <1>1, <1>3 DEF TypeOK
<1>7. job'[k] = tx[w].row /\ scan'[k] = tx[w].scan
      /\ snapshot'[k] = tx[w].snapshot /\ report'[k] = tx[w].report
  BY <1>1, <1>3, <1>4 DEF TypeOK
<1>8. job[k].attempt < MaxAttempts /\ tx[w].row.attempt = job[k].attempt + 1
  BY <1>1, <1>2, <1>3, <1>4 DEF LiveSessionIsCurrent, QueuedHasAttemptLeft
<1> QED
  BY <1>1, <1>2, <1>3, <1>4, <1>5, <1>6, <1>7, <1>8

\* The commit keeps the invariant: a sound ending of a current session becomes a sound row.
LEMMA CommitInv ==
  ASSUME IInv, NEW w \in Workers, Commit(w)
  PROVE  IInv'
<1> USE DEF IInv
<1> DEFINE k == tx[w].job
<1>1. /\ tx[w].live
      /\ job' = [job EXCEPT ![k] = tx[w].row]
      /\ scan' = [scan EXCEPT ![k] = tx[w].scan]
      /\ snapshot' = [snapshot EXCEPT ![k] = @ + tx[w].snapshot]
      /\ report' = [report EXCEPT ![k] = @ + tx[w].report]
      /\ pc' = [pc EXCEPT ![w] = "idle"]
      /\ tx' = [tx EXCEPT ![w] = NoTx]
  BY DEF Commit, Publish
<1>2. tx[w] # NoTx /\ tx[w] \in Session /\ k \in Jobs
  BY CommitEffect
<1>3. /\ tx[w].row \in JobRow /\ tx[w].scan \in ScanStatus
      /\ tx[w].snapshot \in {0, 1} /\ tx[w].report \in {0, 1}
  BY <1>2 DEF Session
<1>5. Requeues(tx[w]) \/ Publishes(tx[w]) \/ Fails(tx[w])
  BY CommitEffect
<1>6. \A j \in Jobs \ {k} : job'[j] = job[j] /\ scan'[j] = scan[j]
                             /\ snapshot'[j] = snapshot[j] /\ report'[j] = report[j]
  BY CommitEffect
<1>7. job'[k] = tx[w].row /\ scan'[k] = tx[w].scan
      /\ snapshot'[k] = tx[w].snapshot /\ report'[k] = tx[w].report
  BY CommitEffect
<1>8. \A v \in Workers \ {w} : tx[v] # NoTx /\ tx[v].live => tx[v].job \in Jobs \ {k}
  BY <1>1, <1>2 DEF OneSessionPerJob, TypeOK, Session
<1>9. \A v \in Workers \ {w} : tx'[v] = tx[v] /\ pc'[v] = pc[v]
  BY <1>1 DEF TypeOK
<1>10. tx'[w] = NoTx /\ pc'[w] = "idle"
  BY <1>1 DEF TypeOK
<1>11. TypeOK'
  BY <1>1, <1>2, <1>3 DEF TypeOK, Busy
<1>12. BusyHasSession'
  BY <1>9, <1>10 DEF BusyHasSession, Busy
<1>13. OneSessionPerJob'
  BY <1>9, <1>10 DEF OneSessionPerJob
<1>14. LiveSessionIsCurrent'
  BY <1>6, <1>8, <1>9, <1>10 DEF LiveSessionIsCurrent
<1>15. EndingsAreSound'
  BY <1>9, <1>10 DEF EndingsAreSound, Requeues, Publishes, Fails
<1> HIDE DEF k
<1>16. NothingStoredEarly' /\ PublishedOnce'
  <2>1. /\ scan'[k] \notin Decided => snapshot'[k] = 0
        /\ report'[k] = IF scan'[k] \in Published THEN 1 ELSE 0
        /\ report'[k] <= snapshot'[k] /\ snapshot'[k] <= 1
    BY <1>3, <1>5, <1>7 DEF Requeues, Publishes, Fails, Published, Decided
  <2> QED
    BY <1>6, <2>1 DEF NothingStoredEarly, PublishedOnce
<1>17. QuietRows' /\ QueuedHasAttemptLeft' /\ OnlyStrandedRun' /\ JobTellsScan'
  <2>1. /\ job'[k].status # "queued" => job'[k].wait = 0
        /\ job'[k].status = "queued" => job'[k].attempt < MaxAttempts
        /\ job'[k].status # "running" /\ job'[k].status # "absent" /\ scan'[k] # "absent"
        /\ job'[k].status = "queued" <=> scan'[k] = "queued"
        /\ scan'[k] # "crawling"
        /\ job'[k].status = "dead" => scan'[k] = "failed"
    BY <1>5, <1>7 DEF Requeues, Publishes, Fails, Published
  <2> QED
    BY <1>6, <2>1 DEF QuietRows, QueuedHasAttemptLeft, OnlyStrandedRun, JobTellsScan
<1> QED
  BY <1>11, <1>12, <1>13, <1>14, <1>15, <1>16, <1>17

\* A session that ends without a commit leaves the tables as they were.
LEMMA RollbackInv ==
  ASSUME IInv, NEW w \in Workers, NEW next \in {"idle", "down"},
         UNCHANGED db, tx' = [tx EXCEPT ![w] = NoTx], pc' = [pc EXCEPT ![w] = next]
  PROVE  IInv'
<1> USE DEF IInv
<1>1. \A v \in Workers \ {w} : tx'[v] = tx[v] /\ pc'[v] = pc[v]
  BY DEF TypeOK
<1>2. tx'[w] = NoTx /\ pc'[w] = next
  BY DEF TypeOK
<1>3. TypeOK'
  BY DEF TypeOK, db, Busy
<1>4. BusyHasSession'
  BY <1>1, <1>2 DEF BusyHasSession, Busy
<1>5. OneSessionPerJob'
  BY <1>1, <1>2 DEF OneSessionPerJob
<1>6. LiveSessionIsCurrent'
  BY <1>1, <1>2 DEF LiveSessionIsCurrent, db
<1>7. EndingsAreSound'
  BY <1>1, <1>2 DEF EndingsAreSound, Requeues, Publishes, Fails
<1> QED
  BY <1>3, <1>4, <1>5, <1>6, <1>7, TablesKept DEF TablePart

\* A lost connection keeps the invariant: the session keeps its changes to itself.
LEMMA LoseConnectionInv ==
  ASSUME IInv, NEW w \in Workers, LoseConnection(w)
  PROVE  IInv'
<1> USE DEF IInv
<1> DEFINE t == [tx[w] EXCEPT !.live = FALSE]
<1>1. pc[w] \in Busy /\ UNCHANGED <<db, pc>> /\ tx' = [tx EXCEPT ![w] = t]
  BY DEF LoseConnection, db
<1>2. tx[w] # NoTx /\ tx[w] \in Session
  BY <1>1 DEF BusyHasSession, TypeOK
<1>3. t \in Session /\ ~t.live
  BY <1>2 DEF Session
<1>4. t # NoTx
  BY <1>3, NoTxIsNoSession
<1>5. t.row = tx[w].row /\ t.scan = tx[w].scan /\ t.snapshot = tx[w].snapshot
      /\ t.report = tx[w].report
  BY <1>2 DEF Session
<1> HIDE DEF t
<1>6. \A v \in Workers \ {w} : tx'[v] = tx[v]
  BY <1>1 DEF TypeOK
<1>7. tx'[w] = t
  BY <1>1 DEF TypeOK
<1>8. TypeOK'
  BY <1>1, <1>3 DEF TypeOK, db, Busy
<1>9. BusyHasSession'
  BY <1>1, <1>2, <1>4, <1>6, <1>7 DEF BusyHasSession
<1>10. OneSessionPerJob'
  BY <1>3, <1>6, <1>7 DEF OneSessionPerJob
<1>11. LiveSessionIsCurrent'
  BY <1>1, <1>3, <1>6, <1>7 DEF LiveSessionIsCurrent, db
<1>12. EndingsAreSound'
  BY <1>1, <1>5, <1>6, <1>7 DEF EndingsAreSound, Requeues, Publishes, Fails
<1> QED
  BY <1>1, <1>8, <1>9, <1>10, <1>11, <1>12, TablesKept DEF TablePart

\* Starting and stopping between two jobs.
LEMMA LifecycleInv ==
  ASSUME IInv, NEW w \in Workers, NEW next \in {"idle", "down"},
         pc[w] \in {"idle", "down"}, pc' = [pc EXCEPT ![w] = next], UNCHANGED <<db, tx>>
  PROVE  IInv'
<1>1. tx[w] = NoTx
  BY DEF IInv, BusyHasSession, Busy
<1>2. tx' = [tx EXCEPT ![w] = NoTx]
  BY <1>1 DEF IInv, TypeOK
<1> QED
  BY <1>2, RollbackInv

----------------------------------------------------------------------------
\* The invariant is inductive.
LEMMA NextInv ==
  ASSUME IInv, [Next]_vars
  PROVE  IInv'
<1>1. CASE UNCHANGED vars
  <2>1. UNCHANGED <<job, scan, snapshot, report, pc, tx>>
    BY <1>1 DEF vars
  <2>2. TypeOK' /\ TablePart'
    BY <2>1, TablesKept DEF IInv, TypeOK, db
  <2>3. BusyHasSession' /\ OneSessionPerJob' /\ LiveSessionIsCurrent' /\ EndingsAreSound'
    BY <2>1 DEF IInv, BusyHasSession, OneSessionPerJob, LiveSessionIsCurrent,
                EndingsAreSound, Requeues, Publishes, Fails
  <2> QED
    BY <2>2, <2>3 DEF IInv, TablePart
<1>2. ASSUME NEW j \in Jobs, Submit(j) PROVE IInv'
  BY <1>2, SubmitInv
<1>3. CASE Tick
  BY <1>3, TickInv
<1>4. ASSUME NEW w \in Workers, StartLoop(w) \/ Shutdown(w) \/ DrainDone(w) PROVE IInv'
  BY <1>4, LifecycleInv DEF StartLoop, Shutdown, DrainDone, db
<1>5. ASSUME NEW w \in Workers, StartDrain(w) PROVE IInv'
  <2>1. RecoverStaleJobs /\ UNCHANGED tx /\ pc[w] = "down" /\ pc' = [pc EXCEPT ![w] = "idle"]
    BY <1>5 DEF StartDrain
  <2>2. pc \in [Workers -> {"down", "idle"} \cup Busy]
    BY DEF IInv, TypeOK
  <2> QED
    BY <2>1, <2>2, RecoverInv DEF Busy
<1>6. ASSUME NEW w \in Workers, Recover(w) PROVE IInv'
  <2>1. RecoverStaleJobs /\ UNCHANGED <<pc, tx>>
    BY <1>6 DEF Recover
  <2>2. pc \in [Workers -> {"down", "idle"} \cup Busy]
    BY DEF IInv, TypeOK
  <2> QED
    BY <2>1, <2>2, RecoverInv
<1>7. ASSUME NEW w \in Workers, Lease(w) PROVE IInv'
  BY <1>7, LeaseInv
<1>8. ASSUME NEW w \in Workers, Resolve(w) PROVE IInv'
  BY <1>8, ResolveInv
<1>9. ASSUME NEW w \in Workers, Commit(w) PROVE IInv'
  BY <1>9, CommitInv
<1>10. ASSUME NEW w \in Workers, DatabaseError(w) \/ NoticeLostConnection(w) PROVE IInv'
  BY <1>10, RollbackInv DEF DatabaseError, NoticeLostConnection, Abandon
<1>11. ASSUME NEW w \in Workers, Crash(w) PROVE IInv'
  BY <1>11, RollbackInv DEF Crash
<1>12. ASSUME NEW w \in Workers, LoseConnection(w) PROVE IInv'
  BY <1>12, LoseConnectionInv
<1> QED
  BY <1>1, <1>2, <1>3, <1>4, <1>5, <1>6, <1>7, <1>8, <1>9, <1>10, <1>11, <1>12 DEF Next, Fault

\* The inductive invariant holds throughout.
THEOREM Invariance == Spec => []IInv
<1>1. Init => IInv
  BY InitInv
<1>2. IInv /\ [Next]_vars => IInv'
  BY NextInv
<1> QED
  BY <1>1, <1>2, PTL DEF Spec

\* Rows, sessions and counters stay in their types; in particular no job is
\* tried more than max_attempts times by recorded attempts.
THEOREM TypeCorrect == Spec => []TypeOK
<1>1. IInv => TypeOK
  BY DEF IInv
<1> QED
  BY <1>1, Invariance, PTL

\* worker.py:3: while the database knows a session, no other works on its job.
THEOREM RowLockIsExclusive == Spec => []OneSessionPerJob
<1>1. IInv => OneSessionPerJob
  BY DEF IInv
<1> QED
  BY <1>1, Invariance, PTL

\* store.py: a published scan has one report and one snapshot, no other has a report.
THEOREM PublishesOnce == Spec => []PublishedOnce
<1>1. IInv => PublishedOnce
  BY DEF IInv
<1> QED
  BY <1>1, Invariance, PTL

\* worker.py, queue.py: the committed job and scan rows never contradict each other.
THEOREM StatusesAgree == Spec => []JobTellsScan
<1>1. IInv => JobTellsScan
  BY DEF IInv
<1> QED
  BY <1>1, Invariance, PTL

\* worker.py:48, queue.py:79: whatever queues a row again leaves it an attempt.
THEOREM QueuedCanBeLeased == Spec => []QueuedHasAttemptLeft
<1>1. IInv => QueuedHasAttemptLeft
  BY DEF IInv
<1> QED
  BY <1>1, Invariance, PTL

\* queue.py:70: lease recovery can only ever find rows that were there at the start.
THEOREM NoLeaseIsCommitted == Spec => []OnlyStrandedRun
<1>1. IInv => OnlyStrandedRun
  BY DEF IInv
<1> QED
  BY <1>1, Invariance, PTL

----------------------------------------------------------------------------
\* What a step does to one committed row: nothing, or one of these.
RowStep(j) ==
  \/ /\ job'[j].status = job[j].status /\ job'[j].attempt = job[j].attempt
     /\ job[j].status # "queued" /\ job[j].status # "running" => job'[j] = job[j]
     /\ scan'[j] = scan[j] /\ report'[j] = report[j] /\ snapshot'[j] = snapshot[j]
  \/ /\ job[j].status = "absent" /\ job'[j].status = "queued"
     /\ job'[j].attempt = job[j].attempt /\ report'[j] = report[j]
  \/ /\ job[j].status = "running" /\ job'[j].status = "queued"
     /\ job'[j].attempt = job[j].attempt /\ report'[j] = report[j]
  \/ /\ job[j].status = "running" /\ job'[j].status = "dead"
     /\ job'[j].attempt = job[j].attempt /\ job[j].attempt = MaxAttempts
     /\ scan'[j] = "failed" /\ report'[j] = report[j]
  \/ /\ job[j].status = "queued" /\ job[j].attempt < MaxAttempts
     /\ job'[j].attempt = job[j].attempt + 1
     /\ \/ /\ job'[j].status = "queued" /\ job'[j].attempt < MaxAttempts
           /\ report'[j] = report[j]
        \/ /\ job'[j].status = "succeeded" /\ scan'[j] \in Published
           /\ report'[j] = report[j] + 1
        \/ /\ job'[j].status \in {"succeeded", "dead"} /\ scan'[j] = "failed"
           /\ report'[j] = report[j]

\* Every step leaves the tables alone, submits, lets time pass, recovers or commits.
LEMMA StepKinds ==
  ASSUME IInv, [Next]_vars
  PROVE  \/ UNCHANGED db
         \/ \E j \in Jobs : Submit(j)
         \/ Tick
         \/ RecoverStaleJobs
         \/ \E w \in Workers : Commit(w)
<1>1. ASSUME NEW w \in Workers, Resolve(w) PROVE UNCHANGED db
  BY <1>1 DEF Resolve, PersistResult, NoPages, RetryTransportError, GiveUpTransportError,
              TerminalError, Finish
<1>2. ASSUME NEW w \in Workers, Fault(w) \/ NoticeLostConnection(w) PROVE UNCHANGED db
  BY <1>2 DEF Fault, Crash, DatabaseError, NoticeLostConnection, LoseConnection, Shutdown,
              Abandon, db
<1>3. ASSUME NEW w \in Workers, StartLoop(w) \/ DrainDone(w) \/ Lease(w) PROVE UNCHANGED db
  BY <1>3 DEF StartLoop, DrainDone, Lease, db
<1>4. ASSUME NEW w \in Workers, StartDrain(w) \/ Recover(w) PROVE RecoverStaleJobs
  BY <1>4 DEF StartDrain, Recover
<1>5. UNCHANGED vars => UNCHANGED db
  BY DEF vars, db
<1> QED
  BY <1>1, <1>2, <1>3, <1>4, <1>5 DEF Next

\* Every step is one of the few things that can happen to the rows of one job.
LEMMA RowSteps ==
  ASSUME IInv, [Next]_vars, NEW j \in Jobs
  PROVE  RowStep(j)
<1>0. job[j] \in JobRow
  BY DEF IInv, TypeOK
<1>1. CASE UNCHANGED db
  BY <1>1 DEF db, RowStep
<1>2. ASSUME NEW i \in Jobs, Submit(i) PROVE RowStep(j)
  <2>1. job[i].status = "absent" /\ job[i].attempt = 0
    BY <1>2 DEF Submit, IInv, QuietRows
  <2>2. CASE i = j
    BY <1>2, <2>1, <2>2 DEF Submit, RowStep, IInv, TypeOK, QueuedRow
  <2>3. CASE i # j
    BY <1>2, <2>3 DEF Submit, RowStep, IInv, TypeOK
  <2> QED
    BY <2>2, <2>3
<1>3. CASE Tick
  BY <1>3, TickedRow DEF Tick, RowStep
<1>4. CASE RecoverStaleJobs
  BY <1>4, RecoveredRow DEF RecoverStaleJobs, RowStep
<1>5. ASSUME NEW w \in Workers, Commit(w) PROVE RowStep(j)
  <2>1. CASE j = tx[w].job
    BY <1>5, <2>1, CommitEffect DEF RowStep, Requeues, Publishes, Fails
  <2>2. CASE j # tx[w].job
    BY <1>5, <2>2, CommitEffect DEF RowStep
  <2> QED
    BY <2>1, <2>2
<1> QED
  BY <1>1, <1>2, <1>3, <1>4, <1>5, StepKinds

\* A decided scan, its job and its report never change again.
THEOREM DecisionsAreFinal == Spec => DecidedForGood
<1> DEFINE Final == \A j \in Jobs : scan[j] \in Decided =>
       /\ scan'[j] = scan[j] /\ report'[j] = report[j] /\ snapshot'[j] = snapshot[j]
       /\ job'[j] = job[j]
<1>1. IInv /\ [Next]_vars => [Final]_vars
  <2> SUFFICES ASSUME IInv, [Next]_vars, NEW j \in Jobs, scan[j] \in Decided
               PROVE  /\ scan'[j] = scan[j] /\ report'[j] = report[j]
                      /\ snapshot'[j] = snapshot[j] /\ job'[j] = job[j]
    OBVIOUS
  <2>1. job[j].status \notin {"absent", "queued", "running"}
    BY DEF IInv, JobTellsScan, Decided, Published
  <2>2. RowStep(j)
    BY RowSteps
  <2> QED
    BY <2>1, <2>2 DEF RowStep
<1> QED
  BY <1>1, Invariance, PTL DEF Spec, DecidedForGood

----------------------------------------------------------------------------
(* The queue implements the service. *)

\* The tables as the model finds them are an initial state of the service.
LEMMA InitMaps == Init => Service!Init
<1> SUFFICES ASSUME Init PROVE Service!Init
  OBVIOUS
<1>1. \A j \in Jobs : IF j \in Stranded THEN job[j] \in StrandedRows ELSE job[j] = NoRow
  BY DEF Init
<1>2. \A j \in Jobs :
        /\ job[j].attempt \in 0..MaxAttempts
        /\ job[j].status \in {"absent", "running"}
        /\ job[j].attempt = 0 <=> job[j].status = "absent"
  BY <1>1, MaxAttemptsIsPos DEF StrandedRows, NoRow
<1> QED
  BY <1>2 DEF Init, Service!Init, ServiceState, ServiceTries

\* Requeued rows still wait; exhausted ones are given up together.
LEMMA RecoveryMaps ==
  ASSUME IInv, RecoverStaleJobs
  PROVE  Service!GiveUp(Exhausted)
<1>1. \A j \in Exhausted :
        j \in Jobs /\ job[j].status = "running" /\ job[j].attempt = MaxAttempts
  <2> SUFFICES ASSUME NEW j \in Exhausted
               PROVE  j \in Jobs /\ job[j].status = "running" /\ job[j].attempt = MaxAttempts
    OBVIOUS
  <2>1. j \in Jobs /\ job[j].status = "running" /\ job[j].attempt >= MaxAttempts
    BY DEF Exhausted, Stale
  <2>2. job[j].attempt \in 0..MaxAttempts
    BY <2>1, RowColumns DEF IInv, TypeOK
  <2> QED
    BY <2>1, <2>2, MaxAttemptsIsPos
<1>2. \A j \in Jobs : job'[j].attempt = job[j].attempt
  BY RecoveredRow
<1>3. ASSUME NEW j \in Jobs
      PROVE  ServiceState'[j] = IF j \in Exhausted THEN "failed" ELSE ServiceState[j]
  <2>1. CASE j \in Exhausted
    <3>1. job'[j] = [job[j] EXCEPT !.status = "dead"] /\ job[j] \in JobRow
      BY <2>1 DEF RecoverStaleJobs, IInv, TypeOK
    <3>2. job'[j].status = "dead"
      BY <3>1 DEF JobRow
    <3>3. scan'[j] = "failed"
      BY <3>2, <1>1, <2>1, RecoveredRow
    <3> QED
      BY <2>1, <3>2, <3>3 DEF ServiceState, Published
  <2>2. CASE j \notin Exhausted
    <3>1. job'[j].status # "dead" \/ (job'[j] = job[j] /\ scan'[j] = scan[j])
      <4>1. j \notin Stale => job'[j] = job[j] /\ scan'[j] = scan[j]
        BY <2>2 DEF RecoverStaleJobs, IInv, TypeOK
      <4>2. j \in Stale => job'[j] = [job[j] EXCEPT !.status = "queued", !.lease = 0, !.wait = 0]
        BY <2>2 DEF RecoverStaleJobs
      <4>3. job[j] \in JobRow
        BY DEF IInv, TypeOK
      <4>4. j \in Stale => job'[j].status = "queued"
        BY <4>2, <4>3 DEF JobRow
      <4> QED
        BY <4>1, <4>4
    <3> QED
      BY <2>2, <3>1, RecoveredRow DEF ServiceState
  <2> QED
    BY <2>1, <2>2
<1>4. \A j \in Exhausted : ServiceState[j] = "waiting" /\ ServiceTries[j] = MaxAttempts
  BY <1>1 DEF ServiceState, ServiceTries
<1>5. ServiceState' = [j \in Jobs |-> IF j \in Exhausted THEN "failed" ELSE ServiceState[j]]
  BY <1>3 DEF ServiceState
<1>6. UNCHANGED <<ServiceTries, report>>
  BY <1>2 DEF ServiceTries, RecoverStaleJobs
<1> QED
  BY <1>4, <1>5, <1>6 DEF Service!GiveUp

\* A commit is one recorded try of the session's scan.
LEMMA CommitMaps ==
  ASSUME IInv, NEW w \in Workers, Commit(w)
  PROVE  \E j \in Jobs : Service!Answer(j) \/ Service!Fail(j) \/ Service!Again(j)
<1> DEFINE k == tx[w].job
<1>1. /\ k \in Jobs /\ job[k].status = "queued" /\ job[k].attempt < MaxAttempts
      /\ job'[k] = tx[w].row /\ scan'[k] = tx[w].scan /\ report'[k] = report[k] + tx[w].report
      /\ tx[w].row.attempt = job[k].attempt + 1
      /\ Requeues(tx[w]) \/ Publishes(tx[w]) \/ Fails(tx[w])
      /\ \A j \in Jobs \ {k} : job'[j] = job[j] /\ scan'[j] = scan[j] /\ report'[j] = report[j]
  <2>1. tx[w].report \in {0, 1} /\ report[k] = 0 /\ report'[k] = tx[w].report
    BY CommitEffect DEF Session
  <2> QED
    BY <2>1, CommitEffect
<1>2. ServiceState[k] = "waiting" /\ ServiceTries[k] = job[k].attempt
  BY <1>1 DEF ServiceState, ServiceTries
<1>3. report \in [Jobs -> Nat] /\ report' \in [Jobs -> Nat]
  BY NextInv DEF IInv, TypeOK, Next
<1> HIDE DEF k
<1>4. ServiceTries' = [ServiceTries EXCEPT ![k] = @ + 1]
  BY <1>1, <1>2 DEF ServiceTries
<1>5. \A j \in Jobs \ {k} : ServiceState'[j] = ServiceState[j]
  BY <1>1 DEF ServiceState
<1>6. ServiceState' = [ServiceState EXCEPT ![k] = ServiceState'[k]]
  BY <1>5 DEF ServiceState
<1>7. report' = [report EXCEPT ![k] = @ + tx[w].report]
  BY <1>1, <1>3
<1>8. CASE Requeues(tx[w])
  <2>1. ServiceState'[k] = "waiting" /\ tx[w].report = 0 /\ job[k].attempt + 1 < MaxAttempts
    BY <1>1, <1>8 DEF Requeues, ServiceState
  <2>2. Service!Again(k)
    BY <1>1, <1>2, <1>4, <1>6, <1>7, <2>1 DEF Service!Again, Service!Try
  <2> QED
    BY <1>1, <2>2
<1>9. CASE Publishes(tx[w])
  <2>1. ServiceState'[k] = "answered" /\ tx[w].report = 1
    BY <1>1, <1>9 DEF Publishes, ServiceState
  <2>2. Service!Answer(k)
    BY <1>1, <1>2, <1>4, <1>6, <1>7, <2>1 DEF Service!Answer, Service!Try
  <2> QED
    BY <1>1, <2>2
<1>10. CASE Fails(tx[w])
  <2>1. ServiceState'[k] = "failed" /\ tx[w].report = 0
    BY <1>1, <1>10 DEF Fails, ServiceState, Published
  <2>2. Service!Fail(k)
    BY <1>1, <1>2, <1>4, <1>6, <1>7, <2>1 DEF Service!Fail, Service!Try
  <2> QED
    BY <1>1, <2>2
<1> QED
  BY <1>1, <1>8, <1>9, <1>10

\* Every step of the queue is a step of the service or is invisible to it.
LEMMA StepMaps ==
  ASSUME IInv, [Next]_vars
  PROVE  [Service!Next]_(Service!vars)
<1>1. CASE UNCHANGED db
  BY <1>1 DEF db, Service!vars, ServiceState, ServiceTries
<1>2. ASSUME NEW j \in Jobs, Submit(j) PROVE Service!Next
  <2>1. job[j].status = "absent" /\ job[j].attempt = 0
    BY <1>2 DEF Submit, IInv, QuietRows
  <2>2. job'[j] = QueuedRow /\ \A i \in Jobs \ {j} : job'[i] = job[i] /\ scan'[i] = scan[i]
    BY <1>2 DEF Submit, IInv, TypeOK
  <2>3. ServiceState[j] = "new" /\ ServiceState' = [ServiceState EXCEPT ![j] = "waiting"]
    <3>1. ServiceState[j] = "new" /\ ServiceState'[j] = "waiting"
      BY <2>1, <2>2 DEF ServiceState, QueuedRow
    <3>2. \A i \in Jobs \ {j} : ServiceState'[i] = ServiceState[i]
      BY <2>2 DEF ServiceState
    <3> QED
      BY <3>1, <3>2 DEF ServiceState
  <2>4. ServiceTries' = ServiceTries
    BY <2>1, <2>2 DEF ServiceTries, QueuedRow
  <2>5. Service!Submit(j)
    BY <1>2, <2>3, <2>4 DEF Submit, Service!Submit
  <2> QED
    BY <2>5 DEF Service!Next
<1>3. CASE Tick
  <2>1. \A j \in Jobs : job'[j].status = job[j].status /\ job'[j].attempt = job[j].attempt
    BY <1>3, TickedRow
  <2>2. UNCHANGED <<scan, report>>
    BY <1>3 DEF Tick
  <2> QED
    BY <2>1, <2>2 DEF Service!vars, ServiceState, ServiceTries
<1>4. CASE RecoverStaleJobs
  <2>1. Exhausted \in SUBSET Jobs
    BY DEF Exhausted, Stale
  <2> QED
    BY <1>4, <2>1, RecoveryMaps DEF Service!Next
<1>5. ASSUME NEW w \in Workers, Commit(w) PROVE Service!Next
  BY <1>5, CommitMaps DEF Service!Next
<1> QED
  BY <1>1, <1>2, <1>3, <1>4, <1>5, StepKinds

\* Whatever workers, sessions, crashes and recovery do, the tables follow the
\* service: tries are recorded one at a time and bounded, the decision is one,
\* and the report comes with it.
THEOREM QueueImplementsService == Spec => ImplementsService
<1>1. Init => Service!Init
  BY InitMaps
<1>2. IInv /\ [Next]_vars => [Service!Next]_(Service!vars)
  BY StepMaps
<1> QED
  BY <1>1, <1>2, Invariance, PTL DEF Spec, ImplementsService, Service!Spec
=============================================================================
