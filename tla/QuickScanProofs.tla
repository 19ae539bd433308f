-------------------------- MODULE QuickScanProofs --------------------------
(***************************************************************************)
(* Proofs about QuickScan, for any number of requests in flight, domains,  *)
(* attempts, and any window, clock and number of scans.                    *)
(***************************************************************************)
EXTENDS QuickScan, FiniteSetTheorems, SequenceTheorems, TLAPS

\* Requests that may still add a scan: MaxScans leaves room for theirs.
InFlight == {h \in Handlers : req[h].at \notin {"idle", "dispatch"}}
Room     == Len(scans) + Cardinality(InFlight) <= MaxScans

\* A dispatch is for a scan that has been committed.
DispatchesScan == \A h \in Handlers : req[h].at = "dispatch" => req[h].scan \in DOMAIN scans

TInv == TypeOK /\ Room /\ DispatchesScan

----------------------------------------------------------------------------
\* The request records are told apart by their field `at`.
LEMMA RequestKinds ==
  ASSUME NEW r \in Request
  PROVE  /\ r.at = "idle" => r = Idle
         /\ r.at \in {"getOrg", "newOrg"} => r.domain \in Domains
         /\ r.at = "begin" => r.domain \in Domains /\ r.org \in OrgRank
         /\ r.at \in {"lock", "insert", "reuse"} =>
              /\ r \in [at : {"lock", "insert", "reuse"}, domain : Domains, org : OrgRank,
                        now : 0..MaxClock]
              /\ r.domain \in Domains /\ r.org \in OrgRank /\ r.now \in 0..MaxClock
         /\ r.at = "dispatch" => r.scan \in 1..MaxScans
<1>1. CASE r = Idle
  BY <1>1 DEF Idle
<1>2. CASE r \in [at : {"getOrg", "newOrg"}, domain : Domains]
  BY <1>2
<1>3. CASE r \in [at : {"begin"}, domain : Domains, org : OrgRank]
  BY <1>3
<1>4. CASE r \in [at : {"lock", "insert", "reuse"}, domain : Domains, org : OrgRank,
                  now : 0..MaxClock]
  BY <1>4
<1>5. CASE r \in [at : {"dispatch"}, scan : 1..MaxScans]
  BY <1>5
<1> QED
  BY <1>1, <1>2, <1>3, <1>4, <1>5 DEF Request

\* Moves changes the status and the tries of one scan and nothing else.
LEMMA MovesOne ==
  ASSUME scans \in Seq(Scan), NEW s \in DOMAIN scans, NEW st \in Status,
         NEW n \in 0..MaxAttempts, Moves(s, st, n)
  PROVE  /\ scans' \in Seq(Scan) /\ Len(scans') = Len(scans) /\ DOMAIN scans' = DOMAIN scans
         /\ \A t \in DOMAIN scans : /\ scans'[t].org = scans[t].org
                                    /\ scans'[t].domain = scans[t].domain
                                    /\ scans'[t].at = scans[t].at
                                    /\ scans'[t].status = IF t = s THEN st ELSE scans[t].status
<1> DEFINE r == [scans[s] EXCEPT !.status = st, !.tries = n]
<1>1. scans' = [scans EXCEPT ![s] = r]
  BY DEF Moves
<1>2. scans[s] \in Scan
  OBVIOUS
<1>3. /\ r \in Scan /\ r.status = st /\ r.org = scans[s].org /\ r.domain = scans[s].domain
      /\ r.at = scans[s].at
  BY <1>2 DEF Scan
<1>4. scans' \in Seq(Scan) /\ Len(scans') = Len(scans) /\ DOMAIN scans' = DOMAIN scans
  BY <1>1, <1>3
<1>5. \A t \in DOMAIN scans : scans'[t] = IF t = s THEN r ELSE scans[t]
  BY <1>1
<1> QED
  BY <1>3, <1>4, <1>5

\* The requests can be counted.
LEMMA Countable ==
  /\ IsFiniteSet(InFlight) /\ Cardinality(InFlight) \in Nat
  /\ IsFiniteSet(Busy) /\ Cardinality(Busy) \in Nat
<1>1. InFlight \subseteq Handlers /\ Busy \subseteq Handlers
  BY DEF InFlight, Busy
<1> QED
  BY <1>1, HandlersAreFinite, FS_Subset, FS_CardinalityType

\* The invariant of the types holds before the first request.
LEMMA InitT == Init => TInv
<1> SUFFICES ASSUME Init PROVE TInv
  OBVIOUS
<1>1. Idle \in Request /\ Idle.at = "idle"
  BY DEF Request, Idle
<1>2. TypeOK
  <2>1. clock \in 0..MaxClock /\ Len(scans) <= MaxScans
    BY BoundsAreNat DEF Init
  <2>2. scans \in Seq(Scan) /\ missed \subseteq DOMAIN scans
    BY DEF Init
  <2>3. req \in [Handlers -> Request]
    BY <1>1 DEF Init
  <2> QED
    BY <2>1, <2>2, <2>3 DEF Init, TypeOK
<1>3. InFlight = {}
  BY <1>1 DEF Init, InFlight
<1>4. Room
  BY <1>3, FS_EmptySet, BoundsAreNat DEF Init, Room
<1>5. DispatchesScan
  BY <1>1 DEF Init, DispatchesScan
<1> QED
  BY <1>2, <1>4, <1>5 DEF TInv

\* A request that moves on, not to a dispatch, takes no more room than it had.
LEMMA RoomStays ==
  ASSUME TInv, NEW h \in Handlers, NEW r \in Request, Goes(h, r), scans' = scans,
         r.at # "dispatch", h \in InFlight \/ r.at = "idle"
  PROVE  Room' /\ DispatchesScan' /\ req' \in [Handlers -> Request]
<1>1. req' \in [Handlers -> Request] /\ req' = [req EXCEPT ![h] = r]
  BY DEF TInv, TypeOK, Goes
<1>2. InFlight' \subseteq InFlight
  BY <1>1 DEF TInv, TypeOK, InFlight
<1>3. IsFiniteSet(InFlight') /\ Cardinality(InFlight') <= Cardinality(InFlight)
  BY <1>2, Countable, FS_Subset
<1>4. Cardinality(InFlight') \in Nat /\ Len(scans) \in Nat
  BY <1>3, FS_CardinalityType DEF TInv, TypeOK
<1>5. Room'
  BY <1>3, <1>4, Countable, BoundsAreNat DEF TInv, Room
<1>6. DispatchesScan'
  BY <1>1 DEF TInv, TypeOK, DispatchesScan
<1> QED
  BY <1>1, <1>5, <1>6

\* A submission before its commit keeps the types, as does its death.
LEMMA RequestT ==
  ASSUME TInv, NEW h \in Handlers,
         SelectOrg(h) \/ InsertOrg(h) \/ Begin(h) \/ LockAndCheck(h) \/ CommitReuse(h) \/ Die(h)
  PROVE  TInv'
<1>1. /\ req[h] \in Request /\ scans \in Seq(Scan) /\ Idle \in Request /\ Idle.at = "idle"
      /\ scans' = scans
  BY DEF TInv, TypeOK, Request, Idle, SelectOrg, InsertOrg, Begin, LockAndCheck, Decides,
         CommitReuse, Die
<1>2. CASE SelectOrg(h)
  <2>1. req[h].domain \in Domains /\ h \in InFlight
    BY <1>1, <1>2, RequestKinds DEF SelectOrg, InFlight
  <2>2. CASE orgs = {}
    <3> DEFINE r == [at |-> "newOrg", domain |-> req[h].domain]
    <3>1. r \in Request
      BY <2>1 DEF Request
    <3>2. Room' /\ DispatchesScan' /\ req' \in [Handlers -> Request]
      BY <1>1, <1>2, <2>1, <2>2, <3>1, RoomStays DEF SelectOrg
    <3> QED
      BY <1>2, <3>2 DEF TInv, TypeOK, SelectOrg, worker
  <2>3. CASE orgs # {}
    <3>1. PICK o \in orgs : Began(h, o)
      BY <1>2, <2>3 DEF SelectOrg
    <3> DEFINE r == [at |-> "begin", domain |-> req[h].domain, org |-> o]
    <3>2. r \in Request
      BY <2>1, <3>1 DEF Request, TInv, TypeOK
    <3>3. Room' /\ DispatchesScan' /\ req' \in [Handlers -> Request]
      BY <1>1, <2>1, <3>1, <3>2, RoomStays DEF Began
    <3> QED
      BY <1>2, <3>3 DEF TInv, TypeOK, SelectOrg, worker
  <2> QED
    BY <2>2, <2>3
<1>3. CASE InsertOrg(h)
  <2>1. req[h].domain \in Domains /\ h \in InFlight
    BY <1>1, <1>3, RequestKinds DEF InsertOrg, InFlight
  <2>2. PICK o \in OrgRank : orgs' = orgs \cup {o} /\ Began(h, o)
    BY <1>3 DEF InsertOrg
  <2> DEFINE r == [at |-> "begin", domain |-> req[h].domain, org |-> o]
  <2>3. r \in Request
    BY <2>1 DEF Request
  <2>4. Room' /\ DispatchesScan' /\ req' \in [Handlers -> Request]
    BY <1>1, <2>1, <2>2, <2>3, RoomStays DEF Began
  <2> QED
    BY <1>3, <2>2, <2>4 DEF TInv, TypeOK, InsertOrg, worker
<1>4. CASE Begin(h)
  <2>1. req[h].domain \in Domains /\ req[h].org \in OrgRank /\ h \in InFlight
    BY <1>1, <1>4, RequestKinds DEF Begin, InFlight
  <2> DEFINE r == [at |-> "lock", domain |-> req[h].domain, org |-> req[h].org, now |-> clock]
  <2>2. r \in Request
    BY <2>1 DEF Request, TInv, TypeOK
  <2>3. Room' /\ DispatchesScan' /\ req' \in [Handlers -> Request]
    BY <1>1, <1>4, <2>1, <2>2, RoomStays DEF Begin
  <2> QED
    BY <1>4, <2>3 DEF TInv, TypeOK, Begin, worker
<1>5. CASE LockAndCheck(h)
  <2>1. /\ h \in InFlight
        /\ req[h] \in [at : {"lock", "insert", "reuse"}, domain : Domains, org : OrgRank,
                       now : 0..MaxClock]
    BY <1>1, <1>5, RequestKinds DEF LockAndCheck, InFlight
  <2>2. PICK x \in {"insert", "reuse"} : Goes(h, [req[h] EXCEPT !.at = x])
    BY <1>5 DEF LockAndCheck, Decides
  <2> DEFINE r == [req[h] EXCEPT !.at = x]
  <2>3. r \in Request /\ r.at = x
    BY <2>1 DEF Request
  <2>4. Room' /\ DispatchesScan' /\ req' \in [Handlers -> Request]
    BY <1>1, <2>1, <2>2, <2>3, RoomStays
  <2> QED
    BY <1>5, <2>4 DEF TInv, TypeOK, LockAndCheck, Decides, worker
<1>6. CASE CommitReuse(h) \/ Die(h)
  <2>1. Goes(h, Idle)
    BY <1>6 DEF CommitReuse, Die
  <2>2. Room' /\ DispatchesScan' /\ req' \in [Handlers -> Request]
    BY <1>1, <2>1, RoomStays
  <2>3. missed' \subseteq DOMAIN scans
    BY <1>6 DEF TInv, TypeOK, DispatchesScan, CommitReuse, Die
  <2> QED
    BY <1>1, <1>6, <2>2, <2>3 DEF TInv, TypeOK, CommitReuse, Die, worker
<1> QED
  BY <1>2, <1>3, <1>4, <1>5, <1>6

\* A new submission keeps the types: Post leaves room for its scan.
LEMMA PostT ==
  ASSUME TInv, NEW h \in Handlers, NEW d \in Domains, Post(h, d)
  PROVE  TInv'
<1> DEFINE r == [at |-> "getOrg", domain |-> d]
<1>1. r \in Request /\ req' = [req EXCEPT ![h] = r] /\ req' \in [Handlers -> Request]
  BY DEF Request, TInv, TypeOK, Post, Goes
<1>2. InFlight' \subseteq Busy \cup {h}
  BY <1>1 DEF TInv, TypeOK, InFlight, Busy, Idle
<1>3. h \notin Busy
  BY DEF Post, Busy
<1>4. IsFiniteSet(Busy \cup {h}) /\ Cardinality(Busy \cup {h}) = Cardinality(Busy) + 1
  BY <1>3, Countable, FS_AddElement
<1>5. IsFiniteSet(InFlight') /\ Cardinality(InFlight') <= Cardinality(Busy) + 1
  BY <1>2, <1>4, FS_Subset
<1>6. Cardinality(InFlight') \in Nat /\ Len(scans) \in Nat
  BY <1>5, FS_CardinalityType DEF TInv, TypeOK
<1>7. scans' = scans /\ Len(scans) + Cardinality(Busy) < MaxScans
  BY DEF Post
<1>8. Room'
  BY <1>5, <1>6, <1>7, Countable, BoundsAreNat DEF Room
<1>9. DispatchesScan'
  BY <1>1, <1>7 DEF TInv, TypeOK, DispatchesScan
<1> QED
  BY <1>1, <1>7, <1>8, <1>9 DEF TInv, TypeOK, Post, worker

\* The commit of a scan keeps the types: it fills the room of its request.
LEMMA CommitT ==
  ASSUME TInv, NEW h \in Handlers, CommitScan(h)
  PROVE  TInv' /\ Len(scans') = Len(scans) + 1
<1> DEFINE s == [org |-> req[h].org, domain |-> req[h].domain, at |-> req[h].now,
                 status |-> "queued", tries |-> 0]
           r == [at |-> "dispatch", scan |-> Len(scans) + 1]
<1>1. req[h] \in Request /\ scans \in Seq(Scan) /\ Len(scans) \in Nat
  BY DEF TInv, TypeOK
<1>2. req[h].domain \in Domains /\ req[h].org \in OrgRank /\ req[h].now \in 0..MaxClock
  BY <1>1, RequestKinds DEF CommitScan
<1>3. s \in Scan
  BY <1>2, BoundsAreNat DEF Scan, Status
<1>4. /\ scans' \in Seq(Scan) /\ Len(scans') = Len(scans) + 1 /\ DOMAIN scans' = 1..(Len(scans) + 1)
      /\ DOMAIN scans = 1..Len(scans)
  BY <1>1, <1>3 DEF CommitScan
<1>5. h \in InFlight
  BY DEF CommitScan, InFlight
<1>6. /\ IsFiniteSet(InFlight \ {h})
      /\ Cardinality(InFlight \ {h}) = Cardinality(InFlight) - 1
  BY <1>5, Countable, FS_RemoveElement
<1>7. Cardinality(InFlight) \in Nat /\ Cardinality(InFlight) - 1 \in Nat
  BY <1>6, Countable, FS_CardinalityType
<1>8. Len(scans) + 1 <= MaxScans
  BY <1>1, <1>7, BoundsAreNat DEF TInv, Room
<1>9. r \in Request
  <2>1. MaxScans \in Nat
    BY BoundsAreNat
  <2>2. Len(scans) + 1 \in 1..MaxScans
    BY <1>1, <1>8, <2>1
  <2>3. r \in [at : {"dispatch"}, scan : 1..MaxScans]
    BY <2>2
  <2> QED
    BY <2>3 DEF Request
<1>10. req' = [req EXCEPT ![h] = r] /\ req' \in [Handlers -> Request]
  BY <1>9 DEF TInv, TypeOK, CommitScan, Goes
<1>11. InFlight' \subseteq InFlight \ {h}
  BY <1>10 DEF TInv, TypeOK, InFlight
<1>12. IsFiniteSet(InFlight') /\ Cardinality(InFlight') <= Cardinality(InFlight) - 1
  BY <1>6, <1>11, FS_Subset
<1>13. Cardinality(InFlight') \in Nat
  BY <1>12, FS_CardinalityType
<1>14. Room'
  BY <1>1, <1>4, <1>7, <1>12, <1>13, BoundsAreNat DEF TInv, Room
<1>15. DispatchesScan'
  BY <1>1, <1>4, <1>10 DEF TInv, TypeOK, DispatchesScan
<1>16. TypeOK'
  BY <1>1, <1>4, <1>8, <1>10 DEF TInv, TypeOK, CommitScan, worker
<1> QED
  BY <1>4, <1>14, <1>15, <1>16 DEF TInv

\* Waking the worker, its run, and the passing of time keep the types.
LEMMA WorkerT ==
  ASSUME TInv,
         \/ \E h \in Handlers : triggerWorker(h)
         \/ Cron \/ FindNone \/ RunEnds \/ RunDies \/ Tick
  PROVE  TInv'
<1>1. CASE \E h \in Handlers : triggerWorker(h)
  <2>1. PICK h \in Handlers : triggerWorker(h)
    BY <1>1
  <2>2. Idle \in Request /\ Idle.at = "idle"
    BY DEF Request, Idle
  <2>3. Room' /\ DispatchesScan' /\ req' \in [Handlers -> Request]
    BY <2>1, <2>2, RoomStays DEF triggerWorker
  <2>4. missed' \subseteq DOMAIN scans
    BY <2>1 DEF TInv, TypeOK, DispatchesScan, triggerWorker
  <2>5. run' \in {"none", "draining", "ending"} /\ pending' \in BOOLEAN
    BY <2>1 DEF TInv, TypeOK, triggerWorker, Trigger, worker
  <2> QED
    BY <2>1, <2>3, <2>4, <2>5 DEF TInv, TypeOK, triggerWorker
<1>2. CASE Cron \/ FindNone \/ RunEnds \/ RunDies \/ Tick
  <2>1. scans' = scans /\ req' = req /\ orgs' = orgs
    BY <1>2 DEF Cron, FindNone, RunEnds, RunDies, Tick
  <2>2. run' \in {"none", "draining", "ending"} /\ pending' \in BOOLEAN
    BY <1>2 DEF TInv, TypeOK, Cron, FindNone, RunEnds, RunDies, Tick, Trigger, Handover, worker
  <2>3. missed' \subseteq DOMAIN scans
    BY <1>2 DEF TInv, TypeOK, Cron, FindNone, RunEnds, RunDies, Tick, Queued
  <2>4. clock' \in 0..MaxClock
    BY <1>2, BoundsAreNat DEF TInv, TypeOK, Cron, FindNone, RunEnds, RunDies, Tick
  <2>5. Room' /\ DispatchesScan'
    BY <2>1 DEF TInv, Room, InFlight, DispatchesScan
  <2> QED
    BY <2>1, <2>2, <2>3, <2>4, <2>5 DEF TInv, TypeOK
<1> QED
  BY <1>1, <1>2

\* What a worker does to a scan, or the end of a backoff: one scan moves.
LEMMA ScanMoves ==
  ASSUME TInv, ProcessOne \/ \E s \in 1..MaxScans : BackoffEnds(s)
  PROVE  \E s \in DOMAIN scans, st \in Status, n \in 0..MaxAttempts :
           /\ Moves(s, st, n)
           /\ scans[s].status # "failed"
           /\ missed' \subseteq missed \cup {s}
           /\ UNCHANGED <<clock, orgs, req, worker>>
<1>1. \A s \in DOMAIN scans : scans[s] \in Scan
  BY DEF TInv, TypeOK
<1>2. CASE ProcessOne
  <2>1. PICK s \in Queued :
          LET n == scans[s].tries + 1
          IN  \/ /\ \E st \in {"completed", "failed"} : Moves(s, st, 0)
                 /\ missed' = missed \ {s}
              \/ n < MaxAttempts /\ Moves(s, "waiting", n) /\ missed' = missed \cup {s}
    BY <1>2 DEF ProcessOne
  <2>2. s \in DOMAIN scans /\ scans[s].status # "failed" /\ scans[s].tries \in 0..MaxAttempts
    BY <1>1 DEF Queued, Scan
  <2>3. UNCHANGED <<clock, orgs, req, worker>>
    BY <1>2 DEF ProcessOne
  <2>4. CASE \E st \in {"completed", "failed"} : Moves(s, st, 0) /\ missed' = missed \ {s}
    <3>1. PICK st \in {"completed", "failed"} : Moves(s, st, 0) /\ missed' = missed \ {s}
      BY <2>4
    <3>2. st \in Status /\ 0 \in 0..MaxAttempts
      BY BoundsAreNat DEF Status
    <3> QED
      BY <2>2, <2>3, <3>1, <3>2
  <2>5. CASE /\ scans[s].tries + 1 < MaxAttempts
             /\ Moves(s, "waiting", scans[s].tries + 1) /\ missed' = missed \cup {s}
    <3>1. "waiting" \in Status /\ scans[s].tries + 1 \in 0..MaxAttempts
      BY <2>2, <2>5, BoundsAreNat DEF Status
    <3> QED
      BY <2>2, <2>3, <2>5, <3>1
  <2> QED
    BY <2>1, <2>4, <2>5
<1>3. CASE \E s \in 1..MaxScans : BackoffEnds(s)
  <2>1. PICK s \in 1..MaxScans : BackoffEnds(s)
    BY <1>3
  <2>2. /\ s \in DOMAIN scans /\ scans[s].tries \in 0..MaxAttempts /\ scans[s].status = "waiting"
        /\ Moves(s, "queued", scans[s].tries) /\ missed' = missed
        /\ UNCHANGED <<clock, orgs, req, worker>>
    BY <1>1, <2>1 DEF BackoffEnds, Scan
  <2>3. "queued" \in Status
    BY DEF Status
  <2> QED
    BY <2>2, <2>3
<1> QED
  BY <1>2, <1>3

\* The scan that moves keeps its type, and the others theirs.
LEMMA ScanMovesT ==
  ASSUME TInv, ProcessOne \/ \E s \in 1..MaxScans : BackoffEnds(s)
  PROVE  TInv'
<1>1. PICK s \in DOMAIN scans, st \in Status, n \in 0..MaxAttempts :
        /\ Moves(s, st, n)
        /\ missed' \subseteq missed \cup {s}
        /\ UNCHANGED <<clock, orgs, req, worker>>
  BY ScanMoves
<1>2. scans' \in Seq(Scan) /\ Len(scans') = Len(scans) /\ DOMAIN scans' = DOMAIN scans
  BY <1>1, MovesOne DEF TInv, TypeOK
<1>3. TypeOK'
  BY <1>1, <1>2 DEF TInv, TypeOK, worker
<1>4. Room' /\ DispatchesScan'
  BY <1>1, <1>2 DEF TInv, Room, InFlight, DispatchesScan
<1> QED
  BY <1>3, <1>4 DEF TInv

\* The invariant of the types is inductive.
LEMMA NextT == TInv /\ [Next]_vars => TInv'
<1> SUFFICES ASSUME TInv, [Next]_vars PROVE TInv'
  OBVIOUS
<1>1. CASE UNCHANGED vars
  BY <1>1 DEF vars, TInv, TypeOK, Room, InFlight, DispatchesScan
<1>2. CASE Next
  BY <1>2, PostT, RequestT, CommitT, WorkerT, ScanMovesT DEF Next
<1> QED
  BY <1>1, <1>2

\* Every variable keeps its type, and no more scans are made than MaxScans.
THEOREM TypeCorrect == Spec => []TypeOK
<1>1. TInv => TypeOK
  BY DEF TInv
<1> QED
  BY InitT, NextT, <1>1, PTL DEF Spec

----------------------------------------------------------------------------
(* One scan per window: the advisory lock. *)

\* The transactions that have looked for a recent scan and still hold their lock.
Holds(h) == req[h].at \in {"insert", "reuse"}

\* Two transactions never hold the lock of one organization and domain.
LockIsExclusive ==
  \A g, h \in Handlers :
    Holds(g) /\ Holds(h) /\ req[g].org = req[h].org /\ req[g].domain = req[h].domain => g = h

\* While a transaction that found nothing holds its lock, nothing recent appears.
NothingRecent ==
  \A h \in Handlers : req[h].at = "insert" =>
    \A s \in DOMAIN scans :
      /\ scans[s].org = req[h].org /\ scans[s].domain = req[h].domain
      /\ scans[s].status # "failed"
      => scans[s].at + Window <= req[h].now

WindowInv == LockIsExclusive /\ NothingRecent /\ OneScanPerWindow

----------------------------------------------------------------------------
\* A step that adds no scan, revives none that has failed, and lets no transaction
\* take a lock keeps the invariant.
LEMMA QuietW ==
  ASSUME TInv, WindowInv, DOMAIN scans' = DOMAIN scans,
         \A s \in DOMAIN scans : /\ scans'[s].org = scans[s].org
                                 /\ scans'[s].domain = scans[s].domain
                                 /\ scans'[s].at = scans[s].at
                                 /\ scans[s].status = "failed" => scans'[s].status = "failed",
         \A g \in Handlers : req'[g] = req[g] \/ req'[g].at \notin {"insert", "reuse"}
  PROVE  WindowInv'
<1>1. LockIsExclusive'
  BY DEF WindowInv, LockIsExclusive, Holds
<1>2. NothingRecent'
  <2> SUFFICES ASSUME NEW h \in Handlers, req'[h].at = "insert", NEW s \in DOMAIN scans,
                      scans'[s].org = req'[h].org, scans'[s].domain = req'[h].domain,
                      scans'[s].status # "failed"
               PROVE  scans'[s].at + Window <= req'[h].now
    BY DEF NothingRecent
  <2>1. req'[h] = req[h]
    OBVIOUS
  <2>2. scans[s].at + Window <= req[h].now
    BY <2>1 DEF WindowInv, NothingRecent
  <2> QED
    BY <2>1, <2>2
<1>3. OneScanPerWindow'
  <2> SUFFICES ASSUME NEW s \in DOMAIN scans, NEW t \in DOMAIN scans, s # t,
                      scans'[s].org = scans'[t].org, scans'[s].domain = scans'[t].domain,
                      "failed" \notin {scans'[s].status, scans'[t].status}
               PROVE  Apart(s, t)'
    BY DEF OneScanPerWindow
  <2>1. Apart(s, t)
    BY DEF WindowInv, OneScanPerWindow
  <2>2. scans'[s].at = scans[s].at /\ scans'[t].at = scans[t].at
    OBVIOUS
  <2> QED
    BY <2>1, <2>2 DEF Apart
<1> QED
  BY <1>1, <1>2, <1>3 DEF WindowInv

\* Taking the lock: it is free, and what is found under it is what the lock protects.
LEMMA LockW ==
  ASSUME TInv, WindowInv, NEW h \in Handlers, LockAndCheck(h)
  PROVE  WindowInv'
<1>1. /\ req[h] \in [at : {"lock", "insert", "reuse"}, domain : Domains, org : OrgRank,
                     now : 0..MaxClock]
      /\ req \in [Handlers -> Request] /\ scans' = scans
  BY RequestKinds DEF TInv, TypeOK, LockAndCheck, Decides
<1>2. PICK x \in {"insert", "reuse"} :
        /\ req' = [req EXCEPT ![h] = [req[h] EXCEPT !.at = x]]
        /\ x = "insert" => Recent(h) = {}
  BY DEF LockAndCheck, Decides, Goes
<1>3. /\ req'[h].at = x /\ req'[h].org = req[h].org /\ req'[h].domain = req[h].domain
      /\ req'[h].now = req[h].now
      /\ \A g \in Handlers \ {h} : req'[g] = req[g]
  BY <1>1, <1>2
<1>4. LockIsExclusive'
  <2>1. \A g \in Handlers \ {h} :
          ~(Holds(g) /\ req[g].org = req[h].org /\ req[g].domain = req[h].domain)
    BY DEF LockAndCheck, Holders, Holds
  <2> QED
    BY <1>3, <2>1 DEF WindowInv, LockIsExclusive, Holds
<1>5. NothingRecent'
  <2> SUFFICES ASSUME NEW g \in Handlers, req'[g].at = "insert", NEW s \in DOMAIN scans,
                      scans[s].org = req'[g].org, scans[s].domain = req'[g].domain,
                      scans[s].status # "failed"
               PROVE  scans[s].at + Window <= req'[g].now
    BY <1>1 DEF NothingRecent
  <2>1. CASE g # h
    BY <1>3, <2>1 DEF WindowInv, NothingRecent
  <2>2. CASE g = h
    <3>1. ~(scans[s].at + Window > req[h].now)
      BY <1>2, <1>3, <2>2 DEF Recent
    <3>2. scans[s].at \in Nat /\ Window \in Nat /\ req[h].now \in Nat
      <4>1. scans[s] \in Scan
        BY DEF TInv, TypeOK
      <4> QED
        BY <1>1, <4>1, BoundsAreNat DEF Scan
    <3> QED
      BY <1>3, <2>2, <3>1, <3>2
  <2> QED
    BY <2>1, <2>2
<1>6. OneScanPerWindow'
  BY <1>1 DEF WindowInv, OneScanPerWindow, Apart
<1> QED
  BY <1>4, <1>5, <1>6 DEF WindowInv

\* The commit of a scan: it is a window younger than those of its project, and no
\* other transaction holds the lock of that project.
LEMMA CommitW ==
  ASSUME TInv, WindowInv, NEW h \in Handlers, CommitScan(h)
  PROVE  WindowInv'
<1> DEFINE n == Len(scans) + 1
<1>1. /\ req[h].at = "insert" /\ scans \in Seq(Scan) /\ req \in [Handlers -> Request]
      /\ DOMAIN scans = 1..Len(scans) /\ Len(scans) \in Nat
  BY DEF TInv, TypeOK, CommitScan
<1>2. /\ DOMAIN scans' = 1..n
      /\ \A s \in DOMAIN scans : s \in 1..n /\ s # n /\ scans'[s] = scans[s]
      /\ scans'[n] = [org |-> req[h].org, domain |-> req[h].domain, at |-> req[h].now,
                      status |-> "queued", tries |-> 0]
      /\ \A s \in 1..n : s = n \/ s \in DOMAIN scans
  BY <1>1 DEF CommitScan
<1>3. req'[h].at = "dispatch" /\ \A g \in Handlers \ {h} : req'[g] = req[g]
  BY <1>1 DEF CommitScan, Goes
<1>4. LockIsExclusive'
  BY <1>3 DEF WindowInv, LockIsExclusive, Holds
<1>5. NothingRecent'
  <2> SUFFICES ASSUME NEW g \in Handlers, req'[g].at = "insert", NEW s \in DOMAIN scans',
                      scans'[s].org = req'[g].org, scans'[s].domain = req'[g].domain,
                      scans'[s].status # "failed"
               PROVE  scans'[s].at + Window <= req'[g].now
    BY DEF NothingRecent
  <2>1. g # h /\ req'[g] = req[g]
    BY <1>3
  <2>2. s # n
    BY <1>1, <1>2, <2>1 DEF WindowInv, LockIsExclusive, Holds
  <2> QED
    BY <1>2, <2>1, <2>2 DEF WindowInv, NothingRecent
<1>6. OneScanPerWindow'
  <2>1. \A s \in DOMAIN scans :
          /\ scans[s].org = req[h].org /\ scans[s].domain = req[h].domain
          /\ scans[s].status # "failed"
          => scans'[s].at + Window <= scans'[n].at
    BY <1>1, <1>2 DEF WindowInv, NothingRecent
  <2> SUFFICES ASSUME NEW s \in DOMAIN scans', NEW t \in DOMAIN scans', s # t,
                      scans'[s].org = scans'[t].org, scans'[s].domain = scans'[t].domain,
                      "failed" \notin {scans'[s].status, scans'[t].status}
               PROVE  Apart(s, t)'
    BY DEF OneScanPerWindow
  <2>2. CASE s \in DOMAIN scans /\ t \in DOMAIN scans
    BY <1>2, <2>2 DEF WindowInv, OneScanPerWindow, Apart
  <2>3. CASE s = n /\ t \in DOMAIN scans
    BY <1>2, <2>1, <2>3 DEF Apart
  <2>4. CASE t = n /\ s \in DOMAIN scans
    BY <1>2, <2>1, <2>4 DEF Apart
  <2> QED
    BY <1>2, <2>2, <2>3, <2>4
<1> QED
  BY <1>4, <1>5, <1>6 DEF WindowInv

\* The window invariant holds initially, and every step keeps it.
LEMMA InitW == Init => WindowInv
  BY DEF Init, Idle, WindowInv, LockIsExclusive, Holds, NothingRecent, OneScanPerWindow

LEMMA NextW == TInv /\ WindowInv /\ [Next]_vars => WindowInv'
<1> SUFFICES ASSUME TInv, WindowInv, [Next]_vars PROVE WindowInv'
  OBVIOUS
<1>1. ASSUME scans' = scans,
             \A g \in Handlers : req'[g] = req[g] \/ req'[g].at \notin {"insert", "reuse"}
      PROVE  WindowInv'
  BY <1>1, QuietW
<1>2. CASE UNCHANGED vars
  BY <1>1, <1>2 DEF vars
<1>3. CASE \E h \in Handlers : \/ \E d \in Domains : Post(h, d)
                               \/ SelectOrg(h) \/ InsertOrg(h) \/ Begin(h) \/ CommitReuse(h)
                               \/ triggerWorker(h) \/ Die(h)
  <2>1. PICK h \in Handlers : \/ \E d \in Domains : Post(h, d)
                              \/ SelectOrg(h) \/ InsertOrg(h) \/ Begin(h) \/ CommitReuse(h)
                              \/ triggerWorker(h) \/ Die(h)
    BY <1>3
  <2>2. req \in [Handlers -> Request]
    BY DEF TInv, TypeOK
  <2>3. req'[h].at \notin {"insert", "reuse"}
    BY <2>1, <2>2 DEF Goes, Post, SelectOrg, InsertOrg, Began, Begin, CommitReuse, triggerWorker,
                      Die, Idle
  <2>4. \A g \in Handlers \ {h} : req'[g] = req[g]
    BY <2>1, <2>2 DEF Goes, Post, SelectOrg, InsertOrg, Began, Begin, CommitReuse, triggerWorker,
                      Die
  <2>5. scans' = scans
    BY <2>1 DEF Post, SelectOrg, InsertOrg, Begin, CommitReuse, triggerWorker, Die
  <2> QED
    BY <1>1, <2>3, <2>4, <2>5
<1>4. CASE \E h \in Handlers : LockAndCheck(h)
  BY <1>4, LockW
<1>5. CASE \E h \in Handlers : CommitScan(h)
  BY <1>5, CommitW
<1>6. CASE Cron \/ FindNone \/ RunEnds \/ RunDies \/ Tick
  BY <1>1, <1>6 DEF Cron, FindNone, RunEnds, RunDies, Tick
<1>7. CASE ProcessOne \/ \E s \in 1..MaxScans : BackoffEnds(s)
  <2>1. PICK s \in DOMAIN scans, st \in Status, k \in 0..MaxAttempts :
          /\ Moves(s, st, k)
          /\ scans[s].status # "failed"
          /\ UNCHANGED <<clock, orgs, req, worker>>
    BY <1>7, ScanMoves
  <2>2. /\ DOMAIN scans' = DOMAIN scans
        /\ \A t \in DOMAIN scans : /\ scans'[t].org = scans[t].org
                                   /\ scans'[t].domain = scans[t].domain
                                   /\ scans'[t].at = scans[t].at
                                   /\ scans'[t].status = IF t = s THEN st ELSE scans[t].status
    BY <2>1, MovesOne DEF TInv, TypeOK
  <2> QED
    BY <2>1, <2>2, QuietW
<1> QED
  BY <1>2, <1>3, <1>4, <1>5, <1>6, <1>7 DEF Next

\* The advisory lock gives each project one scan that is not failed in a window,
\* however many submissions race, wait for the lock, or die, and whatever fails.
THEOREM OneScan == Spec => []OneScanPerWindow
<1>1. WindowInv => OneScanPerWindow
  BY DEF WindowInv
<1> QED
  BY InitT, NextT, InitW, NextW, <1>1, PTL DEF Spec

----------------------------------------------------------------------------
(* No wake-up is lost by coalescing. *)

\* A job that was put off counts as missed: its retry has no wake-up of its own.
PutOffIsMissed == \A s \in DOMAIN scans : scans[s].status = "waiting" => s \in missed

\* Some run will still look at the queue for scan s, or a dispatch for it is to come.
Awaited(s) == \/ run = "draining" \/ pending
              \/ \E h \in Handlers : req[h] = [at |-> "dispatch", scan |-> s]

WakeInv == PutOffIsMissed /\ \A s \in DOMAIN scans :
             scans[s].status = "queued" /\ s \notin missed => Awaited(s)

\* WakeInv says what WokenOrMissed says, and PutOffIsMissed.
LEMMA WakeIsWoken == WakeInv => WokenOrMissed
  BY DEF WakeInv, Awaited, WokenOrMissed, Queued

\* A submission that is not at its dispatch leaves every scan awaited as it was.
LEMMA QuietK ==
  ASSUME TInv, WakeInv, NEW h \in Handlers, req[h].at # "dispatch",
         \A g \in Handlers \ {h} : req'[g] = req[g],
         scans' = scans, missed' = missed, UNCHANGED worker
  PROVE  WakeInv'
<1>1. \A g \in Handlers, s \in DOMAIN scans :
        req[g] = [at |-> "dispatch", scan |-> s] => req'[g] = req[g]
  <2> SUFFICES ASSUME NEW g \in Handlers, NEW s \in DOMAIN scans,
                      req[g] = [at |-> "dispatch", scan |-> s]
               PROVE  g # h
    OBVIOUS
  <2> QED
    OBVIOUS
<1>2. \A s \in DOMAIN scans : Awaited(s) => Awaited(s)'
  BY <1>1 DEF Awaited, worker
<1> QED
  BY <1>2 DEF WakeInv, PutOffIsMissed

\* A new scan has its dispatch to come.
LEMMA CommitK ==
  ASSUME TInv, WakeInv, NEW h \in Handlers, CommitScan(h)
  PROVE  WakeInv'
<1>0. PICK n : n = Len(scans) + 1
  OBVIOUS
<1>1. /\ req[h].at = "insert" /\ scans \in Seq(Scan) /\ req \in [Handlers -> Request]
      /\ DOMAIN scans = 1..Len(scans) /\ Len(scans) \in Nat
  BY DEF TInv, TypeOK, CommitScan
<1>2. /\ \A s \in DOMAIN scans' : s = n \/ (s \in DOMAIN scans /\ scans'[s] = scans[s])
      /\ scans'[n].status = "queued"
  <2>1. /\ DOMAIN scans' = 1..n
        /\ \A s \in DOMAIN scans : scans'[s] = scans[s]
        /\ scans'[n] = [org |-> req[h].org, domain |-> req[h].domain, at |-> req[h].now,
                        status |-> "queued", tries |-> 0]
    BY <1>0, <1>1 DEF CommitScan
  <2>2. \A s \in 1..n : s = n \/ s \in DOMAIN scans
    BY <1>0, <1>1
  <2>3. scans'[n].status = "queued"
    BY <2>1
  <2>4. \A s \in DOMAIN scans' : s = n \/ (s \in DOMAIN scans /\ scans'[s] = scans[s])
    BY <2>1, <2>2
  <2> QED
    BY <2>3, <2>4
<1>3. /\ req'[h] = [at |-> "dispatch", scan |-> n]
      /\ \A g \in Handlers \ {h} : req'[g] = req[g]
      /\ missed' = missed /\ UNCHANGED worker
  BY <1>0, <1>1 DEF CommitScan, Goes
<1>4. \A s \in DOMAIN scans : Awaited(s) => Awaited(s)'
  <2>1. \A g \in Handlers, s \in DOMAIN scans :
          req[g] = [at |-> "dispatch", scan |-> s] => req'[g] = req[g]
    BY <1>1, <1>3
  <2> QED
    BY <1>3, <2>1 DEF Awaited, worker
<1>5. Awaited(n)'
  BY <1>3 DEF Awaited
<1>6. PutOffIsMissed'
  BY <1>2, <1>3 DEF WakeInv, PutOffIsMissed
<1> QED
  BY <1>2, <1>3, <1>4, <1>5, <1>6 DEF WakeInv

\* The request's last step: its dispatch starts a run or waits behind one, or its
\* scan is missed.
LEMMA DispatchK ==
  ASSUME TInv, WakeInv, NEW h \in Handlers, triggerWorker(h) \/ Die(h)
  PROVE  WakeInv'
<1>1. /\ \A g \in Handlers \ {h} : req'[g] = req[g]
      /\ scans' = scans /\ missed \subseteq missed'
  BY DEF TInv, TypeOK, triggerWorker, Die, Goes
<1>2. PutOffIsMissed'
  BY <1>1 DEF WakeInv, PutOffIsMissed
<1>3. CASE Trigger
  <2>1. run' = "draining" \/ pending'
    BY <1>3 DEF Trigger
  <2> QED
    BY <1>1, <1>2, <2>1 DEF WakeInv, Awaited
<1>4. CASE /\ UNCHANGED worker
           /\ req[h].at = "dispatch" => req[h].scan \in missed'
  <2>1. \A s \in DOMAIN scans : Awaited(s) /\ s \notin missed' => Awaited(s)'
    <3> SUFFICES ASSUME NEW s \in DOMAIN scans, s \notin missed', NEW g \in Handlers,
                        req[g] = [at |-> "dispatch", scan |-> s]
                 PROVE  req'[g] = req[g]
      BY <1>4 DEF Awaited, worker
    <3> QED
      BY <1>1, <1>4
  <2> QED
    BY <1>1, <1>2, <2>1 DEF WakeInv
<1> QED
  BY <1>3, <1>4 DEF triggerWorker, Die

\* The worker only leaves a queue it found empty, or whose scans it has missed; and
\* a run in progress, or one behind it, takes over.
LEMMA RunK ==
  ASSUME TInv, WakeInv, Cron \/ FindNone \/ RunEnds \/ RunDies \/ Tick
  PROVE  WakeInv'
<1>1. scans' = scans /\ req' = req /\ missed \subseteq missed'
  BY DEF Cron, FindNone, RunEnds, RunDies, Tick
<1>2. PutOffIsMissed'
  BY <1>1 DEF WakeInv, PutOffIsMissed
<1>3. \A s \in DOMAIN scans :
        scans[s].status = "queued" /\ s \notin missed' /\ Awaited(s) => Awaited(s)'
  <2>1. CASE Cron
    BY <2>1 DEF Cron, Trigger, Awaited
  <2>2. CASE FindNone
    BY <2>2 DEF FindNone, Queued
  <2>3. CASE RunEnds
    BY <1>1, <2>3 DEF RunEnds, Handover, Awaited
  <2>4. CASE RunDies
    BY <2>4 DEF RunDies, Queued
  <2>5. CASE Tick
    BY <1>1, <2>5 DEF Tick, Awaited, worker
  <2> QED
    BY <2>1, <2>2, <2>3, <2>4, <2>5
<1> QED
  BY <1>1, <1>2, <1>3 DEF WakeInv

\* A scan that is put off is missed until it is decided.
LEMMA ScanMovesK ==
  ASSUME TInv, WakeInv, ProcessOne \/ \E s \in 1..MaxScans : BackoffEnds(s)
  PROVE  WakeInv'
<1>1. \A s \in DOMAIN scans : scans[s] \in Scan
  BY DEF TInv, TypeOK
<1>2. PICK s \in DOMAIN scans, st \in Status, k \in 0..MaxAttempts :
        /\ Moves(s, st, k) /\ UNCHANGED <<req, worker>>
        /\ \/ st \in {"completed", "failed"} /\ missed' = missed \ {s}
           \/ st = "waiting" /\ missed' = missed \cup {s}
           \/ st = "queued" /\ scans[s].status = "waiting" /\ missed' = missed
  <2>1. CASE ProcessOne
    <3>1. PICK s \in Queued :
            LET n == scans[s].tries + 1
            IN  \/ /\ \E st \in {"completed", "failed"} : Moves(s, st, 0)
                   /\ missed' = missed \ {s}
                \/ n < MaxAttempts /\ Moves(s, "waiting", n) /\ missed' = missed \cup {s}
      BY <2>1 DEF ProcessOne
    <3>2. /\ s \in DOMAIN scans /\ scans[s].tries \in 0..MaxAttempts /\ 0 \in 0..MaxAttempts
          /\ {"completed", "failed", "waiting"} \subseteq Status
          /\ UNCHANGED <<req, worker>>
      BY <1>1, <2>1, BoundsAreNat DEF Queued, Scan, Status, ProcessOne
    <3>3. CASE \E st \in {"completed", "failed"} : Moves(s, st, 0) /\ missed' = missed \ {s}
      BY <3>2, <3>3
    <3>4. CASE /\ scans[s].tries + 1 < MaxAttempts
               /\ Moves(s, "waiting", scans[s].tries + 1) /\ missed' = missed \cup {s}
      <4>1. scans[s].tries + 1 \in 0..MaxAttempts
        BY <3>2, <3>4, BoundsAreNat
      <4> QED
        BY <3>2, <3>4, <4>1
    <3> QED
      BY <3>1, <3>3, <3>4
  <2>2. CASE \E s \in 1..MaxScans : BackoffEnds(s)
    <3>1. PICK s \in 1..MaxScans : BackoffEnds(s)
      BY <2>2
    <3>2. s \in DOMAIN scans /\ scans[s].tries \in 0..MaxAttempts /\ "queued" \in Status
      BY <1>1, <3>1 DEF BackoffEnds, Scan, Status
    <3> QED
      BY <3>1, <3>2 DEF BackoffEnds
  <2> QED
    BY <2>1, <2>2
<1>3. /\ DOMAIN scans' = DOMAIN scans
      /\ \A t \in DOMAIN scans : scans'[t].status = IF t = s THEN st ELSE scans[t].status
  BY <1>2, MovesOne DEF TInv, TypeOK
<1>4. \A t \in DOMAIN scans : Awaited(t) => Awaited(t)'
  BY <1>2 DEF Awaited, worker
<1>5. PutOffIsMissed'
  BY <1>2, <1>3 DEF WakeInv, PutOffIsMissed
<1>6. \A t \in DOMAIN scans : scans'[t].status = "queued" /\ t \notin missed' => Awaited(t)'
  BY <1>2, <1>3, <1>4 DEF WakeInv, PutOffIsMissed
<1> QED
  BY <1>3, <1>5, <1>6 DEF WakeInv

\* The wake-up invariant holds initially, and every step keeps it.
LEMMA InitK == Init => WakeInv
  BY DEF Init, WakeInv, PutOffIsMissed

LEMMA NextK == TInv /\ WakeInv /\ [Next]_vars => WakeInv'
<1> SUFFICES ASSUME TInv, WakeInv, [Next]_vars PROVE WakeInv'
  OBVIOUS
<1>1. CASE UNCHANGED vars
  BY <1>1 DEF vars, WakeInv, PutOffIsMissed, Awaited
<1>2. CASE \E h \in Handlers : \/ \E d \in Domains : Post(h, d)
                               \/ SelectOrg(h) \/ InsertOrg(h) \/ Begin(h) \/ LockAndCheck(h)
                               \/ CommitReuse(h)
  <2>1. PICK h \in Handlers : \/ \E d \in Domains : Post(h, d)
                              \/ SelectOrg(h) \/ InsertOrg(h) \/ Begin(h) \/ LockAndCheck(h)
                              \/ CommitReuse(h)
    BY <1>2
  <2>2. req[h].at # "dispatch"
    <3>1. CASE \E d \in Domains : Post(h, d)
      BY <3>1 DEF Post, Idle
    <3>2. CASE SelectOrg(h) \/ InsertOrg(h) \/ Begin(h) \/ LockAndCheck(h) \/ CommitReuse(h)
      BY <3>2 DEF SelectOrg, InsertOrg, Begin, LockAndCheck, CommitReuse
    <3> QED
      BY <2>1, <3>1, <3>2
  <2>3. scans' = scans /\ missed' = missed /\ UNCHANGED worker
    BY <2>1 DEF Post, SelectOrg, InsertOrg, Begin, LockAndCheck, Decides, CommitReuse, worker
  <2>4. \A g \in Handlers \ {h} : req'[g] = req[g]
    BY <2>1 DEF TInv, TypeOK, Goes, Post, SelectOrg, InsertOrg, Began, Begin, LockAndCheck,
                Decides, CommitReuse
  <2> QED
    BY <2>2, <2>3, <2>4, QuietK
<1>3. CASE \E h \in Handlers : CommitScan(h)
  BY <1>3, CommitK
<1>4. CASE \E h \in Handlers : triggerWorker(h) \/ Die(h)
  BY <1>4, DispatchK
<1>5. CASE Cron \/ FindNone \/ RunEnds \/ RunDies \/ Tick
  BY <1>5, RunK
<1>6. CASE ProcessOne \/ \E s \in 1..MaxScans : BackoffEnds(s)
  BY <1>6, ScanMovesK
<1> QED
  BY <1>1, <1>2, <1>3, <1>4, <1>5, <1>6 DEF Next

\* A ready scan without a run to come is one whose own dispatch or run was lost, or
\* that was put off: the concurrency group drops triggers but loses no wake-up.
THEOREM NoWakeUpIsLost == Spec => []WokenOrMissed
  BY InitT, NextT, InitK, NextK, WakeIsWoken, PTL DEF Spec
=============================================================================
