---------------------------- MODULE ScanService ----------------------------
(***************************************************************************)
(* What the queue promises to the web side, without workers, sessions,     *)
(* leases or clocks.  A submitted scan is tried a bounded number of times  *)
(* and then decided once: answered, with one report, or failed without.    *)
(***************************************************************************)
EXTENDS Naturals

CONSTANTS Scans, MaxAttempts

VARIABLES state,    \* what the tables say of each scan
          tries,    \* attempts that ended and were recorded
          reports   \* published reports

vars == <<state, tries, reports>>

\* A scan may be found half done, left by a worker that is gone.
Init ==
  /\ state \in [Scans -> {"new", "waiting"}]
  /\ tries \in [Scans -> 0..MaxAttempts]
  /\ \A s \in Scans : tries[s] = 0 <=> state[s] = "new"
  /\ reports = [s \in Scans |-> 0]

Submit(s) ==
  /\ state[s] = "new"
  /\ state' = [state EXCEPT ![s] = "waiting"]
  /\ UNCHANGED <<tries, reports>>

\* One more try is recorded; `outcome` is where it leaves the scan.
Try(s, outcome, published) ==
  /\ state[s] = "waiting"
  /\ tries[s] < MaxAttempts
  /\ state' = [state EXCEPT ![s] = outcome]
  /\ tries' = [tries EXCEPT ![s] = @ + 1]
  /\ reports' = [reports EXCEPT ![s] = @ + published]

Answer(s) == Try(s, "answered", 1)
Fail(s)   == Try(s, "failed", 0)
Again(s)  == tries[s] + 1 < MaxAttempts /\ Try(s, "waiting", 0)

\* Scans whose tries are used up and whose worker is gone are failed together.
GiveUp(S) ==
  /\ \A s \in S : state[s] = "waiting" /\ tries[s] = MaxAttempts
  /\ state' = [s \in Scans |-> IF s \in S THEN "failed" ELSE state[s]]
  /\ UNCHANGED <<tries, reports>>

Next ==
  \/ \E s \in Scans : Submit(s) \/ Answer(s) \/ Fail(s) \/ Again(s)
  \/ \E S \in SUBSET Scans : GiveUp(S)

Spec == Init /\ [][Next]_vars
=============================================================================
