------------------------ MODULE EntitlementsProofs -------------------------
(***************************************************************************)
(* Proofs about Entitlements, for any number of requests in flight, scans, *)
(* checkout sessions and for any cap of the limited promo code.            *)
(***************************************************************************)
EXTENDS Entitlements, FiniteSetTheorems, TLAPS

\* Rows and ledger entries exist only for sessions that Stripe has created.
OnlyCreated ==
  \A e \in Sessions : stripeRows[e] > 0 \/ ledger[e] # "none" => session[e] # "none"

\* What a grant in flight has found out is still so.
GrantsAreFounded ==
  \A h \in Handlers : req[h] \in Grant =>
    /\ session[req[h].of] # "none"
    /\ req[h].step = "granted" => Entitled(scanOf[req[h].of])
    /\ req[h].step = "unknown" => scanOf[req[h].of] \notin KnownScans

IInv == TypeOK /\ OnlyCreated /\ GrantsAreFounded /\ LedgerIsTrue

----------------------------------------------------------------------------
\* The four kinds of request are told apart by their field `for`.
LEMMA RequestKinds ==
  ASSUME NEW r \in Request
  PROVE  /\ r.for = "promo" => r \in Promo
         /\ r.for = "checkout" => r \in Checkout
         /\ r.for \in {"webhook", "return"} => r \in Grant
         /\ r \in Grant => r.for \in {"webhook", "return"}
  BY DEF Request, Idle, Promo, Checkout, Grant

\* The invariant holds before the first request.
LEMMA InitInv == Init => IInv
<1> SUFFICES ASSUME Init PROVE IInv
  OBVIOUS
<1>1. Idle \in Request /\ Idle \notin Grant
  BY DEF Request, Idle, Grant
<1>2. TypeOK
  BY <1>1 DEF Init, TypeOK, SessionState, LedgerState
<1> QED
  BY <1>1, <1>2 DEF Init, IInv, OnlyCreated, GrantsAreFounded, LedgerIsTrue

\* Entitlement is never withdrawn: payments rows are only added, and a session's
\* scan is fixed when it is created.
LEMMA EntitledStays ==
  ASSUME TypeOK, TypeOK', OnlyCreated, NEW s,
         promoScans \subseteq promoScans',
         \A e \in Sessions : stripeRows[e] > 0 => stripeRows'[e] > 0,
         \A e \in Sessions : session[e] # "none" => scanOf'[e] = scanOf[e],
         Entitled(s)
  PROVE  Entitled(s)'
<1>1. CASE s \in promoScans
  BY <1>1 DEF Entitled
<1>2. CASE \E e \in Sessions : scanOf[e] = s /\ stripeRows[e] > 0
  <2>1. PICK e \in Sessions : scanOf[e] = s /\ stripeRows[e] > 0
    BY <1>2
  <2>2. scanOf'[e] = s /\ stripeRows'[e] > 0
    BY <2>1 DEF OnlyCreated
  <2> QED
    BY <2>2 DEF Entitled
<1> QED
  BY <1>1, <1>2 DEF Entitled

\* A step that puts a request in another state, and leaves tables and Stripe alone,
\* keeps the invariant if what the new state claims is true.
LEMMA RequestMoves ==
  ASSUME IInv, NEW h \in Handlers, NEW r \in Request, Goes(h, r),
         UNCHANGED <<tables, stripe>>,
         r \in Grant => /\ session[r.of] # "none"
                        /\ r.step = "granted" => Entitled(scanOf[r.of])
                        /\ r.step = "unknown" => scanOf[r.of] \notin KnownScans
  PROVE  IInv'
<1>1. \A g \in Handlers : req'[g] = IF g = h THEN r ELSE req[g]
  BY DEF IInv, TypeOK, Goes
<1>2. TypeOK'
  BY DEF IInv, TypeOK, Goes, tables, stripe
<1>3. OnlyCreated' /\ LedgerIsTrue'
  BY DEF IInv, OnlyCreated, LedgerIsTrue, Entitled, tables, stripe
<1>4. \A s : Entitled(s)' <=> Entitled(s)
  BY DEF Entitled, tables, stripe
<1>5. GrantsAreFounded'
  BY <1>1, <1>4 DEF IInv, GrantsAreFounded, tables, stripe
<1> QED
  BY <1>2, <1>3, <1>5 DEF IInv

\* Everything a request does before it writes keeps the invariant.
LEMMA ReadsInv ==
  ASSUME IInv, NEW h \in Handlers,
         \/ \E s \in Scans, k \in PromoKind : Redeem(h, s, k)
         \/ PromoChecksScan(h) \/ PromoChecksLimit(h)
         \/ \E s \in Scans : StartCheckout(h, s)
         \/ NotConfigured(h) \/ ReturnEnds(h) \/ Fail(h)
  PROVE  IInv'
<1>1. req[h] \in Request
  BY DEF IInv, TypeOK
<1>2. Idle \in Request /\ Idle \notin Grant
  BY DEF Request, Idle, Grant
<1>3. CASE Goes(h, Idle) /\ UNCHANGED <<tables, stripe>>
  BY <1>2, <1>3, RequestMoves
<1>4. ASSUME NEW s \in Scans, NEW k \in PromoKind, Redeem(h, s, k) PROVE IInv'
  <2> DEFINE r == [for |-> "promo", scan |-> s, kind |-> k, step |-> "entitled?"]
  <2>1. r \in Request /\ r \notin Grant
    BY DEF Request, Promo, Grant
  <2> QED
    BY <1>4, <2>1, RequestMoves DEF Redeem
<1>5. ASSUME NEW s \in Scans, StartCheckout(h, s) PROVE IInv'
  <2> DEFINE r == [for |-> "checkout", scan |-> s]
  <2>1. r \in Request /\ r \notin Grant
    BY DEF Request, Checkout, Grant
  <2> QED
    BY <1>5, <2>1, RequestMoves DEF StartCheckout
<1>6. ASSUME NEW x \in {"limit?", "insert"}, req[h].for = "promo", Step(h, x),
             UNCHANGED <<tables, stripe>>
      PROVE  IInv'
  <2> DEFINE r == [req[h] EXCEPT !.step = x]
  <2>1. req[h] \in Promo
    BY <1>1, <1>6, RequestKinds
  <2>2. r \in Request /\ r \notin Grant
    BY <2>1 DEF Request, Promo, Grant
  <2> QED
    BY <1>6, <2>2, RequestMoves DEF Step
<1>7. CASE PromoChecksScan(h)
  BY <1>3, <1>6, <1>7 DEF PromoChecksScan, At
<1>8. CASE PromoChecksLimit(h)
  BY <1>3, <1>6, <1>8 DEF PromoChecksLimit, At
<1>9. CASE NotConfigured(h) \/ ReturnEnds(h) \/ Fail(h)
  BY <1>3, <1>9 DEF NotConfigured, ReturnEnds, Fail
<1> QED
  BY <1>4, <1>5, <1>7, <1>8, <1>9

\* The two look-ups of a grant, and the call by the return, keep the invariant:
\* what they find out is so.
LEMMA GrantReadsInv ==
  ASSUME IInv, NEW h \in Handlers,
         (\E e \in Sessions : Return(h, e)) \/ GrantChecksScan(h)
  PROVE  IInv'
<1>1. CASE \E e \in Sessions : Return(h, e)
  <2>1. PICK e \in Sessions : Return(h, e)
    BY <1>1
  <2> DEFINE r == [for |-> "return", of |-> e, step |-> "entitled?"]
  <2>2. r \in Request
    BY DEF Request, Grant
  <2> QED
    BY <2>1, <2>2, RequestMoves DEF Return
<1>2. CASE GrantChecksScan(h)
  <2> DEFINE s == scanOf[req[h].of]
             x == IF Entitled(s) THEN "granted"
                  ELSE IF s \in KnownScans THEN "insert" ELSE "unknown"
             r == [req[h] EXCEPT !.step = x]
  <2>1. req[h] \in Grant
    BY <1>2, RequestKinds DEF IInv, TypeOK, GrantChecksScan, At
  <2>2. r \in Request /\ r.of = req[h].of /\ r.step = x
    BY <2>1 DEF Request, Grant
  <2>3. session[r.of] # "none"
    BY <2>1, <2>2 DEF IInv, GrantsAreFounded
  <2>4. Goes(h, r) /\ UNCHANGED <<tables, stripe>>
    BY <1>2 DEF GrantChecksScan, Step
  <2>5. /\ r.step = "granted" => Entitled(scanOf[r.of])
        /\ r.step = "unknown" => scanOf[r.of] \notin KnownScans
    BY <2>2
  <2> QED
    BY <2>2, <2>3, <2>4, <2>5, RequestMoves
<1> QED
  BY <1>1, <1>2

\* What is known of one request and of one event.
Founded(h) == req[h] \in Grant =>
  /\ session[req[h].of] # "none"
  /\ req[h].step = "granted" => Entitled(scanOf[req[h].of])
  /\ req[h].step = "unknown" => scanOf[req[h].of] \notin KnownScans
TrueOf(e) ==
  /\ ledger[e] = "processed" => Entitled(scanOf[e])
  /\ ledger[e] = "unknown_scan" => scanOf[e] \notin KnownScans

\* A step that only adds rows and sessions keeps what was known of the requests and
\* the events it does not touch.
LEMMA FactsStay ==
  ASSUME IInv, TypeOK',
         promoScans \subseteq promoScans',
         \A e \in Sessions : stripeRows[e] > 0 => stripeRows'[e] > 0,
         \A e \in Sessions : session[e] # "none" => scanOf'[e] = scanOf[e] /\ session'[e] # "none"
  PROVE  /\ \A h \in Handlers : req'[h] = req[h] => Founded(h)'
         /\ \A e \in Sessions : ledger'[e] = ledger[e] => TrueOf(e)'
<1>1. TypeOK /\ OnlyCreated
  BY DEF IInv
<1>2. \A s : Entitled(s) => Entitled(s)'
  BY <1>1, EntitledStays
<1>3. ASSUME NEW h \in Handlers, req'[h] = req[h] PROVE Founded(h)'
  <2>1. CASE req[h] \in Grant
    <3>1. req[h].of \in Sessions
      BY <2>1 DEF Grant
    <3>2. /\ session[req[h].of] # "none"
          /\ req[h].step = "granted" => Entitled(scanOf[req[h].of])
          /\ req[h].step = "unknown" => scanOf[req[h].of] \notin KnownScans
      BY <2>1 DEF IInv, GrantsAreFounded
    <3>3. session'[req[h].of] # "none" /\ scanOf'[req[h].of] = scanOf[req[h].of]
      BY <3>1, <3>2
    <3> QED
      BY <1>2, <1>3, <3>2, <3>3 DEF Founded
  <2>2. CASE req[h] \notin Grant
    BY <1>3, <2>2 DEF Founded
  <2> QED
    BY <2>1, <2>2
<1>4. ASSUME NEW e \in Sessions, ledger'[e] = ledger[e] PROVE TrueOf(e)'
  <2>1. CASE ledger[e] = "none"
    BY <1>4, <2>1 DEF TrueOf
  <2>2. CASE ledger[e] # "none"
    <3>1. scanOf'[e] = scanOf[e]
      BY <1>1, <2>2 DEF OnlyCreated
    <3>2. /\ ledger[e] = "processed" => Entitled(scanOf[e])
          /\ ledger[e] = "unknown_scan" => scanOf[e] \notin KnownScans
      BY DEF IInv, LedgerIsTrue
    <3> QED
      BY <1>2, <1>4, <3>1, <3>2 DEF TrueOf
  <2> QED
    BY <2>1, <2>2
<1> QED
  BY <1>3, <1>4

\* A paid row is inserted, by a promo code or by a grant.
LEMMA InsertsInv ==
  ASSUME IInv, NEW h \in Handlers, PromoInserts(h) \/ GrantInserts(h)
  PROVE  IInv'
<1>1. req[h] \in Request /\ Idle \in Request /\ Idle \notin Grant
  BY DEF IInv, TypeOK, Request, Idle, Grant
<1>2. CASE PromoInserts(h)
  <2>1. req[h] \in Promo
    BY <1>1, <1>2, RequestKinds DEF PromoInserts, At
  <2>2. TypeOK'
    BY <1>1, <1>2, <2>1 DEF IInv, TypeOK, PromoInserts, Goes, Promo, stripe
  <2>3. OnlyCreated'
    BY <1>2 DEF IInv, OnlyCreated, PromoInserts, stripe
  <2>4. /\ \A g \in Handlers : req'[g] = req[g] => Founded(g)'
        /\ \A e \in Sessions : ledger'[e] = ledger[e] => TrueOf(e)'
    BY <1>2, <2>2, FactsStay DEF PromoInserts, stripe
  <2>5. req'[h] = Idle /\ \A g \in Handlers \ {h} : req'[g] = req[g]
    BY <1>2 DEF IInv, TypeOK, PromoInserts, Goes
  <2>6. Founded(h)'
    BY <1>1, <2>5 DEF Founded
  <2>7. \A e \in Sessions : ledger'[e] = ledger[e]
    BY <1>2 DEF PromoInserts
  <2>8. (\A g \in Handlers : Founded(g)') /\ (\A e \in Sessions : TrueOf(e)')
    BY <2>4, <2>5, <2>6, <2>7
  <2> QED
    BY <2>2, <2>3, <2>8 DEF IInv, Founded, TrueOf, GrantsAreFounded, LedgerIsTrue
<1>3. CASE GrantInserts(h)
  <2>1. req[h] \in Grant
    BY <1>1, <1>3, RequestKinds DEF GrantInserts, At
  <2>0. PICK e0 \in Sessions : e0 = req[h].of
    BY <2>1 DEF Grant
  <2> DEFINE r == [req[h] EXCEPT !.step = "granted"]
  <2>2. r \in Request /\ r.of = e0 /\ r.step = "granted" /\ e0 \in Sessions
    BY <2>0, <2>1 DEF Request, Grant
  <2>3. /\ req' = [req EXCEPT ![h] = r]
        /\ stripeRows' = [stripeRows EXCEPT ![e0] = IF @ = 0 THEN 1 ELSE @]
        /\ UNCHANGED <<redeemed, promoScans, ledger, session, scanOf, acked>>
    BY <1>3, <2>0 DEF GrantInserts, Step, Goes, stripe
  <2>4. TypeOK'
    BY <2>2, <2>3 DEF IInv, TypeOK
  <2>5. stripeRows \in [Sessions -> Nat]
    BY DEF IInv, TypeOK
  <2>6. /\ stripeRows'[e0] > 0
        /\ \A e \in Sessions : stripeRows[e] > 0 => stripeRows'[e] > 0
        /\ \A e \in Sessions \ {e0} : stripeRows'[e] = stripeRows[e]
    BY <2>2, <2>3, <2>5
  <2>7. session[e0] # "none"
    BY <2>0, <2>1 DEF IInv, GrantsAreFounded
  <2>8. OnlyCreated'
    BY <2>3, <2>6, <2>7 DEF IInv, OnlyCreated
  <2>9. /\ \A g \in Handlers : req'[g] = req[g] => Founded(g)'
        /\ \A e \in Sessions : ledger'[e] = ledger[e] => TrueOf(e)'
    BY <2>3, <2>4, <2>6, FactsStay
  <2>10. req'[h] = r /\ \A g \in Handlers \ {h} : req'[g] = req[g]
    BY <2>3 DEF IInv, TypeOK
  <2>11. Founded(h)'
    <3>1. Entitled(scanOf[e0])'
      BY <2>2, <2>6 DEF Entitled
    <3> QED
      BY <2>2, <2>3, <2>7, <2>10, <3>1 DEF Founded
  <2>12. (\A g \in Handlers : Founded(g)') /\ (\A e \in Sessions : TrueOf(e)')
    BY <2>3, <2>9, <2>10, <2>11
  <2> QED
    BY <2>4, <2>8, <2>12 DEF IInv, Founded, TrueOf, GrantsAreFounded, LedgerIsTrue
<1> QED
  BY <1>2, <1>3

\* Stripe creates a session for a checkout, or moves one forward.
LEMMA StripeInv ==
  ASSUME IInv, NEW e \in Sessions,
         (\E h \in Handlers : createCheckoutSession(h, e)) \/ Complete(e) \/ Clear(e)
  PROVE  IInv'
<1>1. Idle \in Request /\ Idle \notin Grant
  BY DEF Request, Idle, Grant
<1>2. CASE \E h \in Handlers : createCheckoutSession(h, e)
  <2>1. PICK h \in Handlers : createCheckoutSession(h, e)
    BY <1>2
  <2>2. req[h] \in Checkout
    BY <2>1, RequestKinds DEF IInv, TypeOK, createCheckoutSession
  <2>3. TypeOK'
    BY <1>1, <2>1, <2>2
       DEF IInv, TypeOK, createCheckoutSession, Goes, Checkout, SessionState, tables
  <2>4. OnlyCreated'
    BY <2>1 DEF IInv, TypeOK, OnlyCreated, createCheckoutSession, tables
  <2>5. \A f \in Sessions : session[f] # "none" => scanOf'[f] = scanOf[f] /\ session'[f] # "none"
    BY <2>1 DEF IInv, TypeOK, createCheckoutSession
  <2>6. /\ \A g \in Handlers : req'[g] = req[g] => Founded(g)'
        /\ \A f \in Sessions : ledger'[f] = ledger[f] => TrueOf(f)'
    BY <2>1, <2>3, <2>5, FactsStay DEF createCheckoutSession, tables
  <2>7. req'[h] = Idle /\ \A g \in Handlers \ {h} : req'[g] = req[g]
    BY <2>1 DEF IInv, TypeOK, createCheckoutSession, Goes
  <2>8. (\A g \in Handlers : Founded(g)') /\ (\A f \in Sessions : TrueOf(f)')
    BY <1>1, <2>1, <2>6, <2>7 DEF Founded, createCheckoutSession, tables
  <2> QED
    BY <2>3, <2>4, <2>8 DEF IInv, Founded, TrueOf, GrantsAreFounded, LedgerIsTrue
<1>3. CASE Complete(e) \/ Clear(e)
  <2>1. TypeOK'
    BY <1>3 DEF IInv, TypeOK, Complete, Clear, SessionState, tables
  <2>2. \A f \in Sessions : session[f] # "none" => scanOf'[f] = scanOf[f] /\ session'[f] # "none"
    BY <1>3 DEF IInv, TypeOK, Complete, Clear
  <2>3. OnlyCreated'
    BY <1>3, <2>2 DEF IInv, OnlyCreated, Complete, Clear, tables
  <2>4. /\ \A g \in Handlers : req'[g] = req[g] => Founded(g)'
        /\ \A f \in Sessions : ledger'[f] = ledger[f] => TrueOf(f)'
    BY <1>3, <2>1, <2>2, FactsStay DEF Complete, Clear, tables
  <2>5. (\A g \in Handlers : Founded(g)') /\ (\A f \in Sessions : TrueOf(f)')
    BY <1>3, <2>4 DEF Complete, Clear, tables
  <2> QED
    BY <2>1, <2>3, <2>5 DEF IInv, Founded, TrueOf, GrantsAreFounded, LedgerIsTrue
<1> QED
  BY <1>2, <1>3

\* A delivery claims its event or finds it claimed.
LEMMA DeliverInv ==
  ASSUME IInv, NEW h \in Handlers, NEW e \in Sessions, Deliver(h, e)
  PROVE  IInv'
<1> DEFINE r == [for |-> "webhook", of |-> e, step |-> "entitled?"]
<1>1. r \in Request /\ r \in Grant
  BY DEF Request, Grant
<1>2. session[e] # "none"
  BY DEF Deliver, Completed
<1>3. TypeOK'
  BY <1>1 DEF IInv, TypeOK, Deliver, Goes, LedgerState
<1>4. OnlyCreated'
  BY <1>2 DEF IInv, TypeOK, OnlyCreated, Deliver
<1>5. /\ \A g \in Handlers : req'[g] = req[g] => Founded(g)'
      /\ \A f \in Sessions : ledger'[f] = ledger[f] => TrueOf(f)'
  BY <1>3, FactsStay DEF Deliver
<1>6. \A g \in Handlers : req'[g] = req[g] \/ (g = h /\ req'[g] = r)
  BY DEF IInv, TypeOK, Deliver, Goes
<1>7. \A g \in Handlers : Founded(g)'
  BY <1>1, <1>2, <1>5, <1>6 DEF Founded, Deliver
<1>8. \A f \in Sessions : ledger'[f] = ledger[f] \/ ledger'[f] = "received"
  BY DEF IInv, TypeOK, Deliver
<1>9. \A f \in Sessions : TrueOf(f)'
  BY <1>5, <1>8 DEF TrueOf
<1> QED
  BY <1>3, <1>4, <1>7, <1>9 DEF IInv, Founded, TrueOf, GrantsAreFounded, LedgerIsTrue

\* The ledger is given the status that the grant has found out to be so.
LEMMA MarkEventInv ==
  ASSUME IInv, NEW h \in Handlers, MarkEvent(h)
  PROVE  IInv'
<1>1. PICK s \in {"granted", "unknown"} :
        /\ At(h, "webhook", s)
        /\ ledger' = [ledger EXCEPT ![req[h].of] =
                        IF s = "granted" THEN "processed" ELSE "unknown_scan"]
  BY DEF MarkEvent
<1>2. req[h] \in Grant
  BY <1>1, RequestKinds DEF IInv, TypeOK, At
<1>3. PICK e \in Sessions : e = req[h].of
  BY <1>2 DEF Grant
<1>4. /\ session[e] # "none"
      /\ s = "granted" => Entitled(scanOf[e])
      /\ s = "unknown" => scanOf[e] \notin KnownScans
  BY <1>1, <1>2, <1>3 DEF IInv, GrantsAreFounded, At
<1>5. Idle \in Request /\ Idle \notin Grant
  BY DEF Request, Idle, Grant
<1>6. /\ req' = [req EXCEPT ![h] = Idle]
      /\ acked' = acked \cup {e}
      /\ UNCHANGED <<redeemed, promoScans, stripeRows, session, scanOf>>
  BY <1>3 DEF MarkEvent, Goes
<1>7. TypeOK'
  BY <1>1, <1>3, <1>5, <1>6 DEF IInv, TypeOK, LedgerState
<1>8. OnlyCreated'
  BY <1>1, <1>3, <1>4, <1>6 DEF IInv, TypeOK, OnlyCreated
<1>9. /\ \A g \in Handlers : req'[g] = req[g] => Founded(g)'
      /\ \A f \in Sessions : ledger'[f] = ledger[f] => TrueOf(f)'
  BY <1>6, <1>7, FactsStay
<1>10. \A g \in Handlers : req'[g] = req[g] \/ req'[g] = Idle
  BY <1>6 DEF IInv, TypeOK
<1>11. \A g \in Handlers : Founded(g)'
  BY <1>5, <1>9, <1>10 DEF Founded
<1>12. TrueOf(e)'
  <2>1. ledger'[e] = IF s = "granted" THEN "processed" ELSE "unknown_scan"
    BY <1>1, <1>3 DEF IInv, TypeOK
  <2>2. Entitled(scanOf[e]) => Entitled(scanOf[e])'
    BY <1>6 DEF Entitled
  <2> QED
    BY <1>4, <1>6, <2>1, <2>2 DEF TrueOf
<1>13. \A f \in Sessions \ {e} : ledger'[f] = ledger[f]
  BY <1>1, <1>3 DEF IInv, TypeOK
<1> QED
  BY <1>7, <1>8, <1>9, <1>11, <1>12, <1>13
     DEF IInv, Founded, TrueOf, GrantsAreFounded, LedgerIsTrue

----------------------------------------------------------------------------
\* The inductive invariant holds throughout.
THEOREM Invariance == Spec => []IInv
<1>1. IInv /\ [Next]_vars => IInv'
  <2> SUFFICES ASSUME IInv, [Next]_vars PROVE IInv'
    OBVIOUS
  <2>1. CASE UNCHANGED vars
    BY <2>1 DEF vars, IInv, TypeOK, OnlyCreated, GrantsAreFounded, LedgerIsTrue, Entitled
  <2>2. ASSUME NEW h \in Handlers, NEW s \in Scans, NEW k \in PromoKind, Redeem(h, s, k)
        PROVE  IInv'
    BY <2>2, ReadsInv
  <2>3. ASSUME NEW h \in Handlers, NEW s \in Scans, StartCheckout(h, s) PROVE IInv'
    BY <2>3, ReadsInv
  <2>4. ASSUME NEW h \in Handlers, NEW e \in Sessions, Deliver(h, e) \/ Return(h, e)
        PROVE  IInv'
    BY <2>4, DeliverInv, GrantReadsInv
  <2>5. ASSUME NEW h \in Handlers, Works(h) PROVE IInv'
    BY <2>5, ReadsInv, InsertsInv, StripeInv, GrantReadsInv, MarkEventInv DEF Works
  <2>6. ASSUME NEW h \in Handlers, Fail(h) PROVE IInv'
    BY <2>6, ReadsInv
  <2>7. ASSUME NEW e \in Sessions, Complete(e) \/ Clear(e) PROVE IInv'
    BY <2>7, StripeInv
  <2> QED
    BY <2>1, <2>2, <2>3, <2>4, <2>5, <2>6, <2>7 DEF Next
<1> QED
  BY InitInv, <1>1, PTL DEF Spec

\* What stripe_events says of an event is true of the payments table, however many
\* requests, deliveries and returns overlap or die.
THEOREM TheLedgerIsTrue == Spec => []LedgerIsTrue
<1>1. IInv => LedgerIsTrue
  BY DEF IInv
<1> QED
  BY Invariance, <1>1, PTL

----------------------------------------------------------------------------
\* The handlers past the limit check, and all of them, can be counted.
LEMMA PastLimitIsFinite ==
  /\ IsFiniteSet(PastLimit) /\ Cardinality(PastLimit) \in Nat
  /\ Cardinality(Handlers) \in Nat
  /\ \A S \in SUBSET PastLimit : IsFiniteSet(S) /\ Cardinality(S) \in Nat
                                 /\ Cardinality(S) <= Cardinality(PastLimit)
<1>1. PastLimit \subseteq Handlers
  BY DEF PastLimit
<1>2. IsFiniteSet(PastLimit)
  BY <1>1, HandlersAreFinite, FS_Subset
<1> QED
  BY <1>2, HandlersAreFinite, FS_Subset, FS_CardinalityType

\* A request that changes neither the count nor its own standing changes nothing.
LEMMA StandsStill ==
  ASSUME OverrunIsBounded, redeemed \in Nat, redeemed' = redeemed, PastLimit' \subseteq PastLimit
  PROVE  OverrunIsBounded'
<1>1. Cardinality(PastLimit') \in Nat /\ Cardinality(PastLimit') <= Cardinality(PastLimit)
  BY PastLimitIsFinite
<1> QED
  BY <1>1, PastLimitIsFinite, LimitedMaxIsPos DEF OverrunIsBounded

\* The check lets a request past while the count is below the cap, and then at
\* least this one of the handlers was not past it yet.
LEMMA CheckKeepsBound ==
  ASSUME IInv, OverrunIsBounded, NEW h \in Handlers, PromoChecksLimit(h)
  PROVE  OverrunIsBounded'
<1>1. h \notin PastLimit /\ redeemed' = redeemed /\ redeemed \in Nat
  BY DEF IInv, TypeOK, PastLimit, PromoChecksLimit, At, tables
<1>2. PastLimit' \subseteq PastLimit \cup {h}
  BY DEF IInv, TypeOK, PastLimit, PromoChecksLimit, At, Goes, Step
<1>3. CASE limitedPromoLimitReached
  <2>1. PastLimit' \subseteq PastLimit
    BY <1>3 DEF IInv, TypeOK, PastLimit, PromoChecksLimit, At, Goes, Idle
  <2> QED
    BY <1>1, <2>1, StandsStill
<1>4. CASE ~limitedPromoLimitReached
  <2>1. redeemed < LimitedMax
    BY <1>1, <1>4, LimitedMaxIsPos DEF limitedPromoLimitReached
  <2>2. /\ IsFiniteSet(PastLimit \cup {h})
        /\ Cardinality(PastLimit \cup {h}) = Cardinality(PastLimit) + 1
    BY <1>1, PastLimitIsFinite, FS_AddElement
  <2>3. PastLimit \cup {h} \in SUBSET Handlers
    BY DEF PastLimit
  <2>4. Cardinality(PastLimit) + 1 <= Cardinality(Handlers)
    BY <2>2, <2>3, HandlersAreFinite, FS_Subset
  <2>5. IsFiniteSet(PastLimit') /\ Cardinality(PastLimit') <= Cardinality(PastLimit) + 1
    BY <1>2, <2>2, FS_Subset
  <2>6. Cardinality(PastLimit') \in Nat
    BY <2>5, FS_CardinalityType
  <2>7. redeemed + Cardinality(PastLimit') < LimitedMax + Cardinality(Handlers)
    BY <1>1, <2>1, <2>4, <2>5, <2>6, PastLimitIsFinite, LimitedMaxIsPos
  <2> QED
    BY <1>1, <2>7 DEF OverrunIsBounded
<1> QED
  BY <1>3, <1>4

\* The insert of a request past the limit moves one from the one count to the other.
LEMMA InsertKeepsBound ==
  ASSUME IInv, OverrunIsBounded, NEW h \in Handlers, PromoInserts(h)
  PROVE  OverrunIsBounded'
<1>1. redeemed \in Nat
  BY DEF IInv, TypeOK
<1>2. PastLimit' \subseteq PastLimit \ {h}
  BY DEF IInv, TypeOK, PastLimit, PromoInserts, At, Goes, Idle
<1>3. CASE req[h].kind = "limited"
  <2>1. h \in PastLimit /\ redeemed' = redeemed + 1
    BY <1>3 DEF PastLimit, PromoInserts
  <2>2. /\ IsFiniteSet(PastLimit \ {h})
        /\ Cardinality(PastLimit \ {h}) = Cardinality(PastLimit) - 1
    BY <2>1, PastLimitIsFinite, FS_RemoveElement
  <2>3. IsFiniteSet(PastLimit') /\ Cardinality(PastLimit') <= Cardinality(PastLimit) - 1
    BY <1>2, <2>2, FS_Subset
  <2>4. Cardinality(PastLimit') \in Nat
    BY <2>3, FS_CardinalityType
  <2> QED
    BY <1>1, <2>1, <2>3, <2>4, PastLimitIsFinite, LimitedMaxIsPos DEF OverrunIsBounded
<1>4. CASE req[h].kind # "limited"
  <2>1. redeemed' = redeemed
    BY <1>1, <1>4 DEF PromoInserts
  <2> QED
    BY <1>1, <1>2, <2>1, StandsStill
<1> QED
  BY <1>3, <1>4

\* entitlements.ts:118: the limited code can be redeemed beyond its cap, but by at
\* most one less than the number of requests in flight together.
THEOREM TheOverrunIsBounded == Spec => []OverrunIsBounded
<1>1. Init => OverrunIsBounded
  <2> SUFFICES ASSUME Init PROVE OverrunIsBounded
    OBVIOUS
  <2>1. PastLimit = {} /\ redeemed = 0
    BY DEF Init, PastLimit, At, Idle
  <2> QED
    BY <2>1, PastLimitIsFinite, LimitedMaxIsPos, FS_EmptySet DEF OverrunIsBounded
<1>2. IInv /\ OverrunIsBounded /\ [Next]_vars => OverrunIsBounded'
  <2> SUFFICES ASSUME IInv, OverrunIsBounded, [Next]_vars PROVE OverrunIsBounded'
    OBVIOUS
  <2>0. redeemed \in Nat /\ req \in [Handlers -> Request]
    BY DEF IInv, TypeOK
  <2>1. CASE UNCHANGED vars
    <3>1. redeemed' = redeemed /\ PastLimit' = PastLimit
      BY <2>1 DEF vars, PastLimit, At
    <3> QED
      BY <2>0, <3>1, StandsStill
  <2>2. ASSUME NEW h \in Handlers, NEW s \in Scans, NEW k \in PromoKind, Redeem(h, s, k)
        PROVE  OverrunIsBounded'
    <3>1. redeemed' = redeemed /\ PastLimit' \subseteq PastLimit
      BY <2>0, <2>2 DEF Redeem, PastLimit, At, Goes, tables
    <3> QED
      BY <2>0, <3>1, StandsStill
  <2>3. ASSUME NEW h \in Handlers, NEW s \in Scans, StartCheckout(h, s) PROVE OverrunIsBounded'
    <3>1. redeemed' = redeemed /\ PastLimit' \subseteq PastLimit
      BY <2>0, <2>3 DEF StartCheckout, PastLimit, At, Goes, tables
    <3> QED
      BY <2>0, <3>1, StandsStill
  <2>4. ASSUME NEW h \in Handlers, NEW e \in Sessions,
               Deliver(h, e) \/ Return(h, e) \/ createCheckoutSession(h, e)
        PROVE  OverrunIsBounded'
    <3>1. redeemed' = redeemed /\ PastLimit' \subseteq PastLimit
      BY <2>0, <2>4
         DEF Deliver, Return, createCheckoutSession, PastLimit, At, Goes, Idle, tables
    <3> QED
      BY <2>0, <3>1, StandsStill
  <2>5. ASSUME NEW h \in Handlers, PromoChecksScan(h) PROVE OverrunIsBounded'
    <3>1. redeemed' = redeemed /\ PastLimit' \subseteq PastLimit
      <4>1. req[h] \in Promo
        BY <2>0, <2>5, RequestKinds DEF PromoChecksScan, At
      <4> QED
        BY <2>0, <2>5, <4>1 DEF PromoChecksScan, PastLimit, At, Goes, Step, Idle, Promo, tables
    <3> QED
      BY <2>0, <3>1, StandsStill
  <2>6. ASSUME NEW h \in Handlers,
               GrantChecksScan(h) \/ GrantInserts(h) \/ MarkEvent(h) \/ ReturnEnds(h)
               \/ NotConfigured(h) \/ Fail(h)
        PROVE  OverrunIsBounded'
    <3>1. redeemed' = redeemed
      BY <2>6 DEF GrantChecksScan, GrantInserts, MarkEvent, ReturnEnds, NotConfigured, Fail, tables
    <3>2. \A g \in Handlers \ {h} : req'[g] = req[g]
      BY <2>0, <2>6 DEF GrantChecksScan, GrantInserts, MarkEvent, ReturnEnds, NotConfigured, Fail,
                        Goes, Step
    <3>3. h \notin PastLimit'
      <4>1. CASE GrantChecksScan(h) \/ GrantInserts(h)
        <5>1. req[h] \in Grant
          BY <2>0, <4>1, RequestKinds DEF GrantChecksScan, GrantInserts, At
        <5>2. req'[h].for = req[h].for
          BY <2>0, <4>1, <5>1 DEF GrantChecksScan, GrantInserts, Goes, Step, Grant
        <5> QED
          BY <5>1, <5>2 DEF PastLimit, At, Grant
      <4>2. CASE MarkEvent(h) \/ ReturnEnds(h) \/ NotConfigured(h) \/ Fail(h)
        <5>1. req'[h] = Idle
          BY <2>0, <4>2 DEF MarkEvent, ReturnEnds, NotConfigured, Fail, Goes
        <5> QED
          BY <5>1 DEF PastLimit, At, Idle
      <4> QED
        BY <2>6, <4>1, <4>2
    <3>4. PastLimit' \subseteq PastLimit
      BY <3>2, <3>3 DEF PastLimit, At
    <3> QED
      BY <2>0, <3>1, <3>4, StandsStill
  <2>7. ASSUME NEW e \in Sessions, Complete(e) \/ Clear(e) PROVE OverrunIsBounded'
    <3>1. redeemed' = redeemed /\ PastLimit' = PastLimit
      BY <2>7 DEF Complete, Clear, PastLimit, At, tables
    <3> QED
      BY <2>0, <3>1, StandsStill
  <2> QED
    BY <2>1, <2>2, <2>3, <2>4, <2>5, <2>6, <2>7, CheckKeepsBound, InsertKeepsBound
       DEF Next, Works
<1> QED
  BY Invariance, <1>1, <1>2, PTL DEF Spec

----------------------------------------------------------------------------
\* The payments and ledger rows, the requests and Stripe's sessions keep their types.
THEOREM TypeCorrect == Spec => []TypeOK
<1>1. IInv => TypeOK
  BY DEF IInv
<1> QED
  BY Invariance, <1>1, PTL

\* entitlements.ts: payments rows are only ever inserted, each for a scan fixed when
\* its checkout was opened, so no request, redelivery or death of a request locks a
\* scan that was unlocked.
EntitledForGood == [][\A s \in Scans : Entitled(s) => Entitled(s)']_vars

THEOREM UnlockedForGood == Spec => EntitledForGood
<1>1. IInv /\ IInv' /\ [Next]_vars => [\A s \in Scans : Entitled(s) => Entitled(s)']_vars
  <2> SUFFICES ASSUME IInv, IInv', Next, NEW s \in Scans, Entitled(s) PROVE Entitled(s)'
    BY DEF IInv
  <2>1. promoScans \subseteq promoScans'
    BY DEF Next, tables, stripe, Redeem, StartCheckout, Deliver, Return, Works,
           PromoChecksScan, PromoChecksLimit, PromoInserts, createCheckoutSession, NotConfigured,
           GrantChecksScan, GrantInserts, MarkEvent, ReturnEnds, Fail, Complete, Clear
  <2>2. \A e \in Sessions : stripeRows[e] > 0 => stripeRows'[e] > 0
    <3>1. stripeRows \in [Sessions -> Nat]
      BY DEF IInv, TypeOK
    <3>2. ASSUME NEW h \in Handlers, GrantInserts(h)
          PROVE  \A e \in Sessions : stripeRows[e] > 0 => stripeRows'[e] > 0
      BY <3>1, <3>2 DEF GrantInserts
    <3>3. UNCHANGED stripeRows \/ \E h \in Handlers : GrantInserts(h)
      BY DEF Next, tables, stripe, Redeem, StartCheckout, Deliver, Return, Works,
             PromoChecksScan, PromoChecksLimit, PromoInserts, createCheckoutSession, NotConfigured,
             GrantChecksScan, MarkEvent, ReturnEnds, Fail, Complete, Clear
    <3> QED
      BY <3>2, <3>3
  <2>3. \A e \in Sessions : session[e] # "none" => scanOf'[e] = scanOf[e]
    <3>1. scanOf \in [Sessions -> Scans \cup {NoScan}]
      BY DEF IInv, TypeOK
    <3>2. ASSUME NEW h \in Handlers, NEW f \in Sessions, createCheckoutSession(h, f)
          PROVE  \A e \in Sessions : session[e] # "none" => scanOf'[e] = scanOf[e]
      BY <3>1, <3>2 DEF createCheckoutSession
    <3>3. UNCHANGED scanOf \/ \E h \in Handlers, f \in Sessions : createCheckoutSession(h, f)
      BY DEF Next, tables, stripe, Redeem, StartCheckout, Deliver, Return, Works,
             PromoChecksScan, PromoChecksLimit, PromoInserts, NotConfigured,
             GrantChecksScan, GrantInserts, MarkEvent, ReturnEnds, Fail, Complete, Clear
    <3> QED
      BY <3>2, <3>3
  <2> QED
    BY <2>1, <2>2, <2>3, EntitledStays DEF IInv
<1> QED
  BY Invariance, <1>1, PTL DEF Spec, EntitledForGood

----------------------------------------------------------------------------
\* A delivery at work holds the claim on its event, and holds it alone.
OneClaim ==
  \A h \in Handlers : req[h].for = "webhook" =>
    /\ ledger[req[h].of] = "received"
    /\ \A g \in Handlers : req[g].for = "webhook" /\ req[g].of = req[h].of => g = h

\* A step that claims no event and marks none keeps the claims, if no request turns
\* into a delivery or changes its event.
LEMMA ClaimsStay ==
  ASSUME OneClaim, ledger' = ledger,
         \A h \in Handlers : req'[h].for = "webhook" =>
            req[h].for = "webhook" /\ req'[h].of = req[h].of
  PROVE  OneClaim'
  BY DEF OneClaim

\* Whatever neither claims nor marks leaves the ledger alone, turns no request into a
\* delivery and leaves every delivery with its event.
LEMMA ClaimsUntouched ==
  ASSUME IInv, Next,
         \A h \in Handlers : ~MarkEvent(h) /\ \A e \in Sessions : ~Deliver(h, e)
  PROVE  /\ ledger' = ledger
         /\ \A h \in Handlers : req'[h].for = "webhook" =>
               req[h].for = "webhook" /\ req'[h].of = req[h].of
<1>0. req \in [Handlers -> Request]
  BY DEF IInv, TypeOK
<1>1. ledger' = ledger
  BY DEF Next, tables, stripe, Redeem, StartCheckout, Return, Works, PromoChecksScan,
         PromoChecksLimit, PromoInserts, createCheckoutSession, NotConfigured, GrantChecksScan,
         GrantInserts, ReturnEnds, Fail, Complete, Clear
<1>2. ASSUME NEW g \in Handlers, NEW r, Goes(g, r),
             r.for = "webhook" => req[g].for = "webhook" /\ r.of = req[g].of
      PROVE  \A h \in Handlers : req'[h].for = "webhook" =>
                req[h].for = "webhook" /\ req'[h].of = req[h].of
  BY <1>0, <1>2 DEF Goes
<1>3. Idle.for # "webhook"
  BY DEF Idle
<1>4. ASSUME NEW g \in Handlers, NEW x, Step(g, x), req[g] \in Promo \cup Grant
      PROVE  \A h \in Handlers : req'[h].for = "webhook" =>
                req[h].for = "webhook" /\ req'[h].of = req[h].of
  <2>1. /\ [req[g] EXCEPT !.step = x].for = req[g].for
        /\ req[g] \in Grant => [req[g] EXCEPT !.step = x].of = req[g].of
    BY <1>4 DEF Promo, Grant
  <2>2. req[g] \in Promo => req[g].for # "webhook"
    BY DEF Promo
  <2> QED
    BY <1>2, <1>4, <2>1, <2>2 DEF Step
<1>5. ASSUME NEW h \in Handlers,
             \/ \E s \in Scans, k \in PromoKind : Redeem(h, s, k)
             \/ \E s \in Scans : StartCheckout(h, s)
             \/ \E e \in Sessions : Return(h, e) \/ createCheckoutSession(h, e)
             \/ PromoInserts(h) \/ NotConfigured(h) \/ ReturnEnds(h) \/ Fail(h)
      PROVE  \A g \in Handlers : req'[g].for = "webhook" =>
                req[g].for = "webhook" /\ req'[g].of = req[g].of
  BY <1>2, <1>3, <1>5 DEF Redeem, StartCheckout, Return, createCheckoutSession, PromoInserts,
                          NotConfigured, ReturnEnds, Fail
<1>6. ASSUME NEW h \in Handlers,
             PromoChecksScan(h) \/ PromoChecksLimit(h) \/ GrantChecksScan(h) \/ GrantInserts(h)
      PROVE  \A g \in Handlers : req'[g].for = "webhook" =>
                req[g].for = "webhook" /\ req'[g].of = req[g].of
  <2>1. req[h] \in Promo \cup Grant
    BY <1>0, <1>6, RequestKinds
       DEF PromoChecksScan, PromoChecksLimit, GrantChecksScan, GrantInserts, At
  <2> QED
    BY <1>2, <1>3, <1>4, <1>6, <2>1
       DEF PromoChecksScan, PromoChecksLimit, GrantChecksScan, GrantInserts
<1>7. ASSUME NEW e \in Sessions, Complete(e) \/ Clear(e) PROVE req' = req
  BY <1>7 DEF Complete, Clear
<1>8. \A h \in Handlers : req'[h].for = "webhook" =>
         req[h].for = "webhook" /\ req'[h].of = req[h].of
  BY <1>5, <1>6, <1>7 DEF Next, Works
<1> QED
  BY <1>1, <1>8

\* What a delivery and its end do to the ledger and to the requests.
LEMMA Claiming ==
  ASSUME IInv, NEW h \in Handlers, NEW e \in Sessions, Deliver(h, e)
  PROVE  \/ ledger' = ledger /\ req' = req /\ ledger[e] # "none"
         \/ /\ ledger[e] = "none" /\ ledger'[e] = "received"
            /\ \A f \in Sessions \ {e} : ledger'[f] = ledger[f]
            /\ req'[h].for = "webhook" /\ req'[h].of = e
            /\ \A g \in Handlers \ {h} : req'[g] = req[g]
  BY DEF IInv, TypeOK, Deliver, Goes

LEMMA Marking ==
  ASSUME IInv, NEW h \in Handlers, MarkEvent(h)
  PROVE  \E e \in Sessions :
           /\ req[h].for = "webhook" /\ req[h].of = e
           /\ ledger'[e] \in {"processed", "unknown_scan"}
           /\ \A f \in Sessions \ {e} : ledger'[f] = ledger[f]
           /\ req'[h].for # "webhook"
           /\ \A g \in Handlers \ {h} : req'[g] = req[g]
<1>1. req[h] \in Grant /\ req[h].for = "webhook"
  BY RequestKinds DEF IInv, TypeOK, MarkEvent, At
<1>2. PICK e \in Sessions : e = req[h].of
  BY <1>1 DEF Grant
<1>3. ledger \in [Sessions -> LedgerState] /\ req \in [Handlers -> Request]
  BY DEF IInv, TypeOK
<1>4. /\ ledger'[e] \in {"processed", "unknown_scan"}
      /\ \A f \in Sessions \ {e} : ledger'[f] = ledger[f]
  BY <1>2, <1>3 DEF MarkEvent
<1>5. req'[h].for # "webhook" /\ \A g \in Handlers \ {h} : req'[g] = req[g]
  BY <1>3 DEF MarkEvent, Goes, Idle
<1> QED
  BY <1>1, <1>2, <1>4, <1>5

\* webhook/route.ts: "first sighting wins": at most one delivery of an event is ever
\* at work, and as long as it is the ledger says so.
THEOREM OneDeliveryClaims == Spec => []OneClaim
<1>1. Init => OneClaim
  BY DEF Init, OneClaim, Idle
<1>2. IInv /\ OneClaim /\ [Next]_vars => OneClaim'
  <2> SUFFICES ASSUME IInv, OneClaim, [Next]_vars PROVE OneClaim'
    OBVIOUS
  <2>0. \A h \in Handlers : req[h].for = "webhook" => req[h].of \in Sessions
    BY RequestKinds DEF IInv, TypeOK, Grant
  <2>1. CASE UNCHANGED vars
    BY <2>1 DEF vars, OneClaim
  <2>2. ASSUME NEW h \in Handlers, NEW e \in Sessions, Deliver(h, e) PROVE OneClaim'
    <3>1. CASE ledger' = ledger /\ req' = req
      BY <3>1, ClaimsStay
    <3>2. CASE /\ ledger[e] = "none" /\ ledger'[e] = "received"
               /\ \A f \in Sessions \ {e} : ledger'[f] = ledger[f]
               /\ req'[h].for = "webhook" /\ req'[h].of = e
               /\ \A g \in Handlers \ {h} : req'[g] = req[g]
      <4>1. \A g \in Handlers : req[g].for = "webhook" => req[g].of # e
        BY <3>2 DEF OneClaim
      <4> QED
        BY <2>0, <3>2, <4>1 DEF OneClaim
    <3> QED
      BY <2>2, <3>1, <3>2, Claiming
  <2>3. ASSUME NEW h \in Handlers, MarkEvent(h) PROVE OneClaim'
    <3>1. PICK e \in Sessions :
            /\ req[h].for = "webhook" /\ req[h].of = e
            /\ ledger'[e] \in {"processed", "unknown_scan"}
            /\ \A f \in Sessions \ {e} : ledger'[f] = ledger[f]
            /\ req'[h].for # "webhook"
            /\ \A g \in Handlers \ {h} : req'[g] = req[g]
      BY <2>3, Marking
    <3>2. \A g \in Handlers \ {h} : req[g].for = "webhook" => req[g].of # e
      BY <3>1 DEF OneClaim
    <3> QED
      BY <2>0, <3>1, <3>2 DEF OneClaim
  <2>4. CASE Next /\ \A h \in Handlers : ~MarkEvent(h) /\ \A e \in Sessions : ~Deliver(h, e)
    BY <2>4, ClaimsUntouched, ClaimsStay
  <2> QED
    BY <2>1, <2>2, <2>3, <2>4
<1> QED
  BY Invariance, <1>1, <1>2, PTL DEF Spec

\* webhook/route.ts:42: the status of an event is final once it is marked, and a
\* claimed event whose delivery died stays as it is: Stripe's redeliveries are
\* acknowledged as duplicates and no step of the program ever takes it up again.
SettledForGood ==
  [][\A e \in Sessions :
       /\ ledger[e] \in {"processed", "unknown_scan"} => ledger'[e] = ledger[e]
       /\ Orphaned(e) => Orphaned(e)']_vars

THEOREM NoSecondChance == Spec => SettledForGood
<1>1. IInv /\ OneClaim /\ [Next]_vars =>
        [\A e \in Sessions :
           /\ ledger[e] \in {"processed", "unknown_scan"} => ledger'[e] = ledger[e]
           /\ Orphaned(e) => Orphaned(e)']_vars
  <2> SUFFICES ASSUME IInv, OneClaim, Next, NEW e \in Sessions
               PROVE  /\ ledger[e] \in {"processed", "unknown_scan"} => ledger'[e] = ledger[e]
                      /\ Orphaned(e) => Orphaned(e)'
    OBVIOUS
  <2>1. ASSUME NEW h \in Handlers, NEW f \in Sessions, Deliver(h, f)
        PROVE  /\ ledger[e] # "none" => ledger'[e] = ledger[e]
               /\ Orphaned(e) => Orphaned(e)'
    <3>1. CASE ledger' = ledger /\ req' = req
      BY <3>1 DEF Orphaned
    <3>2. CASE /\ ledger[f] = "none" /\ ledger'[f] = "received"
               /\ \A x \in Sessions \ {f} : ledger'[x] = ledger[x]
               /\ req'[h].for = "webhook" /\ req'[h].of = f
               /\ \A g \in Handlers \ {h} : req'[g] = req[g]
      BY <3>2 DEF Orphaned
    <3> QED
      BY <2>1, <3>1, <3>2, Claiming
  <2>2. ASSUME NEW h \in Handlers, MarkEvent(h)
        PROVE  /\ ledger[e] \in {"processed", "unknown_scan"} => ledger'[e] = ledger[e]
               /\ Orphaned(e) => Orphaned(e)'
    <3>1. PICK f \in Sessions :
            /\ req[h].for = "webhook" /\ req[h].of = f
            /\ \A x \in Sessions \ {f} : ledger'[x] = ledger[x]
            /\ req'[h].for # "webhook"
            /\ \A g \in Handlers \ {h} : req'[g] = req[g]
      BY <2>2, Marking
    <3>2. ledger[f] = "received"
      BY <3>1 DEF OneClaim
    <3>3. Orphaned(e) => e # f
      BY <3>1 DEF Orphaned
    <3> QED
      BY <3>1, <3>2, <3>3 DEF Orphaned
  <2>3. CASE \A h \in Handlers : ~MarkEvent(h) /\ \A f \in Sessions : ~Deliver(h, f)
    BY <2>3, ClaimsUntouched DEF Orphaned
  <2> QED
    BY <2>1, <2>2, <2>3
<1> QED
  BY Invariance, OneDeliveryClaims, <1>1, PTL DEF Spec, SettledForGood


-----------------------------------------------------------------------------
\* webhook/route.ts answers 200 only for an event that is in its ledger.
KeptRecord == \A e \in acked : ledger[e] # "none"

LEMMA RecordKept == IInv /\ KeptRecord /\ [Next]_vars => KeptRecord'
<1> SUFFICES ASSUME IInv, KeptRecord, [Next]_vars PROVE KeptRecord'
  OBVIOUS
<1>1. ledger \in [Sessions -> LedgerState] /\ acked \subseteq Sessions
  BY DEF IInv, TypeOK
<1>2. ASSUME NEW h \in Handlers, NEW e \in Sessions, Deliver(h, e) PROVE KeptRecord'
  BY <1>1, <1>2 DEF Deliver, KeptRecord
<1>3. ASSUME NEW h \in Handlers, MarkEvent(h) PROVE KeptRecord'
  <2>1. PICK s \in {"processed", "unknown_scan"} : ledger' = [ledger EXCEPT ![req[h].of] = s]
    BY <1>3 DEF MarkEvent
  <2>2. acked' = acked \cup {req[h].of}
    BY <1>3 DEF MarkEvent
  <2>3. req[h].of \in Sessions
    BY <1>3, RequestKinds DEF MarkEvent, At, IInv, TypeOK, Grant
  <2> QED
    BY <1>1, <2>1, <2>2, <2>3 DEF KeptRecord
<1>4. CASE UNCHANGED <<ledger, acked>>
  BY <1>4 DEF KeptRecord
<1> QED
  BY <1>2, <1>3, <1>4 DEF Next, vars, tables, stripe, Redeem, StartCheckout, Return, Works,
       PromoChecksScan, PromoChecksLimit, PromoInserts, createCheckoutSession, NotConfigured,
       GrantChecksScan, GrantInserts, ReturnEnds, Fail, Complete, Clear

\* What Stripe was answered 200 for, and so will not deliver again, is settled,
\* whatever deliveries overlap, die or are repeated (webhook/route.ts:54).
THEOREM AnsweredPaymentsAreSettled == Spec => []AnsweredIsSettled
<1>1. Init => KeptRecord
  BY DEF Init, KeptRecord
<1>2. IInv /\ KeptRecord => AnsweredIsSettled
  <2> SUFFICES ASSUME IInv, KeptRecord, NEW e \in acked, scanOf[e] \in KnownScans,
                      ~ Entitled(scanOf[e])
               PROVE  \/ \E h \in Handlers : req[h].for = "webhook" /\ req[h].of = e
                      \/ Orphaned(e)
    BY DEF AnsweredIsSettled
  <2>1. e \in Sessions /\ ledger[e] \in LedgerState \ {"none"}
    BY DEF IInv, TypeOK, KeptRecord
  <2>2. ledger[e] = "received"
    BY <2>1 DEF LedgerState, IInv, LedgerIsTrue
  <2> QED
    BY <2>2 DEF Orphaned
<1> QED
  BY Invariance, RecordKept, <1>1, <1>2, PTL DEF Spec

=============================================================================
