--------------------------- MODULE Entitlements ---------------------------
(***************************************************************************)
(* Unlocking the full report: promo codes, Stripe Checkout, the Stripe     *)
(* webhook and the return from Checkout, as concurrent request handlers    *)
(* over the payments and stripe_events tables (apps/web/lib/payments and   *)
(* the API routes).  Every `await query(...)` is a transaction of its own, *)
(* so each is a step, and a handler may die between any two.               *)
(*                                                                         *)
(* Stripe itself is external: a checkout session is completed by the       *)
(* customer, the money arrives at once or later, and the completion event  *)
(* is delivered at least once, again until a delivery is answered 200.     *)
(***************************************************************************)
EXTENDS Naturals, FiniteSets

CONSTANTS
  Scans,      \* scan ids a request may name
  KnownScans, \* those that have a row in `scans`, with a finished report
  Sessions,   \* Stripe checkout sessions, and their completion events
  Handlers,   \* requests that can be in flight at once
  LimitedMax, \* PROMO_LIMITED_MAX
  NoScan      \* the scan of a session not yet created

ASSUME KnownAreScans     == KnownScans \subseteq Scans /\ NoScan \notin Scans
ASSUME HandlersAreFinite == IsFiniteSet(Handlers)
ASSUME LimitedMaxIsPos   == LimitedMax \in Nat \ {0}

VARIABLES
  redeemed,   \* how many paid rows carry the limited promo product
  promoScans, \* scans with a paid row of provider 'promo'
  stripeRows, \* per session, its paid rows of provider 'stripe'
  ledger,     \* per session, the status of its event in stripe_events
  req,        \* what each handler is doing
  session,    \* per session, its state at Stripe
  scanOf,     \* per session, its client_reference_id
  acked       \* sessions whose event has been answered 200

tables == <<redeemed, promoScans, stripeRows, ledger>>
stripe == <<session, scanOf, acked>>
vars   == <<redeemed, promoScans, stripeRows, ledger, req, session, scanOf, acked>>

PromoKind     == {"limited", "unlimited"}
SessionState  == {"none", "open", "clearing", "paid"}
LedgerState   == {"none", "received", "processed", "unknown_scan"}

Idle     == [for |-> "nothing"]
Promo    == [for : {"promo"}, scan : Scans, kind : PromoKind,
             step : {"entitled?", "limit?", "insert"}]
Checkout == [for : {"checkout"}, scan : Scans]
Grant    == [for : {"webhook", "return"}, of : Sessions,
             step : {"entitled?", "insert", "granted", "unknown"}]
Request  == {Idle} \cup Promo \cup Checkout \cup Grant

Init ==
  /\ redeemed = 0
  /\ promoScans = {}
  /\ stripeRows = [e \in Sessions |-> 0]
  /\ ledger = [e \in Sessions |-> "none"]
  /\ req = [h \in Handlers |-> Idle]
  /\ session = [e \in Sessions |-> "none"]
  /\ scanOf = [e \in Sessions |-> NoScan]
  /\ acked = {}

Goes(h, r)   == req' = [req EXCEPT ![h] = r]
Step(h, s)   == Goes(h, [req[h] EXCEPT !.step = s])
At(h, f, s)  == req[h].for = f /\ req[h].step = s

\* hasEntitlement: some row of the scan has status 'paid'.
Entitled(s) == s \in promoScans \/ \E e \in Sessions : scanOf[e] = s /\ stripeRows[e] > 0

----------------------------------------------------------------------------
(* POST /api/scans/[id]/unlock: grantPromoEntitlement. *)

Redeem(h, s, k) ==
  /\ req[h] = Idle
  /\ Goes(h, [for |-> "promo", scan |-> s, kind |-> k, step |-> "entitled?"])
  /\ UNCHANGED <<tables, stripe>>

\* hasEntitlement and resolveScanOwner: already_entitled and not_found end it.
PromoChecksScan(h) ==
  /\ At(h, "promo", "entitled?")
  /\ IF Entitled(req[h].scan) \/ req[h].scan \notin KnownScans
       THEN Goes(h, Idle)
       ELSE Step(h, IF req[h].kind = "limited" THEN "limit?" ELSE "insert")
  /\ UNCHANGED <<tables, stripe>>

\* Mutant: used > limit.
LimitExceeded == redeemed > LimitedMax
limitedPromoLimitReached == redeemed >= LimitedMax

PromoChecksLimit(h) ==
  /\ At(h, "promo", "limit?")
  /\ IF limitedPromoLimitReached THEN Goes(h, Idle) ELSE Step(h, "insert")
  /\ UNCHANGED <<tables, stripe>>

PromoInserts(h) ==
  /\ At(h, "promo", "insert")
  /\ redeemed' = redeemed + (IF req[h].kind = "limited" THEN 1 ELSE 0)
  /\ promoScans' = promoScans \cup {req[h].scan}
  /\ Goes(h, Idle)
  /\ UNCHANGED <<stripeRows, ledger, stripe>>

----------------------------------------------------------------------------
(* POST /api/checkout: createCheckoutSession; and the customer at Stripe. *)

StartCheckout(h, s) ==
  /\ req[h] = Idle
  /\ ~Entitled(s)
  /\ Goes(h, [for |-> "checkout", scan |-> s])
  /\ UNCHANGED <<tables, stripe>>

createCheckoutSession(h, e) ==
  /\ req[h].for = "checkout"
  /\ session[e] = "none"
  /\ session' = [session EXCEPT ![e] = "open"]
  /\ scanOf' = [scanOf EXCEPT ![e] = req[h].scan]
  /\ Goes(h, Idle)
  /\ UNCHANGED <<tables, acked>>

\* Stripe is not configured, or its answer has no url: 503, and no session.
NotConfigured(h) == req[h].for = "checkout" /\ Goes(h, Idle) /\ UNCHANGED <<tables, stripe>>

\* The customer completes the session; its payment method may clear later.
Complete(e) ==
  /\ session[e] = "open"
  /\ \E s \in {"clearing", "paid"} : session' = [session EXCEPT ![e] = s]
  /\ UNCHANGED <<tables, req, scanOf, acked>>

Clear(e) ==
  /\ session[e] = "clearing"
  /\ session' = [session EXCEPT ![e] = "paid"]
  /\ UNCHANGED <<tables, req, scanOf, acked>>

Completed(e) == session[e] \in {"clearing", "paid"}

----------------------------------------------------------------------------
(* POST /api/stripe/webhook. *)

\* Mutant: a session whose payment has not cleared is answered before it is claimed.
DeliverOnlyPaid(h, e) ==
  /\ req[h] = Idle
  /\ Completed(e)
  /\ IF ledger[e] = "none" /\ session[e] = "paid"
       THEN /\ ledger' = [ledger EXCEPT ![e] = "received"]
            /\ Goes(h, [for |-> "webhook", of |-> e, step |-> "entitled?"])
            /\ UNCHANGED acked
       ELSE /\ acked' = acked \cup {e}
            /\ UNCHANGED <<ledger, req>>
  /\ UNCHANGED <<redeemed, promoScans, stripeRows, session, scanOf>>

\* A delivery starts by claiming the event: first sighting wins, a later one is
\* acknowledged as a duplicate.
Deliver(h, e) ==
  /\ req[h] = Idle
  /\ Completed(e)
  /\ IF ledger[e] = "none"
       THEN /\ ledger' = [ledger EXCEPT ![e] = "received"]
            /\ Goes(h, [for |-> "webhook", of |-> e, step |-> "entitled?"])
            /\ UNCHANGED acked
       ELSE /\ acked' = acked \cup {e}
            /\ UNCHANGED <<ledger, req>>
  /\ UNCHANGED <<redeemed, promoScans, stripeRows, session, scanOf>>

\* Mutant: the ledger is given the outcome of the grant, not a status of its own.
MarkEventVerbatim(h) ==
  /\ \E s \in {"granted", "unknown"} :
       /\ At(h, "webhook", s)
       /\ ledger' = [ledger EXCEPT ![req[h].of] = s]
  /\ acked' = acked \cup {req[h].of}
  /\ Goes(h, Idle)
  /\ UNCHANGED <<redeemed, promoScans, stripeRows, session, scanOf>>

\* grantStripeEntitlement returned: the ledger row is completed, the answer is 200.
MarkEvent(h) ==
  /\ \E s \in {"granted", "unknown"} :
       /\ At(h, "webhook", s)
       /\ ledger' = [ledger EXCEPT ![req[h].of] =
                       IF s = "granted" THEN "processed" ELSE "unknown_scan"]
  /\ acked' = acked \cup {req[h].of}
  /\ Goes(h, Idle)
  /\ UNCHANGED <<redeemed, promoScans, stripeRows, session, scanOf>>

----------------------------------------------------------------------------
(* /report/[id]?session_id=...: confirmCheckoutSession. *)

\* Stripe says the session is paid, and it belongs to the scan of the page.
Return(h, e) ==
  /\ req[h] = Idle
  /\ session[e] = "paid"
  /\ scanOf[e] \in KnownScans
  /\ ~Entitled(scanOf[e])
  /\ Goes(h, [for |-> "return", of |-> e, step |-> "entitled?"])
  /\ UNCHANGED <<tables, stripe>>

\* The page is rendered, unlocked or redirected to the paywall.
ReturnEnds(h) ==
  /\ \E s \in {"granted", "unknown"} : At(h, "return", s)
  /\ Goes(h, Idle)
  /\ UNCHANGED <<tables, stripe>>

----------------------------------------------------------------------------
(* grantStripeEntitlement, called by the webhook and by the return. *)

\* Mutant: any scan id is taken to have an owner.
GrantTrustsScan(h) ==
  /\ \E f \in {"webhook", "return"} : At(h, f, "entitled?")
  /\ Step(h, IF scanOf[req[h].of] \in KnownScans /\ ~Entitled(scanOf[req[h].of])
               THEN "insert" ELSE "granted")
  /\ UNCHANGED <<tables, stripe>>

\* hasEntitlement, then resolveScanOwner.
GrantChecksScan(h) ==
  /\ \E f \in {"webhook", "return"} : At(h, f, "entitled?")
  /\ LET s == scanOf[req[h].of]
     IN  Step(h, IF Entitled(s) THEN "granted"
                 ELSE IF s \in KnownScans THEN "insert" ELSE "unknown")
  /\ UNCHANGED <<tables, stripe>>

\* INSERT ... ON CONFLICT (stripe_checkout_session_id) DO NOTHING.
GrantInserts(h) ==
  /\ \E f \in {"webhook", "return"} : At(h, f, "insert")
  /\ stripeRows' = [stripeRows EXCEPT ![req[h].of] = IF @ = 0 THEN 1 ELSE @]
  /\ Step(h, "granted")
  /\ UNCHANGED <<redeemed, promoScans, ledger, stripe>>

\* Mutant: a delivery that fails gives its event back, for Stripe's next delivery.
FailReleases(h) ==
  /\ req[h] # Idle
  /\ ledger' = IF req[h].for = "webhook" THEN [ledger EXCEPT ![req[h].of] = "none"]
               ELSE ledger
  /\ Goes(h, Idle)
  /\ UNCHANGED <<redeemed, promoScans, stripeRows, stripe>>

\* The request dies: the function is killed, or a statement or Stripe fails.
\* What it has written stays; a delivery is answered 500 or not at all.
Fail(h) ==
  /\ req[h] # Idle
  /\ Goes(h, Idle)
  /\ UNCHANGED <<tables, stripe>>

----------------------------------------------------------------------------
Works(h) ==
  \/ PromoChecksScan(h) \/ PromoChecksLimit(h) \/ PromoInserts(h)
  \/ \E e \in Sessions : createCheckoutSession(h, e)
  \/ NotConfigured(h)
  \/ GrantChecksScan(h) \/ GrantInserts(h) \/ MarkEvent(h) \/ ReturnEnds(h)

Next ==
  \/ \E h \in Handlers :
       \/ \E s \in Scans, k \in PromoKind : Redeem(h, s, k)
       \/ \E s \in Scans : StartCheckout(h, s)
       \/ \E e \in Sessions : Deliver(h, e) \/ Return(h, e)
       \/ Works(h)
       \/ Fail(h)
  \/ \E e \in Sessions : Complete(e) \/ Clear(e)

Spec == Init /\ [][Next]_vars

\* A live handler goes on, and Stripe redelivers what was not answered 200.  New
\* requests can always find a function instance: Handlers bounds the model, not
\* the deployment, hence strong fairness for a delivery.
Redeliver(e) == e \notin acked /\ \E h \in Handlers : Deliver(h, e)
FairSpec ==
  /\ Spec
  /\ \A h \in Handlers : WF_vars(Works(h))
  /\ \A e \in Sessions : SF_vars(Redeliver(e))

----------------------------------------------------------------------------
TypeOK ==
  /\ redeemed \in Nat
  /\ promoScans \subseteq Scans
  /\ stripeRows \in [Sessions -> Nat]
  /\ ledger \in [Sessions -> LedgerState]
  /\ req \in [Handlers -> Request]
  /\ session \in [Sessions -> SessionState]
  /\ scanOf \in [Sessions -> Scans \cup {NoScan}]
  /\ acked \subseteq Sessions

\* Handlers that have passed the cap check of the limited code and not inserted.
PastLimit == {h \in Handlers : At(h, "promo", "insert") /\ req[h].kind = "limited"}

\* The cap of the limited code (entitlements.ts:118) is a check followed by an
\* insert, so requests in flight together can pass it together: the overrun is
\* at most the number of them less one, and none when requests come one by one.
OverrunIsBounded == redeemed + Cardinality(PastLimit) < LimitedMax + Cardinality(Handlers)

\* What the ledger says of an event is true of the tables: a processed payment
\* has unlocked its scan, and only a scan that does not exist is unknown.
LedgerIsTrue ==
  \A e \in Sessions :
    /\ ledger[e] = "processed" => Entitled(scanOf[e])
    /\ ledger[e] = "unknown_scan" => scanOf[e] \notin KnownScans

\* An event that is claimed and that no handler is working on any more.
Orphaned(e) ==
  /\ ledger[e] = "received"
  /\ \A h \in Handlers : req[h].for = "webhook" => req[h].of # e

\* Stripe stops redelivering a payment for a scan only when the scan is unlocked,
\* when a delivery is at work on it, or when the one that claimed it died: although
\* a duplicate is answered 200 before the first delivery has succeeded, and that one
\* may still fail, no answer loses a payment the ledger knows nothing of
\* (webhook/route.ts:47-56).  What has been answered is never forgotten.
AnsweredIsSettled ==
  \A e \in acked :
    scanOf[e] \in KnownScans =>
      \/ Entitled(scanOf[e])
      \/ \E h \in Handlers : req[h].for = "webhook" /\ req[h].of = e
      \/ Orphaned(e)

\* A customer who has paid gets the report without coming back, unless the
\* handler that claimed the event died: that is the only way to be left locked.
PaidIsUnlockedOrOrphaned ==
  \A e \in Sessions :
    session[e] = "paid" /\ scanOf[e] \in KnownScans
      ~> Entitled(scanOf[e]) \/ Orphaned(e)

----------------------------------------------------------------------------
(* What comments say and the code does not do; each is refuted by a run. *)

\* entitlements.ts:115 "For the limited code, enforces its cap before granting".
LimitIsKept == redeemed <= LimitedMax

\* webhook/route.ts:15 "Redeliveries are safe: the stripe_events ledger dedupes
\* by event id": a paid session's scan is unlocked by one of the deliveries.
PaidIsUnlocked ==
  \A e \in Sessions :
    session[e] = "paid" /\ scanOf[e] \in KnownScans ~> Entitled(scanOf[e])
=============================================================================
