--------------------------- MODULE AccountsProofs ---------------------------
(* Accounts for any emails, addresses, handlers and limits.                  *)
EXTENDS Accounts, FiniteSetTheorems, SequenceTheorems, TLAPS

\* The record of a request is told apart by its step.
LEMMA RequestKinds ==
  ASSUME NEW r \in Request
  PROVE  /\ r.at = "register" => r.email \in Emails /\ r.expires \in Nat
         /\ r.at \in {"begun", "verifying"} =>
              r \in [at : {"begun", "verifying"}, email : Emails, now : 0 .. MaxClock]
         /\ r.at \in {"checked", "wrong", "right", "recorded"} =>
              r \in [at : {"checked", "wrong", "right", "recorded"}, email : Emails,
                     ip : Addresses]
<1>1. CASE r = Idle
  BY <1>1 DEF Idle
<1>2. CASE r \in [at : {"register"}, email : Emails, expires : Nat]
  BY <1>2
<1>3. CASE r \in [at : {"begun", "verifying"}, email : Emails, now : 0 .. MaxClock]
  BY <1>3
<1>4. CASE r \in [at : {"checked", "wrong", "right", "recorded"}, email : Emails,
                  ip : Addresses]
  BY <1>4
<1> QED
  BY <1>1, <1>2, <1>3, <1>4 DEF Request

\* Only registered users verify and log in; one transaction holds a
\* token's row, and the row it holds is not consumed.
InFlight ==
    \A h \in Handlers :
        /\ req[h].at = "register" => users[req[h].email] = "none"
        /\ req[h].at \in {"begun", "right", "recorded"} => users[req[h].email] # "none"
        /\ req[h].at = "verifying" => users[req[h].email] = "pending"
OneHolder ==
    \A g, h \in Handlers :
        /\ req[g].at = req[h].at /\ req[g].at \in {"register", "verifying"}
        /\ req[g].email = req[h].email
        => g = h
SessionUsers == \A s \in DOMAIN sessions : users[sessions[s].user] # "none"

Inv == TypeOK /\ InFlight /\ OneHolder /\ SessionUsers /\ VerifiedOnce

LEMMA Initially == Init => Inv
<1> SUFFICES ASSUME Init PROVE Inv
  OBVIOUS
<1>1. TypeOK
  BY AccountsAssumption DEF Init, TypeOK, Token, Request, Idle
<1>2. InFlight /\ OneHolder
  BY DEF Init, InFlight, OneHolder, Idle
<1>3. SessionUsers /\ VerifiedOnce
  BY DEF Init, SessionUsers, VerifiedOnce
<1> QED
  BY <1>1, <1>2, <1>3 DEF Inv

\* One handler moves to the record r and no row changes.
LEMMA Moves ==
  ASSUME Inv, NEW h \in Handlers, NEW r \in Request, Goes(h, r),
         UNCHANGED <<clock, users, token, sessions, verified>>,
         attempts' \in Seq(Attempt),
         r.at = "register" => users[r.email] = "none" /\ Holders("register", r.email) = {},
         r.at \in {"begun", "right", "recorded"} => users[r.email] # "none",
         r.at = "verifying" =>
             users[r.email] = "pending" /\ Holders("verifying", r.email) = {}
  PROVE  Inv'
<1>1. /\ req' = [req EXCEPT ![h] = r] /\ req \in [Handlers -> Request]
      /\ req' \in [Handlers -> Request]
      /\ \A g \in Handlers : req'[g] = IF g = h THEN r ELSE req[g]
  BY DEF Goes, Inv, TypeOK
<1>2. TypeOK'
  BY <1>1 DEF Inv, TypeOK
<1>3. InFlight'
  BY <1>1 DEF Inv, InFlight
<1>4. OneHolder'
  <2> SUFFICES ASSUME NEW f \in Handlers, NEW g \in Handlers,
                      req'[f].at = req'[g].at, req'[f].at \in {"register", "verifying"},
                      req'[f].email = req'[g].email
               PROVE  f = g
    BY DEF OneHolder
  <2>1. CASE f # h /\ g # h
    BY <1>1, <2>1 DEF Inv, OneHolder
  <2>2. CASE f = h /\ g # h
    BY <1>1, <2>2 DEF Holders, At
  <2>3. CASE f # h /\ g = h
    BY <1>1, <2>3 DEF Holders, At
  <2> QED
    BY <2>1, <2>2, <2>3
<1>5. SessionUsers' /\ VerifiedOnce'
  BY DEF Inv, SessionUsers, VerifiedOnce
<1> QED
  BY <1>2, <1>3, <1>4, <1>5 DEF Inv

LEMMA IdleRequest == Idle \in Request /\ Idle.at = "idle"
BY DEF Request, Idle

LEMMA EndStep ==
  ASSUME Inv, NEW h \in Handlers, Ends(h), attempts' \in Seq(Attempt),
         UNCHANGED <<clock, users, token, sessions, verified>>
  PROVE  Inv'
<1>1. Goes(h, Idle)
  BY DEF Ends
<1> QED
  BY <1>1, IdleRequest, Moves

\* A handler ends: the others keep what they were doing.
LEMMA Ended ==
  ASSUME req \in [Handlers -> Request], NEW h \in Handlers, Ends(h)
  PROVE  /\ req' \in [Handlers -> Request]
         /\ req'[h] = Idle
         /\ \A g \in Handlers \ {h} : req'[g] = req[g]
BY IdleRequest DEF Ends, Goes

-----------------------------------------------------------------------------
\* The steps that only move a request.
LEMMA MoveSteps ==
  ASSUME Inv, NEW h \in Handlers,
         \/ \E e \in Emails : RegisterInsert(h, e) \/ VerifyBegin(h, e)
         \/ \E e \in Emails, ip \in Addresses : LoginCheck(h, e, ip)
  PROVE  Inv'
<1>0. attempts \in Seq(Attempt) /\ clock \in Nat /\ clock \in 0 .. MaxClock
  BY AccountsAssumption DEF Inv, TypeOK
<1>1. ASSUME NEW e \in Emails, RegisterInsert(h, e) PROVE Inv'
  <2> DEFINE r == [at |-> "register", email |-> e, expires |-> clock + VerifyTtl]
  <2>1. r \in Request /\ r.at = "register" /\ r.email = e
    BY <1>0, AccountsAssumption DEF Request
  <2> HIDE DEF r
  <2>2. Goes(h, r) /\ users[e] = "none" /\ Holders("register", e) = {}
    BY <1>1 DEF RegisterInsert, r
  <2> QED
    BY <1>0, <1>1, <2>1, <2>2, Moves DEF RegisterInsert
<1>2. ASSUME NEW e \in Emails, VerifyBegin(h, e) PROVE Inv'
  <2> DEFINE r == [at |-> "begun", email |-> e, now |-> clock]
  <2>1. r \in Request /\ r.at = "begun" /\ r.email = e
    BY <1>0 DEF Request
  <2> HIDE DEF r
  <2>2. Goes(h, r) /\ users[e] # "none"
    BY <1>2 DEF VerifyBegin, r
  <2> QED
    BY <1>0, <1>2, <2>1, <2>2, Moves DEF VerifyBegin
<1>3. ASSUME NEW e \in Emails, NEW ip \in Addresses, LoginCheck(h, e, ip) PROVE Inv'
  <2> DEFINE r == [at |-> "checked", email |-> e, ip |-> ip]
  <2>1. r \in Request /\ r.at = "checked"
    BY DEF Request
  <2> HIDE DEF r
  <2>2. Goes(h, r)
    BY <1>3 DEF LoginCheck, r
  <2> QED
    BY <1>0, <1>3, <2>1, <2>2, Moves DEF LoginCheck
<1> QED
  BY <1>1, <1>2, <1>3

\* The steps of a login up to the ledger.
LEMMA LoginSteps ==
  ASSUME Inv, NEW h \in Handlers, LoginVerify(h) \/ LoginFails(h) \/ LoginRecords(h)
  PROVE  Inv'
<1> DEFINE e == req[h].email
           Logins == [at : {"checked", "wrong", "right", "recorded"}, email : Emails,
                      ip : Addresses]
<1>1. req[h] \in Logins
  BY RequestKinds DEF LoginVerify, LoginFails, LoginRecords, At, Inv, TypeOK
<1>2. \A st \in {"checked", "wrong", "right", "recorded"} :
        [req[h] EXCEPT !.at = st] \in Logins
  BY <1>1
<1>3. Logins \subseteq Request
  BY DEF Request
<1>4. e \in Emails /\ clock \in 0 .. MaxClock /\ attempts \in Seq(Attempt)
  BY <1>1 DEF Inv, TypeOK
<1>5. \A ok \in BOOLEAN : [email |-> e, ip |-> req[h].ip, ok |-> ok, at |-> clock] \in Attempt
  BY <1>1, <1>4 DEF Attempt
<1>6. CASE LoginVerify(h)
  <2>1. PICK ok \in IF users[e] = "none" THEN {FALSE} ELSE BOOLEAN :
          Goes(h, [req[h] EXCEPT !.at = IF ok THEN "right" ELSE "wrong"])
    BY <1>6 DEF LoginVerify
  <2> DEFINE r == [req[h] EXCEPT !.at = IF ok THEN "right" ELSE "wrong"]
  <2>2. /\ r \in Request /\ r.email = e /\ r.at \in {"right", "wrong"}
        /\ (r.at = "right" => users[e] # "none")
    BY <1>1, <1>2, <1>3, <2>1
  <2>3. Goes(h, r)
    BY <2>1
  <2> HIDE DEF r
  <2> QED
    BY <1>4, <1>6, <2>2, <2>3, Moves DEF LoginVerify
<1>7. CASE LoginFails(h)
  <2>1. attempts' \in Seq(Attempt)
    BY <1>4, <1>5, <1>7, AppendProperties DEF LoginFails, Recorded
  <2> QED
    BY <1>7, <2>1, EndStep DEF LoginFails
<1>8. CASE LoginRecords(h)
  <2>1. attempts' \in Seq(Attempt)
    BY <1>4, <1>5, <1>8, AppendProperties DEF LoginRecords, Recorded
  <2> DEFINE r == [req[h] EXCEPT !.at = "recorded"]
  <2>2. r \in Request /\ r.at = "recorded" /\ r.email = e
    BY <1>1, <1>2, <1>3
  <2>3. Goes(h, r) /\ users[e] # "none"
    BY <1>8 DEF LoginRecords, At, Inv, InFlight
  <2> HIDE DEF r
  <2> QED
    BY <1>8, <2>1, <2>2, <2>3, Moves DEF LoginRecords
<1> QED
  BY <1>6, <1>7, <1>8

\* The UPDATE of the token row.
LEMMA VerifyUpdateStep ==
  ASSUME Inv, NEW h \in Handlers, VerifyUpdate(h)
  PROVE  Inv'
<1> DEFINE r == [req[h] EXCEPT !.at = "verifying"]
<1>1. req[h] \in [at : {"begun", "verifying"}, email : Emails, now : 0 .. MaxClock]
  BY RequestKinds DEF VerifyUpdate, At, Inv, TypeOK
<1>2. r \in Request /\ r.at = "verifying" /\ r.email = req[h].email /\ r.email \in Emails
  BY <1>1 DEF Request
<1>3. /\ attempts' \in Seq(Attempt) /\ Holders("verifying", req[h].email) = {}
      /\ users[req[h].email] # "none"
  BY DEF VerifyUpdate, At, Inv, TypeOK, InFlight
<1>4. CASE Ends(h)
  BY <1>3, <1>4, EndStep DEF VerifyUpdate
<1>5. CASE Usable(req[h].email, req[h].now) /\ Goes(h, r)
  <2>1. users[req[h].email] = "pending"
    BY <1>2, <1>3, <1>5 DEF Usable, Inv, VerifiedOnce, TypeOK
  <2> HIDE DEF r
  <2> QED
    BY <1>2, <1>3, <1>5, <2>1, Moves DEF VerifyUpdate
<1> QED
  BY <1>4, <1>5 DEF VerifyUpdate

-----------------------------------------------------------------------------
\* The commits.
LEMMA RegisterCommitStep ==
  ASSUME Inv, NEW h \in Handlers, RegisterCommit(h)
  PROVE  Inv'
<1> DEFINE e == req[h].email
<1>1. e \in Emails /\ req[h].expires \in Nat /\ req[h].at = "register" /\ users[e] = "none"
  BY RequestKinds DEF RegisterCommit, At, Inv, TypeOK, InFlight
<1>2. /\ req' \in [Handlers -> Request] /\ req'[h] = Idle
      /\ \A g \in Handlers \ {h} : req'[g] = req[g]
  BY Ended DEF RegisterCommit, Inv, TypeOK
<1>3. /\ users' = [users EXCEPT ![e] = "pending"]
      /\ token' = [token EXCEPT ![e] = [expires |-> req[h].expires, consumed |-> FALSE]]
      /\ UNCHANGED <<clock, attempts, sessions, verified>>
  BY DEF RegisterCommit
<1>4. TypeOK'
  BY <1>1, <1>2, <1>3 DEF Inv, TypeOK, Token
<1>5. InFlight'
  <2> SUFFICES ASSUME NEW g \in Handlers
               PROVE  /\ req'[g].at = "register" => users'[req'[g].email] = "none"
                      /\ req'[g].at \in {"begun", "right", "recorded"} =>
                           users'[req'[g].email] # "none"
                      /\ req'[g].at = "verifying" => users'[req'[g].email] = "pending"
    BY DEF InFlight
  <2>1. CASE g = h
    BY <1>2, <2>1 DEF Idle
  <2>2. CASE g # h
    <3>1. req'[g] = req[g] /\ req[g] \in Request
      BY <1>2, <2>2 DEF Inv, TypeOK
    <3>2. req[g].at = "register" => req[g].email # e
      BY <1>1, <2>2 DEF Inv, OneHolder
    <3>3. \A x \in Emails : /\ x # e => users'[x] = users[x]
                            /\ users'[x] = "none" => users[x] = "none"
                            /\ users[x] = "pending" => users'[x] = "pending"
      BY <1>1, <1>3 DEF Inv, TypeOK
    <3> QED
      BY <3>1, <3>2, <3>3, RequestKinds DEF Inv, InFlight
  <2> QED
    BY <2>1, <2>2
<1>6. OneHolder'
  BY <1>2 DEF Inv, OneHolder, Idle
<1>7. SessionUsers'
  BY <1>1, <1>3 DEF Inv, SessionUsers, TypeOK, Session
<1>8. VerifiedOnce'
  BY <1>1, <1>3 DEF Inv, VerifiedOnce, TypeOK, Token
<1> QED
  BY <1>4, <1>5, <1>6, <1>7, <1>8 DEF Inv

LEMMA VerifyCommitStep ==
  ASSUME Inv, NEW h \in Handlers, VerifyCommit(h)
  PROVE  Inv'
<1> DEFINE e == req[h].email
<1>1. e \in Emails /\ req[h].at = "verifying" /\ users[e] = "pending"
  BY RequestKinds DEF VerifyCommit, At, Inv, TypeOK, InFlight
<1>2. /\ req' \in [Handlers -> Request] /\ req'[h] = Idle
      /\ \A g \in Handlers \ {h} : req'[g] = req[g]
  BY Ended DEF VerifyCommit, Inv, TypeOK
<1>3. /\ users' = [users EXCEPT ![e] = "active"]
      /\ token' = [token EXCEPT ![e].consumed = TRUE]
      /\ verified' = [verified EXCEPT ![e] = @ + 1]
      /\ UNCHANGED <<clock, attempts, sessions>>
  BY DEF VerifyCommit
<1>4. TypeOK'
  <2>1. /\ token \in [Emails -> Token] /\ verified \in [Emails -> Nat]
        /\ users \in [Emails -> {"none", "pending", "active"}]
    BY DEF Inv, TypeOK
  <2>2. token[e] \in Token
    BY <1>1, <2>1
  <2>3. [token[e] EXCEPT !.consumed = TRUE] \in Token
    BY <2>2 DEF Token
  <2>4. token' \in [Emails -> Token]
    BY <1>1, <1>3, <2>1, <2>3
  <2>5. users' \in [Emails -> {"none", "pending", "active"}]
    BY <1>1, <1>3, <2>1
  <2>6. verified' \in [Emails -> Nat]
    BY <1>1, <1>3, <2>1
  <2> QED
    BY <1>2, <1>3, <2>4, <2>5, <2>6 DEF Inv, TypeOK
<1>5. InFlight'
  <2> SUFFICES ASSUME NEW g \in Handlers
               PROVE  /\ req'[g].at = "register" => users'[req'[g].email] = "none"
                      /\ req'[g].at \in {"begun", "right", "recorded"} =>
                           users'[req'[g].email] # "none"
                      /\ req'[g].at = "verifying" => users'[req'[g].email] = "pending"
    BY DEF InFlight
  <2>1. CASE g = h
    BY <1>2, <2>1 DEF Idle
  <2>2. CASE g # h
    <3>1. req'[g] = req[g] /\ req[g] \in Request
      BY <1>2, <2>2 DEF Inv, TypeOK
    <3>2. req[g].at = "verifying" => req[g].email # e
      BY <1>1, <2>2 DEF Inv, OneHolder
    <3>3. \A x \in Emails : /\ x # e => users'[x] = users[x]
                            /\ users[x] = "none" <=> users'[x] = "none"
      BY <1>1, <1>3 DEF Inv, TypeOK
    <3> QED
      BY <3>1, <3>2, <3>3, RequestKinds DEF Inv, InFlight
  <2> QED
    BY <2>1, <2>2
<1>6. OneHolder'
  BY <1>2 DEF Inv, OneHolder, Idle
<1>7. SessionUsers'
  BY <1>1, <1>3 DEF Inv, SessionUsers, TypeOK, Session
<1>8. VerifiedOnce'
  <2>1. verified[e] = 0 /\ token \in [Emails -> Token]
    BY <1>1 DEF Inv, VerifiedOnce, TypeOK
  <2>2. /\ \A x \in Emails \ {e} : /\ users'[x] = users[x] /\ verified'[x] = verified[x]
                                   /\ token'[x] = token[x]
        /\ users'[e] = "active" /\ verified'[e] = 1 /\ token'[e].consumed = TRUE
    BY <1>1, <1>3, <2>1 DEF Inv, TypeOK, Token
  <2> QED
    BY <2>2 DEF Inv, VerifiedOnce
<1> QED
  BY <1>4, <1>5, <1>6, <1>7, <1>8 DEF Inv

LEMMA CreateSessionStep ==
  ASSUME Inv, NEW h \in Handlers, CreateSession(h)
  PROVE  Inv'
<1> DEFINE e == req[h].email
           s == [user |-> e, revoked |-> FALSE, expires |-> clock + SessionTtl]
<1>1. /\ e \in Emails /\ users[e] # "none" /\ sessions \in Seq(Session)
      /\ clock \in Nat /\ SessionTtl \in Nat
  BY RequestKinds, AccountsAssumption DEF CreateSession, At, Inv, TypeOK, InFlight
<1>2. s \in Session /\ sessions' = Append(sessions, s)
  BY <1>1 DEF Session, CreateSession
<1>3. /\ req' \in [Handlers -> Request] /\ req'[h] = Idle
      /\ \A g \in Handlers \ {h} : req'[g] = req[g]
  BY Ended DEF CreateSession, Inv, TypeOK
<1>4. UNCHANGED <<clock, users, token, attempts, verified>>
  BY DEF CreateSession
<1>5. s.user = e
  OBVIOUS
<1> HIDE DEF s
<1>6. sessions' \in Seq(Session) /\ \A i \in DOMAIN sessions' : users[sessions'[i].user] # "none"
  BY <1>1, <1>2, <1>5, AppendProperties DEF Inv, SessionUsers
<1>7. TypeOK' /\ SessionUsers'
  BY <1>3, <1>4, <1>6 DEF Inv, TypeOK, SessionUsers
<1>8. InFlight' /\ OneHolder'
  BY <1>3, <1>4 DEF Inv, InFlight, OneHolder, Idle
<1>9. VerifiedOnce'
  BY <1>4 DEF Inv, VerifiedOnce
<1> QED
  BY <1>7, <1>8, <1>9 DEF Inv

LEMMA RevokeStep ==
  ASSUME Inv, NEW s \in DOMAIN sessions, RevokeSession(s)
  PROVE  Inv'
<1>1. /\ sessions' = [sessions EXCEPT ![s].revoked = TRUE] /\ sessions \in Seq(Session)
      /\ UNCHANGED <<clock, users, token, attempts, req, verified>>
  BY DEF RevokeSession, Inv, TypeOK
<1>2. sessions' \in Seq(Session) /\ DOMAIN sessions' = DOMAIN sessions
      /\ \A i \in DOMAIN sessions : sessions'[i].user = sessions[i].user
  <2>a. sessions[s] \in Session
    BY <1>1
  <2>1. [sessions[s] EXCEPT !.revoked = TRUE] \in Session
    BY <2>a DEF Session
  <2> QED
    BY <1>1, <2>1, ExceptSeq DEF Session
<1>3. TypeOK' /\ SessionUsers'
  BY <1>1, <1>2 DEF Inv, TypeOK, SessionUsers
<1>4. InFlight' /\ OneHolder' /\ VerifiedOnce'
  BY <1>1 DEF Inv, InFlight, OneHolder, VerifiedOnce
<1> QED
  BY <1>3, <1>4 DEF Inv

LEMMA TickStep == Inv /\ Tick => Inv'
<1> SUFFICES ASSUME Inv, Tick PROVE Inv'
  OBVIOUS
<1>1. TypeOK'
  BY AccountsAssumption DEF Inv, TypeOK, Tick
<1>2. InFlight' /\ OneHolder' /\ SessionUsers' /\ VerifiedOnce'
  BY DEF Inv, Tick, InFlight, OneHolder, SessionUsers, VerifiedOnce
<1> QED
  BY <1>1, <1>2 DEF Inv

-----------------------------------------------------------------------------
\* The invariant is inductive.
THEOREM Invariance == Spec => []Inv
<1>1. Inv /\ [Next]_vars => Inv'
  <2> SUFFICES ASSUME Inv, [Next]_vars PROVE Inv'
    OBVIOUS
  <2>1. CASE Tick
    BY <2>1, TickStep
  <2>2. CASE \E s \in DOMAIN sessions : RevokeSession(s)
    BY <2>2, RevokeStep
  <2>3. ASSUME NEW h \in Handlers, Handle(h) PROVE Inv'
    <3>1. CASE Die(h)
      BY <3>1, EndStep DEF Die, Inv, TypeOK
    <3> QED
      BY <2>3, <3>1, MoveSteps, LoginSteps, VerifyUpdateStep, RegisterCommitStep,
         VerifyCommitStep, CreateSessionStep DEF Handle
  <2>4. CASE UNCHANGED vars
    BY <2>4 DEF vars, Inv, TypeOK, InFlight, OneHolder, SessionUsers, VerifiedOnce
  <2> QED
    BY <2>1, <2>2, <2>3, <2>4 DEF Next
<1> QED
  BY <1>1, Initially, PTL DEF Spec

\* Rows and requests keep their shape.
THEOREM AccountsTyped == Spec => []TypeOK
BY Invariance, PTL DEF Inv

\* However many verifications of a token race or die, one succeeds.
THEOREM TokensOnce == Spec => []VerifiedOnce
BY Invariance, PTL DEF Inv

-----------------------------------------------------------------------------
(* Counting.  The places of a table that a condition picks are finite, and  *)
(* so are the handlers.                                                     *)
LEMMA RowsFinite ==
  ASSUME NEW S, NEW q \in Seq(S), NEW T \in SUBSET DOMAIN q
  PROVE  IsFiniteSet(T) /\ Cardinality(T) \in Nat
<1>1. DOMAIN q = 1 .. Len(q) /\ Len(q) \in Nat
  OBVIOUS
<1>2. IsFiniteSet(1 .. Len(q))
  BY <1>1, FS_Interval
<1> QED
  BY <1>1, <1>2, FS_Subset, FS_CardinalityType

LEMMA HandlersFinite ==
  ASSUME NEW T \in SUBSET Handlers
  PROVE  IsFiniteSet(T) /\ Cardinality(T) \in Nat /\ Cardinality(T) <= Cardinality(Handlers)
BY AccountsAssumption, FS_Subset, FS_CardinalityType

LEMMA Fewer ==
  ASSUME NEW S, NEW T \in SUBSET S, IsFiniteSet(S)
  PROVE  Cardinality(T) <= Cardinality(S)
BY FS_Subset

LEMMA OneMore ==
  ASSUME NEW S, NEW x, NEW T \in SUBSET (S \cup {x}), IsFiniteSet(S)
  PROVE  Cardinality(T) <= Cardinality(S) + 1
<1>1. /\ IsFiniteSet(S \cup {x}) /\ Cardinality(S) \in Nat
      /\ Cardinality(S \cup {x}) <= Cardinality(S) + 1
  <2>1. /\ IsFiniteSet(S \cup {x})
        /\ \/ Cardinality(S \cup {x}) = Cardinality(S)
           \/ Cardinality(S \cup {x}) = Cardinality(S) + 1
    BY FS_AddElement
  <2>2. Cardinality(S) \in Nat
    BY FS_CardinalityType
  <2> QED
    BY <2>1, <2>2
<1>2. Cardinality(T) <= Cardinality(S \cup {x}) /\ Cardinality(T) \in Nat
  BY <1>1, FS_Subset, FS_CardinalityType
<1>3. Cardinality(S \cup {x}) \in Nat
  BY <1>1, FS_CardinalityType
<1> QED
  BY <1>1, <1>2, <1>3

LEMMA OneLess ==
  ASSUME NEW S, NEW x \in S, NEW T \in SUBSET (S \ {x}), IsFiniteSet(S)
  PROVE  Cardinality(T) + 1 <= Cardinality(S)
<1>1. /\ IsFiniteSet(S \ {x}) /\ Cardinality(S) \in Nat
      /\ Cardinality(S \ {x}) = Cardinality(S) - 1
  BY FS_RemoveElement, FS_CardinalityType
<1>2. Cardinality(T) <= Cardinality(S \ {x}) /\ Cardinality(T) \in Nat
  BY <1>1, FS_Subset, FS_CardinalityType
<1> QED
  BY <1>1, <1>2

LEMMA Grown ==
  ASSUME NEW S, NEW x, x \notin S, IsFiniteSet(S)
  PROVE  Cardinality(S \cup {x}) = Cardinality(S) + 1
BY FS_AddElement

(* A row goes to the end of login_attempts, and the rows before it stay.    *)
LEMMA RowAdded ==
  ASSUME Inv, NEW h \in Handlers, NEW ok \in BOOLEAN, Recorded(h, ok)
  PROVE  /\ DOMAIN attempts' = DOMAIN attempts \cup {Len(attempts) + 1}
         /\ Len(attempts) + 1 \notin DOMAIN attempts
         /\ \A i \in DOMAIN attempts : attempts'[i] = attempts[i]
         /\ attempts'[Len(attempts) + 1].email = req[h].email
         /\ attempts'[Len(attempts) + 1].ok = ok
<1>1. attempts \in Seq(Attempt) /\ DOMAIN attempts = 1 .. Len(attempts) /\ Len(attempts) \in Nat
  BY DEF Inv, TypeOK
<1> QED
  BY <1>1 DEF Recorded

(* One handler moves on: the others still hold what they held.              *)
LEMMA Elsewhere ==
  ASSUME Inv, NEW h \in Handlers, NEW r, Goes(h, r)
  PROVE  /\ req'[h] = r
         /\ \A g \in Handlers \ {h} : req'[g] = req[g]
BY DEF Inv, TypeOK, Goes

(* What a step of a handler does to the two tables and to its own record.   *)
LEMMA HandlerSteps ==
  ASSUME Inv, NEW h \in Handlers, Handle(h)
  PROVE  \/ \E e \in Emails, ip \in Addresses : LoginCheck(h, e, ip)
         \/ LoginVerify(h) \/ LoginFails(h) \/ LoginRecords(h) \/ CreateSession(h)
         \/ /\ \E r : Goes(h, r) /\ r.at \notin {"checked", "wrong", "right", "recorded"}
            /\ UNCHANGED <<clock, attempts, sessions>>
<1>1. CASE \E e \in Emails : RegisterInsert(h, e) \/ VerifyBegin(h, e)
  <2>1. PICK e \in Emails : RegisterInsert(h, e) \/ VerifyBegin(h, e)
    BY <1>1
  <2>2. CASE RegisterInsert(h, e)
    <3> DEFINE r == [at |-> "register", email |-> e, expires |-> clock + VerifyTtl]
    <3>1. Goes(h, r) /\ r.at = "register" /\ UNCHANGED <<clock, attempts, sessions>>
      BY <2>2 DEF RegisterInsert
    <3> QED
      BY <3>1
  <2>3. CASE VerifyBegin(h, e)
    <3> DEFINE r == [at |-> "begun", email |-> e, now |-> clock]
    <3>1. Goes(h, r) /\ r.at = "begun" /\ UNCHANGED <<clock, attempts, sessions>>
      BY <2>3 DEF VerifyBegin
    <3> QED
      BY <3>1
  <2> QED
    BY <2>1, <2>2, <2>3
<1>2. CASE Ends(h) /\ UNCHANGED <<clock, attempts, sessions>>
  BY <1>2, IdleRequest DEF Ends
<1>3. CASE VerifyUpdate(h)
  <2>1. req[h] \in Request /\ req[h].at = "begun"
    BY <1>3 DEF VerifyUpdate, At, Inv, TypeOK
  <2>2. [req[h] EXCEPT !.at = "verifying"].at = "verifying"
    BY <2>1, RequestKinds
  <2> QED
    BY <1>2, <1>3, <2>2 DEF VerifyUpdate
<1>4. CASE RegisterCommit(h) \/ VerifyCommit(h) \/ Die(h)
  BY <1>2, <1>4 DEF RegisterCommit, VerifyCommit, Die
<1> QED
  BY <1>1, <1>3, <1>4 DEF Handle

-----------------------------------------------------------------------------
(* The login budget.  A check that passes saw fewer failures than the       *)
(* budget, and no more requests than there are handlers can be on their     *)
(* way; a failure that is recorded was one of them; time only takes rows    *)
(* out of the window.                                                       *)
LEMMA WindowSets ==
  ASSUME Inv, NEW e
  PROVE  /\ IsFiniteSet(FailsOf(e)) /\ Cardinality(FailsOf(e)) \in Nat
         /\ Trying(e) \in SUBSET Handlers
         /\ IsFiniteSet(Trying(e)) /\ Cardinality(Trying(e)) \in Nat
<1>1. attempts \in Seq(Attempt) /\ FailsOf(e) \in SUBSET DOMAIN attempts
  BY DEF Inv, TypeOK, FailsOf
<1>2. Trying(e) \in SUBSET Handlers
  BY DEF Trying, Holders
<1> QED
  BY <1>1, <1>2, RowsFinite, HandlersFinite

\* The clock goes on, or stands still, and no row is added.
LEMMA WindowCloses ==
  ASSUME Inv, attempts' = attempts, clock' \in {clock, clock + 1}, NEW e
  PROVE  FailsOf(e)' \subseteq FailsOf(e)
<1> SUFFICES ASSUME NEW i \in FailsOf(e)' PROVE i \in FailsOf(e)
  OBVIOUS
<1>1. /\ i \in DOMAIN attempts /\ ~attempts[i].ok /\ attempts[i].at + Window > clock'
      /\ attempts[i].email = e
  BY DEF FailsOf, Counted
<1>2. attempts[i] \in Attempt /\ clock \in Nat
  BY <1>1 DEF Inv, TypeOK
<1>3. attempts[i].at \in Nat /\ Window \in Nat
  BY <1>2, AccountsAssumption DEF Attempt
<1>4. attempts[i].at + Window > clock
  BY <1>1, <1>2, <1>3
<1> QED
  BY <1>1, <1>4 DEF FailsOf, Counted

\* A handler that holds r now: only it may have begun or ended an attempt.
LEMMA TryingMoves ==
  ASSUME Inv, NEW h \in Handlers, NEW r, Goes(h, r), NEW e
  PROVE  /\ r.at \notin {"checked", "wrong"} => Trying(e)' \subseteq Trying(e) \ {h}
         /\ r.email # e => Trying(e)' \subseteq Trying(e) \ {h}
         /\ h \in Trying(e) => Trying(e)' \subseteq Trying(e)
<1>1. req'[h] = r /\ \A g \in Handlers \ {h} : req'[g] = req[g]
  BY Elsewhere
<1>2. \A g \in Trying(e)' : g # h => g \in Trying(e)
  BY <1>1 DEF Trying, Holders, At
<1>3. h \in Trying(e)' => r.at \in {"checked", "wrong"} /\ r.email = e
  BY <1>1 DEF Trying, Holders, At
<1> QED
  BY <1>2, <1>3

LEMMA BudgetKept ==
  ASSUME Inv, Inv', BudgetHolds, [Next]_vars
  PROVE  BudgetHolds'
<1> SUFFICES ASSUME NEW e \in Emails
             PROVE  Cardinality(FailsOf(e)') + Cardinality(Trying(e)')
                      < MaxFailedPerEmail + Cardinality(Handlers)
  BY DEF BudgetHolds
<1> DEFINE F == FailsOf(e)
           T == Trying(e)
           G == FailsOf(e)'
           U == Trying(e)'
<1>1. /\ IsFiniteSet(F) /\ Cardinality(F) \in Nat
      /\ IsFiniteSet(T) /\ Cardinality(T) \in Nat
  BY WindowSets
<1>2. G \in SUBSET DOMAIN attempts' /\ attempts' \in Seq(Attempt) /\ U \in SUBSET Handlers
  BY DEF Inv, TypeOK, FailsOf, Trying, Holders
<1>3. /\ IsFiniteSet(G) /\ Cardinality(G) \in Nat
      /\ IsFiniteSet(U) /\ Cardinality(U) \in Nat /\ Cardinality(U) <= Cardinality(Handlers)
  BY <1>2, RowsFinite, HandlersFinite
<1>4. MaxFailedPerEmail \in Nat /\ Cardinality(Handlers) \in Nat
  BY AccountsAssumption, FS_CardinalityType
<1>5. Cardinality(F) + Cardinality(T) < MaxFailedPerEmail + Cardinality(Handlers)
  BY DEF BudgetHolds
<1> HIDE DEF F, T, G, U
<1>6. CASE G \subseteq F /\ U \subseteq T
  <2>1. Cardinality(G) <= Cardinality(F) /\ Cardinality(U) <= Cardinality(T)
    BY <1>1, <1>6, Fewer
  <2> QED
    BY <1>1, <1>3, <1>4, <1>5, <2>1 DEF G, U
<1>7. CASE G \subseteq F /\ Cardinality(F) < MaxFailedPerEmail
  <2>1. Cardinality(G) <= Cardinality(F)
    BY <1>1, <1>7, Fewer
  <2> QED
    BY <1>1, <1>3, <1>4, <1>7, <2>1 DEF G, U
<1>8. CASE \E x, h : G \subseteq F \cup {x} /\ h \in T /\ U \subseteq T \ {h}
  <2>1. PICK x, h : G \subseteq F \cup {x} /\ h \in T /\ U \subseteq T \ {h}
    BY <1>8
  <2>2. Cardinality(G) <= Cardinality(F) + 1
    BY <1>1, <2>1, OneMore
  <2>3. Cardinality(U) + 1 <= Cardinality(T)
    BY <1>1, <2>1, OneLess
  <2> QED
    BY <1>1, <1>3, <1>4, <1>5, <2>2, <2>3 DEF G, U
<1>9. CASE Tick \/ (\E s \in DOMAIN sessions : RevokeSession(s)) \/ UNCHANGED vars
  <2>1. attempts' = attempts /\ clock' \in {clock, clock + 1} /\ req' = req
    BY <1>9 DEF Tick, RevokeSession, vars
  <2>2. U = T
    BY <2>1 DEF U, T, Trying, Holders, At
  <2> QED
    BY <1>6, <2>1, <2>2, WindowCloses DEF F, G
<1>10. ASSUME NEW h \in Handlers, Handle(h)
       PROVE  \/ G \subseteq F /\ U \subseteq T
              \/ G \subseteq F /\ Cardinality(F) < MaxFailedPerEmail
              \/ \E x, g : G \subseteq F \cup {x} /\ g \in T /\ U \subseteq T \ {g}
  <2>0. req[h] \in Request
    BY DEF Inv, TypeOK
  <2>1. CASE \E d \in Emails, ip \in Addresses : LoginCheck(h, d, ip)
    <3>1. PICK d \in Emails, ip \in Addresses : LoginCheck(h, d, ip)
      BY <2>1
    <3> DEFINE r == [at |-> "checked", email |-> d, ip |-> ip]
    <3>2. Goes(h, r) /\ r.email = d /\ attempts' = attempts /\ clock' = clock /\ ~Limited(d, ip)
      BY <3>1 DEF LoginCheck
    <3> HIDE DEF r
    <3>3. G \subseteq F
      BY <3>2, WindowCloses DEF F, G
    <3>4. CASE d = e
      BY <1>1, <1>4, <3>2, <3>3, <3>4 DEF Limited, F
    <3>5. CASE d # e
      BY <3>2, <3>3, <3>5, TryingMoves DEF T, U
    <3> QED
      BY <3>4, <3>5
  <2>2. CASE LoginVerify(h)
    <3>1. PICK ok \in BOOLEAN : Goes(h, [req[h] EXCEPT !.at = IF ok THEN "right" ELSE "wrong"])
      BY <2>2 DEF LoginVerify
    <3> DEFINE r == [req[h] EXCEPT !.at = IF ok THEN "right" ELSE "wrong"]
    <3>2. /\ req[h] \in [at : {"checked", "wrong", "right", "recorded"}, email : Emails,
                         ip : Addresses]
          /\ req[h].at = "checked"
      BY <2>0, <2>2, RequestKinds DEF LoginVerify, At
    <3>3. r.email = req[h].email
      BY <3>2
    <3>4. attempts' = attempts /\ clock' = clock
      BY <2>2 DEF LoginVerify
    <3>5. h \in T <=> req[h].email = e
      BY <3>2 DEF T, Trying, Holders, At
    <3>6. Goes(h, r)
      BY <3>1
    <3> HIDE DEF r
    <3>7. U \subseteq T
      BY <3>3, <3>5, <3>6, TryingMoves DEF T, U
    <3> QED
      BY <3>4, <3>7, WindowCloses DEF F, G
  <2>3. CASE LoginFails(h)
    <3>1. /\ Recorded(h, FALSE) /\ Goes(h, Idle) /\ clock' = clock /\ req[h].at = "wrong"
      BY <2>3 DEF LoginFails, Ends, At
    <3>2. U \subseteq T \ {h}
      BY <3>1, IdleRequest, TryingMoves DEF T, U
    <3>3. \A i \in G : i \in F \cup {Len(attempts) + 1}
      BY <3>1, RowAdded DEF F, G, FailsOf, Counted
    <3>4. CASE req[h].email = e
      <4>1. h \in T
        BY <3>1, <3>4 DEF T, Trying, Holders, At
      <4> QED
        BY <3>2, <3>3, <4>1
    <3>5. CASE req[h].email # e
      <4>1. attempts'[Len(attempts) + 1].email = req[h].email
        BY <3>1, RowAdded
      <4>2. \A i \in G : i # Len(attempts) + 1
        BY <3>5, <4>1 DEF G, FailsOf, Counted
      <4>3. U \subseteq T
        BY <3>2
      <4> QED
        BY <3>3, <4>2, <4>3
    <3> QED
      BY <3>4, <3>5
  <2>4. CASE LoginRecords(h)
    <3> DEFINE r == [req[h] EXCEPT !.at = "recorded"]
    <3>1. Recorded(h, TRUE) /\ Goes(h, r) /\ clock' = clock /\ req[h].at = "right"
      BY <2>4 DEF LoginRecords, At
    <3>2. r.at = "recorded"
      BY <2>0, <3>1, RequestKinds
    <3> HIDE DEF r
    <3>3. U \subseteq T
      BY <3>1, <3>2, TryingMoves DEF T, U
    <3>4. /\ DOMAIN attempts' = DOMAIN attempts \cup {Len(attempts) + 1}
          /\ \A i \in DOMAIN attempts : attempts'[i] = attempts[i]
          /\ attempts'[Len(attempts) + 1].ok
      BY <3>1, RowAdded
    <3>5. G \subseteq F
      BY <3>1, <3>4 DEF F, G, FailsOf, Counted
    <3> QED
      BY <3>3, <3>5
  <2>5. CASE CreateSession(h)
    <3>1. Goes(h, Idle) /\ clock' = clock /\ attempts' = attempts
      BY <2>5 DEF CreateSession, Ends
    <3>2. U \subseteq T
      BY <3>1, IdleRequest, TryingMoves DEF T, U
    <3>3. G \subseteq F
      BY <3>1, WindowCloses DEF F, G
    <3> QED
      BY <3>2, <3>3
  <2>6. CASE /\ \E r : Goes(h, r) /\ r.at \notin {"checked", "wrong", "right", "recorded"}
             /\ UNCHANGED <<clock, attempts, sessions>>
    BY <2>6, TryingMoves, WindowCloses DEF F, G, T, U
  <2> QED
    BY <1>10, <2>1, <2>2, <2>3, <2>4, <2>5, <2>6, HandlerSteps
<1> HIDE DEF F, G, T, U
<1> QED
  BY <1>6, <1>7, <1>8, <1>9, <1>10 DEF Next, G, U

(* In any window the failures of an email, and the attempts on their way,   *)
(* stay below its budget and one for each request in flight: what the       *)
(* limiter's reading before the ledger's writing can cost (rateLimit.ts).   *)
THEOREM BudgetIsKept == Spec => []BudgetHolds
<1>1. Init => BudgetHolds
  <2> SUFFICES ASSUME Init, NEW e \in Emails
               PROVE  Cardinality(FailsOf(e)) + Cardinality(Trying(e))
                        < MaxFailedPerEmail + Cardinality(Handlers)
    BY DEF BudgetHolds
  <2>1. FailsOf(e) = {} /\ Trying(e) = {}
    BY DEF Init, FailsOf, Trying, Holders, At, Idle
  <2>2. Cardinality(FailsOf(e)) = 0 /\ Cardinality(Trying(e)) = 0
    BY <2>1, FS_EmptySet
  <2> QED
    BY <2>2, AccountsAssumption, FS_CardinalityType
<1>2. Inv /\ Inv' /\ BudgetHolds /\ [Next]_vars => BudgetHolds'
  BY BudgetKept
<1> QED
  BY <1>1, <1>2, Invariance, PTL DEF Spec

-----------------------------------------------------------------------------
(* Sessions and the ledger.  A login that has its row and not yet its       *)
(* session counts as the session it will open.                              *)
SessionsOf(e) == {s \in DOMAIN sessions : sessions[s].user = e}
SuccessesOf(e) == {i \in DOMAIN attempts : attempts[i].ok /\ attempts[i].email = e}
Accounted ==
    \A e \in Emails :
        Cardinality(SessionsOf(e)) + Cardinality(Holders("recorded", e))
          <= Cardinality(SuccessesOf(e))

LEMMA RecordedMoves ==
  ASSUME Inv, NEW h \in Handlers, NEW r, Goes(h, r), NEW e
  PROVE  /\ r.at # "recorded" =>
              Holders("recorded", e)' \subseteq Holders("recorded", e) \ {h}
         /\ r.email # e =>
              Holders("recorded", e)' \subseteq Holders("recorded", e) \ {h}
         /\ Holders("recorded", e)' \subseteq Holders("recorded", e) \cup {h}
<1>1. req'[h] = r /\ \A g \in Handlers \ {h} : req'[g] = req[g]
  BY Elsewhere
<1> QED
  BY <1>1 DEF Holders, At

LEMMA AccountedKept ==
  ASSUME Inv, Inv', Accounted, [Next]_vars
  PROVE  Accounted'
<1> SUFFICES ASSUME NEW e \in Emails
             PROVE  Cardinality(SessionsOf(e)') + Cardinality(Holders("recorded", e)')
                      <= Cardinality(SuccessesOf(e)')
  BY DEF Accounted
<1> DEFINE S == SessionsOf(e)
           R == Holders("recorded", e)
           A == SuccessesOf(e)
           S2 == SessionsOf(e)'
           R2 == Holders("recorded", e)'
           A2 == SuccessesOf(e)'
<1>1. /\ sessions \in Seq(Session) /\ S \in SUBSET DOMAIN sessions
      /\ attempts \in Seq(Attempt) /\ A \in SUBSET DOMAIN attempts
      /\ R \in SUBSET Handlers /\ req \in [Handlers -> Request]
  BY DEF Inv, TypeOK, SessionsOf, SuccessesOf, Holders
<1>2. /\ sessions' \in Seq(Session) /\ S2 \in SUBSET DOMAIN sessions'
      /\ attempts' \in Seq(Attempt) /\ A2 \in SUBSET DOMAIN attempts'
      /\ R2 \in SUBSET Handlers
  BY DEF Inv, TypeOK, SessionsOf, SuccessesOf, Holders
<1>3. /\ IsFiniteSet(S) /\ Cardinality(S) \in Nat /\ IsFiniteSet(A) /\ Cardinality(A) \in Nat
      /\ IsFiniteSet(R) /\ Cardinality(R) \in Nat
  BY <1>1, RowsFinite, HandlersFinite
<1>4. /\ IsFiniteSet(S2) /\ Cardinality(S2) \in Nat /\ IsFiniteSet(A2) /\ Cardinality(A2) \in Nat
      /\ IsFiniteSet(R2) /\ Cardinality(R2) \in Nat
  BY <1>2, RowsFinite, HandlersFinite
<1>5. Cardinality(S) + Cardinality(R) <= Cardinality(A)
  BY DEF Accounted
<1> HIDE DEF S, R, A, S2, R2, A2
<1>6. CASE S2 = S /\ R2 \subseteq R /\ A \subseteq A2
  <2>1. Cardinality(R2) <= Cardinality(R) /\ Cardinality(A) <= Cardinality(A2)
    BY <1>3, <1>4, <1>6, Fewer
  <2> QED
    BY <1>3, <1>4, <1>5, <1>6, <2>1 DEF S2, R2, A2
<1>7. CASE \E x, h : S2 \subseteq S \cup {x} /\ h \in R /\ R2 \subseteq R \ {h} /\ A2 = A
  <2>1. PICK x, h : S2 \subseteq S \cup {x} /\ h \in R /\ R2 \subseteq R \ {h} /\ A2 = A
    BY <1>7
  <2>2. Cardinality(S2) <= Cardinality(S) + 1
    BY <1>3, <2>1, OneMore
  <2>3. Cardinality(R2) + 1 <= Cardinality(R)
    BY <1>3, <2>1, OneLess
  <2> QED
    BY <1>3, <1>4, <1>5, <2>1, <2>2, <2>3 DEF S2, R2, A2
<1>8. CASE \E x, h : S2 = S /\ R2 \subseteq R \cup {h} /\ x \notin A /\ A2 = A \cup {x}
  <2>1. PICK x, h : S2 = S /\ R2 \subseteq R \cup {h} /\ x \notin A /\ A2 = A \cup {x}
    BY <1>8
  <2>2. Cardinality(R2) <= Cardinality(R) + 1
    BY <1>3, <2>1, OneMore
  <2>3. Cardinality(A2) = Cardinality(A) + 1
    BY <1>3, <2>1, Grown
  <2> QED
    BY <1>3, <1>4, <1>5, <2>1, <2>2, <2>3 DEF S2, R2, A2
<1>9. CASE Tick \/ UNCHANGED vars
  <2>1. S2 = S /\ R2 = R /\ A2 = A
    BY <1>9 DEF Tick, vars, S, R, A, S2, R2, A2, SessionsOf, SuccessesOf, Holders, At
  <2> QED
    BY <1>6, <2>1
<1>10. ASSUME NEW s \in DOMAIN sessions, RevokeSession(s) PROVE S2 = S /\ R2 = R /\ A2 = A
  <2>1. /\ sessions' = [sessions EXCEPT ![s].revoked = TRUE]
        /\ attempts' = attempts /\ req' = req
    BY <1>10 DEF RevokeSession
  <2>2. /\ DOMAIN sessions' = DOMAIN sessions
        /\ \A i \in DOMAIN sessions : sessions'[i].user = sessions[i].user
    <3>1. sessions[s] \in Session
      BY <1>1
    <3>2. [sessions[s] EXCEPT !.revoked = TRUE].user = sessions[s].user
      BY <3>1 DEF Session
    <3> QED
      BY <1>1, <2>1, <3>2
  <2> QED
    BY <2>1, <2>2 DEF S, R, A, S2, R2, A2, SessionsOf, SuccessesOf, Holders, At
<1>11. ASSUME NEW h \in Handlers, Handle(h)
       PROVE  \/ S2 = S /\ R2 \subseteq R /\ A \subseteq A2
              \/ \E x, g : S2 \subseteq S \cup {x} /\ g \in R /\ R2 \subseteq R \ {g} /\ A2 = A
              \/ \E x, g : S2 = S /\ R2 \subseteq R \cup {g} /\ x \notin A /\ A2 = A \cup {x}
  <2>0. req[h] \in Request
    BY <1>1
  <2>1. ASSUME NEW r, Goes(h, r), r.at # "recorded", attempts' = attempts, sessions' = sessions
        PROVE  S2 = S /\ R2 \subseteq R /\ A \subseteq A2
    <3>1. R2 \subseteq R
      BY <2>1, RecordedMoves DEF R, R2
    <3> QED
      BY <2>1, <3>1 DEF S, A, S2, A2, SessionsOf, SuccessesOf
  <2>2. CASE \E d \in Emails, ip \in Addresses : LoginCheck(h, d, ip)
    <3>1. PICK d \in Emails, ip \in Addresses : LoginCheck(h, d, ip)
      BY <2>2
    <3> DEFINE r == [at |-> "checked", email |-> d, ip |-> ip]
    <3>2. Goes(h, r) /\ r.at = "checked" /\ attempts' = attempts /\ sessions' = sessions
      BY <3>1 DEF LoginCheck
    <3> HIDE DEF r
    <3> QED
      BY <2>1, <3>2
  <2>3. CASE LoginVerify(h)
    <3>1. PICK ok \in BOOLEAN : Goes(h, [req[h] EXCEPT !.at = IF ok THEN "right" ELSE "wrong"])
      BY <2>3 DEF LoginVerify
    <3> DEFINE r == [req[h] EXCEPT !.at = IF ok THEN "right" ELSE "wrong"]
    <3>2. r.at \in {"right", "wrong"}
      BY <2>0, <2>3, RequestKinds DEF LoginVerify, At
    <3>3. Goes(h, r) /\ attempts' = attempts /\ sessions' = sessions
      BY <2>3, <3>1 DEF LoginVerify
    <3> HIDE DEF r
    <3> QED
      BY <2>1, <3>2, <3>3
  <2>4. CASE LoginFails(h)
    <3>1. Recorded(h, FALSE) /\ Goes(h, Idle) /\ sessions' = sessions
      BY <2>4 DEF LoginFails, Ends
    <3>2. /\ DOMAIN attempts' = DOMAIN attempts \cup {Len(attempts) + 1}
          /\ \A i \in DOMAIN attempts : attempts'[i] = attempts[i]
      BY <3>1, RowAdded
    <3>3. A \subseteq A2
      BY <3>2 DEF A, A2, SuccessesOf
    <3>4. R2 \subseteq R
      BY <3>1, IdleRequest, RecordedMoves DEF R, R2
    <3> QED
      BY <3>1, <3>3, <3>4 DEF S, S2, SessionsOf
  <2>5. CASE LoginRecords(h)
    <3> DEFINE r == [req[h] EXCEPT !.at = "recorded"]
    <3>1. Recorded(h, TRUE) /\ Goes(h, r) /\ sessions' = sessions /\ req[h].at = "right"
      BY <2>5 DEF LoginRecords, At
    <3>2. r.email = req[h].email
      BY <2>0, <3>1, RequestKinds
    <3> HIDE DEF r
    <3>3. /\ DOMAIN attempts' = DOMAIN attempts \cup {Len(attempts) + 1}
          /\ Len(attempts) + 1 \notin DOMAIN attempts
          /\ \A i \in DOMAIN attempts : attempts'[i] = attempts[i]
          /\ attempts'[Len(attempts) + 1].email = req[h].email
          /\ attempts'[Len(attempts) + 1].ok
      BY <3>1, RowAdded
    <3>4. S2 = S /\ Len(attempts) + 1 \notin A
      BY <1>1, <3>1, <3>3 DEF S, S2, SessionsOf, A, SuccessesOf
    <3>5. CASE req[h].email = e
      <4>1. A2 = A \cup {Len(attempts) + 1}
        BY <3>3, <3>5 DEF A, A2, SuccessesOf
      <4>2. R2 \subseteq R \cup {h}
        BY <3>1, RecordedMoves DEF R, R2
      <4> QED
        BY <3>4, <4>1, <4>2
    <3>6. CASE req[h].email # e
      <4>1. A \subseteq A2
        BY <3>3 DEF A, A2, SuccessesOf
      <4>2. R2 \subseteq R
        BY <3>1, <3>2, <3>6, RecordedMoves DEF R, R2
      <4> QED
        BY <3>4, <4>1, <4>2
    <3> QED
      BY <3>5, <3>6
  <2>6. CASE CreateSession(h)
    <3> DEFINE s == [user |-> req[h].email, revoked |-> FALSE, expires |-> clock + SessionTtl]
    <3>1. Goes(h, Idle) /\ req[h].at = "recorded" /\ attempts' = attempts
      BY <2>6 DEF CreateSession, Ends, At
    <3>2. sessions' = Append(sessions, s) /\ s.user = req[h].email
      BY <2>6 DEF CreateSession
    <3> HIDE DEF s
    <3>3. /\ DOMAIN sessions' = DOMAIN sessions \cup {Len(sessions) + 1}
          /\ \A i \in DOMAIN sessions : sessions'[i] = sessions[i]
          /\ sessions'[Len(sessions) + 1].user = req[h].email
      BY <1>1, <3>2
    <3>4. A2 = A /\ R2 \subseteq R \ {h}
      BY <3>1, IdleRequest, RecordedMoves DEF R, R2, A, A2, SuccessesOf
    <3>5. CASE req[h].email = e
      <4>1. S2 \subseteq S \cup {Len(sessions) + 1}
        BY <3>3 DEF S, S2, SessionsOf
      <4>2. h \in R
        BY <3>1, <3>5 DEF R, Holders, At
      <4> QED
        BY <3>4, <4>1, <4>2
    <3>6. CASE req[h].email # e
      <4>1. S2 = S
        BY <3>3, <3>6 DEF S, S2, SessionsOf
      <4> QED
        BY <3>4, <4>1
    <3> QED
      BY <3>5, <3>6
  <2>7. CASE /\ \E r : Goes(h, r) /\ r.at \notin {"checked", "wrong", "right", "recorded"}
             /\ UNCHANGED <<clock, attempts, sessions>>
    BY <2>1, <2>7
  <2> QED
    BY <1>11, <2>2, <2>3, <2>4, <2>5, <2>6, <2>7, HandlerSteps
<1> HIDE DEF S, R, A, S2, R2, A2
<1> QED
  BY <1>6, <1>7, <1>8, <1>9, <1>10, <1>11 DEF Next, S2, R2, A2

(* No user has more sessions than successful rows in the ledger, wherever a *)
(* login dies between its statements (service.ts).                          *)
THEOREM SessionsAccounted == Spec => []SessionsRecorded
<1>1. Init => Accounted
  <2> SUFFICES ASSUME Init, NEW e \in Emails
               PROVE  Cardinality(SessionsOf(e)) + Cardinality(Holders("recorded", e))
                        <= Cardinality(SuccessesOf(e))
    BY DEF Accounted
  <2>1. SessionsOf(e) = {} /\ SuccessesOf(e) = {} /\ Holders("recorded", e) = {}
    BY DEF Init, SessionsOf, SuccessesOf, Holders, At, Idle
  <2> QED
    BY <2>1, FS_EmptySet
<1>2. Inv /\ Inv' /\ Accounted /\ [Next]_vars => Accounted'
  BY AccountedKept
<1>3. Inv /\ Accounted => SessionsRecorded
  <2> SUFFICES ASSUME Inv, Accounted, NEW e \in Emails
               PROVE  Cardinality(SessionsOf(e)) <= Cardinality(SuccessesOf(e))
    BY DEF SessionsRecorded, SessionsOf, SuccessesOf
  <2>1. /\ SessionsOf(e) \in SUBSET DOMAIN sessions /\ SuccessesOf(e) \in SUBSET DOMAIN attempts
        /\ Holders("recorded", e) \in SUBSET Handlers
        /\ sessions \in Seq(Session) /\ attempts \in Seq(Attempt)
    BY DEF Inv, TypeOK, SessionsOf, SuccessesOf, Holders
  <2>2. /\ Cardinality(SessionsOf(e)) \in Nat /\ Cardinality(SuccessesOf(e)) \in Nat
        /\ Cardinality(Holders("recorded", e)) \in Nat
    BY <2>1, RowsFinite, HandlersFinite
  <2> QED
    BY <2>2 DEF Accounted
<1> QED
  BY <1>1, <1>2, <1>3, Invariance, PTL DEF Spec
=============================================================================
