------------------------------ MODULE Accounts ------------------------------
(***************************************************************************)
(* Accounts and sessions of the web app (lib/auth): request handlers run   *)
(* at once over one database.  A transaction is private until its commit;  *)
(* a statement outside one is atomic.  A user is named by its normalised   *)
(* email; a function may be stopped at any await.                          *)
(***************************************************************************)
EXTENDS Naturals, FiniteSets, Sequences

CONSTANTS
    Emails, Ips, NoIp,        \* NoIp: no x-forwarded-for header
    Handlers,                 \* requests in flight
    Window, VerifyTtl, SessionTtl,
    MaxFailedPerEmail, MaxFailedPerIp,
    MaxClock, MaxAttempts     \* bounds of the model: ticks, rows of login_attempts

ASSUME AccountsAssumption ==
    /\ NoIp \notin Ips /\ IsFiniteSet(Handlers)
    /\ Window \in Nat /\ VerifyTtl \in Nat /\ SessionTtl \in Nat
    /\ MaxFailedPerEmail \in Nat \ {0} /\ MaxFailedPerIp \in Nat \ {0}
    /\ MaxClock \in Nat /\ MaxAttempts \in Nat

VARIABLES
    clock,
    users,     \* per email: "none", "pending" or "active"
    token,     \* per email: the verification token of the registration
    attempts,  \* login_attempts
    sessions,
    req,       \* what each handler is doing
    verified   \* history: successful verifications per email

vars == <<clock, users, token, attempts, sessions, req, verified>>

Addresses == Ips \cup {NoIp}
Attempt == [email : Emails, ip : Addresses, ok : BOOLEAN, at : 0 .. MaxClock]
Session == [user : Emails, expires : Nat, revoked : BOOLEAN]
Token == [expires : Nat, consumed : BOOLEAN]
Idle == [at |-> "idle"]
Request ==
    {Idle}
    \cup [at : {"register"}, email : Emails, expires : Nat]
    \cup [at : {"begun", "verifying"}, email : Emails, now : 0 .. MaxClock]
    \cup [at : {"checked", "wrong", "right", "recorded"}, email : Emails, ip : Addresses]

Init ==
    /\ clock = 0
    /\ users = [e \in Emails |-> "none"]
    /\ token = [e \in Emails |-> [expires |-> 0, consumed |-> FALSE]]
    /\ attempts = <<>> /\ sessions = <<>>
    /\ req = [h \in Handlers |-> Idle]
    /\ verified = [e \in Emails |-> 0]

At(h, step) == req[h].at = step
Goes(h, r) == req' = [req EXCEPT ![h] = r]
Ends(h) == Goes(h, Idle)
Holders(step, e) == {h \in Handlers : At(h, step) /\ req[h].email = e}

Tick ==
    /\ clock < MaxClock
    /\ clock' = clock + 1
    /\ UNCHANGED <<users, token, attempts, sessions, req, verified>>

\* The function is stopped: an open transaction rolls back
Die(h) ==
    /\ ~At(h, "idle")
    /\ Ends(h)
    /\ UNCHANGED <<clock, users, token, attempts, sessions, verified>>

-----------------------------------------------------------------------------
(* Registration: one transaction; a second INSERT of the email waits on the *)
(* first and then fails on it (email_taken).                                *)

RegisterInsert(h, e) ==
    /\ At(h, "idle")
    /\ users[e] = "none" /\ Holders("register", e) = {}
    /\ Goes(h, [at |-> "register", email |-> e, expires |-> clock + VerifyTtl])
    /\ UNCHANGED <<clock, users, token, attempts, sessions, verified>>

RegisterCommit(h) ==
    /\ At(h, "register")
    /\ users' = [users EXCEPT ![req[h].email] = "pending"]
    /\ token' = [token EXCEPT ![req[h].email] = [expires |-> req[h].expires, consumed |-> FALSE]]
    /\ Ends(h)
    /\ UNCHANGED <<clock, attempts, sessions, verified>>

\* Verification: now() is the BEGIN; the UPDATE of the token waits for a
\* transaction that holds the row, and looks at the row again afterwards.
VerifyBegin(h, e) ==
    /\ At(h, "idle") /\ users[e] # "none"
    /\ Goes(h, [at |-> "begun", email |-> e, now |-> clock])
    /\ UNCHANGED <<clock, users, token, attempts, sessions, verified>>

UsableTwice(e, now) == token[e].expires > now   \* mutant: consumed_at not tested
Usable(e, now) == ~token[e].consumed /\ token[e].expires > now

VerifyUpdate(h) ==
    /\ At(h, "begun") /\ Holders("verifying", req[h].email) = {}
    /\ IF Usable(req[h].email, req[h].now)
       THEN Goes(h, [req[h] EXCEPT !.at = "verifying"])
       ELSE Ends(h)
    /\ UNCHANGED <<clock, users, token, attempts, sessions, verified>>

VerifyCommit(h) ==
    /\ At(h, "verifying")
    /\ token' = [token EXCEPT ![req[h].email].consumed = TRUE]
    /\ users' = [users EXCEPT ![req[h].email] = "active"]
    /\ verified' = [verified EXCEPT ![req[h].email] = @ + 1]
    /\ Ends(h)
    /\ UNCHANGED <<clock, attempts, sessions>>

-----------------------------------------------------------------------------
(* Login: the limiter, the look-up and Argon2 check, the ledger and the     *)
(* session are statements of their own.                                     *)

Counted(i) == ~attempts[i].ok /\ attempts[i].at + Window > clock
FailsOf(e) == {i \in DOMAIN attempts : Counted(i) /\ attempts[i].email = e}
FailsFrom(ip) == {i \in DOMAIN attempts : Counted(i) /\ attempts[i].ip = ip /\ ip # NoIp}

\* isLoginRateLimited
LimitedByIp(e, ip) == Cardinality(FailsFrom(ip)) >= MaxFailedPerIp   \* mutant
Limited(e, ip) == \/ Cardinality(FailsOf(e)) >= MaxFailedPerEmail
                  \/ Cardinality(FailsFrom(ip)) >= MaxFailedPerIp

LoginCheck(h, e, ip) ==
    /\ At(h, "idle") /\ ~Limited(e, ip)
    /\ Goes(h, [at |-> "checked", email |-> e, ip |-> ip])
    /\ UNCHANGED <<clock, users, token, attempts, sessions, verified>>

\* An unknown email and a wrong password end alike
LoginVerify(h) ==
    /\ At(h, "checked")
    /\ \E ok \in IF users[req[h].email] = "none" THEN {FALSE} ELSE BOOLEAN :
         Goes(h, [req[h] EXCEPT !.at = IF ok THEN "right" ELSE "wrong"])
    /\ UNCHANGED <<clock, users, token, attempts, sessions, verified>>

Recorded(h, ok) ==
    /\ Len(attempts) < MaxAttempts
    /\ attempts' = Append(attempts, [email |-> req[h].email, ip |-> req[h].ip,
                                     ok |-> ok, at |-> clock])
LoginFails(h) ==
    /\ At(h, "wrong") /\ Recorded(h, FALSE)
    /\ Ends(h)
    /\ UNCHANGED <<clock, users, token, sessions, verified>>

LoginUnrecorded(h) ==   \* mutant: the session first, the ledger never
    /\ At(h, "right")
    /\ Goes(h, [req[h] EXCEPT !.at = "recorded"])
    /\ UNCHANGED <<clock, users, token, attempts, sessions, verified>>
LoginRecords(h) ==
    /\ At(h, "right") /\ Recorded(h, TRUE)
    /\ Goes(h, [req[h] EXCEPT !.at = "recorded"])
    /\ UNCHANGED <<clock, users, token, sessions, verified>>

SessionSwapped(h) ==   \* mutant: the arguments of the INSERT swapped
    /\ At(h, "recorded")
    /\ sessions' = Append(sessions, [user |-> req[h].ip, revoked |-> FALSE,
                                     expires |-> clock + SessionTtl])
    /\ Ends(h)
    /\ UNCHANGED <<clock, users, token, attempts, verified>>
CreateSession(h) ==
    /\ At(h, "recorded")
    /\ sessions' = Append(sessions, [user |-> req[h].email, revoked |-> FALSE,
                                     expires |-> clock + SessionTtl])
    /\ Ends(h)
    /\ UNCHANGED <<clock, users, token, attempts, verified>>

RevokeSession(s) ==   \* logout
    /\ sessions' = [sessions EXCEPT ![s].revoked = TRUE]
    /\ UNCHANGED <<clock, users, token, attempts, req, verified>>

-----------------------------------------------------------------------------
Handle(h) ==
    \/ \E e \in Emails : RegisterInsert(h, e) \/ VerifyBegin(h, e)
    \/ \E e \in Emails, ip \in Addresses : LoginCheck(h, e, ip)
    \/ RegisterCommit(h) \/ VerifyUpdate(h) \/ VerifyCommit(h)
    \/ LoginVerify(h) \/ LoginFails(h) \/ LoginRecords(h) \/ CreateSession(h)
    \/ Die(h)

Next == \/ Tick
        \/ \E s \in DOMAIN sessions : RevokeSession(s)
        \/ \E h \in Handlers : Handle(h)

Spec == Init /\ [][Next]_vars

-----------------------------------------------------------------------------
(* Properties.                                                              *)

\* Type: rows and requests keep their shape.
TypeOK ==
    /\ clock \in 0 .. MaxClock
    /\ users \in [Emails -> {"none", "pending", "active"}]
    /\ token \in [Emails -> Token]
    /\ attempts \in Seq(Attempt) /\ sessions \in Seq(Session)
    /\ req \in [Handlers -> Request]
    /\ verified \in [Emails -> Nat]

\* The limiter reads before the attempt is recorded, so logins in flight may
\* all pass it: in any window the failures of an email, and those on their
\* way, are at most its budget less one and one more for each request at once
\* (rateLimit.ts:21-40, service.ts:125-156).
Trying(e) == Holders("checked", e) \cup Holders("wrong", e)
BudgetHolds ==
    \A e \in Emails :
        Cardinality(FailsOf(e)) + Cardinality(Trying(e))
            < MaxFailedPerEmail + Cardinality(Handlers)

\* Whatever verifications of one token run at once, die and retry, exactly
\* one succeeds, and the user is active exactly when the token is consumed
\* (service.ts:84-104).
VerifiedOnce ==
    \A e \in Emails :
        /\ users[e] = "active" <=> token[e].consumed
        /\ verified[e] = IF users[e] = "active" THEN 1 ELSE 0

\* Every session has its row in the ledger: one that could be opened without
\* a recorded attempt could not be accounted for (service.ts:160-165).
SessionsRecorded ==
    \A e \in Emails :
        Cardinality({s \in DOMAIN sessions : sessions[s].user = e})
          <= Cardinality({i \in DOMAIN attempts : attempts[i].ok /\ attempts[i].email = e})
=============================================================================
