--------------------------- MODULE Authentication ----------------------------
(***************************************************************************)
(* How a request comes to act as a user: passwords, sessions and the second*)
(* factor (accounts/views.py, services.py, totp.py), and the bearer        *)
(* credentials of service accounts (applications/services.py, views.py,    *)
(* authentication.py).                                                     *)
(*                                                                         *)
(* A browser makes one request at a time.  A request loads the rows it     *)
(* works with first and writes some of their columns later, with requests  *)
(* of other browsers in between; Django's login() keeps the data and the   *)
(* expiry of the session it upgrades, and starts afresh when the session   *)
(* belonged to another user.  Time is counted in TOTP periods.             *)
(* Operators named X_Y are faulty variants of X that the properties are    *)
(* checked against.                                                        *)
(***************************************************************************)
EXTENDS Naturals, FiniteSets

CONSTANTS
  Users, Browsers,
  NumCreds,        \* bound on the credentials issued
  NumCallers,      \* clients and administrators that work with credentials
  Window,          \* _VERIFY_WINDOW
  PendingLife,     \* MFA_PENDING_SESSION_TIMEOUT_SECONDS, in periods
  MaxTime,         \* bound on the clock
  MaxRequests      \* bound on the number of requests

Nobody == "nobody"

ASSUME AuthenticationAssumption ==
  /\ NumCreds \in Nat /\ NumCallers \in Nat /\ Window \in Nat /\ PendingLife \in Nat \ {0}
  /\ MaxTime \in Nat /\ MaxRequests \in Nat /\ Nobody \notin Users

VARIABLES
  row,       \* the users' rows: registered, mfa_enabled and the secret
  sess,      \* the session of each browser
  req,       \* the request each browser has under way
  cred,      \* ApplicationCredential rows
  call,      \* the requests of callers that are under way
  issued,    \* how many secrets have been generated
  now, asked,
  proven,    \* history: the secrets each user has shown a code of
  crossed    \* history: users confirmed on a secret replaced in the meantime

authVars == <<row, sess, req, cred, call, issued, now, asked, proven, crossed>>
accounts == <<row, sess, req, issued, proven, crossed>>
credentials == <<cred, call>>

None == 0                 \* no secret
Never == MaxTime + PendingLife + 1
Secrets == 1..MaxRequests
Creds == 1..NumCreds      \* in the order they are issued
Callers == 1..NumCallers  \* an idle one is as good as another: the first one calls

\* Anonymous: the session of a browser without a cookie.
Anonymous ==
  [ user |-> Nobody, pending |-> Nobody, short |-> FALSE, exp |-> Never,
    factor |-> None,     \* history: the secret whose code opened it
    asof |-> 0,          \* history: the request that looked at its user's row
    at |-> 0 ]           \* history: when the password of the pending user was checked
Idle == [op |-> "none"]
NoCred == [state |-> "free", revoked |-> FALSE]

AuthInit ==
  /\ row = [u \in Users |-> [exists |-> FALSE, enabled |-> FALSE, secret |-> None, since |-> 0]]
  /\ sess = [b \in Browsers |-> Anonymous] /\ req = [b \in Browsers |-> Idle]
  /\ cred = [c \in Creds |-> NoCred] /\ call = [k \in Callers |-> Idle]
  /\ issued = 0 /\ now = 0 /\ asked = 0
  /\ proven = [u \in Users |-> {}] /\ crossed = {}

Request == asked < MaxRequests /\ asked' = asked + 1

-----------------------------------------------------------------------------
(***************************************************************************)
(* Sessions.                                                               *)
(***************************************************************************)
Session(b) == IF sess[b].exp > now THEN sess[b] ELSE Anonymous

\* A session with an expiry of its own is given it anew whenever it is saved.
Saved(s) == [s EXCEPT !.exp = IF s.short THEN now + PendingLife ELSE Never]

\* login().
Upgraded(s, u, secret, asof) ==
  Saved([ (IF s.user \in {Nobody, u} THEN s ELSE Anonymous)
            EXCEPT !.user = u, !.factor = secret, !.asof = asof ])

\* RegisterView: the new account is logged in at once.
Register(b, u) ==
  /\ Request
  /\ req[b] = Idle /\ ~ row[u].exists
  /\ row' = [row EXCEPT ![u].exists = TRUE]
  /\ sess' = [sess EXCEPT ![b] = Upgraded(Session(b), u, None, asked')]
  /\ UNCHANGED <<req, issued, now, proven, crossed, credentials>>

\* LoginView: the password is right and the user's row is loaded.
BeginLogin(b, u) ==
  /\ Request
  /\ req[b] = Idle /\ row[u].exists
  /\ req' = [req EXCEPT ![b] = [op |-> "login", user |-> u, copy |-> row[u], asof |-> asked']]
  /\ UNCHANGED <<row, sess, issued, now, proven, crossed, credentials>>

AskCode(q) == q.copy.enabled

Waiting(s, u) == Saved([s EXCEPT !.pending = u, !.at = now, !.short = TRUE])

FinishLogin(b) ==
  LET q == req[b] IN
  /\ q.op = "login"
  /\ sess' = [sess EXCEPT ![b] =
       IF AskCode(q) THEN Waiting(Session(b), q.user)
                     ELSE Upgraded(Session(b), q.user, None, q.asof)]
  /\ req' = [req EXCEPT ![b] = Idle]
  /\ UNCHANGED <<row, issued, now, asked, proven, crossed, credentials>>

Logout(b) ==
  /\ Request
  /\ req[b] = Idle /\ Session(b).user # Nobody
  /\ sess' = [sess EXCEPT ![b] = Anonymous]
  /\ UNCHANGED <<row, req, issued, now, proven, crossed, credentials>>

-----------------------------------------------------------------------------
(***************************************************************************)
(* The second factor.  A code is made from a secret and a period.          *)
(***************************************************************************)
VerifyTotp(secret, code) ==
  code.secret = secret /\ code.period <= now + Window /\ now <= code.period + Window

Codes == [secret : 1..issued, period : 0..now]

\* The three requests that carry a code: the user's row is loaded with them.
BeginCode(b, op, code) ==
  LET u == IF op = "verify" THEN Session(b).pending ELSE Session(b).user IN
  /\ Request
  /\ req[b] = Idle /\ u # Nobody
  /\ req' = [req EXCEPT ![b] =
       [op |-> op, user |-> u, copy |-> row[u], code |-> code, asof |-> asked']]
  /\ UNCHANGED <<row, sess, issued, now, proven, crossed, credentials>>

\* verify_mfa_code: a secret that is not enabled opens nothing.
Opens(q) == q.copy.enabled /\ q.copy.secret # None /\ VerifyTotp(q.copy.secret, q.code)

\* MFALoginVerifyView.
FinishVerify(b) ==
  LET q == req[b] IN
  /\ q.op = "verify"
  /\ sess' = [sess EXCEPT ![b] =
       IF Opens(q)
       THEN Upgraded([Session(b) EXCEPT !.pending = Nobody], q.user, q.code.secret, q.asof)
       ELSE sess[b]]
  /\ req' = [req EXCEPT ![b] = Idle]
  /\ UNCHANGED <<row, issued, now, asked, proven, crossed, credentials>>

\* start_mfa_enrollment: needs no code, even when MFA is enabled.
Enrolled_StillEnabled(r) == [r EXCEPT !.secret = issued + 1]
Enrolled(r) == [r EXCEPT !.secret = issued + 1, !.enabled = FALSE]

Enroll(b) ==
  /\ Request
  /\ req[b] = Idle /\ Session(b).user # Nobody
  /\ issued' = issued + 1
  /\ row' = [row EXCEPT ![Session(b).user] = Enrolled(row[Session(b).user])]
  /\ UNCHANGED <<sess, req, now, proven, crossed, credentials>>

\* confirm_mfa_enrollment writes mfa_enabled only: the code was checked against
\* the secret the request loaded.
FinishConfirm(b) ==
  LET q == req[b] IN
  /\ q.op = "confirm"
  /\ req' = [req EXCEPT ![b] = Idle]
  /\ IF q.copy.secret # None /\ VerifyTotp(q.copy.secret, q.code)
     THEN /\ row' = [row EXCEPT ![q.user].enabled = TRUE, ![q.user].since = asked]
          /\ proven' = [proven EXCEPT ![q.user] = @ \cup {q.code.secret}]
          /\ crossed' = IF row[q.user].secret # q.copy.secret
                        THEN crossed \cup {q.user} ELSE crossed
     ELSE UNCHANGED <<row, proven, crossed>>
  /\ UNCHANGED <<sess, issued, now, asked, credentials>>

Disabled(r) == [r EXCEPT !.enabled = FALSE, !.secret = None]

FinishDisable(b) ==
  LET q == req[b] IN
  /\ q.op = "disable"
  /\ req' = [req EXCEPT ![b] = Idle]
  /\ row' = IF Opens(q) THEN [row EXCEPT ![q.user] = Disabled(@)] ELSE row
  /\ UNCHANGED <<sess, issued, now, asked, proven, crossed, credentials>>

-----------------------------------------------------------------------------
(***************************************************************************)
(* Credentials of a service account.  No caller sets expires_at.           *)
(***************************************************************************)
NextCred(c) == cred[c].state = "free" /\ \A d \in 1..(c - 1) : cred[d].state # "free"

Issue(c) ==
  /\ Request
  /\ NextCred(c)
  /\ cred' = [cred EXCEPT ![c] = [state |-> "issued", revoked |-> FALSE]]
  /\ UNCHANGED <<call, now, accounts>>

\* The credential is loaded at the start of a request that revokes or rotates
\* it, and of every request that presents it as its bearer token.
LoadCredential(k, op, c) ==
  /\ Request
  /\ call[k] = Idle /\ (\A j \in 1..(k - 1) : call[j] # Idle) /\ cred[c].state = "issued"
  /\ op = "use" => ~ cred[c].revoked
  /\ call' = [call EXCEPT ![k] = [op |-> op, cred |-> c, copy |-> cred[c]]]
  /\ UNCHANGED <<cred, now, accounts>>

Revoke(k) ==
  /\ call[k].op = "revoke"
  /\ cred' = [cred EXCEPT ![call[k].cred].revoked = TRUE]
  /\ call' = [call EXCEPT ![k] = Idle]
  /\ UNCHANGED <<now, asked, accounts>>

\* Revocation and successor in one transaction, whatever the credential's state.
Rotate(k, c) ==
  /\ call[k].op = "rotate" /\ NextCred(c)
  /\ cred' = [cred EXCEPT ![c] = [state |-> "issued", revoked |-> FALSE], ![call[k].cred].revoked = TRUE]
  /\ call' = [call EXCEPT ![k] = Idle]
  /\ UNCHANGED <<now, asked, accounts>>

\* resolve_credential notes last_used_at, and writes nothing else.
Touched_WholeRow(k) == [cred EXCEPT ![call[k].cred] = call[k].copy]
Touched(k) == cred

Use(k) ==
  /\ call[k].op = "use"
  /\ cred' = Touched(k)
  /\ call' = [call EXCEPT ![k] = Idle]
  /\ UNCHANGED <<now, asked, accounts>>

Tick ==
  /\ now < MaxTime
  /\ now' = now + 1
  /\ UNCHANGED <<asked, accounts, credentials>>

-----------------------------------------------------------------------------
Browsing ==
  \E b \in Browsers :
    \/ \E u \in Users : Register(b, u) \/ BeginLogin(b, u)
    \/ Logout(b) \/ Enroll(b)
    \/ \E op \in {"verify", "confirm", "disable"}, code \in Codes : BeginCode(b, op, code)
    \/ FinishLogin(b) \/ FinishVerify(b) \/ FinishConfirm(b) \/ FinishDisable(b)

Calling ==
  \/ \E c \in Creds : Issue(c)
  \/ \E k \in Callers :
       \/ \E op \in {"use", "revoke", "rotate"}, c \in Creds : LoadCredential(k, op, c)
       \/ Revoke(k) \/ Use(k) \/ \E c \in Creds : Rotate(k, c)

AuthNext == Browsing \/ Calling \/ Tick

AuthSpec == AuthInit /\ [][AuthNext]_authVars

-----------------------------------------------------------------------------
(***************************************************************************)
(* Properties.                                                             *)
(***************************************************************************)

\* The values each variable takes.
AuthTypeOK ==
  /\ row \in [Users -> [exists : BOOLEAN, enabled : BOOLEAN, secret : Secrets \cup {None},
                        since : 0..MaxRequests]]
  /\ sess \in [Browsers ->
       [user : Users \cup {Nobody}, pending : Users \cup {Nobody}, short : BOOLEAN,
        exp : 1..Never, factor : Secrets \cup {None}, asof : 0..MaxRequests,
        at : 0..MaxTime]]
  /\ cred \in [Creds -> [state : {"free", "issued"}, revoked : BOOLEAN]]
  /\ issued \in 0..MaxRequests /\ now \in 0..MaxTime /\ asked \in 0..MaxRequests
  /\ proven \in [Users -> SUBSET Secrets] /\ crossed \subseteq Users
  /\ \A b \in Browsers : req[b].op \in {"none", "login", "verify", "confirm", "disable"}
  /\ \A k \in Callers : call[k].op \in {"none", "use", "revoke", "rotate"}

\* Once enabled, the second factor is a secret whose code its owner has shown;
\* the exception is a confirmation that overlapped an enrollment or a removal in
\* another browser (confirm_mfa_enrollment checks the secret it loaded).
EnabledIsProven ==
  \A u \in Users \ crossed : row[u].enabled => row[u].secret \in proven[u]

\* A session of a user whose second factor is enabled was opened with a code of a
\* secret the user had confirmed, or by a login that looked at the row before the
\* factor was last enabled (LoginView, MFALoginVerifyView).
SessionsEarned ==
  \A b \in Browsers :
    LET s == sess[b] IN
    s.user # Nobody /\ s.user \notin crossed =>
      /\ s.factor # None => s.factor \in proven[s.user]
      /\ s.factor = None /\ row[s.user].enabled => s.asof <= row[s.user].since

\* A session that waits for a code dies when the time given to enter it is over,
\* counted from the password; only a login as somebody else in the same browser,
\* which saves the session again, keeps it longer (LoginView, login()).
PendingIsBrief ==
  \A b \in Browsers :
    LET s == Session(b) IN
    s.pending # Nobody /\ s.user = Nobody => now < s.at + PendingLife

\* Logins are sound: the parts above, and the values each variable takes.
LoginsAreSound == AuthTypeOK /\ EnabledIsProven /\ SessionsEarned /\ PendingIsBrief

\* A revoked credential never becomes valid again, although every use of it
\* writes its row (resolve_credential, revoke_credential).
RevokedStaysRevoked == [][\A c \in Creds : cred[c].revoked => cred'[c].revoked]_cred
=============================================================================
