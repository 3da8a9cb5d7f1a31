---------------------------- MODULE ServicesProofs ---------------------------
(***************************************************************************)
(* Proofs about five parts that share no state, for every value of their   *)
(* constants: authentication, connected databases, dashboards, the tables  *)
(* of a tenant database and, last, analytics.                              *)
(***************************************************************************)
EXTENDS Connections, Dashboards, Authentication, TableData, Analytics, FiniteSetTheorems,
        TLAPS

-----------------------------------------------------------------------------
(***************************************************************************)
(* Authentication: the inductive invariant.                                *)
(***************************************************************************)

\* The values of the components of the state.
RowRecords == [exists : BOOLEAN, enabled : BOOLEAN, secret : Secrets \cup {None},
               since : 0..MaxRequests]
SessRecords == [user : Users \cup {Nobody}, pending : Users \cup {Nobody}, short : BOOLEAN,
                exp : 1..Never, factor : Secrets \cup {None}, asof : 0..MaxRequests,
                at : 0..MaxTime]
LoginRequests == [op : {"login"}, user : Users, copy : RowRecords, asof : 0..MaxRequests]
CodeRequests == [op : {"verify", "confirm", "disable"}, user : Users, copy : RowRecords,
                 code : [secret : Secrets, period : Nat], asof : 0..MaxRequests]
CredRecords == [state : {"free", "issued"}, revoked : BOOLEAN]
CallRequests == [op : {"use", "revoke", "rotate"}, cred : Creds, copy : CredRecords]

\* The variables are functions of users, browsers, credentials and callers.
AuthTypeInv ==
  /\ row \in [Users -> RowRecords] /\ sess \in [Browsers -> SessRecords]
  /\ req \in [Browsers -> {Idle} \cup LoginRequests \cup CodeRequests]
  /\ cred \in [Creds -> CredRecords] /\ call \in [Callers -> {Idle} \cup CallRequests]
  /\ asked \in 0..MaxRequests /\ issued \in 0..asked /\ now \in 0..MaxTime
  /\ proven \in [Users -> SUBSET Secrets] /\ crossed \subseteq Users

\* Only an account that exists has a second factor, and a confirmed one.
RowInv == EnabledIsProven /\ \A u \in Users : row[u].enabled => row[u].exists

\* What a session of a browser may be.
SessOK(s) ==
  /\ \A u \in {s.user, s.pending} \ {Nobody} : row[u].exists
  /\ s.asof <= asked
  /\ s.pending # Nobody /\ s.user = Nobody => s.exp <= s.at + PendingLife
  /\ s.user # Nobody /\ s.user \notin crossed =>
       /\ s.factor # None => s.factor \in proven[s.user]
       /\ s.factor = None /\ row[s.user].enabled => s.asof <= row[s.user].since

SessInv == \A b \in Browsers : SessOK(sess[b])

\* What a request may have loaded: a row as it was then, which since has been
\* confirmed, if at all, after the request began.
ReqOK(q) ==
  /\ q.asof <= asked
  /\ q.user \notin crossed /\ q.copy.enabled => q.copy.secret \in proven[q.user]
  /\ ~ q.copy.enabled /\ row[q.user].enabled => q.asof <= row[q.user].since
  /\ row[q.user].exists

ReqInv == \A b \in Browsers : req[b].op # "none" => ReqOK(req[b])

\* A credential that has not been issued has not been revoked.
CredInv == \A c \in Creds : cred[c].state = "free" => cred[c].revoked = FALSE

\* A call has loaded a credential that has been issued.
CallInv == \A k \in Callers : call[k].op # "none" => cred[call[k].cred].state = "issued"

\* The inductive invariant of authentication.
AuthIInv == AuthTypeInv /\ RowInv /\ SessInv /\ ReqInv /\ CredInv /\ CallInv

\* The bounds on the clock and on requests.
LEMMA AuthCounts ==
  /\ MaxTime \in Nat /\ MaxRequests \in Nat /\ PendingLife \in Nat /\ PendingLife >= 1
  /\ NumCreds \in Nat /\ NumCallers \in Nat /\ Nobody \notin Users
  BY AuthenticationAssumption

-----------------------------------------------------------------------------
(***************************************************************************)
(* Authentication: sessions and requests.                                  *)
(***************************************************************************)

\* A browser without a cookie.
LEMMA AnonymousFacts ==
  /\ Anonymous \in SessRecords /\ Anonymous.user = Nobody /\ Anonymous.pending = Nobody
  /\ Anonymous.asof = 0
  BY AuthCounts DEF Anonymous, SessRecords, Never, None

\* The session a request finds is the browser's, or none.
LEMMA SessionFacts ==
  ASSUME AuthTypeInv, NEW b \in Browsers
  PROVE  /\ Session(b) \in SessRecords
         /\ Session(b) = sess[b] \/ Session(b) = Anonymous
  BY AnonymousFacts DEF Session, AuthTypeInv

\* Saving a session gives it its expiry, and leaves the rest.
LEMMA SavedFacts ==
  ASSUME AuthTypeInv, NEW s \in SessRecords
  PROVE  /\ Saved(s) \in SessRecords
         /\ Saved(s).user = s.user /\ Saved(s).pending = s.pending /\ Saved(s).at = s.at
         /\ Saved(s).factor = s.factor /\ Saved(s).asof = s.asof /\ Saved(s).short = s.short
         /\ s.short => Saved(s).exp = now + PendingLife
<1> DEFINE exp == IF s.short THEN now + PendingLife ELSE Never
<1>1. exp \in 1..Never
  BY AuthCounts DEF AuthTypeInv, Never
<1>2. Saved(s) = [s EXCEPT !.exp = exp]
  BY DEF Saved
<1>3. s.short => exp = now + PendingLife
  OBVIOUS
<1> HIDE DEF exp
<1> QED
  BY <1>1, <1>2, <1>3 DEF SessRecords

\* login() makes the session one of the user.
LEMMA UpgradedFacts ==
  ASSUME AuthTypeInv, NEW s \in SessRecords, NEW u \in Users,
         NEW secret \in Secrets \cup {None}, NEW asof \in 0..MaxRequests
  PROVE  /\ Upgraded(s, u, secret, asof) \in SessRecords
         /\ Upgraded(s, u, secret, asof).user = u
         /\ Upgraded(s, u, secret, asof).pending \in {s.pending, Nobody}
         /\ Upgraded(s, u, secret, asof).factor = secret
         /\ Upgraded(s, u, secret, asof).asof = asof
<1>1. PICK t \in SessRecords : /\ t = IF s.user \in {Nobody, u} THEN s ELSE Anonymous
                               /\ t.pending \in {s.pending, Nobody}
  BY AnonymousFacts
<1>2. PICK x : x = [t EXCEPT !.user = u, !.factor = secret, !.asof = asof]
  OBVIOUS
<1>3. /\ x \in SessRecords /\ x.user = u /\ x.factor = secret /\ x.asof = asof
      /\ x.pending = t.pending
  BY <1>2 DEF SessRecords
<1>4. Upgraded(s, u, secret, asof) = Saved(x)
  BY <1>1, <1>2 DEF Upgraded
<1> QED
  BY <1>1, <1>3, <1>4, SavedFacts

\* A session that waits for a code expires when the time for it is over.
LEMMA WaitingFacts ==
  ASSUME AuthTypeInv, NEW s \in SessRecords, NEW u \in Users
  PROVE  /\ Waiting(s, u) \in SessRecords
         /\ Waiting(s, u).user = s.user /\ Waiting(s, u).factor = s.factor
         /\ Waiting(s, u).pending = u /\ Waiting(s, u).asof = s.asof /\ Waiting(s, u).at = now
         /\ Waiting(s, u).exp = now + PendingLife
<1>1. PICK x : x = [s EXCEPT !.pending = u, !.at = now, !.short = TRUE]
  OBVIOUS
<1>2. /\ x \in SessRecords /\ x.user = s.user /\ x.factor = s.factor /\ x.asof = s.asof
      /\ x.pending = u /\ x.at = now /\ x.short
  BY <1>1 DEF SessRecords, AuthTypeInv
<1>3. Waiting(s, u) = Saved(x)
  BY <1>1 DEF Waiting
<1> QED
  BY <1>2, <1>3, SavedFacts

\* A request that is not idle says what it is about.
LEMMA ReqFacts ==
  ASSUME AuthTypeInv, NEW b \in Browsers
  PROVE  /\ req[b].op = "login" => req[b] \in LoginRequests
         /\ req[b].op \in {"verify", "confirm", "disable"} => req[b] \in CodeRequests
         /\ req[b].op # "none" => req[b] \in LoginRequests \cup CodeRequests
         /\ req[b].op \in {"none", "login", "verify", "confirm", "disable"}
  BY DEF AuthTypeInv, Idle, LoginRequests, CodeRequests

\* So does a call about a credential.
LEMMA CallFacts ==
  ASSUME AuthTypeInv, NEW k \in Callers
  PROVE  /\ call[k].op # "none" => call[k] \in CallRequests
         /\ call[k].op \in {"none", "use", "revoke", "rotate"}
  BY DEF AuthTypeInv, Idle, CallRequests

-----------------------------------------------------------------------------
(***************************************************************************)
(* Authentication: every step keeps the invariant.                         *)
(***************************************************************************)

\* The clock and the counters stay within their bounds.
LEMMA CountersNext ==
  ASSUME AuthIInv, [AuthNext]_authVars
  PROVE  asked' \in 0..MaxRequests /\ issued' \in 0..asked' /\ now' \in 0..MaxTime /\ asked <= asked'
<1> USE DEF AuthIInv, AuthTypeInv
<1>1. ASSUME NEW b \in Browsers, NEW u \in Users, Register(b, u) \/ BeginLogin(b, u)
      PROVE  asked' \in 0..MaxRequests /\ issued' \in 0..asked' /\ now' \in 0..MaxTime /\ asked <= asked'
  BY <1>1, AuthCounts DEF Register, BeginLogin, accounts, credentials, Request
<1>2. ASSUME NEW b \in Browsers, Enroll(b)
      PROVE  asked' \in 0..MaxRequests /\ issued' \in 0..asked' /\ now' \in 0..MaxTime /\ asked <= asked'
  BY <1>2, AuthCounts DEF Enroll, accounts, credentials, Request
<1>3. ASSUME NEW b \in Browsers, Logout(b)
      PROVE  asked' \in 0..MaxRequests /\ issued' \in 0..asked' /\ now' \in 0..MaxTime /\ asked <= asked'
  BY <1>3, AuthCounts DEF Logout, accounts, credentials, Request
<1>4. ASSUME NEW b \in Browsers, NEW kind \in {"verify", "confirm", "disable"}, NEW code \in Codes, BeginCode(b, kind, code)
      PROVE  asked' \in 0..MaxRequests /\ issued' \in 0..asked' /\ now' \in 0..MaxTime /\ asked <= asked'
  BY <1>4, AuthCounts DEF BeginCode, accounts, credentials, Request
<1>5. ASSUME NEW c \in Creds, Issue(c)
      PROVE  asked' \in 0..MaxRequests /\ issued' \in 0..asked' /\ now' \in 0..MaxTime /\ asked <= asked'
  BY <1>5, AuthCounts DEF Issue, accounts, credentials, Request
<1>6. ASSUME NEW k \in Callers, NEW kind \in {"use", "revoke", "rotate"}, NEW c \in Creds, LoadCredential(k, kind, c)
      PROVE  asked' \in 0..MaxRequests /\ issued' \in 0..asked' /\ now' \in 0..MaxTime /\ asked <= asked'
  BY <1>6, AuthCounts DEF LoadCredential, accounts, credentials, Request
<1>7. ASSUME NEW b \in Browsers, FinishLogin(b) \/ FinishVerify(b) \/ FinishConfirm(b) \/ FinishDisable(b)
      PROVE  asked' \in 0..MaxRequests /\ issued' \in 0..asked' /\ now' \in 0..MaxTime /\ asked <= asked'
  BY <1>7, AuthCounts DEF FinishLogin, FinishVerify, FinishConfirm, FinishDisable, accounts, credentials
<1>8. ASSUME NEW k \in Callers, Revoke(k) \/ Use(k)
      PROVE  asked' \in 0..MaxRequests /\ issued' \in 0..asked' /\ now' \in 0..MaxTime /\ asked <= asked'
  BY <1>8, AuthCounts DEF Revoke, Use, accounts, credentials
<1>9. ASSUME NEW k \in Callers, NEW c \in Creds, Rotate(k, c)
      PROVE  asked' \in 0..MaxRequests /\ issued' \in 0..asked' /\ now' \in 0..MaxTime /\ asked <= asked'
  BY <1>9, AuthCounts DEF Rotate, accounts, credentials
<1>10. CASE Tick
  BY <1>10, AuthCounts DEF Tick, accounts, credentials
<1>11. CASE UNCHANGED authVars
  BY <1>11, AuthCounts DEF authVars, accounts, credentials
<1> QED
  BY <1>1, <1>2, <1>3, <1>4, <1>5, <1>6, <1>7, <1>8, <1>9, <1>10, <1>11 DEF AuthNext, Browsing, Calling

\* Users' rows keep their shape.
LEMMA RowTypeNext ==
  ASSUME AuthIInv, [AuthNext]_authVars
  PROVE  row' \in [Users -> RowRecords]
<1> USE DEF AuthIInv, AuthTypeInv
<1>1. ASSUME NEW b \in Browsers, NEW u \in Users, Register(b, u) \/ BeginLogin(b, u)
      PROVE  row' \in [Users -> RowRecords]
  <2>1. [row[u] EXCEPT !.exists = TRUE] \in RowRecords
    BY DEF RowRecords
  <2>2. UNCHANGED row \/ row' = [row EXCEPT ![u] = [row[u] EXCEPT !.exists = TRUE]]
    BY <1>1 DEF Register, BeginLogin
  <2> QED
    BY <2>1, <2>2
<1>2. ASSUME NEW b \in Browsers, Enroll(b)
      PROVE  row' \in [Users -> RowRecords]
  <2>1. Session(b).user \in Users /\ issued + 1 \in Secrets
    BY <1>2, SessionFacts, AuthCounts DEF Enroll, Request, SessRecords, Secrets
  <2> QED
    BY <1>2, <2>1 DEF Enroll, Enrolled, RowRecords
<1>3. ASSUME NEW b \in Browsers, FinishConfirm(b)
      PROVE  row' \in [Users -> RowRecords]
  <2>1. req[b].user \in Users
    BY <1>3, ReqFacts DEF FinishConfirm, CodeRequests
  <2>2. [row[req[b].user] EXCEPT !.enabled = TRUE, !.since = asked] \in RowRecords
    BY <2>1 DEF RowRecords
  <2>3. \/ UNCHANGED row
        \/ row' = [row EXCEPT ![req[b].user] =
                      [row[req[b].user] EXCEPT !.enabled = TRUE, !.since = asked]]
    BY <1>3 DEF FinishConfirm
  <2> QED
    BY <2>1, <2>2, <2>3
<1>4. ASSUME NEW b \in Browsers, FinishDisable(b)
      PROVE  row' \in [Users -> RowRecords]
  BY <1>4 DEF FinishDisable, Disabled, RowRecords, None
<1>5. ASSUME NEW b \in Browsers, Logout(b) \/ FinishLogin(b) \/ FinishVerify(b)
      PROVE  row' \in [Users -> RowRecords]
  BY <1>5 DEF Logout, FinishLogin, FinishVerify, accounts, credentials
<1>6. ASSUME NEW b \in Browsers, NEW kind \in {"verify", "confirm", "disable"}, NEW code \in Codes, BeginCode(b, kind, code)
      PROVE  row' \in [Users -> RowRecords]
  BY <1>6 DEF BeginCode, accounts, credentials
<1>7. ASSUME NEW c \in Creds, Issue(c)
      PROVE  row' \in [Users -> RowRecords]
  BY <1>7 DEF Issue, accounts, credentials
<1>8. ASSUME NEW k \in Callers, NEW kind \in {"use", "revoke", "rotate"}, NEW c \in Creds, LoadCredential(k, kind, c)
      PROVE  row' \in [Users -> RowRecords]
  BY <1>8 DEF LoadCredential, accounts, credentials
<1>9. ASSUME NEW k \in Callers, Revoke(k) \/ Use(k)
      PROVE  row' \in [Users -> RowRecords]
  BY <1>9 DEF Revoke, Use, accounts, credentials
<1>10. ASSUME NEW k \in Callers, NEW c \in Creds, Rotate(k, c)
      PROVE  row' \in [Users -> RowRecords]
  BY <1>10 DEF Rotate, accounts, credentials
<1>11. CASE Tick
  BY <1>11 DEF Tick, accounts, credentials
<1>12. CASE UNCHANGED authVars
  BY <1>12 DEF authVars
<1> QED
  BY <1>1, <1>2, <1>3, <1>4, <1>5, <1>6, <1>7, <1>8, <1>9, <1>10, <1>11, <1>12 DEF AuthNext, Browsing, Calling

\* Sessions keep their shape.
LEMMA SessTypeNext ==
  ASSUME AuthIInv, [AuthNext]_authVars
  PROVE  sess' \in [Browsers -> SessRecords]
<1> USE DEF AuthIInv, AuthTypeInv
<1>1. ASSUME NEW b \in Browsers, NEW u \in Users, Register(b, u)
      PROVE  sess' \in [Browsers -> SessRecords]
  <2>1. Upgraded(Session(b), u, None, asked') \in SessRecords
    BY SessionFacts, UpgradedFacts, CountersNext DEF None
  <2> QED
    BY <1>1, <2>1 DEF Register
<1>2. ASSUME NEW b \in Browsers, Logout(b)
      PROVE  sess' \in [Browsers -> SessRecords]
  BY <1>2, AnonymousFacts DEF Logout
<1>3. ASSUME NEW b \in Browsers, FinishLogin(b)
      PROVE  sess' \in [Browsers -> SessRecords]
  <2>1. req[b] \in LoginRequests
    BY <1>3, ReqFacts DEF FinishLogin
  <2>2. req[b].user \in Users /\ req[b].asof \in 0..MaxRequests
    BY <2>1 DEF LoginRequests
  <2>3. /\ Waiting(Session(b), req[b].user) \in SessRecords
        /\ Upgraded(Session(b), req[b].user, None, req[b].asof) \in SessRecords
    BY <2>2, SessionFacts, UpgradedFacts, WaitingFacts
  <2> QED
    BY <1>3, <2>3 DEF FinishLogin
<1>4. ASSUME NEW b \in Browsers, FinishVerify(b)
      PROVE  sess' \in [Browsers -> SessRecords]
  <2> DEFINE s == [Session(b) EXCEPT !.pending = Nobody]
  <2>1. req[b] \in CodeRequests
    BY <1>4, ReqFacts DEF FinishVerify
  <2>2. req[b].user \in Users /\ req[b].asof \in 0..MaxRequests /\ req[b].code.secret \in Secrets
    BY <2>1 DEF CodeRequests
  <2>3. s \in SessRecords
    BY SessionFacts DEF SessRecords
  <2>4. Upgraded(s, req[b].user, req[b].code.secret, req[b].asof) \in SessRecords
    BY <2>2, <2>3, UpgradedFacts
  <2> QED
    BY <1>4, <2>4 DEF FinishVerify
<1>5. ASSUME NEW b \in Browsers, NEW u \in Users, BeginLogin(b, u)
      PROVE  sess' \in [Browsers -> SessRecords]
  BY <1>5 DEF BeginLogin, accounts, credentials
<1>6. ASSUME NEW b \in Browsers, Enroll(b) \/ FinishConfirm(b) \/ FinishDisable(b)
      PROVE  sess' \in [Browsers -> SessRecords]
  BY <1>6 DEF Enroll, FinishConfirm, FinishDisable, accounts, credentials
<1>7. ASSUME NEW b \in Browsers, NEW kind \in {"verify", "confirm", "disable"}, NEW code \in Codes, BeginCode(b, kind, code)
      PROVE  sess' \in [Browsers -> SessRecords]
  BY <1>7 DEF BeginCode, accounts, credentials
<1>8. ASSUME NEW c \in Creds, Issue(c)
      PROVE  sess' \in [Browsers -> SessRecords]
  BY <1>8 DEF Issue, accounts, credentials
<1>9. ASSUME NEW k \in Callers, NEW kind \in {"use", "revoke", "rotate"}, NEW c \in Creds, LoadCredential(k, kind, c)
      PROVE  sess' \in [Browsers -> SessRecords]
  BY <1>9 DEF LoadCredential, accounts, credentials
<1>10. ASSUME NEW k \in Callers, Revoke(k) \/ Use(k)
      PROVE  sess' \in [Browsers -> SessRecords]
  BY <1>10 DEF Revoke, Use, accounts, credentials
<1>11. ASSUME NEW k \in Callers, NEW c \in Creds, Rotate(k, c)
      PROVE  sess' \in [Browsers -> SessRecords]
  BY <1>11 DEF Rotate, accounts, credentials
<1>12. CASE Tick
  BY <1>12 DEF Tick, accounts, credentials
<1>13. CASE UNCHANGED authVars
  BY <1>13 DEF authVars
<1> QED
  BY <1>1, <1>2, <1>3, <1>4, <1>5, <1>6, <1>7, <1>8, <1>9, <1>10, <1>11, <1>12, <1>13 DEF AuthNext, Browsing, Calling

\* Requests under way keep their shape.
LEMMA ReqTypeNext ==
  ASSUME AuthIInv, [AuthNext]_authVars
  PROVE  req' \in [Browsers -> {Idle} \cup LoginRequests \cup CodeRequests]
<1> USE DEF AuthIInv, AuthTypeInv
<1>1. ASSUME NEW b \in Browsers, NEW u \in Users, BeginLogin(b, u)
      PROVE  req' \in [Browsers -> {Idle} \cup LoginRequests \cup CodeRequests]
  <2>1. [op |-> "login", user |-> u, copy |-> row[u], asof |-> asked'] \in LoginRequests
    BY CountersNext DEF LoginRequests
  <2> QED
    BY <1>1, <2>1 DEF BeginLogin
<1>2. ASSUME NEW b \in Browsers, NEW kind \in {"verify", "confirm", "disable"}, NEW code \in Codes, BeginCode(b, kind, code)
      PROVE  req' \in [Browsers -> {Idle} \cup LoginRequests \cup CodeRequests]
  <2>1. PICK w \in Users :
          req' = [req EXCEPT ![b] =
            [op |-> kind, user |-> w, copy |-> row[w], code |-> code, asof |-> asked']]
    BY <1>2, SessionFacts DEF BeginCode, SessRecords
  <2>2. code \in [secret : Secrets, period : Nat]
    BY AuthCounts DEF Codes, Secrets
  <2>3. [op |-> kind, user |-> w, copy |-> row[w], code |-> code, asof |-> asked'] \in CodeRequests
    BY <2>2, CountersNext DEF CodeRequests
  <2> QED
    BY <2>1, <2>3
<1>3. ASSUME NEW b \in Browsers, NEW u \in Users, Register(b, u)
      PROVE  req' \in [Browsers -> {Idle} \cup LoginRequests \cup CodeRequests]
  BY <1>3 DEF Register, accounts, credentials
<1>4. ASSUME NEW b \in Browsers, Logout(b) \/ Enroll(b) \/ FinishLogin(b) \/ FinishVerify(b) \/ FinishConfirm(b) \/ FinishDisable(b)
      PROVE  req' \in [Browsers -> {Idle} \cup LoginRequests \cup CodeRequests]
  BY <1>4 DEF Logout, Enroll, FinishLogin, FinishVerify, FinishConfirm, FinishDisable, accounts, credentials
<1>5. ASSUME NEW c \in Creds, Issue(c)
      PROVE  req' \in [Browsers -> {Idle} \cup LoginRequests \cup CodeRequests]
  BY <1>5 DEF Issue, accounts, credentials
<1>6. ASSUME NEW k \in Callers, NEW kind \in {"use", "revoke", "rotate"}, NEW c \in Creds, LoadCredential(k, kind, c)
      PROVE  req' \in [Browsers -> {Idle} \cup LoginRequests \cup CodeRequests]
  BY <1>6 DEF LoadCredential, accounts, credentials
<1>7. ASSUME NEW k \in Callers, Revoke(k) \/ Use(k)
      PROVE  req' \in [Browsers -> {Idle} \cup LoginRequests \cup CodeRequests]
  BY <1>7 DEF Revoke, Use, accounts, credentials
<1>8. ASSUME NEW k \in Callers, NEW c \in Creds, Rotate(k, c)
      PROVE  req' \in [Browsers -> {Idle} \cup LoginRequests \cup CodeRequests]
  BY <1>8 DEF Rotate, accounts, credentials
<1>9. CASE Tick
  BY <1>9 DEF Tick, accounts, credentials
<1>10. CASE UNCHANGED authVars
  BY <1>10 DEF authVars
<1> QED
  BY <1>1, <1>2, <1>3, <1>4, <1>5, <1>6, <1>7, <1>8, <1>9, <1>10 DEF AuthNext, Browsing, Calling

\* Credentials and calls keep their shape.
LEMMA CredTypeNext ==
  ASSUME AuthIInv, [AuthNext]_authVars
  PROVE  cred' \in [Creds -> CredRecords] /\ call' \in [Callers -> {Idle} \cup CallRequests]
<1> USE DEF AuthIInv, AuthTypeInv
<1>1. ASSUME NEW c \in Creds, Issue(c)
      PROVE  cred' \in [Creds -> CredRecords] /\ call' \in [Callers -> {Idle} \cup CallRequests]
  BY <1>1 DEF Issue, accounts, credentials, CredRecords
<1>2. ASSUME NEW k \in Callers, NEW kind \in {"use", "revoke", "rotate"}, NEW c \in Creds, LoadCredential(k, kind, c)
      PROVE  cred' \in [Creds -> CredRecords] /\ call' \in [Callers -> {Idle} \cup CallRequests]
  <2>1. [op |-> kind, cred |-> c, copy |-> cred[c]] \in CallRequests
    BY DEF CallRequests
  <2> QED
    BY <1>2, <2>1 DEF LoadCredential
<1>3. ASSUME NEW k \in Callers, Revoke(k)
      PROVE  cred' \in [Creds -> CredRecords] /\ call' \in [Callers -> {Idle} \cup CallRequests]
  BY <1>3, CallFacts DEF Revoke, CredRecords
<1>4. ASSUME NEW k \in Callers, Use(k)
      PROVE  cred' \in [Creds -> CredRecords] /\ call' \in [Callers -> {Idle} \cup CallRequests]
  BY <1>4 DEF Use, Touched
<1>5. ASSUME NEW k \in Callers, NEW c \in Creds, Rotate(k, c)
      PROVE  cred' \in [Creds -> CredRecords] /\ call' \in [Callers -> {Idle} \cup CallRequests]
  <2>1. call[k] \in CallRequests /\ call' = [call EXCEPT ![k] = Idle]
    BY <1>5, CallFacts DEF Rotate
  <2>2. call[k].cred \in Creds
    BY <2>1 DEF CallRequests
  <2>3. cred' \in [Creds -> CredRecords]
    BY <1>5, <2>2 DEF Rotate, CredRecords
  <2> QED
    BY <2>1, <2>3
<1>6. ASSUME NEW b \in Browsers, NEW u \in Users, Register(b, u) \/ BeginLogin(b, u)
      PROVE  cred' \in [Creds -> CredRecords] /\ call' \in [Callers -> {Idle} \cup CallRequests]
  BY <1>6 DEF Register, BeginLogin, accounts, credentials
<1>7. ASSUME NEW b \in Browsers, Logout(b) \/ Enroll(b) \/ FinishLogin(b) \/ FinishVerify(b) \/ FinishConfirm(b) \/ FinishDisable(b)
      PROVE  cred' \in [Creds -> CredRecords] /\ call' \in [Callers -> {Idle} \cup CallRequests]
  BY <1>7 DEF Logout, Enroll, FinishLogin, FinishVerify, FinishConfirm, FinishDisable, accounts, credentials
<1>8. ASSUME NEW b \in Browsers, NEW kind \in {"verify", "confirm", "disable"}, NEW code \in Codes, BeginCode(b, kind, code)
      PROVE  cred' \in [Creds -> CredRecords] /\ call' \in [Callers -> {Idle} \cup CallRequests]
  BY <1>8 DEF BeginCode, accounts, credentials
<1>9. CASE Tick
  BY <1>9 DEF Tick, accounts, credentials
<1>10. CASE UNCHANGED authVars
  BY <1>10 DEF authVars
<1> QED
  BY <1>1, <1>2, <1>3, <1>4, <1>5, <1>6, <1>7, <1>8, <1>9, <1>10 DEF AuthNext, Browsing, Calling

\* The histories keep their shape, and only grow.
LEMMA HistoryTypeNext ==
  ASSUME AuthIInv, [AuthNext]_authVars
  PROVE  /\ proven' \in [Users -> SUBSET Secrets] /\ crossed' \subseteq Users
         /\ crossed \subseteq crossed' /\ \A w \in Users : proven[w] \subseteq proven'[w]
<1> USE DEF AuthIInv, AuthTypeInv
<1>1. ASSUME NEW b \in Browsers, FinishConfirm(b)
      PROVE  /\ proven' \in [Users -> SUBSET Secrets] /\ crossed' \subseteq Users
             /\ crossed \subseteq crossed' /\ \A w \in Users : proven[w] \subseteq proven'[w]
  <2>1. req[b] \in CodeRequests
    BY <1>1, ReqFacts DEF FinishConfirm
  <2>2. req[b].user \in Users /\ req[b].code.secret \in Secrets
    BY <2>1 DEF CodeRequests
  <2> QED
    BY <1>1, <2>2 DEF FinishConfirm
<1>2. ASSUME NEW b \in Browsers, NEW u \in Users, Register(b, u) \/ BeginLogin(b, u)
      PROVE  /\ proven' \in [Users -> SUBSET Secrets] /\ crossed' \subseteq Users
             /\ crossed \subseteq crossed' /\ \A w \in Users : proven[w] \subseteq proven'[w]
  BY <1>2 DEF Register, BeginLogin, accounts, credentials
<1>3. ASSUME NEW b \in Browsers, Logout(b) \/ Enroll(b) \/ FinishLogin(b) \/ FinishVerify(b) \/ FinishDisable(b)
      PROVE  /\ proven' \in [Users -> SUBSET Secrets] /\ crossed' \subseteq Users
             /\ crossed \subseteq crossed' /\ \A w \in Users : proven[w] \subseteq proven'[w]
  BY <1>3 DEF Logout, Enroll, FinishLogin, FinishVerify, FinishDisable, accounts, credentials
<1>4. ASSUME NEW b \in Browsers, NEW kind \in {"verify", "confirm", "disable"}, NEW code \in Codes, BeginCode(b, kind, code)
      PROVE  /\ proven' \in [Users -> SUBSET Secrets] /\ crossed' \subseteq Users
             /\ crossed \subseteq crossed' /\ \A w \in Users : proven[w] \subseteq proven'[w]
  BY <1>4 DEF BeginCode, accounts, credentials
<1>5. ASSUME NEW c \in Creds, Issue(c)
      PROVE  /\ proven' \in [Users -> SUBSET Secrets] /\ crossed' \subseteq Users
             /\ crossed \subseteq crossed' /\ \A w \in Users : proven[w] \subseteq proven'[w]
  BY <1>5 DEF Issue, accounts, credentials
<1>6. ASSUME NEW k \in Callers, NEW kind \in {"use", "revoke", "rotate"}, NEW c \in Creds, LoadCredential(k, kind, c)
      PROVE  /\ proven' \in [Users -> SUBSET Secrets] /\ crossed' \subseteq Users
             /\ crossed \subseteq crossed' /\ \A w \in Users : proven[w] \subseteq proven'[w]
  BY <1>6 DEF LoadCredential, accounts, credentials
<1>7. ASSUME NEW k \in Callers, Revoke(k) \/ Use(k)
      PROVE  /\ proven' \in [Users -> SUBSET Secrets] /\ crossed' \subseteq Users
             /\ crossed \subseteq crossed' /\ \A w \in Users : proven[w] \subseteq proven'[w]
  BY <1>7 DEF Revoke, Use, accounts, credentials
<1>8. ASSUME NEW k \in Callers, NEW c \in Creds, Rotate(k, c)
      PROVE  /\ proven' \in [Users -> SUBSET Secrets] /\ crossed' \subseteq Users
             /\ crossed \subseteq crossed' /\ \A w \in Users : proven[w] \subseteq proven'[w]
  BY <1>8 DEF Rotate, accounts, credentials
<1>9. CASE Tick
  BY <1>9 DEF Tick, accounts, credentials
<1>10. CASE UNCHANGED authVars
  BY <1>10 DEF authVars
<1> QED
  BY <1>1, <1>2, <1>3, <1>4, <1>5, <1>6, <1>7, <1>8, <1>9, <1>10 DEF AuthNext, Browsing, Calling

\* Every step keeps the shape of the state.
LEMMA AuthTypeNext == ASSUME AuthIInv, [AuthNext]_authVars PROVE AuthTypeInv'
  BY CountersNext, RowTypeNext, SessTypeNext, ReqTypeNext, CredTypeNext, HistoryTypeNext
     DEF AuthTypeInv

\* How a row may change: an account comes into being, a new secret is not enabled
\* yet, a confirmation enables the second factor as of now.
RowSteps(u) ==
  \/ row'[u] = row[u]
  \/ row'[u] = [row[u] EXCEPT !.exists = TRUE]
  \/ row'[u].exists = row[u].exists /\ row'[u].enabled = FALSE
  \/ /\ row'[u].exists = row[u].exists /\ row'[u].since = asked /\ asked' = asked
     /\ row'[u].secret = row[u].secret
     /\ row[u].exists
     /\ u \in crossed' \/ row[u].secret \in proven'[u]

\* Every step changes a row in one of these ways.
LEMMA RowChanges ==
  ASSUME AuthIInv, [AuthNext]_authVars
  PROVE  \A w \in Users : RowSteps(w)
<1> USE DEF AuthIInv, AuthTypeInv, RowSteps
<1>1. ASSUME NEW b \in Browsers, NEW u \in Users, Register(b, u) \/ BeginLogin(b, u)
      PROVE  \A w \in Users : RowSteps(w)
  BY <1>1 DEF Register, BeginLogin, accounts, credentials
<1>2. ASSUME NEW b \in Browsers, Enroll(b)
      PROVE  \A w \in Users : RowSteps(w)
  <2>1. Session(b).user \in Users
    BY <1>2, SessionFacts DEF Enroll, SessRecords
  <2>2. /\ Enrolled(row[Session(b).user]).exists = row[Session(b).user].exists
        /\ Enrolled(row[Session(b).user]).enabled = FALSE
    BY <2>1 DEF Enrolled, RowRecords
  <2> QED
    BY <1>2, <2>1, <2>2 DEF Enroll
<1>3. ASSUME NEW b \in Browsers, FinishConfirm(b)
      PROVE  \A w \in Users : RowSteps(w)
  <2> DEFINE q == req[b]
  <2>1. q \in CodeRequests /\ q.op = "confirm" /\ asked' = asked
    BY <1>3, ReqFacts DEF FinishConfirm
  <2>2. q.user \in Users /\ row[q.user].exists
    BY <2>1 DEF CodeRequests, ReqInv, ReqOK
  <2>3. CASE /\ q.copy.secret # None /\ VerifyTotp(q.copy.secret, q.code)
             /\ row' = [row EXCEPT ![q.user].enabled = TRUE, ![q.user].since = asked]
             /\ proven' = [proven EXCEPT ![q.user] = @ \cup {q.code.secret}]
             /\ crossed' = IF row[q.user].secret # q.copy.secret
                           THEN crossed \cup {q.user} ELSE crossed
    <3>1. q.user \in crossed' \/ row[q.user].secret \in proven'[q.user]
      BY <2>2, <2>3 DEF VerifyTotp
    <3>2. /\ row'[q.user].exists = row[q.user].exists /\ row'[q.user].since = asked
          /\ row'[q.user].secret = row[q.user].secret
      BY <2>2, <2>3 DEF RowRecords
    <3>3. \A w \in Users : w # q.user => row'[w] = row[w]
      BY <2>3
    <3> HIDE DEF q
    <3> QED
      BY <2>1, <2>2, <3>1, <3>2, <3>3
  <2>4. CASE UNCHANGED <<row, proven, crossed>>
    BY <2>4
  <2> QED
    BY <1>3, <2>3, <2>4 DEF FinishConfirm
<1>4. ASSUME NEW b \in Browsers, FinishDisable(b)
      PROVE  \A w \in Users : RowSteps(w)
  <2>1. req[b].user \in Users
    BY <1>4, ReqFacts DEF FinishDisable, CodeRequests
  <2>2. /\ Disabled(row[req[b].user]).exists = row[req[b].user].exists
        /\ Disabled(row[req[b].user]).enabled = FALSE
    BY <2>1 DEF Disabled, RowRecords
  <2> QED
    BY <1>4, <2>1, <2>2 DEF FinishDisable
<1>5. ASSUME NEW b \in Browsers, Logout(b) \/ FinishLogin(b) \/ FinishVerify(b)
      PROVE  \A w \in Users : RowSteps(w)
  BY <1>5 DEF Logout, FinishLogin, FinishVerify, accounts, credentials
<1>6. ASSUME NEW b \in Browsers, NEW kind \in {"verify", "confirm", "disable"}, NEW code \in Codes, BeginCode(b, kind, code)
      PROVE  \A w \in Users : RowSteps(w)
  BY <1>6 DEF BeginCode, accounts, credentials
<1>7. ASSUME NEW c \in Creds, Issue(c)
      PROVE  \A w \in Users : RowSteps(w)
  BY <1>7 DEF Issue, accounts, credentials
<1>8. ASSUME NEW k \in Callers, NEW kind \in {"use", "revoke", "rotate"}, NEW c \in Creds, LoadCredential(k, kind, c)
      PROVE  \A w \in Users : RowSteps(w)
  BY <1>8 DEF LoadCredential, accounts, credentials
<1>9. ASSUME NEW k \in Callers, Revoke(k) \/ Use(k)
      PROVE  \A w \in Users : RowSteps(w)
  BY <1>9 DEF Revoke, Use, accounts, credentials
<1>10. ASSUME NEW k \in Callers, NEW c \in Creds, Rotate(k, c)
      PROVE  \A w \in Users : RowSteps(w)
  BY <1>10 DEF Rotate, accounts, credentials
<1>11. CASE Tick
  BY <1>11 DEF Tick, accounts, credentials
<1>12. CASE UNCHANGED authVars
  BY <1>12 DEF authVars
<1> QED
  BY <1>1, <1>2, <1>3, <1>4, <1>5, <1>6, <1>7, <1>8, <1>9, <1>10, <1>11, <1>12 DEF AuthNext, Browsing, Calling

\* A session that was sound stays so, whatever happens to its user's row.
LEMMA SessKept ==
  ASSUME AuthIInv, [AuthNext]_authVars, NEW s \in SessRecords, SessOK(s)
  PROVE  SessOK(s)'
<1>1. s.asof <= asked /\ asked <= asked' /\ s.asof \in Nat /\ asked \in Nat /\ asked' \in Nat
  BY CountersNext, AuthCounts DEF SessOK, SessRecords, AuthIInv, AuthTypeInv
<1>0. \A u \in {s.user, s.pending} \ {Nobody} : row'[u].exists
  <2> TAKE u \in {s.user, s.pending} \ {Nobody}
  <2>1. u \in Users /\ row[u].exists /\ row[u] \in RowRecords
    BY DEF SessOK, SessRecords, AuthIInv, AuthTypeInv
  <2> QED
    BY <2>1, RowChanges DEF RowSteps, RowRecords
<1>2. CASE s.user = Nobody
  BY <1>0, <1>1, <1>2 DEF SessOK
<1>3. CASE s.user \in Users
  <2>1. RowSteps(s.user) /\ crossed \subseteq crossed' /\ proven[s.user] \subseteq proven'[s.user]
    BY <1>3, RowChanges, HistoryTypeNext
  <2>2. row[s.user] \in RowRecords
    BY <1>3 DEF AuthIInv, AuthTypeInv
  <2>4. row'[s.user].enabled => (row[s.user].enabled /\ row'[s.user].since = row[s.user].since) \/ row'[s.user].since = asked
    BY <2>1, <2>2 DEF RowSteps, RowRecords
  <2> QED
    BY <1>0, <1>1, <1>3, <2>1, <2>4, AuthCounts DEF SessOK
<1> QED
  BY <1>2, <1>3 DEF SessRecords

\* What a request has loaded stays what it was, and the row behind it changes only
\* in ways its invariant allows.
LEMMA ReqKept ==
  ASSUME AuthIInv, [AuthNext]_authVars, NEW q \in LoginRequests \cup CodeRequests, ReqOK(q)
  PROVE  ReqOK(q)'
<1>1. q.asof <= asked /\ asked <= asked' /\ q.asof \in Nat /\ asked \in Nat /\ asked' \in Nat
  BY CountersNext, AuthCounts DEF ReqOK, LoginRequests, CodeRequests, AuthIInv, AuthTypeInv
<1>2. q.user \in Users
  BY DEF LoginRequests, CodeRequests
<1>3. RowSteps(q.user) /\ crossed \subseteq crossed' /\ proven[q.user] \subseteq proven'[q.user]
  BY <1>2, RowChanges, HistoryTypeNext
<1>4. row[q.user] \in RowRecords
  BY <1>2 DEF AuthIInv, AuthTypeInv
<1>5. row[q.user].exists => row'[q.user].exists
  BY <1>3, <1>4 DEF RowSteps, RowRecords
<1>6. row'[q.user].enabled => (row[q.user].enabled /\ row'[q.user].since = row[q.user].since) \/ row'[q.user].since = asked
  BY <1>3, <1>4 DEF RowSteps, RowRecords
<1> QED
  BY <1>1, <1>3, <1>5, <1>6 DEF ReqOK

\* A second factor is enabled on a secret its owner has shown a code of, or the
\* confirmation was crossed by a change in another browser.
LEMMA RowNext == ASSUME AuthIInv, [AuthNext]_authVars PROVE RowInv'
<1> SUFFICES ASSUME NEW u \in Users, row'[u].enabled
             PROVE  row'[u].exists /\ (u \notin crossed' => row'[u].secret \in proven'[u])
  BY DEF RowInv, EnabledIsProven
<1>1. RowSteps(u) /\ crossed \subseteq crossed' /\ proven[u] \subseteq proven'[u]
  BY RowChanges, HistoryTypeNext
<1>2. row[u] \in RowRecords /\ (row[u].enabled => row[u].exists)
  BY DEF AuthIInv, AuthTypeInv, RowInv
<1>3. u \notin crossed /\ row[u].enabled => row[u].secret \in proven[u]
  BY DEF AuthIInv, RowInv, EnabledIsProven
<1> QED
  BY <1>1, <1>2, <1>3 DEF RowSteps, RowRecords

\* A session that is replaced by a sound one leaves all of them sound.
LEMMA SessReplaced ==
  ASSUME AuthIInv, [AuthNext]_authVars, NEW b \in Browsers, NEW s,
         SessOK(s)', sess' = [sess EXCEPT ![b] = s]
  PROVE  SessInv'
<1>1. \A w \in Browsers : w # b => sess'[w] = sess[w] /\ sess[w] \in SessRecords /\ SessOK(sess[w])
  BY DEF AuthIInv, AuthTypeInv, SessInv
<1>2. sess'[b] = s
  BY DEF AuthIInv, AuthTypeInv
<1>3. ASSUME NEW w \in Browsers PROVE SessOK(sess[w])'
  <2>1. CASE w = b
    BY <1>2, <2>1 DEF SessOK
  <2>2. CASE w # b
    <3>1. PICK t \in SessRecords : t = sess[w] /\ SessOK(t)
      BY <1>1, <2>2
    <3>2. SessOK(t)'
      BY <3>1, SessKept
    <3> QED
      BY <1>1, <2>2, <3>1, <3>2 DEF SessOK
  <2> QED
    BY <2>1, <2>2
<1> QED
  BY <1>3 DEF SessInv

\* Sessions are kept when no session changes.
LEMMA SessUnchanged ==
  ASSUME AuthIInv, [AuthNext]_authVars, UNCHANGED sess
  PROVE  SessInv'
<1> SUFFICES ASSUME NEW w \in Browsers PROVE SessOK(sess[w])'
  BY DEF SessInv
<1>1. PICK t \in SessRecords : t = sess[w] /\ SessOK(t)
  BY DEF AuthIInv, AuthTypeInv, SessInv
<1>2. SessOK(t)'
  BY <1>1, SessKept
<1> QED
  BY <1>1, <1>2 DEF SessOK

\* The session a request finds is sound in the next state.
LEMMA SessionSound ==
  ASSUME AuthIInv, [AuthNext]_authVars, NEW b \in Browsers, NEW s, s = Session(b)
  PROVE  s \in SessRecords /\ SessOK(s)'
<1>1. s \in SessRecords /\ (s = sess[b] \/ s = Anonymous)
  BY SessionFacts DEF AuthIInv
<1>2. SessOK(s)
  <2>1. SessOK(sess[b])
    BY DEF AuthIInv, SessInv
  <2>2. SessOK(Anonymous)
    BY AnonymousFacts, AuthCounts DEF SessOK, AuthIInv, AuthTypeInv
  <2> QED
    BY <1>1, <2>1, <2>2
<1> QED
  BY <1>1, <1>2, SessKept

\* Every session has been earned, and one that waits is brief.
LEMMA SessNext ==
  ASSUME AuthIInv, [AuthNext]_authVars
  PROVE  SessInv'
<1>1. ASSUME NEW b \in Browsers, NEW u \in Users, Register(b, u)
      PROVE  SessInv'
  <2>1. PICK s : s = Upgraded(Session(b), u, None, asked')
    OBVIOUS
  <2>2. PICK t \in SessRecords : t = Session(b) /\ SessOK(t)'
    BY SessionSound
  <2>5. None \in Secrets \cup {None} /\ asked' \in 0..MaxRequests /\ AuthTypeInv
    BY CountersNext DEF AuthIInv
  <2>6. s.user = u /\ s.factor = None /\ s.asof = asked' /\ s.pending \in {t.pending, Nobody}
    BY <2>1, <2>2, <2>5, UpgradedFacts
  <2>3. row'[u].exists /\ ~ row'[u].enabled
    BY <1>1 DEF Register, AuthIInv, AuthTypeInv, RowInv, RowRecords
  <2>4. SessOK(s)'
    BY <2>2, <2>3, <2>6, CountersNext, AuthCounts DEF SessOK
  <2> QED
    BY <1>1, <2>1, <2>4, SessReplaced DEF Register
<1>2. ASSUME NEW b \in Browsers, Logout(b)
      PROVE  SessInv'
  <2>1. SessOK(Anonymous)'
    BY AnonymousFacts, CountersNext, AuthCounts DEF SessOK, Anonymous, Never
  <2> QED
    BY <1>2, <2>1, SessReplaced DEF Logout
<1>3. ASSUME NEW b \in Browsers, FinishLogin(b)
      PROVE  SessInv'
  <2>1. PICK q \in LoginRequests : q = req[b] /\ q.op = "login" /\ ReqOK(q)
    BY <1>3, ReqFacts DEF FinishLogin, AuthIInv, ReqInv
  <2>2. q.user \in Users /\ q.asof \in 0..MaxRequests /\ UNCHANGED <<row, now, crossed, asked>>
    BY <1>3, <2>1 DEF FinishLogin, LoginRequests
  <2>3. PICK t \in SessRecords : t = Session(b) /\ SessOK(t)'
    BY SessionSound
  <2>4. CASE AskCode(q)
    <3>1. PICK s : s = Waiting(t, q.user)
      OBVIOUS
    <3>2. /\ s.user = t.user /\ s.factor = t.factor /\ s.asof = t.asof /\ s.at = now
          /\ s.pending = q.user /\ s.exp = now + PendingLife
      BY <2>2, <3>1, WaitingFacts DEF AuthIInv
    <3>3. \A u \in {s.user, s.pending} \ {Nobody} : row'[u].exists
      <4>1. row'[q.user].exists
        BY <2>1, <2>2, <2>3 DEF ReqOK
      <4>2. t.user # Nobody => row'[t.user].exists
        BY <2>3 DEF SessOK
      <4> QED
        BY <3>2, <4>1, <4>2
    <3>4. s.exp <= s.at + PendingLife
      BY <3>2, AuthCounts DEF AuthIInv, AuthTypeInv
    <3>5. SessOK(s)'
      BY <2>3, <3>2, <3>3, <3>4 DEF SessOK
    <3> QED
      BY <1>3, <2>1, <2>3, <2>4, <3>1, <3>5, SessReplaced DEF FinishLogin
  <2>5. CASE ~ AskCode(q)
    <3>1. PICK s : s = Upgraded(t, q.user, None, q.asof)
      OBVIOUS
    <3>2. s.user = q.user /\ s.factor = None /\ s.asof = q.asof /\ s.pending \in {t.pending, Nobody}
      <4>1. None \in Secrets \cup {None} /\ AuthTypeInv
        BY DEF AuthIInv
      <4> QED
        BY <2>2, <3>1, <4>1, UpgradedFacts
    <3>3. row[q.user].exists /\ (row[q.user].enabled => q.asof <= row[q.user].since) /\ q.asof <= asked
      BY <2>1, <2>5 DEF ReqOK, AskCode, LoginRequests
    <3>4. SessOK(s)'
      BY <2>2, <2>3, <3>2, <3>3, AuthCounts DEF SessOK, SessRecords
    <3> QED
      BY <1>3, <2>1, <2>3, <2>5, <3>1, <3>4, SessReplaced DEF FinishLogin
  <2> QED
    BY <2>4, <2>5
<1>4. ASSUME NEW b \in Browsers, FinishVerify(b)
      PROVE  SessInv'
  <2>1. PICK q \in CodeRequests : q = req[b] /\ q.op = "verify" /\ ReqOK(q)
    BY <1>4, ReqFacts DEF FinishVerify, AuthIInv, ReqInv
  <2>2. /\ q.user \in Users /\ q.asof \in 0..MaxRequests /\ q.code.secret \in Secrets
        /\ UNCHANGED <<row, proven, crossed, asked>>
    BY <1>4, <2>1 DEF FinishVerify, CodeRequests
  <2>3. CASE Opens(q)
    <3>1. PICK t \in SessRecords : t = [Session(b) EXCEPT !.pending = Nobody] /\ t.pending = Nobody
      <4>1. Session(b) \in SessRecords
        BY SessionFacts DEF AuthIInv
      <4>2. PICK x \in SessRecords : x = Session(b)
        BY <4>1
      <4>3. [x EXCEPT !.pending = Nobody] \in SessRecords /\ [x EXCEPT !.pending = Nobody].pending = Nobody
        BY DEF SessRecords
      <4> QED
        BY <4>2, <4>3
    <3>2. PICK s : s = Upgraded(t, q.user, q.code.secret, q.asof)
      OBVIOUS
    <3>3. s.user = q.user /\ s.factor = q.code.secret /\ s.asof = q.asof /\ s.pending = Nobody
      <4>1. AuthTypeInv
        BY DEF AuthIInv
      <4>2. PICK secret \in Secrets \cup {None}, asof \in 0..MaxRequests, u \in Users :
              secret = q.code.secret /\ asof = q.asof /\ u = q.user
        BY <2>2
      <4>3. s = Upgraded(t, u, secret, asof)
        BY <3>2, <4>2
      <4>4. s.user = u /\ s.factor = secret /\ s.asof = asof /\ s.pending \in {t.pending, Nobody}
        BY <4>1, <4>3, UpgradedFacts
      <4> QED
        BY <3>1, <4>2, <4>4
    <3>4. row[q.user].exists /\ q.asof <= asked /\ (q.user \notin crossed => q.code.secret \in proven[q.user])
      BY <2>1, <2>3 DEF ReqOK, Opens, VerifyTotp
    <3>5. q.code.secret # None
      BY <2>2, AuthCounts DEF Secrets, None
    <3>6. SessOK(s)'
      BY <2>2, <3>3, <3>4, <3>5, AuthCounts DEF SessOK
    <3> QED
      BY <1>4, <2>1, <2>3, <3>1, <3>2, <3>6, SessReplaced DEF FinishVerify
  <2>4. CASE ~ Opens(q)
    <3>1. sess' = sess
      BY <1>4, <2>1, <2>4 DEF FinishVerify, AuthIInv, AuthTypeInv
    <3> QED
      BY <3>1, SessUnchanged
  <2> QED
    BY <2>3, <2>4
<1>5. ASSUME NEW b \in Browsers, NEW u \in Users, BeginLogin(b, u)
      PROVE  SessInv'
  BY <1>5, SessUnchanged DEF BeginLogin, accounts, credentials
<1>6. ASSUME NEW b \in Browsers, Enroll(b) \/ FinishConfirm(b) \/ FinishDisable(b)
      PROVE  SessInv'
  BY <1>6, SessUnchanged DEF Enroll, FinishConfirm, FinishDisable, accounts, credentials
<1>7. ASSUME NEW b \in Browsers, NEW kind \in {"verify", "confirm", "disable"}, NEW code \in Codes, BeginCode(b, kind, code)
      PROVE  SessInv'
  BY <1>7, SessUnchanged DEF BeginCode, accounts, credentials
<1>8. ASSUME NEW c \in Creds, Issue(c)
      PROVE  SessInv'
  BY <1>8, SessUnchanged DEF Issue, accounts, credentials
<1>9. ASSUME NEW k \in Callers, NEW kind \in {"use", "revoke", "rotate"}, NEW c \in Creds, LoadCredential(k, kind, c)
      PROVE  SessInv'
  BY <1>9, SessUnchanged DEF LoadCredential, accounts, credentials
<1>10. ASSUME NEW k \in Callers, Revoke(k) \/ Use(k)
      PROVE  SessInv'
  BY <1>10, SessUnchanged DEF Revoke, Use, accounts, credentials
<1>11. ASSUME NEW k \in Callers, NEW c \in Creds, Rotate(k, c)
      PROVE  SessInv'
  BY <1>11, SessUnchanged DEF Rotate, accounts, credentials
<1>12. CASE Tick
  BY <1>12, SessUnchanged DEF Tick, accounts, credentials
<1>13. CASE UNCHANGED authVars
  BY <1>13, SessUnchanged DEF authVars
<1> QED
  BY <1>1, <1>2, <1>3, <1>4, <1>5, <1>6, <1>7, <1>8, <1>9, <1>10, <1>11, <1>12, <1>13 DEF AuthNext, Browsing, Calling

\* A request that begins, next to those under way.
LEMMA ReqReplaced ==
  ASSUME AuthIInv, [AuthNext]_authVars, NEW b \in Browsers, NEW q,
         q.op # "none" => ReqOK(q)', req' = [req EXCEPT ![b] = q]
  PROVE  ReqInv'
<1>1. req'[b] = q /\ \A w \in Browsers : w # b => req'[w] = req[w]
  BY DEF AuthIInv, AuthTypeInv
<1>2. ASSUME NEW w \in Browsers, req'[w].op # "none" PROVE ReqOK(req[w])'
  <2>1. CASE w = b
    BY <1>1, <1>2, <2>1
  <2>2. CASE w # b
    <3>1. PICK t \in LoginRequests \cup CodeRequests : t = req[w] /\ ReqOK(t)
      BY <1>1, <1>2, <2>2, ReqFacts DEF AuthIInv, ReqInv
    <3>2. ReqOK(t)'
      BY <3>1, ReqKept
    <3> QED
      BY <1>1, <2>2, <3>1, <3>2 DEF ReqOK
  <2> QED
    BY <2>1, <2>2
<1> QED
  BY <1>1, <1>2 DEF ReqInv, ReqOK

\* Requests are kept when none begins or ends.
LEMMA ReqUnchanged ==
  ASSUME AuthIInv, [AuthNext]_authVars, UNCHANGED req
  PROVE  ReqInv'
<1> SUFFICES ASSUME NEW w \in Browsers, req[w].op # "none" PROVE ReqOK(req[w])'
  BY DEF ReqInv
<1>1. PICK t \in LoginRequests \cup CodeRequests : t = req[w] /\ ReqOK(t)
  BY ReqFacts DEF AuthIInv, ReqInv
<1>2. ReqOK(t)'
  BY <1>1, ReqKept
<1> QED
  BY <1>1, <1>2 DEF ReqOK

\* What requests have loaded stays what it was.
LEMMA ReqNext ==
  ASSUME AuthIInv, [AuthNext]_authVars
  PROVE  ReqInv'
<1>1. ASSUME NEW b \in Browsers, NEW u \in Users, BeginLogin(b, u)
      PROVE  ReqInv'
  <2>1. PICK q : q = [op |-> "login", user |-> u, copy |-> row[u], asof |-> asked'] /\ req' = [req EXCEPT ![b] = q]
    BY <1>1 DEF BeginLogin
  <2>2. /\ row' = row /\ crossed' = crossed /\ proven' = proven
        /\ q.user \in Users /\ q.copy = row[q.user] /\ q.asof = asked' /\ row[q.user].exists
    BY <1>1, <2>1 DEF BeginLogin
  <2>3. q.asof <= asked'
    BY <2>2, CountersNext, AuthCounts
  <2>4. q.user \notin crossed /\ q.copy.enabled => q.copy.secret \in proven[q.user]
    BY <2>2 DEF AuthIInv, RowInv, EnabledIsProven
  <2>5. ReqOK(q)'
    BY <2>2, <2>3, <2>4 DEF ReqOK
  <2> QED
    BY <2>1, <2>5, ReqReplaced
<1>2. ASSUME NEW b \in Browsers, NEW kind \in {"verify", "confirm", "disable"}, NEW code \in Codes, BeginCode(b, kind, code)
      PROVE  ReqInv'
  <2>0. PICK w : w = (IF kind = "verify" THEN Session(b).pending ELSE Session(b).user) /\ w \in Users /\ row[w].exists
    <3>1. PICK t \in SessRecords : t = Session(b) /\ (t = Anonymous \/ SessOK(t))
      BY SessionFacts DEF AuthIInv, SessInv
    <3>2. CASE t = Anonymous
      BY <1>2, <3>1, <3>2, AnonymousFacts DEF BeginCode
    <3>3. CASE SessOK(t)
      BY <1>2, <3>1, <3>3 DEF BeginCode, SessOK, SessRecords
    <3> QED
      BY <3>1, <3>2, <3>3
  <2>1. PICK q : q = [op |-> kind, user |-> w, copy |-> row[w], code |-> code, asof |-> asked'] /\ req' = [req EXCEPT ![b] = q]
    BY <1>2, <2>0 DEF BeginCode
  <2>2. /\ row' = row /\ crossed' = crossed /\ proven' = proven
        /\ q.user \in Users /\ q.copy = row[q.user] /\ q.asof = asked' /\ row[q.user].exists
    BY <1>2, <2>0, <2>1 DEF BeginCode
  <2>3. q.asof <= asked'
    BY <2>2, CountersNext, AuthCounts
  <2>4. q.user \notin crossed /\ q.copy.enabled => q.copy.secret \in proven[q.user]
    BY <2>2 DEF AuthIInv, RowInv, EnabledIsProven
  <2>5. ReqOK(q)'
    BY <2>2, <2>3, <2>4 DEF ReqOK
  <2> QED
    BY <2>1, <2>5, ReqReplaced
<1>3. ASSUME NEW b \in Browsers, FinishLogin(b)
      PROVE  ReqInv'
  <2> QED
    BY <1>3, ReqReplaced DEF FinishLogin, Idle
<1>4. ASSUME NEW b \in Browsers, FinishVerify(b)
      PROVE  ReqInv'
  <2> QED
    BY <1>4, ReqReplaced DEF FinishVerify, Idle
<1>5. ASSUME NEW b \in Browsers, FinishConfirm(b)
      PROVE  ReqInv'
  <2> QED
    BY <1>5, ReqReplaced DEF FinishConfirm, Idle
<1>6. ASSUME NEW b \in Browsers, FinishDisable(b)
      PROVE  ReqInv'
  <2> QED
    BY <1>6, ReqReplaced DEF FinishDisable, Idle
<1>7. ASSUME NEW b \in Browsers, NEW u \in Users, Register(b, u)
      PROVE  ReqInv'
  BY <1>7, ReqUnchanged DEF Register, accounts, credentials
<1>8. ASSUME NEW b \in Browsers, Logout(b) \/ Enroll(b)
      PROVE  ReqInv'
  BY <1>8, ReqUnchanged DEF Logout, Enroll, accounts, credentials
<1>9. ASSUME NEW c \in Creds, Issue(c)
      PROVE  ReqInv'
  BY <1>9, ReqUnchanged DEF Issue, accounts, credentials
<1>10. ASSUME NEW k \in Callers, NEW kind \in {"use", "revoke", "rotate"}, NEW c \in Creds, LoadCredential(k, kind, c)
      PROVE  ReqInv'
  BY <1>10, ReqUnchanged DEF LoadCredential, accounts, credentials
<1>11. ASSUME NEW k \in Callers, Revoke(k) \/ Use(k)
      PROVE  ReqInv'
  BY <1>11, ReqUnchanged DEF Revoke, Use, accounts, credentials
<1>12. ASSUME NEW k \in Callers, NEW c \in Creds, Rotate(k, c)
      PROVE  ReqInv'
  BY <1>12, ReqUnchanged DEF Rotate, accounts, credentials
<1>13. CASE Tick
  BY <1>13, ReqUnchanged DEF Tick, accounts, credentials
<1>14. CASE UNCHANGED authVars
  BY <1>14, ReqUnchanged DEF authVars
<1> QED
  BY <1>1, <1>2, <1>3, <1>4, <1>5, <1>6, <1>7, <1>8, <1>9, <1>10, <1>11, <1>12, <1>13, <1>14 DEF AuthNext, Browsing, Calling

\* What has been issued stays issued, what has been revoked stays revoked, and
\* only what has been issued is revoked.
LEMMA CredGrows ==
  ASSUME AuthIInv, [AuthNext]_authVars
  PROVE  /\ \A d \in Creds : cred[d].state = "issued" => cred'[d].state = "issued"
         /\ \A d \in Creds : cred[d].revoked => cred'[d].revoked
         /\ CredInv'
<1> USE DEF AuthIInv, AuthTypeInv, CredInv
<1>1. ASSUME NEW c \in Creds, Issue(c)
      PROVE  /\ \A d \in Creds : cred[d].state = "issued" => cred'[d].state = "issued"
             /\ \A d \in Creds : cred[d].revoked => cred'[d].revoked
             /\ CredInv'
  BY <1>1 DEF Issue, NextCred
<1>2. ASSUME NEW k \in Callers, Revoke(k)
      PROVE  /\ \A d \in Creds : cred[d].state = "issued" => cred'[d].state = "issued"
             /\ \A d \in Creds : cred[d].revoked => cred'[d].revoked
             /\ CredInv'
  <2>1. PICK o \in Creds : /\ cred[o].state = "issued"
                          /\ cred' = [cred EXCEPT ![o].revoked = TRUE]
    BY <1>2, CallFacts DEF Revoke, CallRequests, CallInv
  <2>2. /\ \A d \in Creds : cred'[d].state = cred[d].state
        /\ \A d \in Creds : d # o => cred'[d].revoked = cred[d].revoked
        /\ cred'[o].revoked = TRUE
    BY <2>1 DEF CredRecords
  <2> QED
    BY <2>1, <2>2
<1>3. ASSUME NEW k \in Callers, Use(k)
      PROVE  /\ \A d \in Creds : cred[d].state = "issued" => cred'[d].state = "issued"
             /\ \A d \in Creds : cred[d].revoked => cred'[d].revoked
             /\ CredInv'
  BY <1>3 DEF Use, Touched
<1>4. ASSUME NEW k \in Callers, NEW c \in Creds, Rotate(k, c)
      PROVE  /\ \A d \in Creds : cred[d].state = "issued" => cred'[d].state = "issued"
             /\ \A d \in Creds : cred[d].revoked => cred'[d].revoked
             /\ CredInv'
  <2>1. call[k].cred \in Creds /\ cred[call[k].cred].state = "issued" /\ cred[c].state = "free" /\ cred[c].revoked = FALSE
    BY <1>4, CallFacts DEF Rotate, NextCred, CallRequests, CallInv
  <2>2. /\ cred'[call[k].cred] = [cred[call[k].cred] EXCEPT !.revoked = TRUE]
        /\ \A d \in Creds : d # c /\ d # call[k].cred => cred'[d] = cred[d]
    BY <1>4, <2>1 DEF Rotate, CredRecords
  <2>3. cred'[call[k].cred].state = "issued" /\ cred'[call[k].cred].revoked = TRUE
    BY <2>1, <2>2 DEF CredRecords
  <2>4. cred'[c].state = "issued"
    BY <1>4, <2>1 DEF Rotate, CredRecords
  <2> QED
    BY <2>1, <2>2, <2>3, <2>4
<1>5. ASSUME NEW b \in Browsers, NEW u \in Users, Register(b, u) \/ BeginLogin(b, u)
      PROVE  /\ \A d \in Creds : cred[d].state = "issued" => cred'[d].state = "issued"
             /\ \A d \in Creds : cred[d].revoked => cred'[d].revoked
             /\ CredInv'
  BY <1>5 DEF Register, BeginLogin, accounts, credentials
<1>6. ASSUME NEW b \in Browsers, Logout(b) \/ Enroll(b) \/ FinishLogin(b) \/ FinishVerify(b) \/ FinishConfirm(b) \/ FinishDisable(b)
      PROVE  /\ \A d \in Creds : cred[d].state = "issued" => cred'[d].state = "issued"
             /\ \A d \in Creds : cred[d].revoked => cred'[d].revoked
             /\ CredInv'
  BY <1>6 DEF Logout, Enroll, FinishLogin, FinishVerify, FinishConfirm, FinishDisable, accounts, credentials
<1>7. ASSUME NEW b \in Browsers, NEW kind \in {"verify", "confirm", "disable"}, NEW code \in Codes, BeginCode(b, kind, code)
      PROVE  /\ \A d \in Creds : cred[d].state = "issued" => cred'[d].state = "issued"
             /\ \A d \in Creds : cred[d].revoked => cred'[d].revoked
             /\ CredInv'
  BY <1>7 DEF BeginCode, accounts, credentials
<1>8. ASSUME NEW k \in Callers, NEW kind \in {"use", "revoke", "rotate"}, NEW c \in Creds, LoadCredential(k, kind, c)
      PROVE  /\ \A d \in Creds : cred[d].state = "issued" => cred'[d].state = "issued"
             /\ \A d \in Creds : cred[d].revoked => cred'[d].revoked
             /\ CredInv'
  BY <1>8 DEF LoadCredential, accounts, credentials
<1>9. CASE Tick
  BY <1>9 DEF Tick, accounts, credentials
<1>10. CASE UNCHANGED authVars
  BY <1>10 DEF authVars
<1> QED
  BY <1>1, <1>2, <1>3, <1>4, <1>5, <1>6, <1>7, <1>8, <1>9, <1>10 DEF AuthNext, Browsing, Calling

\* A call is about a credential that has been issued.
LEMMA CallNext ==
  ASSUME AuthIInv, [AuthNext]_authVars
  PROVE  CallInv'
<1> USE DEF AuthIInv, AuthTypeInv, CallInv
<1>1. ASSUME NEW k \in Callers, NEW kind \in {"use", "revoke", "rotate"}, NEW c \in Creds, LoadCredential(k, kind, c)
      PROVE  CallInv'
  <2>1. cred' = cred /\ cred[c].state = "issued"
    BY <1>1 DEF LoadCredential
  <2>2. call'[k] = [op |-> kind, cred |-> c, copy |-> cred[c]] /\ \A j \in Callers : j # k => call'[j] = call[j]
    BY <1>1 DEF LoadCredential
  <2> QED
    BY <2>1, <2>2
<1>2. ASSUME NEW k \in Callers, Revoke(k) \/ Use(k)
      PROVE  CallInv'
  <2>1. call'[k].op = "none" /\ \A j \in Callers : j # k => call'[j] = call[j]
    BY <1>2 DEF Revoke, Use, Idle
  <2>2. \A j \in Callers : call[j].op # "none" => call[j].cred \in Creds
    BY CallFacts DEF CallRequests
  <2> QED
    BY <2>1, <2>2, CredGrows
<1>3. ASSUME NEW k \in Callers, NEW c \in Creds, Rotate(k, c)
      PROVE  CallInv'
  <2>1. call'[k].op = "none" /\ \A j \in Callers : j # k => call'[j] = call[j]
    BY <1>3 DEF Rotate, Idle
  <2>2. \A j \in Callers : call[j].op # "none" => call[j].cred \in Creds
    BY CallFacts DEF CallRequests
  <2> QED
    BY <2>1, <2>2, CredGrows
<1>4. ASSUME NEW c \in Creds, Issue(c)
      PROVE  CallInv'
  <2>1. \A j \in Callers : call'[j] = call[j] /\ (call[j].op # "none" => call[j].cred \in Creds)
    BY <1>4, CallFacts DEF Issue, CallRequests
  <2> QED
    BY <2>1, CredGrows
<1>5. ASSUME NEW b \in Browsers, NEW u \in Users, Register(b, u) \/ BeginLogin(b, u)
      PROVE  CallInv'
  BY <1>5 DEF Register, BeginLogin, accounts, credentials
<1>6. ASSUME NEW b \in Browsers, Logout(b) \/ Enroll(b) \/ FinishLogin(b) \/ FinishVerify(b) \/ FinishConfirm(b) \/ FinishDisable(b)
      PROVE  CallInv'
  BY <1>6 DEF Logout, Enroll, FinishLogin, FinishVerify, FinishConfirm, FinishDisable, accounts, credentials
<1>7. ASSUME NEW b \in Browsers, NEW kind \in {"verify", "confirm", "disable"}, NEW code \in Codes, BeginCode(b, kind, code)
      PROVE  CallInv'
  BY <1>7 DEF BeginCode, accounts, credentials
<1>8. CASE Tick
  BY <1>8 DEF Tick, accounts, credentials
<1>9. CASE UNCHANGED authVars
  BY <1>9 DEF authVars
<1> QED
  BY <1>1, <1>2, <1>3, <1>4, <1>5, <1>6, <1>7, <1>8, <1>9 DEF AuthNext, Browsing, Calling

\* Initially there are no accounts, no sessions and no credentials.
LEMMA AuthInitIInv == AuthInit => AuthIInv
<1> SUFFICES ASSUME AuthInit PROVE AuthIInv
  OBVIOUS
<1> USE DEF AuthInit
<1>1. AuthTypeInv
  <2>1. [exists |-> FALSE, enabled |-> FALSE, secret |-> None, since |-> 0] \in RowRecords
    BY AuthCounts DEF RowRecords
  <2>2. NoCred \in CredRecords
    BY DEF NoCred, CredRecords
  <2> QED
    BY <2>1, <2>2, AnonymousFacts, AuthCounts DEF AuthTypeInv
<1>2. RowInv /\ CredInv
  BY DEF RowInv, EnabledIsProven, CredInv, NoCred
<1>3. SessInv
  BY AnonymousFacts, AuthCounts DEF SessInv, SessOK
<1>4. ReqInv /\ CallInv
  BY DEF ReqInv, CallInv, Idle
<1> QED
  BY <1>1, <1>2, <1>3, <1>4 DEF AuthIInv

\* Every step keeps the inductive invariant.
LEMMA AuthNextIInv == AuthIInv /\ [AuthNext]_authVars => AuthIInv'
  BY AuthTypeNext, RowNext, SessNext, ReqNext, CredGrows, CallNext DEF AuthIInv

\* The inductive invariant holds in every reachable state.
LEMMA AuthAlwaysIInv == AuthSpec => []AuthIInv
  BY AuthInitIInv, AuthNextIInv, PTL DEF AuthSpec

\* Logins are sound however the requests of browsers interleave: a second factor
\* is enabled on a secret its owner has shown a code of, every session of a user
\* with a second factor was opened with a code or by a login that looked before it
\* was enabled, and a session that waits for a code dies in time (LoginView,
\* MFALoginVerifyView, confirm_mfa_enrollment).
THEOREM LoginsAlwaysSound == AuthSpec => []LoginsAreSound
<1>1. AuthIInv => AuthTypeOK
  <2> SUFFICES ASSUME AuthIInv PROVE AuthTypeOK
    OBVIOUS
  <2>1. /\ \A b \in Browsers : req[b].op \in {"none", "login", "verify", "confirm", "disable"}
        /\ \A k \in Callers : call[k].op \in {"none", "use", "revoke", "rotate"}
    BY ReqFacts, CallFacts DEF AuthIInv
  <2>2. issued \in 0..MaxRequests
    BY AuthCounts DEF AuthIInv, AuthTypeInv
  <2> QED
    BY <2>1, <2>2 DEF AuthIInv, AuthTypeInv, AuthTypeOK, RowRecords, SessRecords, CredRecords
<1>2. AuthIInv => EnabledIsProven
  BY DEF AuthIInv, RowInv
<1>3. AuthIInv => SessionsEarned
  BY DEF AuthIInv, SessInv, SessOK, SessionsEarned
<1>4. AuthIInv => PendingIsBrief
  <2> SUFFICES ASSUME AuthIInv, NEW b \in Browsers,
                      Session(b).pending # Nobody, Session(b).user = Nobody
               PROVE  now < Session(b).at + PendingLife
    BY DEF PendingIsBrief
  <2>1. Session(b) = sess[b] /\ sess[b].exp > now
    BY AnonymousFacts DEF Session
  <2>2. sess[b] \in SessRecords /\ SessOK(sess[b]) /\ now \in 0..MaxTime
    BY DEF AuthIInv, AuthTypeInv, SessInv
  <2>3. sess[b].exp <= sess[b].at + PendingLife
    BY <2>1, <2>2 DEF SessOK
  <2>4. sess[b].exp \in Nat /\ sess[b].at \in Nat /\ now \in Nat
    BY <2>2, AuthCounts DEF SessRecords, Never
  <2> QED
    BY <2>1, <2>3, <2>4, AuthCounts
<1>5. AuthIInv => LoginsAreSound
  BY <1>1, <1>2, <1>3, <1>4 DEF LoginsAreSound
<1> QED
  BY <1>5, AuthAlwaysIInv, PTL

\* A revoked credential never becomes valid again, although every use of it writes
\* its row (resolve_credential).
THEOREM RevokedAlwaysStays == AuthSpec => RevokedStaysRevoked
<1>1. AuthIInv /\ [AuthNext]_authVars => [\A c \in Creds : cred[c].revoked => cred'[c].revoked]_cred
  BY CredGrows
<1> QED
  BY <1>1, AuthAlwaysIInv, PTL DEF AuthSpec, RevokedStaysRevoked

-----------------------------------------------------------------------------
(***************************************************************************)
(* Connected databases: the inductive invariant.                           *)
(***************************************************************************)

\* The kinds of addresses hosts resolve to.
AddressKinds == UNION {{r[i] : i \in DOMAIN r} : r \in Resolutions}

\* The values of the components of a client.
ClientRecords ==
  [op : {"none", "create", "test", "schema", "rows", "delete"},
   at : {"idle", "check", "dial", "save", "failed", "answered", "ended"},
   dialled : SUBSET AddressKinds, verdict : {"none", "connected", "unreachable"},
   looked : 0..MaxMoves, raced : BOOLEAN, second : BOOLEAN]

\* The values of the variables.
ConnTypeInv ==
  /\ resolution \in Resolutions /\ moves \in 0..MaxMoves
  /\ serverUp \in BOOLEAN /\ hasTable \in BOOLEAN
  /\ status \in {"none", "connected", "unreachable", "gone"}
  /\ saves \in Seq(Clients) /\ client \in [Clients -> ClientRecords]

\* What a test would find out now.
CanAnswer == HostIsSafe(resolution) /\ serverUp

\* How far each kind of request goes.
StageOK(q) ==
  /\ q.op \in {"create", "test"} => q.at \in {"check", "dial", "save", "failed", "ended"}
  /\ q.op = "delete" => q.at \in {"save", "ended"}
  /\ q.op \in {"schema", "rows"} => q.at \in {"check", "dial", "failed", "answered"}
  /\ q.op = "none" <=> q.at = "idle"

\* What a request knows: its check holds until something changes outside, and so
\* does the verdict of a test; a creation that saves has connected.
KnownOK(q) ==
  /\ q.looked <= moves
  /\ q.raced = TRUE \/ \A a \in q.dialled : Acceptable(a)
  /\ q.at = "dial" /\ q.looked = moves => HostIsSafe(resolution)
  /\ q.op = "create" /\ q.at \in {"save", "ended"} => q.verdict = "connected"
  /\ q.op = "test" /\ q.at \in {"save", "failed"} =>
       q.verdict = IF q.at = "save" THEN "connected" ELSE "unreachable"
  /\ q.op = "test" /\ q.at \in {"save", "failed", "ended"} /\ q.looked = moves =>
       (q.verdict = "connected" <=> CanAnswer)
  /\ q.second = TRUE => q.op = "rows" /\ (moves > 0 \/ (CanAnswer /\ hasTable /\ q.at # "failed"))

ClientInv == \A c \in Clients : StageOK(client[c]) /\ KnownOK(client[c])

\* The connection has one creator, and before it nothing but its attempt.
CreatorInv ==
  /\ \A c, d \in Clients : client[c].op = "create" /\ client[d].op = "create" => c = d
  /\ status # "none" => \E c \in Clients : client[c].op = "create" /\ client[c].at = "ended"
  /\ \A c \in Clients : client[c].op = "create" /\ client[c].at = "ended" => status # "none"
  /\ status = "none" => saves = <<>> /\ \A c \in Clients : client[c].op \in {"none", "create"}

\* A deleted connection is gone; the status of any other is the verdict of the
\* test that was saved last.
StatusInv ==
  /\ \A c \in Clients : client[c].op = "delete" /\ client[c].at = "ended" => status = "gone"
  /\ Usable(status) /\ saves # <<>> =>
       LET last == client[saves[Len(saves)]]
       IN  last.op = "test" /\ last.at = "ended" /\ last.verdict = status

\* The inductive invariant of connected databases.
ConnIInv == ConnTypeInv /\ ClientInv /\ CreatorInv /\ StatusInv

\* The bounds.
LEMMA ConnCounts == NumClients \in Nat /\ MaxMoves \in Nat
  BY ConnectionsAssumption

-----------------------------------------------------------------------------
(***************************************************************************)
(* Connected databases: what each step does to its client.                 *)
(***************************************************************************)

\* A client that has not begun.
LEMMA NoCallFacts == NoCall \in ClientRecords
<1>1. {} \in SUBSET AddressKinds /\ 0 \in 0..MaxMoves
  BY ConnCounts
<1> QED
  BY <1>1 DEF NoCall, ClientRecords

\* A request begins.
LEMMA BeginFacts ==
  ASSUME ConnTypeInv, NEW c \in Clients, BeginCall(c)
  PROVE  /\ UNCHANGED <<outside, status, saves>> /\ client[c].at = "idle"
         /\ \E x \in ClientRecords :
              /\ client' = [client EXCEPT ![c] = x]
              /\ x.op \in {"create", "test", "schema", "rows", "delete"}
              /\ x.at = IF x.op = "delete" THEN "save" ELSE "check"
              /\ x.dialled = {} /\ x.verdict = "none" /\ x.looked = 0
              /\ x.raced = FALSE /\ x.second = FALSE
              /\ IF x.op = "create" THEN \A d \in Clients : client[d].op # "create" ELSE Usable(status)
<1>1. PICK kind \in {"create", "test", "schema", "rows", "delete"} :
        /\ IF kind = "create" THEN \A d \in Clients : client[d].op # "create" ELSE Usable(status)
        /\ client' = [client EXCEPT ![c] = [NoCall EXCEPT
                       !.op = kind, !.at = IF kind = "delete" THEN "save" ELSE "check"]]
  BY DEF BeginCall
<1>2. PICK at \in {"save", "check"} : at = IF kind = "delete" THEN "save" ELSE "check"
  OBVIOUS
<1>3. PICK x : x = [NoCall EXCEPT !.op = kind, !.at = at]
  OBVIOUS
<1>4. /\ x.op = kind /\ x.at = at /\ x.dialled = {} /\ x.verdict = "none" /\ x.looked = 0
      /\ x.raced = FALSE /\ x.second = FALSE /\ x \in ClientRecords
  <2>1. NoCall \in ClientRecords
    BY NoCallFacts
  <2> QED
    BY <1>3, <2>1 DEF NoCall, ClientRecords
<1>5. client' = [client EXCEPT ![c] = x]
  BY <1>1, <1>2, <1>3
<1> QED
  BY <1>1, <1>2, <1>4, <1>5 DEF BeginCall

\* The host is checked.
LEMMA CheckFacts ==
  ASSUME ConnTypeInv, NEW c \in Clients, CheckHost(c)
  PROVE  /\ UNCHANGED <<outside, status, saves>> /\ client[c].at = "check"
         /\ \E x \in ClientRecords :
              /\ client' = [client EXCEPT ![c] = x]
              /\ x.op = client[c].op /\ x.dialled = client[c].dialled /\ x.looked = moves
              /\ x.raced = client[c].raced /\ x.second = client[c].second
              /\ HostIsSafe(resolution) => x.at = "dial"
              /\ ~ HostIsSafe(resolution) => x.at = "failed" /\ x.verdict = "unreachable"
<1>1. PICK q \in ClientRecords : q = client[c]
  BY DEF ConnTypeInv
<1>2. PICK v \in {"none", "connected", "unreachable"} :
        v = IF HostIsSafe(resolution) THEN q.verdict ELSE "unreachable"
  BY DEF ClientRecords
<1>3. PICK at \in {"dial", "failed"} : at = IF HostIsSafe(resolution) THEN "dial" ELSE "failed"
  OBVIOUS
<1>4. PICK x : x = [q EXCEPT !.looked = moves, !.verdict = v, !.at = at]
  OBVIOUS
<1>5. /\ x.op = q.op /\ x.at = at /\ x.dialled = q.dialled /\ x.verdict = v /\ x.looked = moves
      /\ x.raced = q.raced /\ x.second = q.second /\ x \in ClientRecords
  BY <1>4 DEF ClientRecords, ConnTypeInv
<1>6. client' = [client EXCEPT ![c] = x]
  BY <1>1, <1>2, <1>3, <1>4 DEF CheckHost, ConnTypeInv
<1> QED
  BY <1>1, <1>2, <1>3, <1>5, <1>6 DEF CheckHost

\* The driver connects.
LEMMA DialFacts ==
  ASSUME ConnTypeInv, NEW c \in Clients, Dial(c)
  PROVE  /\ UNCHANGED <<outside, status, saves>> /\ client[c].at = "dial"
         /\ \E x \in ClientRecords, ok \in BOOLEAN :
              /\ client' = [client EXCEPT ![c] = x]
              /\ ok = TRUE <=> serverUp /\ resolution # <<>> /\ Finds(c)
              /\ x.op = client[c].op /\ x.looked = client[c].looked
              /\ x.dialled = client[c].dialled \cup {resolution[i] : i \in DOMAIN resolution}
              /\ x.raced = TRUE <=> client[c].raced = TRUE \/ moves # client[c].looked
              /\ x.verdict = IF ok THEN "connected" ELSE "unreachable"
              /\ x.at = IF ok THEN AfterDial(c) ELSE "failed"
              /\ x.second = TRUE <=> client[c].second = TRUE \/ (ok /\ x.op = "rows")
<1>1. PICK q \in ClientRecords : q = client[c]
  BY DEF ConnTypeInv
<1>2. PICK ok \in BOOLEAN : ok = (serverUp /\ resolution # <<>> /\ Finds(c))
  BY DEF ConnTypeInv
<1>3. PICK v \in {"connected", "unreachable"} : v = IF ok THEN "connected" ELSE "unreachable"
  OBVIOUS
<1>4. PICK at \in {"save", "check", "answered", "failed"} :
        at = IF ok THEN AfterDial(c) ELSE "failed"
  BY DEF AfterDial
<1>5. PICK reached \in SUBSET AddressKinds :
        reached = q.dialled \cup {resolution[i] : i \in DOMAIN resolution}
  <2>1. {resolution[i] : i \in DOMAIN resolution} \subseteq AddressKinds
    BY DEF AddressKinds, ConnTypeInv
  <2> QED
    BY <2>1 DEF ClientRecords
<1>6. PICK late \in BOOLEAN : late = (q.raced \/ moves # q.looked)
  OBVIOUS
<1>7. PICK second \in BOOLEAN : second = (q.second \/ (ok /\ q.op = "rows"))
  OBVIOUS
<1>8. PICK x : x = [q EXCEPT !.dialled = reached, !.raced = late, !.verdict = v, !.at = at,
                             !.second = second]
  OBVIOUS
<1>9. /\ x.op = q.op /\ x.at = at /\ x.dialled = reached /\ x.verdict = v /\ x.looked = q.looked
      /\ x.raced = late /\ x.second = second /\ x \in ClientRecords
  BY <1>8 DEF ClientRecords
<1>10. client' = [client EXCEPT ![c] = x]
  BY <1>1, <1>2, <1>3, <1>4, <1>5, <1>6, <1>7, <1>8 DEF Dial, ConnTypeInv
<1>11. /\ late = TRUE <=> q.raced = TRUE \/ moves # q.looked
       /\ second = TRUE <=> q.second = TRUE \/ (ok /\ q.op = "rows")
       /\ ok = TRUE <=> serverUp /\ resolution # <<>> /\ Finds(c)
  BY <1>2, <1>6, <1>7 DEF ClientRecords
<1> QED
  BY <1>1, <1>3, <1>4, <1>5, <1>9, <1>10, <1>11 DEF Dial

\* The row is saved.
LEMMA SaveFacts ==
  ASSUME ConnTypeInv, NEW c \in Clients, SaveRow(c)
  PROVE  /\ UNCHANGED outside /\ status' = RowAfter(c)
         /\ client[c].at = "save" \/ (client[c].at = "failed" /\ client[c].op = "test")
         /\ saves' = IF client[c].op = "test" /\ status # "gone" THEN Append(saves, c) ELSE saves
         /\ \E x \in ClientRecords :
              /\ client' = [client EXCEPT ![c] = x]
              /\ x.op = client[c].op /\ x.looked = client[c].looked
              /\ x.dialled = client[c].dialled /\ x.raced = client[c].raced
              /\ x.verdict = client[c].verdict /\ x.second = client[c].second /\ x.at = "ended"
<1>1. PICK q \in ClientRecords : q = client[c]
  BY DEF ConnTypeInv
<1>2. PICK x : x = [q EXCEPT !.at = "ended"]
  OBVIOUS
<1>3. /\ x.op = q.op /\ x.at = "ended" /\ x.dialled = q.dialled /\ x.verdict = q.verdict
      /\ x.looked = q.looked /\ x.raced = q.raced /\ x.second = q.second /\ x \in ClientRecords
  BY <1>2 DEF ClientRecords
<1>4. client' = [client EXCEPT ![c] = x]
  BY <1>1, <1>2 DEF SaveRow, ConnTypeInv
<1> QED
  BY <1>1, <1>3, <1>4 DEF SaveRow, MaySave

-----------------------------------------------------------------------------
(***************************************************************************)
(* Connected databases: every step keeps the invariant.                    *)
(***************************************************************************)

\* The variables keep their shape.
LEMMA ConnTypeNext ==
  ASSUME ConnIInv, [ConnectionsNext]_connectionVars
  PROVE  ConnTypeInv'
<1> USE DEF ConnIInv
<1>1. CASE Outside
  <2>1. moves' \in 0..MaxMoves
    BY <1>1, ConnCounts DEF Outside, ConnTypeInv
  <2>2. serverUp' \in BOOLEAN /\ hasTable' \in BOOLEAN /\ resolution' \in Resolutions
    BY <1>1 DEF Outside, ConnTypeInv
  <2>3. UNCHANGED <<status, saves, client>>
    BY <1>1 DEF Outside
  <2> QED
    BY <2>1, <2>2, <2>3 DEF ConnTypeInv
<1>2. ASSUME NEW c \in Clients, BeginCall(c)
      PROVE  ConnTypeInv'
  BY <1>2, BeginFacts DEF ConnTypeInv, outside
<1>3. ASSUME NEW c \in Clients, CheckHost(c)
      PROVE  ConnTypeInv'
  BY <1>3, CheckFacts DEF ConnTypeInv, outside
<1>4. ASSUME NEW c \in Clients, Dial(c)
      PROVE  ConnTypeInv'
  BY <1>4, DialFacts DEF ConnTypeInv, outside
<1>5. ASSUME NEW c \in Clients, SaveRow(c)
      PROVE  ConnTypeInv'
  <2>1. status' \in {"none", "connected", "unreachable", "gone"}
    <3>1. client[c] \in ClientRecords /\ StageOK(client[c])
      BY DEF ClientInv, ConnTypeInv
    <3> QED
      BY <1>5, <3>1, SaveFacts DEF RowAfter, ClientRecords, StageOK, ConnTypeInv
  <2>2. saves' \in Seq(Clients)
    BY <1>5, SaveFacts DEF ConnTypeInv
  <2>3. client' \in [Clients -> ClientRecords] /\ UNCHANGED outside
    BY <1>5, SaveFacts DEF ConnTypeInv
  <2> QED
    BY <2>1, <2>2, <2>3 DEF ConnTypeInv, outside
<1>6. CASE UNCHANGED connectionVars
  BY <1>6 DEF connectionVars, ConnTypeInv, outside
<1> QED
  BY <1>1, <1>2, <1>3, <1>4, <1>5, <1>6 DEF ConnectionsNext

\* As long as nothing changes outside, what the other clients know stays true.
LEMMA ClientReplaced ==
  ASSUME ConnIInv, UNCHANGED outside, NEW c \in Clients, NEW x,
         client' = [client EXCEPT ![c] = x], StageOK(x), KnownOK(x)
  PROVE  ClientInv'
<1>1. ASSUME NEW d \in Clients PROVE StageOK(client'[d]) /\ KnownOK(client'[d])
  BY DEF ConnIInv, ConnTypeInv, ClientInv
<1>2. \A q : KnownOK(q) => KnownOK(q)'
  BY DEF outside, KnownOK, CanAnswer, HostIsSafe, Acceptable
<1>3. ASSUME NEW d \in Clients PROVE StageOK(client[d])' /\ KnownOK(client[d])'
  <2>1. PICK q : q = client'[d] /\ StageOK(q) /\ KnownOK(q)
    BY <1>1
  <2>2. KnownOK(q)'
    BY <1>2, <2>1
  <2> QED
    BY <2>1, <2>2 DEF StageOK, KnownOK
<1> QED
  BY <1>3 DEF ClientInv

\* What every client knows stays true, or something has changed outside.
LEMMA ClientNext ==
  ASSUME ConnIInv, [ConnectionsNext]_connectionVars
  PROVE  ClientInv'
<1>1. CASE Outside
  <2> SUFFICES ASSUME NEW d \in Clients PROVE StageOK(client[d])' /\ KnownOK(client[d])'
    BY DEF ClientInv
  <2>1. PICK q \in ClientRecords : q = client[d] /\ StageOK(q) /\ KnownOK(q)
    BY DEF ConnIInv, ConnTypeInv, ClientInv
  <2>2. moves \in Nat /\ moves' = moves + 1 /\ q.looked \in Nat /\ q.looked <= moves /\ q = client'[d]
    BY <1>1, <2>1, ConnCounts DEF ConnIInv, ConnTypeInv, Outside, ClientRecords, KnownOK
  <2>3. q.looked <= moves' /\ q.looked # moves' /\ moves' > 0
    BY <2>2
  <2>4. \A a : Acceptable(a) => Acceptable(a)'
    BY <1>1 DEF Outside, Acceptable
  <2>5. KnownOK(q)'
    BY <2>1, <2>3, <2>4 DEF KnownOK
  <2> QED
    BY <2>1, <2>2, <2>5 DEF StageOK, KnownOK
<1>2. ASSUME NEW c \in Clients, BeginCall(c)
      PROVE  ClientInv'
  <2>1. PICK x \in ClientRecords : 
          /\ client' = [client EXCEPT ![c] = x]
          /\ x.op \in {"create", "test", "schema", "rows", "delete"}
          /\ x.at = IF x.op = "delete" THEN "save" ELSE "check"
          /\ x.dialled = {} /\ x.verdict = "none" /\ x.looked = 0
          /\ x.raced = FALSE /\ x.second = FALSE
    BY <1>2, BeginFacts DEF ConnIInv
  <2>2. PICK q \in ClientRecords : q = client[c] /\ StageOK(q) /\ KnownOK(q) /\ UNCHANGED outside
    BY <1>2, BeginFacts DEF ConnIInv, ConnTypeInv, ClientInv
  <2>8. StageOK(x)
    BY <2>1 DEF StageOK
  <2>9. KnownOK(x)
    BY <2>1, ConnCounts DEF KnownOK, ConnIInv, ConnTypeInv
  <2> QED
    BY <2>1, <2>2, <2>8, <2>9, ClientReplaced
<1>3. ASSUME NEW c \in Clients, CheckHost(c)
      PROVE  ClientInv'
  <2>1. PICK x \in ClientRecords : 
          /\ client' = [client EXCEPT ![c] = x] /\ client[c].at = "check"
          /\ x.op = client[c].op /\ x.dialled = client[c].dialled /\ x.looked = moves
          /\ x.raced = client[c].raced /\ x.second = client[c].second
          /\ HostIsSafe(resolution) => x.at = "dial"
          /\ ~ HostIsSafe(resolution) => x.at = "failed" /\ x.verdict = "unreachable"
    BY <1>3, CheckFacts DEF ConnIInv
  <2>2. PICK q \in ClientRecords : q = client[c] /\ StageOK(q) /\ KnownOK(q) /\ UNCHANGED outside
    BY <1>3, CheckFacts DEF ConnIInv, ConnTypeInv, ClientInv
  <2>8. StageOK(x)
    BY <2>1, <2>2 DEF StageOK
  <2>9. KnownOK(x)
    <3>1. moves <= moves
      BY ConnCounts DEF ConnIInv, ConnTypeInv
    <3> QED
      BY <2>1, <2>2, <3>1 DEF StageOK, KnownOK, CanAnswer
  <2> QED
    BY <2>1, <2>2, <2>8, <2>9, ClientReplaced
<1>4. ASSUME NEW c \in Clients, Dial(c)
      PROVE  ClientInv'
  <2>1. PICK x \in ClientRecords : 
          \E ok \in BOOLEAN :
            /\ client' = [client EXCEPT ![c] = x] /\ client[c].at = "dial"
            /\ ok = TRUE <=> serverUp /\ resolution # <<>> /\ Finds(c)
            /\ x.op = client[c].op /\ x.looked = client[c].looked
            /\ x.dialled = client[c].dialled \cup {resolution[i] : i \in DOMAIN resolution}
            /\ x.raced = TRUE <=> client[c].raced = TRUE \/ moves # client[c].looked
            /\ x.verdict = IF ok THEN "connected" ELSE "unreachable"
            /\ x.at = IF ok THEN AfterDial(c) ELSE "failed"
            /\ x.second = TRUE <=> client[c].second = TRUE \/ (ok /\ x.op = "rows")
    BY <1>4, DialFacts DEF ConnIInv
  <2>2. PICK q \in ClientRecords : q = client[c] /\ StageOK(q) /\ KnownOK(q) /\ UNCHANGED outside
    BY <1>4, DialFacts DEF ConnIInv, ConnTypeInv, ClientInv
  <2>3. PICK ok \in BOOLEAN :
          /\ ok = TRUE <=> serverUp /\ resolution # <<>> /\ Finds(c)
          /\ x.dialled = q.dialled \cup {resolution[i] : i \in DOMAIN resolution}
          /\ x.raced = TRUE <=> q.raced = TRUE \/ moves # q.looked
          /\ x.verdict = IF ok THEN "connected" ELSE "unreachable"
          /\ x.at = IF ok THEN AfterDial(c) ELSE "failed"
          /\ x.second = TRUE <=> q.second = TRUE \/ (ok /\ x.op = "rows")
    BY <2>1, <2>2
  <2>4. x.op = q.op /\ x.looked = q.looked /\ q.at = "dial" /\ moves \in Nat /\ q.looked \in Nat
    BY <2>1, <2>2, ConnCounts DEF ConnIInv, ConnTypeInv, ClientRecords
  <2>5. /\ AfterDial(c) = "save" <=> q.op \in {"create", "test"}
        /\ AfterDial(c) \in {"save", "check", "answered"}
        /\ AfterDial(c) = "check" => q.op = "rows"
        /\ Finds(c) <=> (q.op = "rows" => hasTable)
    BY <2>2 DEF AfterDial, Finds
  <2>8. StageOK(x)
    BY <2>2, <2>3, <2>4, <2>5 DEF StageOK
  <2>6. q.looked = moves => HostIsSafe(resolution) /\ resolution # <<>>
    BY <2>2, <2>4 DEF KnownOK, HostIsSafe
  <2>7. x.raced = TRUE \/ \A a \in x.dialled : Acceptable(a)
    BY <2>2, <2>3, <2>6 DEF KnownOK, HostIsSafe
  <2>10. moves = 0 => q.looked = moves
    BY <2>2, <2>4 DEF KnownOK
  <2>11. x.second = TRUE => x.op = "rows" /\ (moves > 0 \/ (CanAnswer /\ hasTable /\ x.at # "failed"))
    BY <2>2, <2>3, <2>4, <2>5, <2>6, <2>10 DEF KnownOK, CanAnswer
  <2>9. KnownOK(x)
    BY <2>2, <2>3, <2>4, <2>5, <2>6, <2>7, <2>11 DEF StageOK, KnownOK, CanAnswer
  <2> QED
    BY <2>1, <2>2, <2>8, <2>9, ClientReplaced
<1>5. ASSUME NEW c \in Clients, SaveRow(c)
      PROVE  ClientInv'
  <2>1. PICK x \in ClientRecords : 
          /\ client' = [client EXCEPT ![c] = x]
          /\ client[c].at = "save" \/ (client[c].at = "failed" /\ client[c].op = "test")
          /\ x.op = client[c].op /\ x.looked = client[c].looked
          /\ x.dialled = client[c].dialled /\ x.raced = client[c].raced
          /\ x.verdict = client[c].verdict /\ x.second = client[c].second /\ x.at = "ended"
    BY <1>5, SaveFacts DEF ConnIInv
  <2>2. PICK q \in ClientRecords : q = client[c] /\ StageOK(q) /\ KnownOK(q) /\ UNCHANGED outside
    BY <1>5, SaveFacts DEF ConnIInv, ConnTypeInv, ClientInv
  <2>8. StageOK(x)
    BY <2>1, <2>2 DEF StageOK
  <2>9. KnownOK(x)
    BY <2>1, <2>2 DEF StageOK, KnownOK
  <2> QED
    BY <2>1, <2>2, <2>8, <2>9, ClientReplaced
<1>6. CASE UNCHANGED connectionVars
  <2> SUFFICES ASSUME NEW d \in Clients PROVE StageOK(client[d])' /\ KnownOK(client[d])'
    BY DEF ClientInv
  <2>1. StageOK(client[d]) /\ KnownOK(client[d])
    BY DEF ConnIInv, ClientInv
  <2> QED
    BY <1>6, <2>1 DEF connectionVars, outside, StageOK, KnownOK, CanAnswer, HostIsSafe, Acceptable
<1> QED
  BY <1>1, <1>2, <1>3, <1>4, <1>5, <1>6 DEF ConnectionsNext

\* What a step does to the other clients: nothing.
LEMMA OtherClients ==
  ASSUME ConnTypeInv, NEW c \in Clients, NEW x, client' = [client EXCEPT ![c] = x]
  PROVE  client'[c] = x /\ \A d \in Clients : d # c => client'[d] = client[d]
  BY DEF ConnTypeInv

\* The connection has one creator, who saves it once it has connected.
LEMMA CreatorNext ==
  ASSUME ConnIInv, [ConnectionsNext]_connectionVars
  PROVE  CreatorInv'
<1>1. CASE Outside
  BY <1>1 DEF Outside, ConnIInv, CreatorInv
<1>2. ASSUME NEW c \in Clients, BeginCall(c)
      PROVE  CreatorInv'
  <2>1. PICK x \in ClientRecords :
          /\ client' = [client EXCEPT ![c] = x] /\ client[c].at = "idle" /\ x.at # "ended"
          /\ UNCHANGED <<status, saves>>
          /\ IF x.op = "create" THEN \A d \in Clients : client[d].op # "create" ELSE Usable(status)
    BY <1>2, BeginFacts DEF ConnIInv
  <2>2. client'[c] = x /\ \A d \in Clients : d # c => client'[d] = client[d]
    BY <2>1, OtherClients DEF ConnIInv
  <2>3. client[c].op = "none"
    BY <2>1 DEF ConnIInv, ClientInv, StageOK
  <2> QED
    BY <2>1, <2>2, <2>3 DEF ConnIInv, CreatorInv, Usable
<1>3. ASSUME NEW c \in Clients, CheckHost(c) \/ Dial(c)
      PROVE  CreatorInv'
  <2>1. PICK x \in ClientRecords :
          /\ client' = [client EXCEPT ![c] = x] /\ client[c].at \in {"check", "dial"}
          /\ x.op = client[c].op /\ x.at # "ended" /\ UNCHANGED <<status, saves>>
    <3>1. CASE CheckHost(c)
      BY <3>1, CheckFacts DEF ConnIInv
    <3>2. CASE Dial(c)
      <4>1. AfterDial(c) # "ended"
        BY DEF AfterDial
      <4> QED
        BY <3>2, <4>1, DialFacts DEF ConnIInv
    <3> QED
      BY <1>3, <3>1, <3>2
  <2>2. client'[c] = x /\ \A d \in Clients : d # c => client'[d] = client[d]
    BY <2>1, OtherClients DEF ConnIInv
  <2> QED
    BY <2>1, <2>2 DEF ConnIInv, CreatorInv
<1>4. ASSUME NEW c \in Clients, SaveRow(c)
      PROVE  CreatorInv'
  <2>1. PICK x \in ClientRecords :
          /\ client' = [client EXCEPT ![c] = x] /\ x.op = client[c].op /\ x.at = "ended"
          /\ client[c].at = "save" \/ (client[c].at = "failed" /\ client[c].op = "test")
          /\ x.verdict = client[c].verdict
    BY <1>4, SaveFacts DEF ConnIInv
  <2>2. client'[c] = x /\ \A d \in Clients : d # c => client'[d] = client[d]
    BY <2>1, OtherClients DEF ConnIInv
  <2>3. /\ status' = RowAfter(c)
        /\ saves' = IF client[c].op = "test" /\ status # "gone" THEN Append(saves, c) ELSE saves
    BY <1>4, SaveFacts DEF ConnIInv
  <2>4. client[c].op \in {"create", "test", "delete"}
    BY <2>1 DEF ConnIInv, ConnTypeInv, ClientInv, StageOK, ClientRecords
  <2>5. status' # "none"
    BY <2>1, <2>3, <2>4 DEF RowAfter, ConnIInv, ClientInv, KnownOK
  <2>6. client[c].op # "create" => \E d \in Clients : d # c /\ client[d].op = "create" /\ client[d].at = "ended"
    BY <2>4 DEF ConnIInv, CreatorInv
  <2>7. client[c].op = "create" => client'[c].op = "create" /\ client'[c].at = "ended"
    BY <2>1, <2>2
  <2> QED
    BY <2>1, <2>2, <2>5, <2>6, <2>7 DEF ConnIInv, CreatorInv
<1>5. CASE UNCHANGED connectionVars
  BY <1>5 DEF connectionVars, ConnIInv, CreatorInv
<1> QED
  BY <1>1, <1>2, <1>3, <1>4, <1>5 DEF ConnectionsNext

\* A deleted connection stays gone, and the status is the verdict saved last.
LEMMA StatusNext ==
  ASSUME ConnIInv, [ConnectionsNext]_connectionVars
  PROVE  StatusInv'
<1>1. CASE Outside
  BY <1>1 DEF Outside, ConnIInv, StatusInv, Usable
<1>2. ASSUME NEW c \in Clients, BeginCall(c)
      PROVE  StatusInv'
  <2>1. PICK x \in ClientRecords :
          /\ client' = [client EXCEPT ![c] = x] /\ client[c].at = "idle" /\ x.at # "ended"
          /\ UNCHANGED <<status, saves>>
    BY <1>2, BeginFacts DEF ConnIInv
  <2>2. client'[c] = x /\ \A d \in Clients : d # c => client'[d] = client[d]
    BY <2>1, OtherClients DEF ConnIInv
  <2>3. saves \in Seq(Clients)
    BY DEF ConnIInv, ConnTypeInv
  <2> QED
    BY <2>1, <2>2, <2>3 DEF ConnIInv, StatusInv, Usable
<1>3. ASSUME NEW c \in Clients, CheckHost(c) \/ Dial(c)
      PROVE  StatusInv'
  <2>1. PICK x \in ClientRecords :
          /\ client' = [client EXCEPT ![c] = x] /\ client[c].at \in {"check", "dial"}
          /\ x.op = client[c].op /\ x.at # "ended" /\ UNCHANGED <<status, saves>>
    <3>1. CASE CheckHost(c)
      BY <3>1, CheckFacts DEF ConnIInv
    <3>2. CASE Dial(c)
      <4>1. AfterDial(c) # "ended"
        BY DEF AfterDial
      <4> QED
        BY <3>2, <4>1, DialFacts DEF ConnIInv
    <3> QED
      BY <1>3, <3>1, <3>2
  <2>2. client'[c] = x /\ \A d \in Clients : d # c => client'[d] = client[d]
    BY <2>1, OtherClients DEF ConnIInv
  <2>3. saves \in Seq(Clients)
    BY DEF ConnIInv, ConnTypeInv
  <2> QED
    BY <2>1, <2>2, <2>3 DEF ConnIInv, StatusInv, Usable
<1>4. ASSUME NEW c \in Clients, SaveRow(c)
      PROVE  StatusInv'
  <2>1. PICK x \in ClientRecords :
          /\ client' = [client EXCEPT ![c] = x] /\ x.op = client[c].op /\ x.at = "ended"
          /\ client[c].at = "save" \/ (client[c].at = "failed" /\ client[c].op = "test")
          /\ x.verdict = client[c].verdict
    BY <1>4, SaveFacts DEF ConnIInv
  <2>2. client'[c] = x /\ \A d \in Clients : d # c => client'[d] = client[d]
    BY <2>1, OtherClients DEF ConnIInv
  <2>3. /\ status' = RowAfter(c)
        /\ saves' = IF client[c].op = "test" /\ status # "gone" THEN Append(saves, c) ELSE saves
    BY <1>4, SaveFacts DEF ConnIInv
  <2>4. client[c].op \in {"create", "test", "delete"}
    BY <2>1 DEF ConnIInv, ConnTypeInv, ClientInv, StageOK, ClientRecords
  <2>5. saves \in Seq(Clients) /\ \A d \in Clients : client[d].at = "ended" /\ client[d].op = "delete" => status = "gone"
    BY DEF ConnIInv, ConnTypeInv, StatusInv
  <2>6. CASE client[c].op = "create"
    <3>1. status = "none"
      BY <2>1, <2>6 DEF ConnIInv, CreatorInv
    <3>2. saves' = <<>> /\ \A d \in Clients : client[d].op # "delete"
      BY <2>3, <2>6, <3>1 DEF ConnIInv, CreatorInv
    <3> QED
      BY <2>1, <2>2, <2>6, <3>2 DEF StatusInv
  <2>7. CASE client[c].op = "delete"
    BY <2>2, <2>3, <2>7 DEF StatusInv, RowAfter, Usable
  <2>8. CASE client[c].op = "test" /\ status = "gone"
    BY <2>1, <2>2, <2>3, <2>8 DEF StatusInv, RowAfter, Usable
  <2>9. CASE client[c].op = "test" /\ status # "gone"
    <3>1. /\ saves' = Append(saves, c) /\ status' = client[c].verdict
          /\ \A d \in Clients : ~ (client'[d].op = "delete" /\ client'[d].at = "ended")
      BY <2>1, <2>2, <2>3, <2>5, <2>9 DEF RowAfter
    <3>2. saves'[Len(saves')] = c
      BY <2>5, <3>1
    <3> QED
      BY <2>1, <2>2, <2>9, <3>1, <3>2 DEF StatusInv
  <2> QED
    BY <2>4, <2>6, <2>7, <2>8, <2>9
<1>5. CASE UNCHANGED connectionVars
  BY <1>5 DEF connectionVars, ConnIInv, StatusInv, Usable
<1> QED
  BY <1>1, <1>2, <1>3, <1>4, <1>5 DEF ConnectionsNext

\* Initially there is no connection, and no request about it.
LEMMA ConnInitIInv == ConnectionsInit => ConnIInv
<1> SUFFICES ASSUME ConnectionsInit PROVE ConnIInv
  OBVIOUS
<1>1. NoCall \in ClientRecords
  BY NoCallFacts
<1>2. ConnTypeInv
  BY <1>1, ConnCounts DEF ConnTypeInv, ConnectionsInit
<1>3. StageOK(NoCall) /\ KnownOK(NoCall)
  BY DEF StageOK, KnownOK, NoCall, ConnectionsInit
<1>4. ClientInv
  BY <1>3 DEF ClientInv, ConnectionsInit
<1>5. CreatorInv /\ StatusInv
  BY DEF CreatorInv, StatusInv, ConnectionsInit, NoCall, Usable
<1> QED
  BY <1>2, <1>4, <1>5 DEF ConnIInv

\* Every step keeps the inductive invariant.
LEMMA ConnNextIInv == ConnIInv /\ [ConnectionsNext]_connectionVars => ConnIInv'
  BY ConnTypeNext, ClientNext, CreatorNext, StatusNext DEF ConnIInv

\* The inductive invariant holds in every reachable state.
LEMMA ConnAlwaysIInv == ConnectionsSpec => []ConnIInv
  BY ConnInitIInv, ConnNextIInv, PTL DEF ConnectionsSpec

\* Every address a driver dialled was acceptable, or the host came to resolve
\* differently between assert_host_is_safe and psycopg.connect (_connect).
THEOREM DialsAlwaysChecked == ConnectionsSpec => []DialsWereChecked
<1>1. ConnIInv => DialsWereChecked
  BY DEF ConnIInv, ClientInv, KnownOK, DialsWereChecked
<1> QED
  BY <1>1, ConnAlwaysIInv, PTL

\* A connection was tested before it was saved, stays deleted whatever test was
\* under way, and shows the verdict saved last, which is true as long as nothing
\* changed outside; a listing fails after its table was seen only when something
\* did (connections.py).
THEOREM StatusAlwaysTrue == ConnectionsSpec => []StatusIsTrue
<1>1. ConnIInv => StatusIsTrue
  <2> SUFFICES ASSUME ConnIInv PROVE StatusIsTrue
    OBVIOUS
  <2>1. DeletedStays
    <3>1. \A c \in Clients : client[c].at \in {"idle", "check", "dial", "save", "failed", "answered", "ended"}
      BY DEF ConnIInv, ConnTypeInv, ClientRecords
    <3> QED
      BY <3>1 DEF ConnIInv, ConnTypeInv, StatusInv, DeletedStays
  <2>2. SavedMeansTested
    BY DEF ConnIInv, CreatorInv, ClientInv, KnownOK, SavedMeansTested
  <2>3. StatusIsCurrent
    <3> SUFFICES ASSUME Usable(status), saves # <<>>, client[saves[Len(saves)]].looked = moves
                 PROVE  status = "connected" <=> HostIsSafe(resolution) /\ serverUp
      BY DEF StatusIsCurrent
    <3>1. PICK c \in Clients : c = saves[Len(saves)]
      BY DEF ConnIInv, ConnTypeInv
    <3>2. client[c].op = "test" /\ client[c].at = "ended" /\ client[c].verdict = status
      BY <3>1 DEF ConnIInv, StatusInv
    <3> QED
      BY <3>1, <3>2 DEF ConnIInv, ClientInv, KnownOK, CanAnswer
  <2>4. ListingOvertaken
    <3> SUFFICES ASSUME NEW c \in Clients, client[c].op = "rows", client[c].at = "failed", client[c].second
                 PROVE  moves > 0
      BY DEF ListingOvertaken
    <3> QED
      BY ConnCounts DEF ConnIInv, ConnTypeInv, ClientInv, KnownOK
  <2> QED
    BY <2>1, <2>2, <2>3, <2>4 DEF StatusIsTrue
<1> QED
  BY <1>1, ConnAlwaysIInv, PTL

-----------------------------------------------------------------------------
(***************************************************************************)
(* Dashboards: the inductive invariant.                                    *)
(***************************************************************************)

\* The values of the components of the state.
ChangeOps == {"create", "update", "delete"}
BoardRecords == [name : BoardNames \cup {""}, widgets : WidgetLists \cup {<<>>}]
ChangeRecords ==
  [op : ChangeOps, at : {"check", "save", "refused", "failed", "saved"},
   board : Boards, loaded : BoardRecords, name : BoardNames \cup {""},
   list : WidgetLists \cup {<<"none">>}]
ResultRecords == [got : {"data", "error"}, from : Nat \ {0}, to : Nat]
RenderRecords ==
  [op : {"render"}, at : {"find", "require", "run", "aborted"}, list : WidgetLists \cup {<<>>},
   results : Seq(ResultRecords), from : Nat \ {0}]

\* The values of the variables.
DashTypeInv ==
  /\ boards \in [Boards -> BoardRecords] /\ intended \in [Boards -> BoardRecords]
  /\ entries \subseteq OwnTables \cup OtherTables /\ physical \subseteq entries
  /\ log \in Seq(Moments) /\ Turn >= 1
  /\ asks \in [Askers -> {AskIdle} \cup ChangeRecords \cup RenderRecords]

\* A dashboard has a name that no other has, and tables of its own database.
BoardInv ==
  \A b \in Boards :
    /\ boards[b] # NoBoard => boards[b].name # ""
    /\ Range(boards[b].widgets) \subseteq OwnTables
    /\ \A c \in Boards : b # c /\ boards[b] # NoBoard => boards[b].name # boards[c].name

\* What a request that changes a dashboard is about to save.
ChangeOK(q) ==
  /\ q.op # "delete" => q.name # "" \/ q.loaded.name # ""
  /\ Range(q.loaded.widgets) \subseteq OwnTables
  /\ q.at = "save" /\ q.list # <<"none">> => Range(q.list) \subseteq OwnTables

ChangeInv == \A r \in Askers : asks[r].op \in ChangeOps => ChangeOK(asks[r])

\* A request about dashboard b that has loaded it and not yet saved it.
IsOpen(q, b) == q.op \in ChangeOps /\ q.board = b /\ q.at \in {"check", "save"}

\* Without overlap a dashboard is what was asked for, and the one request that is
\* about to change it has loaded what it is.
OverlapInv ==
  \A b \in Boards \ overlapped :
    /\ boards[b] = intended[b]
    /\ \A r \in Askers : IsOpen(asks[r], b) =>
         asks[r].loaded = boards[b] /\ \A s \in Askers : IsOpen(asks[s], b) => s = r

\* Some moment between two had the permission to read, or a reason for table t to fail.
Held(from, to) == \E k \in from..to : "database.read" \in log[k].rights
Spoiled(t, from, to) ==
  \E k \in from..to : "database.read" \notin log[k].rights \/ t \in log[k].refuses
\* Why a rendering that begins table t at a moment fails as a whole.
Breaks(t, from) == t \notin physical \/ t \in log[from].raises \/ log[from].down

\* The steps of a rendering.
RenderStep(r) == BeginRender(r) \/ FindTable(r) \/ RequireRead(r) \/ RunWidget(r) \/ LoseRender(r)

\* Every result so far has its reason, and so has the one to come.
RenderOK(q) ==
  /\ q.from <= Turn
  /\ q.at = "run" => Held(q.from, Turn)
  /\ \A i \in DOMAIN q.results :
       LET w == q.results[i]
       IN  /\ w.to <= Turn
           /\ w.got = "data" => Held(w.from, w.to)
           /\ w.got = "error" => q.list[i] \notin entries \/ Spoiled(q.list[i], w.from, w.to)
  /\ q.at = "aborted" => Breaks(q.list[Len(q.results) + 1], q.from)

RenderInv == \A r \in Askers : asks[r].op = "render" => RenderOK(asks[r])

\* The inductive invariant of dashboards.
DashIInv == DashTypeInv /\ BoardInv /\ ChangeInv /\ OverlapInv /\ RenderInv

-----------------------------------------------------------------------------
(***************************************************************************)
(* Dashboards: what each step does to its request.                         *)
(***************************************************************************)

\* The stage of a request tells its kind.
LEMMA AskFacts ==
  ASSUME DashTypeInv, NEW r \in Askers
  PROVE  /\ asks[r].at = "idle" => asks[r] = AskIdle
         /\ asks[r].op \in ChangeOps \/ asks[r].at \in {"check", "save"} => asks[r] \in ChangeRecords
         /\ asks[r].op = "render" \/ asks[r].at \in {"find", "require", "run"} => asks[r] \in RenderRecords
<1>1. asks[r] = AskIdle \/ asks[r] \in ChangeRecords \/ asks[r] \in RenderRecords
  BY DEF DashTypeInv
<1>2. AskIdle.op = "none" /\ AskIdle.at = "idle"
  BY DEF AskIdle
<1>3. \A q \in ChangeRecords : q.op \in ChangeOps /\ q.at \in {"check", "save", "refused", "failed", "saved"}
  BY DEF ChangeRecords
<1>4. \A q \in RenderRecords : q.op = "render" /\ q.at \in {"find", "require", "run", "aborted"}
  BY DEF RenderRecords
<1> QED
  BY <1>1, <1>2, <1>3, <1>4 DEF ChangeOps

\* What a step does to the other requests: nothing.
LEMMA OtherAskers ==
  ASSUME DashTypeInv, NEW r \in Askers, NEW q, asks' = [asks EXCEPT ![r] = q]
  PROVE  asks'[r] = q /\ \A s \in Askers : s # r => asks'[s] = asks[s]
  BY DEF DashTypeInv

\* A change begins: the dashboard is loaded.
LEMMA BeginChangeFacts ==
  ASSUME DashTypeInv, NEW r \in Askers, BeginChange(r)
  PROVE  /\ UNCHANGED <<boards, world, intended>>
         /\ \E q \in ChangeRecords :
              /\ asks' = [asks EXCEPT ![r] = q]
              /\ q.at = "check" /\ q.loaded = boards[q.board]
              /\ q.op # "delete" => q.name # "" \/ boards[q.board] # NoBoard
              /\ overlapped' = IF Changing(q.board) = {} THEN overlapped ELSE overlapped \cup {q.board}
<1>1. PICK kind \in ChangeOps, b \in Boards,
           name \in BoardNames \cup {""}, list \in WidgetLists \cup {<<"none">>} :
        /\ kind # "delete" => name # "" \/ boards[b] # NoBoard
        /\ asks' = [asks EXCEPT ![r] =
             [op |-> kind, at |-> "check", board |-> b, loaded |-> boards[b], name |-> name, list |-> list]]
        /\ overlapped' = IF Changing(b) = {} THEN overlapped ELSE overlapped \cup {b}
  <2>1. PICK kind \in {"create", "update", "delete"}, b \in Boards,
             name \in BoardNames \cup {""}, list \in WidgetLists \cup {<<"none">>} :
          /\ CASE kind = "create" -> Unused(b) /\ name # "" /\ list # <<"none">>
               [] kind = "update" -> boards[b] # NoBoard /\ ~(name = "" /\ list = <<"none">>)
               [] kind = "delete" -> boards[b] # NoBoard /\ name = "" /\ list = <<"none">>
          /\ asks' = [asks EXCEPT ![r] =
               [op |-> kind, at |-> "check", board |-> b, loaded |-> boards[b], name |-> name, list |-> list]]
          /\ overlapped' = IF Changing(b) = {} THEN overlapped ELSE overlapped \cup {b}
    BY Zenon DEF BeginChange
  <2>2. kind # "delete" => name # "" \/ boards[b] # NoBoard
    BY <2>1
  <2> QED
    BY <2>1, <2>2 DEF ChangeOps
<1>2. PICK q : q = [op |-> kind, at |-> "check", board |-> b, loaded |-> boards[b], name |-> name, list |-> list]
  OBVIOUS
<1>3. /\ q \in ChangeRecords /\ q.op = kind /\ q.at = "check" /\ q.board = b /\ q.loaded = boards[b]
      /\ q.name = name
  BY <1>2 DEF ChangeRecords, DashTypeInv
<1> QED
  BY <1>1, <1>2, <1>3 DEF BeginChange

\* Permission and widgets are checked.
LEMMA ChangeCheckFacts ==
  ASSUME DashTypeInv, NEW r \in Askers, Check(r)
  PROVE  /\ UNCHANGED <<boards, world, intended, overlapped>>
         /\ asks[r] \in ChangeRecords /\ asks[r].at = "check"
         /\ \E q \in ChangeRecords :
              /\ asks' = [asks EXCEPT ![r] = q]
              /\ q.op = asks[r].op /\ q.board = asks[r].board /\ q.loaded = asks[r].loaded
              /\ q.name = asks[r].name /\ q.list = asks[r].list
              /\ q.at = "save" => ValidWidgets(q.list)
<1>1. PICK p \in ChangeRecords : p = asks[r] /\ p.at = "check"
  BY AskFacts DEF Check
<1>2. PICK at \in {"save", "refused"} :
        at = IF "dataset.analyze" \in Now.rights /\ ValidWidgets(p.list) THEN "save" ELSE "refused"
  OBVIOUS
<1>3. PICK q : q = [p EXCEPT !.at = at]
  OBVIOUS
<1>4. /\ q \in ChangeRecords /\ q.op = p.op /\ q.board = p.board /\ q.loaded = p.loaded
      /\ q.name = p.name /\ q.list = p.list /\ q.at = at
  BY <1>3 DEF ChangeRecords
<1>5. asks' = [asks EXCEPT ![r] = q]
  BY <1>1, <1>2, <1>3 DEF Check, DashTypeInv
<1> QED
  BY <1>1, <1>2, <1>4, <1>5 DEF Check

\* The dashboard is saved, or not.
LEMMA SaveBoardFacts ==
  ASSUME DashTypeInv, NEW r \in Askers, SaveBoard(r)
  PROVE  /\ UNCHANGED <<world, overlapped>>
         /\ asks[r] \in ChangeRecords /\ asks[r].at = "save"
         /\ \E q \in ChangeRecords :
              /\ asks' = [asks EXCEPT ![r] = q]
              /\ q.op = asks[r].op /\ q.board = asks[r].board /\ q.loaded = asks[r].loaded
              /\ q.name = asks[r].name /\ q.list = asks[r].list /\ q.at \in {"failed", "saved"}
         /\ \/ UNCHANGED <<boards, intended>>
            \/ /\ asks[r].op = "delete"
               /\ boards' = [boards EXCEPT ![asks[r].board] = NoBoard]
               /\ intended' = [intended EXCEPT ![asks[r].board] = NoBoard]
            \/ /\ asks[r].op # "delete" /\ NameFree(r)
               /\ boards' = [boards EXCEPT ![asks[r].board] = Merged(r)]
               /\ intended' = [intended EXCEPT ![asks[r].board] = Asked(r, intended[asks[r].board])]
<1>1. PICK p \in ChangeRecords : p = asks[r] /\ p.at = "save"
  BY AskFacts DEF SaveBoard
<1>2. PICK at \in {"failed", "saved"} : asks' = [asks EXCEPT ![r].at = at]
  BY DEF SaveBoard
<1>3. PICK q : q = [p EXCEPT !.at = at]
  OBVIOUS
<1>4. /\ q \in ChangeRecords /\ q.op = p.op /\ q.board = p.board /\ q.loaded = p.loaded
      /\ q.name = p.name /\ q.list = p.list /\ q.at = at
  BY <1>3 DEF ChangeRecords
<1>5. asks' = [asks EXCEPT ![r] = q]
  BY <1>1, <1>2, <1>3 DEF DashTypeInv
<1>6. p.board \in Boards
  BY DEF ChangeRecords
<1>7. \/ UNCHANGED <<boards, intended>>
      \/ /\ asks[r].op = "delete"
         /\ boards' = [boards EXCEPT ![asks[r].board] = NoBoard]
         /\ intended' = [intended EXCEPT ![asks[r].board] = NoBoard]
      \/ /\ asks[r].op # "delete" /\ NameFree(r)
         /\ boards' = [boards EXCEPT ![asks[r].board] = Merged(r)]
         /\ intended' = [intended EXCEPT ![asks[r].board] = Asked(r, intended[asks[r].board])]
  BY <1>1, <1>6 DEF SaveBoard, DashTypeInv
<1> QED
  BY <1>1, <1>2, <1>4, <1>5, <1>7 DEF SaveBoard

\* What a saved request makes of the dashboard it loaded.
LEMMA MergedFacts ==
  ASSUME NEW r, asks[r] \in ChangeRecords, ChangeOK(asks[r]), asks[r].at = "save",
         asks[r].op # "delete"
  PROVE  /\ Merged(r) \in BoardRecords /\ Merged(r).name # ""
         /\ Range(Merged(r).widgets) \subseteq OwnTables
<1>1. PICK p \in ChangeRecords : p = asks[r]
  OBVIOUS
<1>2. PICK name \in BoardNames \cup {""} : name = IF p.name = "" THEN p.loaded.name ELSE p.name
  BY DEF ChangeRecords, BoardRecords
<1>3. PICK list \in WidgetLists \cup {<<>>} : list = IF p.list = <<"none">> THEN p.loaded.widgets ELSE p.list
  BY DEF ChangeRecords, BoardRecords
<1>4. Merged(r) = [name |-> name, widgets |-> list]
  BY <1>1, <1>2, <1>3 DEF Merged
<1>5. name # "" /\ Range(list) \subseteq OwnTables
  BY <1>1, <1>2, <1>3 DEF ChangeOK
<1>6. PICK m : m = [name |-> name, widgets |-> list]
  OBVIOUS
<1>7. m \in BoardRecords /\ m.name = name /\ m.widgets = list
  BY <1>6 DEF BoardRecords
<1> QED
  BY <1>4, <1>5, <1>6, <1>7

\* Around the dashboards, circumstances are only added to their record, and tables
\* only go.
LEMMA WorldNext ==
  ASSUME DashIInv, [DashboardsNext]_dashboardVars
  PROVE  /\ log' \in Seq(Moments) /\ Turn \in Nat /\ Turn' \in Nat
         /\ Turn >= 1 /\ Turn <= Turn' /\ \A k \in 1..Turn : log'[k] = log[k]
         /\ entries' \subseteq entries /\ physical' \subseteq physical /\ physical' \subseteq entries'
<1>1. Turn \in Nat /\ Turn >= 1 /\ log \in Seq(Moments) /\ physical \subseteq entries
  BY DEF DashIInv, DashTypeInv, Turn
<1>2. CASE World
  <2>1. PICK moment \in Moments : moment = Now
    BY <1>1 DEF Now, Turn
  <2>2. Changed \subseteq Moments
    <3>1. moment.rights \subseteq Permissions /\ moment.refuses \subseteq OwnTables /\ moment.raises \subseteq OwnTables
          /\ moment.down \in BOOLEAN
      BY DEF Moments
    <3>2. ASSUME NEW p \in Permissions PROVE [moment EXCEPT !.rights = Flip(moment.rights, p)] \in Moments
      <4>1. Flip(moment.rights, p) \subseteq Permissions
        BY <3>1 DEF Flip
      <4> QED
        BY <4>1 DEF Moments
    <3>3. ASSUME NEW t \in OwnTables
          PROVE  /\ [moment EXCEPT !.refuses = Flip(moment.refuses, t)] \in Moments
                 /\ [moment EXCEPT !.raises = Flip(moment.raises, t)] \in Moments
      <4>1. Flip(moment.refuses, t) \subseteq OwnTables /\ Flip(moment.raises, t) \subseteq OwnTables
        BY <3>1 DEF Flip
      <4> QED
        BY <4>1 DEF Moments
    <3>4. [moment EXCEPT !.down = ~moment.down] \in Moments
      BY DEF Moments
    <3> QED
      BY <2>1, <3>2, <3>3, <3>4 DEF Changed
  <2>3. PICK e \in Moments : log' = Append(log, e)
    BY <1>2, <2>1, <2>2 DEF World
  <2>4. entries' \subseteq entries /\ physical' \subseteq physical /\ physical' \subseteq entries'
    BY <1>1, <1>2 DEF World
  <2>5. /\ log' \in Seq(Moments) /\ Len(log') = Len(log) + 1
        /\ \A k \in 1..Len(log) : log'[k] = log[k]
    BY <1>1, <2>3
  <2> QED
    BY <1>1, <2>4, <2>5 DEF Turn
<1>3. CASE UNCHANGED world
  BY <1>1, <1>3 DEF world, Turn
<1> QED
  BY <1>2, <1>3 DEF DashboardsNext, dashboardVars, BeginChange, Check, SaveBoard, BeginRender,
                    FindTable, RequireRead, RunWidget, LoseRender

\* What holds of a request that renders keeps holding.
LEMMA RenderKept ==
  ASSUME DashIInv, [DashboardsNext]_dashboardVars, NEW q \in RenderRecords, RenderOK(q)
  PROVE  RenderOK(q)'
<1>1. /\ Turn \in Nat /\ Turn' \in Nat /\ Turn <= Turn' /\ \A k \in 1..Turn : log'[k] = log[k]
      /\ entries' \subseteq entries /\ physical' \subseteq physical
  BY WorldNext
<1>2. ASSUME NEW from \in Nat \ {0}, NEW to \in Nat, to <= Turn
      PROVE  /\ Held(from, to) => Held(from, to)'
             /\ \A t : Spoiled(t, from, to) =>
                  \E k \in from..to : "database.read" \notin log'[k].rights \/ t \in log'[k].refuses
  <2>1. \A k \in from..to : k \in 1..Turn
    BY <1>1, <1>2
  <2> QED
    BY <1>1, <2>1 DEF Held, Spoiled
<1>3. q.from \in Nat \ {0} /\ q.from <= Turn
  BY DEF RenderRecords, RenderOK
<1>4. q.at = "run" => \E k \in q.from..Turn' : "database.read" \in log'[k].rights
  <2> SUFFICES ASSUME q.at = "run" PROVE \E k \in q.from..Turn' : "database.read" \in log'[k].rights
    OBVIOUS
  <2>1. PICK k \in q.from..Turn : "database.read" \in log[k].rights
    BY DEF RenderOK, Held
  <2>2. k \in 1..Turn /\ k \in q.from..Turn'
    BY <1>1, <1>3, <2>1
  <2> QED
    BY <1>1, <2>1, <2>2
<1>5. ASSUME NEW i \in DOMAIN q.results, NEW w, w = q.results[i]
      PROVE  /\ w.to <= Turn'
             /\ w.got = "data" => Held(w.from, w.to)'
             /\ w.got = "error" => q.list[i] \notin entries' \/ Spoiled(q.list[i], w.from, w.to)'
  <2>1. /\ w.to <= Turn
        /\ w.got = "data" => Held(w.from, w.to)
        /\ w.got = "error" => q.list[i] \notin entries \/ Spoiled(q.list[i], w.from, w.to)
    BY <1>5 DEF RenderOK
  <2>2. w \in ResultRecords
    BY <1>5 DEF RenderRecords
  <2>3. PICK from \in Nat \ {0}, to \in Nat : from = w.from /\ to = w.to
    BY <2>2 DEF ResultRecords
  <2>4. to <= Turn
    BY <2>1, <2>3
  <2>5. to <= Turn'
    BY <1>1, <2>4
  <2>6. w.got = "data" => Held(w.from, w.to)'
    <3>1. Held(from, to) => Held(from, to)'
      BY <1>2, <2>4
    <3> QED
      BY <2>1, <2>3, <3>1 DEF Held
  <2>7. w.got = "error" => q.list[i] \notin entries' \/ Spoiled(q.list[i], w.from, w.to)'
    <3>1. PICK t : t = q.list[i]
      OBVIOUS
    <3>2. Spoiled(t, from, to) =>
            \E k \in from..to : "database.read" \notin log'[k].rights \/ t \in log'[k].refuses
      BY <1>2, <2>4
    <3>3. w.got = "error" => t \notin entries \/ Spoiled(t, from, to)
      BY <2>1, <2>3, <3>1
    <3>4. w.got = "error" => t \notin entries' \/
            \E k \in w.from..w.to : "database.read" \notin log'[k].rights \/ t \in log'[k].refuses
      BY <1>1, <2>3, <3>2, <3>3
    <3> QED
      BY <3>1, <3>4 DEF Spoiled
  <2> QED
    BY <2>3, <2>5, <2>6, <2>7
<1>6. q.at = "aborted" => Breaks(q.list[Len(q.results) + 1], q.from)'
  <2>1. q.from \in 1..Turn
    BY <1>1, <1>3
  <2>2. log'[q.from] = log[q.from]
    BY <1>1, <2>1
  <2> QED
    BY <1>1, <2>2 DEF RenderOK, Breaks
<1>7. q.from <= Turn'
  BY <1>1, <1>3
<1> QED
  BY <1>4, <1>5, <1>6, <1>7 DEF RenderOK, Held

\* A widget that ends with a reason for its result leaves a sound rendering.
LEMMA WidgetEndsFacts ==
  ASSUME DashTypeInv, NEW r \in Askers, asks[r] \in RenderRecords, RenderOK(asks[r]),
         NEW got \in {"data", "error"}, WidgetEnds(r, got),
         got = "data" => Held(asks[r].from, Turn),
         got = "error" => CurrentWidget(r) \notin entries \/ Spoiled(CurrentWidget(r), asks[r].from, Turn)
  PROVE  \E q \in RenderRecords : asks' = [asks EXCEPT ![r] = q] /\ RenderOK(q)
<1>1. PICK p \in RenderRecords : p = asks[r]
  OBVIOUS
<1>2. Turn \in Nat \ {0} /\ p.from \in Nat \ {0} /\ p.results \in Seq(ResultRecords) /\ p.from <= Turn
  BY <1>1 DEF DashTypeInv, Turn, RenderRecords, RenderOK
<1>3. PICK w : w = [got |-> got, from |-> p.from, to |-> Turn]
  OBVIOUS
<1>4. w \in ResultRecords /\ w.got = got /\ w.from = p.from /\ w.to = Turn
  BY <1>2, <1>3 DEF ResultRecords
<1>5. PICK results \in Seq(ResultRecords) : results = Append(p.results, w)
  <2>1. PICK old \in Seq(ResultRecords) : old = p.results
    BY <1>2
  <2>2. w \in ResultRecords
    BY <1>4
  <2>3. Append(old, w) \in Seq(ResultRecords)
    BY <2>2
  <2> QED
    BY <2>1, <2>3
<1>6. PICK turn \in Nat \ {0} : turn = Turn
  BY <1>2
<1>7. PICK q : q = [p EXCEPT !.results = results, !.from = turn, !.at = "find"]
  OBVIOUS
<1>8. /\ q \in RenderRecords /\ q.results = results /\ q.from = turn /\ q.at = "find" /\ q.list = p.list
  BY <1>7 DEF RenderRecords
<1>9. asks' = [asks EXCEPT ![r] = q]
  BY <1>1, <1>3, <1>5, <1>6, <1>7 DEF WidgetEnds, DashTypeInv
<1>10. ASSUME NEW i \in DOMAIN results
       PROVE  /\ results[i].to <= Turn
              /\ results[i].got = "data" => Held(results[i].from, results[i].to)
              /\ results[i].got = "error" => p.list[i] \notin entries \/ Spoiled(p.list[i], results[i].from, results[i].to)
  <2>1. CASE i \in DOMAIN p.results
    <3>1. results[i] = p.results[i]
      BY <1>2, <1>5, <2>1
    <3> QED
      BY <1>1, <2>1, <3>1 DEF RenderOK
  <2>2. CASE i = Len(p.results) + 1
    <3>1. results[i] = w
      BY <1>2, <1>5, <2>2
    <3>2. CurrentWidget(r) = p.list[i]
      BY <1>1, <2>2 DEF CurrentWidget
    <3>3. Turn <= Turn
      BY <1>2
    <3> QED
      BY <1>1, <1>4, <3>1, <3>2, <3>3
  <2> QED
    BY <1>2, <1>5, <2>1, <2>2
<1>11. RenderOK(q)
  BY <1>2, <1>6, <1>8, <1>10 DEF RenderOK
<1> QED
  BY <1>8, <1>9, <1>11

\* The steps of a rendering: its request is a sound rendering after each.
LEMMA RenderFacts ==
  ASSUME DashIInv, NEW r \in Askers, RenderStep(r)
  PROVE  /\ UNCHANGED <<boards, world, intended, overlapped>>
         /\ \E q \in RenderRecords : asks' = [asks EXCEPT ![r] = q] /\ RenderOK(q)
<1>1. UNCHANGED <<boards, world, intended, overlapped>>
  BY DEF RenderStep, BeginRender, FindTable, RequireRead, RunWidget, LoseRender
<1>2. Turn \in Nat \ {0} /\ DashTypeInv
  BY DEF DashIInv, DashTypeInv, Turn
<1>3. PICK turn \in Nat \ {0} : turn = Turn
  BY <1>2
<1>4. CASE BeginRender(r)
  <2>1. PICK list \in WidgetLists \cup {<<>>} :
          asks' = [asks EXCEPT ![r] =
            [op |-> "render", at |-> "find", list |-> list, results |-> <<>>, from |-> turn]]
    BY <1>2, <1>3, <1>4 DEF BeginRender, DashTypeInv, BoardRecords
  <2>2. PICK q : q = [op |-> "render", at |-> "find", list |-> list, results |-> <<>>, from |-> turn]
    OBVIOUS
  <2>3. <<>> \in Seq(ResultRecords) /\ DOMAIN <<>> = {}
    OBVIOUS
  <2>4. q \in RenderRecords /\ q.at = "find" /\ q.results = <<>> /\ q.from = turn
    BY <2>2, <2>3 DEF RenderRecords
  <2>5. RenderOK(q)
    BY <1>2, <1>3, <2>3, <2>4 DEF RenderOK
  <2> QED
    BY <1>1, <2>1, <2>2, <2>4, <2>5
<1>5. ASSUME NEW at \in {"require", "run"}, asks' = [asks EXCEPT ![r].at = at],
             asks[r] \in RenderRecords, RenderOK(asks[r]), at = "run" => Held(asks[r].from, Turn)
      PROVE  \E q \in RenderRecords : asks' = [asks EXCEPT ![r] = q] /\ RenderOK(q)
  <2>1. PICK p \in RenderRecords : p = asks[r] /\ RenderOK(p)
    BY <1>5
  <2>2. PICK q : q = [p EXCEPT !.at = at]
    OBVIOUS
  <2>3. /\ q \in RenderRecords /\ q.at = at /\ q.list = p.list /\ q.results = p.results /\ q.from = p.from
    BY <2>2 DEF RenderRecords
  <2>4. asks' = [asks EXCEPT ![r] = q]
    BY <1>2, <1>5, <2>1, <2>2 DEF DashTypeInv
  <2>5. RenderOK(q)
    BY <1>5, <2>1, <2>3 DEF RenderOK
  <2> QED
    BY <2>3, <2>4, <2>5
<1>10. ASSUME Aborted(r), asks[r] \in RenderRecords, RenderOK(asks[r]), Breaks(CurrentWidget(r), Turn)
       PROVE  \E q \in RenderRecords : asks' = [asks EXCEPT ![r] = q] /\ RenderOK(q)
  <2>1. PICK p \in RenderRecords : p = asks[r] /\ RenderOK(p)
    BY <1>10
  <2>2. PICK q : q = [p EXCEPT !.at = "aborted", !.from = turn]
    OBVIOUS
  <2>3. /\ q \in RenderRecords /\ q.at = "aborted" /\ q.list = p.list /\ q.results = p.results
        /\ q.from = turn
    BY <2>2 DEF RenderRecords
  <2>4. asks' = [asks EXCEPT ![r] = q]
    BY <1>2, <1>3, <1>10, <2>1, <2>2 DEF DashTypeInv, Aborted
  <2>5. Breaks(q.list[Len(q.results) + 1], q.from) /\ q.from <= Turn
    BY <1>3, <1>10, <2>1, <2>3 DEF CurrentWidget
  <2>6. RenderOK(q)
    BY <2>1, <2>3, <2>5 DEF RenderOK
  <2> QED
    BY <2>3, <2>4, <2>6
<1>6. ASSUME asks[r].at \in {"find", "require", "run"}
      PROVE  asks[r] \in RenderRecords /\ RenderOK(asks[r]) /\ asks[r].from \in Nat \ {0}
  <2>1. asks[r] \in RenderRecords
    BY <1>2, <1>6, AskFacts
  <2> QED
    BY <2>1 DEF DashIInv, RenderInv, RenderRecords
<1>7. CASE FindTable(r)
  <2>1. asks[r] \in RenderRecords /\ RenderOK(asks[r])
    BY <1>6, <1>7 DEF FindTable
  <2>2. CASE CurrentWidget(r) \in entries
    BY <1>1, <1>5, <1>7, <2>1, <2>2 DEF FindTable
  <2>3. CASE CurrentWidget(r) \notin entries
    BY <1>1, <1>2, <1>7, <2>1, <2>3, WidgetEndsFacts DEF FindTable, Refused
  <2> QED
    BY <2>2, <2>3
<1>8. CASE RequireRead(r)
  <2>1. asks[r] \in RenderRecords /\ RenderOK(asks[r]) /\ asks[r].from \in Nat \ {0} /\ asks[r].from <= Turn
    BY <1>6, <1>8 DEF RequireRead, RenderOK
  <2>2. Turn \in asks[r].from..Turn
    BY <1>2, <2>1
  <2>3. CASE MayRead(r)
    <3>1. Held(asks[r].from, Turn)
      BY <2>2, <2>3 DEF MayRead, Held, Now
    <3> QED
      BY <1>1, <1>5, <1>8, <2>1, <2>3, <3>1 DEF RequireRead
  <2>4. CASE ~ MayRead(r)
    <3>1. Spoiled(CurrentWidget(r), asks[r].from, Turn)
      BY <2>2, <2>4 DEF MayRead, Spoiled, Now
    <3>2. WidgetEnds(r, "error")
      BY <1>8, <2>4 DEF RequireRead, Refused
    <3> QED
      BY <1>1, <1>2, <2>1, <3>1, <3>2, WidgetEndsFacts
  <2> QED
    BY <2>3, <2>4
<1>9. CASE RunWidget(r)
  <2>1. /\ asks[r] \in RenderRecords /\ RenderOK(asks[r]) /\ Held(asks[r].from, Turn)
        /\ asks[r].from \in Nat \ {0} /\ asks[r].from <= Turn
    BY <1>6, <1>9 DEF RunWidget, RenderOK
  <2>2. CASE WidgetEnds(r, "data")
    BY <1>1, <1>2, <2>1, <2>2, WidgetEndsFacts
  <2>3. CASE CurrentWidget(r) \in Now.refuses /\ Refused(r)
    <3>1. Turn \in asks[r].from..Turn
      BY <1>2, <2>1
    <3>2. Spoiled(CurrentWidget(r), asks[r].from, Turn)
      BY <2>3, <3>1 DEF Spoiled, Now
    <3>3. WidgetEnds(r, "error")
      BY <2>3 DEF Refused
    <3> QED
      BY <1>1, <1>2, <2>1, <3>2, <3>3, WidgetEndsFacts
  <2>4. CASE CurrentWidget(r) \notin physical \ Now.raises /\ Aborted(r)
    <3>1. Breaks(CurrentWidget(r), Turn)
      BY <2>4 DEF Breaks, Now
    <3> QED
      BY <1>1, <1>10, <2>1, <2>4, <3>1
  <2> QED
    BY <1>9, <2>2, <2>3, <2>4 DEF RunWidget
<1>11. CASE LoseRender(r)
  <2>1. asks[r] \in RenderRecords
    BY <1>2, <1>11, AskFacts DEF LoseRender, Rendering
  <2>2. RenderOK(asks[r])
    BY <1>11 DEF LoseRender, Rendering, DashIInv, RenderInv
  <2>3. Breaks(CurrentWidget(r), Turn) /\ Aborted(r)
    BY <1>11 DEF LoseRender, Breaks, Now
  <2> QED
    BY <1>1, <1>10, <2>1, <2>2, <2>3
<1> QED
  BY <1>4, <1>7, <1>8, <1>9, <1>11 DEF RenderStep

-----------------------------------------------------------------------------
(***************************************************************************)
(* Dashboards: every step keeps the invariant.                             *)
(***************************************************************************)

\* The variables keep their shape.
LEMMA DashTypeNext ==
  ASSUME DashIInv, [DashboardsNext]_dashboardVars
  PROVE  DashTypeInv'
<1>1. CASE World
  <2>1. entries' \subseteq OwnTables \cup OtherTables /\ physical' \subseteq entries'
    BY WorldNext DEF DashIInv, DashTypeInv
  <2>2. log' \in Seq(Moments) /\ Turn' >= 1
    BY WorldNext
  <2>3. UNCHANGED <<boards, asks, intended>>
    BY <1>1 DEF World
  <2> QED
    BY <2>1, <2>2, <2>3 DEF DashIInv, DashTypeInv
<1>2. ASSUME NEW r \in Askers, BeginChange(r) \/ Check(r)
      PROVE  DashTypeInv'
  <2>1. DashTypeInv
    BY DEF DashIInv
  <2>2. PICK q \in ChangeRecords : asks' = [asks EXCEPT ![r] = q] /\ UNCHANGED <<boards, world, intended>>
    BY <1>2, <2>1, BeginChangeFacts, ChangeCheckFacts
  <2> QED
    BY <2>1, <2>2 DEF DashTypeInv, world, Turn
<1>3. ASSUME NEW r \in Askers, SaveBoard(r)
      PROVE  DashTypeInv'
  <2>1. DashTypeInv
    BY DEF DashIInv
  <2>2. PICK q \in ChangeRecords : asks' = [asks EXCEPT ![r] = q] /\ UNCHANGED world
    BY <1>3, <2>1, SaveBoardFacts
  <2>3. asks[r] \in ChangeRecords /\ asks[r].at = "save" /\ asks[r].board \in Boards
    BY <1>3, <2>1, SaveBoardFacts DEF ChangeRecords
  <2>4. asks[r].op # "delete" => Merged(r) \in BoardRecords
    <3>1. ChangeOK(asks[r])
      BY <2>3 DEF DashIInv, ChangeInv, ChangeRecords
    <3> QED
      BY <2>3, <3>1, MergedFacts
  <2>5. ASSUME NEW old \in BoardRecords PROVE Asked(r, old) \in BoardRecords
    BY <2>3 DEF Asked, BoardRecords, ChangeRecords
  <2>6. NoBoard \in BoardRecords
    BY DEF NoBoard, BoardRecords
  <2>7. boards' \in [Boards -> BoardRecords] /\ intended' \in [Boards -> BoardRecords]
    BY <1>3, <2>1, <2>3, <2>4, <2>5, <2>6, SaveBoardFacts DEF DashTypeInv
  <2> QED
    BY <2>1, <2>2, <2>7 DEF DashTypeInv, world, Turn
<1>4. ASSUME NEW r \in Askers, RenderStep(r)
      PROVE  DashTypeInv'
  <2>1. PICK q \in RenderRecords : asks' = [asks EXCEPT ![r] = q] /\ UNCHANGED <<boards, world, intended>>
    BY <1>4, RenderFacts
  <2> QED
    BY <2>1 DEF DashIInv, DashTypeInv, world, Turn
<1>5. CASE UNCHANGED dashboardVars
  BY <1>5 DEF dashboardVars, DashIInv, DashTypeInv, world, Turn
<1> QED
  BY <1>1, <1>2, <1>3, <1>4, <1>5 DEF DashboardsNext, RenderStep

\* Names stay unique, and widgets stay within their database.
LEMMA BoardNext ==
  ASSUME DashIInv, [DashboardsNext]_dashboardVars
  PROVE  BoardInv'
<1>1. CASE World
  BY <1>1 DEF World, DashIInv, BoardInv
<1>2. ASSUME NEW r \in Askers, BeginChange(r) \/ Check(r)
      PROVE  BoardInv'
  <2>1. UNCHANGED boards
    BY <1>2 DEF BeginChange, Check
  <2> QED
    BY <2>1 DEF DashIInv, BoardInv
<1>3. ASSUME NEW r \in Askers, SaveBoard(r)
      PROVE  BoardInv'
  <2>1. DashTypeInv /\ BoardInv /\ boards \in [Boards -> BoardRecords]
    BY DEF DashIInv, DashTypeInv
  <2>2. PICK p \in ChangeRecords : p = asks[r] /\ p.at = "save" /\ p.board \in Boards
    BY <1>3, <2>1, SaveBoardFacts DEF ChangeRecords
  <2>3. CASE UNCHANGED boards
    BY <2>1, <2>3 DEF BoardInv
  <2>4. CASE boards' = [boards EXCEPT ![p.board] = NoBoard]
    <3>1. boards'[p.board] = NoBoard /\ \A c \in Boards : c # p.board => boards'[c] = boards[c]
      BY <2>1, <2>2, <2>4
    <3>2. NoBoard.name = "" /\ NoBoard.widgets = <<>> /\ Range(<<>>) = {}
      BY DEF NoBoard, Range
    <3> QED
      BY <2>1, <3>1, <3>2 DEF BoardInv
  <2>5. CASE p.op # "delete" /\ NameFree(r) /\ boards' = [boards EXCEPT ![p.board] = Merged(r)]
    <3>1. PICK m : m = Merged(r) /\ m.name # "" /\ Range(m.widgets) \subseteq OwnTables
      <4>1. ChangeOK(asks[r])
        BY <2>2 DEF DashIInv, ChangeInv, ChangeRecords
      <4> QED
        BY <2>2, <2>5, <4>1, MergedFacts
    <3>2. boards'[p.board] = m /\ \A c \in Boards : c # p.board => boards'[c] = boards[c]
      BY <2>1, <2>2, <2>5, <3>1
    <3>3. \A c \in Boards : c # p.board => boards[c].name # m.name
      BY <2>2, <2>5, <3>1 DEF NameFree
    <3> QED
      BY <2>1, <3>1, <3>2, <3>3 DEF BoardInv
  <2> QED
    BY <1>3, <2>1, <2>2, <2>3, <2>4, <2>5, SaveBoardFacts
<1>4. ASSUME NEW r \in Askers, RenderStep(r)
      PROVE  BoardInv'
  <2>1. UNCHANGED boards
    BY <1>4, RenderFacts
  <2> QED
    BY <2>1 DEF DashIInv, BoardInv
<1>5. CASE UNCHANGED dashboardVars
  BY <1>5 DEF dashboardVars, DashIInv, BoardInv
<1> QED
  BY <1>1, <1>2, <1>3, <1>4, <1>5 DEF DashboardsNext, RenderStep

\* Changes under way stay sound when the one request that moves is.
LEMMA ChangeReplaced ==
  ASSUME DashIInv, NEW r \in Askers, NEW q, asks' = [asks EXCEPT ![r] = q],
         q.op \in ChangeOps => ChangeOK(q)
  PROVE  ChangeInv'
<1>1. asks'[r] = q /\ \A s \in Askers : s # r => asks'[s] = asks[s]
  BY OtherAskers DEF DashIInv
<1>2. \A s \in Askers : s # r /\ asks[s].op \in ChangeOps => ChangeOK(asks[s])
  BY DEF DashIInv, ChangeInv
<1>3. \A s \in Askers : asks'[s].op \in ChangeOps => ChangeOK(asks'[s])
  BY <1>1, <1>2
<1> QED
  BY <1>3 DEF ChangeInv, ChangeOK

\* What is about to be saved has a name and valid widgets.
LEMMA ChangeNext ==
  ASSUME DashIInv, [DashboardsNext]_dashboardVars
  PROVE  ChangeInv'
<1>1. CASE World
  BY <1>1 DEF World, DashIInv, ChangeInv, ChangeOK
<1>2. ASSUME NEW r \in Askers, BeginChange(r)
      PROVE  ChangeInv'
  <2>1. PICK q \in ChangeRecords :
          /\ asks' = [asks EXCEPT ![r] = q]
          /\ q.at = "check" /\ q.loaded = boards[q.board]
          /\ q.op # "delete" => q.name # "" \/ boards[q.board] # NoBoard
    BY <1>2, BeginChangeFacts DEF DashIInv
  <2>2. q.board \in Boards
    BY DEF ChangeRecords
  <2>3. ChangeOK(q)
    BY <2>1, <2>2 DEF ChangeOK, DashIInv, BoardInv
  <2> QED
    BY <2>1, <2>3, ChangeReplaced
<1>3. ASSUME NEW r \in Askers, Check(r)
      PROVE  ChangeInv'
  <2>1. PICK q \in ChangeRecords :
          /\ asks' = [asks EXCEPT ![r] = q] /\ asks[r].op \in ChangeOps
          /\ q.op = asks[r].op /\ q.loaded = asks[r].loaded
          /\ q.name = asks[r].name /\ q.list = asks[r].list
          /\ q.at = "save" => ValidWidgets(q.list)
    BY <1>3, ChangeCheckFacts DEF DashIInv, ChangeRecords
  <2>2. ChangeOK(q)
    BY <2>1 DEF ChangeOK, ValidWidgets, DashIInv, ChangeInv
  <2> QED
    BY <2>1, <2>2, ChangeReplaced
<1>4. ASSUME NEW r \in Askers, SaveBoard(r)
      PROVE  ChangeInv'
  <2>1. PICK q \in ChangeRecords :
          /\ asks' = [asks EXCEPT ![r] = q] /\ asks[r].op \in ChangeOps
          /\ q.op = asks[r].op /\ q.loaded = asks[r].loaded
          /\ q.name = asks[r].name /\ q.at # "save"
    BY <1>4, SaveBoardFacts DEF DashIInv, ChangeRecords
  <2>2. ChangeOK(q)
    BY <2>1 DEF ChangeOK, DashIInv, ChangeInv
  <2> QED
    BY <2>1, <2>2, ChangeReplaced
<1>5. ASSUME NEW r \in Askers, RenderStep(r)
      PROVE  ChangeInv'
  <2>1. PICK q \in RenderRecords : asks' = [asks EXCEPT ![r] = q]
    BY <1>5, RenderFacts
  <2>2. q.op \notin ChangeOps
    BY DEF RenderRecords, ChangeOps
  <2> QED
    BY <2>1, <2>2, ChangeReplaced
<1>6. CASE UNCHANGED dashboardVars
  BY <1>6 DEF dashboardVars, DashIInv, ChangeInv, ChangeOK
<1> QED
  BY <1>1, <1>2, <1>3, <1>4, <1>5, <1>6 DEF DashboardsNext, RenderStep

\* The requests about a dashboard that are open.
LEMMA ChangingFacts ==
  ASSUME NEW b
  PROVE  Changing(b) = {r \in Askers : IsOpen(asks[r], b)}
  BY DEF Changing, Changers, IsOpen, ChangeOps

\* Without overlap a dashboard is what was asked for, and what was loaded.
LEMMA OverlapNext ==
  ASSUME DashIInv, [DashboardsNext]_dashboardVars
  PROVE  OverlapInv'
<1>1. CASE World
  BY <1>1 DEF World, DashIInv, OverlapInv, IsOpen
<1>2. ASSUME NEW r \in Askers, BeginChange(r)
      PROVE  OverlapInv'
  <2>1. PICK q \in ChangeRecords :
          /\ asks' = [asks EXCEPT ![r] = q] /\ UNCHANGED <<boards, intended>>
          /\ q.at = "check" /\ q.loaded = boards[q.board]
          /\ overlapped' = IF Changing(q.board) = {} THEN overlapped ELSE overlapped \cup {q.board}
    BY <1>2, BeginChangeFacts DEF DashIInv
  <2>2. asks'[r] = q /\ \A s \in Askers : s # r => asks'[s] = asks[s]
    BY <2>1, OtherAskers DEF DashIInv
  <2> SUFFICES ASSUME NEW b \in Boards \ overlapped'
               PROVE  /\ boards[b] = intended[b]
                      /\ \A d \in Askers : IsOpen(asks'[d], b) =>
                           asks'[d].loaded = boards[b] /\ \A s \in Askers : IsOpen(asks'[s], b) => s = d
    BY <2>1 DEF OverlapInv, IsOpen
  <2>3. b \notin overlapped
    BY <2>1
  <2>4. CASE b = q.board
    <3>1. \A s \in Askers : ~ IsOpen(asks[s], b)
      BY <2>1, <2>4, ChangingFacts
    <3> QED
      BY <2>1, <2>2, <2>3, <2>4, <3>1 DEF DashIInv, OverlapInv
  <2>5. CASE b # q.board
    <3>1. ~ IsOpen(q, b)
      BY <2>5 DEF IsOpen
    <3> QED
      BY <2>2, <2>3, <3>1 DEF DashIInv, OverlapInv
  <2> QED
    BY <2>4, <2>5
<1>3. ASSUME NEW r \in Askers, Check(r)
      PROVE  OverlapInv'
  <2>1. PICK q \in ChangeRecords :
          /\ asks' = [asks EXCEPT ![r] = q] /\ UNCHANGED <<boards, intended, overlapped>>
          /\ q.op = asks[r].op /\ q.board = asks[r].board /\ q.loaded = asks[r].loaded
          /\ asks[r].at = "check"
    BY <1>3, ChangeCheckFacts DEF DashIInv
  <2>2. asks'[r] = q /\ \A s \in Askers : s # r => asks'[s] = asks[s]
    BY <2>1, OtherAskers DEF DashIInv
  <2>3. \A b, s : s \in Askers /\ IsOpen(asks'[s], b) => IsOpen(asks[s], b) /\ asks'[s].loaded = asks[s].loaded
    BY <2>1, <2>2 DEF IsOpen
  <2>4. \A b \in Boards \ overlapped :
          /\ boards[b] = intended[b]
          /\ \A d \in Askers : IsOpen(asks'[d], b) =>
               asks'[d].loaded = boards[b] /\ \A s \in Askers : IsOpen(asks'[s], b) => s = d
    BY <2>3 DEF DashIInv, OverlapInv
  <2> QED
    BY <2>1, <2>4 DEF OverlapInv, IsOpen
<1>4. ASSUME NEW r \in Askers, SaveBoard(r)
      PROVE  OverlapInv'
  <2>1. PICK q \in ChangeRecords :
          asks' = [asks EXCEPT ![r] = q] /\ q.at \in {"failed", "saved"} /\ UNCHANGED overlapped
    BY <1>4, SaveBoardFacts DEF DashIInv
  <2>2. asks'[r] = q /\ \A s \in Askers : s # r => asks'[s] = asks[s]
    BY <2>1, OtherAskers DEF DashIInv
  <2>3. PICK p \in ChangeRecords : p = asks[r] /\ p.at = "save"
    BY <1>4, SaveBoardFacts DEF DashIInv
  <2>4. p.board \in Boards /\ IsOpen(p, p.board) /\ \A b : ~ IsOpen(q, b)
    BY <2>1, <2>3 DEF ChangeRecords, IsOpen
  <2>5. boards \in [Boards -> BoardRecords] /\ intended \in [Boards -> BoardRecords]
    BY DEF DashIInv, DashTypeInv
  <2> SUFFICES ASSUME NEW b \in Boards \ overlapped
               PROVE  /\ boards'[b] = intended'[b]
                      /\ \A d \in Askers : IsOpen(asks'[d], b) =>
                           asks'[d].loaded = boards'[b] /\ \A s \in Askers : IsOpen(asks'[s], b) => s = d
    BY <2>1 DEF OverlapInv, IsOpen
  <2>6. /\ boards[b] = intended[b]
        /\ \A d \in Askers : IsOpen(asks[d], b) =>
             asks[d].loaded = boards[b] /\ \A s \in Askers : IsOpen(asks[s], b) => s = d
    BY DEF DashIInv, OverlapInv
  <2>7. CASE b # p.board
    <3>1. boards'[b] = boards[b] /\ intended'[b] = intended[b]
      BY <1>4, <2>3, <2>4, <2>5, <2>7, SaveBoardFacts DEF DashIInv
    <3> QED
      BY <2>2, <2>4, <2>6, <3>1
  <2>8. CASE b = p.board
    <3>1. p.loaded = boards[b] /\ \A s \in Askers : IsOpen(asks[s], b) => s = r
      BY <2>3, <2>4, <2>6, <2>8
    <3>2. \A s \in Askers : ~ IsOpen(asks'[s], b)
      BY <2>2, <2>4, <3>1
    <3>3. Merged(r) = Asked(r, intended[b])
      BY <2>3, <2>6, <3>1 DEF Merged, Asked
    <3>4. boards'[b] = intended'[b]
      BY <1>4, <2>3, <2>5, <2>6, <2>8, <3>3, SaveBoardFacts DEF DashIInv
    <3> QED
      BY <3>2, <3>4
  <2> QED
    BY <2>7, <2>8
<1>5. ASSUME NEW r \in Askers, RenderStep(r)
      PROVE  OverlapInv'
  <2>1. PICK q \in RenderRecords :
          asks' = [asks EXCEPT ![r] = q] /\ UNCHANGED <<boards, intended, overlapped>>
    BY <1>5, RenderFacts
  <2>2. asks'[r] = q /\ \A s \in Askers : s # r => asks'[s] = asks[s]
    BY <2>1, OtherAskers DEF DashIInv
  <2>3. \A b : ~ IsOpen(q, b)
    BY DEF RenderRecords, IsOpen, ChangeOps
  <2>4. \A b \in Boards \ overlapped :
          /\ boards[b] = intended[b]
          /\ \A d \in Askers : IsOpen(asks'[d], b) =>
               asks'[d].loaded = boards[b] /\ \A s \in Askers : IsOpen(asks'[s], b) => s = d
    BY <2>2, <2>3 DEF DashIInv, OverlapInv
  <2> QED
    BY <2>1, <2>4 DEF OverlapInv, IsOpen
<1>6. CASE UNCHANGED dashboardVars
  BY <1>6 DEF dashboardVars, DashIInv, OverlapInv, IsOpen
<1> QED
  BY <1>1, <1>2, <1>3, <1>4, <1>5, <1>6 DEF DashboardsNext, RenderStep

\* Renderings stay sound when the one request that moves is, or is none.
LEMMA RenderReplaced ==
  ASSUME DashIInv, [DashboardsNext]_dashboardVars, NEW r \in Askers, NEW q,
         asks' = [asks EXCEPT ![r] = q], q.op = "render" => RenderOK(q)'
  PROVE  RenderInv'
<1> SUFFICES ASSUME NEW s \in Askers, asks'[s].op = "render" PROVE RenderOK(asks[s])'
  BY DEF RenderInv
<1>1. asks'[r] = q /\ \A d \in Askers : d # r => asks'[d] = asks[d]
  BY OtherAskers DEF DashIInv
<1>2. CASE s = r
  BY <1>1, <1>2 DEF RenderOK
<1>3. CASE s # r
  <2>1. PICK p \in RenderRecords : p = asks[s] /\ RenderOK(p)
    BY <1>1, <1>3, AskFacts DEF DashIInv, RenderInv
  <2>2. RenderOK(p)'
    BY <2>1, RenderKept
  <2> QED
    BY <1>1, <1>3, <2>1, <2>2 DEF RenderOK
<1> QED
  BY <1>2, <1>3

\* Renderings stay sound when no request moves.
LEMMA RenderUnchanged ==
  ASSUME DashIInv, [DashboardsNext]_dashboardVars, UNCHANGED asks
  PROVE  RenderInv'
<1> SUFFICES ASSUME NEW s \in Askers, asks[s].op = "render" PROVE RenderOK(asks[s])'
  BY DEF RenderInv
<1>1. PICK p \in RenderRecords : p = asks[s] /\ RenderOK(p)
  BY AskFacts DEF DashIInv, RenderInv
<1>2. RenderOK(p)'
  BY <1>1, RenderKept
<1> QED
  BY <1>1, <1>2 DEF RenderOK

\* Every result of a rendering has its reason.
LEMMA RenderNext ==
  ASSUME DashIInv, [DashboardsNext]_dashboardVars
  PROVE  RenderInv'
<1>1. CASE World
  BY <1>1, RenderUnchanged DEF World
<1>2. ASSUME NEW r \in Askers, BeginChange(r) \/ Check(r) \/ SaveBoard(r)
      PROVE  RenderInv'
  <2>1. PICK q \in ChangeRecords : asks' = [asks EXCEPT ![r] = q]
    BY <1>2, BeginChangeFacts, ChangeCheckFacts, SaveBoardFacts DEF DashIInv
  <2>2. q.op # "render"
    BY DEF ChangeRecords, ChangeOps
  <2> QED
    BY <2>1, <2>2, RenderReplaced
<1>3. ASSUME NEW r \in Askers, RenderStep(r)
      PROVE  RenderInv'
  <2>1. PICK q \in RenderRecords : asks' = [asks EXCEPT ![r] = q] /\ RenderOK(q)
    BY <1>3, RenderFacts
  <2>2. RenderOK(q)'
    BY <2>1, RenderKept
  <2> QED
    BY <2>1, <2>2, RenderReplaced
<1>4. CASE UNCHANGED dashboardVars
  BY <1>4, RenderUnchanged DEF dashboardVars
<1> QED
  BY <1>1, <1>2, <1>3, <1>4 DEF DashboardsNext, RenderStep

\* Initially there are no dashboards, and all tables are there.
LEMMA DashInitIInv == DashboardsInit => DashIInv
<1> SUFFICES ASSUME DashboardsInit PROVE DashIInv
  OBVIOUS
<1>1. NoBoard \in BoardRecords /\ NoBoard.name = "" /\ NoBoard.widgets = <<>> /\ Range(<<>>) = {}
  BY DEF NoBoard, BoardRecords, Range
<1>2. AskIdle.op = "none"
  BY DEF AskIdle
<1>3. log \in Seq(Moments) /\ Len(log) >= 1
  BY DEF DashboardsInit, Moments
<1>4. DashTypeInv
  BY <1>1, <1>3 DEF DashTypeInv, DashboardsInit, Turn
<1>5. BoardInv
  BY <1>1 DEF BoardInv, DashboardsInit
<1>6. ChangeInv /\ RenderInv
  BY <1>2 DEF ChangeInv, RenderInv, DashboardsInit, ChangeOps
<1>7. OverlapInv
  BY <1>2 DEF OverlapInv, IsOpen, DashboardsInit, ChangeOps
<1> QED
  BY <1>4, <1>5, <1>6, <1>7 DEF DashIInv

\* Every step keeps the inductive invariant.
LEMMA DashNextIInv == DashIInv /\ [DashboardsNext]_dashboardVars => DashIInv'
  BY DashTypeNext, BoardNext, ChangeNext, OverlapNext, RenderNext DEF DashIInv

\* The inductive invariant holds in every reachable state.
LEMMA DashAlwaysIInv == DashboardsSpec => []DashIInv
  BY DashInitIInv, DashNextIInv, PTL DEF DashboardsSpec

\* Dashboards have unique names and tables of their own database, and are what
\* their users asked for, field by field, unless two requests about one overlapped
\* (create_dashboard, update_dashboard, delete_dashboard).
THEOREM BoardsAlwaysKept == DashboardsSpec => []BoardsAreKept
<1>1. DashIInv => BoardsAreKept
  <2> SUFFICES ASSUME DashIInv PROVE BoardsAreKept
    OBVIOUS
  <2>1. DashboardsTypeOK
    BY DEF DashIInv, DashTypeInv, BoardInv, BoardRecords, DashboardsTypeOK
  <2>2. WidgetsAreOwn
    BY DEF DashIInv, BoardInv, WidgetsAreOwn
  <2>3. UpdatesKept
    BY DEF DashIInv, OverlapInv, UpdatesKept
  <2> QED
    BY <2>1, <2>2, <2>3 DEF BoardsAreKept
<1> QED
  BY <1>1, DashAlwaysIInv, PTL

\* A widget that shows data held database.read at some moment of its own turn; one
\* that shows an error lacked it, its table, or data that its operation accepts; and a
\* rendering fails as a whole only over a table that is physically gone, an operation
\* that raises another error, or databases out of reach (render_dashboard).
THEOREM RendersAlwaysCurrent == DashboardsSpec => []RendersAreCurrent
<1>1. DashIInv => RendersAreCurrent
  <2> SUFFICES ASSUME DashIInv PROVE RendersAreCurrent
    OBVIOUS
  <2>1. DataWasAllowed
    BY DEF DashIInv, RenderInv, RenderOK, Held, DataWasAllowed
  <2>2. FailuresExplained
    BY DEF DashIInv, RenderInv, RenderOK, Spoiled, Breaks, CurrentWidget, FailuresExplained
  <2> QED
    BY <2>1, <2>2 DEF RendersAreCurrent
<1> QED
  BY <1>1, DashAlwaysIInv, PTL

-----------------------------------------------------------------------------
(***************************************************************************)
(* The tables of a tenant database: the inductive invariant.               *)
(*                                                                         *)
(* A table, column or constraint has an identity (the request that made    *)
(* it) and a name, statements reach it by name and the catalog by          *)
(* identity.  The two agree because a table once catalogued keeps its name *)
(* until both sides have lost it, a column is determined by its identity,  *)
(* and among the keys of one column at most one is in place.               *)
(***************************************************************************)

TableNames == [t \in Ids |-> NameOf(t)]

\* Where the DDL of a request has taken effect and it has not been undone.
InEffect == {"catalog", "compensate", "drifted", "done"}

\* The request has committed its catalog write.
Committed(r) == pc[r] = "done" \/ r \in unsure

\* The tables that are or were in the catalog.
KnownTables == DOMAIN Start \cup {t \in Requests : want[t].op = "create" /\ Committed(t)}

\* The columns a table starts with.
Original(c) ==
  \/ c.table \in Ids /\ c = PkOf(c.table)
  \/ c.table \in DOMAIN Start /\ c.name \in Columns /\ c = PlainColumn(c.table, c.name)

\* The columns that are or were in the catalog.
KnownColumns ==
  {c \in ColumnRows :
     /\ c.table \in KnownTables
     /\ Original(c) \/ \E r \in Requests : want[r].op = "column" /\ Committed(r) /\ c = want[r].column}

Stages == {"idle", "ddl", "sql", "failed", "undone"} \cup InEffect

\* Requests are functions.
ShapeInv ==
  /\ faults \in 0..MaxFaults /\ mix \in Mixes /\ unsure \subseteq Requests
  /\ pc \in [Requests -> Stages] /\ want = [r \in Requests |-> want[r]]
  /\ db = [tabs |-> db.tabs, cols |-> db.cols, keys |-> db.keys, rows |-> db.rows]

\* What a request asks for by where it stands.
WantInv ==
  \A r \in Requests :
    /\ pc[r] = "idle" <=> want[r].op = "none"
    /\ r \in unsure => pc[r] \in {"compensate", "undone", "drifted"}
    /\ pc[r] \in {"ddl", "catalog", "compensate", "undone", "drifted"} =>
         want[r].op \in {"create", "drop", "column", "key"}
    /\ pc[r] = "sql" => want[r].op \in {"insert", "update", "delete", "read"}
    /\ pc[r] \in {"compensate", "undone"} => want[r].op # "drop"
    /\ want[r].op = "create" => want[r].table = r
    /\ want[r].op \notin {"none", "create"} => want[r].table \in KnownTables

\* What it asks for was in the catalog when it was read there.
AskedInv ==
  \A r \in Requests :
    /\ want[r].op = "column" =>
         /\ want[r].column \in ColumnRows
         /\ want[r].column.table = want[r].table /\ want[r].column.name \in Columns
         /\ want[r].column.id = <<r, want[r].column.name>>
    /\ want[r].op = "key" =>
         /\ want[r].column \in KnownColumns /\ want[r].target \in KnownColumns
         /\ want[r].table = want[r].column.table
         /\ want[r].key.col = want[r].column.id /\ want[r].key.refcol = want[r].target.id
         /\ want[r].key.ref \in KnownTables
    /\ want[r].op = "insert" =>
         want[r].seen \subseteq KnownColumns /\ Validated(want[r].data, want[r].seen)

\* A table that was catalogued is in the catalog as long as it exists, and a name
\* belongs to one table on either side.
TablesInv ==
  /\ \A t \in db.tabs :
       t \in DOMAIN Start \/ (t \in Requests /\ want[t].op = "create" /\ pc[t] \in InEffect)
  /\ ctabs \subseteq KnownTables
  /\ \A s, t \in db.tabs : TableNames[s] = TableNames[t] => s = t
  /\ \A s, t \in ctabs : TableNames[s] = TableNames[t] => s = t
  /\ db.tabs \cap KnownTables \subseteq ctabs
  /\ \A r \in Requests : want[r].op = "drop" /\ pc[r] \in InEffect => want[r].table \notin db.tabs

\* The column c is there because request r added it, to the table it had
\* loaded or to one that had taken its name.
Carries(r, c) ==
  /\ want[r].op = "column" /\ pc[r] \in InEffect
  /\ c = [want[r].column EXCEPT !.table = c.table]
  /\ TableNames[c.table] = TableNames[want[r].table]

\* Columns in the catalog are those of its tables.
CatalogColsInv ==
  /\ ccols \subseteq KnownColumns
  /\ \A c \in ccols : c.table \in ctabs
  /\ \A t \in ctabs : PkOf(t) \in ccols
  /\ \A c, o \in ccols : c.table = o.table /\ c.name = o.name => c = o
  /\ \A r \in Requests : want[r].op = "column" /\ Committed(r) /\ want[r].table \in ctabs =>
       want[r].column \in ccols

\* So are columns in the tenant database, and a column about to be catalogued
\* or taken back is there or lost.
TenantColsInv ==
  /\ \A c \in db.cols : c.table \in db.tabs /\ (Original(c) \/ \E r \in Requests : Carries(r, c))
  /\ \A t \in db.tabs : PkOf(t) \in db.cols
  /\ \A c, o \in db.cols : c.table = o.table /\ c.name = o.name => c = o
  /\ \A c \in db.cols : Original(c) /\ c.table \in ctabs => c \in ccols
  /\ \A r \in Requests : want[r].op = "column" /\ pc[r] \in {"catalog", "compensate"}
                         /\ want[r].table \in db.tabs =>
       want[r].column \in db.cols \/ LostToUndo(want[r].column)

\* The constraint in place for the key f of the column c.
Constraint(k, c, f) ==
  /\ k.name = f.col /\ k.table = c.table /\ k.col = c.name /\ k.del = f.del
  /\ TableNames[k.ref] = TableNames[f.ref]
  /\ f.ref \in db.tabs => k.ref = f.ref
Enforced(c, f) == \E k \in db.keys : Constraint(k, c, f)

\* Request r has laid a constraint on the column c and has not ended.
LaysOn(r, c) == want[r].op = "key" /\ want[r].column = c /\ pc[r] \in {"catalog", "compensate"}

\* A constraint was laid by a request, on the table it had loaded or on one
\* that had taken its name.
ConstraintsInv ==
  /\ \A k \in db.keys :
       /\ k.table \in db.tabs /\ k.ref \in db.tabs
       /\ \E r \in Requests : /\ want[r].op = "key" /\ pc[r] \in InEffect
                              /\ k = KeyOn(want[r], k.table, k.ref)
                              /\ TableNames[k.table] = TableNames[want[r].table]
  /\ \A k, o \in db.keys : k.table = o.table /\ k.name = o.name => k = o

\* A key in the catalog was written by a request, and stays as long as its tables.
CatalogKeysInv ==
  /\ \A f \in ckeys : \E r \in Requests : want[r].op = "key" /\ Committed(r) /\ f = want[r].key
  /\ \A f, g \in ckeys : f.col = g.col => f = g
  /\ \A r \in Requests : want[r].op = "key" /\ Committed(r) =>
       \/ want[r].key \in ckeys
       \/ ~({want[r].table, want[r].key.ref, want[r].target.table} \subseteq ctabs)

\* The key f is the one request r has committed without knowing it, or one that was
\* taken back so.
Doubted(r, f) == Disowned(f) \/ (r \in unsure /\ f = want[r].key)

\* The key of a column that exists is enforced, be it catalogued or about to
\* be; and no two are.
EnforcedInv ==
  /\ \A c \in db.cols, r \in Requests : LaysOn(r, c) =>
       /\ Enforced(c, want[r].key)
       /\ \A q \in Requests : LaysOn(q, c) => q = r
       /\ \A f \in ckeys : f.col = c.id => Doubted(r, f)
  /\ \A f \in ckeys : \A c \in db.cols \cap KnownColumns :
       c.id = f.col => Enforced(c, f) \/ Disowned(f)

\* A row was inserted by a request.
RowsInv ==
  \A x \in db.rows : /\ x = [id |-> x.id, table |-> x.table, val |-> x.val]
                     /\ x.id \in Requests => want[x.id].op = "insert"

TablesIInv ==
  /\ ShapeInv /\ WantInv /\ AskedInv /\ TablesInv /\ CatalogColsInv /\ TenantColsInv /\ ColumnsBacked
  /\ ConstraintsInv /\ CatalogKeysInv /\ EnforcedInv /\ RowsInv

-----------------------------------------------------------------------------
\* The columns a table starts with are column rows, each with an identity of its own.
LEMMA StartColumns ==
  /\ \A t \in Ids : /\ PkOf(t) \in ColumnRows /\ Original(PkOf(t)) /\ PkOf(t).id = <<t, Pk>>
                    /\ PkOf(t).table = t /\ PkOf(t).name = Pk /\ PkOf(t).nullable = FALSE
  /\ \A t \in DOMAIN Start, n \in Columns :
       /\ PlainColumn(t, n) \in ColumnRows /\ PlainColumn(t, n).id = <<t, n>>
       /\ PlainColumn(t, n).table = t /\ PlainColumn(t, n).name = n
  /\ \A c : Original(c) => c.table \in Ids /\ c.id = <<c.table, c.name>>
  /\ \A c : Original(c) => c.name = Pk \/ (c.table \in DOMAIN Start /\ c.name \in Columns)
  /\ \A c, o : Original(c) /\ Original(o) /\ c.id = o.id => c = o
<1>1. \A t \in Ids : /\ PkOf(t) \in ColumnRows /\ Original(PkOf(t)) /\ PkOf(t).id = <<t, Pk>>
                     /\ PkOf(t).table = t /\ PkOf(t).name = Pk /\ PkOf(t).nullable = FALSE
  BY TableDataAssumption DEF ColumnRows, PkOf, Ids, Original
<1>2. ASSUME NEW t \in DOMAIN Start, NEW n \in Columns
      PROVE  /\ PlainColumn(t, n) \in ColumnRows /\ PlainColumn(t, n).id = <<t, n>>
             /\ PlainColumn(t, n).table = t /\ PlainColumn(t, n).name = n
  <2>1. t \in Ids
    BY DEF Ids
  <2>2. PICK p \in ColumnRows : p = PkOf(t) /\ p.table = t
    BY <1>1, <2>1
  <2>3. PlainColumn(t, n) = [p EXCEPT !.id = <<t, n>>, !.name = n, !.nullable = TRUE, !.unique = FALSE]
    BY <2>2 DEF PlainColumn
  <2>4. PICK o : o = PlainColumn(t, n)
    OBVIOUS
  <2>5. o \in ColumnRows
    <3>1. <<t, n>> \in Ids \X (Columns \cup {Pk}) /\ n \in Columns \cup {Pk}
      BY <2>1
    <3>2. o = [p EXCEPT !.id = <<t, n>>, !.name = n, !.nullable = TRUE, !.unique = FALSE]
      BY <2>3, <2>4
    <3> QED BY <2>2, <3>1, <3>2 DEF ColumnRows
  <2>6. o.id = <<t, n>> /\ o.table = t /\ o.name = n
    BY <2>2, <2>3, <2>4 DEF ColumnRows
  <2> QED BY <2>4, <2>5, <2>6
<1>3. \A c : Original(c) => c.table \in Ids /\ c.id = <<c.table, c.name>>
  BY <1>1, <1>2 DEF Original, Ids
<1>4. \A c : Original(c) => c.name = Pk \/ (c.table \in DOMAIN Start /\ c.name \in Columns)
  BY <1>1 DEF Original
<1>5. ASSUME NEW c, NEW o, Original(c), Original(o), c.id = o.id
      PROVE  c = o
  <2>1. c.table = o.table /\ c.name = o.name
    BY <1>3, <1>5
  <2>2. ASSUME NEW d, Original(d), d.name = Pk
        PROVE  d = PkOf(d.table)
    BY <2>2, TableDataAssumption DEF Original
  <2>3. ASSUME NEW d, Original(d), d.name # Pk
        PROVE  d = PlainColumn(d.table, d.name)
    BY <2>3, <1>1 DEF Original
  <2> QED BY <1>5, <2>1, <2>2, <2>3
<1> QED BY <1>1, <1>2, <1>3, <1>4, <1>5

\* No column that was catalogued or that a table started with has the identity
\* of a column that is being added.
LEMMA AddedIsNew ==
  ASSUME AskedInv, NEW r \in Requests, want[r].op = "column", ~Committed(r)
  PROVE  /\ \A c : Original(c) => c.id # want[r].column.id
         /\ \A c \in KnownColumns : c.id # want[r].column.id
<1>1. want[r].column.id = <<r, want[r].column.name>> /\ want[r].column.name \in Columns
  BY DEF AskedInv
<1>2. \A c : Original(c) => c.id # want[r].column.id
  BY <1>1, StartColumns, TableDataAssumption
<1>3. ASSUME NEW q \in Requests, want[q].op = "column", want[q].column.id = want[r].column.id
      PROVE  q = r
  BY <1>1, <1>3 DEF AskedInv
<1> QED BY <1>2, <1>3 DEF KnownColumns

\* The identity of a column that was catalogued determines it.
LEMMA SameColumn ==
  ASSUME AskedInv, NEW c \in KnownColumns, NEW o \in KnownColumns, c.id = o.id
  PROVE  c = o
<1>1. \A q \in Requests : want[q].op = "column" =>
        want[q].column.id = <<q, want[q].column.name>> /\ want[q].column.name \in Columns
  BY DEF AskedInv
<1>2. ASSUME NEW d, NEW q \in Requests, Original(d), want[q].op = "column"
      PROVE  d.id # want[q].column.id
  BY <1>1, <1>2, StartColumns, TableDataAssumption
<1>3. CASE Original(c) /\ Original(o)
  BY <1>3, StartColumns
<1>4. CASE ~Original(c) /\ ~Original(o)
  BY <1>1, <1>4 DEF KnownColumns
<1> QED BY <1>2, <1>3, <1>4 DEF KnownColumns

\* Where a request may go without its DDL or catalog rows: what only moves pc.
Moves(r, stage) ==
  /\ want' = want /\ pc' = [pc EXCEPT ![r] = stage]
  /\ unsure' = unsure \/ (/\ unsure' = unsure \cup {r}
                          /\ pc[r] = "catalog" /\ stage \in {"compensate", "drifted"})
  /\ pc[r] \in {"ddl", "sql", "catalog", "compensate"} /\ stage \in Stages \ {"idle", "ddl", "sql"}
  /\ pc[r] = "sql" => stage \in {"done", "failed"}
  /\ stage \in {"compensate", "undone"} => want[r].op # "drop"
  /\ stage = "done" => pc[r] \in {"catalog", "sql"}
  /\ pc[r] = "compensate" => stage \in {"undone", "drifted"}

\* It commits its catalog write, or what it does has none.
Commits(r, stage) == stage = "done" \/ (r \in unsure' /\ r \notin unsure)

\* A request that goes on changes no name, and what was catalogued stays so.
LEMMA MoveFacts ==
  ASSUME ShapeInv, WantInv, AskedInv, NEW r \in Requests, NEW stage, Moves(r, stage)
  PROVE  /\ WantInv' /\ AskedInv' /\ TableNames' = TableNames
         /\ \A q \in Requests : pc'[q] = IF q = r THEN stage ELSE pc[q]
         /\ \A q \in Requests : Committed(q)' <=> Committed(q) \/ (q = r /\ Commits(r, stage))
         /\ KnownTables' = IF Commits(r, stage) /\ want[r].op = "create" THEN KnownTables \cup {r}
                           ELSE KnownTables
         /\ KnownColumns \subseteq KnownColumns'
         /\ ~(Commits(r, stage) /\ want[r].op \in {"create", "column"}) => KnownColumns' = KnownColumns
<1> DEFINE P == \A q \in Requests : pc'[q] = IF q = r THEN stage ELSE pc[q]
<1>1. P
  BY DEF Moves, ShapeInv
<1>2. TableNames' = TableNames
  BY DEF Moves, TableNames, NameOf
<1>c. \A q \in Requests : Committed(q)' <=> Committed(q) \/ (q = r /\ Commits(r, stage))
  <2>1. ASSUME NEW q \in Requests
        PROVE  Committed(q)' <=> Committed(q) \/ (q = r /\ Commits(r, stage))
    <3>1. CASE q # r
      BY <1>1, <3>1 DEF Committed, Moves
    <3>2. CASE q = r
      BY <1>1, <3>2 DEF Committed, Commits, Moves
    <3> QED BY <3>1, <3>2
  <2> QED BY <2>1
<1>3. KnownTables' = IF Commits(r, stage) /\ want[r].op = "create" THEN KnownTables \cup {r} ELSE KnownTables
  BY <1>c DEF Moves, KnownTables
<1>4. KnownColumns \subseteq KnownColumns'
  BY <1>c, <1>3 DEF Moves, KnownColumns
<1>5. ~(Commits(r, stage) /\ want[r].op \in {"create", "column"}) => KnownColumns' = KnownColumns
  BY <1>c, <1>3 DEF Moves, KnownColumns
<1>6. WantInv'
  <2> SUFFICES ASSUME NEW q \in Requests
               PROVE  WantInv!(q)'
    BY DEF WantInv
  <2>1. CASE q # r
    BY <2>1, <1>1, <1>3 DEF Moves, WantInv
  <2>2. CASE q = r
    BY <2>2, <1>1, <1>3 DEF Moves, WantInv, Stages, InEffect
  <2> QED BY <2>1, <2>2
<1>7. AskedInv'
  BY <1>3, <1>4 DEF Moves, AskedInv, Validated
<1> QED BY <1>1, <1>2, <1>c, <1>3, <1>4, <1>5, <1>6, <1>7

-----------------------------------------------------------------------------
\* What a request may ask for: its operation, and that it was read in the catalog.
Asks(r, w, stage) ==
  /\ stage = "ddl" => w.op \in {"create", "drop", "column", "key"}
  /\ stage = "sql" => w.op \in {"insert", "update", "delete", "read"}
  /\ w.op = "create" => w.table = r
  /\ w.op # "create" => w.table \in KnownTables
  /\ w.op = "column" =>
       /\ w.column \in ColumnRows /\ w.column.table = w.table /\ w.column.name \in Columns
       /\ w.column.id = <<r, w.column.name>>
  /\ w.op = "key" =>
       /\ w.column \in KnownColumns /\ w.target \in KnownColumns
       /\ w.table = w.column.table
       /\ w.key.col = w.column.id /\ w.key.refcol = w.target.id /\ w.key.ref \in KnownTables
  /\ w.op = "insert" => w.seen \subseteq KnownColumns /\ Validated(w.data, w.seen)

\* A request that begins changes nothing of another.
LEMMA AskTableFacts ==
  ASSUME ShapeInv, WantInv, NEW r \in Requests, NEW w, NEW stage \in {"ddl", "sql"},
         Ask(r, w, stage)
  PROVE  /\ pc[r] = "idle" /\ want[r].op = "none" /\ r \notin KnownTables
         /\ want'[r] = w /\ pc'[r] = stage
         /\ \A q \in Requests \ {r} : want'[q] = want[q] /\ pc'[q] = pc[q]
         /\ \A t \in Ids \ {r} : TableNames'[t] = TableNames[t]
         /\ KnownTables' = KnownTables /\ KnownColumns' = KnownColumns
         /\ unsure' = unsure /\ r \notin unsure /\ \A q \in Requests : Committed(q)' <=> Committed(q)
         /\ ShapeInv'
<1>1. pc[r] = "idle" /\ want[r].op = "none" /\ r \notin unsure /\ unsure' = unsure
  BY DEF Ask, WantInv
<1>2. want'[r] = w /\ pc'[r] = stage
  BY DEF Ask, Goto, ShapeInv
<1>3. \A q \in Requests \ {r} : want'[q] = want[q] /\ pc'[q] = pc[q]
  BY DEF Ask, Goto, ShapeInv
<1>4. \A t \in Ids \ {r} : TableNames'[t] = TableNames[t]
  BY <1>3 DEF TableNames, NameOf, Ids
<1>5. r \notin KnownTables
  BY <1>1, TableDataAssumption DEF KnownTables
<1>9. /\ \A q \in Requests : Committed(q)' <=> Committed(q)
      /\ ~Committed(r)
  BY <1>1, <1>2, <1>3 DEF Committed
<1>6. KnownTables' = KnownTables
  BY <1>1, <1>2, <1>3, <1>9 DEF KnownTables
<1>7. KnownColumns' = KnownColumns
  <2>1. \A q \in Requests : \A c : (want[q].op = "column" /\ Committed(q) /\ c = want[q].column)'
                            <=> want[q].op = "column" /\ Committed(q) /\ c = want[q].column
    BY <1>1, <1>2, <1>3, <1>9
  <2> QED BY <1>6, <2>1 DEF KnownColumns
<1>8. ShapeInv'
  BY DEF Ask, Goto, ShapeInv, Stages
<1> QED BY <1>1, <1>2, <1>3, <1>4, <1>5, <1>6, <1>7, <1>8, <1>9

\* Beginning preserves the invariant.
LEMMA AskStep ==
  ASSUME TablesIInv, NEW r \in Requests, NEW w, NEW stage \in {"ddl", "sql"},
         Ask(r, w, stage), Asks(r, w, stage)
  PROVE  TablesIInv'
<1> USE DEF TablesIInv
<1>0. /\ pc[r] = "idle" /\ want[r].op = "none" /\ r \notin KnownTables
      /\ want'[r] = w /\ pc'[r] = stage
      /\ \A q \in Requests \ {r} : want'[q] = want[q] /\ pc'[q] = pc[q]
      /\ \A t \in Ids \ {r} : TableNames'[t] = TableNames[t]
      /\ KnownTables' = KnownTables /\ KnownColumns' = KnownColumns
      /\ unsure' = unsure /\ r \notin unsure /\ \A q \in Requests : Committed(q)' <=> Committed(q)
      /\ ~Committed(r)
      /\ ShapeInv'
  BY AskTableFacts DEF Committed
<1>u. db' = db /\ ctabs' = ctabs /\ ccols' = ccols /\ ckeys' = ckeys
  BY DEF Ask, control
<1>1. WantInv'
  BY <1>0 DEF WantInv, Asks
<1>2. AskedInv'
  BY <1>0 DEF AskedInv, Asks, Validated
<1>t. db.tabs \subseteq Ids \ {r} /\ ctabs \subseteq Ids \ {r} /\ KnownTables \subseteq Ids \ {r}
  BY <1>0, TableDataAssumption DEF TablesInv, Ids, KnownTables, InEffect
<1>n. \A q \in Requests : want[q].op \notin {"none", "create"} => want[q].table \in Ids \ {r}
  BY <1>t DEF WantInv
<1>3. TablesInv'
  <2>1. \A t \in db.tabs :
          t \in DOMAIN Start \/ (t \in Requests /\ want'[t].op = "create" /\ pc'[t] \in InEffect)
    BY <1>0, <1>t DEF TablesInv
  <2>2. /\ \A s, t \in db.tabs : TableNames'[s] = TableNames'[t] => s = t
        /\ \A s, t \in ctabs : TableNames'[s] = TableNames'[t] => s = t
    BY <1>0, <1>t DEF TablesInv
  <2>3. \A q \in Requests : want'[q].op = "drop" /\ pc'[q] \in InEffect => want'[q].table \notin db.tabs
    BY <1>0 DEF TablesInv, InEffect
  <2> QED BY <1>0, <1>u, <2>1, <2>2, <2>3 DEF TablesInv
<1>4. CatalogColsInv'
  BY <1>0, <1>u DEF CatalogColsInv
<1>5. TenantColsInv' /\ ColumnsBacked'
  <2>1. ASSUME NEW q \in Requests, NEW c, c.table \in db.tabs, Carries(q, c)
        PROVE  Carries(q, c)'
    <3>1. q # r
      BY <1>0, <2>1 DEF Carries
    <3> QED BY <1>0, <1>n, <1>t, <2>1, <3>1 DEF Carries
  <2>2. ASSUME NEW c, c.table \in Ids \ {r}, LostToUndo(c)
        PROVE  LostToUndo(c)'
    <3>1. PICK q \in Requests : /\ want[q].op = "column" /\ pc[q] = "undone"
                                /\ want[q].column.name = c.name /\ NameOf(want[q].table) = NameOf(c.table)
                                /\ want[q].table # c.table \/ (q \in unsure /\ want[q].column = c)
      BY <2>2 DEF LostToUndo
    <3>2. q # r /\ want[q].table \in Ids \ {r}
      BY <1>0, <1>n, <3>1
    <3>3. NameOf(want[q].table)' = NameOf(want[q].table) /\ NameOf(c.table)' = NameOf(c.table)
      BY <1>0, <2>2, <3>2 DEF NameOf, Ids
    <3> QED BY <1>0, <3>1, <3>2, <3>3 DEF LostToUndo, NameOf
  <2>3. ASSUME NEW q \in Requests, (want[q].op = "column" /\ pc[q] \in {"catalog", "compensate"}
                                     /\ want[q].table \in db.tabs)'
        PROVE  (want[q].column \in db.cols \/ LostToUndo(want[q].column))'
    <3>1. q # r /\ want'[q] = want[q] /\ pc'[q] = pc[q]
      BY <1>0, <2>3
    <3>2. want[q].column.table = want[q].table
      BY <2>3, <3>1 DEF AskedInv
    <3>3. want[q].column \in db.cols \/ LostToUndo(want[q].column)
      BY <1>u, <2>3, <3>1 DEF TenantColsInv
    <3>4. PICK c : c = want[q].column
      OBVIOUS
    <3>5. c \in db.cols \/ LostToUndo(c)'
      BY <1>t, <1>u, <2>2, <2>3, <3>1, <3>2, <3>3, <3>4
    <3>6. c = want'[q].column
      BY <3>1, <3>4
    <3> QED BY <1>u, <3>5, <3>6 DEF LostToUndo
  <2>4. \A c \in db.cols : c.table \in db.tabs /\ (Original(c) \/ \E q \in Requests : Carries(q, c)')
    BY <2>1 DEF TenantColsInv
  <2>5. TenantColsInv'
    BY <1>u, <2>3, <2>4 DEF TenantColsInv, LostToUndo
  <2>6. ColumnsBacked'
    <3>1. \A c \in ccols : c.table \in db.tabs => c \in db.cols \/ LostToUndo(c)'
      BY <1>t, <2>2 DEF ColumnsBacked
    <3> QED BY <1>u, <3>1 DEF ColumnsBacked
  <2> QED BY <2>5, <2>6
<1>6. ConstraintsInv'
  <2>1. ASSUME NEW k \in db.keys
        PROVE  /\ k.table \in db.tabs /\ k.ref \in db.tabs
               /\ \E q \in Requests : /\ want'[q].op = "key" /\ pc'[q] \in InEffect
                                      /\ k = KeyOn(want'[q], k.table, k.ref)
                                      /\ TableNames'[k.table] = TableNames'[want'[q].table]
    <3>1. PICK q \in Requests : /\ want[q].op = "key" /\ pc[q] \in InEffect
                                /\ k = KeyOn(want[q], k.table, k.ref)
                                /\ TableNames[k.table] = TableNames[want[q].table]
      BY DEF ConstraintsInv
    <3> QED BY <1>0, <1>n, <1>t, <3>1 DEF ConstraintsInv
  <2> QED BY <1>u, <2>1 DEF ConstraintsInv
<1>7. CatalogKeysInv'
  BY <1>0, <1>u DEF CatalogKeysInv
<1>8. EnforcedInv'
  <2>1. ASSUME NEW c, NEW f, f.ref \in KnownTables, Enforced(c, f)
        PROVE  Enforced(c, f)'
    <3>1. PICK k \in db.keys : Constraint(k, c, f)
      BY <2>1 DEF Enforced
    <3>2. k.ref \in Ids \ {r} /\ f.ref \in Ids \ {r}
      BY <1>t, <2>1 DEF ConstraintsInv
    <3>3. Constraint(k, c, f)'
      BY <1>0, <1>u, <3>1, <3>2 DEF Constraint
    <3> QED BY <1>u, <3>3 DEF Enforced
  <2>2. \A q \in Requests : want[q].op = "key" => want[q].key.ref \in KnownTables
    BY DEF AskedInv
  <2>3. \A f \in ckeys : f.ref \in KnownTables
    BY <2>2 DEF CatalogKeysInv
  <2>4. \A q \in Requests : \A c : LaysOn(q, c)' <=> LaysOn(q, c)
    BY <1>0 DEF LaysOn
  <2>5. \A q \in Requests : \A c : LaysOn(q, c) => want'[q].key = want[q].key /\ want[q].op = "key"
    BY <1>0 DEF LaysOn
  <2>6. ASSUME NEW f, Disowned(f)
        PROVE  Disowned(f)'
    <3>1. PICK q \in unsure : want[q].op = "key" /\ pc[q] = "undone" /\ want[q].key = f
      BY <2>6 DEF Disowned
    <3>2. q \in Requests \ {r} /\ q \in unsure'
      BY <1>0, <3>1 DEF ShapeInv
    <3> QED BY <1>0, <3>1, <3>2 DEF Disowned
  <2>7. \A q \in Requests : \A c, f : LaysOn(q, c) /\ Doubted(q, f) => Doubted(q, f)'
    BY <1>0, <2>5, <2>6 DEF Doubted
  <2>8. ASSUME NEW c \in db.cols, NEW q \in Requests, LaysOn(q, c)'
        PROVE  /\ Enforced(c, want[q].key)'
               /\ \A s \in Requests : LaysOn(s, c)' => s = q
               /\ \A f \in ckeys : f.col = c.id => Doubted(q, f)'
    <3>1. PICK g : g = want[q].key
      OBVIOUS
    <3>2. LaysOn(q, c) /\ Enforced(c, g) /\ g.ref \in KnownTables /\ g = want'[q].key
      BY <2>2, <2>4, <2>5, <2>8, <3>1 DEF EnforcedInv
    <3>3. Enforced(c, g)'
      BY <2>1, <3>2
    <3>4. Enforced(c, want[q].key)'
      BY <3>2, <3>3 DEF Enforced, Constraint
    <3> QED BY <2>4, <2>7, <3>2, <3>4 DEF EnforcedInv
  <2>9. \A f \in ckeys : \A c \in db.cols \cap KnownColumns : c.id = f.col => Enforced(c, f)' \/ Disowned(f)'
    BY <2>1, <2>3, <2>6 DEF EnforcedInv
  <2> QED BY <1>0, <1>u, <2>8, <2>9 DEF EnforcedInv, Enforced, Constraint
<1>9. RowsInv'
  <2>1. ASSUME NEW x \in db.rows, x.id \in Requests
        PROVE  want'[x.id].op = "insert"
    BY <1>0, <2>1 DEF RowsInv
  <2>2. \A x \in db.rows : x = [id |-> x.id, table |-> x.table, val |-> x.val]
    BY DEF RowsInv
  <2> QED BY <1>u, <2>1, <2>2 DEF RowsInv
<1> QED BY <1>0, <1>1, <1>2, <1>3, <1>4, <1>5, <1>6, <1>7, <1>8, <1>9

-----------------------------------------------------------------------------
(***************************************************************************)
(* What a step of one request keeps because it does not touch it.          *)
(***************************************************************************)

\* A column that was lost stays lost, and one that was added stays so unless the
\* request takes it back.
LEMMA LostStays ==
  ASSUME ShapeInv, WantInv, AskedInv, NEW r \in Requests, NEW stage, Moves(r, stage)
  PROVE  /\ \A c : LostToUndo(c) => LostToUndo(c)'
         /\ \A q \in Requests : \A c : Carries(q, c) /\ (q = r => stage \in InEffect) => Carries(q, c)'
         /\ \A f : Disowned(f) => Disowned(f)'
<1>1. TableNames' = TableNames /\ \A q \in Requests : pc'[q] = IF q = r THEN stage ELSE pc[q]
  BY MoveFacts DEF Moves
<1>2. want' = want /\ pc[r] # "undone"
  BY DEF Moves
<1>3. ASSUME NEW c, LostToUndo(c)
      PROVE  LostToUndo(c)'
  <2>1. PICK q \in Requests : /\ want[q].op = "column" /\ pc[q] = "undone"
                              /\ want[q].column.name = c.name /\ NameOf(want[q].table) = NameOf(c.table)
                              /\ want[q].table # c.table \/ (q \in unsure /\ want[q].column = c)
    BY <1>3 DEF LostToUndo
  <2>2. pc'[q] = "undone" /\ unsure \subseteq unsure'
    BY <1>1, <1>2, <2>1 DEF Moves
  <2> QED BY <1>2, <2>1, <2>2 DEF LostToUndo, NameOf
<1>4. ASSUME NEW f, Disowned(f)
      PROVE  Disowned(f)'
  <2>1. PICK q \in unsure : want[q].op = "key" /\ pc[q] = "undone" /\ want[q].key = f
    BY <1>4 DEF Disowned
  <2>2. pc'[q] = "undone" /\ q \in unsure'
    BY <1>1, <1>2, <2>1 DEF Moves, ShapeInv
  <2> QED BY <1>2, <2>1, <2>2 DEF Disowned
<1> QED BY <1>1, <1>2, <1>3, <1>4 DEF Carries

\* Only create and delete touch the tables.
LEMMA KeepTables ==
  ASSUME TablesIInv, NEW r \in Requests, NEW stage, Moves(r, stage),
         db'.tabs = db.tabs, ctabs' = ctabs,
         want[r].op = "create" => (pc[r] \in InEffect => stage \in InEffect) /\ ~Commits(r, stage),
         want[r].op = "drop" => (stage \in InEffect => pc[r] \in InEffect)
  PROVE  TablesInv'
<1> USE DEF TablesIInv
<1>1. /\ TableNames' = TableNames /\ \A q \in Requests : pc'[q] = IF q = r THEN stage ELSE pc[q]
      /\ KnownTables' = KnownTables /\ want' = want
  BY MoveFacts DEF Moves
<1>2. \A t \in db.tabs :
        t \in DOMAIN Start \/ (t \in Requests /\ want[t].op = "create" /\ pc'[t] \in InEffect)
  BY <1>1 DEF TablesInv
<1>3. \A q \in Requests : want[q].op = "drop" /\ pc'[q] \in InEffect => want[q].table \notin db.tabs
  BY <1>1 DEF TablesInv
<1> QED BY <1>1, <1>2, <1>3 DEF TablesInv

\* Only a catalog write touches the catalog.
LEMMA KeepCatalog ==
  ASSUME TablesIInv, NEW r \in Requests, NEW stage, Moves(r, stage), UNCHANGED control,
         Commits(r, stage) => want[r].op \notin {"create", "column", "key"}
  PROVE  CatalogColsInv' /\ CatalogKeysInv'
<1> USE DEF TablesIInv
<1>1. /\ \A q \in Requests : pc'[q] = IF q = r THEN stage ELSE pc[q]
      /\ KnownColumns' = KnownColumns /\ want' = want
      /\ ctabs' = ctabs /\ ccols' = ccols /\ ckeys' = ckeys
  BY MoveFacts DEF Moves, control
<1>2. \A q \in Requests : want[q].op \in {"column", "key"} => (Committed(q)' <=> Committed(q))
  BY MoveFacts DEF Moves
<1>3. CatalogColsInv'
  BY <1>1, <1>2 DEF CatalogColsInv
<1>4. CatalogKeysInv'
  <2>1. \A f \in ckeys : \E q \in Requests : want[q].op = "key" /\ Committed(q)' /\ f = want[q].key
    BY <1>2 DEF CatalogKeysInv
  <2>2. \A q \in Requests : want[q].op = "key" /\ Committed(q)' =>
          \/ want[q].key \in ckeys
          \/ ~({want[q].table, want[q].key.ref, want[q].target.table} \subseteq ctabs)
    BY <1>2 DEF CatalogKeysInv
  <2> QED BY <1>1, <2>1, <2>2 DEF CatalogKeysInv
<1> QED BY <1>3, <1>4

\* The columns of the tables, when the step touches neither side.
LEMMA KeepColumns ==
  ASSUME TablesIInv, NEW r \in Requests, NEW stage, Moves(r, stage),
         db'.tabs = db.tabs, db'.cols = db.cols, ctabs' = ctabs, ccols' = ccols,
         want[r].op = "column" => \/ pc[r] \in {"catalog", "compensate"} /\ stage \in InEffect
                                  \/ pc[r] = "ddl" /\ stage = "failed"
  PROVE  TenantColsInv' /\ ColumnsBacked'
<1> USE DEF TablesIInv
<1>0. \A c : LostToUndo(c) => LostToUndo(c)'
  BY LostStays
<1>w. want' = want /\ \A q \in Requests : pc'[q] = IF q = r THEN stage ELSE pc[q]
  BY MoveFacts DEF Moves
<1>1. /\ \A q \in Requests : pc'[q] = IF q = r THEN stage ELSE pc[q]
      /\ want' = want /\ \A c : LostToUndo(c) => LostToUndo(c)'
  BY <1>0, <1>w
<1>2. ASSUME NEW c, NEW q \in Requests, Carries(q, c)
      PROVE  Carries(q, c)'
  BY <1>2, LostStays DEF Carries, InEffect
<1>3. \A c \in db.cols : c.table \in db.tabs /\ (Original(c) \/ \E q \in Requests : Carries(q, c)')
  BY <1>2 DEF TenantColsInv
<1>4. ASSUME NEW q \in Requests, (want[q].op = "column" /\ pc[q] \in {"catalog", "compensate"}
                                  /\ want[q].table \in db.tabs)'
      PROVE  (want[q].column \in db.cols \/ LostToUndo(want[q].column))'
  <2>1. want[q].op = "column" /\ pc[q] \in {"catalog", "compensate"} /\ want[q].table \in db.tabs
    BY <1>1, <1>4 DEF InEffect
  <2>2. PICK c : c = want[q].column
    OBVIOUS
  <2>3. c \in db.cols \/ LostToUndo(c)'
    BY <1>1, <2>1, <2>2 DEF TenantColsInv
  <2>4. c = want'[q].column
    BY <1>1, <2>2
  <2> QED BY <2>3, <2>4 DEF LostToUndo
<1>5. TenantColsInv'
  BY <1>3, <1>4 DEF TenantColsInv, LostToUndo
<1>6. ColumnsBacked'
  <2>1. \A c \in ccols : c.table \in db.tabs => c \in db.cols \/ LostToUndo(c)'
    BY <1>1 DEF ColumnsBacked
  <2> QED BY <2>1 DEF ColumnsBacked
<1> QED BY <1>5, <1>6

\* The constraints, when the step leaves them and the tables.
LEMMA KeepConstraints ==
  ASSUME TablesIInv, NEW r \in Requests, NEW stage, Moves(r, stage),
         db'.tabs = db.tabs, db'.keys = db.keys,
         want[r].op = "key" => (pc[r] \in InEffect => stage \in InEffect)
  PROVE  ConstraintsInv'
<1> USE DEF TablesIInv
<1>1. /\ \A q \in Requests : pc'[q] = IF q = r THEN stage ELSE pc[q]
      /\ want' = want /\ TableNames' = TableNames
  BY MoveFacts DEF Moves
<1>2. \A q \in Requests : want[q].op = "key" /\ pc[q] \in InEffect => pc'[q] \in InEffect
  BY <1>1
<1>3. \A k \in db.keys :
        /\ k.table \in db.tabs /\ k.ref \in db.tabs
        /\ \E q \in Requests : /\ want[q].op = "key" /\ pc'[q] \in InEffect
                               /\ k = KeyOn(want[q], k.table, k.ref)
                               /\ TableNames[k.table] = TableNames[want[q].table]
  BY <1>2 DEF ConstraintsInv
<1>4. \A k, o \in db.keys : k.table = o.table /\ k.name = o.name => k = o
  BY DEF ConstraintsInv
<1> QED BY <1>1, <1>3, <1>4 DEF ConstraintsInv

\* And whether they are enforced, when it leaves the columns and the catalog as well.
LEMMA KeepEnforced ==
  ASSUME TablesIInv, NEW r \in Requests, NEW stage, Moves(r, stage),
         db'.tabs = db.tabs, db'.cols = db.cols, db'.keys = db.keys, ckeys' = ckeys,
         Commits(r, stage) => want[r].op \notin {"create", "column"},
         want[r].op = "key" => pc[r] \in {"catalog", "compensate"}
                               \/ stage \notin {"catalog", "compensate"}
  PROVE  EnforcedInv'
<1> USE DEF TablesIInv
<1>1. /\ \A q \in Requests : pc'[q] = IF q = r THEN stage ELSE pc[q]
      /\ want' = want /\ TableNames' = TableNames /\ KnownColumns' = KnownColumns
  <2>1. want' = want
    BY DEF Moves
  <2>2. TableNames' = TableNames /\ \A q \in Requests : pc'[q] = IF q = r THEN stage ELSE pc[q]
    BY MoveFacts
  <2>3. KnownColumns' = KnownColumns
    BY MoveFacts
  <2> QED BY <2>1, <2>2, <2>3
<1>2. (\A c, f : Enforced(c, f) => Enforced(c, f)') /\ (\A f : Disowned(f) => Disowned(f)')
  BY <1>1, LostStays DEF Enforced, Constraint
<1>3. \A q \in Requests : \A c : LaysOn(q, c)' => LaysOn(q, c)
  BY <1>1 DEF LaysOn
<1>4. \A q \in Requests : \A f : Doubted(q, f) => Doubted(q, f)'
  BY <1>1, <1>2 DEF Doubted, Moves
<1>5. ASSUME NEW c \in db.cols, NEW q \in Requests, LaysOn(q, c)'
      PROVE  /\ Enforced(c, want[q].key)'
             /\ \A p \in Requests : LaysOn(p, c)' => p = q
             /\ \A f \in ckeys : f.col = c.id => Doubted(q, f)'
  <2>1. PICK g : g = want[q].key
    OBVIOUS
  <2>2. LaysOn(q, c)
    BY <1>3, <1>5
  <2>3. Enforced(c, g) /\ \A f \in ckeys : f.col = c.id => Doubted(q, f)
    BY <2>1, <2>2 DEF EnforcedInv
  <2>4. Enforced(c, g)' /\ g = want'[q].key
    BY <1>1, <1>2, <2>1, <2>3
  <2>5. Enforced(c, want[q].key)'
    BY <2>4 DEF Enforced, Constraint
  <2>6. \A p \in Requests : LaysOn(p, c)' => p = q
    BY <1>3, <2>2 DEF EnforcedInv
  <2> QED BY <1>4, <2>3, <2>5, <2>6
<1>6. \A f \in ckeys : \A c \in db.cols \cap KnownColumns : c.id = f.col => Enforced(c, f)' \/ Disowned(f)'
  BY <1>2 DEF EnforcedInv
<1> QED BY <1>1, <1>5, <1>6 DEF EnforcedInv, Enforced, Constraint

\* The rows, when each keeps its identity and its table.
LEMMA KeepRows ==
  ASSUME TablesIInv, NEW r \in Requests, NEW stage, Moves(r, stage),
         \A x \in db'.rows : /\ x = [id |-> x.id, table |-> x.table, val |-> x.val]
                             /\ \E y \in db.rows : y.id = x.id /\ y.table = x.table
  PROVE  RowsInv'
<1> USE DEF TablesIInv
<1>1. want' = want
  BY DEF Moves
<1>2. ASSUME NEW x \in db'.rows, x.id \in Requests
      PROVE  want[x.id].op = "insert"
  BY <1>2 DEF RowsInv
<1> QED BY <1>1, <1>2 DEF RowsInv

\* Ending or failing without touching either side preserves the invariant.
LEMMA GiveUpStep ==
  ASSUME TablesIInv, NEW r \in Requests, NEW stage, Moves(r, stage), UNCHANGED <<db, control, mix>>,
         unsure' = unsure, faults' \in 0..MaxFaults,
         \/ pc[r] \in {"ddl", "sql"} /\ stage = "failed"
         \/ pc[r] \in {"catalog", "compensate"} /\ stage \in {"compensate", "drifted"}
  PROVE  TablesIInv'
<1>0. /\ db' = db /\ ctabs' = ctabs /\ ccols' = ccols /\ ckeys' = ckeys /\ mix' = mix
      /\ db'.tabs = db.tabs /\ db'.cols = db.cols /\ db'.keys = db.keys /\ db'.rows = db.rows
      /\ UNCHANGED control
  BY DEF control
<1>1. ShapeInv'
  BY DEF TablesIInv, ShapeInv, Moves
<1>2. WantInv' /\ AskedInv'
  BY MoveFacts DEF TablesIInv, Moves
<1>3. TablesInv' /\ CatalogColsInv' /\ CatalogKeysInv'
  <2>1. ~Commits(r, stage) /\ (pc[r] \in InEffect => stage \in InEffect) /\ (stage \in InEffect => pc[r] \in InEffect)
    BY DEF InEffect, Commits
  <2> QED BY <1>0, <2>1, KeepTables, KeepCatalog
<1>4. TenantColsInv' /\ ColumnsBacked' /\ ConstraintsInv' /\ EnforcedInv'
  <2>1. \/ pc[r] \in {"catalog", "compensate"} /\ stage \in InEffect \ {"done"}
        \/ pc[r] \in {"ddl", "sql"} /\ stage = "failed"
    BY DEF InEffect
  <2>2. want[r].op = "column" => \/ pc[r] \in {"catalog", "compensate"} /\ stage \in InEffect
                                 \/ pc[r] = "ddl" /\ stage = "failed"
    BY <2>1 DEF TablesIInv, WantInv
  <2>3. TenantColsInv' /\ ColumnsBacked'
    BY <1>0, <2>2, KeepColumns
  <2>4. ConstraintsInv'
    BY <1>0, <2>1, KeepConstraints DEF InEffect
  <2>5. EnforcedInv'
    BY <1>0, <2>1, KeepEnforced DEF InEffect, Commits
  <2> QED BY <2>3, <2>4, <2>5
<1>5. \A x \in db.rows : x = [id |-> x.id, table |-> x.table, val |-> x.val]
  BY DEF TablesIInv, RowsInv
<1>6. RowsInv'
  BY <1>0, <1>5, KeepRows
<1> QED BY <1>1, <1>2, <1>3, <1>4, <1>6 DEF TablesIInv

-----------------------------------------------------------------------------
(***************************************************************************)
(* DDL on tables.                                                          *)
(***************************************************************************)

\* A statement reaches a table that bears the name of the one it is meant for, and
\* that one if it exists.
LEMMA NamedTable ==
  ASSUME TablesInv, NEW t \in Ids, NEW p \in Named(t)
  PROVE  /\ p \in db.tabs /\ p \in Ids /\ db.tabs \subseteq Ids /\ TableNames[p] = TableNames[t]
         /\ \A s \in db.tabs : TableNames[s] = TableNames[t] => s = p
         /\ t \in db.tabs => t = p
<1>1. p \in db.tabs /\ p \in Ids /\ db.tabs \subseteq Ids /\ NameOf(p) = NameOf(t)
  BY DEF Named, TablesInv, Ids
<1>2. TableNames[p] = TableNames[t]
  BY <1>1 DEF TableNames
<1> QED BY <1>1, <1>2 DEF TablesInv

\* What a statement of DDL leaves alone.
LEMMA StatementFacts ==
  ASSUME TablesIInv, NEW r \in Requests, NEW stage \in {"catalog", "undone"}, Moves(r, stage),
         UNCHANGED control
  PROVE  /\ TableNames' = TableNames /\ \A q \in Requests : pc'[q] = IF q = r THEN stage ELSE pc[q]
         /\ want' = want /\ KnownTables' = KnownTables /\ KnownColumns' = KnownColumns
         /\ ctabs' = ctabs /\ ccols' = ccols /\ ckeys' = ckeys
         /\ \A c : LostToUndo(c) => LostToUndo(c)'
         /\ \A f : Disowned(f) => Disowned(f)'
         /\ \A q, f : Doubted(q, f) => Doubted(q, f)'
         /\ unsure' = unsure
<1>1. /\ TableNames' = TableNames /\ \A q \in Requests : pc'[q] = IF q = r THEN stage ELSE pc[q]
      /\ KnownTables' = KnownTables /\ KnownColumns' = KnownColumns
  <2>1. ~Commits(r, stage)
    BY DEF Moves, Commits
  <2>2. ShapeInv /\ WantInv /\ AskedInv
    BY DEF TablesIInv
  <2> QED BY <2>1, <2>2, MoveFacts
<1>2. (\A c : LostToUndo(c) => LostToUndo(c)') /\ (\A f : Disowned(f) => Disowned(f)')
  BY LostStays DEF TablesIInv
<1>3. \A q, f : Doubted(q, f) => Doubted(q, f)'
  BY <1>2 DEF Doubted, Moves
<1> QED BY <1>1, <1>2, <1>3 DEF Moves, control

\* CREATE TABLE.
LEMMA CreateStep ==
  ASSUME TablesIInv, NEW r \in Requests, Moves(r, "catalog"), UNCHANGED control,
         want[r].op = "create", pc[r] = "ddl", db' \in AddTable(r)
  PROVE  /\ db' = [tabs |-> db'.tabs, cols |-> db'.cols, keys |-> db'.keys, rows |-> db'.rows]
         /\ TablesInv' /\ TenantColsInv' /\ ColumnsBacked'
         /\ ConstraintsInv' /\ EnforcedInv' /\ RowsInv'
<1> USE DEF TablesIInv
<1>1. /\ TableNames' = TableNames /\ \A q \in Requests : pc'[q] = IF q = r THEN "catalog" ELSE pc[q]
      /\ want' = want /\ KnownTables' = KnownTables /\ KnownColumns' = KnownColumns
      /\ ctabs' = ctabs /\ ccols' = ccols /\ ckeys' = ckeys
      /\ unsure' = unsure /\ \A f : Disowned(f) => Disowned(f)'
      /\ \A q, f : Doubted(q, f) => Doubted(q, f)'
      /\ \A c : LostToUndo(c) => LostToUndo(c)'
  BY StatementFacts
<1>2. /\ db' = [db EXCEPT !.tabs = @ \cup {r}, !.cols = @ \cup {PkOf(r)}]
      /\ Named(r) = {}
  BY DEF AddTable
<1>3. /\ db'.tabs = db.tabs \cup {r} /\ db'.cols = db.cols \cup {PkOf(r)}
      /\ db'.keys = db.keys /\ db'.rows = db.rows
      /\ db' = [tabs |-> db'.tabs, cols |-> db'.cols, keys |-> db'.keys, rows |-> db'.rows]
  BY <1>2 DEF ShapeInv
<1>4. r \in Ids /\ r \notin KnownTables /\ r \notin DOMAIN Start
  BY TableDataAssumption DEF Ids, KnownTables, Committed, WantInv
<1>5. db.tabs \subseteq Ids /\ \A s \in db.tabs : TableNames[s] # TableNames[r]
  <2>1. db.tabs \subseteq Ids
    BY DEF TablesInv, Ids
  <2> QED BY <1>2, <1>4, <2>1 DEF Named, TableNames
<1>6. r \notin db.tabs
  BY <1>5
<1>7. \A q \in Requests : want[q].op \notin {"none", "create"} => want[q].table # r
  BY <1>4 DEF WantInv
<1>p. /\ Original(PkOf(r)) /\ PkOf(r).table = r /\ PkOf(r).name = Pk /\ PkOf(r).id = <<r, Pk>>
  BY <1>4, StartColumns
<1>8. TablesInv'
  <2>1. \A t \in db'.tabs :
          t \in DOMAIN Start \/ (t \in Requests /\ want[t].op = "create" /\ pc'[t] \in InEffect)
    BY <1>1, <1>3 DEF TablesInv, InEffect
  <2>2. \A s, t \in db'.tabs : TableNames[s] = TableNames[t] => s = t
    BY <1>3, <1>5 DEF TablesInv
  <2>3. db'.tabs \cap KnownTables \subseteq ctabs
    BY <1>3, <1>4 DEF TablesInv
  <2>4. \A q \in Requests : want[q].op = "drop" /\ pc'[q] \in InEffect => want[q].table \notin db'.tabs
    BY <1>1, <1>3, <1>7 DEF TablesInv
  <2>5. ctabs \subseteq KnownTables /\ \A s, t \in ctabs : TableNames[s] = TableNames[t] => s = t
    BY DEF TablesInv
  <2> QED BY <1>1, <2>1, <2>2, <2>3, <2>4, <2>5 DEF TablesInv
<1>9. TenantColsInv' /\ ColumnsBacked'
  <2>1. ASSUME NEW c \in db'.cols
        PROVE  c.table \in db'.tabs /\ (Original(c) \/ \E q \in Requests : Carries(q, c)')
    <3>1. CASE c \in db.cols
      BY <1>3, <3>1, LostStays DEF TenantColsInv, InEffect
    <3> QED BY <1>3, <1>p, <3>1
  <2>2. \A t \in db'.tabs : PkOf(t) \in db'.cols
    BY <1>3 DEF TenantColsInv
  <2>3. \A c \in db.cols : c.table # r
    BY <1>6 DEF TenantColsInv
  <2>4. \A c, o \in db'.cols : c.table = o.table /\ c.name = o.name => c = o
    BY <1>3, <1>p, <2>3 DEF TenantColsInv
  <2>5. \A c \in db'.cols : Original(c) /\ c.table \in ctabs => c \in ccols
    BY <1>3, <1>4, <1>p DEF TenantColsInv, TablesInv
  <2>6. ASSUME NEW q \in Requests, (want[q].op = "column" /\ pc[q] \in {"catalog", "compensate"}
                                    /\ want[q].table \in db.tabs)'
        PROVE  (want[q].column \in db.cols \/ LostToUndo(want[q].column))'
    <3>1. want[q].op = "column" /\ pc[q] \in {"catalog", "compensate"} /\ want[q].table \in db.tabs
      BY <1>1, <1>3, <1>7, <2>6
    <3>2. PICK c : c = want[q].column
      OBVIOUS
    <3>3. c \in db'.cols \/ LostToUndo(c)'
      BY <1>1, <1>3, <3>1, <3>2 DEF TenantColsInv
    <3>4. c = want'[q].column
      BY <1>1, <3>2
    <3> QED BY <3>3, <3>4 DEF LostToUndo
  <2>7. TenantColsInv'
    BY <1>1, <2>1, <2>2, <2>4, <2>5, <2>6 DEF TenantColsInv, LostToUndo
  <2>8. ColumnsBacked'
    <3>1. \A c \in ccols : c.table \in db'.tabs => c \in db'.cols \/ LostToUndo(c)'
      BY <1>1, <1>3, <1>4 DEF ColumnsBacked, CatalogColsInv, TablesInv
    <3> QED BY <1>1, <3>1 DEF ColumnsBacked
  <2> QED BY <2>7, <2>8
<1>10. ConstraintsInv'
  <2>1. \A q \in Requests : want[q].op = "key" => pc'[q] = pc[q]
    BY <1>1
  <2>2. \A k \in db.keys :
          /\ k.table \in db'.tabs /\ k.ref \in db'.tabs
          /\ \E q \in Requests : /\ want[q].op = "key" /\ pc'[q] \in InEffect
                                 /\ k = KeyOn(want[q], k.table, k.ref)
                                 /\ TableNames[k.table] = TableNames[want[q].table]
    BY <1>3, <2>1 DEF ConstraintsInv
  <2>3. \A k, o \in db.keys : k.table = o.table /\ k.name = o.name => k = o
    BY DEF ConstraintsInv
  <2> QED BY <1>1, <1>3, <2>2, <2>3 DEF ConstraintsInv
<1>11. EnforcedInv'
  <2>1. ASSUME NEW c, NEW f, f.ref \in KnownTables, Enforced(c, f)
        PROVE  Enforced(c, f)'
    BY <1>1, <1>3, <1>4, <2>1 DEF Enforced, Constraint
  <2>2. \A q \in Requests : want[q].op = "key" => want[q].key.ref \in KnownTables
    BY DEF AskedInv
  <2>3. \A f \in ckeys : f.ref \in KnownTables
    BY <2>2 DEF CatalogKeysInv
  <2>4. \A q \in Requests : \A c : LaysOn(q, c)' <=> LaysOn(q, c)
    BY <1>1 DEF LaysOn
  <2>5. PkOf(r) \notin KnownColumns
    BY <1>4, <1>p DEF KnownColumns
  <2>6. \A q \in Requests : ~LaysOn(q, PkOf(r))
    BY <2>5 DEF LaysOn, AskedInv
  <2>7. ASSUME NEW c \in db'.cols, NEW q \in Requests, LaysOn(q, c)'
        PROVE  /\ Enforced(c, want[q].key)'
               /\ \A p \in Requests : LaysOn(p, c)' => p = q
               /\ \A f \in ckeys : f.col = c.id => Doubted(q, f)'
    <3>1. LaysOn(q, c) /\ c \in db.cols
      BY <1>3, <2>4, <2>6, <2>7
    <3>2. PICK g : g = want[q].key
      OBVIOUS
    <3>3. Enforced(c, g) /\ g.ref \in KnownTables
      BY <2>2, <3>1, <3>2 DEF EnforcedInv, LaysOn
    <3>4. Enforced(c, g)' /\ g = want'[q].key
      BY <1>1, <2>1, <3>2, <3>3
    <3>5. Enforced(c, want[q].key)'
      BY <3>4 DEF Enforced, Constraint
    <3> QED BY <1>1, <2>4, <3>1, <3>5 DEF EnforcedInv
  <2>8. \A f \in ckeys : \A c \in db'.cols \cap KnownColumns : c.id = f.col => Enforced(c, f)' \/ Disowned(f)'
    BY <1>1, <1>3, <2>1, <2>3, <2>5 DEF EnforcedInv
  <2> QED BY <1>1, <2>7, <2>8 DEF EnforcedInv, Enforced, Constraint
<1>12. RowsInv'
  <2>2. \A x \in db.rows : x = [id |-> x.id, table |-> x.table, val |-> x.val]
    BY DEF RowsInv
  <2> QED BY <1>3, <2>2, KeepRows
<1> QED BY <1>3, <1>8, <1>9, <1>10, <1>11, <1>12

\* DROP TABLE, of a request that deletes a table or takes back the one it created.
LEMMA DropTableStep ==
  ASSUME TablesIInv, NEW r \in Requests, NEW stage \in {"catalog", "undone"}, Moves(r, stage),
         UNCHANGED control,
         \/ want[r].op = "drop" /\ pc[r] = "ddl" /\ stage = "catalog"
         \/ want[r].op = "create" /\ pc[r] = "compensate" /\ stage = "undone",
         db' \in DropTable(want[r].table)
  PROVE  /\ db' = [tabs |-> db'.tabs, cols |-> db'.cols, keys |-> db'.keys, rows |-> db'.rows]
         /\ TablesInv' /\ TenantColsInv' /\ ColumnsBacked'
         /\ ConstraintsInv' /\ EnforcedInv' /\ RowsInv'
<1> USE DEF TablesIInv
<1>1. /\ TableNames' = TableNames /\ \A q \in Requests : pc'[q] = IF q = r THEN stage ELSE pc[q]
      /\ want' = want /\ KnownTables' = KnownTables /\ KnownColumns' = KnownColumns
      /\ ctabs' = ctabs /\ ccols' = ccols /\ ckeys' = ckeys
      /\ unsure' = unsure /\ \A f : Disowned(f) => Disowned(f)'
      /\ \A q, f : Doubted(q, f) => Doubted(q, f)'
      /\ \A c : LostToUndo(c) => LostToUndo(c)'
  BY StatementFacts
<1>2. want[r].table \in Ids
  BY TableDataAssumption DEF WantInv, Ids, KnownTables
<1>3. PICK p \in Named(want[r].table) :
        db' = WithoutTable(p) /\ \A k \in db.keys : k.ref = p => k.table = p
  BY DEF DropTable
<1>4. /\ db'.tabs = db.tabs \ {p} /\ db'.cols = db.cols \ Of(db.cols, p)
      /\ db'.keys = {k \in db.keys : k.table # p /\ k.ref # p} /\ db'.rows = db.rows \ Of(db.rows, p)
      /\ db' = [tabs |-> db'.tabs, cols |-> db'.cols, keys |-> db'.keys, rows |-> db'.rows]
  BY <1>3 DEF WithoutTable, ShapeInv
<1>5. p \in db.tabs /\ (want[r].table \in db.tabs => want[r].table = p)
  BY <1>2, NamedTable
<1>6. \A q \in Requests : want[q].op \in {"column", "key"} => pc'[q] = pc[q]
  BY <1>1
<1>7. TablesInv'
  <2>1. ASSUME NEW t \in db'.tabs
        PROVE  t \in DOMAIN Start \/ (t \in Requests /\ want[t].op = "create" /\ pc'[t] \in InEffect)
    <3>1. t \in DOMAIN Start \/ (t \in Requests /\ want[t].op = "create" /\ pc[t] \in InEffect)
      BY <1>4 DEF TablesInv
    <3>2. want[r].op = "create" => t # r
      BY <1>4, <1>5 DEF WantInv
    <3> QED BY <1>1, <3>1, <3>2
  <2>2. \A q \in Requests : want[q].op = "drop" /\ pc'[q] \in InEffect => want[q].table \notin db'.tabs
    BY <1>1, <1>4, <1>5 DEF TablesInv
  <2>3. /\ \A s, t \in db'.tabs : TableNames[s] = TableNames[t] => s = t
        /\ db'.tabs \cap KnownTables \subseteq ctabs
        /\ ctabs \subseteq KnownTables /\ \A s, t \in ctabs : TableNames[s] = TableNames[t] => s = t
    BY <1>4 DEF TablesInv
  <2> QED BY <1>1, <2>1, <2>2, <2>3 DEF TablesInv
<1>8. TenantColsInv' /\ ColumnsBacked'
  <2>1. ASSUME NEW c \in db'.cols
        PROVE  c.table \in db'.tabs /\ (Original(c) \/ \E q \in Requests : Carries(q, c)')
    <3>1. c \in db.cols /\ c.table \in db'.tabs
      BY <1>4 DEF TenantColsInv, Of
    <3>2. \A q \in Requests : Carries(q, c) => Carries(q, c)'
      BY <1>1, <1>6 DEF Carries
    <3> QED BY <3>1, <3>2 DEF TenantColsInv
  <2>2. \A t \in db'.tabs : PkOf(t) \in db'.cols
    BY <1>4 DEF TenantColsInv, PkOf, Of
  <2>3. /\ \A c, o \in db'.cols : c.table = o.table /\ c.name = o.name => c = o
        /\ \A c \in db'.cols : Original(c) /\ c.table \in ctabs => c \in ccols
    BY <1>4 DEF TenantColsInv
  <2>4. ASSUME NEW q \in Requests, (want[q].op = "column" /\ pc[q] \in {"catalog", "compensate"}
                                    /\ want[q].table \in db.tabs)'
        PROVE  (want[q].column \in db.cols \/ LostToUndo(want[q].column))'
    <3>1. /\ want[q].op = "column" /\ pc[q] \in {"catalog", "compensate"} /\ want[q].table \in db.tabs
          /\ want[q].table # p
      BY <1>1, <1>4, <1>6, <2>4
    <3>2. PICK c : c = want[q].column
      OBVIOUS
    <3>3. c.table # p
      BY <3>1, <3>2 DEF AskedInv
    <3>4. c \in db'.cols \/ LostToUndo(c)'
      BY <1>1, <1>4, <3>1, <3>2, <3>3 DEF TenantColsInv, Of
    <3>5. c = want'[q].column
      BY <1>1, <3>2
    <3> QED BY <3>4, <3>5 DEF LostToUndo
  <2>5. TenantColsInv'
    BY <1>1, <2>1, <2>2, <2>3, <2>4 DEF TenantColsInv, LostToUndo
  <2>6. ColumnsBacked'
    <3>1. \A c \in ccols : c.table \in db'.tabs => c \in db'.cols \/ LostToUndo(c)'
      BY <1>1, <1>4 DEF ColumnsBacked, Of
    <3> QED BY <1>1, <3>1 DEF ColumnsBacked
  <2> QED BY <2>5, <2>6
<1>9. ConstraintsInv'
  <2>1. \A k \in db'.keys :
          /\ k.table \in db'.tabs /\ k.ref \in db'.tabs
          /\ \E q \in Requests : /\ want[q].op = "key" /\ pc'[q] \in InEffect
                                 /\ k = KeyOn(want[q], k.table, k.ref)
                                 /\ TableNames[k.table] = TableNames[want[q].table]
    BY <1>4, <1>6 DEF ConstraintsInv
  <2>2. \A k, o \in db'.keys : k.table = o.table /\ k.name = o.name => k = o
    BY <1>4 DEF ConstraintsInv
  <2> QED BY <1>1, <2>1, <2>2 DEF ConstraintsInv
<1>10. EnforcedInv'
  <2>1. ASSUME NEW c, NEW f, c.table # p, Enforced(c, f)
        PROVE  Enforced(c, f)'
    <3>1. PICK k \in db.keys : Constraint(k, c, f)
      BY <2>1 DEF Enforced
    <3>2. k \in db'.keys
      BY <1>3, <1>4, <2>1, <3>1 DEF Constraint
    <3>3. Constraint(k, c, f)'
      BY <1>1, <1>4, <3>1 DEF Constraint
    <3> QED BY <3>2, <3>3 DEF Enforced
  <2>2. \A q \in Requests : \A c : LaysOn(q, c)' <=> LaysOn(q, c)
    BY <1>1, <1>6 DEF LaysOn
  <2>3. \A c \in db'.cols : c \in db.cols /\ c.table # p
    BY <1>4 DEF Of
  <2>4. ASSUME NEW c \in db'.cols, NEW q \in Requests, LaysOn(q, c)'
        PROVE  /\ Enforced(c, want[q].key)'
               /\ \A s \in Requests : LaysOn(s, c)' => s = q
               /\ \A f \in ckeys : f.col = c.id => Doubted(q, f)'
    <3>1. PICK g : g = want[q].key
      OBVIOUS
    <3>2. Enforced(c, g)' /\ g = want'[q].key
      BY <1>1, <2>1, <2>2, <2>3, <2>4, <3>1 DEF EnforcedInv
    <3>3. Enforced(c, want[q].key)'
      BY <3>2 DEF Enforced, Constraint
    <3> QED BY <1>1, <2>2, <2>3, <2>4, <3>3 DEF EnforcedInv
  <2>5. \A f \in ckeys : \A c \in db'.cols \cap KnownColumns : c.id = f.col => Enforced(c, f)' \/ Disowned(f)'
    BY <1>1, <2>1, <2>3 DEF EnforcedInv
  <2> QED BY <1>1, <2>4, <2>5 DEF EnforcedInv, Enforced, Constraint
<1>11. RowsInv'
  <2>1. \A x \in db.rows : x = [id |-> x.id, table |-> x.table, val |-> x.val]
    BY DEF RowsInv
  <2> QED BY <1>4, <2>1, KeepRows
<1> QED BY <1>4, <1>7, <1>8, <1>9, <1>10, <1>11

-----------------------------------------------------------------------------
(***************************************************************************)
(* DDL on columns.                                                         *)
(***************************************************************************)

\* ADD COLUMN.
LEMMA AddColumnStep ==
  ASSUME TablesIInv, NEW r \in Requests, Moves(r, "catalog"), UNCHANGED control,
         want[r].op = "column", pc[r] = "ddl", db' \in AddColumn(want[r].table, want[r].column)
  PROVE  /\ db' = [tabs |-> db'.tabs, cols |-> db'.cols, keys |-> db'.keys, rows |-> db'.rows]
         /\ TablesInv' /\ TenantColsInv' /\ ColumnsBacked'
         /\ ConstraintsInv' /\ EnforcedInv' /\ RowsInv'
<1> USE DEF TablesIInv
<1>1. /\ TableNames' = TableNames /\ \A q \in Requests : pc'[q] = IF q = r THEN "catalog" ELSE pc[q]
      /\ want' = want /\ KnownTables' = KnownTables /\ KnownColumns' = KnownColumns
      /\ ctabs' = ctabs /\ ccols' = ccols /\ ckeys' = ckeys
      /\ unsure' = unsure /\ \A f : Disowned(f) => Disowned(f)'
      /\ \A q, f : Doubted(q, f) => Doubted(q, f)'
      /\ \A c : LostToUndo(c) => LostToUndo(c)'
  BY StatementFacts
<1>2. want[r].table \in Ids
  BY TableDataAssumption DEF WantInv, Ids, KnownTables
<1>3. PICK p \in Named(want[r].table) :
        /\ db' = WithColumn(want[r].column, p)
        /\ want[r].column.name \notin NamesOf(db.cols, p)
  BY DEF AddColumn
<1>4. PICK n : n = [want[r].column EXCEPT !.table = p]
  OBVIOUS
<1>5. /\ db'.tabs = db.tabs /\ db'.cols = db.cols \cup {n} /\ db'.keys = db.keys
      /\ db'.rows = {IF x.table = p THEN [x EXCEPT !.val[want[r].column.name] = want[r].column.default]
                     ELSE x : x \in db.rows}
      /\ db' = [tabs |-> db'.tabs, cols |-> db'.cols, keys |-> db'.keys, rows |-> db'.rows]
  BY <1>3, <1>4 DEF WithColumn, ShapeInv
<1>6. /\ p \in db.tabs /\ TableNames[p] = TableNames[want[r].table]
      /\ want[r].table \in db.tabs => want[r].table = p
  BY <1>2, NamedTable
<1>7. /\ want[r].column \in ColumnRows /\ want[r].column.table = want[r].table
      /\ want[r].column.name \in Columns
  BY DEF AskedInv
<1>8. /\ n.table = p /\ n.name = want[r].column.name /\ n.id = want[r].column.id
      /\ n = [want[r].column EXCEPT !.table = n.table]
      /\ want[r].table = p => n = want[r].column
  BY <1>4, <1>7 DEF ColumnRows
<1>9. ~Original(n) /\ n \notin KnownColumns
  <2>1. ~Committed(r)
    BY DEF Committed, WantInv
  <2> QED BY <1>8, <2>1, AddedIsNew
<1>10. TablesInv'
  BY <1>5, KeepTables DEF control, Commits
<1>11. TenantColsInv' /\ ColumnsBacked'
  <2>1. ASSUME NEW c \in db'.cols
        PROVE  c.table \in db'.tabs /\ (Original(c) \/ \E q \in Requests : Carries(q, c)')
    <3>1. CASE c \in db.cols
      BY <1>5, <3>1, LostStays DEF TenantColsInv, InEffect
    <3>2. CASE c = n
      BY <1>1, <1>5, <1>6, <1>8, <3>2 DEF Carries, InEffect
    <3> QED BY <1>5, <3>1, <3>2
  <2>2. \A t \in db'.tabs : PkOf(t) \in db'.cols
    BY <1>5 DEF TenantColsInv
  <2>3. \A c, o \in db'.cols : c.table = o.table /\ c.name = o.name => c = o
    BY <1>3, <1>5, <1>8 DEF TenantColsInv, NamesOf, Of
  <2>4. \A c \in db'.cols : Original(c) /\ c.table \in ctabs => c \in ccols
    BY <1>5, <1>9 DEF TenantColsInv
  <2>5. ASSUME NEW q \in Requests, (want[q].op = "column" /\ pc[q] \in {"catalog", "compensate"}
                                    /\ want[q].table \in db.tabs)'
        PROVE  (want[q].column \in db.cols \/ LostToUndo(want[q].column))'
    <3>1. PICK c : c = want[q].column
      OBVIOUS
    <3>2. want[q].op = "column" /\ want[q].table \in db.tabs /\ c = want'[q].column
      BY <1>1, <1>5, <2>5, <3>1
    <3>3. CASE q = r
      BY <1>5, <1>6, <1>8, <3>1, <3>2, <3>3
    <3>4. CASE q # r
      <4>1. c \in db'.cols \/ LostToUndo(c)'
        BY <1>1, <1>5, <2>5, <3>1, <3>2, <3>4 DEF TenantColsInv
      <4> QED BY <3>2, <4>1 DEF LostToUndo
    <3> QED BY <3>3, <3>4
  <2>6. TenantColsInv'
    BY <1>1, <2>1, <2>2, <2>3, <2>4, <2>5 DEF TenantColsInv, LostToUndo
  <2>7. ColumnsBacked'
    <3>1. \A c \in ccols : c.table \in db'.tabs => c \in db'.cols \/ LostToUndo(c)'
      BY <1>1, <1>5 DEF ColumnsBacked
    <3> QED BY <1>1, <3>1 DEF ColumnsBacked
  <2> QED BY <2>6, <2>7
<1>12. ConstraintsInv'
  BY <1>5, KeepConstraints
<1>13. EnforcedInv'
  <2>1. \A c, f : Enforced(c, f) => Enforced(c, f)'
    BY <1>1, <1>5 DEF Enforced, Constraint
  <2>2. \A q \in Requests : \A c : LaysOn(q, c)' <=> LaysOn(q, c)
    BY <1>1 DEF LaysOn
  <2>3. \A q \in Requests : ~LaysOn(q, n)
    BY <1>9 DEF LaysOn, AskedInv
  <2>4. ASSUME NEW c \in db'.cols, NEW q \in Requests, LaysOn(q, c)'
        PROVE  /\ Enforced(c, want[q].key)'
               /\ \A s \in Requests : LaysOn(s, c)' => s = q
               /\ \A f \in ckeys : f.col = c.id => Doubted(q, f)'
    <3>1. c \in db.cols /\ LaysOn(q, c)
      BY <1>5, <2>2, <2>3, <2>4
    <3>2. PICK g : g = want[q].key
      OBVIOUS
    <3>3. Enforced(c, g)' /\ g = want'[q].key
      BY <1>1, <2>1, <3>1, <3>2 DEF EnforcedInv
    <3>4. Enforced(c, want[q].key)'
      BY <3>3 DEF Enforced, Constraint
    <3> QED BY <1>1, <2>2, <3>1, <3>4 DEF EnforcedInv
  <2>5. \A f \in ckeys : \A c \in db'.cols \cap KnownColumns : c.id = f.col => Enforced(c, f)' \/ Disowned(f)'
    BY <1>1, <1>5, <1>9, <2>1 DEF EnforcedInv
  <2> QED BY <1>1, <2>4, <2>5 DEF EnforcedInv, Enforced, Constraint
<1>14. RowsInv'
  <2>1. ASSUME NEW x \in db'.rows
        PROVE  /\ x = [id |-> x.id, table |-> x.table, val |-> x.val]
               /\ \E y \in db.rows : y.id = x.id /\ y.table = x.table
    <3>1. PICK y \in db.rows :
            x = IF y.table = p THEN [y EXCEPT !.val[want[r].column.name] = want[r].column.default] ELSE y
      BY <1>5
    <3>2. y = [id |-> y.id, table |-> y.table, val |-> y.val]
      BY DEF RowsInv
    <3> QED BY <3>1, <3>2
  <2> QED BY <1>5, <2>1, KeepRows
<1> QED BY <1>5, <1>10, <1>11, <1>12, <1>13, <1>14

\* DROP COLUMN, of a request that takes back the column it added: under its own
\* identity, or under the name of a table that has taken the name of its own.
LEMMA DropColumnStep ==
  ASSUME TablesIInv, NEW r \in Requests, Moves(r, "undone"), UNCHANGED control,
         want[r].op = "column", pc[r] = "compensate",
         db' \in DropColumn(want[r].table, want[r].column.name)
  PROVE  /\ db' = [tabs |-> db'.tabs, cols |-> db'.cols, keys |-> db'.keys, rows |-> db'.rows]
         /\ TablesInv' /\ TenantColsInv' /\ ColumnsBacked'
         /\ ConstraintsInv' /\ EnforcedInv' /\ RowsInv'
<1> USE DEF TablesIInv
<1>1. /\ TableNames' = TableNames /\ \A q \in Requests : pc'[q] = IF q = r THEN "undone" ELSE pc[q]
      /\ want' = want /\ KnownTables' = KnownTables /\ KnownColumns' = KnownColumns
      /\ ctabs' = ctabs /\ ccols' = ccols /\ ckeys' = ckeys
      /\ unsure' = unsure /\ \A f : Disowned(f) => Disowned(f)'
      /\ \A q, f : Doubted(q, f) => Doubted(q, f)'
      /\ \A c : LostToUndo(c) => LostToUndo(c)'
  BY StatementFacts
<1>2. want[r].table \in Ids
  BY TableDataAssumption DEF WantInv, Ids, KnownTables
<1>3. PICK n : n = want[r].column.name
  OBVIOUS
<1>4. PICK p \in Named(want[r].table) :
        db' = [db EXCEPT !.cols = {c \in @ : ~(c.table = p /\ c.name = n)},
                         !.keys = {k \in @ : ~(k.table = p /\ k.col = n)},
                         !.rows = {IF x.table = p THEN [x EXCEPT !.val[n] = Null] ELSE x : x \in @}]
  <2>1. db' \in DropColumn(want[r].table, n)
    BY <1>3
  <2> QED BY ONLY <2>1, Zenon DEF DropColumn
<1>5. /\ db'.tabs = db.tabs /\ db'.cols = {c \in db.cols : ~(c.table = p /\ c.name = n)}
      /\ db'.keys = {k \in db.keys : ~(k.table = p /\ k.col = n)}
      /\ db'.rows = {IF x.table = p THEN [x EXCEPT !.val[n] = Null] ELSE x : x \in db.rows}
      /\ db' = [tabs |-> db'.tabs, cols |-> db'.cols, keys |-> db'.keys, rows |-> db'.rows]
  BY <1>4 DEF ShapeInv
<1>6. /\ p \in db.tabs /\ TableNames[p] = TableNames[want[r].table]
      /\ \A s \in db.tabs : TableNames[s] = TableNames[want[r].table] => s = p
      /\ want[r].table \in db.tabs => want[r].table = p
  BY <1>2, NamedTable
<1>7. /\ want[r].column.id = <<r, n>> /\ n \in Columns /\ n # Pk /\ want[r].column.table = want[r].table
  BY <1>3, TableDataAssumption DEF AskedInv
<1>8. TablesInv'
  BY <1>5, KeepTables DEF control, Commits
\* A column of that name and table that is not the request's own is now lost to it.
<1>9. ASSUME NEW c, c.table = p, c.name = n, c # want[r].column, c \in db.cols \/ c \in ccols
      PROVE  LostToUndo(c)'
  <2>1. CASE want[r].table # p
    <3>1. NameOf(want[r].table) = NameOf(p)
      BY <1>2, <1>6, <2>1 DEF TableNames, TablesInv, Ids
    <3> QED BY <1>1, <1>3, <1>9, <2>1, <3>1 DEF LostToUndo, NameOf
  <2>2. CASE want[r].table = p
    <3>1. PICK o : o = want[r].column
      OBVIOUS
    <3>2. o \in db.cols \/ LostToUndo(o)
      BY <1>6, <2>2, <3>1 DEF TenantColsInv
    <3>3. CASE LostToUndo(o)
      <4>1. o.name = c.name /\ o.table = c.table
        BY <1>3, <1>7, <1>9, <2>2, <3>1
      <4>2. \A q \in Requests : want[q].op = "column" /\ pc[q] = "undone" => want[q].column # o
        BY <1>3, <1>7, <3>1 DEF AskedInv
      <4>3. LostToUndo(c)
        BY <3>3, <4>1, <4>2 DEF LostToUndo
      <4> QED BY <1>1, <4>3
    <3>4. CASE o \in db.cols
      <4>1. c \notin db.cols
        BY <1>3, <1>7, <1>9, <2>2, <3>1, <3>4 DEF TenantColsInv
      <4>2. c \in ccols
        BY <1>9, <4>1
      <4>3. LostToUndo(c)
        BY <1>6, <1>9, <4>1, <4>2 DEF ColumnsBacked
      <4> QED BY <1>1, <4>3
    <3> QED BY <3>2, <3>3, <3>4
  <2> QED BY <2>1, <2>2
<1>10. TenantColsInv' /\ ColumnsBacked'
  <2>1. ASSUME NEW c \in db'.cols
        PROVE  c.table \in db'.tabs /\ (Original(c) \/ \E q \in Requests : Carries(q, c)')
    <3>1. c \in db.cols /\ c.table \in db.tabs /\ ~(c.table = p /\ c.name = n)
      BY <1>5 DEF TenantColsInv
    <3>2. ASSUME Carries(r, c)
          PROVE  FALSE
      <4>1. c.table = p
        BY <1>6, <3>1, <3>2 DEF Carries
      <4>2. c.name = n
        BY <1>3, <3>2 DEF Carries, AskedInv, ColumnRows
      <4> QED BY <3>1, <4>1, <4>2
    <3>3. \A q \in Requests : Carries(q, c) => Carries(q, c)'
      BY <1>1, <3>2 DEF Carries
    <3> QED BY <1>5, <3>1, <3>3 DEF TenantColsInv
  <2>2. \A t \in db'.tabs : PkOf(t) \in db'.cols
    BY <1>5, <1>7 DEF TenantColsInv, PkOf
  <2>3. /\ \A c, o \in db'.cols : c.table = o.table /\ c.name = o.name => c = o
        /\ \A c \in db'.cols : Original(c) /\ c.table \in ctabs => c \in ccols
    BY <1>5 DEF TenantColsInv
  <2>4. ASSUME NEW q \in Requests, (want[q].op = "column" /\ pc[q] \in {"catalog", "compensate"}
                                    /\ want[q].table \in db.tabs)'
        PROVE  (want[q].column \in db.cols \/ LostToUndo(want[q].column))'
    <3>1. /\ want[q].op = "column" /\ pc[q] \in {"catalog", "compensate"} /\ want[q].table \in db.tabs
          /\ q # r
      BY <1>1, <1>5, <2>4
    <3>2. PICK c : c = want[q].column
      OBVIOUS
    <3>3. c \in db.cols \/ LostToUndo(c)
      BY <3>1, <3>2 DEF TenantColsInv
    <3>4. c # want[r].column
      BY <1>7, <3>1, <3>2 DEF AskedInv
    <3>5. c \in db'.cols \/ LostToUndo(c)'
      BY <1>1, <1>5, <1>9, <3>3, <3>4
    <3>6. c = want'[q].column
      BY <1>1, <3>2
    <3> QED BY <3>5, <3>6 DEF LostToUndo
  <2>5. TenantColsInv'
    BY <1>1, <2>1, <2>2, <2>3, <2>4 DEF TenantColsInv, LostToUndo
  <2>6. ColumnsBacked'
    <3>1. ASSUME NEW o, o = want[r].column, o \in ccols
          PROVE  LostToUndo(o)'
      <4>1. Committed(r)
        BY <3>1, AddedIsNew DEF CatalogColsInv
      <4>2. r \in unsure'
        BY <1>1, <4>1 DEF Committed
      <4> QED BY <1>1, <1>7, <3>1, <4>2 DEF LostToUndo
    <3>2. \A c \in ccols : c.table \in db'.tabs => c \in db'.cols \/ LostToUndo(c)'
      BY <1>1, <1>5, <1>9, <3>1 DEF ColumnsBacked
    <3> QED BY <1>1, <3>2 DEF ColumnsBacked
  <2> QED BY <2>5, <2>6
<1>11. ConstraintsInv'
  <2>1. \A q \in Requests : want[q].op = "key" => pc'[q] = pc[q]
    BY <1>1
  <2>2. \A k \in db'.keys :
          /\ k.table \in db'.tabs /\ k.ref \in db'.tabs
          /\ \E q \in Requests : /\ want[q].op = "key" /\ pc'[q] \in InEffect
                                 /\ k = KeyOn(want[q], k.table, k.ref)
                                 /\ TableNames[k.table] = TableNames[want[q].table]
    BY <1>5, <2>1 DEF ConstraintsInv
  <2>3. \A k, o \in db'.keys : k.table = o.table /\ k.name = o.name => k = o
    BY <1>5 DEF ConstraintsInv
  <2> QED BY <1>1, <2>2, <2>3 DEF ConstraintsInv
<1>12. EnforcedInv'
  <2>1. ASSUME NEW c \in db'.cols, NEW f, Enforced(c, f)
        PROVE  Enforced(c, f)'
    <3>1. PICK k \in db.keys : Constraint(k, c, f)
      BY <2>1 DEF Enforced
    <3>2. k \in db'.keys
      BY <1>5, <3>1 DEF Constraint
    <3>3. Constraint(k, c, f)'
      BY <1>1, <1>5, <3>1 DEF Constraint
    <3> QED BY <3>2, <3>3 DEF Enforced
  <2>2. \A q \in Requests : \A c : LaysOn(q, c)' <=> LaysOn(q, c)
    BY <1>1 DEF LaysOn
  <2>3. \A c \in db'.cols : c \in db.cols
    BY <1>5
  <2>4. ASSUME NEW c \in db'.cols, NEW q \in Requests, LaysOn(q, c)'
        PROVE  /\ Enforced(c, want[q].key)'
               /\ \A s \in Requests : LaysOn(s, c)' => s = q
               /\ \A f \in ckeys : f.col = c.id => Doubted(q, f)'
    <3>1. PICK g : g = want[q].key
      OBVIOUS
    <3>2. Enforced(c, g)' /\ g = want'[q].key
      BY <1>1, <2>1, <2>2, <2>3, <2>4, <3>1 DEF EnforcedInv
    <3>3. Enforced(c, want[q].key)'
      BY <3>2 DEF Enforced, Constraint
    <3> QED BY <1>1, <2>2, <2>3, <2>4, <3>3 DEF EnforcedInv
  <2>5. \A f \in ckeys : \A c \in db'.cols \cap KnownColumns : c.id = f.col => Enforced(c, f)' \/ Disowned(f)'
    BY <1>1, <2>1, <2>3 DEF EnforcedInv
  <2> QED BY <1>1, <2>4, <2>5 DEF EnforcedInv, Enforced, Constraint
<1>13. RowsInv'
  <2>1. ASSUME NEW x \in db'.rows
        PROVE  /\ x = [id |-> x.id, table |-> x.table, val |-> x.val]
               /\ \E y \in db.rows : y.id = x.id /\ y.table = x.table
    <3>1. PICK y \in db.rows : x = IF y.table = p THEN [y EXCEPT !.val[n] = Null] ELSE y
      BY <1>5
    <3>2. y = [id |-> y.id, table |-> y.table, val |-> y.val]
      BY DEF RowsInv
    <3> QED BY <3>1, <3>2
  <2> QED BY <1>5, <2>1, KeepRows
<1> QED BY <1>5, <1>8, <1>10, <1>11, <1>12, <1>13

-----------------------------------------------------------------------------
(***************************************************************************)
(* DDL on foreign keys.                                                    *)
(***************************************************************************)

\* ADD CONSTRAINT: refused where the column has a constraint of that name, so no
\* other key of the column is in place.
LEMMA AddKeyStep ==
  ASSUME TablesIInv, NEW r \in Requests, Moves(r, "catalog"), UNCHANGED control,
         want[r].op = "key", pc[r] = "ddl", db' \in AddKey(want[r])
  PROVE  /\ db' = [tabs |-> db'.tabs, cols |-> db'.cols, keys |-> db'.keys, rows |-> db'.rows]
         /\ TablesInv' /\ TenantColsInv' /\ ColumnsBacked'
         /\ ConstraintsInv' /\ EnforcedInv' /\ RowsInv'
<1> USE DEF TablesIInv
<1>1. /\ TableNames' = TableNames /\ \A q \in Requests : pc'[q] = IF q = r THEN "catalog" ELSE pc[q]
      /\ want' = want /\ KnownTables' = KnownTables /\ KnownColumns' = KnownColumns
      /\ ctabs' = ctabs /\ ccols' = ccols /\ ckeys' = ckeys
      /\ unsure' = unsure /\ \A f : Disowned(f) => Disowned(f)'
      /\ \A q, f : Doubted(q, f) => Doubted(q, f)'
  BY StatementFacts
<1>2. PICK w : w = want[r]
  OBVIOUS
<1>3. /\ w.column \in KnownColumns /\ w.table = w.column.table /\ w.key.col = w.column.id
      /\ w.table \in Ids /\ w.key.ref \in Ids
  BY <1>2 DEF AskedInv, WantInv, KnownTables, Ids
<1>4. PICK p \in Named(w.table), q \in Named(w.key.ref) :
        /\ db' = [db EXCEPT !.keys = @ \cup {KeyOn(w, p, q)}]
        /\ MayConstrain(KeyOn(w, p, q))
  BY <1>2 DEF AddKey
<1>5. PICK n : n = KeyOn(w, p, q)
  OBVIOUS
<1>6. /\ db'.tabs = db.tabs /\ db'.cols = db.cols /\ db'.keys = db.keys \cup {n} /\ db'.rows = db.rows
      /\ db' = [tabs |-> db'.tabs, cols |-> db'.cols, keys |-> db'.keys, rows |-> db'.rows]
  BY <1>4, <1>5 DEF ShapeInv
<1>7. /\ n.name = w.column.id /\ n.table = p /\ n.col = w.column.name /\ n.ref = q
      /\ n.del = w.key.del /\ n = KeyOn(w, n.table, n.ref)
  BY <1>5 DEF KeyOn, ConstraintName
<1>8. /\ p \in db.tabs /\ TableNames[p] = TableNames[w.table] /\ (w.table \in db.tabs => w.table = p)
      /\ q \in db.tabs /\ TableNames[q] = TableNames[w.key.ref]
      /\ w.key.ref \in db.tabs => w.key.ref = q
  BY <1>3, NamedTable
<1>9. \A o \in db.keys : ~(o.table = p /\ o.name = n.name)
  BY <1>4, <1>5, <1>7 DEF MayConstrain, Of
<1>10. TablesInv' /\ TenantColsInv' /\ ColumnsBacked'
  <2>1. TablesInv'
    BY <1>1, <1>6, KeepTables DEF Commits
  <2>2. TenantColsInv' /\ ColumnsBacked'
    BY <1>1, <1>6, KeepColumns
  <2> QED BY <2>1, <2>2
<1>11. ConstraintsInv'
  <2>1. ASSUME NEW k \in db'.keys
        PROVE  /\ k.table \in db.tabs /\ k.ref \in db.tabs
               /\ \E s \in Requests : /\ want[s].op = "key" /\ pc'[s] \in InEffect
                                      /\ k = KeyOn(want[s], k.table, k.ref)
                                      /\ TableNames[k.table] = TableNames[want[s].table]
    <3>1. CASE k \in db.keys
      <4>1. \A s \in Requests : pc[s] \in InEffect => pc'[s] \in InEffect
        BY <1>1 DEF InEffect
      <4> QED BY <3>1, <4>1 DEF ConstraintsInv
    <3>2. CASE k = n
      BY <1>1, <1>2, <1>7, <1>8, <3>2 DEF InEffect
    <3> QED BY <1>6, <3>1, <3>2
  <2>2. \A k, o \in db'.keys : k.table = o.table /\ k.name = o.name => k = o
    BY <1>6, <1>7, <1>9 DEF ConstraintsInv
  <2> QED BY <1>1, <1>6, <2>1, <2>2 DEF ConstraintsInv
<1>12. EnforcedInv'
  <2>1. \A c, f : Enforced(c, f) => Enforced(c, f)'
    BY <1>1, <1>6 DEF Enforced, Constraint
  <2>2. \A s \in Requests : \A c : LaysOn(s, c)' <=> LaysOn(s, c) \/ (s = r /\ c = w.column)
    BY <1>1, <1>2 DEF LaysOn
  \* No constraint of the column is in place, so no other request has laid one and the
  \* catalog has no key of it.
  <2>3. w.column \in db.cols => w.table = p
    BY <1>3, <1>8 DEF TenantColsInv
  <2>4. ASSUME w.column \in db.cols, NEW g, g.col = w.column.id
        PROVE  ~Enforced(w.column, g)
    BY <1>3, <1>7, <1>9, <2>3, <2>4 DEF Enforced, Constraint
  <2>5. ASSUME w.column \in db.cols, NEW s \in Requests
        PROVE  ~LaysOn(s, w.column)
    BY <2>4, <2>5 DEF EnforcedInv, LaysOn, AskedInv
  <2>6. w.column \in db.cols => \A f \in ckeys : f.col = w.column.id => Disowned(f)
    BY <1>3, <2>4 DEF EnforcedInv
  <2>7. w.column \in db.cols => Enforced(w.column, w.key)'
    <3>1. ASSUME w.column \in db.cols
          PROVE  Constraint(n, w.column, w.key)'
      BY <1>1, <1>3, <1>6, <1>7, <1>8, <2>3, <3>1 DEF Constraint
    <3> QED BY <1>6, <3>1 DEF Enforced
  <2>8. ASSUME NEW c \in db.cols, NEW s \in Requests, LaysOn(s, c)'
        PROVE  /\ Enforced(c, want[s].key)'
               /\ \A o \in Requests : LaysOn(o, c)' => o = s
               /\ \A f \in ckeys : f.col = c.id => Doubted(s, f)'
    <3>1. PICK g : g = want[s].key
      OBVIOUS
    <3>2. CASE c = w.column
      <4>1. s = r /\ \A o \in Requests : LaysOn(o, c)' => o = r
        BY <2>2, <2>5, <2>8, <3>2
      <4>2. Enforced(c, g)' /\ g = want'[s].key
        BY <1>1, <1>2, <2>7, <3>1, <3>2, <4>1
      <4>3. Enforced(c, want[s].key)'
        BY <4>2 DEF Enforced, Constraint
      <4>4. \A f \in ckeys : f.col = c.id => Doubted(s, f)'
        BY <1>1, <2>6, <2>8, <3>2 DEF Doubted
      <4> QED BY <4>1, <4>3, <4>4
    <3>3. CASE c # w.column
      <4>1. LaysOn(s, c)
        BY <2>2, <2>8, <3>3
      <4>2. Enforced(c, g)' /\ g = want'[s].key
        BY <1>1, <2>1, <3>1, <4>1 DEF EnforcedInv
      <4>3. Enforced(c, want[s].key)'
        BY <4>2 DEF Enforced, Constraint
      <4> QED BY <1>1, <2>2, <3>3, <4>1, <4>3 DEF EnforcedInv
    <3> QED BY <3>2, <3>3
  <2>9. \A f \in ckeys : \A c \in db.cols \cap KnownColumns : c.id = f.col => Enforced(c, f)' \/ Disowned(f)'
    BY <1>1, <2>1 DEF EnforcedInv
  <2> QED BY <1>1, <1>6, <2>8, <2>9 DEF EnforcedInv, Enforced, Constraint
<1>13. RowsInv'
  <2>1. \A x \in db.rows : x = [id |-> x.id, table |-> x.table, val |-> x.val]
    BY DEF RowsInv
  <2> QED BY <1>6, <2>1, KeepRows
<1> QED BY <1>6, <1>10, <1>11, <1>12, <1>13

\* DROP CONSTRAINT, of a request that takes back the one it laid: by name it
\* meets its own, since no other key of its column is in place.
LEMMA DropKeyStep ==
  ASSUME TablesIInv, NEW r \in Requests, Moves(r, "undone"), UNCHANGED control,
         want[r].op = "key", pc[r] = "compensate",
         db' \in DropKey(want[r].table, ConstraintName(want[r].column))
  PROVE  /\ db' = [tabs |-> db'.tabs, cols |-> db'.cols, keys |-> db'.keys, rows |-> db'.rows]
         /\ TablesInv' /\ TenantColsInv' /\ ColumnsBacked'
         /\ ConstraintsInv' /\ EnforcedInv' /\ RowsInv'
<1> USE DEF TablesIInv
<1>1. /\ TableNames' = TableNames /\ \A q \in Requests : pc'[q] = IF q = r THEN "undone" ELSE pc[q]
      /\ want' = want /\ KnownTables' = KnownTables /\ KnownColumns' = KnownColumns
      /\ ctabs' = ctabs /\ ccols' = ccols /\ ckeys' = ckeys
      /\ unsure' = unsure /\ \A f : Disowned(f) => Disowned(f)'
      /\ \A q, f : Doubted(q, f) => Doubted(q, f)'
  BY StatementFacts
<1>2. PICK w : w = want[r]
  OBVIOUS
<1>3. /\ w.column \in KnownColumns /\ w.table = w.column.table /\ w.key.col = w.column.id
      /\ w.table \in Ids
  BY <1>2 DEF AskedInv, WantInv, KnownTables, Ids
<1>4. PICK n \in db.keys : /\ n.table \in Named(w.table) /\ n.name = w.column.id
                           /\ db' = [db EXCEPT !.keys = @ \ {n}]
  BY <1>2 DEF DropKey, ConstraintName
<1>5. /\ db'.tabs = db.tabs /\ db'.cols = db.cols /\ db'.keys = db.keys \ {n} /\ db'.rows = db.rows
      /\ db' = [tabs |-> db'.tabs, cols |-> db'.cols, keys |-> db'.keys, rows |-> db'.rows]
  BY <1>4 DEF ShapeInv
<1>6. \A s \in db.tabs : TableNames[s] = TableNames[w.table] => s = n.table
  BY <1>3, <1>4, NamedTable
<1>7. TablesInv' /\ TenantColsInv' /\ ColumnsBacked'
  <2>1. TablesInv'
    BY <1>1, <1>5, KeepTables DEF Commits
  <2>2. TenantColsInv' /\ ColumnsBacked'
    BY <1>1, <1>5, KeepColumns
  <2> QED BY <2>1, <2>2
<1>8. ConstraintsInv'
  <2>1. ASSUME NEW k \in db'.keys
        PROVE  /\ k.table \in db.tabs /\ k.ref \in db.tabs
               /\ \E s \in Requests : /\ want[s].op = "key" /\ pc'[s] \in InEffect
                                      /\ k = KeyOn(want[s], k.table, k.ref)
                                      /\ TableNames[k.table] = TableNames[want[s].table]
    <3>1. k \in db.keys /\ k # n
      BY <1>5
    <3>2. PICK s \in Requests : /\ want[s].op = "key" /\ pc[s] \in InEffect
                                /\ k = KeyOn(want[s], k.table, k.ref)
                                /\ TableNames[k.table] = TableNames[want[s].table]
      BY <3>1 DEF ConstraintsInv
    <3>3. s # r
      <4>1. ASSUME s = r
            PROVE  k.name = n.name
        BY <1>2, <1>4, <3>2, <4>1 DEF KeyOn, ConstraintName
      <4> QED BY <1>2, <1>6, <3>1, <3>2, <4>1 DEF ConstraintsInv
    <3> QED BY <1>1, <3>1, <3>2, <3>3 DEF ConstraintsInv
  <2>2. \A k, o \in db'.keys : k.table = o.table /\ k.name = o.name => k = o
    BY <1>5 DEF ConstraintsInv
  <2> QED BY <1>1, <1>5, <2>1, <2>2 DEF ConstraintsInv
<1>9. EnforcedInv'
  <2>1. ASSUME NEW c \in db.cols \cap KnownColumns, NEW f, f.col = c.id, c # w.column, Enforced(c, f)
        PROVE  Enforced(c, f)'
    <3>1. PICK k \in db.keys : Constraint(k, c, f)
      BY <2>1 DEF Enforced
    <3>2. c.id # w.column.id
      BY <1>3, <2>1, SameColumn
    <3>3. k \in db'.keys
      BY <1>4, <1>5, <2>1, <3>1, <3>2 DEF Constraint
    <3>4. Constraint(k, c, f)'
      BY <1>1, <1>5, <3>1 DEF Constraint
    <3> QED BY <3>3, <3>4 DEF Enforced
  <2>2. \A s \in Requests : \A c : LaysOn(s, c)' <=> LaysOn(s, c) /\ s # r
    BY <1>1 DEF LaysOn
  <2>3. LaysOn(r, w.column)
    BY <1>2 DEF LaysOn
  <2>4. w.column \in db.cols => /\ \A s \in Requests : ~LaysOn(s, w.column)'
                                /\ \A f \in ckeys : f.col = w.column.id => Disowned(f)'
    <3>1. \A f : r \in unsure /\ f = w.key => Disowned(f)'
      BY <1>1, <1>2 DEF Disowned
    <3>2. w.column \in db.cols =>
            \A f \in ckeys : f.col = w.column.id => Disowned(f) \/ (r \in unsure /\ f = w.key)
      BY <1>2, <2>3 DEF EnforcedInv, Doubted
    <3> QED BY <1>1, <2>2, <2>3, <3>1, <3>2 DEF EnforcedInv
  <2>5. ASSUME NEW c \in db.cols, NEW s \in Requests, LaysOn(s, c)'
        PROVE  /\ Enforced(c, want[s].key)'
               /\ \A o \in Requests : LaysOn(o, c)' => o = s
               /\ \A f \in ckeys : f.col = c.id => Doubted(s, f)'
    <3>1. PICK g : g = want[s].key
      OBVIOUS
    <3>2. LaysOn(s, c) /\ c # w.column
      BY <2>2, <2>4, <2>5
    <3>3. g.col = c.id /\ c \in KnownColumns
      BY <3>1, <3>2 DEF LaysOn, AskedInv
    <3>4. Enforced(c, g)' /\ g = want'[s].key
      BY <1>1, <2>1, <3>1, <3>2, <3>3 DEF EnforcedInv
    <3>5. Enforced(c, want[s].key)'
      BY <3>4 DEF Enforced, Constraint
    <3> QED BY <1>1, <2>2, <3>2, <3>5 DEF EnforcedInv
  <2>6. ASSUME NEW f \in ckeys, NEW c \in db.cols \cap KnownColumns, c.id = f.col
        PROVE  Enforced(c, f)' \/ Disowned(f)'
    BY <1>1, <2>1, <2>4, <2>6 DEF EnforcedInv
  <2> QED BY <1>1, <1>5, <2>5, <2>6 DEF EnforcedInv, Enforced, Constraint
<1>10. RowsInv'
  <2>1. \A x \in db.rows : x = [id |-> x.id, table |-> x.table, val |-> x.val]
    BY DEF RowsInv
  <2> QED BY <1>5, <2>1, KeepRows
<1> QED BY <1>5, <1>7, <1>8, <1>9, <1>10

-----------------------------------------------------------------------------
(***************************************************************************)
(* Catalog writes.                                                         *)
(***************************************************************************)

\* What a catalog write leaves alone.
\* The catalog write of r is committed, whether r learns it or not.
Writes(r, stage) ==
  /\ Moves(r, stage) /\ pc[r] = "catalog" /\ stage \in {"done", "compensate", "drifted"}
  /\ Commits(r, stage)

LEMMA WriteFacts ==
  ASSUME TablesIInv, NEW r \in Requests, NEW stage, Writes(r, stage), db' = db
  PROVE  /\ TableNames' = TableNames /\ \A q \in Requests : pc'[q] = IF q = r THEN stage ELSE pc[q]
         /\ want' = want
         /\ KnownTables' = IF want[r].op = "create" THEN KnownTables \cup {r} ELSE KnownTables
         /\ KnownColumns \subseteq KnownColumns'
         /\ want[r].op \notin {"create", "column"} => KnownColumns' = KnownColumns
         /\ \A c : LostToUndo(c) => LostToUndo(c)'
         /\ \A f : Disowned(f) => Disowned(f)'
         /\ \A q, f : Doubted(q, f) => Doubted(q, f)'
         /\ \A q \in Requests : Committed(q)' <=> Committed(q) \/ q = r
         /\ RowsInv'
<1>1. ShapeInv /\ WantInv /\ AskedInv /\ Moves(r, stage) /\ want' = want /\ unsure \subseteq unsure'
  BY DEF TablesIInv, Moves, Writes
<1>2. \A x \in db.rows : x = [id |-> x.id, table |-> x.table, val |-> x.val]
  BY DEF TablesIInv, RowsInv
<1>3. /\ TableNames' = TableNames /\ \A q \in Requests : pc'[q] = IF q = r THEN stage ELSE pc[q]
      /\ KnownTables' = IF want[r].op = "create" THEN KnownTables \cup {r} ELSE KnownTables
      /\ KnownColumns \subseteq KnownColumns'
      /\ want[r].op \notin {"create", "column"} => KnownColumns' = KnownColumns
      /\ \A q \in Requests : Committed(q)' <=> Committed(q) \/ q = r
  BY <1>1, MoveFacts DEF Writes
<1>4. (\A c : LostToUndo(c) => LostToUndo(c)') /\ (\A f : Disowned(f) => Disowned(f)')
  BY <1>1, LostStays
<1>5. RowsInv'
  BY <1>1, <1>2, KeepRows
<1>6. \A q, f : Doubted(q, f) => Doubted(q, f)'
  BY <1>1, <1>4 DEF Doubted
<1> QED BY <1>1, <1>3, <1>4, <1>5, <1>6

\* The table is catalogued.
LEMMA WriteTableStep ==
  ASSUME TablesIInv, NEW r \in Requests, NEW stage, Writes(r, stage), db' = db,
         want[r].op = "create", \A t \in ctabs : NameOf(t) # want[r].name,
         ctabs' = ctabs \cup {r}, ccols' = ccols \cup {PkOf(r)}, ckeys' = ckeys
  PROVE  /\ TablesInv' /\ CatalogColsInv' /\ TenantColsInv' /\ ColumnsBacked'
         /\ ConstraintsInv' /\ CatalogKeysInv' /\ EnforcedInv' /\ RowsInv'
<1> USE DEF TablesIInv
<1>1. /\ TableNames' = TableNames /\ \A q \in Requests : pc'[q] = IF q = r THEN stage ELSE pc[q]
      /\ want' = want /\ KnownTables' = KnownTables \cup {r} /\ KnownColumns \subseteq KnownColumns'
      /\ \A c : LostToUndo(c) => LostToUndo(c)'
      /\ \A f : Disowned(f) => Disowned(f)'
      /\ \A q, f : Doubted(q, f) => Doubted(q, f)'
      /\ \A q \in Requests : Committed(q)' <=> Committed(q) \/ q = r
  BY WriteFacts
<1>2. RowsInv'
  BY WriteFacts
<1>3. r \in Ids /\ r \notin KnownTables /\ r \notin DOMAIN Start /\ ctabs \subseteq Ids
  BY TableDataAssumption DEF Ids, KnownTables, TablesInv, Writes, Committed, WantInv
<1>4. \A t \in ctabs : TableNames[t] # TableNames[r]
  BY <1>3 DEF TableNames, NameOf
<1>5. \A q \in Requests : want[q].op \notin {"none", "create"} => want[q].table # r
  BY <1>3 DEF WantInv
<1>6. \A q \in Requests : want[q].op # "create" => pc'[q] = pc[q] /\ (Committed(q)' <=> Committed(q))
  BY <1>1
<1>7. /\ PkOf(r) \in ColumnRows /\ Original(PkOf(r)) /\ PkOf(r).table = r /\ PkOf(r).name = Pk
      /\ PkOf(r).id = <<r, Pk>>
  BY <1>3, StartColumns
<1>8. PkOf(r) \in KnownColumns'
  BY <1>1, <1>7 DEF KnownColumns
\* The only column that becomes known is its primary key.
<1>9. \A c \in KnownColumns' : c \in KnownColumns \/ c = PkOf(r)
  <2>1. \A c : Original(c) /\ c.table = r => c = PkOf(r)
    BY <1>3 DEF Original
  <2>2. \A q \in Requests : want[q].op = "column" => want[q].column.table # r
    BY <1>5 DEF AskedInv
  <2> QED BY <1>1, <1>6, <2>1, <2>2 DEF KnownColumns
<1>10. TablesInv'
  <2>1. \A t \in db.tabs :
          t \in DOMAIN Start \/ (t \in Requests /\ want[t].op = "create" /\ pc'[t] \in InEffect)
    BY <1>1 DEF TablesInv, InEffect, Writes
  <2>2. \A q \in Requests : want[q].op = "drop" /\ pc'[q] \in InEffect => want[q].table \notin db.tabs
    BY <1>6 DEF TablesInv
  <2>3. \A s, t \in ctabs' : TableNames[s] = TableNames[t] => s = t
    BY <1>4 DEF TablesInv
  <2>4. ctabs' \subseteq KnownTables' /\ db.tabs \cap KnownTables' \subseteq ctabs'
    BY <1>1 DEF TablesInv
  <2>5. \A s, t \in db.tabs : TableNames[s] = TableNames[t] => s = t
    BY DEF TablesInv
  <2> QED BY <1>1, <2>1, <2>2, <2>3, <2>4, <2>5 DEF TablesInv
<1>11. CatalogColsInv'
  <2>1. ccols' \subseteq KnownColumns' /\ (\A c \in ccols' : c.table \in ctabs')
        /\ \A t \in ctabs' : PkOf(t) \in ccols'
    BY <1>1, <1>7, <1>8 DEF CatalogColsInv
  <2>2. \A c \in ccols : c.table # r
    BY <1>3 DEF CatalogColsInv, TablesInv
  <2>3. \A c, o \in ccols' : c.table = o.table /\ c.name = o.name => c = o
    BY <1>7, <2>2 DEF CatalogColsInv
  <2>4. \A q \in Requests : want[q].op = "column" /\ Committed(q)' /\ want[q].table \in ctabs' =>
          want[q].column \in ccols'
    BY <1>5, <1>6 DEF CatalogColsInv
  <2> QED BY <1>1, <2>1, <2>3, <2>4 DEF CatalogColsInv
<1>12. TenantColsInv' /\ ColumnsBacked'
  <2>1. \A c \in db.cols : c.table \in db.tabs /\ (Original(c) \/ \E q \in Requests : Carries(q, c)')
    <3>1. \A q \in Requests : \A c : Carries(q, c) => Carries(q, c)'
      BY LostStays DEF InEffect, Writes
    <3> QED BY <3>1 DEF TenantColsInv
  <2>2. \A c \in db.cols : Original(c) /\ c.table \in ctabs' => c \in ccols'
    BY <1>3 DEF TenantColsInv, Original
  <2>3. ASSUME NEW q \in Requests, (want[q].op = "column" /\ pc[q] \in {"catalog", "compensate"}
                                    /\ want[q].table \in db.tabs)'
        PROVE  (want[q].column \in db.cols \/ LostToUndo(want[q].column))'
    <3>1. want[q].op = "column" /\ pc[q] \in {"catalog", "compensate"} /\ want[q].table \in db.tabs
      BY <1>1, <1>6, <2>3
    <3>2. PICK c : c = want[q].column
      OBVIOUS
    <3>3. c \in db.cols \/ LostToUndo(c)'
      BY <1>1, <3>1, <3>2 DEF TenantColsInv
    <3>4. c = want'[q].column
      BY <1>1, <3>2
    <3> QED BY <3>3, <3>4 DEF LostToUndo
  <2>4. TenantColsInv'
    BY <1>1, <2>1, <2>2, <2>3 DEF TenantColsInv, LostToUndo
  <2>5. ColumnsBacked'
    <3>1. \A c \in ccols' : c.table \in db.tabs => c \in db.cols \/ LostToUndo(c)'
      BY <1>1, <1>7 DEF ColumnsBacked, TenantColsInv
    <3> QED BY <3>1 DEF ColumnsBacked
  <2> QED BY <2>4, <2>5
<1>13. ConstraintsInv'
  BY KeepConstraints DEF Writes, InEffect
<1>14. CatalogKeysInv'
  <2>1. \A f \in ckeys : \E q \in Requests : want[q].op = "key" /\ Committed(q)' /\ f = want[q].key
    BY <1>6 DEF CatalogKeysInv
  <2>2. ASSUME NEW q \in Requests, want[q].op = "key"
        PROVE  want[q].table # r /\ want[q].key.ref # r /\ want[q].target.table # r
    BY <1>3, <2>2 DEF AskedInv, KnownColumns
  <2>3. \A q \in Requests : want[q].op = "key" /\ Committed(q)' =>
          \/ want[q].key \in ckeys
          \/ ~({want[q].table, want[q].key.ref, want[q].target.table} \subseteq ctabs')
    BY <1>6, <2>2 DEF CatalogKeysInv
  <2>4. \A f, g \in ckeys : f.col = g.col => f = g
    BY DEF CatalogKeysInv
  <2> QED BY <1>1, <2>1, <2>3, <2>4 DEF CatalogKeysInv
<1>15. EnforcedInv'
  <2>1. \A c, f : Enforced(c, f) => Enforced(c, f)'
    BY <1>1 DEF Enforced, Constraint
  <2>2. \A q \in Requests : \A c : LaysOn(q, c)' <=> LaysOn(q, c)
    BY <1>1 DEF LaysOn
  <2>3. ASSUME NEW c \in db.cols, NEW q \in Requests, LaysOn(q, c)'
        PROVE  /\ Enforced(c, want[q].key)'
               /\ \A s \in Requests : LaysOn(s, c)' => s = q
               /\ \A f \in ckeys : f.col = c.id => Doubted(q, f)'
    <3>1. PICK g : g = want[q].key
      OBVIOUS
    <3>2. Enforced(c, g)' /\ g = want'[q].key
      BY <1>1, <2>1, <2>2, <2>3, <3>1 DEF EnforcedInv
    <3>3. Enforced(c, want[q].key)'
      BY <3>2 DEF Enforced, Constraint
    <3> QED BY <1>1, <2>2, <2>3, <3>3 DEF EnforcedInv
  \* A catalogued key is on a column that was in the catalog before.
  <2>4. ASSUME NEW f \in ckeys
        PROVE  f.col # PkOf(r).id
    <3>1. PICK q \in Requests : want[q].op = "key" /\ f = want[q].key
      BY <2>4 DEF CatalogKeysInv
    <3>2. PICK c \in KnownColumns : c = want[q].column /\ f.col = c.id
      BY <3>1 DEF AskedInv
    <3>3. CASE Original(c)
      BY <1>3, <1>7, <3>2, <3>3, StartColumns DEF KnownColumns
    <3>4. CASE ~Original(c)
      <4>1. PICK u \in Requests : want[u].op = "column" /\ c = want[u].column
        BY <3>2, <3>4 DEF KnownColumns
      <4>2. c.id = <<u, c.name>> /\ c.name \in Columns
        BY <4>1 DEF AskedInv
      <4> QED BY <1>7, <3>2, <4>2, TableDataAssumption
    <3> QED BY <3>3, <3>4
  <2>5. \A f \in ckeys : \A c \in db.cols \cap KnownColumns' : c.id = f.col => Enforced(c, f)' \/ Disowned(f)'
    BY <1>1, <1>9, <2>1, <2>4 DEF EnforcedInv
  <2> QED BY <1>1, <2>3, <2>5 DEF EnforcedInv, Enforced, Constraint
<1> QED BY <1>2, <1>10, <1>11, <1>12, <1>13, <1>14, <1>15

\* The table is taken out of the catalog, with its columns and the keys that name either.
LEMMA WriteDropStep ==
  ASSUME TablesIInv, NEW r \in Requests, NEW stage, Writes(r, stage), db' = db,
         want[r].op = "drop", Uncatalog(want[r].table)
  PROVE  /\ TablesInv' /\ CatalogColsInv' /\ TenantColsInv' /\ ColumnsBacked'
         /\ ConstraintsInv' /\ CatalogKeysInv' /\ EnforcedInv' /\ RowsInv'
<1> USE DEF TablesIInv
<1>1. /\ TableNames' = TableNames /\ \A q \in Requests : pc'[q] = IF q = r THEN stage ELSE pc[q]
      /\ want' = want /\ KnownTables' = KnownTables /\ KnownColumns' = KnownColumns
      /\ \A c : LostToUndo(c) => LostToUndo(c)'
      /\ \A f : Disowned(f) => Disowned(f)'
      /\ \A q, f : Doubted(q, f) => Doubted(q, f)'
      /\ \A q \in Requests : Committed(q)' <=> Committed(q) \/ q = r
  BY WriteFacts
<1>2. RowsInv'
  BY WriteFacts
<1>3. PICK t : t = want[r].table
  OBVIOUS
<1>4. /\ ctabs' = ctabs \ {t} /\ ccols' = ccols \ Of(ccols, t)
      /\ ckeys' = {f \in ckeys : f.ref # t /\ \A c \in Of(ccols, t) : c.id \notin {f.col, f.refcol}}
  BY <1>3 DEF Uncatalog
<1>5. \A q \in Requests : want[q].op # "drop" => pc'[q] = pc[q] /\ (Committed(q)' <=> Committed(q))
  BY <1>1
<1>6. t \notin db.tabs
  BY <1>3 DEF TablesInv, InEffect, Writes
<1>7. TablesInv'
  <2>1. \A s \in db.tabs :
          s \in DOMAIN Start \/ (s \in Requests /\ want[s].op = "create" /\ pc'[s] \in InEffect)
    BY <1>5 DEF TablesInv
  <2>2. \A q \in Requests : want[q].op = "drop" /\ pc'[q] \in InEffect => want[q].table \notin db.tabs
    BY <1>1, <1>3, <1>6 DEF TablesInv
  <2>3. /\ \A s, u \in ctabs' : TableNames[s] = TableNames[u] => s = u
        /\ ctabs' \subseteq KnownTables /\ db.tabs \cap KnownTables \subseteq ctabs'
        /\ \A s, u \in db.tabs : TableNames[s] = TableNames[u] => s = u
    BY <1>4, <1>6 DEF TablesInv
  <2> QED BY <1>1, <2>1, <2>2, <2>3 DEF TablesInv
<1>8. CatalogColsInv'
  <2>1. ccols' \subseteq KnownColumns /\ (\A c \in ccols' : c.table \in ctabs')
        /\ \A c, o \in ccols' : c.table = o.table /\ c.name = o.name => c = o
    BY <1>4 DEF CatalogColsInv, Of
  <2>2. \A s \in ctabs' : PkOf(s) \in ccols'
    BY <1>4 DEF CatalogColsInv, Of, PkOf
  <2>3. \A q \in Requests : want[q].op = "column" /\ Committed(q)' /\ want[q].table \in ctabs' =>
          want[q].column \in ccols'
    BY <1>4, <1>5 DEF CatalogColsInv, AskedInv, Of
  <2> QED BY <1>1, <2>1, <2>2, <2>3 DEF CatalogColsInv
<1>9. TenantColsInv' /\ ColumnsBacked'
  <2>1. \A c \in db.cols : c.table \in db.tabs /\ (Original(c) \/ \E q \in Requests : Carries(q, c)')
    <3>1. \A q \in Requests : \A c : Carries(q, c) => Carries(q, c)'
      BY LostStays DEF InEffect, Writes
    <3> QED BY <3>1 DEF TenantColsInv
  <2>2. \A c \in db.cols : Original(c) /\ c.table \in ctabs' => c \in ccols'
    BY <1>4 DEF TenantColsInv, Of
  <2>3. ASSUME NEW q \in Requests, (want[q].op = "column" /\ pc[q] \in {"catalog", "compensate"}
                                    /\ want[q].table \in db.tabs)'
        PROVE  (want[q].column \in db.cols \/ LostToUndo(want[q].column))'
    <3>1. want[q].op = "column" /\ pc[q] \in {"catalog", "compensate"} /\ want[q].table \in db.tabs
      BY <1>1, <1>5, <2>3
    <3>2. PICK c : c = want[q].column
      OBVIOUS
    <3>3. c \in db.cols \/ LostToUndo(c)'
      BY <1>1, <3>1, <3>2 DEF TenantColsInv
    <3>4. c = want'[q].column
      BY <1>1, <3>2
    <3> QED BY <3>3, <3>4 DEF LostToUndo
  <2>4. TenantColsInv'
    BY <1>1, <2>1, <2>2, <2>3 DEF TenantColsInv, LostToUndo
  <2>5. ColumnsBacked'
    <3>1. \A c \in ccols' : c.table \in db.tabs => c \in db.cols \/ LostToUndo(c)'
      BY <1>1, <1>4 DEF ColumnsBacked
    <3> QED BY <3>1 DEF ColumnsBacked
  <2> QED BY <2>4, <2>5
<1>10. ConstraintsInv'
  BY KeepConstraints DEF Writes, InEffect
<1>11. CatalogKeysInv'
  <2>1. \A f \in ckeys' : \E q \in Requests : want[q].op = "key" /\ Committed(q)' /\ f = want[q].key
    BY <1>4, <1>5 DEF CatalogKeysInv
  <2>2. \A f, g \in ckeys' : f.col = g.col => f = g
    BY <1>4 DEF CatalogKeysInv
  <2>3. ASSUME NEW q \in Requests, want[q].op = "key", Committed(q)', want[q].key \notin ckeys'
        PROVE  ~({want[q].table, want[q].key.ref, want[q].target.table} \subseteq ctabs')
    <3>1. CASE want[q].key \notin ckeys
      BY <1>4, <1>5, <2>3, <3>1 DEF CatalogKeysInv
    <3>2. CASE want[q].key.ref = t
      BY <1>4, <3>2
    <3>3. ASSUME NEW c \in Of(ccols, t), c.id \in {want[q].key.col, want[q].key.refcol}
          PROVE  want[q].table = t \/ want[q].target.table = t
      <4>1. c \in KnownColumns /\ c.table = t
        BY <3>3 DEF Of, CatalogColsInv
      <4>2. /\ want[q].column \in KnownColumns /\ want[q].target \in KnownColumns
            /\ want[q].table = want[q].column.table
            /\ want[q].key.col = want[q].column.id /\ want[q].key.refcol = want[q].target.id
        BY <2>3 DEF AskedInv
      <4>3. c = want[q].column \/ c = want[q].target
        BY <3>3, <4>1, <4>2, SameColumn
      <4> QED BY <4>1, <4>2, <4>3
    <3> QED BY <1>4, <2>3, <3>1, <3>2, <3>3
  <2> QED BY <1>1, <2>1, <2>2, <2>3 DEF CatalogKeysInv
<1>12. EnforcedInv'
  <2>1. \A c, f : Enforced(c, f) => Enforced(c, f)'
    BY <1>1 DEF Enforced, Constraint
  <2>2. \A q \in Requests : \A c : LaysOn(q, c)' <=> LaysOn(q, c)
    BY <1>1 DEF LaysOn
  <2>3. ASSUME NEW c \in db.cols, NEW q \in Requests, LaysOn(q, c)'
        PROVE  /\ Enforced(c, want[q].key)'
               /\ \A s \in Requests : LaysOn(s, c)' => s = q
               /\ \A f \in ckeys' : f.col = c.id => Doubted(q, f)'
    <3>1. PICK g : g = want[q].key
      OBVIOUS
    <3>2. Enforced(c, g)' /\ g = want'[q].key
      BY <1>1, <2>1, <2>2, <2>3, <3>1 DEF EnforcedInv
    <3>3. Enforced(c, want[q].key)'
      BY <3>2 DEF Enforced, Constraint
    <3> QED BY <1>1, <1>4, <2>2, <2>3, <3>3 DEF EnforcedInv
  <2>4. \A f \in ckeys' : \A c \in db.cols \cap KnownColumns : c.id = f.col => Enforced(c, f)' \/ Disowned(f)'
    BY <1>1, <1>4, <2>1 DEF EnforcedInv
  <2> QED BY <1>1, <2>3, <2>4 DEF EnforcedInv, Enforced, Constraint
<1> QED BY <1>2, <1>7, <1>8, <1>9, <1>10, <1>11, <1>12

\* The column is catalogued.
LEMMA WriteColumnStep ==
  ASSUME TablesIInv, NEW r \in Requests, NEW stage, Writes(r, stage), db' = db,
         want[r].op = "column", want[r].table \in ctabs,
         want[r].column.name \notin NamesOf(ccols, want[r].table),
         ccols' = ccols \cup {want[r].column}, ctabs' = ctabs, ckeys' = ckeys
  PROVE  /\ TablesInv' /\ CatalogColsInv' /\ TenantColsInv' /\ ColumnsBacked'
         /\ ConstraintsInv' /\ CatalogKeysInv' /\ EnforcedInv' /\ RowsInv'
<1> USE DEF TablesIInv
<1>1. /\ TableNames' = TableNames /\ \A q \in Requests : pc'[q] = IF q = r THEN stage ELSE pc[q]
      /\ want' = want /\ KnownTables' = KnownTables /\ KnownColumns \subseteq KnownColumns'
      /\ \A c : LostToUndo(c) => LostToUndo(c)'
      /\ \A f : Disowned(f) => Disowned(f)'
      /\ \A q, f : Doubted(q, f) => Doubted(q, f)'
      /\ \A q \in Requests : Committed(q)' <=> Committed(q) \/ q = r
  BY WriteFacts
<1>2. RowsInv'
  BY WriteFacts
<1>3. PICK n : n = want[r].column
  OBVIOUS
<1>4. n \in ColumnRows /\ n.table = want[r].table /\ n.table \in ctabs /\ n.table \in KnownTables
  BY <1>3 DEF AskedInv, TablesInv
<1>5. /\ n \in KnownColumns' /\ \A c \in KnownColumns' : c \in KnownColumns \/ c = n
  BY <1>1, <1>3, <1>4 DEF KnownColumns
<1>6. \A q \in Requests : want[q].op # "column" => pc'[q] = pc[q] /\ (Committed(q)' <=> Committed(q))
  BY <1>1
<1>7. TablesInv'
  BY KeepTables DEF Writes
<1>8. CatalogColsInv'
  <2>1. ccols' \subseteq KnownColumns' /\ (\A c \in ccols' : c.table \in ctabs)
        /\ \A t \in ctabs : PkOf(t) \in ccols'
    BY <1>1, <1>3, <1>4, <1>5 DEF CatalogColsInv
  <2>2. \A c, o \in ccols' : c.table = o.table /\ c.name = o.name => c = o
    BY <1>3, <1>4 DEF CatalogColsInv, NamesOf, Of
  <2>3. \A q \in Requests : want[q].op = "column" /\ Committed(q)' /\ want[q].table \in ctabs =>
          want[q].column \in ccols'
    BY <1>1 DEF CatalogColsInv
  <2> QED BY <1>1, <2>1, <2>2, <2>3 DEF CatalogColsInv
<1>9. TenantColsInv' /\ ColumnsBacked'
  <2>1. \A c \in db.cols : c.table \in db.tabs /\ (Original(c) \/ \E q \in Requests : Carries(q, c)')
    <3>1. \A q \in Requests : \A c : Carries(q, c) => Carries(q, c)'
      BY LostStays DEF InEffect, Writes
    <3> QED BY <3>1 DEF TenantColsInv
  <2>2. \A c \in db.cols : Original(c) /\ c.table \in ctabs => c \in ccols'
    BY DEF TenantColsInv
  <2>3. ASSUME NEW q \in Requests, (want[q].op = "column" /\ pc[q] \in {"catalog", "compensate"}
                                    /\ want[q].table \in db.tabs)'
        PROVE  (want[q].column \in db.cols \/ LostToUndo(want[q].column))'
    <3>1. want[q].op = "column" /\ pc[q] \in {"catalog", "compensate"} /\ want[q].table \in db.tabs
      BY <1>1, <2>3 DEF Writes
    <3>2. PICK c : c = want[q].column
      OBVIOUS
    <3>3. c \in db.cols \/ LostToUndo(c)'
      BY <1>1, <3>1, <3>2 DEF TenantColsInv
    <3>4. c = want'[q].column
      BY <1>1, <3>2
    <3> QED BY <3>3, <3>4 DEF LostToUndo
  <2>4. TenantColsInv'
    BY <1>1, <2>1, <2>2, <2>3 DEF TenantColsInv, LostToUndo
  <2>5. ColumnsBacked'
    <3>1. n.table \in db.tabs => n \in db.cols \/ LostToUndo(n)
      BY <1>3, <1>4 DEF TenantColsInv, Writes
    <3>2. \A c \in ccols' : c.table \in db.tabs => c \in db.cols \/ LostToUndo(c)'
      BY <1>1, <1>3, <3>1 DEF ColumnsBacked
    <3> QED BY <3>2 DEF ColumnsBacked
  <2> QED BY <2>4, <2>5
<1>10. ConstraintsInv'
  BY KeepConstraints DEF Writes, InEffect
<1>11. CatalogKeysInv'
  BY <1>1, <1>6 DEF CatalogKeysInv
<1>12. EnforcedInv'
  <2>1. \A c, f : Enforced(c, f) => Enforced(c, f)'
    BY <1>1 DEF Enforced, Constraint
  <2>2. \A q \in Requests : \A c : LaysOn(q, c)' <=> LaysOn(q, c)
    BY <1>1 DEF LaysOn
  <2>3. ASSUME NEW c \in db.cols, NEW q \in Requests, LaysOn(q, c)'
        PROVE  /\ Enforced(c, want[q].key)'
               /\ \A s \in Requests : LaysOn(s, c)' => s = q
               /\ \A f \in ckeys : f.col = c.id => Doubted(q, f)'
    <3>1. PICK g : g = want[q].key
      OBVIOUS
    <3>2. Enforced(c, g)' /\ g = want'[q].key
      BY <1>1, <2>1, <2>2, <2>3, <3>1 DEF EnforcedInv
    <3>3. Enforced(c, want[q].key)'
      BY <3>2 DEF Enforced, Constraint
    <3> QED BY <1>1, <2>2, <2>3, <3>3 DEF EnforcedInv
  \* A catalogued key is on a column that was in the catalog before.
  <2>4. ASSUME NEW f \in ckeys
        PROVE  f.col # n.id
    <3>1. PICK q \in Requests : want[q].op = "key" /\ f = want[q].key
      BY <2>4 DEF CatalogKeysInv
    <3>2. PICK c \in KnownColumns : f.col = c.id
      BY <3>1 DEF AskedInv
    <3> QED BY <1>3, <3>2, AddedIsNew DEF Writes, Committed, WantInv
  <2>5. \A f \in ckeys : \A c \in db.cols \cap KnownColumns' : c.id = f.col => Enforced(c, f)' \/ Disowned(f)'
    BY <1>1, <1>5, <2>1, <2>4 DEF EnforcedInv
  <2> QED BY <1>1, <2>3, <2>5 DEF EnforcedInv, Enforced, Constraint
<1> QED BY <1>2, <1>7, <1>8, <1>9, <1>10, <1>11, <1>12

\* The foreign key is catalogued.
LEMMA WriteKeyStep ==
  ASSUME TablesIInv, NEW r \in Requests, NEW stage, Writes(r, stage), db' = db,
         want[r].op = "key", \A f \in ckeys : f.col # want[r].key.col,
         ckeys' = ckeys \cup {want[r].key}, ctabs' = ctabs, ccols' = ccols
  PROVE  /\ TablesInv' /\ CatalogColsInv' /\ TenantColsInv' /\ ColumnsBacked'
         /\ ConstraintsInv' /\ CatalogKeysInv' /\ EnforcedInv' /\ RowsInv'
<1> USE DEF TablesIInv
<1>1. /\ TableNames' = TableNames /\ \A q \in Requests : pc'[q] = IF q = r THEN stage ELSE pc[q]
      /\ want' = want /\ KnownTables' = KnownTables /\ KnownColumns' = KnownColumns
      /\ \A c : LostToUndo(c) => LostToUndo(c)'
      /\ \A f : Disowned(f) => Disowned(f)'
      /\ \A q, f : Doubted(q, f) => Doubted(q, f)'
      /\ \A q \in Requests : Committed(q)' <=> Committed(q) \/ q = r
  BY WriteFacts
<1>2. RowsInv'
  BY WriteFacts
<1>3. PICK n : n = want[r].key
  OBVIOUS
<1>4. \A q \in Requests : want[q].op # "key" => pc'[q] = pc[q] /\ (Committed(q)' <=> Committed(q))
  BY <1>1
<1>5. TablesInv'
  BY KeepTables DEF Writes
<1>6. CatalogColsInv'
  BY <1>1, <1>4 DEF CatalogColsInv
<1>7. TenantColsInv' /\ ColumnsBacked'
  BY KeepColumns DEF Writes
<1>8. ConstraintsInv'
  BY KeepConstraints DEF Writes, InEffect
<1>9. CatalogKeysInv'
  <2>1. \A f \in ckeys' : \E q \in Requests : want[q].op = "key" /\ Committed(q)' /\ f = want[q].key
    <3> QED BY <1>1 DEF CatalogKeysInv
  <2>2. \A f, g \in ckeys' : f.col = g.col => f = g
    BY DEF CatalogKeysInv
  <2>3. \A q \in Requests : want[q].op = "key" /\ Committed(q)' =>
          \/ want[q].key \in ckeys'
          \/ ~({want[q].table, want[q].key.ref, want[q].target.table} \subseteq ctabs)
    BY <1>1 DEF CatalogKeysInv
  <2> QED BY <1>1, <2>1, <2>2, <2>3 DEF CatalogKeysInv
<1>10. EnforcedInv'
  <2>1. \A c, f : Enforced(c, f) => Enforced(c, f)'
    BY <1>1 DEF Enforced, Constraint
  <2>2. \A q \in Requests : \A c : LaysOn(q, c)' => LaysOn(q, c)
    BY <1>1 DEF LaysOn, Writes
  \* A column with the identity the key names is the request's own column.
  <2>3. ASSUME NEW c \in db.cols \cap KnownColumns, c.id = n.col
        PROVE  LaysOn(r, c)
    <3>1. want[r].column \in KnownColumns /\ want[r].key.col = want[r].column.id
      BY DEF AskedInv
    <3>2. c = want[r].column
      BY <1>3, <2>3, <3>1, SameColumn
    <3> QED BY <3>2 DEF LaysOn, Writes
  <2>4. ASSUME NEW c \in db.cols, NEW q \in Requests, LaysOn(q, c)'
        PROVE  /\ Enforced(c, want[q].key)'
               /\ \A s \in Requests : LaysOn(s, c)' => s = q
               /\ \A f \in ckeys' : f.col = c.id => Doubted(q, f)'
    <3>1. PICK g : g = want[q].key
      OBVIOUS
    <3>2. LaysOn(q, c) /\ c \in KnownColumns
      BY <2>2, <2>4 DEF LaysOn, AskedInv
    <3>3. Enforced(c, g)' /\ g = want'[q].key
      BY <1>1, <2>1, <3>1, <3>2 DEF EnforcedInv
    <3>4. Enforced(c, want[q].key)'
      BY <3>3 DEF Enforced, Constraint
    <3>5. \A s \in Requests : LaysOn(s, c) => s = q
      BY <3>2 DEF EnforcedInv
    <3>6. ASSUME n.col = c.id
          PROVE  Doubted(q, n)'
      <4>1. q = r
        BY <2>3, <3>2, <3>5, <3>6
      <4>2. pc'[r] = stage /\ stage # "done"
        BY <1>1, <2>4, <4>1 DEF LaysOn
      <4>3. r \in unsure'
        BY <4>2 DEF Writes, Commits
      <4> QED BY <1>1, <1>3, <4>1, <4>3 DEF Doubted
    <3>7. \A f \in ckeys : f.col = c.id => Doubted(q, f)'
      BY <1>1, <3>2 DEF EnforcedInv
    <3> QED BY <1>3, <2>2, <3>4, <3>5, <3>6, <3>7
  <2>5. ASSUME NEW f \in ckeys', NEW c \in db.cols \cap KnownColumns, c.id = f.col
        PROVE  Enforced(c, f)' \/ Disowned(f)'
    <3>1. CASE f \in ckeys
      BY <1>1, <2>1, <2>5, <3>1 DEF EnforcedInv
    <3>2. CASE f = n
      BY <1>3, <2>1, <2>3, <2>5, <3>2 DEF EnforcedInv
    <3> QED BY <1>3, <3>1, <3>2
  <2> QED BY <1>1, <2>4, <2>5 DEF EnforcedInv, Enforced, Constraint
<1> QED BY <1>2, <1>5, <1>6, <1>7, <1>8, <1>9, <1>10

-----------------------------------------------------------------------------
(***************************************************************************)
(* Statements on rows.                                                     *)
(***************************************************************************)

\* A row keeps its identity and its table; an inserted one is in a table of the name.
LEMMA OutcomeFacts ==
  ASSUME TablesIInv, NEW r \in Requests, pc[r] = "sql", db' \in Outcome(r)
  PROVE  /\ db'.tabs = db.tabs /\ db'.cols = db.cols /\ db'.keys = db.keys
         /\ db' = [tabs |-> db'.tabs, cols |-> db'.cols, keys |-> db'.keys, rows |-> db'.rows]
         /\ \A x \in db'.rows :
              /\ x = [id |-> x.id, table |-> x.table, val |-> x.val]
              /\ \/ \E y \in db.rows : y.id = x.id /\ y.table = x.table
                 \/ want[r].op = "insert" /\ x.id = r /\ x.table \in Named(want[r].table)
<1>1. db = [tabs |-> db.tabs, cols |-> db.cols, keys |-> db.keys, rows |-> db.rows]
  BY DEF TablesIInv, ShapeInv
<1>2. \A x \in db.rows : x = [id |-> x.id, table |-> x.table, val |-> x.val]
  BY DEF TablesIInv, RowsInv
<1>3. CASE want[r].op = "insert"
  <2>1. PICK p \in Named(want[r].table) : db' = Inserted(want[r], p, r)
    BY <1>3 DEF Outcome
  <2>2. PICK n : n = [id |-> r, table |-> p, val |-> Overlaid(want[r].data, DefaultsOf(p))]
    OBVIOUS
  <2>3. n = [id |-> n.id, table |-> n.table, val |-> n.val] /\ n.id = r /\ n.table = p
    BY <2>2
  <2>4. db' = [db EXCEPT !.rows = @ \cup {n}]
    BY <2>1, <2>2 DEF Inserted
  <2> QED BY <1>1, <1>2, <1>3, <2>3, <2>4
<1>4. CASE want[r].op = "update"
  <2>1. PICK p \in Named(want[r].table), y \in Addressed(want[r]) : db' = Updated(want[r], p, y)
    BY <1>4 DEF Outcome
  <2>2. y \in db.rows
    BY <2>1 DEF Addressed
  <2>3. PICK n : n = [y EXCEPT !.val = Overlaid(want[r].data, @)]
    OBVIOUS
  <2>4. n = [id |-> n.id, table |-> n.table, val |-> n.val] /\ n.id = y.id /\ n.table = y.table
    BY <1>2, <2>2, <2>3
  <2>5. db' = [db EXCEPT !.rows = (@ \ {y}) \cup {n}]
    BY <2>1, <2>3 DEF Updated
  <2> QED BY <1>1, <1>2, <2>2, <2>4, <2>5
<1>5. CASE want[r].op = "delete"
  <2>1. PICK y \in db.rows : db' = Deleted(y)
    BY <1>5 DEF Outcome, Addressed
  <2>2. PICK gone : gone = Doomed(y)
    OBVIOUS
  <2>3. db' = [db EXCEPT !.rows = {Detached(x, gone) : x \in @ \ gone}]
    BY <2>1, <2>2 DEF Deleted
  <2>4. \A x \in db.rows : LET n == Detached(x, gone)
                           IN  /\ n = [id |-> n.id, table |-> n.table, val |-> n.val]
                               /\ n.id = x.id /\ n.table = x.table
    BY <1>2 DEF Detached
  <2> HIDE DEF Detached
  <2> QED BY <1>1, <2>3, <2>4
<1>6. CASE want[r].op = "read"
  <2>1. db' = db
    BY <1>6 DEF Outcome
  <2> QED BY <1>1, <1>2, <2>1
<1> QED BY <1>3, <1>4, <1>5, <1>6 DEF TablesIInv, WantInv

LEMMA StatementStep ==
  ASSUME TablesIInv, NEW r \in Requests, RunStatement(r)
  PROVE  TablesIInv'
<1> USE DEF TablesIInv
<1>1. pc[r] = "sql" /\ db' \in Outcome(r) /\ mix' = mix /\ faults' = faults /\ UNCHANGED control
      /\ unsure' = unsure
  BY DEF RunStatement
<1>2. Moves(r, "done")
  BY <1>1 DEF RunStatement, Goto, Moves, Stages, InEffect
<1>3. want[r].op \in {"insert", "update", "delete", "read"}
  BY <1>1 DEF WantInv
<1>4. /\ db'.tabs = db.tabs /\ db'.cols = db.cols /\ db'.keys = db.keys
      /\ db' = [tabs |-> db'.tabs, cols |-> db'.cols, keys |-> db'.keys, rows |-> db'.rows]
      /\ ctabs' = ctabs /\ ccols' = ccols /\ ckeys' = ckeys
  BY <1>1, OutcomeFacts DEF control
<1>5. ShapeInv'
  BY <1>1, <1>2, <1>4 DEF ShapeInv, Moves
<1>6. WantInv' /\ AskedInv'
  BY <1>1, <1>2, MoveFacts
<1>7. TablesInv' /\ CatalogColsInv' /\ CatalogKeysInv'
  <2>1. TablesInv'
    BY <1>1, <1>2, <1>3, <1>4, KeepTables DEF InEffect
  <2>2. CatalogColsInv' /\ CatalogKeysInv'
    BY <1>1, <1>2, <1>3, KeepCatalog
  <2> QED BY <2>1, <2>2
<1>8. TenantColsInv' /\ ColumnsBacked'
  BY <1>2, <1>3, <1>4, KeepColumns
<1>9. ConstraintsInv'
  BY <1>2, <1>3, <1>4, KeepConstraints
<1>10. EnforcedInv'
  BY <1>2, <1>3, <1>4, KeepEnforced
<1>11. RowsInv'
  <2>2. want' = want
    BY <1>2 DEF Moves
  <2>3. ASSUME NEW x \in db'.rows
        PROVE  /\ x = [id |-> x.id, table |-> x.table, val |-> x.val]
               /\ x.id \in Requests => want[x.id].op = "insert"
    <3>1. /\ x = [id |-> x.id, table |-> x.table, val |-> x.val]
          /\ \/ \E y \in db.rows : y.id = x.id /\ y.table = x.table
             \/ want[r].op = "insert" /\ x.id = r /\ x.table \in Named(want[r].table)
      BY <1>1, OutcomeFacts
    <3>2. CASE \E y \in db.rows : y.id = x.id /\ y.table = x.table
      BY <3>1, <3>2 DEF RowsInv
    <3>3. CASE want[r].op = "insert" /\ x.id = r /\ x.table \in Named(want[r].table)
      BY <3>1, <3>3
    <3> QED BY <3>1, <3>2, <3>3
  <2> QED BY <1>4, <2>2, <2>3 DEF RowsInv
<1> QED BY <1>5, <1>6, <1>7, <1>8, <1>9, <1>10, <1>11

-----------------------------------------------------------------------------
(***************************************************************************)
(* The invariant holds.                                                    *)
(***************************************************************************)

LEMMA InitTables == Init => TablesIInv
<1> SUFFICES ASSUME Init
             PROVE  TablesIInv
  OBVIOUS
<1>0. ctabs = DOMAIN Start /\ ckeys = {}
  BY DEF Init
<1>c. /\ \A s \in ctabs : PkOf(s) \in ccols
      /\ \A c \in ccols : \/ \E s \in ctabs : c = PkOf(s)
                         \/ \E s \in ctabs, n \in Columns : c = PlainColumn(s, n)
  BY DEF Init
<1>1. /\ db.tabs = ctabs /\ db.cols = ccols /\ db.keys = {}
      /\ db = [tabs |-> db.tabs, cols |-> db.cols, keys |-> db.keys, rows |-> db.rows]
  BY DEF Init
<1>2. /\ db.tabs = DOMAIN Start /\ db.cols = ccols /\ db.keys = {}
      /\ \A x \in db.rows : x = [id |-> x.id, table |-> x.table, val |-> x.val] /\ x.id = Row0
      /\ db = [tabs |-> db.tabs, cols |-> db.cols, keys |-> db.keys, rows |-> db.rows]
  <2>1. \A x \in db.rows : x = [id |-> x.id, table |-> x.table, val |-> x.val] /\ x.id = Row0
    BY DEF Init
  <2> QED BY <1>0, <1>1, <2>1
<1>3. /\ want = [r \in Requests |-> [op |-> "none", table |-> r, name |-> "none"]]
      /\ pc = [r \in Requests |-> "idle"] /\ unsure = {} /\ mix \in Mixes /\ faults = 0
  BY DEF Init
<1>4. \A r \in Requests : want[r].op = "none" /\ pc[r] = "idle" /\ r \notin unsure
  BY <1>3
<1>5. KnownTables = DOMAIN Start
  BY <1>4 DEF KnownTables
<1>6. \A c \in ccols : Original(c) /\ c.table \in DOMAIN Start /\ c \in ColumnRows
  <2>1. \A s \in DOMAIN Start : /\ Original(PkOf(s)) /\ PkOf(s).table = s /\ PkOf(s) \in ColumnRows
    BY StartColumns DEF Ids
  <2>2. \A s \in DOMAIN Start, n \in Columns :
          /\ Original(PlainColumn(s, n)) /\ PlainColumn(s, n).table = s /\ PlainColumn(s, n) \in ColumnRows
    BY StartColumns DEF Original
  <2> QED BY <1>0, <1>c, <2>1, <2>2
<1>7. ccols \subseteq KnownColumns
  BY <1>5, <1>6 DEF KnownColumns
<1>8. \A c, o \in ccols : c.table = o.table /\ c.name = o.name => c = o
  BY <1>6, StartColumns
<1>9. ShapeInv
  BY <1>2, <1>3, TableDataAssumption DEF ShapeInv, Stages
<1>10. WantInv /\ AskedInv
  BY <1>4 DEF WantInv, AskedInv
<1>11. TablesInv
  <2>1. \A s \in DOMAIN Start : TableNames[s] = Start[s]
    BY DEF TableNames, NameOf, Ids
  <2> QED BY <1>0, <1>1, <1>2, <1>4, <1>5, <2>1, TableDataAssumption DEF TablesInv, InEffect
<1>12. CatalogColsInv
  BY <1>0, <1>c, <1>4, <1>6, <1>7, <1>8 DEF CatalogColsInv
<1>13. TenantColsInv /\ ColumnsBacked
  BY <1>0, <1>c, <1>2, <1>4, <1>6, <1>8 DEF TenantColsInv, ColumnsBacked
<1>14. ConstraintsInv /\ CatalogKeysInv /\ EnforcedInv
  BY <1>0, <1>1, <1>2, <1>4 DEF ConstraintsInv, CatalogKeysInv, EnforcedInv, LaysOn
<1>15. RowsInv
  BY <1>2, TableDataAssumption DEF RowsInv
<1> QED BY <1>9, <1>10, <1>11, <1>12, <1>13, <1>14, <1>15 DEF TablesIInv

\* The requests that begin.
LEMMA BeginStep ==
  ASSUME TablesIInv, NEW r \in Requests,
         \/ BeginCreate(r) \/ BeginDrop(r) \/ BeginColumn(r) \/ BeginKey(r)
         \/ BeginInsert(r) \/ BeginUpdate(r) \/ BeginDelete(r) \/ BeginRead(r)
  PROVE  TablesIInv'
<1>0. /\ \A t \in ctabs : t \in KnownTables
      /\ \A c \in ccols : c \in KnownColumns /\ c.table \in KnownTables /\ c.table \in Ids
      /\ KnownTables \subseteq Ids
  BY DEF TablesIInv, TablesInv, CatalogColsInv, KnownColumns, KnownTables, Ids
<1>1. CASE BeginCreate(r)
  <2>1. PICK n \in Names : Ask(r, [op |-> "create", table |-> r, name |-> n], "ddl")
    BY <1>1 DEF BeginCreate
  <2>2. Asks(r, [op |-> "create", table |-> r, name |-> n], "ddl")
    BY DEF Asks
  <2> QED BY <2>1, <2>2, AskStep
<1>2. CASE BeginDrop(r)
  <2>1. PICK t \in ctabs : Ask(r, [op |-> "drop", table |-> t, name |-> "none"], "ddl")
    BY <1>2 DEF BeginDrop
  <2>2. Asks(r, [op |-> "drop", table |-> t, name |-> "none"], "ddl")
    BY <1>0 DEF Asks
  <2> QED BY <2>1, <2>2, AskStep
<1>3. CASE BeginColumn(r)
  <2>1. PICK t \in ctabs, n \in Columns, s \in mix.shapes :
          Ask(r, [op |-> "column", table |-> t, name |-> "none",
                  column |-> [id |-> <<r, n>>, table |-> t, name |-> n, type |-> s.type,
                              nullable |-> s.nullable, unique |-> s.unique,
                              default |-> s.default]], "ddl")
    BY <1>3 DEF BeginColumn
  <2>2. PICK c : c = [id |-> <<r, n>>, table |-> t, name |-> n, type |-> s.type,
                      nullable |-> s.nullable, unique |-> s.unique, default |-> s.default]
    OBVIOUS
  <2>3. s \in Shapes
    BY TableDataAssumption DEF TablesIInv, ShapeInv
  <2>4. c \in ColumnRows
    BY <1>0, <2>2, <2>3 DEF ColumnRows, Shapes, Ids
  <2>5. PICK w : w = [op |-> "column", table |-> t, name |-> "none", column |-> c]
    OBVIOUS
  <2>6. Asks(r, w, "ddl")
    BY <1>0, <2>2, <2>4, <2>5 DEF Asks
  <2> QED BY <2>1, <2>2, <2>5, <2>6, AskStep
<1>4. CASE BeginKey(r)
  <2>1. PICK c \in ccols, t \in ctabs, target \in ccols, d \in mix.rules :
          /\ MayReference(c, target, d)
          /\ Ask(r, [op |-> "key", table |-> c.table, name |-> "none", column |-> c,
                     target |-> target,
                     key |-> [col |-> c.id, ref |-> t, refcol |-> target.id, del |-> d]], "ddl")
    BY <1>4 DEF BeginKey
  <2>2. PICK w : w = [op |-> "key", table |-> c.table, name |-> "none", column |-> c,
                      target |-> target,
                      key |-> [col |-> c.id, ref |-> t, refcol |-> target.id, del |-> d]]
    OBVIOUS
  <2>3. Asks(r, w, "ddl")
    BY <1>0, <2>1, <2>2 DEF Asks
  <2> QED BY <2>1, <2>2, <2>3, AskStep
<1>5. CASE BeginInsert(r)
  <2>1. PICK t \in ctabs, d \in Payloads :
          /\ Validated(d, Of(ccols, t))
          /\ Ask(r, [op |-> "insert", table |-> t, name |-> "none", data |-> d, seen |-> Of(ccols, t)], "sql")
    BY <1>5 DEF BeginInsert
  <2>2. PICK w : w = [op |-> "insert", table |-> t, name |-> "none", data |-> d, seen |-> Of(ccols, t)]
    OBVIOUS
  <2>3. Of(ccols, t) \subseteq KnownColumns
    BY <1>0 DEF Of
  <2>4. Asks(r, w, "sql")
    BY <1>0, <2>1, <2>2, <2>3 DEF Asks
  <2> QED BY <2>1, <2>2, <2>4, AskStep
<1>6. CASE BeginUpdate(r)
  <2>1. PICK t \in ctabs, d \in Payloads, y \in db.rows :
          Ask(r, [op |-> "update", table |-> t, name |-> "none", data |-> d, seen |-> Of(ccols, t),
                  row |-> y.id], "sql")
    BY <1>6 DEF BeginUpdate
  <2>2. PICK w : w = [op |-> "update", table |-> t, name |-> "none", data |-> d, seen |-> Of(ccols, t),
                      row |-> y.id]
    OBVIOUS
  <2>3. Asks(r, w, "sql")
    BY <1>0, <2>2 DEF Asks
  <2> QED BY <2>1, <2>2, <2>3, AskStep
<1>7. CASE BeginDelete(r)
  <2>1. PICK t \in ctabs, y \in db.rows :
          Ask(r, [op |-> "delete", table |-> t, name |-> "none", seen |-> {}, row |-> y.id], "sql")
    BY <1>7 DEF BeginDelete
  <2>2. PICK w : w = [op |-> "delete", table |-> t, name |-> "none", seen |-> {}, row |-> y.id]
    OBVIOUS
  <2>3. Asks(r, w, "sql")
    BY <1>0, <2>2 DEF Asks
  <2> QED BY <2>1, <2>2, <2>3, AskStep
<1>8. CASE BeginRead(r)
  <2>1. PICK t \in ctabs :
          Ask(r, [op |-> "read", table |-> t, name |-> "none", seen |-> Of(ccols, t)], "sql")
    BY <1>8 DEF BeginRead
  <2>2. PICK w : w = [op |-> "read", table |-> t, name |-> "none", seen |-> Of(ccols, t)]
    OBVIOUS
  <2>3. Asks(r, w, "sql")
    BY <1>0, <2>2 DEF Asks
  <2> QED BY <2>1, <2>2, <2>3, AskStep
<1> QED BY <1>1, <1>2, <1>3, <1>4, <1>5, <1>6, <1>7, <1>8

\* DDL and its undoing.
LEMMA DDLStep ==
  ASSUME TablesIInv, NEW r \in Requests, ExecuteDDL(r) \/ Compensate(r)
  PROVE  TablesIInv'
<1>1. PICK stage \in {"catalog", "undone"} :
        /\ Goto(r, stage) /\ UNCHANGED <<control, want, unsure, mix, faults>>
        /\ stage = "catalog" => pc[r] = "ddl" /\ db' \in Statement(r)
        /\ stage = "undone" => pc[r] = "compensate" /\ db' \in Undo(r)
  BY DEF ExecuteDDL, Compensate
<1>2. Moves(r, stage)
  <2>1. stage = "undone" => want[r].op # "drop"
    BY <1>1 DEF TablesIInv, WantInv
  <2> QED BY <1>1, <2>1 DEF Goto, Moves, Stages, InEffect
<1>3. UNCHANGED control /\ want[r].op \in {"create", "drop", "column", "key"}
      /\ (stage = "undone" => want[r].op # "drop")
  BY <1>1 DEF TablesIInv, WantInv
<1>4. /\ db' = [tabs |-> db'.tabs, cols |-> db'.cols, keys |-> db'.keys, rows |-> db'.rows]
      /\ TablesInv' /\ TenantColsInv' /\ ColumnsBacked'
      /\ ConstraintsInv' /\ EnforcedInv' /\ RowsInv'
  <2>1. CASE want[r].op = "create" /\ stage = "catalog"
    <3>1. db' \in AddTable(r)
      BY <1>1, <2>1 DEF Statement
    <3> QED BY <1>1, <1>2, <1>3, <2>1, <3>1, CreateStep
  <2>2. CASE want[r].op = "drop" \/ (want[r].op = "create" /\ stage = "undone")
    <3>1. db' \in DropTable(want[r].table)
      BY <1>1, <1>3, <2>2 DEF Statement, Undo, TablesIInv, WantInv
    <3> QED BY <1>1, <1>2, <1>3, <2>2, <3>1, DropTableStep
  <2>3. CASE want[r].op = "column" /\ stage = "catalog"
    <3>1. db' \in AddColumn(want[r].table, want[r].column)
      BY <1>1, <2>3 DEF Statement
    <3> QED BY <1>1, <1>2, <1>3, <2>3, <3>1, AddColumnStep
  <2>4. CASE want[r].op = "column" /\ stage = "undone"
    <3>1. db' \in DropColumn(want[r].table, want[r].column.name)
      BY <1>1, <2>4 DEF Undo
    <3> QED BY <1>1, <1>2, <1>3, <2>4, <3>1, DropColumnStep
  <2>5. CASE want[r].op = "key" /\ stage = "catalog"
    <3>1. db' \in AddKey(want[r])
      BY <1>1, <2>5 DEF Statement
    <3> QED BY <1>1, <1>2, <1>3, <2>5, <3>1, AddKeyStep
  <2>6. CASE want[r].op = "key" /\ stage = "undone"
    <3>1. db' \in DropKey(want[r].table, ConstraintName(want[r].column))
      BY <1>1, <2>6 DEF Undo
    <3> QED BY <1>1, <1>2, <1>3, <2>6, <3>1, DropKeyStep
  <2> QED BY <1>3, <2>1, <2>2, <2>3, <2>4, <2>5, <2>6
<1>5. ShapeInv'
  BY <1>1, <1>2, <1>4 DEF TablesIInv, ShapeInv, Moves
<1>6. WantInv' /\ AskedInv'
  BY <1>2, MoveFacts DEF TablesIInv, Moves
<1>7. CatalogColsInv' /\ CatalogKeysInv'
  <2>1. ~Commits(r, stage)
    BY <1>1 DEF Commits
  <2> QED BY <1>2, <1>3, <2>1, KeepCatalog
<1> QED BY <1>4, <1>5, <1>6, <1>7 DEF TablesIInv

\* The catalog write.
LEMMA CommitStep ==
  ASSUME TablesIInv, NEW r \in Requests, NEW stage, Writes(r, stage), CatalogAccepts(r),
         CatalogEntry(r), db' = db, mix' = mix, faults' \in 0..MaxFaults
  PROVE  TablesIInv'
<1>1. /\ CatalogAccepts(r) /\ CatalogEntry(r) /\ db' = db /\ mix' = mix /\ faults' \in 0..MaxFaults
      /\ pc[r] = "catalog"
  BY DEF Writes
<1>2. Writes(r, stage) /\ Moves(r, stage)
  BY DEF Writes
<1>3. want[r].op \in {"create", "drop", "column", "key"}
  BY <1>1 DEF TablesIInv, WantInv
<1>4. /\ TablesInv' /\ CatalogColsInv' /\ TenantColsInv' /\ ColumnsBacked'
      /\ ConstraintsInv' /\ CatalogKeysInv' /\ EnforcedInv' /\ RowsInv'
  <2>1. CASE want[r].op = "create"
    <3>1. /\ \A t \in ctabs : NameOf(t) # want[r].name
          /\ ctabs' = ctabs \cup {r} /\ ccols' = ccols \cup {PkOf(r)} /\ ckeys' = ckeys
      BY <1>1, <2>1 DEF CatalogAccepts, CatalogEntry
    <3> QED BY <1>1, <1>2, <2>1, <3>1, WriteTableStep
  <2>2. CASE want[r].op = "drop"
    <3>1. Uncatalog(want[r].table)
      BY <1>1, <2>2 DEF CatalogEntry
    <3> QED BY <1>1, <1>2, <2>2, <3>1, WriteDropStep
  <2>3. CASE want[r].op = "column"
    <3>1. /\ want[r].table \in ctabs /\ want[r].column.name \notin NamesOf(ccols, want[r].table)
          /\ ccols' = ccols \cup {want[r].column} /\ ctabs' = ctabs /\ ckeys' = ckeys
      BY <1>1, <2>3 DEF CatalogAccepts, CatalogEntry
    <3> QED BY <1>1, <1>2, <2>3, <3>1, WriteColumnStep
  <2>4. CASE want[r].op = "key"
    <3>1. /\ \A f \in ckeys : f.col # want[r].key.col
          /\ ckeys' = ckeys \cup {want[r].key} /\ ctabs' = ctabs /\ ccols' = ccols
      BY <1>1, <2>4 DEF CatalogAccepts, CatalogEntry
    <3> QED BY <1>1, <1>2, <2>4, <3>1, WriteKeyStep
  <2> QED BY <1>3, <2>1, <2>2, <2>3, <2>4
<1>5. ShapeInv'
  BY <1>1, <1>2 DEF TablesIInv, ShapeInv, Moves
<1>6. WantInv' /\ AskedInv'
  BY <1>1, <1>2, MoveFacts DEF TablesIInv
<1> QED BY <1>4, <1>5, <1>6 DEF TablesIInv

\* It is committed and its request told so.
LEMMA WriteStep ==
  ASSUME TablesIInv, NEW r \in Requests, WriteCatalog(r)
  PROVE  TablesIInv'
<1>1. /\ pc[r] = "catalog" /\ CatalogAccepts(r) /\ CatalogEntry(r) /\ Goto(r, "done")
      /\ db' = db /\ want' = want /\ unsure' = unsure /\ mix' = mix /\ faults' = faults
  BY DEF WriteCatalog
<1>2. Writes(r, "done")
  BY <1>1 DEF Goto, Moves, Stages, InEffect, Writes, Commits
<1>3. faults' \in 0..MaxFaults
  BY <1>1 DEF TablesIInv, ShapeInv
<1> QED BY <1>1, <1>2, <1>3, CommitStep

\* The catalog write is refused, is lost, or is committed without an answer.
LEMMA CatalogFailStep ==
  ASSUME TablesIInv, NEW r \in Requests, CatalogFails(r)
  PROVE  TablesIInv'
<1>1. PICK stage \in {"compensate", "drifted"} :
        /\ Goto(r, stage) /\ pc[r] = "catalog" /\ UNCHANGED <<db, want, mix>>
        /\ stage = "compensate" => want[r].op # "drop"
  BY DEF CatalogFails
<1>2. faults' = faults \/ (faults < MaxFaults /\ faults' = faults + 1)
  BY DEF CatalogFails
<1>3. faults' \in 0..MaxFaults
  BY <1>2, TableDataAssumption DEF TablesIInv, ShapeInv
<1>4. \/ UNCHANGED control /\ unsure' = unsure
      \/ CatalogAccepts(r) /\ CatalogEntry(r) /\ unsure' = unsure \cup {r}
  BY DEF CatalogFails
<1>5. Moves(r, stage)
  BY <1>1, <1>4 DEF Goto, Moves, Stages, InEffect
<1>6. CASE UNCHANGED control /\ unsure' = unsure
  BY <1>1, <1>3, <1>5, <1>6, GiveUpStep
<1>7. CASE CatalogAccepts(r) /\ CatalogEntry(r) /\ unsure' = unsure \cup {r}
  <2>1. r \notin unsure
    BY <1>1 DEF TablesIInv, WantInv
  <2>2. Writes(r, stage)
    BY <1>1, <1>5, <1>7, <2>1 DEF Writes, Commits
  <2> QED BY <1>1, <1>3, <1>7, <2>2, CommitStep
<1> QED BY <1>4, <1>6, <1>7

\* The requests that are refused, fail or die.
LEMMA FailStep ==
  ASSUME TablesIInv, NEW r \in Requests,
         DDLRefused(r) \/ StatementRefused(r) \/ CompensationFails(r) \/ Killed(r)
  PROVE  TablesIInv'
<1>1. PICK stage \in {"failed", "drifted"} :
        /\ Goto(r, stage) /\ UNCHANGED <<db, control, want, unsure, mix>>
        /\ faults' = faults \/ (faults < MaxFaults /\ faults' = faults + 1)
        /\ \/ pc[r] \in {"ddl", "sql"} /\ stage = "failed"
           \/ pc[r] \in {"catalog", "compensate"} /\ stage = "drifted"
  <2>1. CASE DDLRefused(r) \/ StatementRefused(r)
    BY <2>1 DEF DDLRefused, StatementRefused
  <2>2. CASE CompensationFails(r) \/ Killed(r)
    BY <2>2 DEF CompensationFails, Killed
  <2> QED BY <2>1, <2>2
<1>2. Moves(r, stage)
  BY <1>1 DEF Goto, Moves, Stages, InEffect
<1>3. faults' \in 0..MaxFaults
  BY <1>1, TableDataAssumption DEF TablesIInv, ShapeInv
<1>4. UNCHANGED <<db, control, mix>> /\ unsure' = unsure
  BY <1>1
<1> QED BY <1>1, <1>2, <1>3, <1>4, GiveUpStep

LEMMA NextTables == TablesIInv /\ [Next]_vars => TablesIInv'
<1> SUFFICES ASSUME TablesIInv, [Next]_vars
             PROVE  TablesIInv'
  OBVIOUS
<1>1. CASE Next
  <2>1. PICK r \in Requests : SchemaStep(r) \/ RowStep(r)
    BY <1>1 DEF Next
  <2>2. CASE \/ BeginCreate(r) \/ BeginDrop(r) \/ BeginColumn(r) \/ BeginKey(r)
             \/ BeginInsert(r) \/ BeginUpdate(r) \/ BeginDelete(r) \/ BeginRead(r)
    BY <2>2, BeginStep
  <2>3. CASE ExecuteDDL(r) \/ Compensate(r)
    BY <2>3, DDLStep
  <2>4. CASE WriteCatalog(r)
    BY <2>4, WriteStep
  <2>5. CASE DDLRefused(r) \/ StatementRefused(r) \/ CompensationFails(r) \/ Killed(r)
    BY <2>5, FailStep
  <2>6. CASE RunStatement(r)
    BY <2>6, StatementStep
  <2>7. CASE CatalogFails(r)
    BY <2>7, CatalogFailStep
  <2> QED BY <2>1, <2>2, <2>3, <2>4, <2>5, <2>6, <2>7 DEF SchemaStep, RowStep
<1>2. CASE UNCHANGED vars
  <2>1. UNCHANGED <<db, ctabs, ccols, ckeys, want, pc, unsure, mix, faults>>
    BY <1>2 DEF vars, control
  <2>2. /\ TableNames' = TableNames /\ KnownTables' = KnownTables /\ KnownColumns' = KnownColumns
        /\ ColumnsBacked' = ColumnsBacked /\ RowsInv' = RowsInv
    BY <2>1 DEF TableNames, NameOf, KnownTables, KnownColumns, Committed, ColumnsBacked, LostToUndo,
                RowsInv
  <2>3. ShapeInv' /\ WantInv' /\ AskedInv'
    BY <2>1, <2>2 DEF TablesIInv, ShapeInv, WantInv, AskedInv, Validated
  <2>4. TablesInv' /\ CatalogColsInv' /\ CatalogKeysInv'
    BY <2>1, <2>2 DEF TablesIInv, TablesInv, CatalogColsInv, CatalogKeysInv, Committed
  <2>5. TenantColsInv'
    BY <2>1, <2>2 DEF TablesIInv, TenantColsInv, Carries, LostToUndo, NameOf
  <2>6. ConstraintsInv' /\ EnforcedInv'
    BY <2>1, <2>2 DEF TablesIInv, ConstraintsInv, EnforcedInv, LaysOn, Enforced, Constraint, Doubted,
                      Disowned
  <2> QED BY <2>2, <2>3, <2>4, <2>5, <2>6 DEF TablesIInv
<1> QED BY <1>1, <1>2

LEMMA TablesHold == Spec => []TablesIInv
BY InitTables, NextTables, PTL DEF Spec

\* Every reading of what holds, at every state: the lemma with its three conclusions below.
LEMMA ColumnsFollow == TablesIInv => ColumnsAgree
<1> SUFFICES ASSUME TablesIInv
             PROVE  ColumnsAgree
  OBVIOUS
<1> USE DEF TablesIInv
<1>1. db.tabs \subseteq Ids /\ ctabs \subseteq Ids
  BY DEF TablesInv, KnownTables, Ids
<1>2. \A t \in Ids : TableNames[t] = NameOf(t)
  BY DEF TableNames
<1>3. ASSUME NEW c \in db.cols
      PROVE  c \in ColumnRows
  <2>1. CASE Original(c)
    BY <2>1, StartColumns DEF Original, Ids
  <2>2. ASSUME NEW r \in Requests, Carries(r, c)
        PROVE  c \in ColumnRows
    <3>1. PICK o \in ColumnRows : o = want[r].column
      BY <2>2 DEF Carries, AskedInv
    <3>2. c = [o EXCEPT !.table = c.table] /\ c.table \in Ids
      BY <1>1, <2>2, <3>1 DEF Carries, TenantColsInv
    <3> QED BY <3>1, <3>2 DEF ColumnRows
  <2> QED BY <2>1, <2>2 DEF TenantColsInv
<1>4. TypeOK
  BY <1>1, <1>2, <1>3 DEF TypeOK, TablesInv, CatalogColsInv, KnownColumns, CatalogKeysInv, ShapeInv
<1>5. ColumnsKnown
  <2> SUFFICES ASSUME NEW c \in db.cols, c.table \in ctabs, c \notin ccols
               PROVE  Unfinished(c.id[1]) \/ want[c.id[1]].table # c.table
    BY DEF ColumnsKnown
  <2>1. PICK r \in Requests : Carries(r, c)
    BY DEF TenantColsInv
  <2>2. PICK o \in ColumnRows : o = want[r].column /\ o.id = <<r, o.name>> /\ o.table = want[r].table
    BY <2>1 DEF Carries, AskedInv
  <2>3. c = [o EXCEPT !.table = c.table]
    BY <2>1, <2>2 DEF Carries
  <2>4. c.id[1] = r
    BY <2>2, <2>3 DEF ColumnRows
  <2>5. want[r].table = c.table => c = o
    BY <2>2, <2>3 DEF ColumnRows
  <2>6. pc[r] = "done" => want[r].table # c.table
    BY <2>1, <2>2, <2>5 DEF Carries, CatalogColsInv, Committed
  <2> QED BY <2>1, <2>4, <2>6 DEF Carries, InEffect, Unfinished
<1> QED BY <1>4, <1>5 DEF ColumnsAgree

LEMMA KeysFollow == TablesIInv => KeysAgree
<1> SUFFICES ASSUME TablesIInv
             PROVE  KeysAgree
  OBVIOUS
<1> USE DEF TablesIInv
<1>1. ASSUME NEW f \in ckeys, NEW c \in ccols, c.id = f.col, c \in db.cols, ~Disowned(f)
      PROVE  \E k \in db.keys : /\ Constraint(k, c, f) /\ k.ref \in db.tabs
    BY <1>1 DEF EnforcedInv, Enforced, ConstraintsInv, CatalogColsInv
<1>2. KeysEnforced
  BY <1>1 DEF KeysEnforced, Constraint
<1>3. ReferencedStays
  <2>1. db.tabs \subseteq Ids
    BY DEF TablesInv, Ids
  <2>2. \A f \in ckeys : f.ref \in Ids
    BY DEF CatalogKeysInv, AskedInv, KnownTables, Ids
  <2>3. \A s, t \in Ids : TableNames[s] = TableNames[t] => NameOf(s) = NameOf(t)
    BY DEF TableNames
  <2> SUFFICES ASSUME NEW f \in ckeys, NEW c \in ccols, c.id = f.col, c \in db.cols, f.ref \notin db.tabs,
                      ~Disowned(f)
               PROVE  \E k \in db.keys : /\ k.name = f.col /\ k.table = c.table
                                         /\ k.ref # f.ref /\ NameOf(k.ref) = NameOf(f.ref)
    BY DEF ReferencedStays
  <2>4. PICK k \in db.keys : Constraint(k, c, f) /\ k.ref \in db.tabs
    BY <1>1
  <2>5. NameOf(k.ref) = NameOf(f.ref)
    BY <2>1, <2>2, <2>3, <2>4 DEF Constraint
  <2> QED BY <2>4, <2>5 DEF Constraint
<1>4. KeysKnown
  <2> SUFFICES ASSUME NEW k \in db.keys, k.table \in ctabs,
                      \A f \in ckeys : f.col # k.name,
                      \A r \in Requests : ~(/\ want[r].op = "key" /\ want[r].column.id = k.name
                                            /\ Unfinished(r))
               PROVE  Misdirected(k)
    BY DEF KeysKnown
  <2>1. PICK r \in Requests : /\ want[r].op = "key" /\ pc[r] \in InEffect
                              /\ k = KeyOn(want[r], k.table, k.ref)
    BY DEF ConstraintsInv
  <2>2. want[r].column.id = k.name /\ want[r].key.col = want[r].column.id
    BY <2>1 DEF KeyOn, ConstraintName, AskedInv
  <2>3. pc[r] = "done"
    BY <2>1, <2>2 DEF Unfinished, InEffect
  <2>4. ~({want[r].table, want[r].key.ref, want[r].target.table} \subseteq ctabs)
    BY <2>1, <2>2, <2>3 DEF CatalogKeysInv, Committed
  \* The table the constraint references is in the catalog if it is the one that was meant.
  <2>5. want[r].key.ref = k.ref => k.ref \in ctabs
    BY <2>1 DEF ConstraintsInv, AskedInv, TablesInv
  <2>6. want[r].key.ref \notin {want[r].target.table} \cap {k.ref} \/ want[r].table # k.table
    BY <2>4, <2>5
  <2> QED BY <2>1, <2>2, <2>6 DEF Misdirected
<1> QED BY <1>2, <1>3, <1>4 DEF KeysAgree

\* add_column, create_table and delete_table: the columns of the catalog and of the
\* tables agree, apart from requests that have not ended or drifted, columns
\* that went to a table that had taken the name of the one meant, and
\* columns a compensation took: another request's by name, or its own after a
\* commit that was not acknowledged.  For every number of requests and faults.
THEOREM ColumnsAlwaysAgree == Spec => []ColumnsAgree
BY TablesHold, ColumnsFollow, PTL

\* add_foreign_key and delete_table: a foreign key the catalog shows is
\* enforced and the table it references exists or another has its name, unless its
\* request took the constraint back after a commit that was not acknowledged; and a
\* constraint is in the catalog unless its request has not ended, drifted, or it was
\* misdirected.
THEOREM KeysAlwaysAgree == Spec => []KeysAgree
BY TablesHold, KeysFollow, PTL

-----------------------------------------------------------------------------
(***************************************************************************)
(* Analytics: the inductive invariant.                                     *)
(***************************************************************************)

FiniteTables == {rows \in SUBSET TableRows : IsFiniteSet(rows)}

\* What the fetches so far have counted, selected and seen.
FetchInv ==
  /\ content \in FiniteTables /\ op \in Operations
  /\ counted \in Seq(Nat) /\ fetched \in Seq(FiniteTables) /\ seenAt \in Seq(FiniteTables)
  /\ Len(seenAt) = Len(fetched) /\ Len(counted) <= Fetches
  /\ verdict = "done" => Len(fetched) = Fetches
  /\ Len(counted) > Len(fetched) =>
       Len(counted) \in raced \/ counted[Len(counted)] = Cardinality(content)
  /\ \A i \in DOMAIN fetched :
       /\ Cardinality(fetched[i]) <= RowCap
       /\ fetched[i] = seenAt[i] \/ i \in raced \/ counted[i] > RowCap

AnalyticsIInv == CapHolds /\ FetchInv /\ SamplesSuffice

-----------------------------------------------------------------------------
\* The rows that a fetch hands on.
LEMMA LimitedFacts ==
  ASSUME content \in FiniteTables, NEW rows \in Limited
  PROVE  /\ rows \in FiniteTables /\ Cardinality(rows) <= RowCap
         /\ Cardinality(content) <= RowCap => rows = content
<1>1. rows \in SUBSET content /\ Cardinality(rows) = Lesser(Cardinality(content), RowCap)
  BY DEF Limited
<1>2. /\ IsFiniteSet(content) /\ IsFiniteSet(rows) /\ Cardinality(rows) <= Cardinality(content)
      /\ Cardinality(rows) = Cardinality(content) => rows = content
  BY <1>1, FS_Subset DEF FiniteTables
<1>3. Cardinality(content) \in Nat /\ RowCap \in Nat
  BY <1>2, FS_CardinalityType, AnalyticsAssumption
<1>4. Cardinality(rows) <= RowCap /\ (Cardinality(content) <= RowCap => Cardinality(rows) = Cardinality(content))
  BY <1>1, <1>3 DEF Lesser
<1> QED
  BY <1>1, <1>2, <1>4 DEF FiniteTables

\* The initial states.
LEMMA InitAnalytics == AnalyticsInit => AnalyticsIInv
<1> SUFFICES ASSUME AnalyticsInit PROVE AnalyticsIInv
  OBVIOUS
<1> USE DEF AnalyticsInit
<1>1. content \in FiniteTables
  BY AnalyticsAssumption DEF FiniteTables
<1>2. Fetches \in 1..2
  BY DEF Fetches
<1>3. /\ counted \in Seq(Nat) /\ fetched \in Seq(FiniteTables) /\ seenAt \in Seq(FiniteTables)
      /\ Len(counted) = 0 /\ Len(fetched) = 0 /\ Len(seenAt) = 0 /\ DOMAIN fetched = {}
  OBVIOUS
<1>4. CapHolds
  BY <1>2, <1>3, AnalyticsAssumption DEF CapHolds
<1>5. FetchInv
  BY <1>1, <1>2, <1>3 DEF FetchInv
<1> QED
  BY <1>4, <1>5 DEF AnalyticsIInv, SamplesSuffice

\* A write: the rows change, and a fetch under way is known to have been overtaken.
LEMMA ChangeAnalytics == AnalyticsIInv /\ Change => AnalyticsIInv'
<1> SUFFICES ASSUME AnalyticsIInv, Change PROVE AnalyticsIInv'
  OBVIOUS
<1>0. /\ UNCHANGED <<op, counted, fetched, seenAt, verdict>> /\ verdict = "running"
      /\ raced' = IF Len(counted) > Len(fetched) THEN raced \cup {Len(counted)} ELSE raced
      /\ changes < MaxChanges /\ changes' = changes + 1
  BY DEF Change
<1>1. content' \in FiniteTables
  <2>0. content \in SUBSET TableRows /\ IsFiniteSet(content)
    BY DEF AnalyticsIInv, FetchInv, FiniteTables
  <2>1. CASE \E member \in content : content' = content \ {member}
    <3>1. IsFiniteSet(content')
      BY <2>0, <2>1, FS_Subset
    <3> QED
      BY <2>0, <2>1, <3>1 DEF FiniteTables
  <2>2. CASE \E member \in content, x \in BOOLEAN, y \in Values :
               content' = (content \ {member}) \cup {[member EXCEPT !.x = x, !.y = y]}
    <3>1. PICK member \in content, x \in BOOLEAN, y \in Values :
            content' = (content \ {member}) \cup {[member EXCEPT !.x = x, !.y = y]}
      BY <2>2
    <3>2. [member EXCEPT !.x = x, !.y = y] \in TableRows
      BY <2>0 DEF TableRows
    <3>3. IsFiniteSet(content \ {member})
      BY <2>0, FS_Subset
    <3>4. IsFiniteSet(content')
      BY <3>1, <3>3, FS_AddElement
    <3> QED
      BY <2>0, <3>1, <3>2, <3>4 DEF FiniteTables
  <2>3. CASE \E i \in 1..(Cardinality(content) + 1), x \in BOOLEAN, y \in Values :
               content' = content \cup {[id |-> i, x |-> x, y |-> y]}
    <3>1. PICK i \in 1..(Cardinality(content) + 1), x \in BOOLEAN, y \in Values :
            content' = content \cup {[id |-> i, x |-> x, y |-> y]}
      BY <2>3
    <3>2. i \in Nat
      BY <2>0, FS_CardinalityType
    <3>3. [id |-> i, x |-> x, y |-> y] \in TableRows
      BY <3>2 DEF TableRows
    <3>4. IsFiniteSet(content')
      BY <2>0, <3>1, FS_AddElement
    <3> QED
      BY <2>0, <3>1, <3>3, <3>4 DEF FiniteTables
  <2> QED
    BY <2>1, <2>2, <2>3 DEF Change
<1>2. CapHolds'
  BY <1>0, AnalyticsAssumption DEF AnalyticsIInv, CapHolds, Fetches
<1>3. raced \subseteq raced' /\ (Len(counted) > Len(fetched) => Len(counted) \in raced')
  BY <1>0
<1>4. FetchInv'
  BY <1>0, <1>1, <1>3 DEF AnalyticsIInv, FetchInv, Fetches
<1>5. SamplesSuffice'
  BY <1>0 DEF SamplesSuffice
<1> QED
  BY <1>2, <1>4, <1>5 DEF AnalyticsIInv

\* The first statement of a fetch.
LEMMA CountAnalytics == AnalyticsIInv /\ CountRows => AnalyticsIInv'
<1> SUFFICES ASSUME AnalyticsIInv, CountRows PROVE AnalyticsIInv'
  OBVIOUS
<1> USE DEF AnalyticsIInv, CountRows
<1>0. Cardinality(content) \in Nat
  BY FS_CardinalityType DEF FetchInv, FiniteTables
<1>1. /\ counted' \in Seq(Nat) /\ Len(counted') = Len(counted) + 1
      /\ counted'[Len(counted')] = Cardinality(content)
      /\ \A i \in DOMAIN counted : counted'[i] = counted[i]
  BY <1>0 DEF FetchInv
<1>2. CapHolds'
  BY <1>1 DEF CapHolds, Fetches, FetchInv
<1>3. Len(counted') <= Fetches' /\ verdict' # "done"
  BY <1>1 DEF Fetches, FetchInv
<1>4. \A i \in DOMAIN fetched : i \in DOMAIN counted
  BY DEF FetchInv
<1>5. FetchInv'
  BY <1>1, <1>3, <1>4 DEF FetchInv
<1> QED
  BY <1>2, <1>3, <1>5 DEF SamplesSuffice

\* The second.
LEMMA SelectAnalytics == AnalyticsIInv /\ SelectRows => AnalyticsIInv'
<1> SUFFICES ASSUME AnalyticsIInv, SelectRows PROVE AnalyticsIInv'
  OBVIOUS
<1> USE DEF AnalyticsIInv, SelectRows
<1>1. PICK rows \in Limited : fetched' = Append(fetched, rows)
  OBVIOUS
<1>2. /\ rows \in FiniteTables /\ Cardinality(rows) <= RowCap
      /\ Cardinality(content) <= RowCap => rows = content
  BY LimitedFacts DEF FetchInv
<1>3. Cardinality(content) \in Nat /\ RowCap \in Nat /\ content \in FiniteTables
  BY FS_CardinalityType, AnalyticsAssumption DEF FetchInv, FiniteTables
<1>4. /\ fetched' \in Seq(FiniteTables) /\ seenAt' \in Seq(FiniteTables)
      /\ Len(fetched') = Len(fetched) + 1 /\ Len(seenAt') = Len(seenAt) + 1
      /\ Len(counted) = Len(fetched')
  BY <1>1, <1>2, <1>3 DEF FetchInv
<1>5. /\ fetched'[Len(counted)] = rows /\ seenAt'[Len(counted)] = content
      /\ \A i \in DOMAIN fetched : fetched'[i] = fetched[i] /\ seenAt'[i] = seenAt[i]
      /\ \A i \in DOMAIN fetched' : i \in DOMAIN fetched \/ i = Len(counted)
  BY <1>1, <1>2, <1>3, <1>4 DEF FetchInv
<1>6. CapHolds'
  <2>1. Len(fetched') <= Fetches /\ Len(counted) \in Nat
    BY <1>4 DEF FetchInv
  <2>2. Len(counted) \in Len(fetched')..(Len(fetched') + 1)
    BY <1>4, <2>1
  <2>3. \A i \in DOMAIN fetched' : Cardinality(fetched'[i]) <= RowCap
    BY <1>2, <1>5 DEF CapHolds
  <2> QED
    BY <2>1, <2>2, <2>3 DEF CapHolds, Fetches
<1>7. rows = content \/ Len(counted) \in raced \/ counted[Len(counted)] > RowCap
  BY <1>2, <1>3 DEF FetchInv
<1>8. ASSUME NEW i \in DOMAIN fetched'
      PROVE  /\ Cardinality(fetched'[i]) <= RowCap
             /\ fetched'[i] = seenAt'[i] \/ i \in raced \/ counted[i] > RowCap
  BY <1>2, <1>5, <1>7 DEF FetchInv
<1>9. FetchInv'
  BY <1>4, <1>8 DEF FetchInv, Fetches
<1> QED
  BY <1>6, <1>9 DEF SamplesSuffice

\* Labels and groups of a finite table are finite, and groups that are not empty are as
\* many as their labels.
LEMMA GroupsCount ==
  ASSUME NEW rows \in FiniteTables,
         \A label \in Labels(rows) : Cardinality(Group(rows, label)) >= 2
  PROVE  Cardinality({Group(rows, label) : label \in Labels(rows)}) = Cardinality(Labels(rows))
<1> DEFINE value == [member \in Joint(rows) |-> member.y]
           group == [label \in Labels(rows) |-> Group(rows, label)]
           groups == {Group(rows, label) : label \in Labels(rows)}
<1>1. IsFiniteSet(Joint(rows))
  BY FS_Subset DEF Joint, Xs, FiniteTables
<1>2. value \in Surjection(Joint(rows), Labels(rows))
  BY DEF Surjection, Labels
<1>3. IsFiniteSet(Labels(rows))
  BY <1>1, <1>2, FS_Surjection
<1>4. ASSUME NEW label \in Labels(rows)
      PROVE  \E member \in Group(rows, label) : member.y = label
  BY DEF Labels, Group
<1>5. ASSUME NEW label \in Labels(rows)
      PROVE  \A member \in Group(rows, label) : member.y = label
  BY DEF Group
<1>6. group \in Injection(Labels(rows), groups)
  BY <1>4, <1>5 DEF Injection, IsInjective
<1>7. group \in Surjection(Labels(rows), groups)
  BY DEF Surjection
<1> QED
  BY <1>3, <1>6, <1>7, FS_Surjection

\* The computation refuses what is too little.
LEMMA ComputeAnalytics == AnalyticsIInv /\ Compute => AnalyticsIInv'
<1> SUFFICES ASSUME AnalyticsIInv, Compute PROVE AnalyticsIInv'
  OBVIOUS
<1>0. /\ UNCHANGED <<content, op, counted, fetched, seenAt, raced, changes>>
      /\ Len(fetched) = Fetches /\ verdict' = IF Enough(fetched) THEN "done" ELSE "invalid"
      /\ CapHolds /\ FetchInv /\ fetched \in Seq(FiniteTables)
  BY DEF Compute, AnalyticsIInv, FetchInv
<1>1. CapHolds'
  BY <1>0 DEF CapHolds, Fetches
<1>2. FetchInv'
  BY <1>0 DEF FetchInv, Fetches
<1>3. SamplesSuffice'
  <2> SUFFICES ASSUME Enough(fetched)
               PROVE  /\ op \in {"t_test_groups", "anova"} => \A s \in Samples(fetched) : Cardinality(s) >= 2
                      /\ op = "t_test_groups" => Cardinality(Samples(fetched)) = 2
                      /\ op \in PairedOps => \A i \in Used : Cardinality(fetched[i]) >= 3
    BY <1>0 DEF SamplesSuffice, Samples, Used, Fetches
  <2>1. ASSUME op = "t_test_groups"
        PROVE  /\ \A s \in Samples(fetched) : Cardinality(s) >= 2
               /\ Cardinality(Samples(fetched)) = 2
    <3>0. Fetches = 2
      BY <2>1 DEF Fetches, TTests
    <3>a. Len(fetched) = 2 /\ fetched \in Seq(FiniteTables)
      BY <1>0, <3>0
    <3>1. Len(fetched) = 2 /\ fetched[2] \in FiniteTables
      BY <3>a
    <3>2. Cardinality(Labels(fetched[2])) = 2 /\ \A s \in Samples(fetched) : Cardinality(s) >= 2
      BY <2>1 DEF Enough, NumericOps, CountingOps, PairedOps
    <3>3. Samples(fetched) = {Group(fetched[2], label) : label \in Labels(fetched[2])}
      BY <3>1 DEF Samples
    <3>4. \A label \in Labels(fetched[2]) : Cardinality(Group(fetched[2], label)) >= 2
      BY <3>2, <3>3
    <3> QED
      BY <3>1, <3>2, <3>3, <3>4, GroupsCount
  <2>2. op = "anova" => \A s \in Samples(fetched) : Cardinality(s) >= 2
    BY DEF Enough, NumericOps, CountingOps, PairedOps
  <2>3. ASSUME op \in PairedOps, NEW i \in Used
        PROVE  Cardinality(fetched[i]) >= 3
    <3>1. Fetches = 2 /\ i \in 1..2
      BY <2>3 DEF Fetches, Used, PairedOps
    <3>2. fetched[1] \in FiniteTables /\ fetched[2] \in FiniteTables
      BY <1>0, <3>1
    <3>3. NumPairs(fetched) >= 3
      BY <2>3 DEF Enough, NumericOps, CountingOps, PairedOps
    <3>4. /\ Cardinality(Xs(fetched[1])) <= Cardinality(fetched[1]) /\ Cardinality(Xs(fetched[1])) \in Nat
          /\ Cardinality(Ys(fetched[2])) <= Cardinality(fetched[2]) /\ Cardinality(Ys(fetched[2])) \in Nat
          /\ Cardinality(fetched[1]) \in Nat /\ Cardinality(fetched[2]) \in Nat
      BY <3>2, FS_Subset, FS_CardinalityType DEF Xs, Ys, FiniteTables
    <3> QED
      BY <3>1, <3>3, <3>4 DEF NumPairs, Lesser
  <2> QED
    BY <2>1, <2>2, <2>3
<1> QED
  BY <1>1, <1>2, <1>3 DEF AnalyticsIInv

\* Every step.
LEMMA NextAnalytics == AnalyticsIInv /\ [AnalyticsNext]_analyticsVars => AnalyticsIInv'
<1>1. ASSUME AnalyticsIInv, UNCHANGED analyticsVars PROVE AnalyticsIInv'
  BY <1>1 DEF AnalyticsIInv, analyticsVars, CapHolds, FetchInv, Fetches, SamplesSuffice, Samples, Used
<1>2. ASSUME AnalyticsIInv, GiveUp PROVE AnalyticsIInv'
  <2>1. /\ UNCHANGED <<content, op, counted, fetched, seenAt, raced, changes>>
        /\ verdict' \in {"invalid", "failed"}
    BY <1>2 DEF GiveUp
  <2>2. CapHolds'
    BY <1>2, <2>1 DEF AnalyticsIInv, CapHolds, Fetches
  <2>3. FetchInv'
    BY <1>2, <2>1 DEF AnalyticsIInv, FetchInv, Fetches
  <2> QED
    BY <2>1, <2>2, <2>3 DEF AnalyticsIInv, SamplesSuffice
<1> QED
  BY <1>1, <1>2, ChangeAnalytics, CountAnalytics, SelectAnalytics, ComputeAnalytics DEF AnalyticsNext

-----------------------------------------------------------------------------
\* A result that is not marked truncated comes from every member there was.
LEMMA TruncationIsTold == AnalyticsIInv => TruncationTold
<1> SUFFICES ASSUME AnalyticsIInv, verdict = "done", ~ReportsTruncated, NEW i \in Used
             PROVE  fetched[i] = seenAt[i] \/ i \in raced
  BY DEF TruncationTold
<1>1. i \in DOMAIN fetched
  <2>1. Len(fetched) = Fetches /\ Fetches \in Nat /\ fetched \in Seq(FiniteTables)
    BY DEF AnalyticsIInv, FetchInv, Fetches
  <2>2. i \in 1..Fetches
    BY DEF Used, Fetches, TTests
  <2> QED
    BY <2>1, <2>2
<1>2. ~(counted[i] > RowCap)
  BY DEF ReportsTruncated, Truncated
<1> QED
  BY <1>1, <1>2 DEF AnalyticsIInv, FetchInv

\* One more value, when a NULL is among them.
LEMMA CountsAgree ==
  ASSUME NEW rows \in FiniteTables
  PROVE  DistinctCount(rows) = ProfileUnique(rows) + (IF MissingCount(rows) > 0 THEN 1 ELSE 0)
<1> DEFINE values == {member.y : member \in rows}
           some == {member.y : member \in Ys(rows)}
           y == [member \in Ys(rows) |-> member.y]
<1>1. IsFiniteSet(rows) /\ Ys(rows) \in SUBSET rows
  BY DEF FiniteTables, Ys
<1>2. /\ IsFiniteSet(Ys(rows)) /\ Cardinality(Ys(rows)) <= Cardinality(rows)
      /\ Cardinality(Ys(rows)) = Cardinality(rows) => Ys(rows) = rows
  BY <1>1, FS_Subset
<1>3. Cardinality(Ys(rows)) \in Nat /\ Cardinality(rows) \in Nat
  BY <1>1, <1>2, FS_CardinalityType
<1>4. some = values \ {0}
  BY DEF Ys
<1>5. y \in Surjection(Ys(rows), some)
  BY DEF Surjection
<1>6. IsFiniteSet(some)
  BY <1>2, <1>5, FS_Surjection
<1>7. Cardinality(some) \in Nat
  BY <1>6, FS_CardinalityType
<1>8. MissingCount(rows) > 0 <=> 0 \in values
  <2>1. MissingCount(rows) > 0 <=> Cardinality(Ys(rows)) # Cardinality(rows)
    BY <1>2, <1>3 DEF MissingCount
  <2>2. Cardinality(Ys(rows)) # Cardinality(rows) <=> Ys(rows) # rows
    BY <1>2
  <2>3. Ys(rows) # rows <=> \E member \in rows : member.y = 0
    BY DEF Ys
  <2> QED
    BY <2>1, <2>2, <2>3
<1>9. DistinctCount(rows) = Cardinality(values) /\ ProfileUnique(rows) = Cardinality(some)
  BY DEF DistinctCount, ProfileUnique
<1> HIDE DEF values, some
<1>10. CASE 0 \in values
  <2>1. values = some \cup {0} /\ 0 \notin some
    BY <1>4, <1>10
  <2>2. Cardinality(values) = Cardinality(some) + 1
    BY <1>6, <2>1, FS_AddElement
  <2> QED
    BY <1>8, <1>9, <1>10, <2>2
<1>11. CASE 0 \notin values
  <2>1. values = some
    BY <1>4, <1>11
  <2> QED
    BY <1>7, <1>8, <1>9, <1>11, <2>1
<1> QED
  BY <1>10, <1>11

\* For every table, cap and sequence of writes: a result says what it was
\* computed from.
THEOREM ResultsAlwaysHonest == AnalyticsSpec => []ResultsAreHonest
<1>1. AnalyticsIInv => ResultsAreHonest
  <2>1. AnalyticsIInv => CountsAgreeOnNull
    BY CountsAgree DEF AnalyticsIInv, FetchInv, CountsAgreeOnNull
  <2> QED
    BY <2>1, TruncationIsTold DEF AnalyticsIInv, ResultsAreHonest
<1> QED
  BY <1>1, InitAnalytics, NextAnalytics, PTL DEF AnalyticsSpec
=============================================================================
