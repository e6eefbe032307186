------------------------ MODULE AuthSessions_proofs ------------------------
(***************************************************************************)
(* Theorems about accounts and sessions: types, who is signed in, and what  *)
(* a change of the password does to the sessions of before.                 *)
(***************************************************************************)
EXTENDS AuthSessions, TLAPS

LEMMA IdleTyped == Idle \in Job /\ Prepared(Idle)
BY DEF Idle, Job, Prepared

(* A step that gives one request a prepared job keeps the others prepared:  *)
(* accounts do not go away.                                                 *)
LEMMA JobSet ==
  ASSUME JobsTyped, users \subseteq users',
         NEW q \in Request, NEW j, j \in Job, Prepared(j)',
         job' = [job EXCEPT ![q] = j]
  PROVE  JobsTyped'
<1>1. job' \in [Request -> Job]
  BY DEF JobsTyped
<1>2. ASSUME NEW r \in Request PROVE Prepared(job[r])'
  <2>1. CASE r = q
    BY <2>1 DEF JobsTyped
  <2>2. CASE r # q
    <3>1. job'[r] = job[r] /\ Prepared(job[r])
      BY <2>2 DEF JobsTyped
    <3> QED
      BY <3>1 DEF Prepared
  <2> QED
    BY <2>1, <2>2
<1> QED
  BY <1>1, <1>2 DEF JobsTyped

LEMMA ReturnTyped ==
  ASSUME JobsTyped, users \subseteq users', NEW q \in Request, Return(q)
  PROVE  JobsTyped'
<1>1. Idle \in Job /\ Prepared(Idle)'
  BY DEF Idle, Job, Prepared
<1> QED
  BY <1>1, JobSet DEF Return

LEMMA StartTyped ==
  ASSUME AuthTypeOK, UNCHANGED users, NEW q \in Request,
         NEW at \in {"create", "code", "session", "consume", "verify", "gcreate", "gverify",
                     "hash", "revokeall", "markused", "revoke", "revokeothers"},
         NEW e \in Email, NEW p \in Password \cup {None},
         NEW x \in Session \cup Code \cup ResetToken \cup {None},
         at \notin {"create", "gcreate"} => e \in users,
         at \in {"create", "hash"} => p \in Password,
         at = "consume" => x \in Code,
         at = "revoke" => x \in Session,
         at = "revokeothers" => x \in Session \cup {None},
         at \in {"hash", "revokeall"} => x \in ResetToken \cup {None},
         at = "markused" => x \in ResetToken,
         Start(q, at, e, p, x)
  PROVE  JobsTyped'
<1> DEFINE j == [at |-> at, user |-> e, secret |-> p, item |-> x, overtaken |-> FALSE]
<1>1. j \in Job /\ Prepared(j)'
  BY DEF Job, Prepared
<1>2. job' = [job EXCEPT ![q] = j]
  BY DEF Start
<1> QED
  <2> HIDE DEF j
  <2> QED
    BY <1>1, <1>2, JobSet DEF AuthTypeOK

LEMMA GotoTyped ==
  ASSUME AuthTypeOK, users \subseteq users', NEW q \in Request,
         NEW at \in {"code", "session", "verify", "revokeall", "markused"},
         job[q].user \in users',
         NEW x \in Session \cup Code \cup ResetToken \cup {None},
         at = "revokeall" => x \in ResetToken \cup {None},
         at = "markused" => x \in ResetToken,
         job[q].user \in Email,
         Goto(q, at, x)
  PROVE  JobsTyped'
<1>1. PICK j : j = Continue(job[q], at, x)
  OBVIOUS
<1>2. job' = [job EXCEPT ![q] = j]
  BY <1>1 DEF Goto, AuthTypeOK, JobsTyped
<1>3. j.at = at /\ j.user = job[q].user /\ j.secret = None /\ j.item = x /\ j \in Job
  BY <1>1 DEF Continue, Idle, Job
<1>4. Prepared(j)'
  BY <1>3 DEF Prepared
<1> QED
  BY <1>2, <1>3, <1>4, JobSet DEF AuthTypeOK

(* What a request at a given statement knows.                               *)
LEMMA AtOK ==
  ASSUME AuthTypeOK, NEW q \in Request
  PROVE  /\ job[q] \in Job /\ Prepared(job[q])
         /\ job[q].at # "idle" => job[q].user \in Email
         /\ job[q].at \notin {"idle", "create", "gcreate"} => job[q].user \in users
BY DEF AuthTypeOK, JobsTyped, Prepared

LEMMA InitTyped == AuthInit => AuthTypeOK
<1> SUFFICES ASSUME AuthInit PROVE AuthTypeOK
  OBVIOUS
<1>1. UsersTyped
  BY DEF AuthInit, UsersTyped
<1>2. SessionsTyped /\ MailTyped /\ tokens \subseteq Token
  BY DEF AuthInit, SessionsTyped, MailTyped
<1>3. JobsTyped
  BY IdleTyped DEF AuthInit, JobsTyped
<1> QED
  BY <1>1, <1>2, <1>3 DEF AuthTypeOK

LEMMA SignUpTyped ==
  ASSUME AuthTypeOK, NEW q \in Request, SignUp(q)
  PROVE  AuthTypeOK'
<1> USE NoneAssumption, RandomAssumption, AtOK
<1>1. ASSUME NEW e \in Email, NEW p \in Password, Register(q, e, p) PROVE AuthTypeOK'
  <2>1. JobsTyped'
    BY <1>1, StartTyped DEF Register, userVars
  <2> QED
    BY <1>1, <2>1 DEF Register, AuthTypeOK, UsersTyped, SessionsTyped, MailTyped,
       userVars, sessionVars, mailVars
<1>2. ASSUME CreateUser(q) PROVE AuthTypeOK'
  <2> DEFINE e == job[q].user
  <2>1. e \in Email /\ job[q].secret \in Password /\ users \subseteq users'
    BY <1>2 DEF CreateUser, Prepared
  <2>2. JobsTyped'
    <3>1. CASE Return(q)
      BY <3>1, <2>1, ReturnTyped DEF AuthTypeOK
    <3>2. CASE e \in users' /\ Goto(q, "code", None)
      BY <3>2, <2>1, GotoTyped
    <3> QED
      BY <1>2, <3>1, <3>2 DEF CreateUser
  <2>3. UsersTyped'
    BY <1>2, <2>1 DEF CreateUser, AuthTypeOK, UsersTyped
  <2> QED
    BY <1>2, <2>1, <2>2, <2>3 DEF CreateUser, AuthTypeOK, SessionsTyped, MailTyped,
       sessionVars, mailVars
<1>3. ASSUME NEW e \in Email, ResendVerification(q, e) PROVE AuthTypeOK'
  <2>1. JobsTyped'
    BY <1>3, StartTyped DEF ResendVerification, userVars
  <2> QED
    BY <1>3, <2>1 DEF ResendVerification, AuthTypeOK, UsersTyped, SessionsTyped, MailTyped,
       userVars, sessionVars, mailVars
<1>4. ASSUME CreateVerificationCode(q) PROVE AuthTypeOK'
  <2>1. JobsTyped'
    BY <1>4, ReturnTyped DEF CreateVerificationCode, userVars, AuthTypeOK
  <2>2. MailTyped'
    <3>1. job[q].user \in users /\ job[q].user # None
      BY <1>4 DEF CreateVerificationCode, AuthTypeOK, UsersTyped
    <3> QED
      BY <1>4, <3>1 DEF CreateVerificationCode, AuthTypeOK, MailTyped, userVars
  <2> QED
    BY <1>4, <2>1, <2>2 DEF CreateVerificationCode, AuthTypeOK, UsersTyped, SessionsTyped,
       userVars, sessionVars
<1>5. ASSUME NEW c \in Code, Verify(q, c) PROVE AuthTypeOK'
  <2>1. mailedTo[c] \in users /\ mailedTo[c] \in Email
    BY <1>5 DEF Verify, AuthTypeOK, MailTyped, UsersTyped
  <2>2. JobsTyped'
    BY <1>5, <2>1, StartTyped DEF Verify, userVars
  <2> QED
    BY <1>5, <2>2 DEF Verify, AuthTypeOK, UsersTyped, SessionsTyped, MailTyped,
       userVars, sessionVars, mailVars
<1>6. ASSUME DeleteVerificationCode(q) PROVE AuthTypeOK'
  <2>1. JobsTyped'
    BY <1>6, GotoTyped DEF DeleteVerificationCode, userVars
  <2> QED
    BY <1>6, <2>1 DEF DeleteVerificationCode, AuthTypeOK, UsersTyped, SessionsTyped, MailTyped,
       userVars, sessionVars
<1>7. ASSUME SetVerified(q) PROVE AuthTypeOK'
  <2>1. JobsTyped'
    BY <1>7, GotoTyped DEF SetVerified
  <2>2. UsersTyped'
    BY <1>7 DEF SetVerified, AuthTypeOK, UsersTyped
  <2> QED
    BY <1>7, <2>1, <2>2 DEF SetVerified, AuthTypeOK, SessionsTyped, MailTyped,
       sessionVars, mailVars
<1> QED
  BY <1>1, <1>2, <1>3, <1>4, <1>5, <1>6, <1>7 DEF SignUp

LEMMA SignInTyped ==
  ASSUME AuthTypeOK, NEW q \in Request, SignIn(q)
  PROVE  AuthTypeOK'
<1> USE NoneAssumption, RandomAssumption, AtOK
<1>1. ASSUME NEW e \in Email, NEW p \in Password, Login(q, e, p) PROVE AuthTypeOK'
  <2>1. JobsTyped'
    BY <1>1, StartTyped DEF Login, PasswordMatches, userVars
  <2> QED
    BY <1>1, <2>1 DEF Login, AuthTypeOK, UsersTyped, SessionsTyped, MailTyped,
       userVars, sessionVars, mailVars
<1>2. ASSUME NEW e \in Email, GoogleOAuth(q, e) PROVE AuthTypeOK'
  <2>1. JobsTyped'
    <3>1. CASE Start(q, "gcreate", e, None, None)
      BY <1>2, <3>1, StartTyped DEF GoogleOAuth, userVars
    <3>2. CASE e \in users /\ Start(q, "gverify", e, None, None)
      BY <1>2, <3>2, StartTyped DEF GoogleOAuth, userVars
    <3>3. CASE e \in users /\ Start(q, "session", e, None, None)
      BY <1>2, <3>3, StartTyped DEF GoogleOAuth, userVars
    <3> QED
      BY <1>2, <3>1, <3>2, <3>3 DEF GoogleOAuth
  <2> QED
    BY <1>2, <2>1 DEF GoogleOAuth, AuthTypeOK, UsersTyped, SessionsTyped, MailTyped,
       userVars, sessionVars, mailVars
<1>3. ASSUME CreateGoogleUser(q) PROVE AuthTypeOK'
  <2> DEFINE e == job[q].user
  <2>1. e \in Email /\ users \subseteq users'
    BY <1>3 DEF CreateGoogleUser, userVars
  <2>2. JobsTyped'
    <3>1. CASE Return(q)
      BY <3>1, <2>1, ReturnTyped DEF AuthTypeOK
    <3>2. CASE e \in users' /\ Goto(q, "session", None)
      BY <3>2, <2>1, GotoTyped
    <3> QED
      BY <1>3, <3>1, <3>2 DEF CreateGoogleUser
  <2>3. UsersTyped'
    BY <1>3, <2>1 DEF CreateGoogleUser, AuthTypeOK, UsersTyped, userVars
  <2> QED
    BY <1>3, <2>1, <2>2, <2>3 DEF CreateGoogleUser, AuthTypeOK, SessionsTyped, MailTyped,
       sessionVars, mailVars
<1>4. ASSUME SetGoogleVerified(q) PROVE AuthTypeOK'
  <2>1. JobsTyped'
    BY <1>4, GotoTyped DEF SetGoogleVerified
  <2>2. UsersTyped'
    BY <1>4 DEF SetGoogleVerified, AuthTypeOK, UsersTyped
  <2> QED
    BY <1>4, <2>1, <2>2 DEF SetGoogleVerified, AuthTypeOK, SessionsTyped, MailTyped,
       sessionVars, mailVars
<1>5. ASSUME CreateSession(q) PROVE AuthTypeOK'
  <2> DEFINE e == job[q].user
  <2>1. e \in users /\ e \in Email
    BY <1>5 DEF CreateSession
  <2>2. JobsTyped'
    BY <1>5, ReturnTyped DEF CreateSession, userVars, AuthTypeOK
  <2>3. tokens' \subseteq Token
    <3>1. \A s \in Session \cup {None} : {AccessToken(e, s), RefreshToken(e, s)} \subseteq Token
      BY <2>1 DEF AccessToken, RefreshToken, Token
    <3> QED
      BY <1>5, <3>1 DEF CreateSession, AuthTypeOK
  <2>4. SessionsTyped'
    <3>1. CASE UNCHANGED sessionVars
      BY <1>5, <3>1 DEF CreateSession, AuthTypeOK, SessionsTyped, sessionVars, userVars
    <3>2. ASSUME NEW s \in Session \ used, used' = used \cup {s},
                 sessions' = sessions \cup {[id |-> s, user |-> e, checked |-> job[q].secret,
                                             raced |-> job[q].overtaken]}
          PROVE  SessionsTyped'
      <4>1. [id |-> s, user |-> e, checked |-> job[q].secret, raced |-> job[q].overtaken]
              \in SessionRow
        BY <2>1 DEF SessionRow, Job
      <4> QED
        BY <1>5, <2>1, <3>2, <4>1 DEF CreateSession, AuthTypeOK, SessionsTyped, userVars
    <3> QED
      BY <1>5, <3>1, <3>2 DEF CreateSession
  <2> QED
    BY <1>5, <2>2, <2>3, <2>4 DEF CreateSession, AuthTypeOK, UsersTyped, MailTyped,
       userVars, mailVars
<1> QED
  BY <1>1, <1>2, <1>3, <1>4, <1>5 DEF SignIn

LEMMA ManagePasswordTyped ==
  ASSUME AuthTypeOK, NEW q \in Request, ManagePassword(q)
  PROVE  AuthTypeOK'
<1> USE NoneAssumption, RandomAssumption, AtOK
<1>1. ASSUME NEW t \in ResetToken, NEW p \in Password, ResetPassword(q, t, p)
      PROVE AuthTypeOK'
  <2>1. mailedTo[t] \in users /\ mailedTo[t] \in Email
    BY <1>1 DEF ResetPassword, AuthTypeOK, MailTyped, UsersTyped
  <2>2. JobsTyped'
    BY <1>1, <2>1, StartTyped DEF ResetPassword, userVars
  <2> QED
    BY <1>1, <2>2 DEF ResetPassword, AuthTypeOK, UsersTyped, SessionsTyped, MailTyped,
       userVars, sessionVars, mailVars
<1>2. ASSUME NEW t \in tokens, NEW old \in Password, NEW new \in Password,
             ChangePassword(q, t, old, new)
      PROVE AuthTypeOK'
  <2>1. t.user \in users /\ t.user \in Email
    BY <1>2 DEF ChangePassword, PasswordMatches, AuthTypeOK, UsersTyped
  <2>2. JobsTyped'
    BY <1>2, <2>1, StartTyped DEF ChangePassword, userVars
  <2> QED
    BY <1>2, <2>2 DEF ChangePassword, AuthTypeOK, UsersTyped, SessionsTyped, MailTyped,
       userVars, sessionVars, mailVars
<1>3. ASSUME UpdateHash(q) PROVE AuthTypeOK'
  <2>1. /\ job[q].user \in users /\ job[q].user \in Email
        /\ job[q].secret \in Password /\ job[q].item \in ResetToken \cup {None}
    BY <1>3 DEF UpdateHash, Prepared
  <2>2. UsersTyped'
    BY <1>3, <2>1 DEF UpdateHash, AuthTypeOK, UsersTyped
  <2>3. JobsTyped'
    <3>1. ASSUME NEW r \in Request PROVE job'[r] \in Job /\ Prepared(job[r])'
      <4>1. CASE r = q
        <5>1. PICK j : j = Continue(job[q], "revokeall", job[q].item)
          OBVIOUS
        <5>2. j.at = "revokeall" /\ j.user = job[q].user /\ j.item = job[q].item /\ j \in Job
          BY <1>3, <2>1, <5>1 DEF Continue, Idle, Job, UpdateHash
        <5>3. job'[r] = j
          BY <1>3, <4>1, <5>1 DEF UpdateHash
        <5>4. users' = users
          BY <1>3 DEF UpdateHash
        <5> QED
          BY <2>1, <5>2, <5>3, <5>4 DEF Prepared
      <4>2. CASE r # q
        <5>1. \/ job'[r] = job[r]
              \/ job'[r] = [job[r] EXCEPT !.overtaken = TRUE]
          BY <1>3, <4>2 DEF UpdateHash
        <5>2. /\ job'[r] \in Job /\ job'[r].at = job[r].at /\ job'[r].user = job[r].user
              /\ job'[r].secret = job[r].secret /\ job'[r].item = job[r].item
          BY <5>1 DEF Job
        <5>3. users' = users
          BY <1>3 DEF UpdateHash
        <5> QED
          BY <5>2, <5>3 DEF Prepared
      <4> QED
        BY <4>1, <4>2
    <3>2. job' \in [Request -> Job]
      BY <1>3, <3>1 DEF UpdateHash
    <3> QED
      BY <3>1, <3>2 DEF JobsTyped
  <2> QED
    BY <1>3, <2>2, <2>3 DEF UpdateHash, AuthTypeOK, SessionsTyped, MailTyped,
       sessionVars, mailVars
<1>4. ASSUME DeleteSessions(q) PROVE AuthTypeOK'
  <2>1. job[q].user \in users /\ job[q].item \in ResetToken \cup {None}
    BY <1>4 DEF DeleteSessions, Prepared
  <2>2. JobsTyped'
    <3>1. CASE Return(q)
      BY <1>4, <3>1, ReturnTyped DEF DeleteSessions, userVars, AuthTypeOK
    <3>2. CASE job[q].item # None /\ Goto(q, "markused", job[q].item)
      <4>1. PICK x : x = job[q].item
        OBVIOUS
      <4> QED
        BY <1>4, <2>1, <3>2, <4>1, GotoTyped DEF DeleteSessions, userVars
    <3> QED
      BY <1>4, <3>1, <3>2 DEF DeleteSessions
  <2> QED
    BY <1>4, <2>2 DEF DeleteSessions, AuthTypeOK, UsersTyped, SessionsTyped, MailTyped,
       userVars, mailVars
<1>5. ASSUME MarkResetTokenUsed(q) PROVE AuthTypeOK'
  <2>1. JobsTyped'
    BY <1>5, ReturnTyped DEF MarkResetTokenUsed, userVars, AuthTypeOK
  <2> QED
    BY <1>5, <2>1 DEF MarkResetTokenUsed, AuthTypeOK, UsersTyped, SessionsTyped, MailTyped,
       userVars, sessionVars
<1> QED
  BY <1>1, <1>2, <1>3, <1>4, <1>5 DEF ManagePassword

LEMMA EndSessionsTyped ==
  ASSUME AuthTypeOK, NEW q \in Request, EndSessions(q)
  PROVE  AuthTypeOK'
<1> USE NoneAssumption, RandomAssumption, AtOK
<1>1. ASSUME NEW t \in tokens, NEW p \in Password, NEW s \in Session, RevokeSession(q, t, p, s)
      PROVE AuthTypeOK'
  <2>1. t.user \in users /\ t.user \in Email
    BY <1>1 DEF RevokeSession, PasswordMatches, AuthTypeOK, UsersTyped
  <2>2. JobsTyped'
    BY <1>1, <2>1, StartTyped DEF RevokeSession, userVars
  <2> QED
    BY <1>1, <2>2 DEF RevokeSession, AuthTypeOK, UsersTyped, SessionsTyped, MailTyped,
       userVars, sessionVars, mailVars
<1>2. ASSUME DeleteSession(q) PROVE AuthTypeOK'
  <2>1. JobsTyped'
    BY <1>2, ReturnTyped DEF DeleteSession, userVars, AuthTypeOK
  <2> QED
    BY <1>2, <2>1 DEF DeleteSession, WithoutSession, AuthTypeOK, UsersTyped, SessionsTyped,
       MailTyped, userVars, mailVars
<1>3. ASSUME NEW t \in tokens, NEW p \in Password, RevokeAllOtherSessions(q, t, p)
      PROVE AuthTypeOK'
  <2>1. t.user \in users /\ t.user \in Email /\ t.session \in Session \cup {None}
    BY <1>3 DEF RevokeAllOtherSessions, PasswordMatches, AuthTypeOK, UsersTyped, Token
  <2>2. PICK x : x = t.session
    OBVIOUS
  <2>3. JobsTyped'
    BY <1>3, <2>1, <2>2, StartTyped DEF RevokeAllOtherSessions, userVars
  <2> QED
    BY <1>3, <2>3 DEF RevokeAllOtherSessions, AuthTypeOK, UsersTyped, SessionsTyped, MailTyped,
       userVars, sessionVars, mailVars
<1>4. ASSUME DeleteOtherSessions(q) PROVE AuthTypeOK'
  <2>1. JobsTyped'
    BY <1>4, ReturnTyped DEF DeleteOtherSessions, userVars, AuthTypeOK
  <2>2. sessions' \subseteq sessions
    BY <1>4 DEF DeleteOtherSessions
  <2> QED
    BY <1>4, <2>1, <2>2 DEF DeleteOtherSessions, AuthTypeOK, UsersTyped, SessionsTyped,
       MailTyped, userVars, mailVars
<1> QED
  BY <1>1, <1>2, <1>3, <1>4 DEF EndSessions

LEMMA NextTyped == AuthTypeOK /\ [AuthNext]_vars => AuthTypeOK'
<1> SUFFICES ASSUME AuthTypeOK, [AuthNext]_vars PROVE AuthTypeOK'
  OBVIOUS
<1> USE NoneAssumption
<1>1. ASSUME NEW q \in Request, Abort(q) PROVE AuthTypeOK'
  <2>1. JobsTyped'
    BY <1>1, ReturnTyped DEF Abort, userVars, AuthTypeOK
  <2>2. unfinished' \subseteq Email
    BY <1>1, AtOK DEF Abort, AuthTypeOK, UsersTyped
  <2> QED
    BY <1>1, <2>1, <2>2 DEF Abort, AuthTypeOK, UsersTyped, SessionsTyped, MailTyped,
       userVars, sessionVars, mailVars
<1>2. ASSUME NEW e \in Email, NEW t \in ResetToken, ForgotPassword(e, t) PROVE AuthTypeOK'
  <2>1. MailTyped'
    BY <1>2 DEF ForgotPassword, AuthTypeOK, MailTyped, UsersTyped, userVars
  <2> QED
    BY <1>2, <2>1 DEF ForgotPassword, AuthTypeOK, UsersTyped, SessionsTyped, JobsTyped, Prepared,
       userVars, sessionVars
<1>3. ASSUME NEW t \in tokens, Refresh(t) PROVE AuthTypeOK'
  <2>1. AccessToken(t.user, t.session) \in Token
    BY DEF AccessToken, Token, AuthTypeOK
  <2> QED
    BY <1>3, <2>1 DEF Refresh, AuthTypeOK, UsersTyped, SessionsTyped, MailTyped,
       JobsTyped, Prepared, userVars, sessionVars, mailVars
<1>4. ASSUME NEW t \in tokens, Logout(t) PROVE AuthTypeOK'
  BY <1>4 DEF Logout, WithoutSession, AuthTypeOK, UsersTyped, SessionsTyped, MailTyped,
     JobsTyped, Prepared, userVars, mailVars
<1>5. ASSUME Expire PROVE AuthTypeOK'
  <2>1. codes' \subseteq codes /\ resets' \subseteq resets /\ tokens' \subseteq tokens
    BY <1>5 DEF Expire
  <2> QED
    BY <1>5, <2>1 DEF Expire, AuthTypeOK, UsersTyped, SessionsTyped, MailTyped,
       JobsTyped, Prepared, userVars, sessionVars
<1>6. CASE UNCHANGED vars
  BY <1>6 DEF vars, AuthTypeOK, UsersTyped, SessionsTyped, MailTyped,
     JobsTyped, Prepared, userVars, sessionVars, mailVars
<1> QED
  BY <1>1, <1>2, <1>3, <1>4, <1>5, <1>6, SignUpTyped, SignInTyped, ManagePasswordTyped,
     EndSessionsTyped DEF AuthNext

(* Types hold in every reachable state, for any number of accounts,         *)
(* sessions and overlapping requests.                                       *)
THEOREM Typing == AuthSpec => []AuthTypeOK
BY InitTyped, NextTyped, PTL DEF AuthSpec

-----------------------------------------------------------------------------
(* A log-in that no change of the password has overtaken is about to create *)
(* a session for the password the account has.                              *)
LoginsFresh ==
  \A q \in Request : job[q].at = "session" /\ ~job[q].overtaken =>
    job[q].secret \in {None, hash[job[q].user]}

Follow == SessionsFollowPassword /\ LoginsFresh

(* A step of a request that is not about to end the sessions.               *)
LEMMA StepFollows ==
  ASSUME AuthTypeOK, Follow, NEW q \in Request, NEW j,
         job' = [job EXCEPT ![q] = j], job[q].at # "revokeall",
         UNCHANGED <<hash, unfinished>>, sessions' \subseteq sessions,
         j.at = "session" /\ ~j.overtaken => j.secret \in {None, hash[j.user]}
  PROVE  Follow'
<1>1. \A r \in Request : job'[r] = IF r = q THEN j ELSE job[r]
  BY DEF AuthTypeOK, JobsTyped
<1>2. LoginsFresh'
  BY <1>1 DEF Follow, LoginsFresh
<1>3. SessionsFollowPassword'
  BY <1>1 DEF Follow, SessionsFollowPassword
<1> QED
  BY <1>2, <1>3 DEF Follow

LEMMA ReturnFollows ==
  ASSUME AuthTypeOK, Follow, NEW q \in Request, Return(q), job[q].at # "revokeall",
         UNCHANGED <<hash, unfinished>>, sessions' \subseteq sessions
  PROVE  Follow'
BY StepFollows DEF Return, Idle

LEMMA GotoFollows ==
  ASSUME AuthTypeOK, Follow, NEW q \in Request, NEW at, NEW x, Goto(q, at, x),
         job[q].at # "revokeall",
         UNCHANGED <<hash, unfinished>>, sessions' \subseteq sessions
  PROVE  Follow'
<1>1. PICK j : j = Continue(job[q], at, x)
  OBVIOUS
<1>2. job' = [job EXCEPT ![q] = j]
  BY <1>1 DEF Goto, AuthTypeOK, JobsTyped
<1>3. j.secret = None
  BY <1>1 DEF Continue, Idle
<1> QED
  BY <1>2, <1>3, StepFollows

LEMMA StartFollows ==
  ASSUME AuthTypeOK, Follow, NEW q \in Request, NEW at, NEW e, NEW p, NEW x,
         Start(q, at, e, p, x), UNCHANGED <<hash, sessions, unfinished>>,
         at = "session" => p \in {None, hash[e]}
  PROVE  Follow'
<1> DEFINE j == [at |-> at, user |-> e, secret |-> p, item |-> x, overtaken |-> FALSE]
<1>1. job' = [job EXCEPT ![q] = j] /\ job[q].at # "revokeall"
  BY DEF Start
<1>2. j.at = "session" /\ ~j.overtaken => j.secret \in {None, hash[j.user]}
  OBVIOUS
<1> QED
  <2> HIDE DEF j
  <2> QED
    BY <1>1, <1>2, StepFollows

(* An account that is created has neither sessions nor log-ins.             *)
LEMMA CreateFollows ==
  ASSUME AuthTypeOK, Follow, NEW q \in Request, NEW e, NEW h, NEW at, e \notin users,
         hash' = [hash EXCEPT ![e] = h], Goto(q, at, None),
         job[q].at # "revokeall", UNCHANGED <<sessions, unfinished>>
  PROVE  Follow'
<1>1. PICK j : j = Continue(job[q], at, None)
  OBVIOUS
<1>2. job' = [job EXCEPT ![q] = j] /\ j.secret = None
  BY <1>1 DEF Goto, AuthTypeOK, JobsTyped, Continue, Idle
<1>3. \A r \in Request : job'[r] = IF r = q THEN j ELSE job[r]
  BY <1>2 DEF AuthTypeOK, JobsTyped
<1>4. \A d \in users : hash'[d] = hash[d]
  BY DEF AuthTypeOK, UsersTyped
<1>5. LoginsFresh'
  <2>1. ASSUME NEW r \in Request, job'[r].at = "session", ~job'[r].overtaken
        PROVE  job'[r].secret \in {None, hash'[job'[r].user]}
    <3>1. CASE r = q
      BY <1>2, <1>3, <3>1
    <3>2. CASE r # q
      BY <1>3, <1>4, <2>1, <3>2, AtOK DEF Follow, LoginsFresh
    <3> QED
      BY <3>1, <3>2
  <2> QED
    BY <2>1 DEF LoginsFresh
<1>6. SessionsFollowPassword'
  <2>1. \A s \in sessions : hash'[s.user] = hash[s.user]
    BY <1>4 DEF AuthTypeOK, SessionsTyped
  <2> QED
    BY <1>3, <2>1 DEF Follow, SessionsFollowPassword
<1> QED
  BY <1>5, <1>6 DEF Follow

LEMMA SignFollows ==
  ASSUME AuthTypeOK, Follow, NEW q \in Request, SignUp(q) \/ SignIn(q)
  PROVE  Follow'
<1>1. ASSUME NEW e \in Email, NEW p \in Password, Register(q, e, p) PROVE Follow'
  BY <1>1, StartFollows DEF Register, userVars, sessionVars
<1>2. ASSUME CreateUser(q) PROVE Follow'
  <2>1. CASE Return(q) /\ UNCHANGED hash
    BY <1>2, <2>1, ReturnFollows DEF CreateUser, sessionVars
  <2>2. CASE job[q].user \notin users
    <3>1. PICK e, h : e = job[q].user /\ h = job[q].secret
      OBVIOUS
    <3> QED
      BY <1>2, <2>2, <3>1, CreateFollows DEF CreateUser, sessionVars
  <2> QED
    BY <1>2, <2>1, <2>2 DEF CreateUser
<1>3. ASSUME NEW e \in Email, ResendVerification(q, e) PROVE Follow'
  BY <1>3, StartFollows DEF ResendVerification, userVars, sessionVars
<1>4. ASSUME CreateVerificationCode(q) PROVE Follow'
  BY <1>4, ReturnFollows DEF CreateVerificationCode, userVars, sessionVars
<1>5. ASSUME NEW c \in Code, Verify(q, c) PROVE Follow'
  <2>1. PICK e : e = mailedTo[c]
    OBVIOUS
  <2> QED
    BY <1>5, <2>1, StartFollows DEF Verify, userVars, sessionVars
<1>6. ASSUME DeleteVerificationCode(q) PROVE Follow'
  BY <1>6, GotoFollows DEF DeleteVerificationCode, userVars, sessionVars
<1>7. ASSUME SetVerified(q) PROVE Follow'
  BY <1>7, GotoFollows DEF SetVerified, sessionVars
<1>8. ASSUME NEW e \in Email, NEW p \in Password, Login(q, e, p) PROVE Follow'
  BY <1>8, StartFollows DEF Login, PasswordMatches, userVars, sessionVars
<1>9. ASSUME NEW e \in Email, GoogleOAuth(q, e) PROVE Follow'
  <2>1. PICK at : at = IF e \notin users THEN "gcreate"
                       ELSE IF e \notin verified THEN "gverify" ELSE "session"
    OBVIOUS
  <2> QED
    BY <1>9, <2>1, StartFollows DEF GoogleOAuth, userVars, sessionVars
<1>10. ASSUME CreateGoogleUser(q) PROVE Follow'
  <2>1. CASE Return(q) /\ UNCHANGED hash
    BY <1>10, <2>1, ReturnFollows DEF CreateGoogleUser, sessionVars
  <2>2. CASE job[q].user \notin users
    <3>1. PICK e : e = job[q].user
      OBVIOUS
    <3> QED
      BY <1>10, <2>2, <3>1, CreateFollows DEF CreateGoogleUser, sessionVars
  <2> QED
    BY <1>10, <2>1, <2>2 DEF CreateGoogleUser, userVars
<1>11. ASSUME SetGoogleVerified(q) PROVE Follow'
  BY <1>11, GotoFollows DEF SetGoogleVerified, sessionVars
<1>12. ASSUME CreateSession(q) PROVE Follow'
  <2> DEFINE new(s) == [id |-> s, user |-> job[q].user, checked |-> job[q].secret,
                        raced |-> job[q].overtaken]
  <2>1. UNCHANGED <<hash, unfinished>> /\ Return(q) /\ job[q].at = "session"
    BY <1>12 DEF CreateSession, userVars
  <2>2. CASE UNCHANGED sessions
    BY <2>1, <2>2, ReturnFollows
  <2>3. ASSUME NEW s \in Session, sessions' = sessions \cup {new(s)} PROVE Follow'
    <3>1. \A r \in Request : job'[r] = IF r = q THEN Idle ELSE job[r]
      BY <2>1 DEF Return, AuthTypeOK, JobsTyped
    <3>2. LoginsFresh'
      BY <2>1, <3>1 DEF Follow, LoginsFresh, Idle
    <3>3. \/ new(s).raced \/ new(s).checked \in {None, hash[new(s).user]}
      BY <2>1, AtOK DEF Follow, LoginsFresh, Job
    <3>4. SessionsFollowPassword'
      BY <2>1, <2>3, <3>1, <3>3 DEF Follow, SessionsFollowPassword
    <3> QED
      BY <3>2, <3>4 DEF Follow
  <2> QED
    BY <1>12, <2>2, <2>3 DEF CreateSession, sessionVars
<1> QED
  BY <1>1, <1>2, <1>3, <1>4, <1>5, <1>6, <1>7, <1>8, <1>9, <1>10, <1>11, <1>12 DEF SignUp, SignIn

LEMMA ManagePasswordFollows ==
  ASSUME AuthTypeOK, Follow, NEW q \in Request, ManagePassword(q)
  PROVE  Follow'
<1>1. ASSUME NEW t \in ResetToken, NEW p \in Password, ResetPassword(q, t, p) PROVE Follow'
  <2>1. PICK e : e = mailedTo[t]
    OBVIOUS
  <2> QED
    BY <1>1, <2>1, StartFollows DEF ResetPassword, userVars, sessionVars
<1>2. ASSUME NEW t \in tokens, NEW old \in Password, NEW new \in Password,
             ChangePassword(q, t, old, new)
      PROVE Follow'
  <2>1. PICK e : e = t.user
    OBVIOUS
  <2> QED
    BY <1>2, <2>1, StartFollows DEF ChangePassword, userVars, sessionVars
<1>3. ASSUME UpdateHash(q) PROVE Follow'
  <2> DEFINE e == job[q].user
  <2>1. job[q].at = "hash" /\ e \in Email /\ hash' = [hash EXCEPT ![e] = job[q].secret]
        /\ UNCHANGED <<sessions, unfinished>>
    BY <1>3, AtOK DEF UpdateHash, sessionVars
  <2>2. \A d \in Email : d # e => hash'[d] = hash[d]
    BY <2>1 DEF AuthTypeOK, UsersTyped
  <2>3. job'[q].at = "revokeall" /\ job'[q].user = e
    BY <1>3 DEF UpdateHash, Continue, Idle
  <2>4. ASSUME NEW r \in Request, r # q
        PROVE  /\ job'[r].at = job[r].at /\ job'[r].user = job[r].user
               /\ job'[r].secret = job[r].secret
               /\ job'[r].overtaken = (job[r].overtaken \/ (job[r].at = "session" /\ job[r].user = e))
    BY <1>3, <2>4, AtOK DEF UpdateHash, Job
  <2>5. LoginsFresh'
    <3>1. ASSUME NEW r \in Request, job'[r].at = "session", ~job'[r].overtaken
          PROVE  job'[r].secret \in {None, hash'[job'[r].user]}
      <4>1. r # q
        BY <2>3, <3>1
      <4>2. job[r].at = "session" /\ ~job[r].overtaken /\ job[r].user # e /\ job[r].user \in Email
        BY <2>4, <3>1, <4>1, AtOK
      <4> QED
        BY <2>2, <2>4, <4>1, <4>2 DEF Follow, LoginsFresh
    <3> QED
      BY <3>1 DEF LoginsFresh
  <2>6. SessionsFollowPassword'
    <3>1. ASSUME NEW s \in sessions, s.checked \notin {None, hash'[s.user]}
          PROVE  \/ s.raced \/ s.user \in unfinished'
                 \/ \E r \in Request : job'[r].at = "revokeall" /\ job'[r].user = s.user
      <4>1. CASE s.user = e
        BY <2>3, <4>1
      <4>2. CASE s.user # e
        <5>1. s.user \in Email
          BY DEF AuthTypeOK, SessionsTyped, SessionRow
        <5>2. \/ s.raced \/ s.user \in unfinished
              \/ \E r \in Request : job[r].at = "revokeall" /\ job[r].user = s.user
          BY <2>2, <3>1, <4>2, <5>1 DEF Follow, SessionsFollowPassword
        <5> QED
          BY <2>1, <2>4, <5>2
      <4> QED
        BY <4>1, <4>2
    <3> QED
      BY <2>1, <3>1 DEF SessionsFollowPassword
  <2> QED
    BY <2>5, <2>6 DEF Follow
<1>4. ASSUME DeleteSessions(q) PROVE Follow'
  <2> DEFINE e == job[q].user
  <2>1. /\ sessions' = {s \in sessions : s.user # e} /\ unfinished' = unfinished \ {e}
        /\ UNCHANGED hash
    BY <1>4 DEF DeleteSessions, userVars
  <2>2. PICK j : j = IF job[q].item = None THEN Idle
                     ELSE Continue(job[q], "markused", job[q].item)
    OBVIOUS
  <2>3. j.at # "session"
    BY <2>2 DEF Continue, Idle
  <2>4. job' = [job EXCEPT ![q] = j]
    BY <1>4, <2>2 DEF DeleteSessions, Return, Goto, AuthTypeOK, JobsTyped
  <2>5. \A r \in Request : job'[r] = IF r = q THEN j ELSE job[r]
    BY <2>4 DEF AuthTypeOK, JobsTyped
  <2>6. LoginsFresh'
    BY <2>1, <2>3, <2>5 DEF Follow, LoginsFresh
  <2>7. SessionsFollowPassword'
    BY <2>1, <2>5 DEF Follow, SessionsFollowPassword
  <2> QED
    BY <2>6, <2>7 DEF Follow
<1>5. ASSUME MarkResetTokenUsed(q) PROVE Follow'
  BY <1>5, ReturnFollows DEF MarkResetTokenUsed, userVars, sessionVars
<1> QED
  BY <1>1, <1>2, <1>3, <1>4, <1>5 DEF ManagePassword

LEMMA EndSessionsFollows ==
  ASSUME AuthTypeOK, Follow, NEW q \in Request, EndSessions(q)
  PROVE  Follow'
<1>1. ASSUME NEW t \in tokens, NEW p \in Password, NEW s \in Session, RevokeSession(q, t, p, s)
      PROVE Follow'
  <2>1. PICK e : e = t.user
    OBVIOUS
  <2> QED
    BY <1>1, <2>1, StartFollows DEF RevokeSession, userVars, sessionVars
<1>2. ASSUME DeleteSession(q) PROVE Follow'
  BY <1>2, ReturnFollows DEF DeleteSession, WithoutSession, userVars
<1>3. ASSUME NEW t \in tokens, NEW p \in Password, RevokeAllOtherSessions(q, t, p)
      PROVE Follow'
  <2>1. PICK e, x : e = t.user /\ x = t.session
    OBVIOUS
  <2> QED
    BY <1>3, <2>1, StartFollows DEF RevokeAllOtherSessions, userVars, sessionVars
<1>4. ASSUME DeleteOtherSessions(q) PROVE Follow'
  <2>1. sessions' \subseteq sessions
    BY <1>4 DEF DeleteOtherSessions
  <2> QED
    BY <1>4, <2>1, ReturnFollows DEF DeleteOtherSessions, userVars
<1> QED
  BY <1>1, <1>2, <1>3, <1>4 DEF EndSessions

LEMMA NextFollows == AuthTypeOK /\ Follow /\ [AuthNext]_vars => Follow'
<1> SUFFICES ASSUME AuthTypeOK, Follow, [AuthNext]_vars PROVE Follow'
  OBVIOUS
<1>1. ASSUME NEW q \in Request, Abort(q) PROVE Follow'
  <2>1. \A r \in Request : job'[r] = IF r = q THEN Idle ELSE job[r]
    BY <1>1 DEF Abort, Return, AuthTypeOK, JobsTyped
  <2>2. UNCHANGED <<hash, sessions>> /\ unfinished \subseteq unfinished'
        /\ (job[q].at = "revokeall" => job[q].user \in unfinished')
    BY <1>1 DEF Abort, userVars, sessionVars
  <2>3. LoginsFresh'
    BY <2>1, <2>2 DEF Follow, LoginsFresh, Idle
  <2>4. SessionsFollowPassword'
    BY <2>1, <2>2 DEF Follow, SessionsFollowPassword
  <2> QED
    BY <2>3, <2>4 DEF Follow
<1>2. ASSUME UNCHANGED <<hash, job, unfinished>>, sessions' \subseteq sessions PROVE Follow'
  BY <1>2 DEF Follow, SessionsFollowPassword, LoginsFresh
<1>3. ASSUME NEW t \in tokens, Refresh(t) \/ Logout(t) PROVE Follow'
  BY <1>2, <1>3 DEF Refresh, Logout, WithoutSession, userVars, sessionVars
<1>4. ASSUME NEW e \in Email, NEW t \in ResetToken, ForgotPassword(e, t) PROVE Follow'
  BY <1>2, <1>4 DEF ForgotPassword, userVars, sessionVars
<1>5. CASE Expire \/ UNCHANGED vars
  BY <1>2, <1>5 DEF Expire, vars, userVars, sessionVars
<1> QED
  BY <1>1, <1>3, <1>4, <1>5, SignFollows, ManagePasswordFollows, EndSessionsFollows DEF AuthNext

(* A password change ends the sessions opened with the old password, except *)
(* for the cases the definition names: for any number of accounts and       *)
(* overlapping requests.                                                    *)
THEOREM PasswordChangesEndSessions == AuthSpec => []SessionsFollowPassword
<1>1. AuthInit => Follow
  BY DEF AuthInit, Follow, SessionsFollowPassword, LoginsFresh, Idle
<1>2. Follow => SessionsFollowPassword
  BY DEF Follow
<1> QED
  BY <1>1, <1>2, InitTyped, NextTyped, NextFollows, PTL DEF AuthSpec

-----------------------------------------------------------------------------
(* Who is about to be signed in is vouched for.                             *)
LoginsVouched ==
  \A q \in Request : job[q].at = "session" => job[q].user \in verified \cup unrecorded

Vouched == TokensVouched /\ LoginsVouched

(* A step that issues no token, and after which the request that took it is *)
(* about to sign in only an account that is vouched for.                    *)
LEMMA StepVouched ==
  ASSUME AuthTypeOK, Vouched, NEW q \in Request, NEW j,
         job' = [job EXCEPT ![q] = j], tokens' = tokens,
         verified \subseteq verified', unrecorded \subseteq unrecorded',
         j.at = "session" => j.user \in verified' \cup unrecorded'
  PROVE  Vouched'
<1>1. \A r \in Request : job'[r] = IF r = q THEN j ELSE job[r]
  BY DEF AuthTypeOK, JobsTyped
<1> QED
  BY <1>1 DEF Vouched, TokensVouched, LoginsVouched

LEMMA ReturnVouched ==
  ASSUME AuthTypeOK, Vouched, NEW q \in Request, Return(q), tokens' = tokens,
         verified \subseteq verified', unrecorded \subseteq unrecorded'
  PROVE  Vouched'
BY StepVouched DEF Return, Idle

LEMMA GotoVouched ==
  ASSUME AuthTypeOK, Vouched, NEW q \in Request, NEW at, NEW x, Goto(q, at, x),
         tokens' = tokens, verified \subseteq verified', unrecorded \subseteq unrecorded',
         at = "session" => job[q].user \in verified' \cup unrecorded'
  PROVE  Vouched'
<1>1. PICK j : j = Continue(job[q], at, x)
  OBVIOUS
<1>2. job' = [job EXCEPT ![q] = j]
  BY <1>1 DEF Goto, AuthTypeOK, JobsTyped
<1>3. j.at = at /\ j.user = job[q].user
  BY <1>1 DEF Continue, Idle
<1> QED
  BY <1>2, <1>3, StepVouched

LEMMA StartVouched ==
  ASSUME AuthTypeOK, Vouched, NEW q \in Request, NEW at, NEW e, NEW p, NEW x,
         Start(q, at, e, p, x), UNCHANGED <<tokens, verified, unrecorded>>,
         at = "session" => e \in verified
  PROVE  Vouched'
<1> DEFINE j == [at |-> at, user |-> e, secret |-> p, item |-> x, overtaken |-> FALSE]
<1>1. job' = [job EXCEPT ![q] = j] /\ (j.at = "session" => j.user \in verified' \cup unrecorded')
  BY DEF Start
<1> QED
  <2> HIDE DEF j
  <2> QED
    BY <1>1, StepVouched

LEMMA SignUpVouched ==
  ASSUME AuthTypeOK, Vouched, NEW q \in Request, SignUp(q)
  PROVE  Vouched'
<1>1. ASSUME NEW e \in Email, NEW p \in Password, Register(q, e, p) PROVE Vouched'
  BY <1>1, StartVouched DEF Register, userVars
<1>2. ASSUME CreateUser(q) PROVE Vouched'
  BY <1>2, ReturnVouched, GotoVouched DEF CreateUser
<1>3. ASSUME NEW e \in Email, ResendVerification(q, e) PROVE Vouched'
  BY <1>3, StartVouched DEF ResendVerification, userVars
<1>4. ASSUME CreateVerificationCode(q) PROVE Vouched'
  BY <1>4, ReturnVouched DEF CreateVerificationCode, userVars
<1>5. ASSUME NEW c \in Code, Verify(q, c) PROVE Vouched'
  <2>1. PICK e : e = mailedTo[c]
    OBVIOUS
  <2> QED
    BY <1>5, <2>1, StartVouched DEF Verify, userVars
<1>6. ASSUME DeleteVerificationCode(q) PROVE Vouched'
  BY <1>6, GotoVouched DEF DeleteVerificationCode, userVars
<1>7. ASSUME SetVerified(q) PROVE Vouched'
  BY <1>7, GotoVouched DEF SetVerified
<1> QED
  BY <1>1, <1>2, <1>3, <1>4, <1>5, <1>6, <1>7 DEF SignUp

LEMMA SignInVouched ==
  ASSUME AuthTypeOK, Vouched, NEW q \in Request, SignIn(q)
  PROVE  Vouched'
<1>1. ASSUME NEW e \in Email, NEW p \in Password, Login(q, e, p) PROVE Vouched'
  BY <1>1, StartVouched DEF Login, userVars
<1>2. ASSUME NEW e \in Email, GoogleOAuth(q, e) PROVE Vouched'
  <2>1. PICK at : at = IF e \notin users THEN "gcreate"
                       ELSE IF e \notin verified THEN "gverify" ELSE "session"
    OBVIOUS
  <2> QED
    BY <1>2, <2>1, StartVouched DEF GoogleOAuth, userVars
<1>3. ASSUME CreateGoogleUser(q) PROVE Vouched'
  BY <1>3, ReturnVouched, GotoVouched DEF CreateGoogleUser, userVars
<1>4. ASSUME SetGoogleVerified(q) PROVE Vouched'
  BY <1>4, GotoVouched DEF SetGoogleVerified
<1>5. ASSUME CreateSession(q) PROVE Vouched'
  <2>1. \A t \in tokens' : t \in tokens \/ t.user = job[q].user
    BY <1>5 DEF CreateSession, AccessToken, RefreshToken
  <2>2. TokensVouched'
    BY <1>5, <2>1 DEF CreateSession, userVars, Vouched, TokensVouched, LoginsVouched
  <2>3. \A r \in Request : job'[r] = IF r = q THEN Idle ELSE job[r]
    BY <1>5 DEF CreateSession, Return, AuthTypeOK, JobsTyped
  <2>4. LoginsVouched'
    BY <1>5, <2>3 DEF CreateSession, userVars, Vouched, LoginsVouched, Idle
  <2> QED
    BY <2>2, <2>4 DEF Vouched
<1> QED
  BY <1>1, <1>2, <1>3, <1>4, <1>5 DEF SignIn

LEMMA ManageVouched ==
  ASSUME AuthTypeOK, Vouched, NEW q \in Request, ManagePassword(q) \/ EndSessions(q)
  PROVE  Vouched'
<1>1. ASSUME NEW t \in ResetToken, NEW p \in Password, ResetPassword(q, t, p) PROVE Vouched'
  <2>1. PICK e : e = mailedTo[t]
    OBVIOUS
  <2> QED
    BY <1>1, <2>1, StartVouched DEF ResetPassword, userVars
<1>2. ASSUME NEW t \in tokens, NEW old \in Password, NEW new \in Password,
             ChangePassword(q, t, old, new)
      PROVE Vouched'
  <2>1. PICK e : e = t.user
    OBVIOUS
  <2> QED
    BY <1>2, <2>1, StartVouched DEF ChangePassword, userVars
<1>3. ASSUME UpdateHash(q) PROVE Vouched'
  <2>1. \A r \in Request : job'[r].at = "session" =>
          job[r].at = "session" /\ job'[r].user = job[r].user
    <3>1. ASSUME NEW r \in Request, job'[r].at = "session"
          PROVE  job[r].at = "session" /\ job'[r].user = job[r].user
      <4>1. r # q
        BY <1>3, <3>1 DEF UpdateHash, Continue, Idle
      <4> QED
        BY <1>3, <3>1, <4>1, AtOK DEF UpdateHash, Job
    <3> QED
      BY <3>1
  <2> QED
    BY <1>3, <2>1 DEF UpdateHash, Vouched, TokensVouched, LoginsVouched
<1>4. ASSUME DeleteSessions(q) PROVE Vouched'
  <2>1. PICK x : x = job[q].item
    OBVIOUS
  <2> QED
    BY <1>4, <2>1, ReturnVouched, GotoVouched DEF DeleteSessions, userVars
<1>5. ASSUME MarkResetTokenUsed(q) \/ DeleteSession(q) \/ DeleteOtherSessions(q) PROVE Vouched'
  BY <1>5, ReturnVouched DEF MarkResetTokenUsed, DeleteSession, DeleteOtherSessions, userVars
<1>6. ASSUME NEW t \in tokens, NEW p \in Password, NEW s \in Session, RevokeSession(q, t, p, s)
      PROVE Vouched'
  <2>1. PICK e : e = t.user
    OBVIOUS
  <2> QED
    BY <1>6, <2>1, StartVouched DEF RevokeSession, userVars
<1>7. ASSUME NEW t \in tokens, NEW p \in Password, RevokeAllOtherSessions(q, t, p)
      PROVE Vouched'
  <2>1. PICK e, x : e = t.user /\ x = t.session
    OBVIOUS
  <2> QED
    BY <1>7, <2>1, StartVouched DEF RevokeAllOtherSessions, userVars
<1> QED
  BY <1>1, <1>2, <1>3, <1>4, <1>5, <1>6, <1>7 DEF ManagePassword, EndSessions

LEMMA NextVouched == AuthTypeOK /\ Vouched /\ [AuthNext]_vars => Vouched'
<1> SUFFICES ASSUME AuthTypeOK, Vouched, [AuthNext]_vars PROVE Vouched'
  OBVIOUS
<1>1. ASSUME NEW q \in Request, Abort(q) PROVE Vouched'
  BY <1>1, ReturnVouched DEF Abort, userVars
<1>2. ASSUME UNCHANGED <<userVars, job, unrecorded>>,
             \A t \in tokens' : \E s \in tokens : s.user = t.user
      PROVE  Vouched'
  BY <1>2 DEF userVars, Vouched, TokensVouched, LoginsVouched
<1>3. ASSUME NEW t \in tokens, Refresh(t) PROVE Vouched'
  <2>1. AccessToken(t.user, t.session).user = t.user
    BY DEF AccessToken
  <2> QED
    BY <1>2, <1>3, <2>1 DEF Refresh
<1>4. ASSUME NEW t \in tokens, Logout(t) PROVE Vouched'
  BY <1>2, <1>4 DEF Logout
<1>5. ASSUME NEW e \in Email, NEW t \in ResetToken, ForgotPassword(e, t) PROVE Vouched'
  BY <1>2, <1>5 DEF ForgotPassword
<1>6. CASE Expire \/ UNCHANGED vars
  <2>1. tokens' \subseteq tokens
    BY <1>6 DEF Expire, vars
  <2> QED
    BY <1>2, <1>6, <2>1 DEF Expire, vars
<1> QED
  BY <1>1, <1>3, <1>4, <1>5, <1>6, SignUpVouched, SignInVouched, ManageVouched DEF AuthNext

(* Every token is for a verified address, or for one Google vouched for     *)
(* while the database would not record it.                                  *)
THEOREM SignedInMeansVouched == AuthSpec => []TokensVouched
<1>1. AuthInit => Vouched
  BY DEF AuthInit, Vouched, TokensVouched, LoginsVouched, Idle
<1>2. Vouched => TokensVouched
  BY DEF Vouched
<1> QED
  BY <1>1, <1>2, InitTyped, NextTyped, NextVouched, PTL DEF AuthSpec

=============================================================================
