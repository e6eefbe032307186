---------------------------- MODULE AuthSessions ----------------------------
(***************************************************************************)
(* Accounts and signed-in devices: the handlers of auth_handlers.go and     *)
(* session_handlers.go over the tables users, user_sessions,                *)
(* verification_codes and password_resets.                                  *)
(*                                                                          *)
(* No handler runs in a transaction: a request q is a sequence of           *)
(* statements, each an action, with the code up to the next one.  What it   *)
(* read before stays in job[q], stale or not.  An account is its e-mail     *)
(* address, a password hash the password, and a JWT the claims it carries.  *)
(***************************************************************************)
EXTENDS FiniteSets

CONSTANTS
  Email,         \* accounts; users.email is unique
  Password,      \* passwords people choose
  Random,        \* the password of an account that Google sign-in creates
  Session,       \* bound: ids of user_sessions rows
  Code,          \* bound: verification codes that get mailed
  ResetToken,    \* bound: reset tokens that get mailed
  Request,       \* concurrent requests
  Expiring,      \* bound: sessions whose access tokens are let expire
  None           \* no session in a token, no password checked, not given out

ASSUME NoneAssumption ==
  None \notin Email \cup Password \cup Session \cup Code \cup ResetToken
ASSUME RandomAssumption == Random \notin Password \cup {None}

VARIABLES
  users,         \* accounts that have a row
  verified,      \* those with is_verified
  hash,          \* users.password_hash
  sessions,      \* user_sessions rows
  used,          \* ids of user_sessions given out so far
  codes,         \* verification_codes rows that have not expired
  resets,        \* password_resets rows neither used nor expired
  mailedTo,      \* the account of a code or reset token
  tokens,        \* JWTs issued and not expired
  job,           \* what each request is at, and with which values
  unfinished,    \* history: accounts whose last change did not end the sessions
  unrecorded     \* history: accounts Google vouched for, SetVerified failed

userVars == <<users, verified, hash>>
sessionVars == <<sessions, used>>
mailVars == <<codes, resets, mailedTo>>
vars == <<userVars, sessionVars, mailVars, tokens, job, unfinished, unrecorded>>

(* Of a user_sessions row the columns id and user_id, and of its history    *)
(* the password whose check let it be created (None for a code or Google)   *)
(* and whether a change of the password came between check and INSERT.      *)
SessionRow == [id : Session, user : Email, checked : Password \cup {None}, raced : BOOLEAN]

Token == [user : Email, session : Session \cup {None}, refresh : BOOLEAN]

(* secret: the password that was checked, or the one to store.  item: the   *)
(* session, code or reset token the next statement is about.  overtaken:    *)
(* a change of the password came after the check.                           *)
Job == [at     : {"idle", "create", "code", "session", "consume", "verify", "gcreate",
                  "gverify", "hash", "revokeall", "markused", "revoke", "revokeothers"},
        user   : Email \cup {None},
        secret : Password \cup {None},
        item   : Session \cup Code \cup ResetToken \cup {None},
        overtaken : BOOLEAN]

Idle == [at |-> "idle", user |-> None, secret |-> None, item |-> None, overtaken |-> FALSE]

(* A request has the values its next statement reads.                       *)
Prepared(j) ==
  /\ j.at # "idle" => j.user \in Email
  /\ j.at \notin {"idle", "create", "gcreate"} => j.user \in users
  /\ j.at \in {"create", "hash"} => j.secret \in Password
  /\ j.at = "consume" => j.item \in Code
  /\ j.at = "revoke" => j.item \in Session
  /\ j.at = "revokeothers" => j.item \in Session \cup {None}
  /\ j.at \in {"hash", "revokeall"} => j.item \in ResetToken \cup {None}
  /\ j.at = "markused" => j.item \in ResetToken

JobsTyped == job \in [Request -> Job] /\ \A q \in Request : Prepared(job[q])

UsersTyped ==
  /\ users \subseteq Email /\ verified \subseteq users
  /\ hash \in [Email -> Password \cup {Random, None}]
  /\ unfinished \subseteq Email /\ unrecorded \subseteq Email

SessionsTyped ==
  /\ sessions \subseteq SessionRow /\ used \subseteq Session
  /\ \A s \in sessions : s.id \in used /\ s.user \in users
  /\ \A r, s \in sessions : r.id = s.id => r = s

MailTyped ==
  /\ codes \subseteq Code /\ resets \subseteq ResetToken
  /\ mailedTo \in [Code \cup ResetToken -> users \cup {None}]
  /\ \A m \in codes \cup resets : mailedTo[m] # None

(* Every variable has its type, rows refer to rows, ids in use have been    *)
(* given out, and requests are prepared for their next statement.           *)
AuthTypeOK == UsersTyped /\ SessionsTyped /\ MailTyped /\ tokens \subseteq Token /\ JobsTyped

AuthInit ==
  /\ users = {} /\ verified = {} /\ hash = [e \in Email |-> None]
  /\ sessions = {} /\ used = {}
  /\ codes = {} /\ resets = {} /\ mailedTo = [m \in Code \cup ResetToken |-> None]
  /\ tokens = {}
  /\ job = [q \in Request |-> Idle]
  /\ unfinished = {} /\ unrecorded = {}

-----------------------------------------------------------------------------
Start(q, at, e, secret, item) ==
  /\ job[q].at = "idle"
  /\ job' = [job EXCEPT ![q] = [at |-> at, user |-> e, secret |-> secret,
                                item |-> item, overtaken |-> FALSE]]

(* On to the next statement, which only needs the user and perhaps item.    *)
Continue(j, at, item) == [Idle EXCEPT !.at = at, !.user = j.user, !.item = item]
Goto(q, at, item) == job' = [job EXCEPT ![q] = Continue(@, at, item)]
Return(q) == job' = [job EXCEPT ![q] = Idle]

(* userFromQueryToken: ValidateToken, GetByID, GetSessionByID.  A token     *)
(* without a session is not looked up.                                      *)
Accepts(t) ==
  /\ t \in tokens /\ t.user \in users
  /\ t.session = None \/ \E s \in sessions : s.id = t.session

(* userFromBearer and userAndSessionFromBearer.                             *)
Bearer(t) == Accepts(t) /\ ~t.refresh

AccessToken(e, s) == [user |-> e, session |-> s, refresh |-> FALSE]
RefreshToken(e, s) == [user |-> e, session |-> s, refresh |-> TRUE]

(* GetByEmail or GetByID, and bcrypt's comparison with the hash in the row. *)
PasswordMatches(e, p) == e \in users /\ hash[e] = p

-----------------------------------------------------------------------------
(* HandleRegister: the lookup, then the INSERT, which the unique index      *)
(* refuses if another request has inserted the address.                     *)
Register(q, e, p) ==
  /\ e \notin users
  /\ Start(q, "create", e, p, None)
  /\ UNCHANGED <<userVars, sessionVars, mailVars, tokens, unfinished, unrecorded>>

CreateUser(q) ==
  LET e == job[q].user IN
  /\ job[q].at = "create"
  /\ \/ /\ e \notin users
        /\ users' = users \cup {e}
        /\ hash' = [hash EXCEPT ![e] = job[q].secret]
        /\ Goto(q, "code", None)
     \/ e \in users /\ Return(q) /\ UNCHANGED <<users, hash>>
  /\ UNCHANGED <<verified, sessionVars, mailVars, tokens, unfinished, unrecorded>>

(* HandleResendVerification: the lookup.                                    *)
ResendVerification(q, e) ==
  /\ e \in users \ verified
  /\ Start(q, "code", e, None, None)
  /\ UNCHANGED <<userVars, sessionVars, mailVars, tokens, unfinished, unrecorded>>

(* The code is inserted and mailed; if that fails, the account stays        *)
(* without one.                                                             *)
CreateVerificationCode(q) ==
  /\ job[q].at = "code"
  /\ \/ \E c \in Code :
          /\ mailedTo[c] = None
          /\ mailedTo' = [mailedTo EXCEPT ![c] = job[q].user]
          /\ codes' = codes \cup {c}
     \/ UNCHANGED <<mailedTo, codes>>
  /\ Return(q)
  /\ UNCHANGED <<userVars, sessionVars, resets, tokens, unfinished, unrecorded>>

(* HandleVerify: GetVerificationCode; DeleteVerificationCode, whose error   *)
(* is ignored; SetVerified, whose error is not.                             *)
Verify(q, c) ==
  /\ c \in codes
  /\ Start(q, "consume", mailedTo[c], None, c)
  /\ UNCHANGED <<userVars, sessionVars, mailVars, tokens, unfinished, unrecorded>>

DeleteVerificationCode(q) ==
  /\ job[q].at = "consume"
  /\ codes' \in {codes, codes \ {job[q].item}}
  /\ Goto(q, "verify", None)
  /\ UNCHANGED <<userVars, sessionVars, resets, mailedTo, tokens, unfinished, unrecorded>>

SetVerified(q) ==
  /\ job[q].at = "verify"
  /\ verified' = verified \cup {job[q].user}
  /\ Goto(q, "session", None)
  /\ UNCHANGED <<users, hash, sessionVars, mailVars, tokens, unfinished, unrecorded>>

(* Wrong Login: is_verified is not looked at.                               *)
LoginUnverified(q, e, p) ==
  /\ PasswordMatches(e, p)
  /\ Start(q, "session", e, p, None)
  /\ UNCHANGED <<userVars, sessionVars, mailVars, tokens, unfinished, unrecorded>>

(* HandleLogin: one SELECT, on which the password and is_verified are       *)
(* checked.                                                                 *)
Login(q, e, p) ==
  /\ PasswordMatches(e, p) /\ e \in verified
  /\ Start(q, "session", e, p, None)
  /\ UNCHANGED <<userVars, sessionVars, mailVars, tokens, unfinished, unrecorded>>

(* HandleGoogleOAuth, with a valid ID token: GetByEmail.                    *)
GoogleOAuth(q, e) ==
  /\ Start(q, IF e \notin users THEN "gcreate"
              ELSE IF e \notin verified THEN "gverify" ELSE "session", e, None, None)
  /\ UNCHANGED <<userVars, sessionVars, mailVars, tokens, unfinished, unrecorded>>

CreateGoogleUser(q) ==
  LET e == job[q].user IN
  /\ job[q].at = "gcreate"
  /\ \/ /\ e \notin users
        /\ users' = users \cup {e} /\ verified' = verified \cup {e}
        /\ hash' = [hash EXCEPT ![e] = Random]
        /\ Goto(q, "session", None)
     \/ e \in users /\ Return(q) /\ UNCHANGED userVars
  /\ UNCHANGED <<sessionVars, mailVars, tokens, unfinished, unrecorded>>

(* SetVerified for a Google user; its error is ignored.                     *)
SetGoogleVerified(q) ==
  LET e == job[q].user IN
  /\ job[q].at = "gverify"
  /\ \/ verified' = verified \cup {e} /\ UNCHANGED unrecorded
     \/ unrecorded' = unrecorded \cup {e} /\ UNCHANGED verified
  /\ Goto(q, "session", None)
  /\ UNCHANGED <<users, hash, sessionVars, mailVars, tokens, unfinished>>

(* The end of every sign-in: the user_sessions row, then the two tokens     *)
(* bound to it, or bound to no session if the INSERT failed.                *)
CreateSession(q) ==
  LET e == job[q].user IN
  /\ job[q].at = "session"
  /\ \/ \E s \in Session \ used :
          /\ used' = used \cup {s}
          /\ sessions' = sessions \cup {[id |-> s, user |-> e, checked |-> job[q].secret,
                                        raced |-> job[q].overtaken]}
          /\ tokens' = tokens \cup {AccessToken(e, s), RefreshToken(e, s)}
     \/ /\ tokens' = tokens \cup {AccessToken(e, None), RefreshToken(e, None)}
        /\ UNCHANGED sessionVars
  /\ Return(q)
  /\ UNCHANGED <<userVars, mailVars, unfinished, unrecorded>>

-----------------------------------------------------------------------------
(* HandleRefresh: the checks, TouchSession, and a new access token for the  *)
(* same session.  TouchSession is an UPDATE that finds the row or does not. *)
Refresh(t) ==
  /\ Accepts(t) /\ t.refresh
  /\ tokens' = tokens \cup {AccessToken(t.user, t.session)}
  /\ UNCHANGED <<userVars, sessionVars, mailVars, job, unfinished, unrecorded>>

(* HandleForgotPassword: lookup and INSERT; accounts are never deleted.     *)
ForgotPassword(e, t) ==
  /\ e \in users /\ mailedTo[t] = None
  /\ mailedTo' = [mailedTo EXCEPT ![t] = e]
  /\ resets' = resets \cup {t}
  /\ UNCHANGED <<userVars, sessionVars, codes, tokens, job, unfinished, unrecorded>>

(* HandleResetPassword: ValidateResetToken; UpdatePassword;                 *)
(* MarkResetTokenUsed, whose error is logged.                               *)
ResetPassword(q, t, p) ==
  /\ t \in resets
  /\ Start(q, "hash", mailedTo[t], p, t)
  /\ UNCHANGED <<userVars, sessionVars, mailVars, tokens, unfinished, unrecorded>>

(* HandleChangePassword: the bearer, the current password, UpdatePassword.  *)
ChangePassword(q, t, old, new) ==
  /\ Bearer(t) /\ PasswordMatches(t.user, old)
  /\ Start(q, "hash", t.user, new, None)
  /\ UNCHANGED <<userVars, sessionVars, mailVars, tokens, unfinished, unrecorded>>

(* UpdatePassword, first statement.  Log-ins of that account that have      *)
(* checked the password and not created their session are overtaken.        *)
UpdateHash(q) ==
  LET e == job[q].user
      Overtaken(r) == job[r].at = "session" /\ job[r].user = e
  IN
  /\ job[q].at = "hash"
  /\ hash' = [hash EXCEPT ![e] = job[q].secret]
  /\ job' = [r \in Request |->
               IF r = q THEN Continue(job[q], "revokeall", job[q].item)
               ELSE IF Overtaken(r) THEN [job[r] EXCEPT !.overtaken = TRUE] ELSE job[r]]
  /\ UNCHANGED <<users, verified, sessionVars, mailVars, tokens, unfinished, unrecorded>>

(* Wrong DeleteSessions: only a change ends them, a reset does not.          *)
DeleteSessionsOfChange(q) ==
  LET e == job[q].user IN
  /\ job[q].at = "revokeall"
  /\ sessions' = {s \in sessions : s.user # e \/ job[q].item # None}
  /\ unfinished' = unfinished \ {e}
  /\ IF job[q].item = None THEN Return(q) ELSE Goto(q, "markused", job[q].item)
  /\ UNCHANGED <<userVars, used, mailVars, tokens, unrecorded>>

(* Wrong DeleteSessions: a change goes on to mark a reset token, too.        *)
DeleteSessionsThenMark(q) ==
  LET e == job[q].user IN
  /\ job[q].at = "revokeall"
  /\ sessions' = {s \in sessions : s.user # e}
  /\ unfinished' = unfinished \ {e}
  /\ Goto(q, "markused", job[q].item)
  /\ UNCHANGED <<userVars, used, mailVars, tokens, unrecorded>>

(* UpdatePassword, second statement: all sessions of the account, the       *)
(* caller's too.                                                            *)
DeleteSessions(q) ==
  LET e == job[q].user IN
  /\ job[q].at = "revokeall"
  /\ sessions' = {s \in sessions : s.user # e}
  /\ unfinished' = unfinished \ {e}
  /\ IF job[q].item = None THEN Return(q) ELSE Goto(q, "markused", job[q].item)
  /\ UNCHANGED <<userVars, used, mailVars, tokens, unrecorded>>

MarkResetTokenUsed(q) ==
  /\ job[q].at = "markused"
  /\ resets' \in {resets, resets \ {job[q].item}}
  /\ Return(q)
  /\ UNCHANGED <<userVars, sessionVars, codes, mailedTo, tokens, unfinished, unrecorded>>

-----------------------------------------------------------------------------
(* DeleteSession(id, userID).                                               *)
WithoutSession(id, e) == {s \in sessions : s.id # id \/ s.user # e}

(* HandleLogout: the session of the token, which need not be there.  The    *)
(* DELETE of DeleteRefreshToken compares ids with a JWT and fails.          *)
Logout(t) ==
  /\ t \in tokens /\ t.session # None
  /\ sessions' = WithoutSession(t.session, t.user)
  /\ UNCHANGED <<userVars, used, mailVars, tokens, job, unfinished, unrecorded>>

(* HandleRevokeSession: any session id, the password of the caller.         *)
RevokeSession(q, t, p, s) ==
  /\ Bearer(t) /\ PasswordMatches(t.user, p)
  /\ Start(q, "revoke", t.user, None, s)
  /\ UNCHANGED <<userVars, sessionVars, mailVars, tokens, unfinished, unrecorded>>

DeleteSession(q) ==
  /\ job[q].at = "revoke"
  /\ sessions' = WithoutSession(job[q].item, job[q].user)
  /\ Return(q)
  /\ UNCHANGED <<userVars, used, mailVars, tokens, unfinished, unrecorded>>

(* HandleRevokeAllOtherSessions.                                            *)
RevokeAllOtherSessions(q, t, p) ==
  /\ Bearer(t) /\ PasswordMatches(t.user, p)
  /\ Start(q, "revokeothers", t.user, None, t.session)
  /\ UNCHANGED <<userVars, sessionVars, mailVars, tokens, unfinished, unrecorded>>

(* DeleteOtherSessions; the empty id of a token without a session is not a  *)
(* uuid, and the statement fails.                                           *)
DeleteOtherSessions(q) ==
  LET current == job[q].item IN
  /\ job[q].at = "revokeothers"
  /\ sessions' = IF current = None THEN sessions
                 ELSE {s \in sessions : s.user # job[q].user \/ s.id = current}
  /\ Return(q)
  /\ UNCHANGED <<userVars, used, mailVars, tokens, unfinished, unrecorded>>

-----------------------------------------------------------------------------
(* A statement fails, the client goes away or the process dies: what has    *)
(* been committed stays.                                                    *)
Abort(q) ==
  /\ job[q].at # "idle"
  /\ unfinished' = IF job[q].at = "revokeall" THEN unfinished \cup {job[q].user} ELSE unfinished
  /\ Return(q)
  /\ UNCHANGED <<userVars, sessionVars, mailVars, tokens, unrecorded>>

(* Fifteen minutes, a day or a week pass.                                   *)
Expire ==
  /\ \/ \E c \in codes : codes' = codes \ {c} /\ UNCHANGED <<resets, tokens>>
     \/ \E t \in resets : resets' = resets \ {t} /\ UNCHANGED <<codes, tokens>>
     \/ /\ \E t \in tokens : ~t.refresh /\ t.session \in Expiring /\ tokens' = tokens \ {t}
        /\ UNCHANGED <<codes, resets>>
  /\ UNCHANGED <<userVars, sessionVars, mailedTo, job, unfinished, unrecorded>>

SignUp(q) ==
  \/ \E e \in Email, p \in Password : Register(q, e, p)
  \/ CreateUser(q)
  \/ \E e \in Email : ResendVerification(q, e)
  \/ CreateVerificationCode(q)
  \/ \E c \in Code : Verify(q, c)
  \/ DeleteVerificationCode(q)
  \/ SetVerified(q)

SignIn(q) ==
  \/ \E e \in Email, p \in Password : Login(q, e, p)
  \/ \E e \in Email : GoogleOAuth(q, e)
  \/ CreateGoogleUser(q)
  \/ SetGoogleVerified(q)
  \/ CreateSession(q)

ManagePassword(q) ==
  \/ \E t \in ResetToken, p \in Password : ResetPassword(q, t, p)
  \/ \E t \in tokens, old \in Password, new \in Password : ChangePassword(q, t, old, new)
  \/ UpdateHash(q)
  \/ DeleteSessions(q)
  \/ MarkResetTokenUsed(q)

EndSessions(q) ==
  \/ \E t \in tokens, p \in Password, s \in Session : RevokeSession(q, t, p, s)
  \/ DeleteSession(q)
  \/ \E t \in tokens, p \in Password : RevokeAllOtherSessions(q, t, p)
  \/ DeleteOtherSessions(q)

AuthNext ==
  \/ \E q \in Request : SignUp(q) \/ SignIn(q) \/ ManagePassword(q) \/ EndSessions(q) \/ Abort(q)
  \/ \E e \in Email, t \in ResetToken : ForgotPassword(e, t)
  \/ \E t \in tokens : Refresh(t) \/ Logout(t)
  \/ Expire

AuthSpec == AuthInit /\ [][AuthNext]_vars

-----------------------------------------------------------------------------
(* A change or reset of the password ends the sessions that were opened     *)
(* with the old one.  A session whose password is no longer the account's   *)
(* is there only while the change is between its two statements, after a    *)
(* change that failed between them, or because its log-in had checked the   *)
(* old password before the change and inserted the session afterwards.      *)
SessionsFollowPassword ==
  \A s \in sessions : s.checked \notin {None, hash[s.user]} =>
    \/ s.raced
    \/ s.user \in unfinished
    \/ \E q \in Request : job[q].at = "revokeall" /\ job[q].user = s.user

(* Nobody is signed in before the address is verified, however registration,*)
(* verification, Google sign-in and their failures interleave; the one      *)
(* exception is an address Google vouched for while SetVerified failed.     *)
TokensVouched == \A t \in tokens : t.user \in verified \cup unrecorded

=============================================================================
