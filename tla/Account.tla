-------------------------------- MODULE Account --------------------------------
(***************************************************************************)
(* Accounts: registration, verification, login, password reset and change, *)
(* one SQL statement, Redis command or mail per step.  Every statement     *)
(* commits by itself.  A user is known by the e-mail address.              *)
(***************************************************************************)
EXTENDS Sessions

CONSTANTS
  Token,        \* ids of e-mailed links, of either kind
  Password, NoPassword,
  Serves        \* [Handler -> the requests it may receive]

ASSUME PasswordAssumption == NoPassword \notin Password

VARIABLES
  user,      \* users and their auth_methods row
  token      \* email_verify_tokens, password_reset_tokens, and their mails

rows == <<user, token>>
vars == <<session, index, at, cookie, user, token>>

NoUser  == [exists |-> FALSE]
NoToken == [exists |-> FALSE]

Init ==
  /\ InitSessions
  /\ at = [p \in Handler |-> Idle]
  /\ user = [u \in User |-> NoUser]
  /\ token = [t \in Token |-> NoToken]

-------------------------------------------------------------------------------
(* The statements on users and auth_methods.                               *)
FindUserByEmail(u) == user[u].exists

InsertUser(u) == user' = [user EXCEPT ![u] =
  [exists |-> TRUE, verified |-> FALSE, password |-> NoPassword]]

MarkUserEmailVerified(u) == user' = [user EXCEPT ![u].verified = TRUE]

InsertAuthMethodPassword(u, password) == user' = [user EXCEPT ![u].password = password]

FindAuthMethodByUserAndProvider(u) == user[u].password # NoPassword

(* It changes the row there is.                                            *)
UpdateAuthMethodPassword(u, password) == user' =
  IF FindAuthMethodByUserAndProvider(u) THEN [user EXCEPT ![u].password = password] ELSE user

(* The statements on the two tables of links.                              *)
FindEmailVerifyToken(t)   == token[t].exists /\ token[t].kind = "verify"
FindPasswordResetToken(t) == token[t].exists /\ token[t].kind = "reset"

NewToken(kind, u) == [exists |-> TRUE, kind |-> kind, user |-> u, age |-> "live",
                      consumed |-> FALSE, mailed |-> FALSE]

InsertEmailVerifyToken(t, u)   == token' = [token EXCEPT ![t] = NewToken("verify", u)]
InsertPasswordResetToken(t, u) == token' = [token EXCEPT ![t] = NewToken("reset", u)]

ConsumeEmailVerifyToken(t) == token' =
  IF FindEmailVerifyToken(t) THEN [token EXCEPT ![t].consumed = TRUE] ELSE token

ConsumePasswordResetToken(t) == token' =
  IF FindPasswordResetToken(t) THEN [token EXCEPT ![t].consumed = TRUE] ELSE token

(* Links a week past their expiry are deleted.                             *)
DeleteExpiredEmailVerifyTokens == token' =
  [t \in Token |-> IF FindEmailVerifyToken(t) /\ token[t].age = "old" THEN NoToken ELSE token[t]]

DeleteExpiredPasswordResetTokens == token' =
  [t \in Token |-> IF FindPasswordResetToken(t) /\ token[t].age = "old" THEN NoToken ELSE token[t]]

-------------------------------------------------------------------------------
(* A request arrives and runs up to its first statement's answer.          *)
Arrives(p, op) == at[p].pc = "idle" /\ op \in Serves[p]

Frame(p, pc, u, body) == Goto(p, NewFrame(pc, u, body))

(* Register: the user's row; a taken e-mail is 409.                        *)
Register(p, u, password) ==
  /\ Arrives(p, "register") /\ ~FindUserByEmail(u)
  /\ InsertUser(u)
  /\ Frame(p, "insert_password", u, [password |-> password])
  /\ UNCHANGED <<redis, cookie, token>>

InsertPassword(p) ==
  /\ at[p].pc = "insert_password"
  /\ InsertAuthMethodPassword(at[p].user, at[p].body.password)
  /\ Frame(p, "insert_token", at[p].user, [kind |-> "verify"])
  /\ UNCHANGED <<redis, cookie, token>>

(* ResendVerifyEmail: nothing is sent to a verified or unknown address.    *)
Resend(p, u) ==
  /\ Arrives(p, "resend") /\ FindUserByEmail(u) /\ ~user[u].verified
  /\ Frame(p, "insert_token", u, [kind |-> "verify"])
  /\ UNCHANGED <<redis, cookie, rows>>

(* RequestPasswordReset: nor a reset to an unverified one.                 *)
RequestReset(p, u) ==
  /\ Arrives(p, "reset") /\ FindUserByEmail(u) /\ user[u].verified
  /\ Frame(p, "insert_token", u, [kind |-> "reset"])
  /\ UNCHANGED <<redis, cookie, rows>>

(* A new link's row, and its mail, which may be lost.                      *)
Holding == {p \in Busy : at[p].pc \in {"mail", "mark", "consume_verify", "reset_password", "consume_reset"}}

InsertToken(p) ==
  \E t \in Token \ {at[q].body.token : q \in Holding} :
    /\ at[p].pc = "insert_token" /\ ~token[t].exists
    /\ IF at[p].body.kind = "verify" THEN InsertEmailVerifyToken(t, at[p].user)
                                 ELSE InsertPasswordResetToken(t, at[p].user)
    /\ Frame(p, "mail", at[p].user, [token |-> t])
    /\ UNCHANGED <<redis, cookie, user>>

SendMail(p, delivered) ==
  /\ at[p].pc = "mail"
  /\ token' = [token EXCEPT ![at[p].body.token] =
       IF @.exists THEN [@ EXCEPT !.mailed = delivered] ELSE @]
  /\ Done(p)
  /\ UNCHANGED <<redis, cookie, user>>

-------------------------------------------------------------------------------
(* A link is opened: an expired or consumed one is refused.                *)
Opens(p, t, op) ==
  /\ Arrives(p, op)
  /\ token[t].mailed /\ ~token[t].consumed /\ token[t].age = "live"

VerifyConsumingFirst(p, t) ==   \* variant: consumed before its work is done
  /\ FindEmailVerifyToken(t) /\ Opens(p, t, "verify")
  /\ Frame(p, "consume_verify", token[t].user, [token |-> t, then |-> "mark"])
  /\ UNCHANGED <<redis, cookie, rows>>

VerifyEmail(p, t) ==
  /\ FindEmailVerifyToken(t) /\ Opens(p, t, "verify")
  /\ Frame(p, "mark", token[t].user, [token |-> t, then |-> "idle"])
  /\ UNCHANGED <<redis, cookie, rows>>

MarkEmailVerified(p) ==
  /\ at[p].pc = "mark"
  /\ MarkUserEmailVerified(at[p].user)
  /\ Step(p, "consume_verify")
  /\ UNCHANGED <<redis, cookie, token>>

(* The link is consumed last...                                            *)
ConsumeVerify(p) ==
  /\ at[p].pc = "consume_verify"
  /\ ConsumeEmailVerifyToken(at[p].body.token)
  /\ IF at[p].body.then = "idle" THEN Done(p) ELSE Step(p, at[p].body.then)
  /\ UNCHANGED <<redis, cookie, user>>

ConfirmReset(p, t, password) ==
  /\ FindPasswordResetToken(t) /\ Opens(p, t, "confirm")
  /\ Frame(p, "reset_password", token[t].user, [token |-> t, password |-> password])
  /\ UNCHANGED <<redis, cookie, rows>>

ResetPassword(p) ==
  /\ at[p].pc = "reset_password"
  /\ UpdateAuthMethodPassword(at[p].user, at[p].body.password)
  /\ Step(p, "consume_reset")
  /\ UNCHANGED <<redis, cookie, token>>

(* ... and a reset then revokes every session.                             *)
ConsumeReset(p) ==
  /\ at[p].pc = "consume_reset"
  /\ ConsumePasswordResetToken(at[p].body.token)
  /\ Step(p, "revoke")
  /\ UNCHANGED <<redis, cookie, user>>

-------------------------------------------------------------------------------
(* Login: the user's row, the password row, and then the session, if the   *)
(* row read first was verified.                                            *)
Login(p, u, password, remember) ==
  /\ Arrives(p, "login") /\ FindUserByEmail(u)
  /\ Frame(p, "check_password", u, [password |-> password, remember |-> remember,
                                    verified |-> user[u].verified])
  /\ UNCHANGED <<redis, cookie, rows>>

LogsInAnyway(p) == TRUE   \* variant: verification not required

MayLogIn(p) == at[p].body.verified

CheckPassword(p) ==
  /\ at[p].pc = "check_password"
  /\ IF /\ FindAuthMethodByUserAndProvider(at[p].user)
        /\ user[at[p].user].password = at[p].body.password /\ MayLogIn(p)
       THEN Step(p, "create") ELSE Done(p)
  /\ UNCHANGED <<redis, cookie, rows>>

CreateSession(p) ==
  /\ at[p].pc = "create"
  /\ Create(p, at[p].user, at[p].body.remember)
  /\ Done(p)
  /\ UNCHANGED rows

-------------------------------------------------------------------------------
(* Signed-in requests: any other, logout, all sessions, a new password.    *)
SignedIn(p, s, op) ==
  /\ op \in Serves[p]
  /\ Request(p, s, op)
  /\ UNCHANGED rows

GetMe(p, s)             == SignedIn(p, s, "me")
Logout(p, s)            == SignedIn(p, s, "logout")
DeleteAllSessions(p, s) == SignedIn(p, s, "revoke")
ChangeRequest(p, s)     == SignedIn(p, s, "change")

Me(p) == at[p].pc = "me" /\ Done(p) /\ UNCHANGED <<redis, cookie, rows>>

Refused(p, s) == Serves[p] \cap {"me", "logout", "revoke", "change"} # {} /\ Unauthenticated(p, s) /\ UNCHANGED rows

(* The cart's routes; CartRC has what they do.                             *)
CartRequest(p, s) == "cart" \in Serves[p] /\ ResolveCartIdentity(p, s) /\ UNCHANGED rows

CartAnswer(p) == at[p].pc = "cart" /\ Done(p) /\ UNCHANGED <<redis, cookie, rows>>

(* ChangePassword: the current one is checked, the new one set, and the    *)
(* user's other sessions revoked.                                          *)
CheckCurrent(p, current, new) ==
  /\ at[p].pc = "change"
  /\ IF FindAuthMethodByUserAndProvider(at[p].user) /\ user[at[p].user].password = current
       THEN Goto(p, [at[p] EXCEPT !.pc = "change_password", !.body = [password |-> new]])
       ELSE Done(p)
  /\ UNCHANGED <<redis, cookie, rows>>

ChangePassword(p) ==
  /\ at[p].pc = "change_password"
  /\ UpdateAuthMethodPassword(at[p].user, at[p].body.password)
  /\ Step(p, "revoke_others")
  /\ UNCHANGED <<redis, cookie, token>>

-------------------------------------------------------------------------------
(* Time: links expire, and grow old; the cleanup job deletes the old ones. *)
LinkAges(t) ==
  /\ token[t].exists /\ token[t].age # "old"
  /\ token' = [token EXCEPT ![t].age = IF @ = "live" THEN "expired" ELSE "old"]
  /\ UNCHANGED <<redis, cookie, at, user>>

RunCleanupExpiredTokensOnce ==
  /\ DeleteExpiredEmailVerifyTokens \/ DeleteExpiredPasswordResetTokens
  /\ UNCHANGED <<redis, cookie, at, user>>

Abort(p) ==
  /\ p \in MayCrash /\ at[p].pc # "idle"
  /\ Done(p)
  /\ UNCHANGED <<redis, cookie, rows>>

Handles(p) ==
  \/ InsertPassword(p) \/ InsertToken(p) \/ \E d \in BOOLEAN : SendMail(p, d)
  \/ MarkEmailVerified(p) \/ ConsumeVerify(p) \/ ResetPassword(p) \/ ConsumeReset(p)
  \/ CheckPassword(p) \/ CreateSession(p) \/ Me(p) \/ CartAnswer(p)
  \/ \E current, new \in Password : CheckCurrent(p, current, new)
  \/ ChangePassword(p)
  \/ SessionStep(p) /\ UNCHANGED rows

Next ==
  \/ \E p \in Handler :
       \/ \E u \in User : \/ Resend(p, u) \/ RequestReset(p, u)
                          \/ \E w \in Password : \/ Register(p, u, w)
                                                 \/ \E r \in Remembering : Login(p, u, w, r)
       \/ \E t \in Token : VerifyEmail(p, t) \/ \E w \in Password : ConfirmReset(p, t, w)
       \/ \E s \in Session : GetMe(p, s) \/ Logout(p, s) \/ DeleteAllSessions(p, s) \/ ChangeRequest(p, s)
                          \/ Refused(p, s) \/ CartRequest(p, s)
       \/ Handles(p) \/ Abort(p)
  \/ \E t \in Token : LinkAges(t)
  \/ RunCleanupExpiredTokensOnce
  \/ Tick /\ UNCHANGED rows

Spec == Init /\ [][Next]_vars
-------------------------------------------------------------------------------
TypeOK ==
  /\ SessionsOK
  /\ \A u \in User : user[u] # NoUser => user[u] \in
       [exists : {TRUE}, verified : BOOLEAN, password : Password \cup {NoPassword}]
  /\ \A t \in Token : token[t] # NoToken => token[t] \in
       [exists : {TRUE}, kind : {"verify", "reset"}, user : User, consumed : BOOLEAN,
        age : {"live", "expired", "old"}, mailed : BOOLEAN]

(* Only a user whose address is verified and who has a password is ever    *)
(* signed in, although login decides on rows read one after the other.     *)
SessionsOfVerifiedUsers ==
  \A s \in Session : Live(s) =>
    LET u == user[session[s].user] IN u.exists /\ u.verified /\ u.password # NoPassword

(* A link is consumed after its work is done: one whose request died half  *)
(* way still works, and a consumed one has verified its user.              *)
ConsumedMeansVerified ==
  \A t \in Token :
    token[t].exists /\ token[t].kind = "verify" /\ token[t].consumed
      => user[token[t].user].verified
===============================================================================
