-------------------------------- MODULE Sessions --------------------------------
(***************************************************************************)
(* The Redis session manager, the middlewares that use it and the cookies  *)
(* that carry its ids, one Redis command or pipeline (MULTI/EXEC) per      *)
(* step.  Time passes in ticks; a TTL or a Max-Age is the number of ticks  *)
(* left.                                                                   *)
(***************************************************************************)
EXTENDS Integers, FiniteSets, TLC

CONSTANTS
  User,
  Session,         \* ids, minted by Create
  Remembering,     \* which values of remember logins ask for
  TtlDefault, TtlRememberMe, RefreshAfter,
  Handler,         \* HTTP handlers
  MayCrash         \* handlers that may lose their connection, to Redis or the client

ASSUME TtlAssumption ==
  /\ {TtlDefault, TtlRememberMe, RefreshAfter} \subseteq Nat \ {0}
  /\ RefreshAfter < TtlDefault /\ TtlDefault <= TtlRememberMe
ASSUME HandlerAssumption ==
  Remembering \subseteq BOOLEAN /\ MayCrash \subseteq Handler

VARIABLES
  session,   \* session:<id>, with the ticks since last_activity_at
  index,     \* session:user:<id>
  at,        \* [Handler -> what the request's Go frame remembers]
  cookie     \* [Session -> Max-Age left in the browser that signed in]

redis == <<session, index>>

NoSession == [left |-> 0]
NoIndex   == [ids |-> {}, left |-> 0]
Idle      == [pc |-> "idle"]

(* A request's frame: op is the handler the middleware leads to, body what *)
(* that handler keeps.                                                     *)
NewFrame(pc, u, body) ==
  [pc |-> pc, op |-> "none", user |-> u, session |-> "none", remember |-> FALSE,
   age |-> 0, found |-> {}, body |-> body]

InitSessions ==
  /\ session = [s \in Session |-> NoSession]
  /\ index = [u \in User |-> NoIndex]
  /\ cookie = [s \in Session |-> 0]

Live(s) == session[s].left > 0
Goto(p, frame) == at' = [at EXCEPT ![p] = frame]
Step(p, pc)    == Goto(p, [at[p] EXCEPT !.pc = pc])
Done(p)        == Goto(p, Idle)
Busy           == {p \in Handler : at[p].pc # "idle"}

Ttl(remember) == IF remember THEN TtlRememberMe ELSE TtlDefault

(* The answer's Set-Cookie, unless the answer is lost.                     *)
Receives(p, jar) == \/ cookie' = jar
                    \/ p \in MayCrash /\ UNCHANGED cookie

(* setSessionCookies; a browser that was signed in loses the other cookie. *)
setSessionCookies(p, s, maxAge) ==
  \E old \in Session : Receives(p, [cookie EXCEPT ![old] = 0, ![s] = maxAge])

clearCookie(p, s) == Receives(p, [cookie EXCEPT ![s] = 0])

-------------------------------------------------------------------------------
(* Create: a fresh random id, the session and the user's index entry; both *)
(* keys expire with this session, and so does the cookie: Max-Age is the   *)
(* time until expires_at.                                                  *)
InHand == UNION {{at[p].session} \cup at[p].found : p \in Busy}
Minted == {s \in Session : Live(s) \/ cookie[s] > 0} \cup (UNION {index[u].ids : u \in User}) \cup InHand

CreateUnbounded(p, u, remember) ==   \* variant: no EXPIREAT of the index
  \E s \in Session \ Minted :
    /\ session' = [session EXCEPT ![s] =
         [user |-> u, remember |-> remember, since |-> 0, left |-> Ttl(remember)]]
    /\ index' = [index EXCEPT ![u].ids = @ \cup {s}]
    /\ setSessionCookies(p, s, Ttl(remember))

Create(p, u, remember) ==
  \E s \in Session \ Minted :
    /\ session' = [session EXCEPT ![s] =
         [user |-> u, remember |-> remember, since |-> 0, left |-> Ttl(remember)]]
    /\ index' = [index EXCEPT ![u] = [ids |-> @.ids \cup {s}, left |-> Ttl(remember)]]
    /\ setSessionCookies(p, s, Ttl(remember))

-------------------------------------------------------------------------------
(* Middleware: a request with a session's cookie looks it up...            *)
Request(p, s, op) ==
  /\ at[p].pc = "idle" /\ cookie[s] > 0 /\ Live(s)
  /\ Goto(p, [NewFrame("refresh", session[s].user, <<>>) EXCEPT
                !.op = op, !.session = s, !.remember = session[s].remember])
  /\ UNCHANGED <<redis, cookie>>

(* ... and answers 401 without it.                                         *)
Unauthenticated(p, s) ==
  /\ at[p].pc = "idle" /\ cookie[s] > 0 /\ ~Live(s)
  /\ clearCookie(p, s)
  /\ UNCHANGED <<redis, at>>

(* The cart's middleware looks the session up and leaves it as it is;      *)
(* without it the visitor is anonymous and keeps the cookie.               *)
ResolveCartIdentity(p, s) ==
  /\ at[p].pc = "idle" /\ cookie[s] > 0 /\ Live(s)
  /\ Goto(p, [NewFrame("cart", session[s].user, <<>>) EXCEPT !.session = s])
  /\ UNCHANGED <<redis, cookie>>

(* Refresh reads the session again, and leaves one used lately alone.      *)
Refresh(p) ==
  LET s == at[p].session IN
  /\ at[p].pc = "refresh"
  /\ Step(p, IF Live(s) /\ session[s].since >= RefreshAfter THEN "renew" ELSE at[p].op)
  /\ UNCHANGED <<redis, cookie>>

(* Its failures, of the read or the pipeline, are ignored.                 *)
RefreshFails(p) ==
  /\ p \in MayCrash /\ at[p].pc \in {"refresh", "renew"}
  /\ Step(p, at[p].op)
  /\ UNCHANGED <<redis, cookie>>

RenewedFor(p) == RefreshAfter   \* variant: the refresh interval taken for the TTL

Renewed(p) == Ttl(at[p].remember)

(* The session it read is written back, with the time it read it.  EXPIRE  *)
(* of a missing index does nothing.  The cookie stays as login set it.     *)
Renew(p) ==
  LET s == at[p].session  u == at[p].user IN
  /\ at[p].pc = "renew"
  /\ session' = [session EXCEPT ![s] = [user |-> u, remember |-> at[p].remember,
                   since |-> at[p].age, left |-> Renewed(p) - at[p].age]]
  /\ index' = [index EXCEPT ![u].left = IF index[u].ids = {} THEN 0 ELSE Renewed(p) - at[p].age]
  /\ Step(p, at[p].op)
  /\ UNCHANGED cookie

-------------------------------------------------------------------------------
(* Commands that end sessions: the ids S of user u go from the keys, and   *)
(* from the index, which disappears when it is empty.                      *)
Ended(u, S) ==
  /\ session' = [s \in Session |-> IF s \in S THEN NoSession ELSE session[s]]
  /\ index' = [index EXCEPT ![u] = IF @.ids \subseteq S THEN NoIndex
                                     ELSE [ids |-> @.ids \ S, left |-> @.left]]

(* Delete: the session is read, then it and its index entry removed; the   *)
(* handler's answer clears the cookie.                                     *)
ReadForLogout(p) ==
  /\ at[p].pc = "logout"
  /\ IF Live(at[p].session) THEN Step(p, "remove") /\ UNCHANGED cookie
                             ELSE Done(p) /\ clearCookie(p, at[p].session)
  /\ UNCHANGED redis

Remove(p) ==
  /\ at[p].pc = "remove"
  /\ Ended(at[p].user, {at[p].session})
  /\ clearCookie(p, at[p].session)
  /\ Done(p)

(* DeleteAllForUser and DeleteAllForUserExcept: the index is read...       *)
ListSessions(p) ==
  /\ at[p].pc \in {"revoke", "revoke_others"}
  /\ Goto(p, [at[p] EXCEPT !.pc = IF @ = "revoke" THEN "delete" ELSE "prune",
                           !.found = index[at[p].user].ids])
  /\ UNCHANGED <<redis, cookie>>

(* ... and the sessions listed are deleted, with the whole index, and the  *)
(* caller's cookie (a password reset has none)...                          *)
DeleteListed(p) ==
  LET S == at[p].found IN
  /\ at[p].pc = "delete"
  /\ session' = [s \in Session |-> IF s \in S THEN NoSession ELSE session[s]]
  /\ index' = [index EXCEPT ![at[p].user] = IF S = {} THEN @ ELSE NoIndex]
  /\ IF at[p].op = "revoke" THEN clearCookie(p, at[p].session) ELSE UNCHANGED cookie
  /\ Done(p)

(* ... or all but the caller's, each with its index entry.                 *)
Pruned(p) == at[p].found \ {at[p].session}

Prune(p) ==
  /\ at[p].pc = "prune"
  /\ Ended(at[p].user, Pruned(p))
  /\ Done(p)
  /\ UNCHANGED cookie

-------------------------------------------------------------------------------
SessionStep(p) ==
  \/ Refresh(p) \/ RefreshFails(p) \/ Renew(p) \/ ReadForLogout(p) \/ Remove(p)
  \/ ListSessions(p) \/ DeleteListed(p) \/ Prune(p)

(* A tick: keys and cookies expire.  A request does not take as long as    *)
(* RefreshAfter (seconds against a day).                                   *)
Tick ==
  /\ \A p \in Busy : at[p].age < RefreshAfter
  /\ session' = [s \in Session |->
       IF session[s].left <= 1 THEN NoSession
       ELSE [session[s] EXCEPT !.left = @ - 1, !.since = IF @ = RefreshAfter THEN @ ELSE @ + 1]]
  /\ index' = [u \in User |-> IF index[u].left <= 1 THEN NoIndex
                                ELSE [index[u] EXCEPT !.left = @ - 1]]
  /\ at' = [p \in Handler |-> IF at[p].pc = "renew" THEN [at[p] EXCEPT !.age = @ + 1] ELSE at[p]]
  /\ cookie' = [s \in Session |-> IF cookie[s] = 0 THEN 0 ELSE cookie[s] - 1]

-------------------------------------------------------------------------------
SessionsOK ==
  /\ \A s \in Session : Live(s) => session[s] \in
       [user : User, remember : Remembering, since : 0..RefreshAfter, left : 1..TtlRememberMe]
  /\ \A s \in Session : cookie[s] \in 0..TtlRememberMe
  /\ \A u \in User : /\ index[u].ids \subseteq Session
                      /\ index[u].left \in 0..TtlRememberMe
                      /\ index[u].ids = {} <=> index[u].left = 0

(* Unless a request ends it, a session's key never expires before the      *)
(* cookie of the browser that signed in: refreshes skipped, failed, done   *)
(* late or from an old copy cost no user a part of the login.              *)
KeyOutlivesCookie == \A s \in Session : Live(s) => session[s].left >= cookie[s]
===============================================================================
