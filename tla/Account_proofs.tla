---------------------------- MODULE Account_proofs ----------------------------
(***************************************************************************)
(* Who is signed in, and for how long, for any number of users, sessions,  *)
(* links and requests at once: first what every command of the session     *)
(* manager keeps (the two keys stay in shape, and a session's key lives as *)
(* long as its cookie), then what the requests do with it.                 *)
(***************************************************************************)
EXTENDS Account, TLAPS

SessionRow == [user : User, remember : Remembering, since : 0..RefreshAfter,
               left : 1..TtlRememberMe]
IndexRow   == [ids : SUBSET Session, left : 0..TtlRememberMe]

(* A cookie never has more left than the login's TTL, which is what a      *)
(* refresh gives the key: this is why one that is skipped, or fails, costs *)
(* nothing.                                                                *)
CookieOfLogin == \A s \in Session : Live(s) => cookie[s] <= Ttl(session[s].remember)

RedisOK ==
  /\ session \in [Session -> SessionRow \cup {NoSession}]
  /\ index \in [User -> IndexRow]
  /\ \A u \in User : index[u].ids = {} <=> index[u].left = 0
  /\ cookie \in [Session -> 0..TtlRememberMe]
  /\ CookieOfLogin /\ KeyOutlivesCookie

(* A step gives no cookie more time...                                     *)
Waned == /\ cookie' \in [Session -> 0..TtlRememberMe]
         /\ \A s \in Session : cookie'[s] <= cookie[s]

(* ... at least none of a session that a refresh has in hand.              *)
HeldWaned == \A q \in Handler :
  at[q].pc \in {"refresh", "renew"} /\ at[q].session \in Session =>
    cookie[at[q].session] \in Nat /\ cookie'[at[q].session] \in 0..cookie[at[q].session]

(* A step leaves sessions that were there, of the same users...            *)
NoneNew == \A s \in Session : Live(s)' => Live(s) /\ session'[s].user = session[s].user

(* ... or u's.                                                             *)
Origin(u) == \A s \in Session : Live(s)' =>
               (Live(s) /\ session'[s].user = session[s].user) \/ session'[s].user = u

(* A TTL leaves room for a refresh.                                        *)
LEMMA TtlFacts ==
  ASSUME NEW r \in Remembering
  PROVE  /\ Ttl(r) \in Nat /\ RefreshAfter \in Nat /\ TtlRememberMe \in Nat
         /\ 0 < RefreshAfter /\ RefreshAfter < Ttl(r) /\ Ttl(r) <= TtlRememberMe
BY TtlAssumption DEF Ttl

(* A row of the store is a session's or none.                              *)
LEMMA SessionShape ==
  ASSUME NEW r \in SessionRow \cup {NoSession}
  PROVE  /\ r.left \in Nat /\ NoSession.left = 0
         /\ r.left > 0 <=> r \in SessionRow
         /\ r.left = 0 <=> r = NoSession
BY TtlAssumption DEF SessionRow, NoSession

(* The row Create and Renew write.                                         *)
LEMMA RowWritten ==
  ASSUME NEW u \in User, NEW r \in Remembering, NEW age \in 0..RefreshAfter
  PROVE  LET row == [user |-> u, remember |-> r, since |-> age, left |-> Ttl(r) - age] IN
         /\ row \in SessionRow /\ row.user = u /\ row.since = age /\ row.remember = r
         /\ row.left = Ttl(r) - age /\ row.left > 0
BY TtlFacts DEF SessionRow

(* Answers that clear a cookie, or leave it.                               *)
LEMMA AnswersKeep ==
  ASSUME RedisOK, NEW p, NEW s, clearCookie(p, s) \/ UNCHANGED cookie
  PROVE  Waned
<1>1. \A t \in Session : cookie[t] \in 0..TtlRememberMe /\ TtlRememberMe \in Nat
  BY TtlAssumption DEF RedisOK
<1>2. CASE cookie' = cookie
  BY <1>1, <1>2 DEF RedisOK, Waned
<1>3. CASE cookie' = [cookie EXCEPT ![s] = 0]
  <2>1. \A t \in Session : cookie'[t] \in {0, cookie[t]}
    BY <1>3 DEF RedisOK
  <2>2. cookie' = [t \in Session |-> cookie'[t]]
    BY <1>3 DEF RedisOK
  <2> QED
    BY <1>1, <2>1, <2>2 DEF Waned
<1> QED
  BY <1>2, <1>3 DEF clearCookie, Receives

(* An answer that sets one.                                                *)
LEMMA CookieSet ==
  ASSUME RedisOK, NEW p, NEW s \in Session, NEW maxAge \in 0..TtlRememberMe,
         setSessionCookies(p, s, maxAge)
  PROVE  /\ cookie' \in [Session -> 0..TtlRememberMe]
         /\ cookie'[s] \in {cookie[s], maxAge}
         /\ \A t \in Session \ {s} : cookie'[t] \in {0, cookie[t]}
<1>1. \A t \in Session : cookie[t] \in 0..TtlRememberMe /\ 0 \in 0..TtlRememberMe
  BY TtlAssumption DEF RedisOK
<1>2. PICK old \in Session :
        \/ cookie' = [cookie EXCEPT ![old] = 0, ![s] = maxAge]
        \/ cookie' = cookie
  BY DEF setSessionCookies, Receives
<1> QED
  BY <1>1, <1>2 DEF RedisOK

(* A step that leaves the keys alone, and gives no cookie more time.       *)
LEMMA KeysSame ==
  ASSUME RedisOK, UNCHANGED redis, Waned
  PROVE  RedisOK' /\ NoneNew /\ HeldWaned
<1>1. session' = session /\ index' = index
  BY DEF redis
<1>2. /\ TtlRememberMe \in Nat /\ cookie' \in [Session -> 0..TtlRememberMe]
      /\ \A s \in Session : /\ cookie[s] \in Nat /\ cookie'[s] \in 0..cookie[s]
                            /\ Live(s)' <=> Live(s)
  BY <1>1, TtlAssumption DEF RedisOK, Waned, Live
<1>3. CookieOfLogin' /\ KeyOutlivesCookie'
  <2>1. ASSUME NEW s \in Session, Live(s)'
        PROVE  cookie'[s] <= Ttl(session[s].remember) /\ session[s].left >= cookie'[s]
    <3>1. /\ Ttl(session[s].remember) \in Nat /\ session[s].left \in Nat
          /\ cookie[s] <= Ttl(session[s].remember) /\ session[s].left >= cookie[s]
      BY <1>2, <2>1, SessionShape, TtlAssumption
      DEF RedisOK, CookieOfLogin, KeyOutlivesCookie, Ttl
    <3>2. cookie[s] \in Nat /\ cookie'[s] \in 0..cookie[s]
      BY <1>2
    <3> QED
      BY <3>1, <3>2
  <2> QED
    BY <1>1, <2>1 DEF CookieOfLogin, KeyOutlivesCookie, Live, Ttl
<1>4. NoneNew /\ HeldWaned
  BY <1>1, <1>2 DEF NoneNew, HeldWaned
<1> QED
  BY <1>1, <1>2, <1>3, <1>4 DEF RedisOK

(* Writing one session with all of its TTL but the age of its last use.    *)
LEMMA WriteKeeps ==
  ASSUME RedisOK, NEW s \in Session, NEW u \in User, NEW r \in Remembering,
         NEW age \in 0..RefreshAfter,
         session' = [session EXCEPT ![s] = [user |-> u, remember |-> r, since |-> age,
                                            left |-> Ttl(r) - age]],
         cookie' \in [Session -> 0..TtlRememberMe], cookie'[s] + age <= Ttl(r),
         \A t \in Session \ {s} : cookie'[t] \in {0, cookie[t]},
         index' \in [User -> IndexRow],
         \A v \in User : index'[v].ids = {} <=> index'[v].left = 0
  PROVE  RedisOK' /\ Origin(u)
<1> DEFINE row == [user |-> u, remember |-> r, since |-> age, left |-> Ttl(r) - age]
<1>1. /\ row \in SessionRow /\ row.user = u /\ row.since = age /\ row.remember = r
      /\ row.left = Ttl(r) - age /\ row.left > 0
  BY RowWritten
<1>2. session' = [session EXCEPT ![s] = row]
  OBVIOUS
<1> HIDE DEF row
<1>3. /\ session'[s] = row /\ \A t \in Session \ {s} : session'[t] = session[t]
      /\ session' \in [Session -> SessionRow \cup {NoSession}]
  BY <1>1, <1>2 DEF RedisOK
<1>4. ASSUME NEW t \in Session, Live(t)'
      PROVE  cookie'[t] <= Ttl(session'[t].remember) /\ session'[t].left >= cookie'[t]
  <2>1. CASE t = s
    <3>1. Ttl(r) \in Nat /\ age \in Nat /\ cookie'[s] \in Nat
      BY TtlFacts
    <3> QED
      BY <1>1, <1>3, <2>1, <3>1
  <2>2. CASE t # s
    <3>1. /\ session'[t] = session[t] /\ session[t] \in SessionRow
          /\ cookie'[t] \in {0, cookie[t]} /\ Live(t)
      BY <1>3, <1>4, <2>2, SessionShape DEF RedisOK, Live
    <3>2. session[t].left \in Nat /\ Ttl(session[t].remember) \in Nat
      BY <3>1, SessionShape, TtlAssumption DEF Ttl
    <3>3. cookie[t] <= Ttl(session[t].remember) /\ session[t].left >= cookie[t]
      BY <3>1 DEF RedisOK, CookieOfLogin, KeyOutlivesCookie
    <3> QED
      BY <3>1, <3>2, <3>3
  <2> QED
    BY <2>1, <2>2
<1>5. CookieOfLogin' /\ KeyOutlivesCookie'
  BY <1>4 DEF CookieOfLogin, KeyOutlivesCookie, Live, Ttl
<1>6. Origin(u)
  BY <1>1, <1>3 DEF Origin, Live
<1> QED
  BY <1>3, <1>5, <1>6 DEF RedisOK

(* A session a request has in hand is not minted again.                    *)
LEMMA BusyMinted == \A q \in Busy : at[q].session \in Minted
<1> SUFFICES ASSUME NEW q \in Busy PROVE at[q].session \in Minted
  OBVIOUS
<1>1. at[q].session \in InHand
  <2> DEFINE Sets == {{at[p].session} \cup at[p].found : p \in Busy}
  <2>1. {at[q].session} \cup at[q].found \in Sets
    OBVIOUS
  <2> HIDE DEF Sets
  <2>2. at[q].session \in UNION Sets
    BY <2>1
  <2> QED
    BY <2>2 DEF InHand, Sets
<1> HIDE DEF InHand
<1> QED
  BY <1>1 DEF Minted

(* A login.                                                                *)
LEMMA CreateKeeps ==
  ASSUME RedisOK, NEW p, NEW u \in User, NEW r \in Remembering, Create(p, u, r)
  PROVE  RedisOK' /\ Origin(u) /\ HeldWaned
<1>1. PICK s \in Session \ Minted :
        /\ session' = [session EXCEPT ![s] =
             [user |-> u, remember |-> r, since |-> 0, left |-> Ttl(r)]]
        /\ index' = [index EXCEPT ![u] = [ids |-> @.ids \cup {s}, left |-> Ttl(r)]]
        /\ setSessionCookies(p, s, Ttl(r))
  BY DEF Create
<1>2. /\ Ttl(r) - 0 = Ttl(r) /\ 0 \in 0..RefreshAfter /\ Ttl(r) \in 0..TtlRememberMe /\ Ttl(r) # 0
      /\ 0 + 0 <= Ttl(r) /\ Ttl(r) + 0 <= Ttl(r)
  BY TtlFacts
<1>3. index' \in [User -> IndexRow]
  BY <1>1, <1>2 DEF RedisOK, IndexRow
<1>4. \A v \in User : index'[v].ids = {} <=> index'[v].left = 0
  BY <1>1, <1>2 DEF RedisOK
<1>5. /\ cookie' \in [Session -> 0..TtlRememberMe]
      /\ cookie'[s] \in {cookie[s], Ttl(r)}
      /\ \A t \in Session \ {s} : cookie'[t] \in {0, cookie[t]}
  BY <1>1, <1>2, CookieSet
<1>6. cookie[s] = 0
  BY <1>1, TtlAssumption DEF Minted, RedisOK
<1>7. cookie'[s] + 0 <= Ttl(r)
  BY <1>2, <1>5, <1>6
<1>8. HeldWaned
  <2>1. ASSUME NEW q \in Handler, at[q].pc \in {"refresh", "renew"}
        PROVE  at[q].session # s
    <3>1. q \in Busy
      BY <2>1 DEF Busy
    <3>2. at[q].session \in Minted
      BY <3>1, BusyMinted
    <3>3. s \notin Minted
      BY <1>1
    <3> QED
      BY <3>2, <3>3
  <2>2. ASSUME NEW t \in Session \ {s}
        PROVE  cookie[t] \in Nat /\ cookie'[t] \in 0..cookie[t]
    BY <1>5, TtlAssumption DEF RedisOK
  <2> QED
    BY <2>1, <2>2 DEF HeldWaned
<1> QED
  BY <1>1, <1>2, <1>3, <1>4, <1>5, <1>7, <1>8, WriteKeeps

(* The write-back of a session, whatever became of it since it was read.   *)
LEMMA RenewKeeps ==
  ASSUME RedisOK, NEW p, at[p].session \in Session, at[p].user \in User,
         at[p].remember \in Remembering, at[p].age \in 0..RefreshAfter,
         cookie[at[p].session] + at[p].age <= Ttl(at[p].remember), Renew(p)
  PROVE  RedisOK' /\ Origin(at[p].user) /\ HeldWaned
<1> DEFINE u == at[p].user
           left == IF index[u].ids = {} THEN 0 ELSE Renewed(p) - at[p].age
<1>1. Renewed(p) = Ttl(at[p].remember)
  BY DEF Renewed
<1>2. Ttl(at[p].remember) - at[p].age \in 1..TtlRememberMe
  BY TtlFacts
<1>3. left \in 0..TtlRememberMe /\ (index[u].ids = {} <=> left = 0)
  BY <1>1, <1>2, TtlAssumption
<1>4. index' = [index EXCEPT ![u].left = left]
  BY DEF Renew
<1> HIDE DEF left
<1>5. index' \in [User -> IndexRow]
  BY <1>3, <1>4 DEF RedisOK, IndexRow
<1>6. \A v \in User : index'[v].ids = {} <=> index'[v].left = 0
  BY <1>3, <1>4 DEF RedisOK, IndexRow
<1>7. cookie' = cookie /\ cookie' \in [Session -> 0..TtlRememberMe]
  BY DEF Renew, RedisOK
<1>8. HeldWaned
  BY <1>7, TtlAssumption DEF HeldWaned
<1> QED
  BY <1>1, <1>5, <1>6, <1>7, <1>8, WriteKeeps DEF Renew

(* Sessions that end leave the others theirs.                              *)
LEMMA EndingKeeps ==
  ASSUME RedisOK, NEW S,
         session' = [s \in Session |-> IF s \in S THEN NoSession ELSE session[s]],
         Waned, index' \in [User -> IndexRow],
         \A v \in User : index'[v].ids = {} <=> index'[v].left = 0
  PROVE  RedisOK' /\ NoneNew /\ HeldWaned
<1>1. NoSession.left = 0
  BY DEF NoSession
<1>2. \A s \in Session : session'[s] = NoSession \/ session'[s] = session[s]
  OBVIOUS
<1>3. session' \in [Session -> SessionRow \cup {NoSession}]
  BY DEF RedisOK
<1>4. /\ TtlRememberMe \in Nat /\ cookie' \in [Session -> 0..TtlRememberMe]
      /\ \A s \in Session : cookie[s] \in Nat /\ cookie'[s] \in 0..cookie[s]
  BY TtlAssumption DEF RedisOK, Waned
<1>5. CookieOfLogin' /\ KeyOutlivesCookie'
  <2>1. ASSUME NEW s \in Session, Live(s)'
        PROVE  cookie'[s] <= Ttl(session'[s].remember) /\ session'[s].left >= cookie'[s]
    <3>1. session'[s] = session[s] /\ Live(s)
      BY <1>1, <1>2, <2>1 DEF Live
    <3>2. /\ Ttl(session[s].remember) \in Nat /\ session[s].left \in Nat
          /\ cookie[s] <= Ttl(session[s].remember) /\ session[s].left >= cookie[s]
      BY <3>1, SessionShape, TtlAssumption
      DEF RedisOK, CookieOfLogin, KeyOutlivesCookie, Ttl
    <3>3. cookie[s] \in Nat /\ cookie'[s] \in 0..cookie[s]
      BY <1>4
    <3> QED
      BY <3>1, <3>2, <3>3
  <2> QED
    BY <2>1 DEF CookieOfLogin, KeyOutlivesCookie, Live, Ttl
<1>6. NoneNew
  BY <1>1, <1>2 DEF NoneNew, Live
<1>7. HeldWaned
  BY <1>4 DEF HeldWaned
<1> QED
  BY <1>3, <1>4, <1>5, <1>6, <1>7 DEF RedisOK

(* A logout, and the revocation of a user's other sessions.                *)
LEMMA EndedKeeps ==
  ASSUME RedisOK, NEW u \in User, NEW S, Ended(u, S), Waned
  PROVE  RedisOK' /\ NoneNew /\ HeldWaned
<1>1. index[u] \in IndexRow /\ NoIndex \in IndexRow /\ NoIndex.ids = {} /\ NoIndex.left = 0
  BY TtlAssumption DEF RedisOK, NoIndex, IndexRow
<1> DEFINE new == IF index[u].ids \subseteq S THEN NoIndex
                  ELSE [ids |-> index[u].ids \ S, left |-> index[u].left]
<1>2. new \in IndexRow /\ (new.ids = {} <=> new.left = 0)
  <2>1. CASE index[u].ids \subseteq S
    BY <1>1, <2>1
  <2>2. CASE ~(index[u].ids \subseteq S)
    <3>1. new.ids = index[u].ids \ S /\ new.left = index[u].left /\ new \in IndexRow
      BY <1>1, <2>2 DEF IndexRow
    <3>2. index[u].ids # {} /\ index[u].ids \ S # {}
      BY <2>2
    <3> QED
      BY <3>1, <3>2 DEF RedisOK
  <2> QED
    BY <2>1, <2>2
<1>3. index' = [index EXCEPT ![u] = new]
  BY DEF Ended
<1> HIDE DEF new
<1>4. /\ index' \in [User -> IndexRow]
      /\ \A v \in User : index'[v].ids = {} <=> index'[v].left = 0
  BY <1>2, <1>3 DEF RedisOK
<1> QED
  BY <1>4, EndingKeeps DEF Ended

(* The revocation of all sessions of a user.                               *)
LEMMA DeleteListedKeeps ==
  ASSUME RedisOK, NEW p, at[p].user \in User, DeleteListed(p)
  PROVE  RedisOK' /\ NoneNew /\ HeldWaned
<1>1. NoIndex \in IndexRow /\ NoIndex.ids = {} /\ NoIndex.left = 0
  BY TtlAssumption DEF NoIndex, IndexRow
<1>2. \/ index' = index
      \/ index' = [index EXCEPT ![at[p].user] = NoIndex]
  BY DEF DeleteListed, RedisOK
<1>3. /\ index' \in [User -> IndexRow]
      /\ \A v \in User : index'[v].ids = {} <=> index'[v].left = 0
  BY <1>1, <1>2 DEF RedisOK
<1>4. Waned
  BY AnswersKeep DEF DeleteListed
<1> QED
  BY <1>3, <1>4, EndingKeeps DEF DeleteListed

(* A tick takes as much from a session's key as from its cookie.           *)
LEMMA TickKeeps ==
  ASSUME RedisOK, Tick
  PROVE  RedisOK' /\ NoneNew /\ HeldWaned
<1>0. NoSession.left = 0
  BY DEF NoSession
<1>1. ASSUME NEW s \in Session
      PROVE  /\ session'[s] \in SessionRow \cup {NoSession}
             /\ Live(s)' => /\ Live(s) /\ session'[s].user = session[s].user
                            /\ session'[s].remember = session[s].remember
                            /\ session'[s].left = session[s].left - 1
  <2>1. session[s] \in SessionRow \cup {NoSession}
    BY DEF RedisOK
  <2>2. CASE session[s].left <= 1
    <3>1. session'[s] = NoSession
      BY <2>2 DEF Tick
    <3> QED
      BY <1>0, <2>2, <3>1 DEF Live
  <2>3. CASE ~(session[s].left <= 1)
    <3> DEFINE old == session[s]
               since == IF old.since = RefreshAfter THEN old.since ELSE old.since + 1
               new == [old EXCEPT !.left = old.left - 1, !.since = since]
    <3>1. session'[s] = new
      BY <2>3 DEF Tick
    <3>2. old \in SessionRow /\ old.left \in Nat /\ old.left > 1
      BY <2>1, <2>3, SessionShape
    <3> HIDE DEF old
    <3>3. /\ new \in SessionRow /\ new.user = old.user /\ new.remember = old.remember
          /\ new.left = old.left - 1 /\ new.left > 0
      <4>1. /\ old.user \in User /\ old.remember \in Remembering /\ old.since \in 0..RefreshAfter
            /\ old.left \in 1..TtlRememberMe
        BY <3>2, Zenon DEF SessionRow
      <4>2. since \in 0..RefreshAfter /\ old.left - 1 \in 1..TtlRememberMe
        BY <3>2, <4>1, TtlAssumption
      <4> HIDE DEF since
      <4> DEFINE x == old.left - 1
      <4>3. x \in 1..TtlRememberMe /\ since \in 0..RefreshAfter /\ old \in SessionRow
        BY <3>2, <4>2
      <4> HIDE DEF x
      <4>4. /\ new \in SessionRow /\ new.user = old.user /\ new.remember = old.remember
            /\ new.since = since /\ new.left = x
        <5>1. new = [old EXCEPT !.left = x, !.since = since]
          BY DEF x
        <5> HIDE DEF new
        <5>2. new \in SessionRow
          BY <4>3, <5>1 DEF SessionRow
        <5>3. new.user = old.user /\ new.remember = old.remember
          BY <4>3, <5>1 DEF SessionRow
        <5>4. new.since = since /\ new.left = x
          BY <4>3, <5>1 DEF SessionRow
        <5> QED
          BY <5>2, <5>3, <5>4
      <4> HIDE DEF new
      <4> QED
        BY <3>2, <4>2, <4>4 DEF x
    <3> HIDE DEF new, since
    <3> QED
      BY <3>1, <3>2, <3>3 DEF Live, old
  <2> QED
    BY <2>2, <2>3
<1>2. session' \in [Session -> SessionRow \cup {NoSession}]
  BY <1>1 DEF Tick
<1>3. \A s \in Session : session[s].left \in Nat /\ cookie[s] \in 0..TtlRememberMe
  BY SessionShape DEF RedisOK
<1>4. \A s \in Session : cookie'[s] = IF cookie[s] = 0 THEN 0 ELSE cookie[s] - 1
  BY DEF Tick
<1>5. /\ cookie' \in [Session -> 0..TtlRememberMe]
      /\ \A s \in Session : cookie[s] \in Nat /\ cookie'[s] \in 0..cookie[s]
  <2>1. cookie' = [s \in Session |-> IF cookie[s] = 0 THEN 0 ELSE cookie[s] - 1]
    BY DEF Tick
  <2> QED
    BY <1>3, <2>1, TtlAssumption
<1>6. ASSUME NEW v \in User
      PROVE  index'[v] \in IndexRow /\ (index'[v].ids = {} <=> index'[v].left = 0)
  <2>1. index[v] \in IndexRow /\ (index[v].ids = {} <=> index[v].left = 0)
    BY DEF RedisOK
  <2>2. CASE index[v].left <= 1
    <3>1. index'[v] = NoIndex
      BY <2>2 DEF Tick
    <3> QED
      BY <3>1, TtlAssumption DEF NoIndex, IndexRow
  <2>3. CASE ~(index[v].left <= 1)
    <3> DEFINE old == index[v]
               new == [old EXCEPT !.left = old.left - 1]
    <3>1. index'[v] = new
      BY <2>3 DEF Tick
    <3> HIDE DEF old
    <3>2. old \in IndexRow /\ (old.ids = {} <=> old.left = 0) /\ old.left > 1
      BY <2>1, <2>3, TtlAssumption DEF IndexRow, old
    <3>3. new.ids = old.ids /\ new.left = old.left - 1 /\ new \in IndexRow
      BY <3>2, TtlAssumption DEF IndexRow
    <3> QED
      BY <3>1, <3>2, <3>3, TtlAssumption DEF IndexRow
  <2> QED
    BY <2>2, <2>3
<1>7. index' \in [User -> IndexRow]
  BY <1>6 DEF Tick
<1>8. CookieOfLogin' /\ KeyOutlivesCookie'
  <2>1. ASSUME NEW s \in Session, Live(s)'
        PROVE  cookie'[s] <= Ttl(session'[s].remember) /\ session'[s].left >= cookie'[s]
    <3>1. /\ session'[s].remember = session[s].remember
          /\ session'[s].left = session[s].left - 1 /\ Live(s)
      BY <1>1, <2>1
    <3>2. /\ Ttl(session[s].remember) \in Nat /\ session[s].left \in Nat /\ session[s].left > 0
          /\ cookie[s] <= Ttl(session[s].remember) /\ session[s].left >= cookie[s]
      BY <1>3, <3>1, TtlAssumption
      DEF RedisOK, CookieOfLogin, KeyOutlivesCookie, Ttl, Live
    <3> QED
      BY <1>4, <1>5, <3>1, <3>2
  <2> QED
    BY <2>1 DEF CookieOfLogin, KeyOutlivesCookie, Live, Ttl
<1>9. HeldWaned
  BY <1>5 DEF HeldWaned
<1>10. NoneNew
  BY <1>1 DEF NoneNew
<1> QED
  BY <1>2, <1>5, <1>6, <1>7, <1>8, <1>9, <1>10 DEF RedisOK

-------------------------------------------------------------------------------
UserRow  == [exists : {TRUE}, verified : BOOLEAN, password : Password \cup {NoPassword}]
TokenRow == [exists : {TRUE}, kind : {"verify", "reset"}, user : User,
             age : {"live", "expired", "old"}, consumed : BOOLEAN, mailed : BOOLEAN]

(* What login asks of a user.  No statement takes it back.                 *)
MaySignIn(u) == user[u].exists /\ user[u].verified /\ user[u].password # NoPassword

(* A link's user exists, and one consumed has verified the user.           *)
RowsOK ==
  /\ user \in [User -> UserRow \cup {NoUser}]
  /\ token \in [Token -> TokenRow \cup {NoToken}]
  /\ \A t \in Token : token[t].exists => user[token[t].user].exists
  /\ ConsumedMeansVerified

SessionsOfUsers == \A s \in Session : Live(s) => MaySignIn(session[s].user)

Ops == {"me", "logout", "revoke", "change"}

(* What a frame may rely on when it gets to a statement: rows it read      *)
(* earlier have not taken back what it saw in them, the link it opened has *)
(* not become another user's, and the time a refresh is about to give a    *)
(* session's key, less its own age, still covers the cookie.               *)
FrameOK(f) ==
  /\ f = [pc |-> f.pc, op |-> f.op, user |-> f.user, session |-> f.session,
          remember |-> f.remember, age |-> f.age, found |-> f.found, body |-> f.body]
  /\ f.user \in User /\ user[f.user].exists
  /\ f.age \in 0..RefreshAfter
  /\ f.pc \in {"refresh", "renew"} => /\ MaySignIn(f.user) /\ f.op \in Ops
                                      /\ f.session \in Session /\ f.remember \in Remembering
                                      /\ cookie[f.session] + f.age <= Ttl(f.remember)
  /\ f.pc \in {"insert_password", "reset_password", "change_password"} => f.body.password \in Password
  /\ f.pc \in {"mark", "consume_verify"} =>
       /\ f.body.then = "idle"
       /\ token[f.body.token].exists => token[f.body.token].user = f.user
  /\ f.pc \in {"mail", "mark", "consume_verify", "reset_password", "consume_reset"} => f.body.token \in Token
  /\ f.pc = "consume_verify" => user[f.user].verified
  /\ f.pc = "check_password" => /\ f.body.remember \in Remembering
                                /\ f.body.verified => user[f.user].verified
  /\ f.pc = "create" => MaySignIn(f.user) /\ f.body.remember \in Remembering

FramesOK == /\ at = [p \in Handler |-> at[p]]
            /\ \A p \in Handler : at[p] = Idle \/ FrameOK(at[p])

IInv == RedisOK /\ RowsOK /\ SessionsOfUsers /\ FramesOK

(* What users have they keep, and no step gives an open link's id to       *)
(* another link.                                                           *)
Grows ==
  /\ \A u \in User : user[u].exists =>
       /\ user'[u].exists
       /\ user[u].verified => user'[u].verified
       /\ user[u].password # NoPassword => user'[u].password # NoPassword
  /\ \A t \in Token : token'[t].exists =>
       \/ token[t].exists /\ token'[t].user = token[t].user
       \/ \A q \in Handler : at[q].pc \in {"mark", "consume_verify"} => at[q].body.token # t

(* Rows exist or are NoUser and NoToken.                                   *)
LEMMA RowShape ==
  /\ \A r \in UserRow \cup {NoUser} : r.exists <=> r \in UserRow
  /\ \A r \in TokenRow \cup {NoToken} : r.exists <=> r \in TokenRow
  /\ ~NoUser.exists /\ ~NoToken.exists /\ Idle.pc = "idle"
<1>1. NoUser.exists = FALSE /\ NoToken.exists = FALSE /\ Idle.pc = "idle"
  BY DEF NoUser, NoToken, Idle
<1>2. \A r \in UserRow : r.exists = TRUE
  BY DEF UserRow
<1>3. \A r \in TokenRow : r.exists = TRUE
  BY DEF TokenRow
<1> QED
  BY <1>1, <1>2, <1>3, Zenon

(* Less time for a cookie leaves what a refresh in hand gives enough.      *)
LEMMA HeldFits ==
  ASSUME HeldWaned, NEW q \in Handler, FrameOK(at[q]), at[q].pc \in {"refresh", "renew"}
  PROVE  cookie'[at[q].session] + at[q].age <= Ttl(at[q].remember)
<1> DEFINE now == cookie[at[q].session]  then == cookie'[at[q].session]
           age == at[q].age  ttl == Ttl(at[q].remember)
<1>1. now + age <= ttl /\ age \in 0..RefreshAfter /\ ttl \in Nat /\ RefreshAfter \in Nat
  BY TtlFacts DEF FrameOK
<1>2. now \in Nat /\ then \in 0..now
  BY DEF HeldWaned, FrameOK
<1> HIDE DEF now, then, age, ttl
<1>3. then + age <= ttl
  BY <1>1, <1>2
<1> QED
  BY <1>3 DEF then, age, ttl

(* A frame of another request stays good.                                  *)
LEMMA OthersKeep ==
  ASSUME FramesOK, Grows, HeldWaned, NEW q \in Handler, at'[q] = at[q]
  PROVE  at'[q] = Idle \/ FrameOK(at[q])'
<1>1. CASE at[q] = Idle
  BY <1>1
<1>2. CASE FrameOK(at[q])
  <2>1. /\ at[q].user \in User /\ user'[at[q].user].exists
        /\ user[at[q].user].verified => user'[at[q].user].verified
        /\ MaySignIn(at[q].user) => MaySignIn(at[q].user)'
    BY <1>2 DEF FrameOK, Grows, MaySignIn
  <2>2. at[q].pc \in {"mark", "consume_verify"} =>
          (token'[at[q].body.token].exists => token'[at[q].body.token].user = at[q].user)
    BY <1>2 DEF FrameOK, Grows
  <2>3. at[q].pc \in {"refresh", "renew"} =>
          cookie'[at[q].session] + at[q].age <= Ttl(at[q].remember)
    BY <1>2, HeldFits
  <2> QED
    BY <1>2, <2>1, <2>2, <2>3 DEF FrameOK, Ttl
<1> QED
  BY <1>1, <1>2 DEF FramesOK

(* A step that moves p's frame to f.                                       *)
LEMMA GotoEffect ==
  ASSUME FramesOK, NEW p \in Handler, NEW f, Goto(p, f)
  PROVE  /\ at'[p] = f /\ \A q \in Handler \ {p} : at'[q] = at[q]
         /\ at' = [q \in Handler |-> at'[q]]
BY DEF FramesOK, Goto

(* A step of p keeps the invariant when it keeps that of the tables, of    *)
(* Redis and of its own frame, and a session it makes is of a user who may *)
(* sign in.                                                                *)
LEMMA StepOf ==
  ASSUME IInv, NEW p \in Handler, RedisOK', RowsOK', Grows, HeldWaned,
         \A s \in Session : Live(s)' => \/ Live(s) /\ session'[s].user = session[s].user
                                        \/ MaySignIn(session[s].user)',
         \A q \in Handler \ {p} : at'[q] = at[q],
         at' = [q \in Handler |-> at'[q]],
         at'[p] = Idle \/ FrameOK(at[p])'
  PROVE  IInv'
<1>1. FramesOK'
  BY OthersKeep DEF IInv, FramesOK
<1>2. SessionsOfUsers'
  <2>1. ASSUME NEW s \in Session, Live(s)'
        PROVE  MaySignIn(session[s].user)'
    <3>1. CASE Live(s) /\ session'[s].user = session[s].user
      <4>1. session[s].user \in User
        BY <3>1, SessionShape DEF IInv, RedisOK, Live, SessionRow
      <4>2. MaySignIn(session[s].user)
        BY <3>1 DEF IInv, SessionsOfUsers
      <4> QED
        BY <3>1, <4>1, <4>2 DEF MaySignIn, Grows
    <3> QED
      BY <2>1, <3>1
  <2> QED
    BY <2>1 DEF SessionsOfUsers, Live, MaySignIn
<1> QED
  BY <1>1, <1>2 DEF IInv

(* A step that leaves Redis and the browsers alone.                        *)
LEMMA RedisSame ==
  ASSUME RedisOK, UNCHANGED <<redis, cookie>>
  PROVE  RedisOK' /\ NoneNew /\ HeldWaned
<1>1. UNCHANGED redis /\ UNCHANGED cookie
  OBVIOUS
<1>2. Waned
  BY <1>1, AnswersKeep
<1> QED
  BY <1>1, <1>2, KeysSame

(* A step that leaves the tables alone.                                    *)
LEMMA RowsSame ==
  ASSUME RowsOK, UNCHANGED rows
  PROVE  RowsOK' /\ Grows
BY DEF rows, RowsOK, ConsumedMeansVerified, Grows

(* A step of p that changes no table and no key.                           *)
LEMMA FrameOnly ==
  ASSUME IInv, NEW p \in Handler, UNCHANGED redis, Waned, UNCHANGED rows,
         \A q \in Handler \ {p} : at'[q] = at[q],
         at' = [q \in Handler |-> at'[q]],
         at'[p] = Idle \/ FrameOK(at[p])'
  PROVE  IInv'
<1>1. RedisOK' /\ HeldWaned /\ RowsOK' /\ Grows
  BY KeysSame, RowsSame DEF IInv
<1>2. \A s \in Session : Live(s)' => Live(s) /\ session'[s].user = session[s].user
  BY KeysSame DEF IInv, NoneNew
<1> QED
  BY <1>1, <1>2, StepOf

-------------------------------------------------------------------------------
(* The fields of a request that arrives.                                   *)
LEMMA NewFrameFields ==
  ASSUME NEW pc, NEW u, NEW body, NEW f, f = NewFrame(pc, u, body)
  PROVE  /\ f.pc = pc /\ f.user = u /\ f.age = 0 /\ f.body = body
         /\ f = [pc |-> f.pc, op |-> f.op, user |-> f.user, session |-> f.session,
                 remember |-> f.remember, age |-> f.age, found |-> f.found, body |-> f.body]
         /\ 0 \in 0..RefreshAfter
BY TtlAssumption DEF NewFrame

(* A request arrives and has read its user's row or its link's.            *)
LEMMA ArrivalKeeps ==
  ASSUME IInv, NEW p \in Handler,
         \/ \E u \in User : \/ Resend(p, u) \/ RequestReset(p, u)
                            \/ \E w \in Password, r \in Remembering : Login(p, u, w, r)
         \/ \E t \in Token : VerifyEmail(p, t) \/ \E w \in Password : ConfirmReset(p, t, w)
  PROVE  IInv'
<1>1. ASSUME NEW pc \in {"insert_token", "check_password", "mark", "reset_password"},
             NEW u \in User, NEW body, Frame(p, pc, u, body), UNCHANGED <<redis, cookie, rows>>,
             user[u].exists,
             pc = "check_password" => /\ body.remember \in Remembering
                                      /\ body.verified => user[u].verified,
             pc \in {"mark", "reset_password"} => body.token \in Token,
             pc = "reset_password" => body.password \in Password,
             pc = "mark" => /\ body.then = "idle"
                            /\ token[body.token].user = u
      PROVE  IInv'
  <2>1. /\ at'[p] = NewFrame(pc, u, body) /\ \A q \in Handler \ {p} : at'[q] = at[q]
        /\ at' = [q \in Handler |-> at'[q]]
    BY <1>1, GotoEffect DEF IInv, Frame
  <2>2. user' = user /\ token' = token /\ UNCHANGED redis /\ UNCHANGED rows /\ Waned
    BY <1>1, AnswersKeep DEF rows, IInv
  <2>3. FrameOK(at[p])'
    <3>1. /\ at'[p].pc = pc /\ at'[p].user = u /\ at'[p].age \in 0..RefreshAfter
          /\ at'[p].body = body
          /\ at'[p] = [pc |-> at'[p].pc, op |-> at'[p].op, user |-> at'[p].user,
                       session |-> at'[p].session, remember |-> at'[p].remember,
                       age |-> at'[p].age, found |-> at'[p].found, body |-> at'[p].body]
      BY <2>1, NewFrameFields
    <3> QED
      BY <1>1, <2>2, <3>1 DEF FrameOK
  <2> QED
    BY <2>1, <2>2, <2>3, FrameOnly
<1>2. ASSUME NEW u \in User, Resend(p, u) \/ RequestReset(p, u)
      PROVE  IInv'
  <2>1. /\ user[u].exists /\ UNCHANGED <<redis, cookie, rows>>
        /\ \E body : Frame(p, "insert_token", u, body)
    BY <1>2 DEF Resend, RequestReset, FindUserByEmail
  <2> QED
    BY <1>1, <2>1
<1>3. ASSUME NEW u \in User, NEW w \in Password, NEW r \in Remembering, Login(p, u, w, r)
      PROVE  IInv'
  <2> DEFINE body == [password |-> w, remember |-> r, verified |-> user[u].verified]
  <2>1. body.remember = r /\ body.verified = user[u].verified
    OBVIOUS
  <2>2. user[u].exists /\ UNCHANGED <<redis, cookie, rows>> /\ Frame(p, "check_password", u, body)
    BY <1>3 DEF Login, FindUserByEmail
  <2> HIDE DEF body
  <2> QED
    BY <1>1, <2>1, <2>2
<1>4. ASSUME NEW t \in Token, VerifyEmail(p, t)
      PROVE  IInv'
  <2> DEFINE body == [token |-> t, then |-> "idle"]
             u == token[t].user
  <2>1. body.token = t /\ body.then = "idle"
    OBVIOUS
  <2>2. UNCHANGED <<redis, cookie, rows>> /\ Frame(p, "mark", u, body) /\ token[t].exists
    BY <1>4 DEF VerifyEmail, FindEmailVerifyToken
  <2>3. u \in User /\ user[u].exists
    BY <2>2, RowShape DEF IInv, RowsOK, TokenRow
  <2> HIDE DEF body
  <2> QED
    BY <1>1, <2>1, <2>2, <2>3
<1>5. ASSUME NEW t \in Token, NEW w \in Password, ConfirmReset(p, t, w)
      PROVE  IInv'
  <2> DEFINE body == [token |-> t, password |-> w]
             u == token[t].user
  <2>1. body.token = t /\ body.password = w
    OBVIOUS
  <2>2. UNCHANGED <<redis, cookie, rows>> /\ Frame(p, "reset_password", u, body) /\ token[t].exists
    BY <1>5 DEF ConfirmReset, FindPasswordResetToken
  <2>3. u \in User /\ user[u].exists
    BY <2>2, RowShape DEF IInv, RowsOK, TokenRow
  <2> HIDE DEF body
  <2> QED
    BY <1>1, <2>1, <2>2, <2>3
<1> QED
  BY <1>2, <1>3, <1>4, <1>5

(* A signed-in request: its session is of a user who may sign in, and its  *)
(* cookie is that of the login.                                            *)
LEMMA SignedInKeeps ==
  ASSUME IInv, NEW p \in Handler, NEW s \in Session, NEW op \in Ops, SignedIn(p, s, op)
  PROVE  IInv'
<1> DEFINE r == session[s].remember
           u == session[s].user
           frame == [NewFrame("refresh", u, <<>>) EXCEPT !.op = op, !.session = s, !.remember = r]
<1>1. Live(s) /\ Goto(p, frame) /\ UNCHANGED redis /\ UNCHANGED cookie /\ UNCHANGED rows
  BY DEF SignedIn, Request
<1>2. u \in User /\ r \in Remembering /\ MaySignIn(u)
  BY <1>1, SessionShape DEF IInv, RedisOK, SessionsOfUsers, Live, SessionRow
<1>3. /\ frame.pc = "refresh" /\ frame.user = u /\ frame.op = op /\ frame.session = s
      /\ frame.remember = r /\ frame.age = 0
      /\ frame = [pc |-> frame.pc, op |-> frame.op, user |-> frame.user,
                  session |-> frame.session, remember |-> frame.remember,
                  age |-> frame.age, found |-> frame.found, body |-> frame.body]
  <2>1. frame = [NewFrame("refresh", u, <<>>) EXCEPT !.op = op, !.session = s, !.remember = r]
    OBVIOUS
  <2> HIDE DEF frame
  <2> QED
    BY <2>1 DEF NewFrame
<1>4. cookie[s] + 0 <= Ttl(r)
  <2>1. cookie[s] <= Ttl(r) /\ cookie[s] \in 0..TtlRememberMe
    BY <1>1 DEF IInv, RedisOK, CookieOfLogin
  <2> HIDE DEF r
  <2> QED
    BY <2>1, <1>2, TtlFacts
<1> HIDE DEF frame, r, u
<1>5. /\ at'[p] = frame /\ \A q \in Handler \ {p} : at'[q] = at[q]
      /\ at' = [q \in Handler |-> at'[q]]
  BY <1>1, GotoEffect DEF IInv
<1>6. user' = user /\ token' = token /\ cookie' = cookie /\ 0 \in 0..RefreshAfter
  BY <1>1, TtlAssumption DEF rows
<1>7. FrameOK(at[p])'
  BY <1>2, <1>3, <1>4, <1>5, <1>6 DEF FrameOK, MaySignIn, Ttl
<1>8. Waned
  BY <1>1, AnswersKeep DEF IInv
<1> QED
  BY <1>1, <1>5, <1>7, <1>8, FrameOnly

(* The cart's routes read the session.                                     *)
LEMMA CartRequestKeeps ==
  ASSUME IInv, NEW p \in Handler, NEW s \in Session, CartRequest(p, s)
  PROVE  IInv'
<1> DEFINE u == session[s].user
           frame == [NewFrame("cart", u, <<>>) EXCEPT !.session = s]
<1>1. Live(s) /\ Goto(p, frame) /\ UNCHANGED redis /\ UNCHANGED cookie /\ UNCHANGED rows
  BY DEF CartRequest, ResolveCartIdentity
<1>2. u \in User /\ user[u].exists
  BY <1>1, SessionShape DEF IInv, RedisOK, SessionsOfUsers, Live, SessionRow, MaySignIn
<1>3. /\ frame.pc = "cart" /\ frame.user = u /\ frame.age = 0
      /\ frame = [pc |-> frame.pc, op |-> frame.op, user |-> frame.user,
                  session |-> frame.session, remember |-> frame.remember,
                  age |-> frame.age, found |-> frame.found, body |-> frame.body]
  <2>1. frame = [NewFrame("cart", u, <<>>) EXCEPT !.session = s]
    OBVIOUS
  <2> HIDE DEF frame
  <2> QED
    BY <2>1 DEF NewFrame
<1> HIDE DEF frame, u
<1>4. /\ at'[p] = frame /\ \A q \in Handler \ {p} : at'[q] = at[q]
      /\ at' = [q \in Handler |-> at'[q]]
  BY <1>1, GotoEffect DEF IInv
<1>5. user' = user /\ 0 \in 0..RefreshAfter
  BY <1>1, TtlAssumption DEF rows
<1>6. FrameOK(at[p])'
  BY <1>2, <1>3, <1>4, <1>5 DEF FrameOK
<1>7. Waned
  BY <1>1, AnswersKeep DEF IInv
<1> QED
  BY <1>1, <1>4, <1>6, <1>7, FrameOnly

(* The fields of a frame that goes on to another statement.                *)
LEMMA StepFields ==
  ASSUME NEW f, NEW pc, NEW g, g = [f EXCEPT !.pc = pc],
         f = [pc |-> f.pc, op |-> f.op, user |-> f.user, session |-> f.session,
              remember |-> f.remember, age |-> f.age, found |-> f.found, body |-> f.body]
  PROVE  /\ g.pc = pc /\ g.op = f.op /\ g.user = f.user /\ g.session = f.session
         /\ g.remember = f.remember /\ g.age = f.age /\ g.body = f.body
         /\ g = [pc |-> g.pc, op |-> g.op, user |-> g.user, session |-> g.session,
                 remember |-> g.remember, age |-> g.age, found |-> g.found, body |-> g.body]
OBVIOUS

(* A request goes on to a statement that finds what it relies on.          *)
LEMMA StepEffect ==
  ASSUME FramesOK, Grows, HeldWaned, NEW p \in Handler, at[p] # Idle, NEW pc, Step(p, pc),
         pc \notin {"refresh", "insert_password", "reset_password", "change_password",
                    "mail", "mark", "check_password"},
         pc = "renew" => at[p].pc = "refresh",
         pc = "create" => MaySignIn(at[p].user) /\ at[p].body.remember \in Remembering,
         pc = "consume_verify" => at[p].pc = "mark" /\ user'[at[p].user].verified,
         pc = "consume_reset" => at[p].body.token \in Token
  PROVE  /\ FrameOK(at[p])' /\ \A q \in Handler \ {p} : at'[q] = at[q]
         /\ at' = [q \in Handler |-> at'[q]]
<1>1. FrameOK(at[p])
  BY DEF FramesOK
<1>2. /\ at'[p] = [at[p] EXCEPT !.pc = pc] /\ \A q \in Handler \ {p} : at'[q] = at[q]
      /\ at' = [q \in Handler |-> at'[q]]
  BY GotoEffect DEF Step
<1>3. /\ at'[p].pc = pc /\ at'[p].op = at[p].op /\ at'[p].user = at[p].user
      /\ at'[p].session = at[p].session /\ at'[p].remember = at[p].remember
      /\ at'[p].age = at[p].age /\ at'[p].body = at[p].body
      /\ at'[p] = [pc |-> at'[p].pc, op |-> at'[p].op, user |-> at'[p].user,
                   session |-> at'[p].session, remember |-> at'[p].remember,
                   age |-> at'[p].age, found |-> at'[p].found, body |-> at'[p].body]
  BY <1>1, <1>2, StepFields DEF FrameOK
<1>4. /\ at[p].user \in User /\ user'[at[p].user].exists
      /\ MaySignIn(at[p].user) => /\ user'[at[p].user].verified
                                 /\ user'[at[p].user].password # NoPassword
  BY <1>1 DEF FrameOK, Grows, MaySignIn
<1>5. at[p].pc = "mark" =>
        (token'[at[p].body.token].exists => token'[at[p].body.token].user = at[p].user)
  BY <1>1 DEF FrameOK, Grows
<1>6. pc \in {"renew", "create"} => MaySignIn(at[p].user)
  BY <1>1 DEF FrameOK
<1>7. pc \in {"renew", "create"} => MaySignIn(at[p].user)'
  BY <1>3, <1>4, <1>6 DEF MaySignIn
<1>8. pc = "renew" => /\ at[p].op \in Ops /\ at[p].session \in Session
                      /\ at[p].remember \in Remembering
                      /\ cookie'[at[p].session] + at[p].age <= Ttl(at[p].remember)
  BY <1>1, HeldFits DEF FrameOK
<1>9. FrameOK(at[p])'
  BY <1>1, <1>3, <1>4, <1>5, <1>7, <1>8 DEF FrameOK, Ttl
<1> QED
  BY <1>2, <1>9

(* A request that ends.                                                    *)
LEMMA DoneEffect ==
  ASSUME FramesOK, NEW p \in Handler, Done(p)
  PROVE  /\ at'[p] = Idle /\ \A q \in Handler \ {p} : at'[q] = at[q]
         /\ at' = [q \in Handler |-> at'[q]]
BY GotoEffect DEF Done

(* A step of p that ends its request or moves it on.                       *)
LEMMA EndKeeps ==
  ASSUME IInv, NEW p \in Handler, RedisOK', RowsOK', Grows, HeldWaned, Done(p),
         \A s \in Session : Live(s)' => \/ Live(s) /\ session'[s].user = session[s].user
                                        \/ MaySignIn(session[s].user)'
  PROVE  IInv'
BY DoneEffect, StepOf DEF IInv

-------------------------------------------------------------------------------
(* Statements that only decide, and a logout or a 401 that finds nothing.  *)
LEMMA DecisionKeeps ==
  ASSUME IInv, NEW p \in Handler,
         \/ Me(p) \/ CartAnswer(p) \/ CheckPassword(p) \/ Abort(p)
         \/ (ReadForLogout(p) \/ Refresh(p) \/ RefreshFails(p)) /\ UNCHANGED rows
  PROVE  IInv'
<1>1. /\ RowsOK' /\ Grows /\ HeldWaned /\ Waned /\ UNCHANGED redis /\ UNCHANGED rows
      /\ at[p] # Idle
  <2>1. /\ UNCHANGED redis /\ UNCHANGED rows /\ at[p].pc # "idle"
        /\ UNCHANGED cookie \/ clearCookie(p, at[p].session)
    BY DEF Me, CartAnswer, ReadForLogout, CheckPassword, Abort, Refresh, RefreshFails
  <2>2. Waned
    BY <2>1, AnswersKeep DEF IInv
  <2> QED
    BY <2>1, <2>2, KeysSame, RowsSame, RowShape DEF IInv
<1>2. CASE Done(p)
  BY <1>1, <1>2, DoneEffect, FrameOnly DEF IInv
<1>3. CASE (ReadForLogout(p) \/ Refresh(p) \/ RefreshFails(p)) /\ ~Done(p)
  <2>1. PICK pc \in Ops \cup {"remove", "renew"} :
          Step(p, pc) /\ (pc = "renew" => at[p].pc = "refresh")
    BY <1>1, <1>3 DEF ReadForLogout, Refresh, RefreshFails, IInv, FramesOK, FrameOK, Ops
  <2>2. /\ FrameOK(at[p])' /\ \A q \in Handler \ {p} : at'[q] = at[q]
        /\ at' = [q \in Handler |-> at'[q]]
    BY <1>1, <2>1, StepEffect DEF IInv, Ops
  <2> QED
    BY <1>1, <2>2, FrameOnly
<1>4. CASE CheckPassword(p) /\ ~Done(p)
  <2>1. /\ Step(p, "create") /\ at[p].pc = "check_password"
        /\ user[at[p].user].password # NoPassword /\ at[p].body.verified
    BY <1>4 DEF CheckPassword, FindAuthMethodByUserAndProvider, MayLogIn
  <2>2. MaySignIn(at[p].user) /\ at[p].body.remember \in Remembering
    BY <1>1, <2>1 DEF IInv, FramesOK, FrameOK, MaySignIn
  <2>3. /\ FrameOK(at[p])' /\ \A q \in Handler \ {p} : at'[q] = at[q]
        /\ at' = [q \in Handler |-> at'[q]]
    BY <1>1, <2>1, <2>2, StepEffect DEF IInv
  <2> QED
    BY <1>1, <2>3, FrameOnly
<1> QED
  BY <1>2, <1>3, <1>4 DEF Me, CartAnswer, Abort

(* A request without its session is refused, and loses its cookie.         *)
LEMMA RefusedKeeps ==
  ASSUME IInv, NEW p \in Handler, NEW s \in Session, Refused(p, s)
  PROVE  IInv'
<1>1. at' = at /\ UNCHANGED redis /\ UNCHANGED rows /\ clearCookie(p, s)
  BY DEF Refused, Unauthenticated
<1>2. Waned
  BY <1>1, AnswersKeep DEF IInv
<1>3. HeldWaned /\ Grows
  BY <1>1, <1>2, KeysSame, RowsSame DEF IInv
<1>4. at'[p] = Idle \/ FrameOK(at[p])'
  BY <1>1, <1>3, OthersKeep DEF IInv
<1> QED
  BY <1>1, <1>2, <1>4, FrameOnly DEF IInv, FramesOK

(* Statements whose answer the frame keeps.                                *)
LEMMA AnswerKeeps ==
  ASSUME IInv, NEW p \in Handler,
         \/ ListSessions(p) /\ UNCHANGED rows
         \/ \E current, new \in Password : CheckCurrent(p, current, new)
  PROVE  IInv'
<1>1. /\ UNCHANGED redis /\ UNCHANGED rows /\ Waned /\ user' = user /\ token' = token
      /\ at[p] # Idle
  <2>1. UNCHANGED <<redis, cookie, rows>> /\ at[p].pc # "idle"
    BY DEF ListSessions, CheckCurrent
  <2> QED
    BY <2>1, AnswersKeep, RowShape DEF rows, IInv
<1>2. FrameOK(at[p])
  BY <1>1 DEF IInv, FramesOK
<1>3. CASE ListSessions(p)
  <2> DEFINE pc == IF at[p].pc = "revoke" THEN "delete" ELSE "prune"
             ids == index[at[p].user].ids
             frame == [at[p] EXCEPT !.pc = pc, !.found = ids]
  <2>1. Goto(p, frame) /\ frame = [at[p] EXCEPT !.pc = pc, !.found = ids]
    BY <1>2, <1>3 DEF ListSessions, FrameOK
  <2>2. pc \in {"delete", "prune"}
    OBVIOUS
  <2> HIDE DEF pc, ids, frame
  <2>3. /\ frame.pc = pc /\ frame.user = at[p].user /\ frame.age = at[p].age
        /\ frame = [pc |-> frame.pc, op |-> frame.op, user |-> frame.user,
                    session |-> frame.session, remember |-> frame.remember,
                    age |-> frame.age, found |-> frame.found, body |-> frame.body]
    BY <1>2, <2>1 DEF FrameOK
  <2>4. /\ at'[p] = frame /\ \A q \in Handler \ {p} : at'[q] = at[q]
        /\ at' = [q \in Handler |-> at'[q]]
    BY <2>1, GotoEffect DEF IInv
  <2>5. FrameOK(at[p])'
    BY <1>1, <1>2, <2>2, <2>3, <2>4 DEF FrameOK
  <2> QED
    BY <1>1, <2>4, <2>5, FrameOnly
<1>4. ASSUME NEW current \in Password, NEW new \in Password, CheckCurrent(p, current, new)
      PROVE  IInv'
  <2> DEFINE body == [password |-> new]
             frame == [at[p] EXCEPT !.pc = "change_password", !.body = body]
  <2>1. CASE Done(p)
    BY <1>1, <2>1, DoneEffect, FrameOnly DEF IInv
  <2>2. CASE Goto(p, frame)
    <3>1. frame = [at[p] EXCEPT !.pc = "change_password", !.body = body] /\ body.password = new
      OBVIOUS
    <3> HIDE DEF body, frame
    <3>2. /\ frame.pc = "change_password" /\ frame.user = at[p].user /\ frame.age = at[p].age
          /\ frame.body = body
          /\ frame = [pc |-> frame.pc, op |-> frame.op, user |-> frame.user,
                      session |-> frame.session, remember |-> frame.remember,
                      age |-> frame.age, found |-> frame.found, body |-> frame.body]
      BY <1>2, <3>1 DEF FrameOK
    <3>3. /\ at'[p] = frame /\ \A q \in Handler \ {p} : at'[q] = at[q]
          /\ at' = [q \in Handler |-> at'[q]]
      BY <2>2, GotoEffect DEF IInv
    <3>4. FrameOK(at[p])'
      BY <1>1, <1>2, <3>1, <3>2, <3>3 DEF FrameOK
    <3> QED
      BY <1>1, <3>3, <3>4, FrameOnly
  <2> QED
    BY <1>4, <2>1, <2>2 DEF CheckCurrent
<1> QED
  BY <1>3, <1>4

-------------------------------------------------------------------------------
(* Redis commands that write one session: of the frame's user.             *)
LEMMA SessionWrites ==
  ASSUME IInv, NEW p \in Handler,
         \/ Renew(p) /\ UNCHANGED rows
         \/ CreateSession(p)
  PROVE  IInv'
<1>1. /\ RowsOK' /\ Grows /\ user' = user /\ FrameOK(at[p]) /\ at[p] # Idle
  <2>1. UNCHANGED rows /\ at[p].pc # "idle"
    BY DEF Renew, CreateSession
  <2> QED
    BY <2>1, RowsSame, RowShape DEF IInv, FramesOK, rows
<1>2. CASE Renew(p)
  <2>1. /\ at[p].pc = "renew" /\ at[p].session \in Session /\ at[p].op \in Ops
        /\ at[p].user \in User /\ at[p].remember \in Remembering /\ at[p].age \in 0..RefreshAfter
        /\ MaySignIn(at[p].user) /\ Step(p, at[p].op)
        /\ cookie[at[p].session] + at[p].age <= Ttl(at[p].remember)
    BY <1>1, <1>2 DEF Renew, FrameOK
  <2>2. RedisOK' /\ Origin(at[p].user) /\ HeldWaned
    BY <1>2, <2>1, RenewKeeps DEF IInv
  <2>3. /\ FrameOK(at[p])' /\ \A q \in Handler \ {p} : at'[q] = at[q]
        /\ at' = [q \in Handler |-> at'[q]]
    BY <1>1, <2>1, <2>2, StepEffect DEF IInv, Ops
  <2>4. \A s \in Session : Live(s)' => \/ Live(s) /\ session'[s].user = session[s].user
                                       \/ MaySignIn(session[s].user)'
    BY <1>1, <2>1, <2>2 DEF Origin, MaySignIn
  <2> QED
    BY <1>1, <2>2, <2>3, <2>4, StepOf
<1>3. CASE CreateSession(p)
  <2>1. /\ MaySignIn(at[p].user) /\ at[p].user \in User /\ at[p].body.remember \in Remembering
        /\ Create(p, at[p].user, at[p].body.remember) /\ Done(p)
    BY <1>1, <1>3 DEF CreateSession, FrameOK
  <2>2. RedisOK' /\ Origin(at[p].user) /\ HeldWaned
    BY <2>1, CreateKeeps DEF IInv
  <2>3. \A s \in Session : Live(s)' => \/ Live(s) /\ session'[s].user = session[s].user
                                       \/ MaySignIn(session[s].user)'
    BY <1>1, <2>1, <2>2 DEF Origin, MaySignIn
  <2> QED
    BY <1>1, <2>1, <2>2, <2>3, EndKeeps
<1> QED
  BY <1>2, <1>3

(* Redis commands that end sessions.                                       *)
LEMMA SessionEnds ==
  ASSUME IInv, NEW p \in Handler, Remove(p) \/ Prune(p) \/ DeleteListed(p), UNCHANGED rows
  PROVE  IInv'
<1>1. at[p].pc # "idle" /\ Done(p)
  BY DEF Remove, Prune, DeleteListed
<1>2. RowsOK' /\ Grows /\ at[p].user \in User
  BY <1>1, RowsSame, RowShape DEF IInv, FramesOK, FrameOK
<1>3. RedisOK' /\ NoneNew /\ HeldWaned
  <2>1. CASE Remove(p) \/ Prune(p)
    <3>1. Waned
      BY <2>1, AnswersKeep DEF IInv, Remove, Prune
    <3> QED
      BY <1>2, <2>1, <3>1, EndedKeeps DEF IInv, Remove, Prune
  <2> QED
    BY <1>2, <2>1, DeleteListedKeeps DEF IInv
<1> QED
  BY <1>1, <1>2, <1>3, EndKeeps DEF NoneNew

-------------------------------------------------------------------------------
(* A user's row is written, and keeps what it had.                         *)
LEMMA UserWritten ==
  ASSUME RowsOK, NEW u \in User, NEW row \in UserRow,
         user' = [user EXCEPT ![u] = row], token' = token,
         user[u].exists => /\ user[u].verified => row.verified
                           /\ user[u].password # NoPassword => row.password # NoPassword
  PROVE  RowsOK' /\ Grows /\ user'[u] = row /\ user'[u].exists
<1>1. /\ user'[u] = row /\ row.exists /\ \A v \in User \ {u} : user'[v] = user[v]
      /\ user' \in [User -> UserRow \cup {NoUser}]
  BY RowShape DEF RowsOK
<1>2. Grows
  BY <1>1 DEF Grows
<1>3. \A t \in Token : token[t].exists => token[t].user \in User
  BY RowShape DEF RowsOK, TokenRow
<1>4. (\A t \in Token : token[t].exists => user[token[t].user].exists)'
  BY <1>2, <1>3 DEF Grows, RowsOK
<1>5. ConsumedMeansVerified'
  BY <1>2, <1>3 DEF Grows, RowsOK, ConsumedMeansVerified
<1> QED
  BY <1>1, <1>2, <1>4, <1>5 DEF RowsOK

(* A password is set, or the user verified.                                *)
LEMMA UserChanged ==
  ASSUME RowsOK, NEW u \in User, user[u].exists, token' = token,
         \/ MarkUserEmailVerified(u)
         \/ \E w \in Password : InsertAuthMethodPassword(u, w) \/ UpdateAuthMethodPassword(u, w)
  PROVE  RowsOK' /\ Grows /\ (MarkUserEmailVerified(u) => user'[u].verified)
<1>1. user[u] \in UserRow
  BY RowShape DEF RowsOK
<1>2. CASE MarkUserEmailVerified(u)
  <2> DEFINE row == [user[u] EXCEPT !.verified = TRUE]
  <2>1. row \in UserRow /\ row.verified /\ row.password = user[u].password
    BY <1>1 DEF UserRow
  <2>2. user' = [user EXCEPT ![u] = row]
    BY <1>2 DEF MarkUserEmailVerified
  <2> HIDE DEF row
  <2> QED
    BY <2>1, <2>2, UserWritten
<1>3. ASSUME NEW w \in Password, user' = [user EXCEPT ![u].password = w]
      PROVE  RowsOK' /\ Grows /\ user'[u].verified = user[u].verified
  <2> DEFINE row == [user[u] EXCEPT !.password = w]
  <2>1. row \in UserRow /\ row.verified = user[u].verified /\ row.password = w
    BY <1>1 DEF UserRow
  <2>2. user' = [user EXCEPT ![u] = row]
    BY <1>3
  <2>3. row.password # NoPassword
    BY <2>1, PasswordAssumption
  <2> HIDE DEF row
  <2>4. RowsOK' /\ Grows /\ user'[u] = row
    BY <2>1, <2>2, <2>3, UserWritten
  <2> QED
    BY <2>1, <2>4
<1>4. CASE user' = user /\ ~MarkUserEmailVerified(u)
  BY <1>4, RowsSame DEF rows
<1>5. CASE ~MarkUserEmailVerified(u)
  BY <1>3, <1>4, <1>5 DEF InsertAuthMethodPassword, UpdateAuthMethodPassword
<1> QED
  BY <1>2, <1>5

(* Links stay links of the same users, and none is consumed whose user is  *)
(* not verified.                                                           *)
LEMMA LinksKeep ==
  ASSUME RowsOK, user' = user, token' \in [Token -> TokenRow \cup {NoToken}],
         \A t \in Token : token'[t].exists =>
           /\ token[t].exists /\ token'[t].user = token[t].user /\ token'[t].kind = token[t].kind
           /\ token'[t].consumed /\ token[t].kind = "verify" =>
                token[t].consumed \/ user[token[t].user].verified
  PROVE  RowsOK' /\ Grows
<1>1. Grows
  BY DEF Grows
<1>2. (\A t \in Token : token[t].exists => user[token[t].user].exists)'
  BY DEF RowsOK
<1>3. ConsumedMeansVerified'
  BY DEF RowsOK, ConsumedMeansVerified
<1> QED
  BY <1>1, <1>2, <1>3 DEF RowsOK

(* One link's row is changed.                                              *)
LEMMA LinkChanged ==
  ASSUME RowsOK, user' = user, NEW t \in Token, NEW row \in TokenRow,
         token' = [token EXCEPT ![t] = row],
         token[t].exists, row.user = token[t].user, row.kind = token[t].kind,
         row.consumed /\ row.kind = "verify" => token[t].consumed \/ user[row.user].verified
  PROVE  RowsOK' /\ Grows
<1>1. /\ token'[t] = row /\ \A v \in Token \ {t} : token'[v] = token[v]
      /\ token' \in [Token -> TokenRow \cup {NoToken}]
  BY DEF RowsOK
<1>2. ASSUME NEW v \in Token, token'[v].exists
      PROVE  /\ token[v].exists /\ token'[v].user = token[v].user /\ token'[v].kind = token[v].kind
             /\ token'[v].consumed /\ token[v].kind = "verify" =>
                  token[v].consumed \/ user[token[v].user].verified
  BY <1>1, <1>2
<1> QED
  BY <1>1, <1>2, LinksKeep

(* A consumed link's user is verified, or it is one for a reset.           *)
LEMMA LinkConsumed ==
  ASSUME RowsOK, user' = user, NEW t \in Token,
         \/ ConsumeEmailVerifyToken(t) /\ (token[t].exists => user[token[t].user].verified)
         \/ ConsumePasswordResetToken(t)
  PROVE  RowsOK' /\ Grows
<1>1. CASE token' = token
  BY <1>1, RowsSame DEF rows
<1>2. CASE token' # token
  <2> DEFINE row == [token[t] EXCEPT !.consumed = TRUE]
  <2>1. /\ token' = [token EXCEPT ![t] = row] /\ token[t].exists
        /\ token[t].kind = "verify" => user[token[t].user].verified
    BY <1>2 DEF ConsumeEmailVerifyToken, ConsumePasswordResetToken, FindEmailVerifyToken,
                FindPasswordResetToken
  <2>2. token[t] \in TokenRow
    BY <2>1, RowShape DEF RowsOK
  <2>3. row \in TokenRow /\ row.user = token[t].user /\ row.kind = token[t].kind
    BY <2>2 DEF TokenRow
  <2> HIDE DEF row
  <2> QED
    BY <2>1, <2>3, LinkChanged
<1> QED
  BY <1>1, <1>2

(* A new link is an existing user's, and no open link has its id.          *)
LEMMA LinkInserted ==
  ASSUME RowsOK, user' = user, NEW t \in Token \ {at[q].body.token : q \in Holding},
         NEW u \in User, user[u].exists,
         InsertEmailVerifyToken(t, u) \/ InsertPasswordResetToken(t, u)
  PROVE  RowsOK' /\ Grows
<1>1. PICK kind \in {"verify", "reset"} : token' = [token EXCEPT ![t] = NewToken(kind, u)]
  BY DEF InsertEmailVerifyToken, InsertPasswordResetToken
<1> DEFINE row == NewToken(kind, u)
<1>2. row \in TokenRow /\ row.user = u /\ row.consumed = FALSE
  BY DEF NewToken, TokenRow
<1>3. token' = [token EXCEPT ![t] = row]
  BY <1>1
<1> HIDE DEF row
<1>4. /\ token'[t] = row /\ \A v \in Token \ {t} : token'[v] = token[v]
      /\ token' \in [Token -> TokenRow \cup {NoToken}]
  BY <1>2, <1>3 DEF RowsOK
<1>5. \A q \in Handler : at[q].pc \in {"mark", "consume_verify"} => at[q].body.token # t
  BY DEF Holding, Busy
<1>6. Grows
  BY <1>4, <1>5 DEF Grows
<1>7. (\A v \in Token : token[v].exists => user[token[v].user].exists)'
  BY <1>2, <1>4 DEF RowsOK
<1>8. ConsumedMeansVerified'
  BY <1>2, <1>4 DEF RowsOK, ConsumedMeansVerified
<1> QED
  BY <1>4, <1>6, <1>7, <1>8 DEF RowsOK

-------------------------------------------------------------------------------
(* A request starts, or goes on with another handler's statement.          *)
LEMMA FrameEffect ==
  ASSUME FramesOK, NEW p \in Handler, NEW pc \in {"insert_password", "insert_token", "mail"},
         NEW u \in User, user'[u].exists, NEW body, Frame(p, pc, u, body),
         pc = "insert_password" => body.password \in Password,
         pc = "mail" => body.token \in Token
  PROVE  /\ FrameOK(at[p])' /\ \A q \in Handler \ {p} : at'[q] = at[q]
         /\ at' = [q \in Handler |-> at'[q]]
<1>1. /\ at'[p] = NewFrame(pc, u, body) /\ \A q \in Handler \ {p} : at'[q] = at[q]
      /\ at' = [q \in Handler |-> at'[q]]
  BY GotoEffect DEF Frame
<1>2. /\ at'[p].pc = pc /\ at'[p].user = u /\ at'[p].age \in 0..RefreshAfter
      /\ at'[p].body = body
      /\ at'[p] = [pc |-> at'[p].pc, op |-> at'[p].op, user |-> at'[p].user,
                   session |-> at'[p].session, remember |-> at'[p].remember,
                   age |-> at'[p].age, found |-> at'[p].found, body |-> at'[p].body]
  BY <1>1, NewFrameFields
<1> QED
  BY <1>1, <1>2 DEF FrameOK

(* A step of p on the tables.                                              *)
LEMMA TableStep ==
  ASSUME IInv, NEW p \in Handler, UNCHANGED <<redis, cookie>>, RowsOK', Grows,
         \A q \in Handler \ {p} : at'[q] = at[q], at' = [q \in Handler |-> at'[q]],
         at'[p] = Idle \/ FrameOK(at[p])'
  PROVE  IInv'
<1>1. /\ RedisOK' /\ HeldWaned
      /\ \A s \in Session : Live(s)' => Live(s) /\ session'[s].user = session[s].user
  BY RedisSame DEF IInv, NoneNew
<1> QED
  BY <1>1, StepOf

(* Registration: the user, the password, the link, the mail.               *)
LEMMA RegistrationKeeps ==
  ASSUME IInv, NEW p \in Handler,
         \/ \E u \in User, w \in Password : Register(p, u, w)
         \/ InsertPassword(p) \/ InsertToken(p) \/ \E d \in BOOLEAN : SendMail(p, d)
  PROVE  IInv'
<1>1. ASSUME NEW u \in User, NEW w \in Password, Register(p, u, w)
      PROVE  IInv'
  <2> DEFINE row  == [exists |-> TRUE, verified |-> FALSE, password |-> NoPassword]
             body == [password |-> w]
  <2>1. row \in UserRow /\ body.password = w
    BY DEF UserRow
  <2>2. /\ user' = [user EXCEPT ![u] = row] /\ ~user[u].exists /\ token' = token
        /\ Frame(p, "insert_password", u, body) /\ UNCHANGED <<redis, cookie>>
    BY <1>1 DEF Register, InsertUser, FindUserByEmail
  <2> HIDE DEF row, body
  <2>3. RowsOK' /\ Grows /\ user'[u].exists
    BY <2>1, <2>2, UserWritten DEF IInv
  <2>4. /\ FrameOK(at[p])' /\ \A q \in Handler \ {p} : at'[q] = at[q]
        /\ at' = [q \in Handler |-> at'[q]]
    BY <2>1, <2>2, <2>3, FrameEffect DEF IInv
  <2> QED
    BY <2>2, <2>3, <2>4, TableStep
<1>2. CASE InsertPassword(p)
  <2> DEFINE body == [kind |-> "verify"]
             u    == at[p].user
  <2>1. /\ InsertAuthMethodPassword(u, at[p].body.password) /\ at[p].pc = "insert_password"
        /\ Frame(p, "insert_token", u, body) /\ UNCHANGED <<redis, cookie>> /\ token' = token
    BY <1>2 DEF InsertPassword
  <2>2. u \in User /\ user[u].exists /\ at[p].body.password \in Password
    BY <2>1, RowShape DEF IInv, FramesOK, FrameOK
  <2> HIDE DEF body, u
  <2>3. RowsOK' /\ Grows
    BY <2>1, <2>2, UserChanged DEF IInv
  <2>4. user'[u].exists
    BY <2>2, <2>3 DEF Grows
  <2>5. /\ FrameOK(at[p])' /\ \A q \in Handler \ {p} : at'[q] = at[q]
        /\ at' = [q \in Handler |-> at'[q]]
    BY <2>1, <2>2, <2>4, FrameEffect DEF IInv
  <2> QED
    BY <2>1, <2>3, <2>5, TableStep
<1>3. CASE InsertToken(p)
  <2>1. PICK t \in Token \ {at[q].body.token : q \in Holding} :
          /\ at[p].pc = "insert_token"
          /\ InsertEmailVerifyToken(t, at[p].user) \/ InsertPasswordResetToken(t, at[p].user)
          /\ Frame(p, "mail", at[p].user, [token |-> t])
          /\ UNCHANGED <<redis, cookie, user>>
    BY <1>3 DEF InsertToken
  <2> DEFINE body == [token |-> t]
             u    == at[p].user
  <2>2. u \in User /\ user[u].exists
    BY <2>1, RowShape DEF IInv, FramesOK, FrameOK
  <2>3. body.token \in Token /\ Frame(p, "mail", u, body)
    BY <2>1
  <2>4. RowsOK' /\ Grows /\ user' = user
    BY <2>1, <2>2, LinkInserted DEF IInv
  <2> HIDE DEF body, u
  <2>5. /\ FrameOK(at[p])' /\ \A q \in Handler \ {p} : at'[q] = at[q]
        /\ at' = [q \in Handler |-> at'[q]]
    BY <2>2, <2>3, <2>4, FrameEffect DEF IInv
  <2> QED
    BY <2>1, <2>4, <2>5, TableStep
<1>4. ASSUME NEW d \in BOOLEAN, SendMail(p, d)
      PROVE  IInv'
  <2> DEFINE t   == at[p].body.token
             row == [token[t] EXCEPT !.mailed = d]
  <2>1. /\ at[p].pc = "mail" /\ Done(p) /\ UNCHANGED <<redis, cookie>> /\ user' = user
        /\ token' = [token EXCEPT ![t] = IF token[t].exists THEN row ELSE token[t]]
    BY <1>4 DEF SendMail
  <2>2. t \in Token
    BY <2>1, RowShape DEF IInv, FramesOK, FrameOK
  <2>3. RowsOK' /\ Grows
    <3>1. CASE ~token[t].exists
      <4>1. token' = token
        BY <2>1, <3>1 DEF IInv, RowsOK
      <4> QED
        BY <2>1, <4>1, RowsSame DEF IInv, rows
    <3>2. CASE token[t].exists
      <4>1. token[t] \in TokenRow
        BY <2>2, <3>2, RowShape DEF IInv, RowsOK
      <4>2. row \in TokenRow /\ row.user = token[t].user /\ row.kind = token[t].kind
            /\ row.consumed = token[t].consumed
        BY <4>1 DEF TokenRow
      <4>3. token' = [token EXCEPT ![t] = row]
        BY <2>1, <3>2
      <4> HIDE DEF row, t
      <4> QED
        BY <2>1, <2>2, <3>2, <4>2, <4>3, LinkChanged DEF IInv
    <3> QED
      BY <3>1, <3>2
  <2> QED
    BY <2>1, <2>3, DoneEffect, TableStep DEF IInv
<1> QED
  BY <1>1, <1>2, <1>3, <1>4

(* What a link does, and a new password.                                   *)
LEMMA LinkWorkKeeps ==
  ASSUME IInv, NEW p \in Handler,
         \/ MarkEmailVerified(p) \/ ConsumeVerify(p) \/ ResetPassword(p) \/ ConsumeReset(p)
         \/ ChangePassword(p)
  PROVE  IInv'
<1>1. /\ at[p] # Idle /\ UNCHANGED <<redis, cookie>> /\ FrameOK(at[p]) /\ HeldWaned
  <2>1. UNCHANGED <<redis, cookie>> /\ at[p].pc # "idle"
    BY DEF MarkEmailVerified, ConsumeVerify, ResetPassword, ConsumeReset, ChangePassword
  <2> QED
    BY <2>1, RowShape, RedisSame DEF IInv, FramesOK
<1> DEFINE u == at[p].user
           t == at[p].body.token
<1>2. u \in User /\ user[u].exists
  BY <1>1 DEF FrameOK
<1>3. ASSUME NEW pc, Step(p, pc), RowsOK', Grows,
             \/ pc \in {"revoke", "revoke_others"}
             \/ pc = "consume_verify" /\ at[p].pc = "mark" /\ user'[u].verified
             \/ pc = "consume_reset" /\ t \in Token
      PROVE  IInv'
  <2>1. /\ FrameOK(at[p])' /\ \A q \in Handler \ {p} : at'[q] = at[q]
        /\ at' = [q \in Handler |-> at'[q]]
    BY <1>1, <1>3, StepEffect DEF IInv
  <2> QED
    BY <1>1, <1>3, <2>1, TableStep
<1>4. CASE MarkEmailVerified(p)
  <2>1. at[p].pc = "mark" /\ MarkUserEmailVerified(u) /\ Step(p, "consume_verify") /\ token' = token
    BY <1>4 DEF MarkEmailVerified
  <2>2. RowsOK' /\ Grows /\ user'[u].verified
    BY <1>2, <2>1, UserChanged DEF IInv
  <2> QED
    BY <1>3, <2>1, <2>2
<1>5. CASE ConsumeVerify(p)
  <2>1. at[p].pc = "consume_verify" /\ ConsumeEmailVerifyToken(t) /\ user' = user
    BY <1>5 DEF ConsumeVerify
  <2>2. at[p].body.then = "idle" /\ t \in Token /\ (token[t].exists => user[token[t].user].verified)
    BY <1>1, <2>1 DEF FrameOK
  <2>3. Done(p)
    BY <1>5, <2>2 DEF ConsumeVerify
  <2>4. RowsOK' /\ Grows
    BY <2>1, <2>2, LinkConsumed DEF IInv
  <2> QED
    BY <1>1, <2>3, <2>4, DoneEffect, TableStep DEF IInv
<1>6. CASE ResetPassword(p)
  <2>1. /\ at[p].pc = "reset_password" /\ UpdateAuthMethodPassword(u, at[p].body.password)
        /\ Step(p, "consume_reset") /\ token' = token
    BY <1>6 DEF ResetPassword
  <2>2. t \in Token /\ at[p].body.password \in Password
    BY <1>1, <2>1 DEF FrameOK
  <2>3. RowsOK' /\ Grows
    BY <1>2, <2>1, <2>2, UserChanged DEF IInv
  <2> QED
    BY <1>3, <2>1, <2>2, <2>3
<1>7. CASE ConsumeReset(p)
  <2>1. /\ at[p].pc = "consume_reset" /\ ConsumePasswordResetToken(t) /\ Step(p, "revoke")
        /\ user' = user
    BY <1>7 DEF ConsumeReset
  <2>2. t \in Token
    BY <1>1, <2>1 DEF FrameOK
  <2>3. RowsOK' /\ Grows
    BY <2>1, <2>2, LinkConsumed DEF IInv
  <2> QED
    BY <1>3, <2>1, <2>3
<1>8. CASE ChangePassword(p)
  <2>1. /\ at[p].pc = "change_password" /\ UpdateAuthMethodPassword(u, at[p].body.password)
        /\ Step(p, "revoke_others") /\ token' = token
    BY <1>8 DEF ChangePassword
  <2>2. at[p].body.password \in Password
    BY <1>1, <2>1 DEF FrameOK
  <2>3. RowsOK' /\ Grows
    BY <1>2, <2>1, <2>2, UserChanged DEF IInv
  <2> QED
    BY <1>3, <2>1, <2>3
<1> QED
  BY <1>4, <1>5, <1>6, <1>7, <1>8

-------------------------------------------------------------------------------
(* Links age and are deleted whatever request holds them.                  *)
LEMMA TimeOfLinksKeeps ==
  ASSUME IInv, (\E t \in Token : LinkAges(t)) \/ RunCleanupExpiredTokensOnce
  PROVE  IInv'
<1>1. UNCHANGED <<redis, cookie>> /\ at' = at /\ user' = user
  BY DEF LinkAges, RunCleanupExpiredTokensOnce
<1>2. RowsOK' /\ Grows
  <2>1. ASSUME NEW t \in Token, LinkAges(t)
        PROVE  RowsOK' /\ Grows
    <3> DEFINE age == IF token[t].age = "live" THEN "expired" ELSE "old"
               row == [token[t] EXCEPT !.age = age]
    <3>1. token[t].exists /\ token' = [token EXCEPT ![t] = row]
      BY <2>1 DEF LinkAges
    <3>2. token[t] \in TokenRow
      BY <3>1, RowShape DEF IInv, RowsOK
    <3>3. row \in TokenRow /\ row.user = token[t].user /\ row.kind = token[t].kind
          /\ row.consumed = token[t].consumed
      BY <3>2 DEF TokenRow
    <3> HIDE DEF row
    <3> QED
      BY <1>1, <3>1, <3>3, LinkChanged DEF IInv
  <2>2. CASE RunCleanupExpiredTokensOnce
    <3>1. \A t \in Token : token'[t] \in {token[t], NoToken}
      BY <2>2 DEF RunCleanupExpiredTokensOnce, DeleteExpiredEmailVerifyTokens,
                  DeleteExpiredPasswordResetTokens
    <3>2. token' = [t \in Token |-> token'[t]]
      BY <2>2 DEF RunCleanupExpiredTokensOnce, DeleteExpiredEmailVerifyTokens,
                  DeleteExpiredPasswordResetTokens
    <3>3. token' \in [Token -> TokenRow \cup {NoToken}]
      BY <3>1, <3>2 DEF IInv, RowsOK
    <3>4. \A t \in Token : token'[t].exists => token'[t] = token[t] /\ token[t].exists
      BY <3>1, RowShape
    <3> QED
      BY <1>1, <3>3, <3>4, LinksKeep DEF IInv
  <2> QED
    BY <2>1, <2>2
<1>3. RedisOK' /\ NoneNew /\ HeldWaned
  BY <1>1, RedisSame DEF IInv
<1>4. FramesOK'
  BY <1>1, <1>2, <1>3, OthersKeep DEF IInv, FramesOK
<1>5. SessionsOfUsers'
  <2>1. ASSUME NEW s \in Session, Live(s)'
        PROVE  MaySignIn(session[s].user)'
    <3>1. Live(s) /\ session'[s].user = session[s].user
      BY <1>3, <2>1 DEF NoneNew
    <3> QED
      BY <1>1, <3>1 DEF IInv, SessionsOfUsers, MaySignIn
  <2> QED
    BY <2>1 DEF SessionsOfUsers, Live, MaySignIn
<1> QED
  BY <1>2, <1>3, <1>4, <1>5 DEF IInv

(* The fields of a frame that waits for its refresh.                       *)
LEMMA AgeFields ==
  ASSUME NEW f, NEW age, NEW g, g = [f EXCEPT !.age = age],
         f = [pc |-> f.pc, op |-> f.op, user |-> f.user, session |-> f.session,
              remember |-> f.remember, age |-> f.age, found |-> f.found, body |-> f.body]
  PROVE  /\ g.pc = f.pc /\ g.op = f.op /\ g.user = f.user /\ g.session = f.session
         /\ g.remember = f.remember /\ g.age = age /\ g.body = f.body
         /\ g = [pc |-> g.pc, op |-> g.op, user |-> g.user, session |-> g.session,
                 remember |-> g.remember, age |-> g.age, found |-> g.found, body |-> g.body]
OBVIOUS

(* A tick: no request is older than RefreshAfter.                          *)
LEMMA TimeOfSessionsKeeps ==
  ASSUME IInv, Tick, UNCHANGED rows
  PROVE  IInv'
<1>1. RowsOK' /\ Grows /\ user' = user /\ token' = token
  BY RowsSame DEF IInv, rows
<1>2. RedisOK' /\ NoneNew /\ HeldWaned
  BY TickKeeps DEF IInv
<1>3. SessionsOfUsers'
  <2>1. ASSUME NEW s \in Session, Live(s)'
        PROVE  MaySignIn(session[s].user)'
    <3>1. Live(s) /\ session'[s].user = session[s].user
      BY <1>2, <2>1 DEF NoneNew
    <3> QED
      BY <1>1, <3>1 DEF IInv, SessionsOfUsers, MaySignIn
  <2> QED
    BY <2>1 DEF SessionsOfUsers, Live, MaySignIn
<1>4. /\ at' = [q \in Handler |-> at'[q]]
      /\ \A p \in Handler : at'[p] = IF at[p].pc = "renew"
                                       THEN [at[p] EXCEPT !.age = at[p].age + 1] ELSE at[p]
  BY DEF Tick
<1>5. ASSUME NEW p \in Handler, at[p].pc = "renew"
      PROVE  FrameOK(at[p])'
  <2>1. FrameOK(at[p]) /\ at[p].age < RefreshAfter
    BY <1>5, RowShape DEF IInv, FramesOK, Tick, Busy
  <2> DEFINE age == at[p].age + 1
  <2>2. age \in 0..RefreshAfter
    BY <2>1, TtlAssumption DEF FrameOK
  <2>3. at'[p] = [at[p] EXCEPT !.age = age]
    BY <1>4, <1>5
  <2> HIDE DEF age
  <2>4. /\ at'[p].pc = at[p].pc /\ at'[p].op = at[p].op /\ at'[p].user = at[p].user
        /\ at'[p].session = at[p].session /\ at'[p].remember = at[p].remember
        /\ at'[p].age = age /\ at'[p].body = at[p].body
        /\ at'[p] = [pc |-> at'[p].pc, op |-> at'[p].op, user |-> at'[p].user,
                     session |-> at'[p].session, remember |-> at'[p].remember,
                     age |-> at'[p].age, found |-> at'[p].found, body |-> at'[p].body]
    BY <2>1, <2>3, AgeFields DEF FrameOK
  <2>5. MaySignIn(at[p].user)'
    BY <1>1, <1>5, <2>1, <2>4 DEF FrameOK, MaySignIn
  <2>6. at[p].session \in Session /\ cookie'[at[p].session] + age <= Ttl(at[p].remember)
    <3> DEFINE now == cookie[at[p].session]  then == cookie'[at[p].session]
               old == at[p].age  ttl == Ttl(at[p].remember)
    <3>0. now + old <= ttl /\ at[p].session \in Session /\ at[p].remember \in Remembering
      BY <1>5, <2>1 DEF FrameOK
    <3>1. now \in Nat /\ then = (IF now = 0 THEN 0 ELSE now - 1)
      <4>1. cookie' = [s \in Session |-> IF cookie[s] = 0 THEN 0 ELSE cookie[s] - 1]
        BY DEF Tick
      <4>2. cookie \in [Session -> 0..TtlRememberMe]
        BY DEF IInv, RedisOK
      <4> QED
        BY <3>0, <4>1, <4>2, TtlAssumption
    <3>2. old \in Nat /\ old < RefreshAfter /\ RefreshAfter < ttl /\ {RefreshAfter, ttl} \subseteq Nat
          /\ age = old + 1
      BY <2>1, <3>0, TtlFacts DEF FrameOK, age
    <3> HIDE DEF now, then, old, ttl
    <3>3. then + age <= ttl
      BY <3>0, <3>1, <3>2
    <3> QED
      BY <3>0, <3>3 DEF then, ttl
  <2> QED
    BY <1>1, <1>5, <2>1, <2>2, <2>4, <2>5, <2>6 DEF FrameOK, Ttl
<1>6. ASSUME NEW p \in Handler, at[p].pc # "renew"
      PROVE  at'[p] = Idle \/ FrameOK(at[p])'
  BY <1>1, <1>2, <1>4, <1>6, OthersKeep DEF IInv
<1> QED
  BY <1>1, <1>2, <1>3, <1>4, <1>5, <1>6 DEF IInv, FramesOK

(* Before the first request nobody is signed in.                           *)
LEMMA InitIInv == Init => IInv
<1> SUFFICES ASSUME Init PROVE IInv
  OBVIOUS
<1>1. /\ session = [s \in Session |-> NoSession] /\ index = [u \in User |-> NoIndex]
      /\ cookie = [s \in Session |-> 0] /\ 0 \in 0..TtlRememberMe /\ NoSession.left = 0
      /\ NoIndex \in IndexRow /\ NoIndex.ids = {} /\ NoIndex.left = 0
  BY TtlAssumption DEF Init, InitSessions, NoSession, NoIndex, IndexRow
<1>2. RedisOK
  BY <1>1 DEF RedisOK, CookieOfLogin, KeyOutlivesCookie, Live
<1>3. RowsOK
  BY RowShape DEF Init, RowsOK, ConsumedMeansVerified
<1>4. SessionsOfUsers
  BY <1>1 DEF SessionsOfUsers, Live
<1>5. FramesOK
  BY DEF Init, FramesOK
<1> QED
  BY <1>2, <1>3, <1>4, <1>5 DEF IInv

(* Every step keeps the invariant.                                         *)
LEMMA StepKeeps == IInv /\ [Next]_vars => IInv'
<1> SUFFICES ASSUME IInv, [Next]_vars PROVE IInv'
  OBVIOUS
<1>1. ASSUME NEW p \in Handler, NEW s \in Session,
             \/ GetMe(p, s) \/ Logout(p, s) \/ DeleteAllSessions(p, s) \/ ChangeRequest(p, s)
             \/ Refused(p, s) \/ CartRequest(p, s)
      PROVE  IInv'
  BY <1>1, SignedInKeeps, RefusedKeeps, CartRequestKeeps DEF GetMe, Logout, DeleteAllSessions, ChangeRequest, Ops
<1>2. ASSUME NEW p \in Handler, Handles(p)
      PROVE  IInv'
  <2>1. CASE SessionStep(p) /\ UNCHANGED rows
    BY <2>1, SessionWrites, SessionEnds, DecisionKeeps, AnswerKeeps DEF SessionStep
  <2>2. CASE InsertPassword(p) \/ InsertToken(p) \/ \E d \in BOOLEAN : SendMail(p, d)
    BY <2>2, RegistrationKeeps
  <2>3. CASE \/ MarkEmailVerified(p) \/ ConsumeVerify(p) \/ ResetPassword(p) \/ ConsumeReset(p)
             \/ ChangePassword(p)
    BY <2>3, LinkWorkKeeps
  <2>4. CASE Me(p) \/ CartAnswer(p) \/ CheckPassword(p)
    BY <2>4, DecisionKeeps
  <2>5. CASE CreateSession(p)
    BY <2>5, SessionWrites
  <2>6. CASE \E current, new \in Password : CheckCurrent(p, current, new)
    BY <2>6, AnswerKeeps
  <2> QED
    BY <1>2, <2>1, <2>2, <2>3, <2>4, <2>5, <2>6 DEF Handles
<1>3. CASE UNCHANGED vars
  <2>1. UNCHANGED <<redis, cookie>> /\ UNCHANGED rows /\ at' = at
    BY <1>3 DEF vars, redis, rows
  <2>2. RedisOK' /\ NoneNew /\ HeldWaned /\ RowsOK' /\ Grows
    BY <2>1, RedisSame, RowsSame DEF IInv
  <2>3. FramesOK'
    BY <2>1, <2>2, OthersKeep DEF IInv, FramesOK
  <2>4. SessionsOfUsers'
    BY <1>3 DEF vars, IInv, SessionsOfUsers, Live, MaySignIn
  <2> QED
    BY <2>2, <2>3, <2>4 DEF IInv
<1>4. ASSUME NEW p \in Handler,
             \/ \E u \in User : \/ Resend(p, u) \/ RequestReset(p, u)
                                \/ \E w \in Password : \/ Register(p, u, w)
                                                       \/ \E r \in Remembering : Login(p, u, w, r)
             \/ \E t \in Token : VerifyEmail(p, t) \/ \E w \in Password : ConfirmReset(p, t, w)
      PROVE  IInv'
  BY <1>4, ArrivalKeeps, RegistrationKeeps
<1> QED
  BY <1>1, <1>2, <1>3, <1>4, DecisionKeeps, TimeOfLinksKeeps, TimeOfSessionsKeeps DEF Next

(* Identity and sessions keep the strengthened invariant.                  *)
THEOREM Invariant == Spec => []IInv
BY InitIInv, StepKeeps, PTL DEF Spec

(* The rows and keys of users, links and sessions keep their shape.        *)
THEOREM TypeCorrect == Spec => []TypeOK
<1>1. IInv => TypeOK
  <2> SUFFICES ASSUME IInv PROVE TypeOK
    OBVIOUS
  <2>1. SessionsOK
    BY SessionShape DEF IInv, RedisOK, SessionsOK, SessionRow, IndexRow, Live
  <2>2. \A u \in User : user[u] # NoUser => user[u] \in
          [exists : {TRUE}, verified : BOOLEAN, password : Password \cup {NoPassword}]
    BY DEF IInv, RowsOK, UserRow
  <2>3. \A t \in Token : token[t] # NoToken => token[t] \in
          [exists : {TRUE}, kind : {"verify", "reset"}, user : User, consumed : BOOLEAN,
           age : {"live", "expired", "old"}, mailed : BOOLEAN]
    BY DEF IInv, RowsOK, TokenRow
  <2> QED
    BY <2>1, <2>2, <2>3 DEF TypeOK
<1> QED
  BY <1>1, Invariant, PTL

(* Login decides on the user's row and then on the password's, a new       *)
(* password is set while sessions come and go: who is signed in is         *)
(* verified and has a password.                                            *)
THEOREM SignedInMeansVerified == Spec => []SessionsOfVerifiedUsers
<1>1. IInv => SessionsOfVerifiedUsers
  BY DEF IInv, SessionsOfUsers, MaySignIn, SessionsOfVerifiedUsers
<1> QED
  BY <1>1, Invariant, PTL

(* VerifyEmail consumes its link after it has verified the user: a         *)
(* consumed link has done its work, wherever requests were cut off.        *)
THEOREM LinksDoTheirWork == Spec => []ConsumedMeansVerified
<1>1. IInv => ConsumedMeansVerified
  BY DEF IInv, RowsOK
<1> QED
  BY <1>1, Invariant, PTL

(* Refreshes that are skipped, fail, or write back an old copy late, and   *)
(* the revocation of other sessions, never take a signed-in user's key     *)
(* away before the cookie of the login runs out.  The cookie itself does,  *)
(* however active the user is: no answer but a login's sets it.            *)
THEOREM KeysOutliveCookies == Spec => []KeyOutlivesCookie
<1>1. IInv => KeyOutlivesCookie
  BY DEF IInv, RedisOK
<1> QED
  BY <1>1, Invariant, PTL
================================================================================
