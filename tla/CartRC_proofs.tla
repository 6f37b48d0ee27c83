----------------------------- MODULE CartRC_proofs -----------------------------
(***************************************************************************)
(* Carts of any number of owners, under any number of item requests,       *)
(* logins, conversions and sweeps at once.                                 *)
(***************************************************************************)
EXTENDS CartRC, RowStore_proofs, FiniteSetTheorems

Rows     == CartRows \cup LineRows
Status   == {"none", "active", "merged", "abandoned", "converted"}
Quantity == 0..MaxItemQuantity
Values   == Status \cup Quantity

(* Rows written, or committed: statuses of carts and quantities of lines.  *)
Typed(rows) == /\ DOMAIN rows \subseteq Rows
               /\ \A c \in DOMAIN rows \cap CartRows : rows[c] \in Status
               /\ \A l \in DOMAIN rows \cap LineRows : rows[l] \in Quantity

(* A cart written and not committed is a new one...                        *)
NewCarts == \A p \in Proc : \A c \in DOMAIN dirty[p] \cap CartRows :
              dirty[p][c] = "active" /\ db[c] = "none"

(* ... and nobody else inserts a cart of that owner.                       *)
OneInserter == \A p, q \in Proc : \A w \in Owner : \A m, n \in CartNo[w] :
  p # q /\ cartRow(w, m) \in DOMAIN dirty[p] => cartRow(w, n) \notin DOMAIN dirty[q]

(* What every session reads: no owner has two active carts.                *)
OneView == \A p \in Proc : \A w \in Owner : \A m, n \in ActiveCart(p, w) : m = n

StoreOK == /\ RowsOf(Rows, Values) /\ LocksExclusive
           /\ Typed(db) /\ \A p \in Proc : Typed(dirty[p])
           /\ NewCarts /\ OneInserter /\ OneView

(* The only thing that happens to an active cart of a user is a confirm.   *)
UserCartsMove == \A u \in User : \A n \in CartNo[u] :
  /\ db[cartRow(u, n)] = "active" => db'[cartRow(u, n)] \in {"active", "converted"}
  /\ db[cartRow(u, n)] = "converted" => db'[cartRow(u, n)] = "converted"

(* A row's name says whose it is, and whether it is a cart's or a line's.  *)
LEMMA RowNames ==
  /\ \A v, w : \A m, n : cartRow(v, m) = cartRow(w, n) => v = w /\ m = n
  /\ CartRows \cap LineRows = {}
  /\ \A w \in Owner : \A n \in CartNo[w] :
       cartRow(w, n) \in CartRows /\ \A v \in Variant : lineRow(w, n, v) \in LineRows
  /\ \A c \in CartRows : \E w \in Owner : \E n \in CartNo[w] : c = cartRow(w, n)
<1>1. \A c \in CartRows : \E w \in Owner : \E n \in CartNo[w] : c = cartRow(w, n)
  BY DEF CartRows, IndexRows
<1>2. \A l \in LineRows : \E w \in Owner : \E n \in CartNo[w] : \E v \in Variant : l = lineRow(w, n, v)
  BY DEF LineRows
<1>3. \A w, w2, n, n2, v : cartRow(w, n) # lineRow(w2, n2, v)
  <2>1. ASSUME NEW w, NEW w2, NEW n, NEW n2, NEW v
        PROVE  cartRow(w, n)[1] = "cart" /\ lineRow(w2, n2, v)[1] = "line"
    BY DEF cartRow, lineRow
  <2>2. "cart" # "line"
    OBVIOUS
  <2> QED
    BY <2>1, <2>2
<1>4. CartRows \cap LineRows = {}
  BY <1>1, <1>2, <1>3
<1>5. \A w \in Owner : \A n \in CartNo[w] :
        cartRow(w, n) \in CartRows /\ \A v \in Variant : lineRow(w, n, v) \in LineRows
  BY DEF CartRows, IndexRows, LineRows
<1>6. \A v, w : \A m, n : cartRow(v, m) = cartRow(w, n) => v = w /\ m = n
  BY DEF cartRow
<1> QED
  BY <1>1, <1>4, <1>5, <1>6

(* A statement that writes one row.                                        *)
LEMMA OnlyShape ==
  ASSUME NEW row, NEW value
  PROVE  DOMAIN Only(row, value) = {row} /\ Only(row, value)[row] = value
BY DEF Only

(* The active carts a session sees.                                        *)
LEMMA ActiveCarts ==
  ASSUME NEW p, NEW w, NEW n
  PROVE  n \in ActiveCart(p, w) <=> n \in CartNo[w] /\ Read(p, cartRow(w, n)) = "active"
BY DEF ActiveCart, GetActiveCartByUser, GetActiveCartByAnon

-------------------------------------------------------------------------------
(* A merge writes lines.                                                   *)
LEMMA LineWriteKeeps ==
  ASSUME StoreOK, NEW p \in Proc, NEW rows, Typed(rows), DOMAIN rows \subseteq LineRows,
         Write(p, rows)
  PROVE  /\ StoreOK' /\ db' = db
         /\ DOMAIN dirty'[p] = DOMAIN rows \cup DOMAIN dirty[p]
         /\ \A r \in DOMAIN dirty'[p] :
              dirty'[p][r] = IF r \in DOMAIN rows THEN rows[r] ELSE dirty[p][r]
         /\ \A q \in Proc \ {p} : dirty'[q] = dirty[q]
<1>1. /\ DOMAIN rows \cap CartRows = {} /\ DOMAIN rows \subseteq Rows
      /\ \A r \in DOMAIN rows : rows[r] \in Values
  BY RowNames DEF Typed, Values
<1>2. /\ RowsOf(Rows, Values)' /\ LocksExclusive'
      /\ db' = db
      /\ DOMAIN dirty'[p] = DOMAIN rows \cup DOMAIN dirty[p]
      /\ \A r \in DOMAIN dirty'[p] :
           dirty'[p][r] = IF r \in DOMAIN rows THEN rows[r] ELSE dirty[p][r]
      /\ \A q \in Proc \ {p} : dirty'[q] = dirty[q]
  BY <1>1, WriteEffect DEF StoreOK
<1>3. \A c \in CartRows : /\ c \in DOMAIN dirty'[p] <=> c \in DOMAIN dirty[p]
                          /\ c \in DOMAIN dirty[p] => dirty'[p][c] = dirty[p][c]
                          /\ Read(p, c)' = Read(p, c)
  BY <1>1, <1>2 DEF Read
<1>4. Typed(db)' /\ (\A q \in Proc : Typed(dirty[q]))'
  <2>1. Typed(dirty'[p])
    BY <1>1, <1>2 DEF StoreOK, Typed
  <2> QED
    BY <1>2, <2>1 DEF StoreOK, Typed
<1>5. NewCarts'
  BY <1>2, <1>3 DEF StoreOK, NewCarts
<1>6. OneInserter'
  BY <1>2, <1>3, RowNames DEF StoreOK, OneInserter
<1>7. \A q \in Proc : \A c \in CartRows : Read(q, c)' = Read(q, c)
  BY <1>2, <1>3 DEF Read
<1>8. \A q \in Proc : \A w \in Owner : ActiveCart(q, w)' = ActiveCart(q, w)
  BY <1>7, RowNames DEF ActiveCart, GetActiveCartByUser, GetActiveCartByAnon
<1>9. OneView'
  BY <1>8 DEF StoreOK, OneView
<1> QED
  BY <1>2, <1>4, <1>5, <1>6, <1>9 DEF StoreOK

(* What a session sees after a step.                                       *)
LEMMA ActiveCartsAfter ==
  ASSUME NEW p, NEW w, NEW n
  PROVE  n \in ActiveCart(p, w)' <=> n \in CartNo[w] /\ Read(p, cartRow(w, n))' = "active"
BY DEF ActiveCart, GetActiveCartByUser, GetActiveCartByAnon

(* The cart an insert makes is its owner's only one in p's eyes, and no    *)
(* other session has written one of that owner.                            *)
Inserts(p, w, n) == w \in Owner /\ n \in FreshCart(p, w) /\ Settled(p, w) /\ ~Violates(p, w)

(* Its session sees no active cart of that owner.                          *)
LEMMA InsertSees ==
  ASSUME NEW p, NEW w, NEW n, Inserts(p, w, n)
  PROVE  \A m \in CartNo[w] : Read(p, cartRow(w, m)) # "active"
BY ActiveCarts DEF Inserts, Violates

(* So the row it writes is a legal one, that no session has written.       *)
LEMMA InsertFacts ==
  ASSUME StoreOK, NEW p \in Proc, NEW w, NEW n, Inserts(p, w, n),
         NEW c, c = cartRow(w, n)
  PROVE  /\ w \in Owner /\ n \in CartNo[w] /\ c \in CartRows
         /\ Typed(Only(c, "active")) /\ DOMAIN Only(c, "active") = {c} /\ Only(c, "active")[c] = "active"
         /\ db[c] = "none" /\ c \notin DOMAIN dirty[p]
         /\ \A m \in CartNo[w] : /\ Read(p, cartRow(w, m)) # "active"
                                 /\ \A q \in Proc \ {p} : cartRow(w, m) \notin DOMAIN dirty[q]
<1>1. w \in Owner /\ n \in CartNo[w] /\ c \in CartRows /\ Read(p, c) = "none"
  BY RowNames DEF Inserts, FreshCart
<1>2. db[c] = "none" /\ c \notin DOMAIN dirty[p]
  BY <1>1 DEF Read, StoreOK, NewCarts
<1>3. \A m \in CartNo[w] : Read(p, cartRow(w, m)) # "active"
  BY InsertSees
<1>4. \A m \in CartNo[w] : \A q \in Proc \ {p} : cartRow(w, m) \notin DOMAIN dirty[q]
  BY DEF Inserts, Settled, IndexRows, Unlocked
<1>5. Typed(Only(c, "active"))
  <2> DEFINE rows == Only(c, "active")
  <2>1. DOMAIN rows = {c} /\ rows[c] = "active"
    BY OnlyShape
  <2> HIDE DEF rows
  <2>2. Typed(rows)
    BY <1>1, <2>1, RowNames DEF Typed, Rows, Status
  <2> QED
    BY <2>2 DEF rows
<1> QED
  BY <1>1, <1>2, <1>3, <1>4, <1>5, OnlyShape

(* A merge inserts its user's cart.                                        *)
LEMMA InsertKeeps ==
  ASSUME StoreOK, NEW p \in Proc, NEW w, NEW n, Inserts(p, w, n),
         Write(p, Only(cartRow(w, n), "active"))
  PROVE  /\ StoreOK' /\ db' = db
         /\ \A q \in Proc \ {p} : dirty'[q] = dirty[q]
<1> DEFINE c == cartRow(w, n)
           rows == Only(c, "active")
<1>1. /\ w \in Owner /\ n \in CartNo[w] /\ c \in CartRows
      /\ Typed(rows) /\ DOMAIN rows = {c} /\ rows[c] = "active"
      /\ db[c] = "none" /\ c \notin DOMAIN dirty[p]
      /\ \A m \in CartNo[w] : /\ Read(p, cartRow(w, m)) # "active"
                              /\ \A q \in Proc \ {p} : cartRow(w, m) \notin DOMAIN dirty[q]
  BY InsertFacts
<1>2. Write(p, rows) /\ c = cartRow(w, n)
  OBVIOUS
<1> HIDE DEF rows, c
<1>3. DOMAIN rows \subseteq Rows /\ \A r \in DOMAIN rows : rows[r] \in Values
  BY <1>1 DEF Rows, Values, Status
<1>4. /\ RowsOf(Rows, Values)' /\ LocksExclusive'
      /\ db' = db
      /\ DOMAIN dirty'[p] = DOMAIN rows \cup DOMAIN dirty[p]
      /\ \A r \in DOMAIN dirty'[p] :
           dirty'[p][r] = IF r \in DOMAIN rows THEN rows[r] ELSE dirty[p][r]
      /\ \A q \in Proc \ {p} : dirty'[q] = dirty[q]
  BY <1>2, <1>3, WriteEffect DEF StoreOK
<1>5. /\ DOMAIN dirty'[p] = {c} \cup DOMAIN dirty[p] /\ dirty'[p][c] = "active"
      /\ \A r \in DOMAIN dirty[p] : dirty'[p][r] = dirty[p][r]
  BY <1>1, <1>4
<1>6. Typed(db)' /\ (\A q \in Proc : Typed(dirty[q]))'
  <2>1. Typed(dirty'[p])
    BY <1>1, <1>5, RowNames DEF StoreOK, Typed, Rows, Status
  <2> QED
    BY <1>4, <2>1 DEF StoreOK, Typed
<1>7. NewCarts'
  BY <1>1, <1>4, <1>5 DEF StoreOK, NewCarts
<1>8. OneInserter'
  <2>1. ASSUME NEW q \in Proc, q # p, NEW v \in Owner, NEW i \in CartNo[v], NEW j \in CartNo[v]
        PROVE  ~(cartRow(v, i) \in DOMAIN dirty'[p] /\ cartRow(v, j) \in DOMAIN dirty'[q])
    BY <1>1, <1>2, <1>4, <1>5, <2>1, RowNames DEF StoreOK, OneInserter
  <2> QED
    BY <1>4, <2>1 DEF StoreOK, OneInserter
<1>9. OneView'
  <2>1. \A q \in Proc \ {p} : \A v \in Owner : \A i \in CartNo[v] :
          Read(q, cartRow(v, i))' = Read(q, cartRow(v, i))
    BY <1>4 DEF Read
  <2>2. \A v \in Owner : \A i \in CartNo[v] :
          Read(p, cartRow(v, i))' = IF cartRow(v, i) = c THEN "active" ELSE Read(p, cartRow(v, i))
    BY <1>4, <1>5 DEF Read
  <2>3. ASSUME NEW v \in Owner, NEW i \in ActiveCart(p, v)', NEW j \in ActiveCart(p, v)'
        PROVE  i = j
    BY <1>1, <1>2, <2>2, ActiveCarts, ActiveCartsAfter, RowNames DEF StoreOK, OneView
  <2>4. ASSUME NEW q \in Proc \ {p}, NEW v \in Owner,
               NEW i \in ActiveCart(q, v)', NEW j \in ActiveCart(q, v)'
        PROVE  i = j
    BY <2>1, ActiveCarts, ActiveCartsAfter DEF StoreOK, OneView
  <2> QED
    BY <2>3, <2>4 DEF OneView
<1> QED
  BY <1>4, <1>6, <1>7, <1>8, <1>9 DEF StoreOK

(* A commit: it publishes what its session has written, its last statement *)
(* closes a cart, writes lines, or inserts a cart.                         *)
LEMMA CommitKeeps ==
  ASSUME StoreOK, NEW p \in Proc, NEW rows, Typed(rows), CommitWith(p, rows),
         \A c \in DOMAIN rows \cap CartRows : rows[c] = "active" =>
           /\ DOMAIN rows = {c}
           /\ \E w \in Owner : \E n \in CartNo[w] : c = cartRow(w, n) /\ Inserts(p, w, n),
         \A u \in User : \A n \in CartNo[u] : cartRow(u, n) \in DOMAIN rows =>
           rows[cartRow(u, n)] \in {"active", "converted"}
  PROVE  /\ StoreOK' /\ UserCartsMove /\ dirty'[p] = NoWrites
         /\ \A r \in Rows : db'[r] = IF r \in DOMAIN rows THEN rows[r] ELSE Read(p, r)
         /\ \A q \in Proc \ {p} : dirty'[q] = dirty[q]
<1>1. DOMAIN rows \subseteq Rows /\ \A r \in DOMAIN rows : rows[r] \in Values
  BY DEF Typed, Rows, Values
<1>2. /\ RowsOf(Rows, Values)' /\ LocksExclusive'
      /\ \A r \in Rows : db'[r] = IF r \in DOMAIN rows THEN rows[r] ELSE Read(p, r)
      /\ dirty'[p] = NoWrites
      /\ \A q \in Proc \ {p} : /\ dirty'[q] = dirty[q]
                               /\ \A r \in DOMAIN dirty[q] : db'[r] = db[r]
  BY <1>1, CommitEffect DEF StoreOK
<1>3. DOMAIN NoWrites = {} /\ DOMAIN db = Rows /\ DOMAIN db' = Rows
  BY <1>2 DEF NoWrites, RowsOf, StoreOK
<1>4. Typed(db)' /\ (\A q \in Proc : Typed(dirty[q]))'
  <2>1. \A r \in Rows : /\ r \in CartRows => Read(p, r) \in Status
                        /\ r \in LineRows => Read(p, r) \in Quantity
    BY <1>3 DEF StoreOK, Typed, Read
  <2>2. Typed(db')
    BY <1>2, <1>3, <2>1 DEF Typed
  <2>3. \A q \in Proc : Typed(dirty'[q])
    BY <1>2, <1>3 DEF StoreOK, Typed
  <2> QED
    BY <2>2, <2>3
<1>5. NewCarts'
  BY <1>2, <1>3 DEF StoreOK, NewCarts
<1>6. OneInserter'
  BY <1>2, <1>3 DEF StoreOK, OneInserter
<1>7. ASSUME NEW w \in Owner, NEW n \in CartNo[w], cartRow(w, n) \in DOMAIN rows,
             rows[cartRow(w, n)] = "active"
      PROVE  Inserts(p, w, n) /\ DOMAIN rows = {cartRow(w, n)}
  BY <1>7, RowNames
<1>8. \A w \in Owner : \A m, n \in CartNo[w] :
        db'[cartRow(w, m)] = "active" /\ db'[cartRow(w, n)] = "active" => m = n
  <2>1. ASSUME NEW w \in Owner, NEW m \in CartNo[w], NEW n \in CartNo[w],
               db'[cartRow(w, m)] = "active", db'[cartRow(w, n)] = "active", m # n
        PROVE  FALSE
    <3>1. cartRow(w, m) \in Rows /\ cartRow(w, n) \in Rows /\ cartRow(w, m) # cartRow(w, n)
      BY <2>1, RowNames DEF Rows
    <3>2. CASE cartRow(w, m) \in DOMAIN rows
      <4>1. Inserts(p, w, m) /\ DOMAIN rows = {cartRow(w, m)}
        BY <1>2, <1>7, <2>1, <3>1, <3>2
      <4>2. Read(p, cartRow(w, n)) = "active"
        BY <1>2, <2>1, <3>1, <4>1
      <4>3. Read(p, cartRow(w, n)) # "active"
        BY <2>1, <4>1, InsertSees
      <4> QED
        BY <4>2, <4>3
    <3>3. CASE cartRow(w, n) \in DOMAIN rows
      <4>1. Inserts(p, w, n) /\ DOMAIN rows = {cartRow(w, n)}
        BY <1>2, <1>7, <2>1, <3>1, <3>3
      <4>2. Read(p, cartRow(w, m)) = "active"
        BY <1>2, <2>1, <3>1, <4>1
      <4>3. Read(p, cartRow(w, m)) # "active"
        BY <2>1, <4>1, InsertSees
      <4> QED
        BY <4>2, <4>3
    <3>4. CASE cartRow(w, m) \notin DOMAIN rows /\ cartRow(w, n) \notin DOMAIN rows
      <4>1. Read(p, cartRow(w, m)) = "active" /\ Read(p, cartRow(w, n)) = "active"
        BY <1>2, <2>1, <3>1, <3>4
      <4> QED
        BY <2>1, <4>1, ActiveCarts DEF StoreOK, OneView
    <3> QED
      BY <3>2, <3>3, <3>4
  <2> QED
    BY <2>1
<1>9. OneView'
  <2>1. ASSUME NEW w \in Owner, NEW m \in ActiveCart(p, w)', NEW n \in ActiveCart(p, w)'
        PROVE  m = n
    BY <1>2, <1>3, <1>8, ActiveCartsAfter DEF Read
  <2>2. ASSUME NEW q \in Proc \ {p}, NEW w \in Owner, NEW n \in CartNo[w], NEW m \in CartNo[w],
               Read(q, cartRow(w, m))' = "active", Read(q, cartRow(w, n))' = "active", m # n
        PROVE  FALSE
    <3>1. cartRow(w, m) \in Rows /\ cartRow(w, n) \in Rows
      BY RowNames DEF Rows
    <3>2. ASSUME NEW i \in CartNo[w], NEW j \in CartNo[w], i # j,
                 cartRow(w, i) \in DOMAIN dirty[q], dirty[q][cartRow(w, i)] = "active",
                 cartRow(w, j) \notin DOMAIN dirty[q], db'[cartRow(w, j)] = "active"
          PROVE  FALSE
      <4>1. cartRow(w, i) \in Rows /\ cartRow(w, j) \in Rows
        BY RowNames DEF Rows
      <4>2. cartRow(w, j) \notin DOMAIN dirty[p]
        BY <3>2 DEF StoreOK, OneInserter
      <4>3. CASE cartRow(w, j) \in DOMAIN rows
        <5>1. Inserts(p, w, j)
          BY <1>2, <1>7, <3>2, <4>1, <4>3
        <5> QED
          BY <3>2, <5>1, InsertFacts
      <4>4. CASE cartRow(w, j) \notin DOMAIN rows
        <5>1. db[cartRow(w, j)] = "active"
          BY <1>2, <3>2, <4>1, <4>2, <4>4 DEF Read
        <5>2. Read(q, cartRow(w, i)) = "active" /\ Read(q, cartRow(w, j)) = "active"
          BY <3>2, <5>1 DEF Read
        <5> QED
          BY <3>2, <5>2, ActiveCarts DEF StoreOK, OneView
      <4> QED
        BY <4>3, <4>4
    <3>3. dirty'[q] = dirty[q]
      BY <1>2
    <3>4. CASE cartRow(w, m) \in DOMAIN dirty[q] /\ cartRow(w, n) \in DOMAIN dirty[q]
      BY <2>2, <3>3, <3>4, ActiveCarts DEF Read, StoreOK, OneView
    <3>5. CASE cartRow(w, m) \notin DOMAIN dirty[q] /\ cartRow(w, n) \notin DOMAIN dirty[q]
      BY <1>8, <2>2, <3>3, <3>5 DEF Read
    <3> QED
      BY <2>2, <3>2, <3>3, <3>4, <3>5 DEF Read
  <2> QED
    BY <2>1, <2>2, ActiveCartsAfter DEF OneView
<1>10. UserCartsMove
  <2>1. ASSUME NEW u \in User, NEW n \in CartNo[u]
        PROVE  LET c == cartRow(u, n) IN
               /\ db[c] = "active" => db'[c] \in {"active", "converted"}
               /\ db[c] = "converted" => db'[c] = "converted"
    <3> DEFINE c == cartRow(u, n)
    <3>1. c \in Rows /\ c \in CartRows /\ u \in Owner
      BY RowNames DEF Rows, Owner
    <3>2. CASE c \in DOMAIN rows
      <4>1. rows[c] \in {"active", "converted"} /\ db'[c] = rows[c]
        BY <1>2, <3>1, <3>2
      <4>2. rows[c] = "active" => db[c] = "none"
        BY <1>7, <3>1, <3>2, InsertFacts
      <4> QED
        BY <4>1, <4>2
    <3>3. CASE c \notin DOMAIN rows
      <4>1. db'[c] = Read(p, c)
        BY <1>2, <3>1, <3>3
      <4>2. c \in DOMAIN dirty[p] => db[c] = "none"
        BY <3>1 DEF StoreOK, NewCarts
      <4> QED
        BY <4>1, <4>2 DEF Read
    <3> QED
      BY <3>2, <3>3
  <2> QED
    BY <2>1 DEF UserCartsMove
<1> QED
  BY <1>2, <1>4, <1>5, <1>6, <1>9, <1>10 DEF StoreOK

(* A rollback.                                                             *)
LEMMA RollbackKeeps ==
  ASSUME StoreOK, NEW p \in Proc, Rollback(p)
  PROVE  /\ StoreOK' /\ db' = db /\ dirty'[p] = NoWrites
         /\ \A q \in Proc \ {p} : dirty'[q] = dirty[q]
<1>1. /\ RowsOf(Rows, Values)' /\ LocksExclusive' /\ db' = db /\ dirty'[p] = NoWrites
      /\ \A q \in Proc \ {p} : dirty'[q] = dirty[q]
  BY RollbackEffect DEF StoreOK
<1>2. DOMAIN NoWrites = {}
  BY DEF NoWrites
<1>3. Typed(db)' /\ (\A q \in Proc : Typed(dirty[q]))'
  BY <1>1, <1>2 DEF StoreOK, Typed
<1>4. NewCarts' /\ OneInserter'
  BY <1>1, <1>2 DEF StoreOK, NewCarts, OneInserter
<1>5. OneView'
  <2>1. ASSUME NEW w \in Owner, NEW m \in ActiveCart(p, w)', NEW n \in ActiveCart(p, w)'
        PROVE  m = n
    <3>1. /\ m \in CartNo[w] /\ n \in CartNo[w] /\ db[cartRow(w, m)] = "active"
          /\ db[cartRow(w, n)] = "active"
      BY <1>1, <1>2, ActiveCartsAfter DEF Read
    <3>2. cartRow(w, m) \notin DOMAIN dirty[p] /\ cartRow(w, n) \notin DOMAIN dirty[p]
      BY <3>1, RowNames DEF StoreOK, NewCarts
    <3>3. m \in ActiveCart(p, w) /\ n \in ActiveCart(p, w)
      BY <3>1, <3>2, ActiveCarts DEF Read
    <3> QED
      BY <3>3 DEF StoreOK, OneView
  <2>2. ASSUME NEW q \in Proc \ {p}, NEW w \in Owner
        PROVE  ActiveCart(q, w)' = ActiveCart(q, w)
    BY <1>1 DEF ActiveCart, GetActiveCartByUser, GetActiveCartByAnon, Read
  <2>3. \A q \in Proc \ {p} : \A w \in Owner : \A m, n \in ActiveCart(q, w)' : m = n
    BY <2>2 DEF StoreOK, OneView
  <2> QED
    BY <2>1, <2>3 DEF OneView
<1> QED
  BY <1>1, <1>3, <1>4, <1>5 DEF StoreOK

-------------------------------------------------------------------------------
ItemPcs  == {"find", "ensure", "write"}
MergePcs == {"anon", "user", "create", "list", "merge"}

(* What a request's frame may rely on.                                     *)
ItemOK(f) == f.pc \in ItemPcs =>
  /\ f.op \in {"add", "update", "remove", "clear"} /\ f.owner \in Owner
  /\ f.op # "clear" => f.variant \in Variant
  /\ f.op \in {"add", "update"} => f.qty \in Quantity
  /\ f.pc = "write" => f.cart \in CartNo[f.owner]

MergeOK(f) == f.pc \in MergePcs =>
  /\ f.owner \in User /\ f.anon \in Anon
  /\ f.pc # "anon" => f.from \in CartNo[f.anon]
  /\ f.pc \in {"list", "merge"} => f.cart \in CartNo[f.owner]

(* A line that is listed is still to do or in the user's cart.             *)
ListedOK(f, writes) == f.pc = "merge" =>
  /\ f.listed \in [Variant -> Quantity] /\ f.todo \in Seq(Variant)
  /\ \A v \in Variant : f.listed[v] > 0 =>
       \/ v \in ToSet(f.todo)
       \/ LET l == lineRow(f.owner, f.cart, v) IN l \in DOMAIN writes /\ writes[l] >= f.listed[v]

(* A merge tries again because of a cart there was, that a confirm may     *)
(* have converted; it inserts again only then.                             *)
RetryOK(f) == f.pc \in {"anon", "user", "create"} /\ f.tries = 1 =>
  \E n \in CartNo[f.owner] : \/ db[cartRow(f.owner, n)] = "converted"
                             \/ db[cartRow(f.owner, n)] = "active" /\ f.pc # "create"

Fields == {"pc", "op", "owner", "anon", "variant", "qty", "cart", "from", "listed", "todo", "tries"}

FrameOK(f, writes) ==
  /\ DOMAIN f = Fields /\ f.tries \in 0..1
  /\ f.pc \in {"idle"} \cup ItemPcs \cup MergePcs
  /\ f.pc \in MergePcs <=> f.op = "merge"
  /\ f.pc \notin {"list", "merge"} => writes = NoWrites
  /\ ItemOK(f) /\ MergeOK(f) /\ ListedOK(f, writes) /\ RetryOK(f)

FramesOK == /\ at = [p \in Handler |-> at[p]]
            /\ \A p \in Handler : FrameOK(at[p], dirty[p])
            /\ dirty[Shop] = NoWrites

OldOK == old \subseteq UNION {IndexRows(a) : a \in Anon}

IInv == StoreOK /\ FramesOK /\ OldOK

(* A request that is done.                                                 *)
LEMMA IdleOK ==
  FrameOK(Idle, NoWrites) /\ DOMAIN Idle = Fields
BY DEF Idle, FrameOK, Fields, ItemPcs, MergePcs, ItemOK, MergeOK, ListedOK, RetryOK

(* A step of p keeps the invariant when it keeps the store's and p's own.  *)
LEMMA StepOf ==
  ASSUME IInv, NEW p \in Handler, StoreOK', UserCartsMove, OldOK',
         \A q \in Handler \ {p} : at'[q] = at[q], at' = [q \in Handler |-> at'[q]],
         \A q \in Proc \ {p} : dirty'[q] = dirty[q],
         FrameOK(at[p], dirty[p])'
  PROVE  IInv'
<1>1. ASSUME NEW q \in Handler \ {p}
      PROVE  FrameOK(at[q], dirty[q])'
  <2>1. at'[q] = at[q] /\ dirty'[q] = dirty[q] /\ FrameOK(at[q], dirty[q])
    BY HandlerAssumption DEF IInv, FramesOK
  <2>2. RetryOK(at[q])'
    BY <2>1 DEF FrameOK, RetryOK, MergeOK, MergePcs, UserCartsMove
  <2> QED
    BY <2>1, <2>2 DEF FrameOK, ItemOK, MergeOK, ListedOK
<1>2. dirty'[Shop] = NoWrites
  BY HandlerAssumption DEF IInv, FramesOK
<1> QED
  BY <1>1, <1>2 DEF IInv, FramesOK

(* A step of no request.                                                   *)
LEMMA ShopStep ==
  ASSUME IInv, StoreOK', UserCartsMove, OldOK', at' = at,
         \A q \in Proc : dirty'[q] = dirty[q]
  PROVE  IInv'
<1>1. ASSUME NEW q \in Handler
      PROVE  FrameOK(at[q], dirty[q])'
  <2>1. at'[q] = at[q] /\ dirty'[q] = dirty[q] /\ FrameOK(at[q], dirty[q])
    BY HandlerAssumption DEF IInv, FramesOK
  <2>2. RetryOK(at[q])'
    BY <2>1 DEF FrameOK, RetryOK, MergeOK, MergePcs, UserCartsMove
  <2> QED
    BY <2>1, <2>2 DEF FrameOK, ItemOK, MergeOK, ListedOK
<1>2. dirty'[Shop] = NoWrites
  BY HandlerAssumption DEF IInv, FramesOK
<1> QED
  BY <1>1, <1>2 DEF IInv, FramesOK

(* A step that reads.                                                      *)
LEMMA ReadKeeps ==
  ASSUME StoreOK, UNCHANGED <<db, dirty>>
  PROVE  StoreOK' /\ UserCartsMove
<1>1. db' = db /\ dirty' = dirty
  OBVIOUS
<1> QED
  BY <1>1 DEF StoreOK, RowsOf, LocksExclusive, Typed, NewCarts, OneInserter, OneView, ActiveCart,
     GetActiveCartByUser, GetActiveCartByAnon, Read, UserCartsMove

(* A step that moves p's frame to f.                                       *)
LEMMA GotoEffect ==
  ASSUME FramesOK, OldOK, NEW p \in Handler, NEW f, Goto(p, f)
  PROVE  /\ at'[p] = f /\ \A q \in Handler \ {p} : at'[q] = at[q]
         /\ at' = [q \in Handler |-> at'[q]] /\ OldOK'
BY DEF FramesOK, Goto, OldOK, IndexRows, cartRow

(* A step of p that only reads, and what its frame has then.               *)
LEMMA ReadStep ==
  ASSUME IInv, NEW p \in Handler, NEW f, Goto(p, f), NoStatement, FrameOK(f, dirty[p])
  PROVE  IInv'
<1>1. /\ at'[p] = f /\ \A q \in Handler \ {p} : at'[q] = at[q]
      /\ at' = [q \in Handler |-> at'[q]] /\ OldOK'
  BY GotoEffect DEF IInv
<1>2. StoreOK' /\ UserCartsMove /\ db' = db /\ dirty' = dirty
  BY ReadKeeps DEF IInv, NoStatement
<1>3. FrameOK(at[p], dirty[p])'
  BY <1>1, <1>2 DEF FrameOK, ItemOK, MergeOK, ListedOK, RetryOK
<1> QED
  BY <1>1, <1>2, <1>3, StepOf

(* A step of p that ends its request and its transaction.                  *)
LEMMA EndStep ==
  ASSUME IInv, NEW p \in Handler, StoreOK', UserCartsMove, OldOK', dirty'[p] = NoWrites,
         \A q \in Proc \ {p} : dirty'[q] = dirty[q], at' = [at EXCEPT ![p] = Idle]
  PROVE  IInv'
<1>1. /\ at'[p] = Idle /\ \A q \in Handler \ {p} : at'[q] = at[q]
      /\ at' = [q \in Handler |-> at'[q]]
  BY DEF IInv, FramesOK
<1>2. FrameOK(at[p], dirty[p])'
  BY <1>1 DEF Idle, FrameOK, Fields, ItemPcs, MergePcs, ItemOK, MergeOK, ListedOK, RetryOK
<1> QED
  BY <1>1, <1>2, StepOf

-------------------------------------------------------------------------------
(* The statements that only read, and what follows from them.              *)

(* The fields of a request's first frame.                                  *)
LEMMA FirstFrame ==
  ASSUME NEW r \in Request
  PROVE  LET f == Frame(r) IN
         /\ DOMAIN f = Fields /\ f.op = r.op /\ f.owner = r.owner /\ f.tries = 0
         /\ "variant" \in DOMAIN r => f.variant = r.variant
         /\ "qty" \in DOMAIN r => f.qty = r.qty
         /\ "anon" \in DOMAIN r => f.anon = r.anon
<1>1. DOMAIN Idle = Fields /\ Idle.tries = 0
  BY DEF Idle, Fields
<1>2. /\ "op" \in DOMAIN r /\ "owner" \in DOMAIN r /\ "tries" \notin DOMAIN r
      /\ DOMAIN r \subseteq Fields
  BY RequestAssumption DEF Fields
<1>3. /\ DOMAIN Frame(r) = Fields
      /\ \A f \in Fields : Frame(r)[f] = IF f \in DOMAIN r THEN r[f] ELSE Idle[f]
  BY <1>1 DEF Frame
<1> QED
  BY <1>1, <1>2, <1>3 DEF Fields

(* A valid request arrives.                                                *)
LEMMA ReceiveKeeps ==
  ASSUME IInv, NEW p \in Handler, NEW r \in Request, Receive(p, r)
  PROVE  IInv'
<1> DEFINE pc == IF r.op = "merge" THEN "anon" ELSE "find"
           g  == [Frame(r) EXCEPT !.pc = pc]
<1>1. /\ Goto(p, g) /\ NoStatement /\ at[p].pc = "idle"
      /\ "qty" \in DOMAIN r => r.qty \in 1..MaxItemQuantity
  BY DEF Receive, ValidateQuantity
<1>2. g = [Frame(r) EXCEPT !.pc = pc]
  OBVIOUS
<1>3. \/ pc = "anon" /\ r.op = "merge"
      \/ pc = "find" /\ r.op # "merge"
  OBVIOUS
<1> HIDE DEF g, pc
<1>4. /\ DOMAIN g = Fields /\ g.pc = pc /\ g.op = r.op /\ g.owner = r.owner /\ g.tries = 0
      /\ "variant" \in DOMAIN r => g.variant = r.variant
      /\ "qty" \in DOMAIN r => g.qty = r.qty
      /\ "anon" \in DOMAIN r => g.anon = r.anon
  <2> DEFINE f == Frame(r)
  <2>1. /\ DOMAIN f = Fields /\ f.op = r.op /\ f.owner = r.owner /\ f.tries = 0
        /\ "variant" \in DOMAIN r => f.variant = r.variant
        /\ "qty" \in DOMAIN r => f.qty = r.qty
        /\ "anon" \in DOMAIN r => f.anon = r.anon
    BY FirstFrame
  <2>2. g = [f EXCEPT !.pc = pc]
    BY <1>2
  <2> HIDE DEF f
  <2> QED
    BY <2>1, <2>2 DEF Fields
<1>5. dirty[p] = NoWrites
  BY <1>1 DEF IInv, FramesOK, FrameOK
<1>6. CASE r.op = "merge"
  <2>1. r \in [op: {"merge"}, owner: User, anon: Anon]
    BY <1>6, RequestAssumption
  <2>2. r.owner \in User /\ r.anon \in Anon /\ "anon" \in DOMAIN r
    BY <2>1
  <2> QED
    <3>1. FrameOK(g, dirty[p])
      BY <1>3, <1>4, <1>5, <1>6, <2>2 DEF FrameOK, ItemPcs, MergePcs, ItemOK, MergeOK, ListedOK, RetryOK
    <3> QED
      BY <1>1, <3>1, ReadStep
<1>7. CASE r.op # "merge"
  <2>1. \/ r \in [op: {"add", "update"}, owner: Owner, variant: Variant, qty: Nat]
        \/ r \in [op: {"remove"}, owner: Owner, variant: Variant]
        \/ r \in [op: {"clear"}, owner: Owner]
    BY <1>7, RequestAssumption
  <2>2. /\ r.op \in {"add", "update", "remove", "clear"} /\ r.owner \in Owner
        /\ r.op # "clear" => r.variant \in Variant /\ "variant" \in DOMAIN r
        /\ r.op \in {"add", "update"} => "qty" \in DOMAIN r
    BY <2>1
  <2>3. g.op \in {"add", "update"} => g.qty \in Quantity
    BY <1>1, <1>4, <2>2, CartAssumption DEF Quantity
  <2>4. FrameOK(g, dirty[p])
    BY <1>3, <1>4, <1>5, <1>7, <2>2, <2>3 DEF FrameOK, ItemPcs, MergePcs, ItemOK, MergeOK, ListedOK, RetryOK
  <2> QED
    BY <1>1, <2>4, ReadStep
<1> QED
  BY <1>6, <1>7

(* A request that finds nothing to do.                                     *)
LEMMA DoneKeeps ==
  ASSUME IInv, NEW p \in Handler, Done(p), NoStatement, at[p].pc \notin {"list", "merge"}
  PROVE  IInv'
<1>1. dirty[p] = NoWrites
  BY DEF IInv, FramesOK, FrameOK
<1> QED
  BY <1>1, IdleOK, ReadStep DEF Done

(* The active cart is found, or is missing.                                *)
LEMMA FindActiveKeeps ==
  ASSUME IInv, NEW p \in Handler, FindActive(p)
  PROVE  IInv'
<1> DEFINE w == at[p].owner
<1>1. at[p].pc = "find" /\ NoStatement /\ FrameOK(at[p], dirty[p])
  BY DEF FindActive, IInv, FramesOK
<1>2. ASSUME NEW n \in ActiveCart(p, w), Goto(p, [at[p] EXCEPT !.cart = n, !.pc = "write"])
      PROVE  IInv'
  <2> DEFINE g == [at[p] EXCEPT !.cart = n, !.pc = "write"]
  <2>1. n \in CartNo[w]
    BY ActiveCarts
  <2>2. /\ DOMAIN g = Fields /\ g.pc = "write" /\ g.cart = n /\ g.op = at[p].op /\ g.tries = at[p].tries
        /\ g.owner = at[p].owner /\ g.variant = at[p].variant /\ g.qty = at[p].qty
    BY <1>1 DEF FrameOK, Fields
  <2>3. Goto(p, g)
    BY <1>2
  <2> HIDE DEF g
  <2>4. FrameOK(g, dirty[p])
    BY <1>1, <2>1, <2>2 DEF FrameOK, ItemPcs, MergePcs, ItemOK, MergeOK, ListedOK, RetryOK
  <2> QED
    BY <1>1, <2>3, <2>4, ReadStep
<1>3. CASE Goto(p, [at[p] EXCEPT !.pc = "ensure"])
  <2> DEFINE g == [at[p] EXCEPT !.pc = "ensure"]
  <2>2. /\ DOMAIN g = Fields /\ g.pc = "ensure" /\ g.op = at[p].op /\ g.tries = at[p].tries
        /\ g.owner = at[p].owner /\ g.variant = at[p].variant /\ g.qty = at[p].qty
    BY <1>1 DEF FrameOK, Fields
  <2>3. Goto(p, g)
    BY <1>3
  <2> HIDE DEF g
  <2>4. FrameOK(g, dirty[p])
    BY <1>1, <2>2 DEF FrameOK, ItemPcs, MergePcs, ItemOK, MergeOK, ListedOK, RetryOK
  <2> QED
    BY <1>1, <2>3, <2>4, ReadStep
<1>4. CASE Done(p)
  BY <1>1, <1>4, DoneKeeps
<1> QED
  BY <1>2, <1>3, <1>4 DEF FindActive

(* The visitor's cart is found.                                            *)
LEMMA MergeFindAnonKeeps ==
  ASSUME IInv, NEW p \in Handler, MergeFindAnon(p)
  PROVE  IInv'
<1>1. at[p].pc = "anon" /\ NoStatement /\ FrameOK(at[p], dirty[p])
  BY DEF MergeFindAnon, IInv, FramesOK
<1>2. ASSUME NEW n \in ActiveCart(p, at[p].anon), Goto(p, [at[p] EXCEPT !.from = n, !.pc = "user"])
      PROVE  IInv'
  <2> DEFINE g == [at[p] EXCEPT !.from = n, !.pc = "user"]
  <2>1. n \in CartNo[at[p].anon]
    BY ActiveCarts
  <2>2. /\ DOMAIN g = Fields /\ g.pc = "user" /\ g.from = n /\ g.op = at[p].op /\ g.tries = at[p].tries
        /\ g.owner = at[p].owner /\ g.anon = at[p].anon
    BY <1>1 DEF FrameOK, Fields
  <2>3. Goto(p, g)
    BY <1>2
  <2> HIDE DEF g
  <2>4. FrameOK(g, dirty[p])
    BY <1>1, <2>1, <2>2 DEF FrameOK, ItemPcs, MergePcs, ItemOK, MergeOK, ListedOK, RetryOK
  <2> QED
    BY <1>1, <2>3, <2>4, ReadStep
<1>3. CASE Done(p)
  BY <1>1, <1>3, DoneKeeps
<1> QED
  BY <1>2, <1>3 DEF MergeFindAnon

(* The user's cart is found, or is missing: the one that failed an earlier *)
(* insert is then converted.                                               *)
LEMMA MergeFindUserKeeps ==
  ASSUME IInv, NEW p \in Handler, MergeFindUser(p)
  PROVE  IInv'
<1> DEFINE u == at[p].owner
<1>1. at[p].pc = "user" /\ NoStatement /\ FrameOK(at[p], dirty[p])
  BY DEF MergeFindUser, IInv, FramesOK
<1>2. ASSUME NEW n \in ActiveCart(p, u), Goto(p, [at[p] EXCEPT !.cart = n, !.pc = "list"])
      PROVE  IInv'
  <2> DEFINE g == [at[p] EXCEPT !.cart = n, !.pc = "list"]
  <2>1. n \in CartNo[u]
    BY ActiveCarts
  <2>2. /\ DOMAIN g = Fields /\ g.pc = "list" /\ g.cart = n /\ g.op = at[p].op /\ g.tries = at[p].tries
        /\ g.owner = at[p].owner /\ g.anon = at[p].anon /\ g.from = at[p].from
    BY <1>1 DEF FrameOK, Fields
  <2>3. Goto(p, g)
    BY <1>2
  <2> HIDE DEF g
  <2>4. FrameOK(g, dirty[p])
    BY <1>1, <2>1, <2>2 DEF FrameOK, ItemPcs, MergePcs, ItemOK, MergeOK, ListedOK, RetryOK
  <2> QED
    BY <1>1, <2>3, <2>4, ReadStep
<1>3. CASE ActiveCart(p, u) = {} /\ Goto(p, [at[p] EXCEPT !.pc = "create"])
  <2> DEFINE g == [at[p] EXCEPT !.pc = "create"]
  <2>1. dirty[p] = NoWrites /\ DOMAIN NoWrites = {}
    BY <1>1 DEF FrameOK, NoWrites
  <2>2. \A n \in CartNo[u] : db[cartRow(u, n)] # "active"
    BY <1>3, <2>1, ActiveCarts DEF Read
  <2>3. /\ DOMAIN g = Fields /\ g.pc = "create" /\ g.op = at[p].op /\ g.tries = at[p].tries
        /\ g.owner = at[p].owner /\ g.anon = at[p].anon /\ g.from = at[p].from
    BY <1>1 DEF FrameOK, Fields
  <2>4. Goto(p, g)
    BY <1>3
  <2> HIDE DEF g
  <2>5. RetryOK(g)
    BY <1>1, <2>2, <2>3 DEF FrameOK, RetryOK
  <2>6. FrameOK(g, dirty[p])
    BY <1>1, <2>3, <2>5 DEF FrameOK, ItemPcs, MergePcs, ItemOK, MergeOK, ListedOK
  <2> QED
    BY <1>1, <2>4, <2>6, ReadStep
<1> QED
  BY <1>2, <1>3 DEF MergeFindUser

(* A listing in some order names every line.                               *)
LEMMA Orders ==
  ASSUME NEW S \in SUBSET Variant, NEW f \in SetToSeqs(S)
  PROVE  f \in Seq(Variant) /\ ToSet(f) = S
<1>1. IsFiniteSet(S) /\ Cardinality(S) \in Nat
  BY CartAssumption, FS_Subset, FS_CardinalityType
<1> DEFINE D == 1..Cardinality(S)
<1>2. f \in [D -> S] /\ \A i, j \in D : i # j => f[i] # f[j]
  BY DEF SetToSeqs
<1>3. f \in Injection(D, S)
  BY <1>2 DEF Injection, IsInjective
<1>4. IsFiniteSet(D) /\ Cardinality(D) = Cardinality(S)
  BY <1>1, FS_Interval
<1>5. f \in Surjection(D, S)
  BY <1>1, <1>3, <1>4, FS_Injection
<1>6. \A s \in S : \E i \in D : f[i] = s
  BY <1>5 DEF Surjection
<1>7. ToSet(f) = S
  BY <1>2, <1>6 DEF ToSet
<1>8. f \in Seq(Variant)
  BY <1>1, <1>2
<1> QED
  BY <1>7, <1>8

(* The visitor's lines are listed.                                         *)
LEMMA MergeListKeeps ==
  ASSUME IInv, NEW p \in Handler, MergeList(p)
  PROVE  IInv'
<1> DEFINE a == at[p].anon
           n == at[p].from
           listed == [v \in Variant |-> Read(p, lineRow(a, n, v))]
<1>1. at[p].pc = "list" /\ NoStatement /\ FrameOK(at[p], dirty[p])
  BY DEF MergeList, IInv, FramesOK
<1>2. PICK rows \in SetToSeqs(ListCartItems(p, a, n)) :
        Goto(p, [at[p] EXCEPT !.listed = listed, !.todo = rows, !.pc = "merge"])
  BY DEF MergeList
<1>3. rows \in Seq(Variant) /\ ToSet(rows) = ListCartItems(p, a, n)
  BY Orders DEF ListCartItems
<1>4. a \in Owner /\ n \in CartNo[a]
  BY <1>1 DEF FrameOK, MergeOK, MergePcs, Owner
<1>5. listed \in [Variant -> Quantity]
  <2>1. ASSUME NEW v \in Variant
        PROVE  Read(p, lineRow(a, n, v)) \in Quantity
    <3>1. lineRow(a, n, v) \in LineRows /\ lineRow(a, n, v) \in Rows
      BY <1>4, RowNames DEF Rows
    <3> QED
      BY <3>1, HandlerAssumption DEF IInv, StoreOK, Typed, Read, RowsOf
  <2> QED
    BY <2>1
<1>6. \A v \in Variant : listed[v] > 0 => v \in ToSet(rows)
  BY <1>3 DEF ListCartItems
<1> DEFINE g == [at[p] EXCEPT !.listed = listed, !.todo = rows, !.pc = "merge"]
<1>7. Goto(p, g)
  BY <1>2
<1> HIDE DEF listed
<1>8. /\ DOMAIN g = Fields /\ g.pc = "merge" /\ g.listed = listed /\ g.todo = rows
      /\ g.op = at[p].op /\ g.tries = at[p].tries /\ g.owner = at[p].owner
      /\ g.anon = at[p].anon /\ g.from = at[p].from /\ g.cart = at[p].cart
  BY <1>1 DEF FrameOK, Fields
<1> HIDE DEF g
<1>9. FrameOK(g, dirty[p])
  BY <1>1, <1>3, <1>5, <1>6, <1>8 DEF FrameOK, ItemPcs, MergePcs, ItemOK, MergeOK, ListedOK, RetryOK
<1> QED
  BY <1>1, <1>7, <1>9, ReadStep

-------------------------------------------------------------------------------
(* What a statement on lines writes.                                       *)

(* ON CONFLICT adds, up to the cap.                                        *)
LEMMA Upserted ==
  ASSUME StoreOK, NEW p \in Proc, NEW w \in Owner, NEW n \in CartNo[w], NEW v \in Variant,
         NEW q \in Quantity, NEW l, l = lineRow(w, n, v),
         NEW rows, rows = UpsertCartItem(p, w, n, v, q)
  PROVE  l \in LineRows /\ DOMAIN rows = {l} /\ Typed(rows) /\ rows[l] >= q
<1> DEFINE old_ == Read(p, l)
           new  == IF old_ + q > MaxItemQuantity THEN MaxItemQuantity ELSE old_ + q
<1>1. l \in LineRows /\ l \in Rows /\ l \notin CartRows
  BY RowNames DEF Rows
<1>2. old_ \in Quantity
  BY <1>1 DEF StoreOK, Typed, Read, RowsOf
<1>3. new \in Quantity /\ new >= q
  BY <1>2, CartAssumption DEF Quantity
<1>4. rows = Only(l, new)
  BY DEF UpsertCartItem
<1> HIDE DEF new
<1>5. DOMAIN rows = {l} /\ rows[l] = new
  BY <1>4, OnlyShape
<1>6. Typed(rows)
  BY <1>1, <1>3, <1>5 DEF Typed
<1> QED
  BY <1>1, <1>3, <1>5, <1>6

(* The item requests write lines of their cart.                            *)
LEMMA LinesShape ==
  ASSUME IInv, NEW p \in Handler, at[p].pc = "write"
  PROVE  Typed(LinesWritten(p)) /\ DOMAIN LinesWritten(p) \subseteq LineRows
<1> DEFINE w == at[p].owner
           n == at[p].cart
           v == at[p].variant
           rows == LinesWritten(p)
<1>1. /\ at[p].op \in {"add", "update", "remove", "clear"} /\ w \in Owner
      /\ at[p].op # "clear" => v \in Variant
      /\ at[p].op \in {"add", "update"} => at[p].qty \in Quantity
      /\ n \in CartNo[w] /\ p \in Proc /\ StoreOK
  BY HandlerAssumption DEF IInv, FramesOK, FrameOK, ItemOK, ItemPcs
<1>2. ASSUME NEW q \in Quantity, v \in Variant, rows \in {Only(lineRow(w, n, v), q), NoWrites}
      PROVE  Typed(rows) /\ DOMAIN rows \subseteq LineRows
  <2>1. lineRow(w, n, v) \in LineRows /\ lineRow(w, n, v) \in Rows /\ lineRow(w, n, v) \notin CartRows
    BY <1>1, <1>2, RowNames DEF Rows
  <2>2. DOMAIN NoWrites = {}
    BY DEF NoWrites
  <2>3. \/ DOMAIN rows = {}
        \/ DOMAIN rows = {lineRow(w, n, v)} /\ rows[lineRow(w, n, v)] = q
    BY <1>2, <2>2, OnlyShape
  <2> HIDE DEF rows
  <2> QED
    BY <2>1, <2>3 DEF Typed
<1>3. CASE at[p].op = "add"
  <2>1. rows = UpsertCartItem(p, w, n, v, at[p].qty) /\ v \in Variant /\ at[p].qty \in Quantity
    BY <1>1, <1>3 DEF LinesWritten
  <2> DEFINE l == lineRow(w, n, v)
  <2>2. l = lineRow(w, n, v)
    OBVIOUS
  <2> DEFINE q == at[p].qty
  <2>3. w \in Owner /\ n \in CartNo[w] /\ v \in Variant /\ q \in Quantity /\ p \in Proc /\ StoreOK
    BY <1>1, <1>3, <2>1
  <2>4. rows = UpsertCartItem(p, w, n, v, q)
    BY <2>1
  <2> HIDE DEF w, n, v, l, q, rows
  <2>5. l \in LineRows /\ DOMAIN rows = {l} /\ Typed(rows) /\ rows[l] >= q
    BY <2>2, <2>3, <2>4, Upserted
  <2>6. Typed(rows) /\ DOMAIN rows \subseteq LineRows
    BY <2>5
  <2> QED
    BY <2>6 DEF rows
<1>4. CASE at[p].op = "update"
  <2>1. rows = UpdateCartItemQuantity(p, w, n, v, at[p].qty)
    BY <1>4 DEF LinesWritten
  <2> QED
    BY <1>1, <1>2, <1>4, <2>1 DEF UpdateCartItemQuantity
<1>5. CASE at[p].op = "remove"
  <2>1. rows = DeleteCartItem(p, w, n, v)
    BY <1>5 DEF LinesWritten
  <2>2. 0 \in Quantity
    BY CartAssumption DEF Quantity
  <2> QED
    BY <1>1, <1>2, <1>5, <2>1, <2>2 DEF DeleteCartItem
<1>6. CASE at[p].op = "clear"
  <2>1. rows = DeleteCartItemsByCart(p, w, n)
    BY <1>6 DEF LinesWritten
  <2>2. 0 \in Quantity
    BY CartAssumption DEF Quantity
  <2>3. /\ DOMAIN rows = {lineRow(w, n, i) : i \in ListCartItems(p, w, n)}
        /\ \A r \in DOMAIN rows : rows[r] = 0
    BY <2>1 DEF DeleteCartItemsByCart
  <2> HIDE DEF rows
  <2>4. DOMAIN rows \subseteq LineRows
    BY <1>1, <2>3, RowNames DEF ListCartItems
  <2>5. Typed(rows)
    BY <2>2, <2>3, <2>4, RowNames DEF Typed, Rows
  <2> QED
    BY <2>4, <2>5 DEF rows
<1> QED
  BY <1>1, <1>3, <1>4, <1>5, <1>6

-------------------------------------------------------------------------------
(* The statements of an item request: the cart it creates...               *)
LEMMA EnsureActiveKeeps ==
  ASSUME IInv, NEW p \in Handler, EnsureActive(p)
  PROVE  IInv'
<1> DEFINE w == at[p].owner
<1>1. /\ at[p].pc = "ensure" /\ Settled(p, w) /\ FrameOK(at[p], dirty[p]) /\ p \in Proc
      /\ StoreOK
  BY HandlerAssumption DEF EnsureActive, IInv, FramesOK
<1>2. CASE NoStatement /\ Done(p)
  BY <1>1, <1>2, DoneKeeps
<1>3. ASSUME ~Violates(p, w), NEW n \in FreshCart(p, w),
             CommitWith(p, Only(cartRow(w, n), "active")),
             Goto(p, [at[p] EXCEPT !.cart = n, !.pc = "write"])
      PROVE  IInv'
  <2> DEFINE c    == cartRow(w, n)
             rows == Only(c, "active")
             g    == [at[p] EXCEPT !.cart = n, !.pc = "write"]
  <2>1. w \in Owner
    BY <1>1 DEF FrameOK, ItemOK, ItemPcs
  <2>2. Inserts(p, w, n)
    BY <1>1, <1>3, <2>1 DEF Inserts
  <2>3. n \in CartNo[w] /\ Typed(rows) /\ DOMAIN rows = {c} /\ rows[c] = "active"
    BY <1>1, <2>2, InsertFacts
  <2>4. CommitWith(p, rows) /\ c = cartRow(w, n) /\ Goto(p, g)
    BY <1>3
  <2>5. /\ DOMAIN g = Fields /\ g.pc = "write" /\ g.cart = n /\ g.op = at[p].op /\ g.tries = at[p].tries
        /\ g.owner = at[p].owner /\ g.variant = at[p].variant /\ g.qty = at[p].qty
    BY <1>1 DEF FrameOK, Fields
  <2> HIDE DEF rows, c, g
  <2>6. /\ StoreOK' /\ UserCartsMove /\ dirty'[p] = NoWrites
        /\ \A q \in Proc \ {p} : dirty'[q] = dirty[q]
    BY <1>1, <2>1, <2>2, <2>3, <2>4, CommitKeeps
  <2>7. /\ at'[p] = g /\ \A q \in Handler \ {p} : at'[q] = at[q]
        /\ at' = [q \in Handler |-> at'[q]] /\ OldOK'
    BY <2>4, GotoEffect DEF IInv
  <2>8. FrameOK(at[p], dirty[p])'
    BY <1>1, <2>3, <2>5, <2>6, <2>7 DEF FrameOK, ItemPcs, MergePcs, ItemOK, MergeOK, ListedOK, RetryOK
  <2> QED
    BY <2>6, <2>7, <2>8, StepOf
<1> QED
  BY <1>2, <1>3 DEF EnsureActive, CreateUserCart, CreateAnonCart

(* ... and the lines it writes.                                            *)
LEMMA WriteLinesKeeps ==
  ASSUME IInv, NEW p \in Handler, WriteLines(p)
  PROVE  IInv'
<1> DEFINE rows == LinesWritten(p)
<1>1. /\ at[p].pc = "write" /\ CommitWith(p, rows) /\ Done(p) /\ p \in Proc
  BY HandlerAssumption DEF WriteLines
<1>2. Typed(rows) /\ DOMAIN rows \subseteq LineRows
  BY <1>1, LinesShape
<1> HIDE DEF rows
<1>3. DOMAIN rows \cap CartRows = {} /\ \A u \in User : \A n \in CartNo[u] : cartRow(u, n) \notin DOMAIN rows
  BY <1>2, RowNames DEF Owner
<1>4. /\ StoreOK' /\ UserCartsMove /\ dirty'[p] = NoWrites
      /\ \A q \in Proc \ {p} : dirty'[q] = dirty[q]
  BY <1>1, <1>2, <1>3, CommitKeeps DEF IInv
<1>5. OldOK' /\ at' = [at EXCEPT ![p] = Idle]
  BY <1>1, GotoEffect DEF Done, Goto, IInv
<1> QED
  BY <1>4, <1>5, EndStep

-------------------------------------------------------------------------------
(* The statements of a merge.                                              *)

(* A failed insert is due to an active cart, and a second attempt reads    *)
(* again.                                                                  *)
LEMMA RetryKeeps ==
  ASSUME IInv, NEW p \in Handler, at[p].pc = "create", Violates(p, at[p].owner), Retry(p)
  PROVE  IInv'
<1> DEFINE u == at[p].owner
<1>1. FrameOK(at[p], dirty[p]) /\ StoreOK /\ p \in Proc /\ dirty[p] = NoWrites /\ DOMAIN NoWrites = {}
  BY HandlerAssumption DEF IInv, FramesOK, FrameOK, NoWrites
<1>2. /\ StoreOK' /\ db' = db /\ dirty'[p] = NoWrites
      /\ \A q \in Proc \ {p} : dirty'[q] = dirty[q]
  BY <1>1, RollbackKeeps DEF Retry
<1>3. UserCartsMove
  BY <1>2 DEF UserCartsMove
<1>4. CASE Done(p)
  BY <1>2, <1>3, <1>4, EndStep, GotoEffect DEF Done, Goto, IInv
<1>5. CASE ~Done(p)
  <2> DEFINE tries == at[p].tries + 1
             g     == [at[p] EXCEPT !.pc = "anon", !.tries = tries]
  <2>1. Goto(p, g) /\ tries < MaxAttempts
    BY <1>1, <1>5 DEF Retry, FrameOK, Fields
  <2>2. tries = 1
    BY <1>1, <2>1 DEF FrameOK, MaxAttempts
  <2> HIDE DEF tries
  <2>3. /\ DOMAIN g = Fields /\ g.pc = "anon" /\ g.op = at[p].op /\ g.tries = tries
        /\ g.owner = at[p].owner /\ g.anon = at[p].anon
    BY <1>1 DEF FrameOK, Fields
  <2>4. PICK n \in CartNo[u] : db[cartRow(u, n)] = "active"
    BY <1>1, ActiveCarts DEF Violates, Read
  <2> HIDE DEF g
  <2>5. /\ at'[p] = g /\ \A q \in Handler \ {p} : at'[q] = at[q]
        /\ at' = [q \in Handler |-> at'[q]] /\ OldOK'
    BY <2>1, GotoEffect DEF IInv
  <2>6. RetryOK(at[p])'
    BY <1>2, <2>3, <2>4, <2>5 DEF RetryOK
  <2>7. FrameOK(at[p], dirty[p])'
    BY <1>1, <1>2, <2>2, <2>3, <2>5, <2>6 DEF FrameOK, ItemPcs, MergePcs, ItemOK, MergeOK, ListedOK
  <2> QED
    BY <1>2, <1>3, <2>5, <2>7, StepOf
<1> QED
  BY <1>4, <1>5

(* The user's cart is created.                                             *)
LEMMA MergeCreateKeeps ==
  ASSUME IInv, NEW p \in Handler, MergeCreate(p)
  PROVE  IInv'
<1> DEFINE u == at[p].owner
<1>1. /\ at[p].pc = "create" /\ Settled(p, u) /\ FrameOK(at[p], dirty[p]) /\ p \in Proc
      /\ StoreOK
  BY HandlerAssumption DEF MergeCreate, IInv, FramesOK
<1>2. CASE Violates(p, u) /\ Retry(p)
  BY <1>1, <1>2, RetryKeeps
<1>3. ASSUME ~Violates(p, u), NEW n \in FreshCart(p, u),
             Write(p, Only(cartRow(u, n), "active")),
             Goto(p, [at[p] EXCEPT !.cart = n, !.pc = "list"])
      PROVE  IInv'
  <2> DEFINE g == [at[p] EXCEPT !.cart = n, !.pc = "list"]
  <2>1. u \in Owner
    BY <1>1 DEF FrameOK, MergeOK, MergePcs, Owner
  <2>2. Inserts(p, u, n)
    BY <1>1, <1>3, <2>1 DEF Inserts
  <2>3. n \in CartNo[u]
    BY <2>2 DEF Inserts, FreshCart
  <2>4. Goto(p, g)
    BY <1>3
  <2>5. /\ DOMAIN g = Fields /\ g.pc = "list" /\ g.cart = n /\ g.op = at[p].op /\ g.tries = at[p].tries
        /\ g.owner = at[p].owner /\ g.anon = at[p].anon /\ g.from = at[p].from
    BY <1>1 DEF FrameOK, Fields
  <2> HIDE DEF g
  <2>6. StoreOK' /\ db' = db /\ \A q \in Proc \ {p} : dirty'[q] = dirty[q]
    BY <1>1, <1>3, <2>2, InsertKeeps
  <2>7. UserCartsMove
    BY <2>6 DEF UserCartsMove
  <2>8. /\ at'[p] = g /\ \A q \in Handler \ {p} : at'[q] = at[q]
        /\ at' = [q \in Handler |-> at'[q]] /\ OldOK'
    BY <2>4, GotoEffect DEF IInv
  <2>9. FrameOK(at[p], dirty[p])'
    BY <1>1, <2>3, <2>5, <2>8 DEF FrameOK, ItemPcs, MergePcs, ItemOK, MergeOK, ListedOK, RetryOK
  <2> QED
    BY <2>6, <2>7, <2>8, <2>9, StepOf
<1> QED
  BY <1>2, <1>3 DEF MergeCreate, CreateUserCart

(* The first of the lines to do.                                           *)
LEMMA FirstOf ==
  ASSUME NEW S, NEW s \in Seq(S), s # <<>>
  PROVE  /\ Head(s) \in S /\ Tail(s) \in Seq(S)
         /\ \A v \in ToSet(s) : v = Head(s) \/ v \in ToSet(Tail(s))
<1>1. Head(s) \in S /\ Tail(s) \in Seq(S) /\ Len(s) \in Nat /\ DOMAIN s = 1..Len(s) /\ Head(s) = s[1]
  OBVIOUS
<1>2. /\ Len(Tail(s)) = Len(s) - 1 /\ DOMAIN Tail(s) = 1..(Len(s) - 1)
      /\ \A i \in 1..(Len(s) - 1) : Tail(s)[i] = s[i + 1]
  OBVIOUS
<1>3. ASSUME NEW i \in DOMAIN s, i # 1
      PROVE  s[i] \in ToSet(Tail(s))
  <2>1. i - 1 \in DOMAIN Tail(s) /\ Tail(s)[i - 1] = s[i]
    BY <1>1, <1>2, <1>3
  <2> QED
    BY <2>1 DEF ToSet
<1>4. \A v \in ToSet(s) : \E i \in DOMAIN s : v = s[i]
  BY DEF ToSet
<1> QED
  BY <1>1, <1>3, <1>4

(* A listed line is added to the user's cart.                              *)
LEMMA MergeLineKeeps ==
  ASSUME IInv, NEW p \in Handler, MergeLine(p)
  PROVE  IInv'
<1> DEFINE w    == at[p].owner
           n    == at[p].cart
           v    == Head(at[p].todo)
           q    == at[p].listed[v]
           rest == Tail(at[p].todo)
           l    == lineRow(w, n, v)
           rows == UpsertCartItem(p, w, n, v, q)
           g    == [at[p] EXCEPT !.todo = rest]
<1>1. /\ at[p].pc = "merge" /\ at[p].todo # <<>> /\ Write(p, rows) /\ FrameOK(at[p], dirty[p])
      /\ p \in Proc /\ StoreOK
  BY HandlerAssumption DEF MergeLine, IInv, FramesOK
<1>2. w \in Owner /\ n \in CartNo[w] /\ at[p].listed \in [Variant -> Quantity] /\ at[p].todo \in Seq(Variant)
  BY <1>1 DEF FrameOK, MergeOK, MergePcs, ListedOK, Owner
<1>3. v \in Variant /\ rest \in Seq(Variant) /\ \A i \in ToSet(at[p].todo) : i = v \/ i \in ToSet(rest)
  BY <1>1, <1>2, FirstOf
<1>4. q \in Quantity /\ l = lineRow(w, n, v) /\ rows = UpsertCartItem(p, w, n, v, q)
  BY <1>2, <1>3
<1>5. Goto(p, g)
  BY <1>1 DEF MergeLine, FrameOK, Fields
<1>6. /\ DOMAIN g = Fields /\ g.pc = "merge" /\ g.todo = rest /\ g.op = at[p].op /\ g.tries = at[p].tries
      /\ g.owner = w /\ g.anon = at[p].anon /\ g.from = at[p].from /\ g.cart = n
      /\ g.listed = at[p].listed
  BY <1>1 DEF FrameOK, Fields
<1> HIDE DEF g
<1>7. l \in LineRows /\ DOMAIN rows = {l} /\ Typed(rows) /\ rows[l] >= q
  <2>1. w \in Owner /\ n \in CartNo[w] /\ v \in Variant /\ p \in Proc /\ StoreOK
    BY <1>1, <1>2, <1>3
  <2> HIDE DEF w, n, v, q, l, rows
  <2> QED
    BY <1>4, <2>1, Upserted
<1> HIDE DEF rows
<1>8. /\ StoreOK' /\ db' = db
      /\ DOMAIN dirty'[p] = {l} \cup DOMAIN dirty[p]
      /\ \A r \in DOMAIN dirty'[p] : dirty'[p][r] = IF r = l THEN rows[l] ELSE dirty[p][r]
      /\ \A s \in Proc \ {p} : dirty'[s] = dirty[s]
  <2>1. DOMAIN rows \subseteq LineRows
    BY <1>7
  <2>2. /\ StoreOK' /\ db' = db
        /\ DOMAIN dirty'[p] = DOMAIN rows \cup DOMAIN dirty[p]
        /\ \A r \in DOMAIN dirty'[p] :
             dirty'[p][r] = IF r \in DOMAIN rows THEN rows[r] ELSE dirty[p][r]
        /\ \A s \in Proc \ {p} : dirty'[s] = dirty[s]
    BY <1>1, <1>7, <2>1, LineWriteKeeps
  <2> QED
    BY <1>7, <2>2
<1>9. UserCartsMove
  BY <1>8 DEF UserCartsMove
<1>10. /\ at'[p] = g /\ \A s \in Handler \ {p} : at'[s] = at[s]
       /\ at' = [s \in Handler |-> at'[s]] /\ OldOK'
  BY <1>5, GotoEffect DEF IInv
<1>11. ASSUME NEW i \in Variant, at[p].listed[i] > 0, i \notin ToSet(rest)
       PROVE  LET m == lineRow(w, n, i) IN m \in DOMAIN dirty'[p] /\ dirty'[p][m] >= at[p].listed[i]
  <2>1. CASE i = v
    BY <1>7, <1>8, <2>1
  <2>2. CASE i # v
    <3>1. i \notin ToSet(at[p].todo) /\ lineRow(w, n, i) # l
      BY <1>3, <1>11, <2>2 DEF lineRow
    <3>2. lineRow(w, n, i) \in DOMAIN dirty[p] /\ dirty[p][lineRow(w, n, i)] >= at[p].listed[i]
      BY <1>1, <1>11, <3>1 DEF FrameOK, ListedOK
    <3> QED
      BY <1>8, <3>1, <3>2
  <2> QED
    BY <2>1, <2>2
<1>12. ListedOK(at[p], dirty[p])'
  BY <1>2, <1>3, <1>6, <1>10, <1>11 DEF ListedOK
<1>13. FrameOK(at[p], dirty[p])'
  BY <1>1, <1>6, <1>10, <1>12 DEF FrameOK, ItemPcs, MergePcs, ItemOK, MergeOK, RetryOK
<1> QED
  BY <1>8, <1>9, <1>10, <1>13, StepOf

(* The merge commits: what it has written, and the visitor's cart closed.  *)
LEMMA MergeMarkKeeps ==
  ASSUME IInv, NEW p \in Handler, MergeMark(p)
  PROVE  /\ IInv'
         /\ db'[cartRow(at[p].anon, at[p].from)] = "merged"
         /\ \A v \in Variant : db'[lineRow(at[p].owner, at[p].cart, v)] >= at[p].listed[v]
<1> DEFINE a    == at[p].anon
           n    == at[p].from
           c    == cartRow(a, n)
           rows == Only(c, "merged")
<1>1. /\ at[p].pc = "merge" /\ at[p].todo = <<>> /\ FrameOK(at[p], dirty[p]) /\ p \in Proc /\ StoreOK
      /\ CommitWith(p, rows) /\ old' = old \ {c} /\ at' = [at EXCEPT ![p] = Idle]
  BY HandlerAssumption DEF MergeMark, Close, SetCartStatus, IInv, FramesOK
<1>2. /\ a \in Anon /\ a \in Owner /\ n \in CartNo[a] /\ at[p].owner \in Owner
      /\ at[p].cart \in CartNo[at[p].owner] /\ at[p].listed \in [Variant -> Quantity]
  BY <1>1 DEF FrameOK, MergeOK, MergePcs, ListedOK, Owner
<1>3. c \in CartRows /\ c \in Rows /\ c \notin LineRows
  BY <1>2, RowNames DEF Rows
<1>4. \A u \in User : \A m \in CartNo[u] : cartRow(u, m) # c
  BY <1>2, RowNames, HandlerAssumption
<1> HIDE DEF c
<1>5. DOMAIN rows = {c} /\ rows[c] = "merged"
  BY OnlyShape
<1> HIDE DEF rows
<1>6. Typed(rows)
  BY <1>3, <1>5 DEF Typed, Status
<1>7. /\ StoreOK' /\ UserCartsMove /\ dirty'[p] = NoWrites
      /\ \A r \in Rows : db'[r] = IF r \in DOMAIN rows THEN rows[r] ELSE Read(p, r)
      /\ \A q \in Proc \ {p} : dirty'[q] = dirty[q]
  BY <1>1, <1>4, <1>5, <1>6, CommitKeeps
<1>8. OldOK'
  BY <1>1 DEF IInv, OldOK, IndexRows, cartRow
<1>9. IInv'
  BY <1>1, <1>7, <1>8, EndStep
<1>10. db'[c] = "merged"
  BY <1>3, <1>5, <1>7
<1>11. ASSUME NEW v \in Variant
       PROVE  db'[lineRow(at[p].owner, at[p].cart, v)] >= at[p].listed[v]
  <2> DEFINE l == lineRow(at[p].owner, at[p].cart, v)
  <2>1. l \in LineRows /\ l \in Rows /\ l # c
    BY <1>2, <1>3, RowNames DEF Rows
  <2>2. db'[l] = Read(p, l) /\ Read(p, l) \in Quantity
    BY <1>1, <1>5, <1>7, <2>1 DEF StoreOK, Typed, Read, RowsOf
  <2>3. at[p].listed[v] \in Quantity
    BY <1>2
  <2>4. CASE at[p].listed[v] = 0
    BY <2>2, <2>4 DEF Quantity
  <2>5. CASE at[p].listed[v] > 0
    <3>1. v \notin ToSet(at[p].todo)
      BY <1>1 DEF ToSet
    <3>2. l \in DOMAIN dirty[p] /\ dirty[p][l] >= at[p].listed[v]
      BY <1>1, <2>5, <3>1 DEF FrameOK, ListedOK
    <3> QED
      BY <2>2, <3>2 DEF Read
  <2> QED
    BY <2>3, <2>4, <2>5 DEF Quantity
<1> QED
  BY <1>9, <1>10, <1>11 DEF c

(* A merge or a request is cut off.                                        *)
LEMMA AbortKeeps ==
  ASSUME IInv, NEW p \in Handler, Rollback(p), Done(p)
  PROVE  IInv' /\ db' = db
<1>1. /\ StoreOK' /\ db' = db /\ dirty'[p] = NoWrites
      /\ \A q \in Proc \ {p} : dirty'[q] = dirty[q]
  BY HandlerAssumption, RollbackKeeps DEF IInv
<1>2. UserCartsMove
  BY <1>1 DEF UserCartsMove
<1>3. OldOK' /\ at' = [at EXCEPT ![p] = Idle]
  BY GotoEffect DEF Done, Goto, IInv
<1> QED
  BY <1>1, <1>2, <1>3, EndStep

-------------------------------------------------------------------------------
(* The steps of no request.                                                *)

(* The sweep closes anonymous carts.                                       *)
LEMMA SweepKeeps ==
  ASSUME IInv, Sweep
  PROVE  IInv'
<1> DEFINE rows == DeleteAbandonedCarts
<1>1. /\ StoreOK /\ OldOK /\ Shop \in Proc /\ dirty[Shop] = NoWrites
      /\ CommitWith(Shop, rows) /\ old' = old \ DOMAIN rows /\ at' = at
  BY HandlerAssumption DEF IInv, FramesOK, Sweep
<1>2. DOMAIN rows \subseteq old /\ \A c \in DOMAIN rows : rows[c] = "abandoned"
  BY DEF DeleteAbandonedCarts
<1> HIDE DEF rows
<1>3. \A c \in old : \E a \in Anon : \E n \in CartNo[a] : c = cartRow(a, n)
  BY <1>1 DEF OldOK, IndexRows
<1>4. \A c \in DOMAIN rows : c \in CartRows
  BY <1>2, <1>3, RowNames DEF Owner
<1>5. \A u \in User : \A n \in CartNo[u] : cartRow(u, n) \notin DOMAIN rows
  BY <1>2, <1>3, RowNames, HandlerAssumption
<1>6. Typed(rows)
  BY <1>2, <1>4, RowNames DEF Typed, Rows, Status
<1>7. \A c \in DOMAIN rows : rows[c] # "active"
  BY <1>2
<1>8. /\ StoreOK' /\ UserCartsMove /\ dirty'[Shop] = NoWrites
      /\ \A q \in Proc \ {Shop} : dirty'[q] = dirty[q]
  BY <1>1, <1>5, <1>6, <1>7, CommitKeeps
<1>9. OldOK'
  BY <1>1 DEF OldOK, IndexRows, cartRow
<1>10. \A q \in Proc : dirty'[q] = dirty[q]
  BY <1>1, <1>8
<1> QED
  BY <1>1, <1>8, <1>9, <1>10, ShopStep

(* A cart grows old.                                                       *)
LEMMA AgeKeeps ==
  ASSUME IInv, NEW a \in Anon, NEW n \in CartNo[a], Age(a, n)
  PROVE  IInv'
<1>1. UNCHANGED <<db, dirty>> /\ at' = at /\ old' = old \cup {cartRow(a, n)}
  BY DEF Age
<1>2. OldOK'
  BY <1>1 DEF IInv, OldOK, IndexRows, cartRow
<1>3. StoreOK' /\ UserCartsMove
  BY <1>1, ReadKeeps DEF IInv
<1> QED
  BY <1>1, <1>2, <1>3, ShopStep

(* A confirm converts a user's cart.                                       *)
LEMMA ConvertCartKeeps ==
  ASSUME IInv, NEW u \in User, ConvertCart(u)
  PROVE  IInv'
<1>1. PICK n \in ActiveCart(Shop, u) : Close(Shop, u, n, "converted")
  BY DEF ConvertCart
<1> DEFINE c    == cartRow(u, n)
           rows == Only(c, "converted")
<1>2. /\ StoreOK /\ OldOK /\ Shop \in Proc /\ dirty[Shop] = NoWrites
      /\ CommitWith(Shop, rows) /\ old' = old \ {c} /\ at' = at
  BY <1>1, HandlerAssumption DEF IInv, FramesOK, ConvertCart, Close, SetCartStatus
<1>3. c \in CartRows
  BY ActiveCarts, RowNames DEF Owner
<1> HIDE DEF c
<1>4. DOMAIN rows = {c} /\ rows[c] = "converted"
  BY OnlyShape
<1> HIDE DEF rows
<1>5. Typed(rows)
  BY <1>3, <1>4, RowNames DEF Typed, Rows, Status
<1>6. /\ StoreOK' /\ UserCartsMove /\ dirty'[Shop] = NoWrites
      /\ \A q \in Proc \ {Shop} : dirty'[q] = dirty[q]
  BY <1>2, <1>4, <1>5, CommitKeeps
<1>7. OldOK'
  BY <1>2 DEF OldOK, IndexRows, cartRow
<1>8. \A q \in Proc : dirty'[q] = dirty[q]
  BY <1>2, <1>6
<1> QED
  BY <1>2, <1>6, <1>7, <1>8, ShopStep

-------------------------------------------------------------------------------
(* There are no carts at first.                                            *)
LEMMA InitIInv ==
  ASSUME Init
  PROVE  IInv
<1>1. /\ DOMAIN NoWrites = {} /\ DOMAIN db = Rows
      /\ \A c \in CartRows : db[c] = "none"
      /\ \A l \in LineRows : db[l] = 0
      /\ dirty = [p \in Proc |-> NoWrites] /\ at = [p \in Handler |-> Idle] /\ old = {}
  BY RowNames DEF Init, Rows, NoWrites
<1>2. Typed(db) /\ \A p \in Proc : Typed(dirty[p])
  BY <1>1, CartAssumption DEF Typed, Status, Quantity
<1>3. RowsOf(Rows, Values)
  BY <1>1, <1>2 DEF RowsOf, Typed, Rows, Values, Init
<1>4. LocksExclusive /\ NewCarts /\ OneInserter
  BY <1>1 DEF LocksExclusive, NewCarts, OneInserter
<1>5. OneView
  BY <1>1, ActiveCarts, RowNames DEF OneView, Read
<1>6. FramesOK
  BY <1>1, IdleOK, HandlerAssumption DEF FramesOK
<1> QED
  BY <1>1, <1>2, <1>3, <1>4, <1>5, <1>6 DEF IInv, StoreOK, OldOK

(* Every step keeps the invariant.                                         *)
LEMMA StepKeeps ==
  ASSUME IInv, [Next]_vars
  PROVE  IInv'
<1>1. ASSUME NEW p \in Handler, NEW r \in Request, Receive(p, r)
      PROVE  IInv'
  BY <1>1, ReceiveKeeps
<1>2. ASSUME NEW p \in Handler, ItemStep(p)
      PROVE  IInv'
  BY <1>2, FindActiveKeeps, EnsureActiveKeeps, WriteLinesKeeps DEF ItemStep
<1>3. ASSUME NEW p \in Handler, MergeStep(p)
      PROVE  IInv'
  BY <1>3, MergeFindAnonKeeps, MergeFindUserKeeps, MergeCreateKeeps, MergeListKeeps,
     MergeLineKeeps, MergeMarkKeeps DEF MergeStep
<1>4. ASSUME NEW p \in Handler, Abort(p)
      PROVE  IInv'
  BY <1>4, AbortKeeps DEF Abort
<1>5. ASSUME NEW a \in Anon, NEW n \in CartNo[a], Age(a, n)
      PROVE  IInv'
  BY <1>5, AgeKeeps
<1>6. ASSUME NEW u \in User, ConvertCart(u)
      PROVE  IInv'
  BY <1>6, ConvertCartKeeps
<1>7. CASE UNCHANGED vars
  <2>1. StoreOK' /\ UserCartsMove
    BY <1>7, ReadKeeps DEF IInv, vars
  <2> QED
    BY <1>7, <2>1, ShopStep DEF IInv, OldOK, vars, IndexRows, cartRow
<1> QED
  BY <1>1, <1>2, <1>3, <1>4, <1>5, <1>6, <1>7, SweepKeeps DEF Next

-------------------------------------------------------------------------------
(* Every state the carts can reach is one the invariant describes.         *)
THEOREM Invariant == Spec => []IInv
<1>1. Init => IInv
  BY InitIInv
<1>2. IInv /\ [Next]_vars => IInv'
  BY StepKeeps
<1> QED
  BY <1>1, <1>2, PTL DEF Spec

(* Statuses, and quantities of 0 to MaxItemQuantity, however many requests *)
(* and merges add to a line.                                               *)
THEOREM TypeCorrect == Spec => []TypeOK
<1>1. IInv => TypeOK
  <2> SUFFICES ASSUME IInv PROVE TypeOK
    OBVIOUS
  <2>1. ASSUME NEW w \in Owner, NEW n \in CartNo[w]
        PROVE  /\ db[cartRow(w, n)] \in Status
               /\ \A v \in Variant : db[lineRow(w, n, v)] \in Quantity
    BY RowNames DEF IInv, StoreOK, Typed, RowsOf, Rows
  <2>2. \A p \in Handler : at[p].tries < MaxAttempts
    BY DEF IInv, FramesOK, FrameOK, MaxAttempts
  <2>3. old \subseteq UNION {IndexRows(a) : a \in Anon}
    BY DEF IInv, OldOK
  <2> QED
    BY <2>1, <2>2, <2>3 DEF TypeOK, Status, Quantity
<1> QED
  BY <1>1, Invariant, PTL

(* However first adds, merges and conversions race, an owner has at most   *)
(* one active cart.                                                        *)
THEOREM OneActiveCartHolds == Spec => []OneActiveCart
<1>1. IInv => OneActiveCart
  <2> SUFFICES ASSUME IInv, NEW w \in Owner
               PROVE  Cardinality({n \in CartNo[w] : db[cartRow(w, n)] = "active"}) <= 1
    BY DEF OneActiveCart
  <2> DEFINE S == {n \in CartNo[w] : db[cartRow(w, n)] = "active"}
  <2>1. Shop \in Proc /\ dirty[Shop] = NoWrites /\ DOMAIN NoWrites = {} /\ OneView
    BY HandlerAssumption DEF IInv, FramesOK, StoreOK, NoWrites
  <2>2. \A n \in S : n \in ActiveCart(Shop, w)
    BY <2>1, ActiveCarts DEF Read
  <2>3. \A m, n \in S : m = n
    BY <2>1, <2>2 DEF OneView
  <2> HIDE DEF S
  <2>4. S = {} => Cardinality(S) <= 1
    BY FS_EmptySet
  <2>5. ASSUME S # {}
        PROVE  Cardinality(S) <= 1
    <3>1. PICK n : S = {n}
      BY <2>3, <2>5
    <3>2. Cardinality(S) = 1
      BY <3>1, FS_Singleton
    <3> QED
      BY <3>2, SMT
  <2>6. Cardinality(S) <= 1
    BY <2>4, <2>5
  <2> QED
    BY <2>6 DEF S
<1> QED
  BY <1>1, Invariant, PTL

(* A merge that inserts a second time does so only after a confirm has     *)
(* converted the cart that failed the first.                               *)
THEOREM RetryIsEnough == Spec => []RetrySuffices
<1>1. IInv => RetrySuffices
  BY DEF IInv, FramesOK, FrameOK, RetryOK, RetrySuffices
<1> QED
  BY <1>1, Invariant, PTL

(* What a merge writes is committed by its last step, or not at all.       *)
THEOREM MergeIsAllOrNothing == Spec => MergeAllOrNothing
<1> DEFINE Whole(p) == /\ at'[p].pc = "idle"
                       /\ db'[cartRow(at[p].anon, at[p].from)] = "merged"
                       /\ \A v \in Variant :
                            db'[lineRow(at[p].owner, at[p].cart, v)] >= at[p].listed[v]
           Step == \A p \in Handler : at[p].op = "merge" /\ at'[p] # at[p] /\ db' # db => Whole(p)
<1>1. ASSUME IInv, [Next]_vars
      PROVE  Step
  <2> SUFFICES ASSUME NEW p \in Handler, at[p].op = "merge", at'[p] # at[p], db' # db
               PROVE  Whole(p)
    OBVIOUS
  <2>1. FramesOK /\ FrameOK(at[p], dirty[p]) /\ at[p].pc \in MergePcs
    BY <1>1 DEF IInv, FramesOK, FrameOK
  <2>2. at' # at
    OBVIOUS
  <2>3. ~Sweep /\ ~(UNCHANGED vars) /\ (\A u \in User : ~ConvertCart(u))
        /\ (\A a \in Anon : \A n \in CartNo[a] : ~Age(a, n))
    BY <2>2 DEF Sweep, ConvertCart, Age, vars
  <2>4. PICK q \in Handler : \/ \E r \in Request : Receive(q, r)
                             \/ ItemStep(q) \/ MergeStep(q) \/ Abort(q)
    BY <1>1, <2>3 DEF Next
  <2>5. PICK f : at' = [at EXCEPT ![q] = f]
    BY <2>4 DEF Receive, ItemStep, FindActive, EnsureActive, WriteLines, MergeStep,
       MergeFindAnon, MergeFindUser, MergeCreate, Retry, MergeList, MergeLine, MergeMark,
       Abort, Goto, Done
  <2>6. q = p
    BY <2>1, <2>5 DEF FramesOK
  <2>7. ~ItemStep(p) /\ \A r \in Request : ~Receive(p, r)
    BY <2>1 DEF ItemStep, Receive, FindActive, EnsureActive, WriteLines, MergePcs
  <2>8. ~MergeFindAnon(p) /\ ~MergeFindUser(p) /\ ~MergeList(p) /\ ~MergeLine(p)
        /\ ~MergeCreate(p) /\ ~Abort(p)
    BY DEF MergeFindAnon, MergeFindUser, MergeList, MergeLine, MergeCreate, Retry, Abort,
       NoStatement, Write, Rollback
  <2>9. MergeMark(p)
    BY <2>4, <2>6, <2>7, <2>8 DEF MergeStep
  <2>10. at'[p].pc = "idle"
    BY <2>1, <2>9 DEF MergeMark, FramesOK, Idle
  <2> QED
    BY <1>1, <2>9, <2>10, MergeMarkKeeps
<1>2. IInv /\ [Next]_vars => [Step]_vars
  BY <1>1
<1> QED
  BY <1>2, Invariant, PTL DEF Spec, MergeAllOrNothing
================================================================================
