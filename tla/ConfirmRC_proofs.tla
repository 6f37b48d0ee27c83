--------------------------- MODULE ConfirmRC_proofs ---------------------------
(***************************************************************************)
(* What the transactions on orders guarantee, for any number of users,     *)
(* handlers, jobs, orders and variants.  Confirm: what it commits is what  *)
(* ConfirmTx of Settlement does in one step, a key names one order, and    *)
(* confirms never deadlock each other.  Settlement, from the line that     *)
(* introduces the instance R of ReconcileRC: a reservation is resolved     *)
(* once, and no unit of stock is sold twice.                               *)
(***************************************************************************)
EXTENDS ConfirmRC, RowStore_proofs, FiniteSetTheorems

OpenTx == {"reserve", "coupon", "cart", "key"}

Frame == [pc : {"checks", "begin"} \cup OpenTx, request : Request,
          order : Order \cup {"none"}, cart : CartNo \cup {0}, todo : Seq(Variant),
          past : SUBSET MayLapse]

Counters == [available : 0..MaxInt, reserved : 0..MaxInt]
Quotes   == [user : User, lines : S!Lines, coupon : Coupon \cup {NoCoupon}]
Response == [quote : QuoteId, order : Order]

(* The columns have their types, and a key holds at most one response.     *)
RowsOK ==
  /\ \A v \in Variant : db[stockRow(v)] \in Counters
  /\ \A c \in Coupon : db[couponRow(c)] \in Nat
  /\ \A q \in QuoteId : db[quoteRow(q)] \in Quotes \cup {NoQuote}
  /\ \A u \in User, n \in CartNo : db[itemsRow(u, n)] \in [Variant -> 0..MaxQty]
  /\ \A u \in User, k \in Key : /\ db[keyRow(u, k)] \subseteq Response
                                /\ \A a, b \in db[keyRow(u, k)] : a = b

(* The variants a confirm has reserved, and the coupon it has redeemed.    *)
Reserved(p) == Bought(QuoteOf(p).lines) \ ToSet(at[p].todo)
Redeemed(p) == {c \in Coupon : c = QuoteOf(p).coupon /\ at[p].pc \in {"cart", "key"}}

(* The rows it has written, and so has locked.                             *)
Locks(p) ==
  {orderRow(at[p].order), resvRow(at[p].order)}
    \cup {stockRow(v) : v \in Reserved(p)}
    \cup {couponRow(c) : c \in Redeemed(p)}
    \cup {r \in {cartRow(at[p].request.user, at[p].cart), chargeRow(at[p].order)} :
            at[p].pc = "key"}

(* What is left to reserve comes after all that is reserved.               *)
Ascending(p) ==
  /\ at[p].pc = "reserve" <=> at[p].todo # <<>>
  /\ ToSet(at[p].todo) \subseteq Bought(QuoteOf(p).lines)
  /\ \A i, j \in DOMAIN at[p].todo : i < j => at[p].todo[i] < at[p].todo[j]
  /\ \A v \in Reserved(p), w \in ToSet(at[p].todo) : v < w

(* The uncommitted rows of a confirm are its quote's order, its units off  *)
(* the stock, one more use of its coupon, and so on, all counted from what *)
(* is committed: nothing it has written can change under it.               *)
Progress(p) ==
  /\ at[p].order \in Order /\ at[p].cart \in CartNo
  /\ db[orderRow(at[p].order)] = NoOrder
  /\ DOMAIN dirty[p] = Locks(p)
  /\ dirty[p][orderRow(at[p].order)] = OrderWithItems(QuoteOf(p))
  /\ dirty[p][resvRow(at[p].order)] = "held"
  /\ \A v \in Reserved(p) :
       /\ Enough(db[stockRow(v)], QuoteOf(p).lines[v])
       /\ dirty[p][stockRow(v)] = ReserveStock(db[stockRow(v)], QuoteOf(p).lines[v])
  /\ \A c \in Redeemed(p) :
       /\ UsageLimit[c] # NoLimit => db[couponRow(c)] < UsageLimit[c]
       /\ dirty[p][couponRow(c)] = db[couponRow(c)] + 1
  /\ at[p].pc = "coupon" => QuoteOf(p).coupon # NoCoupon
  /\ at[p].pc = "key" =>
       /\ dirty[p][cartRow(at[p].request.user, at[p].cart)] = "converted"
       /\ dirty[p][chargeRow(at[p].order)] = "pending"

(* Past its checks a confirm works from a quote of the request's user.     *)
HandlerOK(p) ==
  /\ IF at[p].pc = "idle" THEN at[p] = Idle ELSE at[p] \in Frame
  /\ at[p].pc \in OpenTx \cup {"begin"} =>
       QuoteOf(p) \in Quotes /\ QuoteOf(p).user = at[p].request.user
  /\ at[p].pc \in OpenTx => Ascending(p) /\ Progress(p)
  /\ at[p].pc \notin OpenTx => dirty[p] = NoWrites

(* Every answer is the response its key holds, and every order is in one.  *)
KeysOK ==
  /\ answers \subseteq Request \X Order
  /\ \A a \in answers :
       db[keyRow(a[1].user, a[1].key)] = {[quote |-> a[1].quote, order |-> a[2]]}
  /\ \A o \in Order : db[orderRow(o)] # NoOrder =>
       /\ db[orderRow(o)].user \in User
       /\ \E k \in Key : \E hit \in db[keyRow(db[orderRow(o)].user, k)] : hit.order = o

IInv == /\ StoreOf(Row) /\ LocksExclusive
        /\ RowsOK /\ KeysOK
        /\ DOMAIN at = Client /\ \A p \in Client : HandlerOK(p)
        /\ dirty[Shop] = NoWrites /\ lapsed \subseteq MayLapse

(* A row's name tells its table and its key.                               *)
LEMMA RowNames ==
  /\ \A o : /\ orderRow(o)[1] = "order" /\ orderRow(o)[2] = o
            /\ resvRow(o)[1] = "resv" /\ resvRow(o)[2] = o
            /\ chargeRow(o)[1] = "charge" /\ chargeRow(o)[2] = o
  /\ \A v : stockRow(v)[1] = "stock" /\ stockRow(v)[2] = v
  /\ \A c : couponRow(c)[1] = "coupon" /\ couponRow(c)[2] = c
  /\ \A q : quoteRow(q)[1] = "quote" /\ quoteRow(q)[2] = q
  /\ \A u, x : /\ keyRow(u, x)[1] = "key" /\ keyRow(u, x)[2] = u /\ keyRow(u, x)[3] = x
               /\ cartRow(u, x)[1] = "cart" /\ cartRow(u, x)[2] = u /\ cartRow(u, x)[3] = x
               /\ itemsRow(u, x)[1] = "items" /\ itemsRow(u, x)[2] = u /\ itemsRow(u, x)[3] = x
BY DEF orderRow, resvRow, chargeRow, stockRow, couponRow, quoteRow, keyRow, cartRow, itemsRow

(* The rows there are.                                                     *)
LEMMA RowsThere ==
  /\ \A o \in Order : orderRow(o) \in Row /\ resvRow(o) \in Row /\ chargeRow(o) \in Row
  /\ \A v \in Variant : stockRow(v) \in Row
  /\ \A c \in Coupon : couponRow(c) \in Row
  /\ \A q \in QuoteId : quoteRow(q) \in Row
  /\ \A u \in User, k \in Key : keyRow(u, k) \in Row
  /\ \A u \in User, n \in CartNo : cartRow(u, n) \in Row /\ itemsRow(u, n) \in Row
BY DEF Row

(* A statement that writes one row.                                        *)
LEMMA OnlyRow ==
  ASSUME NEW row, NEW value
  PROVE  DOMAIN Only(row, value) = {row} /\ Only(row, value)[row] = value
BY DEF Only

(* The requests clients send.                                              *)
LEMMA RequestShape ==
  ASSUME NEW r \in Request
  PROVE  /\ r.user \in User /\ r.key \in Key /\ r.quote \in QuoteId /\ r.user # "none"
         /\ \A s \in Request : r.user = s.user /\ r.key = s.key /\ r.quote = s.quote => r = s
<1>1. r \in [user: User, key: Key, quote: QuoteId]
  BY RequestAssumption
<1>2. \A s \in [user: User, key: Key, quote: QuoteId] :
        r.user = s.user /\ r.key = s.key /\ r.quote = s.quote => r = s
  BY <1>1
<1> QED
  BY <1>1, <1>2, RequestAssumption

(* The initial state of the tables.                                        *)
LEMMA InitMaps == Init => S!Init
<1> SUFFICES ASSUME Init PROVE S!Init
  OBVIOUS
<1>1. \A r \in Row : db[r] = IF r[1] = "stock"
                               THEN [available |-> InitStock[r[2]], reserved |-> 0]
                               ELSE Empty[r[1]]
  BY DEF Init
<1>2. /\ \A o \in Order : /\ db[orderRow(o)] = NoOrder /\ db[resvRow(o)] = "none"
                          /\ db[chargeRow(o)] = "none"
      /\ \A v \in Variant : /\ db[stockRow(v)].available = InitStock[v]
                            /\ db[stockRow(v)].reserved = 0
      /\ \A c \in Coupon : db[couponRow(c)] = 0
  <2>1. /\ Empty["order"] = NoOrder /\ Empty["resv"] = "none" /\ Empty["charge"] = "none"
        /\ Empty["coupon"] = 0
    BY DEF Empty
  <2>2. ASSUME NEW o \in Order
        PROVE  db[orderRow(o)] = NoOrder /\ db[resvRow(o)] = "none" /\ db[chargeRow(o)] = "none"
    <3>1. /\ orderRow(o) \in Row /\ orderRow(o)[1] = "order"
          /\ resvRow(o) \in Row /\ resvRow(o)[1] = "resv"
          /\ chargeRow(o) \in Row /\ chargeRow(o)[1] = "charge"
      BY RowNames, RowsThere
    <3> QED
      BY <1>1, <2>1, <3>1
  <2>3. ASSUME NEW v \in Variant
        PROVE  db[stockRow(v)].available = InitStock[v] /\ db[stockRow(v)].reserved = 0
    <3>1. db[stockRow(v)] = [available |-> InitStock[v], reserved |-> 0]
      BY <1>1, RowNames, RowsThere
    <3> QED
      BY <3>1
  <2>4. ASSUME NEW c \in Coupon PROVE db[couponRow(c)] = 0
    <3>1. couponRow(c) \in Row /\ couponRow(c)[1] = "coupon"
      BY RowNames, RowsThere
    <3> QED
      BY <1>1, <2>1, <3>1
  <2> QED
    BY <2>2, <2>3, <2>4
<1>3. InitStock = [v \in Variant |-> InitStock[v]]
  BY StockAssumption
<1>4. /\ NoOrder.status = "none" /\ NoOrder.item = S!NoLines /\ NoOrder.coupon = NoCoupon
  BY DEF NoOrder, NoLines, S!NoLines
<1>5. /\ [v \in Variant |-> db[stockRow(v)].available] = InitStock
      /\ [v \in Variant |-> db[stockRow(v)].reserved] = [v \in Variant |-> 0]
  BY <1>2, <1>3
<1>6. {o \in Order : db[orderRow(o)].status # "none"} = {}
  BY <1>2, <1>4
<1> QED
  BY <1>2, <1>4, <1>5, <1>6 DEF S!Init

(* A handler's frame names its request; a quote of a user is there.        *)
LEMMA FrameShape ==
  ASSUME NEW p \in Client, HandlerOK(p)
  PROVE  /\ at[p].pc \in {"idle", "checks", "begin", "reserve", "coupon", "cart", "key"}
         /\ at[p].pc # "idle" =>
              /\ at[p] \in Frame /\ at[p].request \in Request
              /\ at[p].request.user \in User /\ at[p].request.key \in Key
              /\ at[p].request.quote \in QuoteId /\ at[p].todo \in Seq(Variant)
         /\ at[p].pc \in OpenTx \cup {"begin"} =>
              /\ QuoteOf(p) # NoQuote /\ QuoteOf(p).user \in User
              /\ QuoteOf(p).lines \in [Variant -> 0..MaxQty]
              /\ QuoteOf(p).coupon \in Coupon \cup {NoCoupon}
<1>1. CASE at[p].pc = "idle"
  BY <1>1 DEF OpenTx
<1>2. CASE at[p].pc # "idle"
  <2>1. at[p] \in Frame
    BY <1>2 DEF HandlerOK
  <2>2. /\ at[p].request \in Request /\ at[p].todo \in Seq(Variant)
        /\ at[p].pc \in {"idle", "checks", "begin", "reserve", "coupon", "cart", "key"}
    BY <2>1 DEF Frame, OpenTx
  <2>3. /\ at[p].request.user \in User /\ at[p].request.key \in Key
        /\ at[p].request.quote \in QuoteId
    BY <2>2, RequestShape
  <2>4. ASSUME at[p].pc \in OpenTx \cup {"begin"}
        PROVE  /\ QuoteOf(p) # NoQuote /\ QuoteOf(p).user \in User
               /\ QuoteOf(p).lines \in [Variant -> 0..MaxQty]
               /\ QuoteOf(p).coupon \in Coupon \cup {NoCoupon}
    <3>1. QuoteOf(p) \in [user : User, lines : S!Lines, coupon : Coupon \cup {NoCoupon}]
      BY <2>4 DEF HandlerOK, Quotes
    <3>2. /\ QuoteOf(p).user \in User /\ QuoteOf(p).lines \in S!Lines
          /\ QuoteOf(p).coupon \in Coupon \cup {NoCoupon}
      BY <3>1
    <3>3. NoQuote.user = "none" /\ "none" \notin User
      BY RequestAssumption DEF NoQuote
    <3> QED
      BY <3>2, <3>3 DEF S!Lines
  <2> QED
    BY <1>2, <2>1, <2>2, <2>3, <2>4
<1> QED
  BY <1>1, <1>2

(* A confirm keeps its place in every step that leaves it, the rows it has *)
(* locked and the quotes alone.                                            *)
LEMMA OthersKeep ==
  ASSUME NEW q \in Client, HandlerOK(q), at'[q] = at[q], dirty'[q] = dirty[q],
         \A r \in DOMAIN dirty[q] : db'[r] = db[r],
         \A x \in QuoteId : db[quoteRow(x)] # NoQuote => db'[quoteRow(x)] = db[quoteRow(x)]
  PROVE  HandlerOK(q)'
<1>1. ASSUME at[q].pc \in OpenTx \cup {"begin"}
      PROVE  QuoteOf(q)' = QuoteOf(q)
  <2>1. QuoteOf(q) # NoQuote /\ at[q].request.quote \in QuoteId
    BY <1>1, FrameShape DEF OpenTx
  <2> QED
    BY <2>1 DEF QuoteOf
<1>2. ASSUME at[q].pc \in OpenTx
      PROVE  (Ascending(q) /\ Progress(q))'
  <2>1. QuoteOf(q)' = QuoteOf(q) /\ Ascending(q) /\ Progress(q)
    BY <1>1, <1>2 DEF HandlerOK
  <2>2. Reserved(q)' = Reserved(q) /\ Redeemed(q)' = Redeemed(q)
    BY <2>1 DEF Reserved, Redeemed
  <2>3. Locks(q)' = Locks(q)
    BY <2>2 DEF Locks
  <2>4. Ascending(q)'
    BY <2>1, <2>2 DEF Ascending
  <2>5. DOMAIN dirty[q] = Locks(q)
    BY <2>1 DEF Progress
  <2>6. /\ orderRow(at[q].order) \in Locks(q)
        /\ \A v \in Reserved(q) : stockRow(v) \in Locks(q)
        /\ \A c \in Redeemed(q) : couponRow(c) \in Locks(q)
    BY DEF Locks
  <2>7. /\ db'[orderRow(at[q].order)] = db[orderRow(at[q].order)]
        /\ \A v \in Reserved(q) : db'[stockRow(v)] = db[stockRow(v)]
        /\ \A c \in Redeemed(q) : db'[couponRow(c)] = db[couponRow(c)]
    BY <2>5, <2>6
  <2> QED
    BY <2>1, <2>2, <2>3, <2>4, <2>7 DEF Progress
<1> QED
  BY <1>1, <1>2 DEF HandlerOK

(* The invariant holds at the start.                                       *)
LEMMA InitOK == Init => IInv
<1> SUFFICES ASSUME Init PROVE IInv
  OBVIOUS
<1>1. \A r \in Row : db[r] = IF r[1] = "stock"
                               THEN [available |-> InitStock[r[2]], reserved |-> 0]
                               ELSE Empty[r[1]]
  BY DEF Init
<1>2. /\ Empty["order"] = NoOrder /\ Empty["coupon"] = 0 /\ Empty["quote"] = NoQuote
      /\ Empty["items"] = NoLines /\ Empty["key"] = {}
  BY DEF Empty
<1>3. DOMAIN NoWrites = {}
  BY DEF NoWrites
<1>4. StoreOf(Row) /\ LocksExclusive
  BY <1>3 DEF Init, StoreOf, LocksExclusive
<1>5. \A v \in Variant : db[stockRow(v)] \in Counters
  <2> SUFFICES ASSUME NEW v \in Variant PROVE db[stockRow(v)] \in Counters
    OBVIOUS
  <2>1. db[stockRow(v)] = [available |-> InitStock[v], reserved |-> 0]
    BY <1>1, RowNames, RowsThere
  <2> QED
    BY <2>1, StockAssumption, QtyAssumption DEF Counters
<1>6. \A o \in Order : db[orderRow(o)] = NoOrder
  <2> SUFFICES ASSUME NEW o \in Order PROVE db[orderRow(o)] = NoOrder
    OBVIOUS
  <2>1. orderRow(o) \in Row /\ orderRow(o)[1] = "order"
    BY RowNames, RowsThere
  <2> QED
    BY <1>1, <1>2, <2>1
<1>7. \A c \in Coupon : db[couponRow(c)] \in Nat
  <2> SUFFICES ASSUME NEW c \in Coupon PROVE db[couponRow(c)] = 0
    OBVIOUS
  <2>1. couponRow(c) \in Row /\ couponRow(c)[1] = "coupon"
    BY RowNames, RowsThere
  <2> QED
    BY <1>1, <1>2, <2>1
<1>8. \A q \in QuoteId : db[quoteRow(q)] \in Quotes \cup {NoQuote}
  <2> SUFFICES ASSUME NEW q \in QuoteId PROVE db[quoteRow(q)] = NoQuote
    OBVIOUS
  <2>1. quoteRow(q) \in Row /\ quoteRow(q)[1] = "quote"
    BY RowNames, RowsThere
  <2> QED
    BY <1>1, <1>2, <2>1
<1>9. \A u \in User, n \in CartNo : db[itemsRow(u, n)] \in [Variant -> 0..MaxQty]
  <2> SUFFICES ASSUME NEW u \in User, NEW n \in CartNo PROVE db[itemsRow(u, n)] = NoLines
    BY QtyAssumption DEF NoLines
  <2>1. itemsRow(u, n) \in Row /\ itemsRow(u, n)[1] = "items"
    BY RowNames, RowsThere
  <2> QED
    BY <1>1, <1>2, <2>1
<1>10. \A u \in User, k \in Key : db[keyRow(u, k)] = {}
  <2> SUFFICES ASSUME NEW u \in User, NEW k \in Key PROVE db[keyRow(u, k)] = {}
    OBVIOUS
  <2>1. keyRow(u, k) \in Row /\ keyRow(u, k)[1] = "key"
    BY RowNames, RowsThere
  <2> QED
    BY <1>1, <1>2, <2>1
<1>11. RowsOK
  BY <1>5, <1>7, <1>8, <1>9, <1>10 DEF RowsOK
<1>12. KeysOK
  BY <1>6 DEF KeysOK, Init
<1>13. DOMAIN at = Client /\ \A p \in Client : HandlerOK(p)
  <2>1. Idle.pc = "idle"
    BY DEF Idle
  <2> QED
    BY <2>1, ClientAssumption DEF Init, HandlerOK, OpenTx
<1> QED
  BY <1>4, <1>11, <1>12, <1>13, ClientAssumption DEF IInv, Init

(* A step that moves p's frame to f.                                       *)
LEMMA GotoEffect ==
  ASSUME IInv, NEW p \in Client, NEW f, Goto(p, f)
  PROVE  /\ DOMAIN at' = Client /\ at'[p] = f
         /\ \A q \in Client \ {p} : at'[q] = at[q]
         /\ lapsed' = lapsed /\ answers' = answers
BY DEF IInv, Goto

(* A step of p that commits nothing keeps the invariant when p's own part  *)
(* holds after it.                                                         *)
LEMMA StepKeeps ==
  ASSUME IInv, NEW p \in Client, StoreOf(Row)', LocksExclusive', db' = db,
         \A q \in Proc \ {p} : dirty'[q] = dirty[q],
         DOMAIN at' = Client, \A q \in Client \ {p} : at'[q] = at[q],
         lapsed' = lapsed, HandlerOK(p)', KeysOK'
  PROVE  IInv'
<1>1. \A q \in Client \ {p} : HandlerOK(q)'
  BY OthersKeep, ClientAssumption DEF IInv
<1>2. RowsOK'
  BY DEF IInv, RowsOK
<1>3. dirty'[Shop] = NoWrites
  BY ClientAssumption DEF IInv
<1> QED
  BY <1>1, <1>2, <1>3 DEF IInv

(* A handler that is idle again.                                           *)
LEMMA IdleOK ==
  ASSUME NEW p \in Client, at'[p] = Idle, dirty'[p] = NoWrites
  PROVE  HandlerOK(p)'
<1>1. Idle.pc = "idle"
  BY DEF Idle
<1> QED
  BY <1>1 DEF HandlerOK, OpenTx

(* A refusal keeps the invariant.                                          *)
LEMMA RefuseKeeps ==
  ASSUME IInv, NEW p \in Client, Refuse(p)
  PROVE  IInv' /\ db' = db /\ answers' = answers
<1>1. Rollback(p) /\ Goto(p, Idle) /\ p \in Proc
  BY ClientAssumption DEF Refuse
<1>2. /\ StoreOf(Row)' /\ LocksExclusive' /\ db' = db /\ dirty'[p] = NoWrites
      /\ \A q \in Proc \ {p} : dirty'[q] = dirty[q]
  BY <1>1, RollbackRows DEF IInv
<1>3. /\ DOMAIN at' = Client /\ at'[p] = Idle /\ lapsed' = lapsed /\ answers' = answers
      /\ \A q \in Client \ {p} : at'[q] = at[q]
  BY <1>1, GotoEffect
<1>4. HandlerOK(p)'
  BY <1>2, <1>3, IdleOK
<1>5. KeysOK'
  BY <1>2, <1>3 DEF IInv, KeysOK
<1> QED
  BY <1>2, <1>3, <1>4, <1>5, StepKeeps

(* So does a statement that writes rows and moves on, when p's own part    *)
(* holds after it.                                                         *)
LEMMA WriteKeeps ==
  ASSUME IInv, NEW p \in Client, NEW rows, NEW f, Write(p, rows), Goto(p, f),
         DOMAIN rows \subseteq Row, HandlerOK(p)'
  PROVE  IInv' /\ db' = db /\ answers' = answers
<1>1. /\ StoreOf(Row)' /\ LocksExclusive' /\ db' = db
      /\ \A q \in Proc \ {p} : dirty'[q] = dirty[q]
  BY WriteRows, ClientAssumption DEF IInv
<1>2. /\ DOMAIN at' = Client /\ lapsed' = lapsed /\ answers' = answers
      /\ \A q \in Client \ {p} : at'[q] = at[q]
  BY GotoEffect
<1>3. KeysOK'
  BY <1>1, <1>2 DEF IInv, KeysOK
<1> QED
  BY <1>1, <1>2, <1>3, StepKeeps

(* A sequence that holds each element of a finite set once holds them all. *)
LEMMA SeqCovers ==
  ASSUME NEW T, IsFiniteSet(T), NEW s \in SetToSeqs(T)
  PROVE  s \in Seq(T) /\ ToSet(s) = T
<1> DEFINE n == Cardinality(T)
<1>1. n \in Nat
  BY FS_CardinalityType
<1>2. s \in [1..n -> T] /\ \A i, j \in 1..n : i # j => s[i] # s[j]
  BY DEF SetToSeqs
<1>3. s \in Injection(1..n, T)
  BY <1>2 DEF Injection, IsInjective
<1>4. IsFiniteSet(1..n) /\ Cardinality(1..n) = n
  BY <1>1, FS_Interval
<1>5. s \in Surjection(1..n, T)
  BY <1>3, <1>4, FS_Injection
<1>6. \A t \in T : \E i \in 1..n : s[i] = t
  BY <1>5 DEF Surjection
<1> HIDE DEF n
<1> QED
  BY <1>1, <1>2, <1>6 DEF ToSet

(* What a request's quote asks for: its variants, in a possible order.     *)
LEMMA ReserveOrder ==
  ASSUME NEW lines, NEW todo \in ReserveOrders(lines)
  PROVE  /\ todo \in Seq(Variant) /\ ToSet(todo) = Bought(lines)
         /\ \A i, j \in DOMAIN todo : i < j => todo[i] < todo[j]
<1>1. Bought(lines) \subseteq Variant /\ IsFiniteSet(Bought(lines))
  BY FS_Subset, IdAssumption DEF Bought
<1>2. todo \in SetToSeqs(Bought(lines))
  BY DEF ReserveOrders
<1>3. todo \in Seq(Bought(lines)) /\ ToSet(todo) = Bought(lines)
  BY <1>1, <1>2, SeqCovers
<1>4. todo \in Seq(Variant)
  BY <1>1, <1>3
<1> QED
  BY <1>3, <1>4 DEF ReserveOrders

(* Idempotency.Lookup: a replayed answer is the response the key holds.    *)
LEMMA ConfirmKeeps ==
  ASSUME IInv, NEW p \in Client, NEW r \in Request, Confirm(p, r)
  PROVE  IInv' /\ db' = db
<1>1. /\ db' = db /\ dirty' = dirty /\ at[p].pc = "idle"
  BY DEF Confirm, NoStatement
<1>2. dirty[p] = NoWrites /\ HandlerOK(p) /\ at[p] = Idle
  BY <1>1 DEF IInv, HandlerOK, OpenTx
<1>3. StoreOf(Row)' /\ LocksExclusive'
  BY <1>1 DEF IInv, StoreOf, LocksExclusive
<1>4. r.user \in User /\ r.key \in Key /\ r.quote \in QuoteId
  BY RequestShape
<1>5. ASSUME NEW hit \in Replay(r), Answer(p, r, hit.order)
      PROVE  IInv'
  <2>1. /\ DOMAIN at' = Client /\ at'[p] = Idle /\ lapsed' = lapsed
        /\ \A q \in Client \ {p} : at'[q] = at[q]
        /\ answers' = answers \cup {<<r, hit.order>>}
    BY <1>5 DEF Answer, IInv
  <2>2. hit \in db[keyRow(r.user, r.key)] /\ hit.quote = r.quote
    BY DEF Replay, GetIdempotencyKey
  <2>3. /\ db[keyRow(r.user, r.key)] \subseteq Response
        /\ \A a, b \in db[keyRow(r.user, r.key)] : a = b
    BY <1>4 DEF IInv, RowsOK
  <2>4. hit = [quote |-> r.quote, order |-> hit.order] /\ hit.order \in Order
    BY <2>2, <2>3 DEF Response
  <2>5. db[keyRow(r.user, r.key)] = {[quote |-> r.quote, order |-> hit.order]}
    BY <2>2, <2>3, <2>4
  <2>6. KeysOK'
    <3>1. answers' \subseteq Request \X Order
      BY <2>1, <2>4 DEF IInv, KeysOK
    <3>2. ASSUME NEW a \in answers'
          PROVE  db'[keyRow(a[1].user, a[1].key)] = {[quote |-> a[1].quote, order |-> a[2]]}
      <4>1. CASE a \in answers
        BY <1>1, <4>1 DEF IInv, KeysOK
      <4>2. CASE a = <<r, hit.order>>
        BY <1>1, <2>5, <4>2
      <4> QED
        BY <2>1, <4>1, <4>2
    <3> QED
      BY <1>1, <3>1, <3>2 DEF IInv, KeysOK
  <2>7. HandlerOK(p)'
    BY <1>1, <1>2, <2>1, IdleOK
  <2> QED
    BY <1>1, <1>3, <2>1, <2>6, <2>7, StepKeeps
<1>6. ASSUME Goto(p, [Idle EXCEPT !.pc = "checks", !.request = r])
      PROVE  IInv'
  <2> DEFINE f == [Idle EXCEPT !.pc = "checks", !.request = r]
  <2>1. f.pc = "checks" /\ f.request = r /\ f \in Frame
    <3>1. Idle \in [pc : {"idle"}, request : {"none"}, order : {"none"}, cart : {0},
                    todo : {<<>>}, past : {{}}]
      BY DEF Idle
    <3>2. <<>> \in Seq(Variant)
      OBVIOUS
    <3> QED
      BY <3>1, <3>2 DEF Frame
  <2>2. Goto(p, f)
    BY <1>6
  <2> HIDE DEF f
  <2>3. /\ DOMAIN at' = Client /\ at'[p] = f /\ lapsed' = lapsed /\ answers' = answers
        /\ \A q \in Client \ {p} : at'[q] = at[q]
    BY <2>2, GotoEffect
  <2>4. HandlerOK(p)'
    BY <1>1, <1>2, <2>1, <2>3 DEF HandlerOK, OpenTx
  <2>5. KeysOK'
    BY <1>1, <2>3 DEF IInv, KeysOK
  <2> QED
    BY <1>1, <1>3, <2>3, <2>4, <2>5, StepKeeps
<1> QED
  BY <1>1, <1>5, <1>6 DEF Confirm

(* The checks let through only a quote of the request's user.              *)
LEMMA ChecksKeep ==
  ASSUME IInv, NEW p \in Client, Checks(p)
  PROVE  IInv' /\ db' = db
<1>1. CASE ~QuoteHonoured(at[p].request)
  BY <1>1, RefuseKeeps DEF Checks
<1>2. CASE QuoteHonoured(at[p].request)
  <2> DEFINE f == [at[p] EXCEPT !.pc = "begin"]
  <2>1. at[p].pc = "checks" /\ db' = db /\ dirty' = dirty /\ Goto(p, f)
    BY <1>2 DEF Checks, NoStatement
  <2>2. HandlerOK(p)
    BY DEF IInv
  <2>3. /\ at[p] \in Frame /\ at[p].request.quote \in QuoteId
        /\ at[p].request.user \in User /\ at[p].pc \notin OpenTx
    BY <2>1, <2>2, FrameShape DEF OpenTx
  <2>4. f \in Frame /\ f.pc = "begin" /\ f.request = at[p].request
    BY <2>3 DEF Frame
  <2> HIDE DEF f
  <2>5. /\ DOMAIN at' = Client /\ at'[p] = f /\ lapsed' = lapsed /\ answers' = answers
        /\ \A q \in Client \ {p} : at'[q] = at[q]
    BY <2>1, GotoEffect
  <2>6. db[quoteRow(at[p].request.quote)].user = at[p].request.user
    BY <1>2 DEF QuoteHonoured, GetUserQuote
  <2>7. db[quoteRow(at[p].request.quote)] \in Quotes
    <3>1. NoQuote.user = "none" /\ "none" \notin User
      BY RequestAssumption DEF NoQuote
    <3> QED
      BY <2>3, <2>6, <3>1 DEF IInv, RowsOK
  <2>8. QuoteOf(p)' = db[quoteRow(at[p].request.quote)]
    BY <2>1, <2>4, <2>5 DEF QuoteOf
  <2>9. HandlerOK(p)'
    <3>1. dirty[p] = NoWrites
      BY <2>2, <2>3 DEF HandlerOK
    <3> QED
      BY <2>1, <2>4, <2>5, <2>6, <2>7, <2>8, <3>1 DEF HandlerOK, OpenTx
  <2>10. StoreOf(Row)' /\ LocksExclusive' /\ KeysOK'
    BY <2>1, <2>5 DEF IInv, StoreOf, LocksExclusive, KeysOK
  <2> QED
    BY <2>1, <2>5, <2>9, <2>10, StepKeeps
<1> QED
  BY <1>1, <1>2

(* BEGIN: the order is in, and nothing is reserved yet.                    *)
LEMMA BeginKeeps ==
  ASSUME IInv, NEW p \in Client, Begin(p)
  PROVE  IInv' /\ db' = db
<1>1. CASE Refuse(p)
  BY <1>1, RefuseKeeps
<1>2. ASSUME NEW n \in ActiveCart(at[p].request.user), NEW o \in Order,
             NEW todo \in ReserveOrders(QuoteOf(p).lines), at[p].pc = "begin",
             db[orderRow(o)] = NoOrder,
             Write(p, Together(Only(orderRow(o), OrderWithItems(QuoteOf(p))),
                               Only(resvRow(o), "held"))),
             Goto(p, [at[p] EXCEPT !.pc = "reserve", !.order = o, !.cart = n,
                        !.todo = todo, !.past = lapsed])
      PROVE  IInv' /\ db' = db
  <2> DEFINE q == QuoteOf(p)
             order == OrderWithItems(q)
             rows == Together(Only(orderRow(o), order), Only(resvRow(o), "held"))
             f == [at[p] EXCEPT !.pc = "reserve", !.order = o, !.cart = n,
                     !.todo = todo, !.past = lapsed]
  <2>1. /\ HandlerOK(p) /\ dirty[p] = NoWrites /\ at[p] \in Frame
        /\ q \in Quotes /\ q.user = at[p].request.user /\ DOMAIN NoWrites = {}
    BY <1>2 DEF IInv, HandlerOK, OpenTx, NoWrites
  <2>2. todo \in Seq(Variant) /\ ToSet(todo) = Bought(q.lines)
        /\ \A i, j \in DOMAIN todo : i < j => todo[i] < todo[j]
    BY ReserveOrder
  <2>3. todo # <<>>
    <3>1. q.lines \in S!Lines
      BY <2>1 DEF Quotes
    <3>2. \E v \in Variant : q.lines[v] > 0
      BY <3>1 DEF S!Lines
    <3>3. Bought(q.lines) # {}
      BY <3>2 DEF Bought
    <3>4. ToSet(<<>>) = {}
      BY DEF ToSet
    <3> QED
      BY <2>2, <3>3, <3>4
  <2>4. orderRow(o) # resvRow(o) /\ orderRow(o) \in Row /\ resvRow(o) \in Row
    <3>1. orderRow(o)[1] = "order" /\ resvRow(o)[1] = "resv"
      BY RowNames
    <3> QED
      BY <3>1, RowsThere
  <2>5. /\ DOMAIN rows = {orderRow(o), resvRow(o)}
        /\ rows[orderRow(o)] = order /\ rows[resvRow(o)] = "held"
    <3> HIDE DEF order
    <3>1. rows = Together(Only(orderRow(o), order), Only(resvRow(o), "held"))
      OBVIOUS
    <3> HIDE DEF rows
    <3> QED
      BY <2>4, <3>1, Zenon DEF Only, Together
  <2>6. /\ f \in Frame /\ f.pc = "reserve" /\ f.order = o /\ f.cart = n /\ f.todo = todo
        /\ f.request = at[p].request
    <3>1. n \in CartNo /\ lapsed \in SUBSET MayLapse
      BY DEF ActiveCart, IInv
    <3>2. o \in Order \cup {"none"} /\ n \in CartNo \cup {0}
          /\ "reserve" \in {"checks", "begin"} \cup OpenTx
      BY <3>1 DEF OpenTx
    <3> QED
      BY <2>1, <2>2, <3>1, <3>2 DEF Frame
  <2>7. Write(p, rows) /\ Goto(p, f)
    BY <1>2
  <2> HIDE DEF rows, f, order
  <2>8. /\ db' = db /\ DOMAIN dirty'[p] = DOMAIN rows \cup DOMAIN dirty[p]
        /\ \A r \in DOMAIN dirty'[p] :
             dirty'[p][r] = IF r \in DOMAIN rows THEN rows[r] ELSE dirty[p][r]
    BY <2>4, <2>5, <2>7, WriteRows, ClientAssumption DEF IInv
  <2>9. at'[p] = f
    BY <2>7, GotoEffect
  <2>10. QuoteOf(p)' = q
    BY <2>6, <2>8, <2>9 DEF QuoteOf
  <2>11. Reserved(p)' = {} /\ Redeemed(p)' = {}
    BY <2>2, <2>6, <2>9, <2>10 DEF Reserved, Redeemed
  <2>12. Locks(p)' = {orderRow(o), resvRow(o)}
    BY <2>6, <2>9, <2>11 DEF Locks
  <2>13. Ascending(p)'
    BY <2>2, <2>3, <2>6, <2>9, <2>10, <2>11 DEF Ascending
  <2>14. Progress(p)'
    <3>1. n \in CartNo
      BY DEF ActiveCart
    <3>2. /\ DOMAIN dirty'[p] = Locks(p)'
          /\ dirty'[p][orderRow(o)] = order /\ dirty'[p][resvRow(o)] = "held"
      BY <2>1, <2>5, <2>8, <2>12
    <3> QED
      BY <1>2, <2>6, <2>8, <2>9, <2>10, <2>11, <3>1, <3>2 DEF Progress, order
  <2>15. HandlerOK(p)'
    BY <2>1, <2>6, <2>9, <2>10, <2>13, <2>14 DEF HandlerOK, OpenTx
  <2> QED
    BY <2>4, <2>5, <2>7, <2>15, WriteKeeps
<1> QED
  BY <1>1, <1>2 DEF Begin, CreateReservation

(* The first and the others of an ascending sequence of variants.          *)
LEMMA AscendingTail ==
  ASSUME NEW s \in Seq(Variant), s # <<>>,
         \A i, j \in DOMAIN s : i < j => s[i] < s[j]
  PROVE  /\ Head(s) \in Variant /\ Tail(s) \in Seq(Variant)
         /\ ToSet(s) = {Head(s)} \cup ToSet(Tail(s))
         /\ \A w \in ToSet(Tail(s)) : Head(s) < w
         /\ \A i, j \in DOMAIN Tail(s) : i < j => Tail(s)[i] < Tail(s)[j]
         /\ Tail(s) # <<>> <=> Len(s) > 1
         /\ Head(s) \notin ToSet(Tail(s))
<1>1. /\ Len(s) \in Nat /\ Len(s) >= 1 /\ DOMAIN s = 1..Len(s) /\ Head(s) = s[1]
      /\ Tail(s) \in Seq(Variant) /\ Len(Tail(s)) = Len(s) - 1
      /\ DOMAIN Tail(s) = 1..(Len(s) - 1)
      /\ \A i \in 1..(Len(s) - 1) : Tail(s)[i] = s[i + 1]
  OBVIOUS
<1>2. Head(s) \in Variant
  BY <1>1
<1>3. ToSet(Tail(s)) = {s[i] : i \in 2..Len(s)}
  <2>1. ASSUME NEW x \in ToSet(Tail(s)) PROVE x \in {s[i] : i \in 2..Len(s)}
    <3>1. PICK i \in 1..(Len(s) - 1) : x = s[i + 1]
      BY <1>1, <2>1 DEF ToSet
    <3> QED
      BY <1>1, <3>1
  <2>2. ASSUME NEW i \in 2..Len(s) PROVE s[i] \in ToSet(Tail(s))
    <3>1. i - 1 \in DOMAIN Tail(s) /\ Tail(s)[i - 1] = s[i]
      BY <1>1
    <3> QED
      BY <3>1 DEF ToSet
  <2> QED
    BY <2>1, <2>2
<1>4. ToSet(s) = {Head(s)} \cup ToSet(Tail(s))
  <2>1. /\ \A i \in 1..Len(s) : i = 1 \/ i \in 2..Len(s)
        /\ 1 \in 1..Len(s) /\ 2..Len(s) \subseteq 1..Len(s)
    BY <1>1
  <2>2. ToSet(s) = {s[i] : i \in 1..Len(s)} /\ Head(s) = s[1]
    BY <1>1 DEF ToSet
  <2> QED
    BY <1>3, <2>1, <2>2, Zenon
<1>5. \A w \in ToSet(Tail(s)) : Head(s) < w
  BY <1>1, <1>3
<1>6. \A i, j \in DOMAIN Tail(s) : i < j => Tail(s)[i] < Tail(s)[j]
  BY <1>1
<1>7. Tail(s) # <<>> <=> Len(s) > 1
  BY <1>1
<1>8. Head(s) \notin ToSet(Tail(s))
  <2>1. Head(s) \in Nat
    BY <1>2, IdAssumption
  <2>2. ~ Head(s) < Head(s)
    BY <2>1
  <2> QED
    BY <1>5, <2>2
<1> QED
  BY <1>1, <1>2, <1>4, <1>5, <1>6, <1>7, <1>8

(* A row a transaction has not written reads as it is committed.           *)
LEMMA ReadsCommitted ==
  ASSUME NEW p \in Client, Progress(p), NEW r, r \notin Locks(p)
  PROVE  Read(p, r) = db[r]
BY DEF Progress, Read

(* A step that reserves the next line, and keeps what is reserved.         *)
LEMMA ReserveLineKeeps ==
  ASSUME IInv, NEW p \in Client, ReserveLine(p)
  PROVE  IInv' /\ db' = db
<1> DEFINE v == Head(at[p].todo)
           s == Read(p, stockRow(v))
           q == QuoteOf(p).lines[v]
           rows == Only(stockRow(v), ReserveStock(s, q))
           next == IF Len(at[p].todo) > 1 THEN "reserve"
                   ELSE IF QuoteOf(p).coupon # NoCoupon THEN "coupon" ELSE "cart"
           f == [at[p] EXCEPT !.todo = Tail(@), !.pc = next]
<1>1. CASE Refuse(p)
  BY <1>1, RefuseKeeps
<1>2. ASSUME at[p].pc = "reserve", Enough(s, q), Write(p, rows), Goto(p, f)
      PROVE  IInv' /\ db' = db
  <2>1. /\ HandlerOK(p) /\ at[p].pc \in OpenTx
    BY <1>2 DEF IInv, OpenTx
  <2>2. /\ Ascending(p) /\ Progress(p) /\ at[p] \in Frame
        /\ QuoteOf(p) \in Quotes /\ QuoteOf(p).user = at[p].request.user
    BY <1>2, <2>1 DEF HandlerOK
  <2>3. /\ at[p].todo \in Seq(Variant) /\ at[p].todo # <<>>
        /\ \A i, j \in DOMAIN at[p].todo : i < j => at[p].todo[i] < at[p].todo[j]
    BY <1>2, <2>1, <2>2, FrameShape DEF Ascending
  <2> DEFINE rest == Tail(at[p].todo)
  <2>4. /\ v \in Variant /\ rest \in Seq(Variant)
        /\ ToSet(at[p].todo) = {v} \cup ToSet(rest)
        /\ \A w \in ToSet(rest) : v < w
        /\ \A i, j \in DOMAIN rest : i < j => rest[i] < rest[j]
        /\ rest # <<>> <=> Len(at[p].todo) > 1
        /\ v \notin ToSet(rest)
    BY <2>3, AscendingTail
  <2>5. next \in {"reserve", "coupon", "cart"}
    OBVIOUS
  <2>6. f \in Frame /\ f.pc = next /\ f.todo = rest /\ f.order = at[p].order
        /\ f.cart = at[p].cart /\ f.request = at[p].request
    <3>1. next \in {"checks", "begin"} \cup OpenTx
      BY <2>5 DEF OpenTx
    <3> HIDE DEF next
    <3> QED
      BY <2>2, <2>4, <3>1 DEF Frame
  <2>7. DOMAIN rows = {stockRow(v)} /\ rows[stockRow(v)] = ReserveStock(s, q)
    BY OnlyRow
  <2>8. (next = "reserve" <=> rest # <<>>) /\ (next = "coupon" => QuoteOf(p).coupon # NoCoupon)
        /\ (next = "cart" => QuoteOf(p).coupon = NoCoupon)
    BY <2>4
  <2> HIDE DEF f, rows, next, rest
  <2>9. /\ db' = db /\ DOMAIN dirty'[p] = {stockRow(v)} \cup DOMAIN dirty[p]
        /\ \A r \in DOMAIN dirty'[p] :
             dirty'[p][r] = IF r = stockRow(v) THEN ReserveStock(s, q) ELSE dirty[p][r]
    BY <1>2, <2>4, <2>7, RowsThere, WriteRows, ClientAssumption DEF IInv
  <2>10. at'[p] = f
    BY <1>2, GotoEffect
  <2>11. QuoteOf(p)' = QuoteOf(p)
    BY <2>6, <2>9, <2>10 DEF QuoteOf
  <2>12. v \in Bought(QuoteOf(p).lines) /\ v \notin Reserved(p)
    BY <2>2, <2>4 DEF Ascending, Reserved
  <2>13. Reserved(p)' = Reserved(p) \cup {v}
    BY <2>4, <2>6, <2>10, <2>11, <2>12 DEF Reserved
  <2>14. Redeemed(p)' = {} /\ Redeemed(p) = {}
    <3>1. NoCoupon \notin Coupon
      BY CouponAssumption
    <3> QED
      BY <1>2, <2>5, <2>6, <2>8, <2>10, <2>11, <3>1 DEF Redeemed
  <2>15. stockRow(v) \notin Locks(p)
    <3>1. ~ \E w \in Reserved(p) : stockRow(v) = stockRow(w)
      BY <2>12, RowNames
    <3>2. /\ stockRow(v) # orderRow(at[p].order) /\ stockRow(v) # resvRow(at[p].order)
      <4>1. /\ stockRow(v)[1] = "stock" /\ orderRow(at[p].order)[1] = "order"
            /\ resvRow(at[p].order)[1] = "resv"
        BY RowNames
      <4> QED
        BY <4>1
    <3> QED
      BY <1>2, <2>14, <3>1, <3>2 DEF Locks
  <2>16. s = db[stockRow(v)]
    BY <2>2, <2>15, ReadsCommitted
  <2>17. Locks(p)' = {stockRow(v)} \cup Locks(p)
    BY <1>2, <2>5, <2>6, <2>10, <2>13, <2>14 DEF Locks
  <2>18. Ascending(p)'
    <3>1. \A x \in Reserved(p)', w \in ToSet(rest) : x < w
      BY <2>2, <2>4, <2>13 DEF Ascending
    <3>2. ToSet(rest) \subseteq Bought(QuoteOf(p).lines)
      BY <2>2, <2>4 DEF Ascending
    <3> QED
      BY <2>4, <2>6, <2>8, <2>10, <2>11, <3>1, <3>2 DEF Ascending
  <2>19. Progress(p)'
    <3>1. DOMAIN dirty'[p] = Locks(p)'
      BY <2>2, <2>9, <2>17 DEF Progress
    <3>2. \A r \in Locks(p) : r # stockRow(v) /\ dirty'[p][r] = dirty[p][r]
      BY <2>9, <2>15, <2>17, <3>1
    <3>3. orderRow(at[p].order) \in Locks(p) /\ resvRow(at[p].order) \in Locks(p)
          /\ \A w \in Reserved(p) : stockRow(w) \in Locks(p)
      BY DEF Locks
    <3>4. /\ dirty'[p][orderRow(at[p].order)] = OrderWithItems(QuoteOf(p))
          /\ dirty'[p][resvRow(at[p].order)] = "held"
      BY <2>2, <3>2, <3>3 DEF Progress
    <3>5. ASSUME NEW w \in Reserved(p)'
          PROVE  /\ Enough(db[stockRow(w)], QuoteOf(p).lines[w])
                 /\ dirty'[p][stockRow(w)] = ReserveStock(db[stockRow(w)], QuoteOf(p).lines[w])
      <4>1. CASE w = v
        BY <1>2, <2>9, <2>16, <4>1
      <4>2. CASE w \in Reserved(p)
        BY <2>2, <3>2, <3>3, <4>2 DEF Progress
      <4> QED
        BY <2>13, <4>1, <4>2
    <3> QED
      BY <2>2, <2>5, <2>6, <2>8, <2>9, <2>10, <2>11, <2>14, <3>1, <3>4, <3>5 DEF Progress
  <2>20. HandlerOK(p)'
    <3>1. next \in OpenTx
      BY <2>5 DEF OpenTx
    <3>2. next # "idle"
      BY <2>5
    <3> QED
      BY <2>2, <2>6, <2>10, <2>11, <2>18, <2>19, <3>1, <3>2 DEF HandlerOK
  <2>21. DOMAIN rows \subseteq Row
    BY <2>4, <2>7, RowsThere
  <2> QED
    BY <1>2, <2>20, <2>21, WriteKeeps
<1> QED
  BY <1>1, <1>2 DEF ReserveLine

(* RedeemCoupon's conditional UPDATE counts one more use, within the limit.*)
LEMMA RedeemCouponKeeps ==
  ASSUME IInv, NEW p \in Client, RedeemCoupon(p)
  PROVE  IInv' /\ db' = db
<1> DEFINE c == QuoteOf(p).coupon
           used == Read(p, couponRow(c))
           rows == Only(couponRow(c), used + 1)
           f == [at[p] EXCEPT !.pc = "cart"]
<1>1. CASE Refuse(p)
  BY <1>1, RefuseKeeps
<1>2. ASSUME at[p].pc = "coupon", Redeemable(c, used, at[p].past), Write(p, rows), Goto(p, f)
      PROVE  IInv' /\ db' = db
  <2>1. /\ HandlerOK(p) /\ at[p].pc \in OpenTx
    BY <1>2 DEF IInv, OpenTx
  <2>2. /\ Ascending(p) /\ Progress(p) /\ at[p] \in Frame
        /\ QuoteOf(p) \in Quotes /\ QuoteOf(p).user = at[p].request.user
    BY <1>2, <2>1 DEF HandlerOK
  <2>3. c \in Coupon /\ db[couponRow(c)] \in Nat
    <3>1. c \in Coupon
      BY <1>2, <2>1, <2>2, FrameShape DEF Progress
    <3> QED
      BY <3>1 DEF IInv, RowsOK
  <2>4. f \in Frame /\ f.pc = "cart" /\ f.todo = at[p].todo /\ f.order = at[p].order
        /\ f.cart = at[p].cart /\ f.request = at[p].request
    BY <2>2 DEF Frame, OpenTx
  <2>5. DOMAIN rows = {couponRow(c)} /\ rows[couponRow(c)] = used + 1
    BY OnlyRow
  <2> HIDE DEF f, rows
  <2>6. /\ db' = db /\ DOMAIN dirty'[p] = {couponRow(c)} \cup DOMAIN dirty[p]
        /\ \A r \in DOMAIN dirty'[p] :
             dirty'[p][r] = IF r = couponRow(c) THEN used + 1 ELSE dirty[p][r]
    BY <1>2, <2>3, <2>5, RowsThere, WriteRows, ClientAssumption DEF IInv
  <2>7. at'[p] = f
    BY <1>2, GotoEffect
  <2>8. QuoteOf(p)' = QuoteOf(p)
    BY <2>4, <2>6, <2>7 DEF QuoteOf
  <2>9. Reserved(p)' = Reserved(p)
    BY <2>4, <2>7, <2>8 DEF Reserved
  <2>10. Redeemed(p)' = {c} /\ Redeemed(p) = {}
    BY <1>2, <2>3, <2>4, <2>7, <2>8 DEF Redeemed
  <2>11. couponRow(c) \notin Locks(p)
    <3>1. ~ \E w \in Reserved(p) : couponRow(c) = stockRow(w)
      BY RowNames
    <3>2. /\ couponRow(c) # orderRow(at[p].order) /\ couponRow(c) # resvRow(at[p].order)
      <4>1. /\ couponRow(c)[1] = "coupon" /\ orderRow(at[p].order)[1] = "order"
            /\ resvRow(at[p].order)[1] = "resv"
        BY RowNames
      <4> QED
        BY <4>1
    <3> QED
      BY <1>2, <2>10, <3>1, <3>2 DEF Locks
  <2>12. used = db[couponRow(c)]
    BY <2>2, <2>11, ReadsCommitted
  <2>13. Locks(p)' = {couponRow(c)} \cup Locks(p)
    BY <1>2, <2>4, <2>7, <2>9, <2>10 DEF Locks
  <2>14. Ascending(p)'
    BY <1>2, <2>2, <2>4, <2>7, <2>8, <2>9 DEF Ascending
  <2>15. Progress(p)'
    <3>1. DOMAIN dirty'[p] = Locks(p)'
      BY <2>2, <2>6, <2>13 DEF Progress
    <3>2. \A r \in Locks(p) : r # couponRow(c) /\ dirty'[p][r] = dirty[p][r]
      BY <2>6, <2>11, <2>13, <3>1
    <3>3. orderRow(at[p].order) \in Locks(p) /\ resvRow(at[p].order) \in Locks(p)
          /\ \A w \in Reserved(p) : stockRow(w) \in Locks(p)
      BY DEF Locks
    <3>4. /\ dirty'[p][orderRow(at[p].order)] = OrderWithItems(QuoteOf(p))
          /\ dirty'[p][resvRow(at[p].order)] = "held"
          /\ \A w \in Reserved(p) :
               dirty'[p][stockRow(w)] = ReserveStock(db[stockRow(w)], QuoteOf(p).lines[w])
      BY <2>2, <3>2, <3>3 DEF Progress
    <3>5. /\ UsageLimit[c] # NoLimit => db[couponRow(c)] < UsageLimit[c]
          /\ dirty'[p][couponRow(c)] = db[couponRow(c)] + 1
      BY <1>2, <2>6, <2>12 DEF Redeemable
    <3> QED
      BY <2>2, <2>4, <2>6, <2>7, <2>8, <2>9, <2>10, <3>1, <3>4, <3>5 DEF Progress
  <2>16. HandlerOK(p)'
    BY <2>2, <2>4, <2>7, <2>8, <2>14, <2>15 DEF HandlerOK, OpenTx
  <2>17. DOMAIN rows \subseteq Row
    BY <2>3, <2>5, RowsThere
  <2> QED
    BY <1>2, <2>16, <2>17, WriteKeeps
<1> QED
  BY <1>1, <1>2 DEF RedeemCoupon

(* The cart is converted and the charge created.                           *)
LEMMA ConvertCartKeeps ==
  ASSUME IInv, NEW p \in Client, ConvertCart(p)
  PROVE  IInv' /\ db' = db
<1> DEFINE cart == cartRow(at[p].request.user, at[p].cart)
           charge == chargeRow(at[p].order)
           rows == Together(Only(cart, "converted"), Only(charge, "pending"))
           f == [at[p] EXCEPT !.pc = "key"]
<1>1. at[p].pc = "cart" /\ Write(p, rows) /\ Goto(p, f)
  BY DEF ConvertCart, SetCartStatus, CreateCharge
<1>2. HandlerOK(p) /\ at[p].pc \in OpenTx
  BY <1>1 DEF IInv, OpenTx
<1>3. /\ Ascending(p) /\ Progress(p) /\ at[p] \in Frame
      /\ QuoteOf(p) \in Quotes /\ QuoteOf(p).user = at[p].request.user
  BY <1>1, <1>2 DEF HandlerOK
<1>4. at[p].order \in Order /\ at[p].cart \in CartNo /\ at[p].request.user \in User
  BY <1>1, <1>2, <1>3, FrameShape DEF Progress
<1>5. cart \in Row /\ charge \in Row /\ cart # charge
  <2>1. cart[1] = "cart" /\ charge[1] = "charge"
    BY RowNames
  <2> QED
    BY <1>4, <2>1, RowsThere
<1>6. f \in Frame /\ f.pc = "key" /\ f.todo = at[p].todo /\ f.order = at[p].order
      /\ f.cart = at[p].cart /\ f.request = at[p].request
  BY <1>3 DEF Frame, OpenTx
<1> HIDE DEF f, cart, charge
<1>7. DOMAIN rows = {cart, charge} /\ rows[cart] = "converted" /\ rows[charge] = "pending"
  BY <1>5, Zenon DEF Only, Together
<1> HIDE DEF rows
<1>8. /\ db' = db /\ DOMAIN dirty'[p] = {cart, charge} \cup DOMAIN dirty[p]
      /\ \A r \in DOMAIN dirty'[p] :
           dirty'[p][r] = IF r \in DOMAIN rows THEN rows[r] ELSE dirty[p][r]
  BY <1>1, <1>5, <1>7, WriteRows, ClientAssumption DEF IInv
<1>9. at'[p] = f
  BY <1>1, GotoEffect
<1>10. QuoteOf(p)' = QuoteOf(p)
  BY <1>6, <1>8, <1>9 DEF QuoteOf
<1>11. Reserved(p)' = Reserved(p)
  BY <1>6, <1>9, <1>10 DEF Reserved
<1>12. Redeemed(p)' = Redeemed(p)
  BY <1>1, <1>6, <1>9, <1>10 DEF Redeemed
<1>13. \A r \in Locks(p) : r \notin {cart, charge}
  <2>1. /\ cart[1] = "cart" /\ charge[1] = "charge"
    BY RowNames DEF cart, charge
  <2>2. ASSUME NEW r \in Locks(p) PROVE r[1] \in {"order", "resv", "stock", "coupon"}
    <3>1. CASE r \in {orderRow(at[p].order), resvRow(at[p].order)}
      BY <3>1, RowNames
    <3>2. CASE r \in {stockRow(w) : w \in Reserved(p)}
      BY <3>2, RowNames
    <3>3. CASE r \in {couponRow(c) : c \in Redeemed(p)}
      BY <3>3, RowNames
    <3> QED
      BY <1>1, <3>1, <3>2, <3>3 DEF Locks
  <2> QED
    BY <2>1, <2>2
<1>14. Locks(p)' = {cart, charge} \cup Locks(p)
  BY <1>1, <1>6, <1>9, <1>11, <1>12 DEF Locks, cart, charge
<1>15. Ascending(p)'
  BY <1>1, <1>3, <1>6, <1>9, <1>10, <1>11 DEF Ascending
<1>16. Progress(p)'
  <2>1. DOMAIN dirty'[p] = Locks(p)'
    BY <1>3, <1>8, <1>14 DEF Progress
  <2>2. \A r \in Locks(p) : dirty'[p][r] = dirty[p][r]
    BY <1>7, <1>8, <1>13, <1>14, <2>1
  <2>3. orderRow(at[p].order) \in Locks(p) /\ resvRow(at[p].order) \in Locks(p)
        /\ (\A w \in Reserved(p) : stockRow(w) \in Locks(p))
        /\ (\A c \in Redeemed(p) : couponRow(c) \in Locks(p))
    BY DEF Locks
  <2>4. /\ dirty'[p][orderRow(at[p].order)] = OrderWithItems(QuoteOf(p))
        /\ dirty'[p][resvRow(at[p].order)] = "held"
        /\ \A w \in Reserved(p) :
             dirty'[p][stockRow(w)] = ReserveStock(db[stockRow(w)], QuoteOf(p).lines[w])
        /\ \A c \in Redeemed(p) : dirty'[p][couponRow(c)] = db[couponRow(c)] + 1
    BY <1>3, <2>2, <2>3 DEF Progress
  <2>5. dirty'[p][cart] = "converted" /\ dirty'[p][charge] = "pending"
    BY <1>7, <1>8
  <2>6. cart' = cart /\ charge' = charge
    BY <1>6, <1>9 DEF cart, charge
  <2> QED
    BY <1>3, <1>6, <1>8, <1>9, <1>10, <1>11, <1>12, <2>1, <2>4, <2>5, <2>6
    DEF Progress, cart, charge
<1>17. HandlerOK(p)'
  BY <1>3, <1>6, <1>9, <1>10, <1>15, <1>16 DEF HandlerOK, OpenTx
<1> QED
  BY <1>1, <1>5, <1>7, <1>17, WriteKeeps

(* The locks of a confirm, table by table.                                 *)
LEMMA LocksByTable ==
  ASSUME NEW p \in Client
  PROVE  /\ \A x : orderRow(x) \in Locks(p) <=> x = at[p].order
         /\ \A x : resvRow(x) \in Locks(p) <=> x = at[p].order
         /\ \A x : chargeRow(x) \in Locks(p) <=> x = at[p].order /\ at[p].pc = "key"
         /\ \A v : stockRow(v) \in Locks(p) <=> v \in Reserved(p)
         /\ \A c : couponRow(c) \in Locks(p) <=> c \in Redeemed(p)
         /\ \A q : quoteRow(q) \notin Locks(p)
         /\ \A u, x : itemsRow(u, x) \notin Locks(p) /\ keyRow(u, x) \notin Locks(p)
         /\ \A u, x : cartRow(u, x) \in Locks(p) => at[p].pc = "key"
<1> DEFINE A == {orderRow(at[p].order), resvRow(at[p].order)}
           B == {stockRow(v) : v \in Reserved(p)}
           C == {couponRow(c) : c \in Redeemed(p)}
           D == {r \in {cartRow(at[p].request.user, at[p].cart), chargeRow(at[p].order)} :
                   at[p].pc = "key"}
<1>1. Locks(p) = A \cup B \cup C \cup D
  BY DEF Locks
<1>2. /\ \A r \in A : r[1] \in {"order", "resv"} /\ r[2] = at[p].order
      /\ \A r \in B : r[1] = "stock" /\ r[2] \in Reserved(p)
      /\ \A r \in C : r[1] = "coupon" /\ r[2] \in Redeemed(p)
      /\ \A r \in D : /\ r[1] \in {"cart", "charge"} /\ at[p].pc = "key"
                      /\ r[1] = "charge" => r[2] = at[p].order
  BY RowNames
<1>3. /\ orderRow(at[p].order) \in A /\ resvRow(at[p].order) \in A
      /\ (\A v \in Reserved(p) : stockRow(v) \in B)
      /\ (\A c \in Redeemed(p) : couponRow(c) \in C)
      /\ (at[p].pc = "key" => chargeRow(at[p].order) \in D)
  OBVIOUS
<1> HIDE DEF A, B, C, D
<1>4. /\ \A r \in Locks(p) : r[1] \in {"order", "resv", "charge"} => r[2] = at[p].order
      /\ \A r \in Locks(p) : r[1] \in {"cart", "charge"} => at[p].pc = "key"
      /\ \A r \in Locks(p) : r[1] = "stock" => r[2] \in Reserved(p)
      /\ \A r \in Locks(p) : r[1] = "coupon" => r[2] \in Redeemed(p)
      /\ \A r \in Locks(p) : r[1] \notin {"quote", "items", "key"}
  BY <1>1, <1>2
<1>5. ASSUME NEW x
      PROVE  /\ orderRow(x) \in Locks(p) => x = at[p].order
             /\ resvRow(x) \in Locks(p) => x = at[p].order
             /\ chargeRow(x) \in Locks(p) => x = at[p].order /\ at[p].pc = "key"
             /\ stockRow(x) \in Locks(p) => x \in Reserved(p)
             /\ couponRow(x) \in Locks(p) => x \in Redeemed(p)
             /\ quoteRow(x) \notin Locks(p)
  BY <1>4, RowNames
<1>6. ASSUME NEW u, NEW x
      PROVE  /\ itemsRow(u, x) \notin Locks(p) /\ keyRow(u, x) \notin Locks(p)
             /\ cartRow(u, x) \in Locks(p) => at[p].pc = "key"
  BY <1>4, RowNames
<1> QED
  BY <1>1, <1>3, <1>5, <1>6

(* What a confirm that claims its key commits, table by table.             *)
Committed(p) ==
  LET o == at[p].order  r == at[p].request  q == QuoteOf(p) IN
  /\ \A x \in Order :
       /\ db'[orderRow(x)] = IF x = o THEN OrderWithItems(q) ELSE db[orderRow(x)]
       /\ db'[resvRow(x)] = IF x = o THEN "held" ELSE db[resvRow(x)]
       /\ db'[chargeRow(x)] = IF x = o THEN "pending" ELSE db[chargeRow(x)]
  /\ \A v \in Variant :
       db'[stockRow(v)] = IF v \in Bought(q.lines) THEN ReserveStock(db[stockRow(v)], q.lines[v])
                                                   ELSE db[stockRow(v)]
  /\ \A c \in Coupon :
       db'[couponRow(c)] = IF c = q.coupon THEN db[couponRow(c)] + 1 ELSE db[couponRow(c)]
  /\ \A x \in QuoteId : db'[quoteRow(x)] = db[quoteRow(x)]
  /\ \A u \in User, n \in CartNo : db'[itemsRow(u, n)] = db[itemsRow(u, n)]
  /\ \A u \in User, k \in Key :
       db'[keyRow(u, k)] = IF u = r.user /\ k = r.key THEN {[quote |-> r.quote, order |-> o]}
                                                      ELSE db[keyRow(u, k)]

(* The stock, the coupon and the key it finds at its COMMIT.               *)
Granted(p) ==
  LET o == at[p].order  r == at[p].request  q == QuoteOf(p) IN
  /\ o \in Order /\ db[orderRow(o)] = NoOrder
  /\ q \in Quotes /\ q.user = r.user
  /\ \A v \in Bought(q.lines) : Enough(db[stockRow(v)], q.lines[v])
  /\ q.coupon # NoCoupon /\ UsageLimit[q.coupon] # NoLimit =>
       db[couponRow(q.coupon)] < UsageLimit[q.coupon]
  /\ r \in Request /\ db[keyRow(r.user, r.key)] = {}

(* Its COMMIT publishes all of it.                                         *)
LEMMA ClaimCommits ==
  ASSUME IInv, NEW p \in Client, at[p].pc = "key", KeyFree(p),
         CommitWith(p, PutIdempotencyKey(at[p].request, at[p].order))
  PROVE  /\ Committed(p) /\ Granted(p)
         /\ StoreOf(Row)' /\ LocksExclusive' /\ dirty'[p] = NoWrites
         /\ \A q \in Proc \ {p} : /\ dirty'[q] = dirty[q]
                                  /\ \A r \in DOMAIN dirty[q] : db'[r] = db[r]
<1> DEFINE o == at[p].order
           r == at[p].request
           q == QuoteOf(p)
           key == keyRow(r.user, r.key)
           hit == {[quote |-> r.quote, order |-> o]}
           rows == Only(key, hit)
<1>1. HandlerOK(p) /\ at[p].pc \in OpenTx
  BY DEF IInv, OpenTx
<1>2. Ascending(p) /\ Progress(p) /\ q \in Quotes /\ q.user = r.user
  BY <1>1 DEF HandlerOK
<1>3. /\ r \in Request /\ r.user \in User /\ r.key \in Key /\ o \in Order /\ key \in Row
      /\ q.coupon \in Coupon \cup {NoCoupon}
  BY <1>1, <1>2, FrameShape, RowsThere DEF Progress
<1>4. CommitWith(p, rows)
  BY DEF PutIdempotencyKey
<1> HIDE DEF key, hit
<1>5. DOMAIN rows = {key} /\ rows[key] = hit
  BY OnlyRow
<1> HIDE DEF rows
<1>6. /\ StoreOf(Row)' /\ LocksExclusive' /\ dirty'[p] = NoWrites
      /\ \A x \in Row : db'[x] = IF x = key THEN hit ELSE Read(p, x)
      /\ \A s \in Proc \ {p} : /\ dirty'[s] = dirty[s]
                               /\ \A x \in DOMAIN dirty[s] : db'[x] = db[x]
  <2>1. DOMAIN rows \subseteq Row /\ StoreOf(Row) /\ LocksExclusive /\ p \in Proc
    BY <1>3, <1>5, ClientAssumption DEF IInv
  <2> QED
    BY <1>4, <1>5, <2>1, CommitRows
<1>7. Reserved(p) = Bought(q.lines) /\ Redeemed(p) = {c \in Coupon : c = q.coupon}
  <2>1. at[p].todo = <<>>
    BY <1>2 DEF Ascending
  <2>2. ToSet(<<>>) = {}
    BY DEF ToSet
  <2> QED
    BY <2>1, <2>2 DEF Reserved, Redeemed
<1>8. DOMAIN dirty[p] = Locks(p)
  BY <1>2 DEF Progress
<1>9. \A x \in Row : /\ x \in Locks(p) /\ x # key => db'[x] = dirty[p][x]
                     /\ x \notin Locks(p) /\ x # key => db'[x] = db[x]
  BY <1>6, <1>8 DEF Read
<1>10. ASSUME NEW x \in Order
      PROVE  /\ db'[orderRow(x)] = IF x = o THEN OrderWithItems(q) ELSE db[orderRow(x)]
             /\ db'[resvRow(x)] = IF x = o THEN "held" ELSE db[resvRow(x)]
             /\ db'[chargeRow(x)] = IF x = o THEN "pending" ELSE db[chargeRow(x)]
  <2>1. key # orderRow(x) /\ key # resvRow(x) /\ key # chargeRow(x)
    <3>1. /\ key[1] = "key" /\ orderRow(x)[1] = "order" /\ resvRow(x)[1] = "resv"
          /\ chargeRow(x)[1] = "charge"
      BY RowNames DEF key
    <3> QED
      BY <3>1
  <2>2. orderRow(x) \in Row /\ resvRow(x) \in Row /\ chargeRow(x) \in Row
    BY RowsThere
  <2>3. CASE x = o
    <3>1. orderRow(o) \in Locks(p) /\ resvRow(o) \in Locks(p) /\ chargeRow(o) \in Locks(p)
      BY LocksByTable
    <3> QED
      BY <1>2, <1>9, <2>1, <2>2, <2>3, <3>1 DEF Progress
  <2>4. CASE x # o
    <3>1. orderRow(x) \notin Locks(p) /\ resvRow(x) \notin Locks(p) /\ chargeRow(x) \notin Locks(p)
      BY <2>4, LocksByTable
    <3> QED
      BY <1>9, <2>1, <2>2, <2>4, <3>1
  <2> QED
    BY <2>3, <2>4
<1>11. ASSUME NEW v \in Variant
       PROVE  db'[stockRow(v)] = IF v \in Bought(q.lines)
                                   THEN ReserveStock(db[stockRow(v)], q.lines[v])
                                   ELSE db[stockRow(v)]
  <2>1. key # stockRow(v) /\ stockRow(v) \in Row
    <3>1. key[1] = "key" /\ stockRow(v)[1] = "stock"
      BY RowNames DEF key
    <3> QED
      BY <3>1, RowsThere
  <2>2. stockRow(v) \in Locks(p) <=> v \in Bought(q.lines)
    BY <1>7, LocksByTable
  <2>3. v \in Bought(q.lines) =>
          dirty[p][stockRow(v)] = ReserveStock(db[stockRow(v)], q.lines[v])
    BY <1>2, <1>7 DEF Progress
  <2> QED
    BY <1>9, <2>1, <2>2, <2>3
<1>12. ASSUME NEW c \in Coupon
       PROVE  db'[couponRow(c)] = IF c = q.coupon THEN db[couponRow(c)] + 1 ELSE db[couponRow(c)]
  <2>1. key # couponRow(c) /\ couponRow(c) \in Row
    <3>1. key[1] = "key" /\ couponRow(c)[1] = "coupon"
      BY RowNames DEF key
    <3> QED
      BY <3>1, RowsThere
  <2>2. couponRow(c) \in Locks(p) <=> c = q.coupon
    BY <1>7, LocksByTable
  <2>3. c = q.coupon => dirty[p][couponRow(c)] = db[couponRow(c)] + 1
    BY <1>2, <1>7 DEF Progress
  <2> QED
    BY <1>9, <2>1, <2>2, <2>3
<1>13. ASSUME NEW x \in QuoteId PROVE db'[quoteRow(x)] = db[quoteRow(x)]
  <2>1. key # quoteRow(x) /\ quoteRow(x) \in Row
    <3>1. key[1] = "key" /\ quoteRow(x)[1] = "quote"
      BY RowNames DEF key
    <3> QED
      BY <3>1, RowsThere
  <2> QED
    BY <1>9, <2>1, LocksByTable
<1>14. ASSUME NEW u \in User, NEW n \in CartNo PROVE db'[itemsRow(u, n)] = db[itemsRow(u, n)]
  <2>1. key # itemsRow(u, n) /\ itemsRow(u, n) \in Row
    <3>1. key[1] = "key" /\ itemsRow(u, n)[1] = "items"
      BY RowNames DEF key
    <3> QED
      BY <3>1, RowsThere
  <2> QED
    BY <1>9, <2>1, LocksByTable
<1>15. ASSUME NEW u \in User, NEW k \in Key
       PROVE  db'[keyRow(u, k)] = IF u = r.user /\ k = r.key THEN hit ELSE db[keyRow(u, k)]
  <2>1. key = keyRow(u, k) <=> u = r.user /\ k = r.key
    <3>1. key[2] = r.user /\ key[3] = r.key /\ keyRow(u, k)[2] = u /\ keyRow(u, k)[3] = k
      BY RowNames DEF key
    <3> QED
      BY <3>1 DEF key
  <2>2. keyRow(u, k) \in Row /\ keyRow(u, k) \notin Locks(p)
    BY LocksByTable, RowsThere
  <2> QED
    BY <1>6, <1>9, <2>1, <2>2
<1>16. Committed(p)
  BY <1>10, <1>11, <1>12, <1>13, <1>14, <1>15 DEF Committed, hit
<1>17. db[key] = {}
  <2>1. key \notin Locks(p)
    BY LocksByTable DEF key
  <2> QED
    BY <1>2, <2>1, ReadsCommitted DEF KeyFree, key
<1>18. Granted(p)
  <2>1. q.coupon # NoCoupon => q.coupon \in Redeemed(p)
    BY <1>3, <1>7
  <2>2. /\ db[orderRow(o)] = NoOrder
        /\ \A v \in Bought(q.lines) : Enough(db[stockRow(v)], q.lines[v])
        /\ q.coupon # NoCoupon /\ UsageLimit[q.coupon] # NoLimit =>
             db[couponRow(q.coupon)] < UsageLimit[q.coupon]
    BY <1>2, <1>7, <2>1 DEF Progress
  <2> QED
    BY <1>2, <1>3, <1>17, <2>2 DEF Granted, key
<1> QED
  BY <1>6, <1>16, <1>18

(* What a commit leaves of the quotes, and with it of every other confirm. *)
LEMMA OthersKeepCommit ==
  ASSUME IInv, NEW p \in Proc, DOMAIN at' = Client, \A q \in Client \ {p} : at'[q] = at[q],
         \A q \in Proc \ {p} : /\ dirty'[q] = dirty[q]
                               /\ \A r \in DOMAIN dirty[q] : db'[r] = db[r],
         \A x \in QuoteId : db[quoteRow(x)] # NoQuote => db'[quoteRow(x)] = db[quoteRow(x)]
  PROVE  \A q \in Client \ {p} : HandlerOK(q)'
<1> SUFFICES ASSUME NEW q \in Client \ {p} PROVE HandlerOK(q)'
  OBVIOUS
<1>1. HandlerOK(q) /\ at'[q] = at[q] /\ dirty'[q] = dirty[q]
      /\ \A r \in DOMAIN dirty[q] : db'[r] = db[r]
  BY ClientAssumption DEF IInv
<1> QED
  BY <1>1, OthersKeep

(* The values a confirm commits have their columns' types.                 *)
LEMMA ClaimTypes ==
  ASSUME IInv, NEW p \in Client, Committed(p), Granted(p)
  PROVE  RowsOK'
<1> DEFINE o == at[p].order
           r == at[p].request
           q == QuoteOf(p)
<1>1. q.lines \in [Variant -> 0..MaxQty] /\ r.quote \in QuoteId /\ o \in Order
  <2>1. q \in [user : User, lines : S!Lines, coupon : Coupon \cup {NoCoupon}]
    BY DEF Granted, Quotes
  <2>2. q.lines \in S!Lines
    BY <2>1
  <2> QED
    BY <2>2, RequestShape DEF Granted, S!Lines
<1>2. ASSUME NEW v \in Variant PROVE db'[stockRow(v)] \in Counters
  <2>1. db[stockRow(v)] \in Counters
    BY DEF IInv, RowsOK
  <2>2. CASE v \in Bought(q.lines)
    <3>1. /\ db'[stockRow(v)] = ReserveStock(db[stockRow(v)], q.lines[v])
          /\ Enough(db[stockRow(v)], q.lines[v]) /\ q.lines[v] \in Nat
      BY <1>1, <2>2, QtyAssumption DEF Committed, Granted
    <3> DEFINE s == db[stockRow(v)]
               n == q.lines[v]
    <3>2. s.available \in 0..MaxInt /\ s.reserved \in 0..MaxInt /\ MaxInt \in Nat
      BY <2>1, QtyAssumption DEF Counters
    <3>3. s.available >= n /\ s.reserved + n <= MaxInt /\ n \in Nat
      BY <3>1 DEF Enough
    <3> HIDE DEF s, n
    <3>4. s.available - n \in 0..MaxInt /\ s.reserved + n \in 0..MaxInt
      BY <3>2, <3>3
    <3>5. db'[stockRow(v)] = [available |-> s.available - n, reserved |-> s.reserved + n]
      BY <3>1 DEF ReserveStock, s, n
    <3> QED
      BY <3>4, <3>5 DEF Counters
  <2>3. CASE v \notin Bought(q.lines)
    BY <2>1, <2>3 DEF Committed
  <2> QED
    BY <2>2, <2>3
<1>3. ASSUME NEW c \in Coupon PROVE db'[couponRow(c)] \in Nat
  <2>1. db[couponRow(c)] \in Nat
    BY DEF IInv, RowsOK
  <2>2. db[couponRow(c)] + 1 \in Nat
    BY <2>1
  <2> QED
    BY <2>1, <2>2 DEF Committed
<1>4. \A x \in QuoteId : db'[quoteRow(x)] \in Quotes \cup {NoQuote}
  BY DEF Committed, IInv, RowsOK
<1>5. \A u \in User, n \in CartNo : db'[itemsRow(u, n)] \in [Variant -> 0..MaxQty]
  BY DEF Committed, IInv, RowsOK
<1>6. ASSUME NEW u \in User, NEW k \in Key
      PROVE  /\ db'[keyRow(u, k)] \subseteq Response
             /\ \A a, b \in db'[keyRow(u, k)] : a = b
  <2>1. [quote |-> r.quote, order |-> o] \in Response
    BY <1>1 DEF Response
  <2>2. CASE u = r.user /\ k = r.key
    <3>1. db'[keyRow(u, k)] = {[quote |-> r.quote, order |-> o]}
      BY <2>2 DEF Committed
    <3> QED
      BY <2>1, <3>1
  <2>3. CASE ~(u = r.user /\ k = r.key)
    <3>1. db'[keyRow(u, k)] = db[keyRow(u, k)]
      BY <2>3 DEF Committed
    <3> QED
      BY <3>1 DEF IInv, RowsOK
  <2> QED
    BY <2>2, <2>3
<1> QED
  BY <1>2, <1>3, <1>4, <1>5, <1>6 DEF RowsOK

(* The key it claims names its order, and its order is in it; no other key *)
(* and no other order changes.                                             *)
LEMMA ClaimKeys ==
  ASSUME IInv, NEW p \in Client, Committed(p), Granted(p),
         answers' \subseteq answers \cup {<<at[p].request, at[p].order>>}
  PROVE  KeysOK'
<1> DEFINE o == at[p].order
           r == at[p].request
           q == QuoteOf(p)
           hit == [quote |-> r.quote, order |-> o]
<1>1. /\ o \in Order /\ r \in Request /\ r.user \in User /\ r.key \in Key
      /\ db[keyRow(r.user, r.key)] = {} /\ q.user = r.user
      /\ db'[keyRow(r.user, r.key)] = {hit}
  BY RequestShape DEF Granted, Committed
<1>2. \A u \in User, k \in Key : db[keyRow(u, k)] # {} => db'[keyRow(u, k)] = db[keyRow(u, k)]
  BY <1>1 DEF Committed
<1>3. KeysOK
  BY DEF IInv
<1>4. answers' \subseteq Request \X Order
  BY <1>1, <1>3 DEF KeysOK
<1>5. ASSUME NEW a \in answers'
      PROVE  db'[keyRow(a[1].user, a[1].key)] = {[quote |-> a[1].quote, order |-> a[2]]}
  <2>1. CASE a \in answers
    <3>1. /\ db[keyRow(a[1].user, a[1].key)] = {[quote |-> a[1].quote, order |-> a[2]]}
          /\ a[1] \in Request
      BY <1>3, <2>1 DEF KeysOK
    <3>2. a[1].user \in User /\ a[1].key \in Key
      BY <3>1, RequestShape
    <3> QED
      BY <1>2, <3>1, <3>2
  <2>2. CASE a = <<r, o>>
    BY <1>1, <2>2
  <2> QED
    BY <2>1, <2>2
<1>6. ASSUME NEW x \in Order, db'[orderRow(x)] # NoOrder
      PROVE  /\ db'[orderRow(x)].user \in User
             /\ \E k \in Key : \E h \in db'[keyRow(db'[orderRow(x)].user, k)] : h.order = x
  <2>1. CASE x = o
    <3>1. db'[orderRow(x)] = OrderWithItems(q)
      BY <2>1 DEF Committed
    <3>2. db'[orderRow(x)].user = r.user
      BY <1>1, <3>1 DEF OrderWithItems, CreateOrderItems, CreateOrder
    <3>3. hit \in db'[keyRow(r.user, r.key)] /\ hit.order = x
      BY <1>1, <2>1
    <3> QED
      BY <1>1, <3>2, <3>3
  <2>2. CASE x # o
    <3>1. db'[orderRow(x)] = db[orderRow(x)]
      BY <2>2 DEF Committed
    <3>2. /\ db[orderRow(x)].user \in User
          /\ \E k \in Key : \E h \in db[keyRow(db[orderRow(x)].user, k)] : h.order = x
      BY <1>3, <1>6, <3>1 DEF KeysOK
    <3> QED
      BY <1>2, <3>1, <3>2
  <2> QED
    BY <2>1, <2>2
<1> QED
  BY <1>4, <1>5, <1>6 DEF KeysOK

(* The insert of the key and the COMMIT.                                   *)
LEMMA ClaimKeyKeeps ==
  ASSUME IInv, NEW p \in Client, ClaimKey(p)
  PROVE  /\ IInv'
         /\ db' = db \/ (Committed(p) /\ Granted(p))
<1>1. CASE Refuse(p)
  BY <1>1, RefuseKeeps
<1>2. ASSUME at[p].pc = "key", KeyFree(p),
             CommitWith(p, PutIdempotencyKey(at[p].request, at[p].order)),
             Answer(p, at[p].request, at[p].order) \/ Goto(p, Idle)
      PROVE  IInv' /\ Committed(p) /\ Granted(p)
  <2>1. /\ Committed(p) /\ Granted(p)
        /\ StoreOf(Row)' /\ LocksExclusive' /\ dirty'[p] = NoWrites
        /\ \A q \in Proc \ {p} : /\ dirty'[q] = dirty[q]
                                 /\ \A r \in DOMAIN dirty[q] : db'[r] = db[r]
    BY <1>2, ClaimCommits
  <2>2. /\ DOMAIN at' = Client /\ at'[p] = Idle /\ lapsed' = lapsed
        /\ \A q \in Client \ {p} : at'[q] = at[q]
        /\ answers' \subseteq answers \cup {<<at[p].request, at[p].order>>}
    BY <1>2 DEF Answer, Goto, IInv
  <2>3. \A q \in Client \ {p} : HandlerOK(q)'
    <3>1. \A x \in QuoteId : db[quoteRow(x)] # NoQuote => db'[quoteRow(x)] = db[quoteRow(x)]
      BY <2>1 DEF Committed
    <3> QED
      BY <2>1, <2>2, <3>1, OthersKeepCommit, ClientAssumption
  <2>4. HandlerOK(p)'
    BY <2>1, <2>2, IdleOK
  <2>5. RowsOK' /\ KeysOK'
    BY <2>1, <2>2, ClaimTypes, ClaimKeys
  <2>6. dirty'[Shop] = NoWrites
    BY <2>1, ClientAssumption DEF IInv
  <2> QED
    BY <2>1, <2>2, <2>3, <2>4, <2>5, <2>6 DEF IInv
<1> QED
  BY <1>1, <1>2 DEF ClaimKey

(* A commit of the other requests keeps the invariant: it touches quotes   *)
(* not yet written, carts and stock.                                       *)
LEMMA ShopKeeps ==
  ASSUME IInv, NEW rows, DOMAIN rows \subseteq Row, CommitWith(Shop, rows), Shopping,
         \A r \in DOMAIN rows : r[1] \in {"quote", "cart", "items", "stock"},
         \A x \in QuoteId : quoteRow(x) \in DOMAIN rows =>
           db[quoteRow(x)] = NoQuote /\ rows[quoteRow(x)] \in Quotes,
         \A v \in Variant : stockRow(v) \in DOMAIN rows => rows[stockRow(v)] \in Counters,
         \A u \in User, n \in CartNo : itemsRow(u, n) \in DOMAIN rows =>
           rows[itemsRow(u, n)] \in [Variant -> 0..MaxQty]
  PROVE  /\ IInv'
         /\ \A r \in Row : db'[r] = IF r \in DOMAIN rows THEN rows[r] ELSE db[r]
<1>1. Shop \in Proc /\ DOMAIN dirty[Shop] = {}
  BY ClientAssumption DEF IInv, NoWrites
<1>2. /\ StoreOf(Row)' /\ LocksExclusive' /\ dirty'[Shop] = NoWrites
      /\ \A r \in Row : db'[r] = IF r \in DOMAIN rows THEN rows[r] ELSE Read(Shop, r)
      /\ \A s \in Proc \ {Shop} : /\ dirty'[s] = dirty[s]
                                  /\ \A x \in DOMAIN dirty[s] : db'[x] = db[x]
  BY <1>1, CommitRows DEF IInv
<1>3. \A r \in Row : db'[r] = IF r \in DOMAIN rows THEN rows[r] ELSE db[r]
  BY <1>1, <1>2 DEF Read
<1>4. at' = at /\ lapsed' = lapsed /\ answers' = answers
  BY DEF Shopping
<1>5. \A x \in QuoteId : db[quoteRow(x)] # NoQuote => db'[quoteRow(x)] = db[quoteRow(x)]
  BY <1>3, RowsThere
<1>6. \A q \in Client : HandlerOK(q)'
  <2>1. DOMAIN at' = Client /\ \A q \in Client \ {Shop} : at'[q] = at[q]
    BY <1>4 DEF IInv
  <2>2. \A q \in Client \ {Shop} : HandlerOK(q)'
    BY <1>1, <1>2, <1>5, <2>1, OthersKeepCommit
  <2> QED
    BY <2>2, ClientAssumption
<1>7. RowsOK'
  <2>1. ASSUME NEW v \in Variant PROVE db'[stockRow(v)] \in Counters
    BY <1>3, RowsThere DEF IInv, RowsOK
  <2>2. ASSUME NEW c \in Coupon PROVE db'[couponRow(c)] \in Nat
    <3>1. couponRow(c) \in Row /\ couponRow(c) \notin DOMAIN rows
      BY RowNames, RowsThere
    <3> QED
      BY <1>3, <3>1 DEF IInv, RowsOK
  <2>3. ASSUME NEW x \in QuoteId PROVE db'[quoteRow(x)] \in Quotes \cup {NoQuote}
    BY <1>3, RowsThere DEF IInv, RowsOK
  <2>4. ASSUME NEW u \in User, NEW n \in CartNo
        PROVE  db'[itemsRow(u, n)] \in [Variant -> 0..MaxQty]
    BY <1>3, RowsThere DEF IInv, RowsOK
  <2>5. ASSUME NEW u \in User, NEW k \in Key PROVE db'[keyRow(u, k)] = db[keyRow(u, k)]
    <3>1. keyRow(u, k) \in Row /\ keyRow(u, k) \notin DOMAIN rows
      BY RowNames, RowsThere
    <3> QED
      BY <1>3, <3>1
  <2>6. \A u \in User, k \in Key : /\ db'[keyRow(u, k)] \subseteq Response
                                   /\ \A a, b \in db'[keyRow(u, k)] : a = b
    BY <2>5 DEF IInv, RowsOK
  <2> QED
    BY <2>1, <2>2, <2>3, <2>4, <2>6 DEF RowsOK
<1>8. KeysOK'
  <2>1. KeysOK
    BY DEF IInv
  <2>2. ASSUME NEW u \in User, NEW k \in Key PROVE db'[keyRow(u, k)] = db[keyRow(u, k)]
    <3>1. keyRow(u, k) \in Row /\ keyRow(u, k) \notin DOMAIN rows
      BY RowNames, RowsThere
    <3> QED
      BY <1>3, <3>1
  <2>3. ASSUME NEW o \in Order PROVE db'[orderRow(o)] = db[orderRow(o)]
    <3>1. orderRow(o) \in Row /\ orderRow(o) \notin DOMAIN rows
      BY RowNames, RowsThere
    <3> QED
      BY <1>3, <3>1
  <2>4. ASSUME NEW a \in answers'
        PROVE  db'[keyRow(a[1].user, a[1].key)] = {[quote |-> a[1].quote, order |-> a[2]]}
    <3>1. /\ db[keyRow(a[1].user, a[1].key)] = {[quote |-> a[1].quote, order |-> a[2]]}
          /\ a[1] \in Request
      BY <1>4, <2>1, <2>4 DEF KeysOK
    <3> QED
      BY <2>2, <3>1, RequestShape
  <2>5. ASSUME NEW o \in Order, db'[orderRow(o)] # NoOrder
        PROVE  /\ db'[orderRow(o)].user \in User
               /\ \E k \in Key : \E hit \in db'[keyRow(db'[orderRow(o)].user, k)] : hit.order = o
    <3>1. /\ db[orderRow(o)].user \in User
          /\ \E k \in Key : \E hit \in db[keyRow(db[orderRow(o)].user, k)] : hit.order = o
      BY <2>1, <2>3, <2>5 DEF KeysOK
    <3> QED
      BY <2>2, <2>3, <3>1
  <2> QED
    BY <1>4, <2>1, <2>4, <2>5 DEF KeysOK
<1> QED
  BY <1>2, <1>3, <1>4, <1>6, <1>7, <1>8 DEF IInv

(* A quote is of the lines of a cart of its user.                          *)
LEMMA QuoteKeeps ==
  ASSUME IInv, NEW q \in QuoteId, NEW u \in User, NEW c \in Coupon \cup {NoCoupon},
         Quote(q, u, c)
  PROVE  /\ IInv'
         /\ \A r \in Row : r[1] # "quote" => db'[r] = db[r]
<1>1. PICK lines \in CartView(u) \ {NoLines} : CommitWith(Shop, CreateQuote(q, u, lines, c))
  BY DEF Quote
<1> DEFINE quote == [user |-> u, lines |-> lines, coupon |-> c]
           rows == Only(quoteRow(q), quote)
<1>2. lines \in [Variant -> 0..MaxQty]
  <2>1. PICK n \in CartNo : lines = db[itemsRow(u, n)]
    BY DEF CartView, ListCartItems, ActiveCart
  <2> QED
    BY <2>1 DEF IInv, RowsOK
<1>3. lines \in S!Lines
  <2>1. lines # [v \in Variant |-> 0]
    BY <1>1 DEF NoLines
  <2>2. \E v \in Variant : lines[v] # 0
    BY <1>2, <2>1
  <2>3. \A v \in Variant : lines[v] \in Nat
    BY <1>2, QtyAssumption
  <2> QED
    BY <1>2, <2>2, <2>3 DEF S!Lines
<1>4. quote \in Quotes
  BY <1>3 DEF Quotes
<1> HIDE DEF quote
<1>5. DOMAIN rows = {quoteRow(q)} /\ rows[quoteRow(q)] = quote /\ quoteRow(q) \in Row
  BY OnlyRow, RowsThere
<1>6. CommitWith(Shop, rows) /\ Shopping /\ db[quoteRow(q)] = NoQuote
  BY <1>1 DEF Quote, CreateQuote, quote
<1> HIDE DEF rows
<1>7. \A r \in DOMAIN rows : r[1] = "quote"
  BY <1>5, RowNames
<1>8. /\ \A x \in QuoteId : quoteRow(x) \in DOMAIN rows =>
           db[quoteRow(x)] = NoQuote /\ rows[quoteRow(x)] \in Quotes
      /\ \A v \in Variant : stockRow(v) \in DOMAIN rows => rows[stockRow(v)] \in Counters
      /\ \A w \in User, n \in CartNo : itemsRow(w, n) \in DOMAIN rows =>
           rows[itemsRow(w, n)] \in [Variant -> 0..MaxQty]
  <2>1. \A x \in QuoteId : quoteRow(x) \in DOMAIN rows => quoteRow(x) = quoteRow(q)
    BY <1>5
  <2>2. /\ \A v \in Variant : stockRow(v) \notin DOMAIN rows
        /\ \A w \in User, n \in CartNo : itemsRow(w, n) \notin DOMAIN rows
    BY <1>7, RowNames
  <2> QED
    BY <1>4, <1>5, <1>6, <2>1, <2>2
<1>9. /\ IInv' /\ \A r \in Row : db'[r] = IF r \in DOMAIN rows THEN rows[r] ELSE db[r]
  <2>1. DOMAIN rows \subseteq Row /\ \A r \in DOMAIN rows : r[1] \in {"quote", "cart", "items", "stock"}
    BY <1>5, <1>7
  <2> QED
    BY <1>6, <1>8, <2>1, ShopKeeps
<1> QED
  BY <1>7, <1>9

(* The item requests write their user's cart.                              *)
LEMMA EditCartKeeps ==
  ASSUME IInv, NEW u \in User, NEW lines \in Basket, EditCart(u, lines)
  PROVE  /\ IInv'
         /\ \A r \in Row : r[1] \notin {"cart", "items"} => db'[r] = db[r]
<1>1. lines \in [Variant -> 0..MaxQty]
  BY QtyAssumption
<1>2. ASSUME NEW rows, NEW n \in CartNo, CommitWith(Shop, rows), Shopping,
             DOMAIN rows \subseteq {cartRow(u, n), itemsRow(u, n)},
             itemsRow(u, n) \in DOMAIN rows, rows[itemsRow(u, n)] = lines
      PROVE  /\ IInv'
             /\ \A r \in Row : r[1] \notin {"cart", "items"} => db'[r] = db[r]
  <2>1. \A r \in DOMAIN rows : r \in Row /\ r[1] \in {"cart", "items"}
    BY <1>2, RowNames, RowsThere
  <2>2. /\ \A x \in QuoteId : quoteRow(x) \notin DOMAIN rows
        /\ \A v \in Variant : stockRow(v) \notin DOMAIN rows
    BY <2>1, RowNames
  <2>3. \A w \in User, m \in CartNo : itemsRow(w, m) \in DOMAIN rows =>
          rows[itemsRow(w, m)] \in [Variant -> 0..MaxQty]
    <3> SUFFICES ASSUME NEW w \in User, NEW m \in CartNo, itemsRow(w, m) \in DOMAIN rows
                 PROVE  itemsRow(w, m) = itemsRow(u, n)
      BY <1>1, <1>2
    <3>1. itemsRow(w, m)[1] = "items" /\ cartRow(u, n)[1] = "cart"
      BY RowNames
    <3> QED
      BY <1>2, <3>1
  <2>4. /\ IInv' /\ \A r \in Row : db'[r] = IF r \in DOMAIN rows THEN rows[r] ELSE db[r]
    <3>1. DOMAIN rows \subseteq Row
          /\ \A r \in DOMAIN rows : r[1] \in {"quote", "cart", "items", "stock"}
      BY <2>1
    <3> QED
      BY <1>2, <2>2, <2>3, <3>1, ShopKeeps
  <2> QED
    BY <2>1, <2>4
<1>3. CASE \E n \in ActiveCart(u) : CommitWith(Shop, Only(itemsRow(u, n), lines))
  <2>1. PICK n \in ActiveCart(u) : CommitWith(Shop, Only(itemsRow(u, n), lines))
    BY <1>3
  <2> DEFINE rows == Only(itemsRow(u, n), lines)
  <2>2. /\ DOMAIN rows = {itemsRow(u, n)} /\ rows[itemsRow(u, n)] = lines /\ n \in CartNo
        /\ CommitWith(Shop, rows) /\ Shopping
    BY <2>1, OnlyRow DEF ActiveCart, EditCart
  <2> HIDE DEF rows
  <2> QED
    BY <1>2, <2>2
<1>4. CASE \E n \in CartNo : CommitWith(Shop, Together(Only(cartRow(u, n), "active"),
                                                       Only(itemsRow(u, n), lines)))
  <2>1. PICK n \in CartNo : CommitWith(Shop, Together(Only(cartRow(u, n), "active"),
                                                      Only(itemsRow(u, n), lines)))
    BY <1>4
  <2> DEFINE rows == Together(Only(cartRow(u, n), "active"), Only(itemsRow(u, n), lines))
  <2>2. cartRow(u, n) # itemsRow(u, n)
    <3>1. cartRow(u, n)[1] = "cart" /\ itemsRow(u, n)[1] = "items"
      BY RowNames
    <3> QED
      BY <3>1
  <2>3. DOMAIN rows = {cartRow(u, n), itemsRow(u, n)} /\ rows[itemsRow(u, n)] = lines
    BY <2>2, Zenon DEF Only, Together
  <2>4. CommitWith(Shop, rows) /\ Shopping
    BY <2>1 DEF EditCart
  <2> HIDE DEF rows
  <2> QED
    BY <1>2, <2>3, <2>4
<1> QED
  BY <1>3, <1>4 DEF EditCart

(* The admin's set-stock.                                                  *)
LEMMA SetStockKeeps ==
  ASSUME IInv, NEW v \in Variant, NEW n \in StockLevel, SetStock(v, n)
  PROVE  /\ IInv'
         /\ \A r \in Row : db'[r] = IF r = stockRow(v) THEN [db[r] EXCEPT !.available = n]
                                                        ELSE db[r]
<1> DEFINE stock == [db[stockRow(v)] EXCEPT !.available = n]
           rows == Only(stockRow(v), stock)
<1>1. stock \in Counters
  BY StockAssumption DEF IInv, RowsOK, Counters
<1>2. CommitWith(Shop, rows) /\ Shopping
  BY DEF SetStock
<1> HIDE DEF stock
<1>3. DOMAIN rows = {stockRow(v)} /\ rows[stockRow(v)] = stock /\ stockRow(v) \in Row
  BY OnlyRow, RowsThere
<1> HIDE DEF rows
<1>4. \A r \in DOMAIN rows : r[1] = "stock"
  BY <1>3, RowNames
<1>5. /\ \A x \in QuoteId : quoteRow(x) \notin DOMAIN rows
      /\ \A w \in User, m \in CartNo : itemsRow(w, m) \notin DOMAIN rows
      /\ \A w \in Variant : stockRow(w) \in DOMAIN rows => rows[stockRow(w)] \in Counters
  <2>1. \A w \in Variant : stockRow(w) \in DOMAIN rows => stockRow(w) = stockRow(v)
    BY <1>3
  <2> QED
    BY <1>1, <1>3, <1>4, <2>1, RowNames
<1>6. IInv' /\ \A r \in Row : db'[r] = IF r \in DOMAIN rows THEN rows[r] ELSE db[r]
  <2>1. DOMAIN rows \subseteq Row
        /\ \A r \in DOMAIN rows : r[1] \in {"quote", "cart", "items", "stock"}
    BY <1>3, <1>4
  <2> QED
    BY <1>2, <1>5, <2>1, ShopKeeps
<1> QED
  BY <1>3, <1>6 DEF stock

(* What Settlement reads of the rows, before and after a step.             *)
LEMMA SameTables ==
  ASSUME \A r \in Row : r[1] \notin {"quote", "cart", "items", "key"} => db'[r] = db[r]
  PROVE  UNCHANGED S!vars
<1>1. ASSUME NEW o \in Order
      PROVE  /\ db'[orderRow(o)] = db[orderRow(o)] /\ db'[resvRow(o)] = db[resvRow(o)]
             /\ db'[chargeRow(o)] = db[chargeRow(o)]
  <2>1. /\ orderRow(o) \in Row /\ resvRow(o) \in Row /\ chargeRow(o) \in Row
        /\ orderRow(o)[1] = "order" /\ resvRow(o)[1] = "resv" /\ chargeRow(o)[1] = "charge"
    BY RowNames, RowsThere
  <2> QED
    BY <2>1
<1>2. ASSUME NEW v \in Variant PROVE db'[stockRow(v)] = db[stockRow(v)]
  <2>1. stockRow(v) \in Row /\ stockRow(v)[1] = "stock"
    BY RowNames, RowsThere
  <2> QED
    BY <2>1
<1>3. ASSUME NEW c \in Coupon PROVE db'[couponRow(c)] = db[couponRow(c)]
  <2>1. couponRow(c) \in Row /\ couponRow(c)[1] = "coupon"
    BY RowNames, RowsThere
  <2> QED
    BY <2>1
<1>4. {o \in Order : db'[orderRow(o)].status # "none"}
        = {o \in Order : db[orderRow(o)].status # "none"}
  BY <1>1
<1> QED
  BY <1>1, <1>2, <1>3, <1>4 DEF S!vars, S!orderVars, S!stockVars

(* The commit of a confirm is ConfirmTx of its order, in one step.         *)
LEMMA ClaimRefines ==
  ASSUME IInv, NEW p \in Client, Committed(p), Granted(p)
  PROVE  S!Next
<1> SUFFICES ASSUME NEW o, NEW q, o = at[p].order, q = QuoteOf(p) PROVE S!Next
  OBVIOUS
<1> DEFINE l == q.lines
           c == q.coupon
<1>1. o \in Order /\ l \in S!Lines /\ c \in Coupon \cup {NoCoupon}
  <2>1. q \in [user : User, lines : S!Lines, coupon : Coupon \cup {NoCoupon}]
    BY DEF Granted, Quotes
  <2> QED
    BY <2>1 DEF Granted
<1>2. l \in [Variant -> 0..MaxQty] /\ \A v \in Variant : l[v] \in Nat
  BY <1>1, QtyAssumption DEF S!Lines
<1>3. /\ db[orderRow(o)] = NoOrder /\ NoOrder.status = "none"
      /\ db'[orderRow(o)] = OrderWithItems(q)
      /\ db'[orderRow(o)].status = "pending_payment"
      /\ db'[orderRow(o)].item = l /\ db'[orderRow(o)].coupon = c
      /\ db'[resvRow(o)] = "held" /\ db'[chargeRow(o)] = "pending"
  <2>1. db[orderRow(o)] = NoOrder /\ db'[orderRow(o)] = OrderWithItems(q)
        /\ db'[resvRow(o)] = "held" /\ db'[chargeRow(o)] = "pending"
    BY <1>1 DEF Granted, Committed
  <2>2. OrderWithItems(q) = [status |-> "pending_payment", user |-> q.user, item |-> l, coupon |-> c]
    BY DEF OrderWithItems, CreateOrderItems, CreateOrder
  <2> HIDE DEF l, c
  <2>3. NoOrder.status = "none"
    BY DEF NoOrder
  <2> QED
    BY <2>1, <2>2, <2>3
<1>4. \A x \in Order \ {o} : /\ db'[orderRow(x)] = db[orderRow(x)]
                             /\ db'[resvRow(x)] = db[resvRow(x)]
                             /\ db'[chargeRow(x)] = db[chargeRow(x)]
  BY DEF Committed
<1>5. ASSUME NEW v \in Variant
      PROVE  /\ db[stockRow(v)].available >= l[v]
             /\ db[stockRow(v)].reserved + l[v] <= MaxInt
             /\ db'[stockRow(v)].available = db[stockRow(v)].available - l[v]
             /\ db'[stockRow(v)].reserved = db[stockRow(v)].reserved + l[v]
  <2>1. db[stockRow(v)] \in [available : 0..MaxInt, reserved : 0..MaxInt]
    BY DEF IInv, RowsOK, Counters
  <2>2. CASE l[v] > 0
    <3>1. /\ Enough(db[stockRow(v)], l[v])
          /\ db'[stockRow(v)] = ReserveStock(db[stockRow(v)], l[v])
      BY <2>2 DEF Granted, Committed, Bought
    <3> QED
      BY <3>1 DEF Enough, ReserveStock
  <2>3. CASE ~(l[v] > 0)
    <3>1. db'[stockRow(v)] = db[stockRow(v)] /\ l[v] = 0
      <4>1. l[v] = 0
        BY <1>2, <2>3
      <4>2. v \notin Bought(l)
        BY <2>3 DEF Bought
      <4> QED
        BY <4>1, <4>2 DEF Committed
    <3> QED
      BY <2>1, <3>1, QtyAssumption
  <2> QED
    BY <2>2, <2>3
<1>6. S!Reserve(l)
  BY <1>5 DEF S!Reserve, S!CanReserve
<1>7. S!Redeem(c)
  <2>1. CASE c = NoCoupon
    <3>1. \A x \in Coupon : db'[couponRow(x)] = db[couponRow(x)]
      BY <2>1, CouponAssumption DEF Committed
    <3> QED
      BY <2>1, <3>1 DEF S!Redeem
  <2>2. CASE c # NoCoupon
    <3>1. c \in Coupon /\ (UsageLimit[c] # NoLimit => db[couponRow(c)] < UsageLimit[c])
      BY <1>1, <2>2 DEF Granted
    <3>2. \A x \in Coupon :
            db'[couponRow(x)] = IF x = c THEN db[couponRow(x)] + 1 ELSE db[couponRow(x)]
      BY DEF Committed
    <3> QED
      BY <2>2, <3>1, <3>2 DEF S!Redeem, S!Redeemable
  <2> QED
    BY <2>1, <2>2
<1>8. {x \in Order : db'[orderRow(x)].status # "none"}
        = {x \in Order : db[orderRow(x)].status # "none"} \cup {o}
  <2>1. db'[orderRow(o)].status # "none"
    BY <1>3
  <2> QED
    BY <1>1, <1>4, <2>1
<1>9. S!MoveOrder(o, "none", "pending_payment")
  <2>1. [x \in Order |-> db'[orderRow(x)].status]
          = [[x \in Order |-> db[orderRow(x)].status] EXCEPT ![o] = "pending_payment"]
    BY <1>1, <1>3, <1>4
  <2>2. {<<x, "none", "pending_payment">> : x \in {y \in Order : db'[orderRow(y)].status # "none"}}
          = {<<x, "none", "pending_payment">> : x \in {y \in Order : db[orderRow(y)].status # "none"}}
              \cup {<<o, "none", "pending_payment">>}
    BY <1>8
  <2> QED
    BY <2>1, <2>2 DEF S!MoveOrder
<1>10. /\ [x \in Order |-> db'[orderRow(x)].item]
            = [[x \in Order |-> db[orderRow(x)].item] EXCEPT ![o] = l]
       /\ [x \in Order |-> db'[orderRow(x)].coupon]
            = [[x \in Order |-> db[orderRow(x)].coupon] EXCEPT ![o] = c]
       /\ [x \in Order |-> db'[resvRow(x)]]
            = [[x \in Order |-> db[resvRow(x)]] EXCEPT ![o] = "held"]
       /\ [x \in Order |-> db'[chargeRow(x)]]
            = [[x \in Order |-> db[chargeRow(x)]] EXCEPT ![o] = "pending"]
  BY <1>1, <1>3, <1>4
<1>11. S!ConfirmTx(o, l, c)
  BY <1>1, <1>3, <1>6, <1>7, <1>9, <1>10 DEF S!ConfirmTx
<1> HIDE DEF l, c
<1> QED
  BY <1>1, <1>11 DEF S!Next

(* So is the admin's set-stock.                                            *)
LEMMA SetStockRefines ==
  ASSUME IInv, NEW v \in Variant, NEW n \in StockLevel, SetStock(v, n)
  PROVE  S!Next
<1>1. \A r \in Row : db'[r] = IF r = stockRow(v) THEN [db[r] EXCEPT !.available = n] ELSE db[r]
  BY SetStockKeeps
<1>2. ASSUME NEW o \in Order
      PROVE  /\ db'[orderRow(o)] = db[orderRow(o)] /\ db'[resvRow(o)] = db[resvRow(o)]
             /\ db'[chargeRow(o)] = db[chargeRow(o)]
  <2>1. /\ orderRow(o) \in Row /\ resvRow(o) \in Row /\ chargeRow(o) \in Row
        /\ stockRow(v)[1] = "stock"
        /\ orderRow(o)[1] = "order" /\ resvRow(o)[1] = "resv" /\ chargeRow(o)[1] = "charge"
    BY RowNames, RowsThere
  <2> QED
    BY <1>1, <2>1
<1>3. ASSUME NEW c \in Coupon PROVE db'[couponRow(c)] = db[couponRow(c)]
  <2>1. couponRow(c) \in Row /\ couponRow(c)[1] = "coupon" /\ stockRow(v)[1] = "stock"
    BY RowNames, RowsThere
  <2> QED
    BY <1>1, <2>1
<1>4. ASSUME NEW w \in Variant
      PROVE  /\ db'[stockRow(w)].available = IF w = v THEN n ELSE db[stockRow(w)].available
             /\ db'[stockRow(w)].reserved = db[stockRow(w)].reserved
  <2>1. db[stockRow(w)] \in [available : 0..MaxInt, reserved : 0..MaxInt]
    BY DEF IInv, RowsOK, Counters
  <2>2. stockRow(w) \in Row /\ (stockRow(w) = stockRow(v) <=> w = v)
    <3>1. stockRow(w)[2] = w /\ stockRow(v)[2] = v
      BY RowNames
    <3> QED
      BY <3>1, RowsThere
  <2> QED
    BY <1>1, <2>1, <2>2
<1>5. {o \in Order : db'[orderRow(o)].status # "none"}
        = {o \in Order : db[orderRow(o)].status # "none"}
  BY <1>2
<1>6. S!SetStock(v, n)
  BY <1>2, <1>3, <1>4, <1>5 DEF S!SetStock, S!orderVars
<1> QED
  BY <1>6 DEF S!Next

(* A coupon or a quote expires.                                            *)
LEMMA LapseKeeps ==
  ASSUME IInv, NEW x \in MayLapse, Lapse(x)
  PROVE  IInv' /\ db' = db
<1>1. /\ db' = db /\ dirty' = dirty /\ at' = at /\ answers' = answers
      /\ lapsed' = lapsed \cup {x}
  BY DEF Lapse
<1>2. \A q \in Client : HandlerOK(q)'
  BY <1>1, OthersKeep DEF IInv
<1> QED
  BY <1>1, <1>2 DEF IInv, StoreOf, LocksExclusive, RowsOK, KeysOK

(* Every step keeps the invariant, and is one of Settlement's or none.     *)
LEMMA NextOK ==
  ASSUME IInv, [Next]_vars
  PROVE  IInv' /\ [S!Next]_(S!vars)
<1>1. ASSUME db' = db PROVE [S!Next]_(S!vars)
  BY <1>1, SameTables
<1>2. CASE UNCHANGED vars
  <2>1. /\ db' = db /\ dirty' = dirty /\ at' = at /\ answers' = answers /\ lapsed' = lapsed
    BY <1>2 DEF vars
  <2>2. \A q \in Client : HandlerOK(q)'
    BY <2>1, OthersKeep DEF IInv
  <2>3. IInv'
    BY <2>1, <2>2 DEF IInv, StoreOf, LocksExclusive, RowsOK, KeysOK
  <2> QED
    BY <1>1, <2>1, <2>3
<1>3. ASSUME NEW p \in Client, NEW r \in Request, Confirm(p, r)
      PROVE  IInv' /\ [S!Next]_(S!vars)
  BY <1>1, <1>3, ConfirmKeeps
<1>4. ASSUME NEW p \in Client, Checks(p) PROVE IInv' /\ [S!Next]_(S!vars)
  BY <1>1, <1>4, ChecksKeep
<1>5. ASSUME NEW p \in Client, Begin(p) PROVE IInv' /\ [S!Next]_(S!vars)
  BY <1>1, <1>5, BeginKeeps
<1>6. ASSUME NEW p \in Client, ReserveLine(p) PROVE IInv' /\ [S!Next]_(S!vars)
  BY <1>1, <1>6, ReserveLineKeeps
<1>7. ASSUME NEW p \in Client, RedeemCoupon(p) PROVE IInv' /\ [S!Next]_(S!vars)
  BY <1>1, <1>7, RedeemCouponKeeps
<1>8. ASSUME NEW p \in Client, ConvertCart(p) PROVE IInv' /\ [S!Next]_(S!vars)
  BY <1>1, <1>8, ConvertCartKeeps
<1>9. ASSUME NEW p \in Client, ClaimKey(p) PROVE IInv' /\ [S!Next]_(S!vars)
  BY <1>1, <1>9, ClaimKeyKeeps, ClaimRefines
<1>10. ASSUME NEW p \in Client, Abort(p) PROVE IInv' /\ [S!Next]_(S!vars)
  BY <1>1, <1>10, RefuseKeeps DEF Abort
<1>11. ASSUME NEW q \in QuoteId, NEW u \in User, NEW c \in Coupon \cup {NoCoupon},
              Quote(q, u, c)
       PROVE  IInv' /\ [S!Next]_(S!vars)
  <2>1. IInv' /\ \A r \in Row : r[1] # "quote" => db'[r] = db[r]
    BY <1>11, QuoteKeeps
  <2> QED
    BY <2>1, SameTables
<1>12. ASSUME NEW u \in User, NEW lines \in Basket, EditCart(u, lines)
       PROVE  IInv' /\ [S!Next]_(S!vars)
  <2>1. IInv' /\ \A r \in Row : r[1] \notin {"cart", "items"} => db'[r] = db[r]
    BY <1>12, EditCartKeeps
  <2> QED
    BY <2>1, SameTables
<1>13. ASSUME NEW v \in Variant, NEW n \in StockLevel, SetStock(v, n)
       PROVE  IInv' /\ [S!Next]_(S!vars)
  BY <1>13, SetStockKeeps, SetStockRefines
<1>14. ASSUME NEW x \in MayLapse, Lapse(x) PROVE IInv' /\ [S!Next]_(S!vars)
  BY <1>1, <1>14, LapseKeeps
<1> QED
  BY <1>2, <1>3, <1>4, <1>5, <1>6, <1>7, <1>8, <1>9, <1>10, <1>11, <1>12, <1>13, <1>14
  DEF Next

(* What every handler has written, and that no row of it changes under it, *)
(* hold in every reachable state.                                          *)
THEOREM ConfirmInvariant == Spec => []IInv
<1>1. Init => IInv
  BY InitOK
<1>2. IInv /\ [Next]_vars => IInv'
  BY NextOK
<1> QED
  BY <1>1, <1>2, PTL DEF Spec

(* Whatever confirms race, crash or fall short, what they commit is what   *)
(* ConfirmTx of Settlement does in one step: all of an order or nothing.   *)
THEOREM ConfirmImplementsSettlement == Spec => ImplementsSettlement
<1>1. Init => S!Init
  BY InitMaps
<1>2. IInv /\ [Next]_vars => [S!Next]_(S!vars)
  BY NextOK
<1> QED
  BY <1>1, <1>2, ConfirmInvariant, PTL DEF Spec, S!Spec, ImplementsSettlement

(* I5, retries: all successful answers to one (user, key) are the same.    *)
THEOREM OneOrderPerKey == Spec => []KeyNamesOneOrder
<1>1. ASSUME IInv PROVE KeyNamesOneOrder
  <2>1. KeysOK
    BY <1>1 DEF IInv
  <2>2. ASSUME NEW a \in answers, NEW b \in answers,
               a[1].user = b[1].user, a[1].key = b[1].key
        PROVE  a = b
    <3>1. a \in Request \X Order /\ b \in Request \X Order
      BY <2>1 DEF KeysOK
    <3>2. a[1] \in Request /\ b[1] \in Request /\ a = <<a[1], a[2]>> /\ b = <<b[1], b[2]>>
      BY <3>1
    <3>3. {[quote |-> a[1].quote, order |-> a[2]]} = {[quote |-> b[1].quote, order |-> b[2]]}
      BY <2>1, <2>2 DEF KeysOK
    <3>4. a[1].quote = b[1].quote /\ a[2] = b[2]
      <4>1. [quote |-> a[1].quote, order |-> a[2]] = [quote |-> b[1].quote, order |-> b[2]]
        BY <3>3
      <4> QED
        BY <4>1
    <3>5. a[1] = b[1]
      BY <2>2, <3>2, <3>4, RequestShape
    <3> QED
      BY <3>2, <3>4, <3>5
  <2> QED
    BY <2>1, <2>2 DEF KeysOK, KeyNamesOneOrder
<1> QED
  BY <1>1, ConfirmInvariant, PTL

(* Who waits for whom: a confirm that waits for stock waits for one that   *)
(* wants a later variant.                                                  *)
LEMMA WaitsForLater ==
  ASSUME IInv, NEW p \in Client, NEW q \in Client, Wants(p) \cap DOMAIN dirty[q] # {}
  PROVE  /\ at[p].pc \in {"reserve", "coupon", "cart"} /\ at[q].pc \in OpenTx
         /\ at[p].pc = "cart" => at[q].pc = "key"
         /\ at[p].pc = "coupon" => at[q].pc \in {"cart", "key"}
         /\ at[p].pc = "reserve" /\ at[q].pc = "reserve" =>
              /\ Head(at[p].todo) \in Variant /\ Head(at[q].todo) \in Variant
              /\ Head(at[p].todo) < Head(at[q].todo)
<1>1. HandlerOK(p) /\ HandlerOK(q)
  BY DEF IInv
<1>2. at[q].pc \in OpenTx /\ Ascending(q) /\ Progress(q) /\ DOMAIN dirty[q] = Locks(q)
  <2>1. DOMAIN dirty[q] # {} /\ DOMAIN NoWrites = {}
    BY DEF NoWrites
  <2>2. at[q].pc \in OpenTx
    BY <1>1, <2>1 DEF HandlerOK
  <2> QED
    BY <1>1, <2>2 DEF HandlerOK, Progress
<1>3. PICK r \in Wants(p) : r \in Locks(q)
  BY <1>2
<1>4. CASE at[p].pc = "key"
  <2>1. r = keyRow(at[p].request.user, at[p].request.key)
    BY <1>3, <1>4 DEF Wants
  <2> QED
    BY <1>3, <2>1, LocksByTable
<1>5. CASE at[p].pc = "cart"
  <2>1. r = cartRow(at[p].request.user, at[p].cart)
    BY <1>3, <1>5 DEF Wants
  <2> QED
    BY <1>2, <1>3, <1>5, <2>1, LocksByTable
<1>6. CASE at[p].pc = "coupon"
  <2>1. r = couponRow(QuoteOf(p).coupon)
    BY <1>3, <1>6 DEF Wants
  <2>2. QuoteOf(p).coupon \in Redeemed(q)
    BY <1>3, <2>1, LocksByTable
  <2> QED
    BY <1>2, <1>6, <2>2 DEF Redeemed
<1>7. CASE at[p].pc = "reserve"
  <2>1. r = stockRow(Head(at[p].todo))
    BY <1>3, <1>7 DEF Wants
  <2>2. Head(at[p].todo) \in Reserved(q)
    BY <1>3, <2>1, LocksByTable
  <2>3. ASSUME at[q].pc = "reserve"
        PROVE  /\ Head(at[p].todo) \in Variant /\ Head(at[q].todo) \in Variant
               /\ Head(at[p].todo) < Head(at[q].todo)
    <3>1. /\ at[q].todo \in Seq(Variant) /\ at[q].todo # <<>>
          /\ \A i, j \in DOMAIN at[q].todo : i < j => at[q].todo[i] < at[q].todo[j]
      BY <1>1, <1>2, <2>3, FrameShape DEF Ascending
    <3>2. Head(at[q].todo) \in Variant /\ Head(at[q].todo) \in ToSet(at[q].todo)
      BY <3>1, AscendingTail
    <3>3. Head(at[p].todo) \in Variant
      BY <2>2 DEF Reserved, Bought
    <3> QED
      BY <1>2, <2>2, <3>2, <3>3 DEF Ascending
  <2> QED
    BY <1>2, <1>7, <2>3
<1> QED
  <2>1. at[p].pc \in {"reserve", "coupon", "cart", "key"}
    BY <1>3 DEF Wants
  <2> QED
    BY <2>1, <1>4, <1>5, <1>6, <1>7

(* I2, no deadlock among confirms: in a cycle nobody wants the key, so     *)
(* nobody wants a cart or a coupon, and of those that want stock one wants *)
(* the last variant.                                                       *)
THEOREM NoConfirmDeadlock == Spec => []ConfirmsNeverDeadlock
<1>1. ASSUME IInv, NEW T \in SUBSET Client, T # {}, WaitCycle(T, [c \in Client |-> Wants(c)])
      PROVE  FALSE
  <2> DEFINE next(p) == Head(at[p].todo)
             later(p) == {v \in Variant : next(p) < v}
             ranks == {later(p) : p \in T}
             R == StrictSubsetOrdering(Variant)
  <2>1. \A p \in T : \E q \in T : Wants(p) \cap DOMAIN dirty[q] # {}
    BY <1>1 DEF WaitCycle
  <2>2. \A p \in T : p \in Client
    OBVIOUS
  <2>3. \A p \in T : at[p].pc \in {"reserve", "coupon", "cart"}
    BY <1>1, <2>1, <2>2, WaitsForLater
  <2>4. \A p \in T : at[p].pc \in {"reserve", "coupon"}
    BY <1>1, <2>1, <2>2, <2>3, WaitsForLater
  <2>5. \A p \in T : at[p].pc = "reserve"
    BY <1>1, <2>1, <2>2, <2>4, WaitsForLater
  <2>6. \A p \in T : \E q \in T : next(p) \in Variant /\ next(q) \in Variant /\ next(p) < next(q)
    BY <1>1, <2>1, <2>2, <2>5, WaitsForLater
  <2>7. ASSUME NEW p \in T PROVE \E q \in T : <<later(q), later(p)>> \in R
    <3>1. PICK q \in T : next(p) \in Variant /\ next(q) \in Variant /\ next(p) < next(q)
      BY <2>6
    <3>2. next(p) \in Nat /\ next(q) \in Nat /\ Variant \subseteq Nat
      BY <3>1, IdAssumption
    <3>3. later(q) \subseteq later(p) /\ next(q) \in later(p) /\ next(q) \notin later(q)
      <4> HIDE DEF next
      <4>1. \A v \in Variant : next(q) < v => next(p) < v
        BY <3>1, <3>2
      <4>2. ~ next(q) < next(q)
        BY <3>2
      <4> QED
        BY <3>1, <4>1, <4>2
    <3>4. later(q) \subseteq Variant /\ later(p) \subseteq Variant
      OBVIOUS
    <3> HIDE DEF later
    <3> QED
      BY <3>3, <3>4 DEF StrictSubsetOrdering
  <2>8. ranks \subseteq FiniteSubsetsOf(Variant) /\ ranks # {}
    <3>1. \A p \in T : later(p) \subseteq Variant /\ IsFiniteSet(later(p))
      BY FS_Subset, IdAssumption
    <3> HIDE DEF later
    <3> QED
      BY <1>1, <3>1 DEF FiniteSubsetsOf
  <2> HIDE DEF R, later
  <2>9. \A x \in ranks : \E y \in ranks : <<y, x>> \in R
    BY <2>7
  <2> HIDE DEF ranks
  <2>10. IsWellFoundedOn(R, FiniteSubsetsOf(Variant))
    BY FS_StrictSubsetOrderingWellFounded DEF R
  <2> QED
    BY <2>8, <2>9, <2>10, WFMin
<1>2. IInv => ConfirmsNeverDeadlock
  BY <1>1 DEF ConfirmsNeverDeadlock
<1> QED
  BY <1>2, ConfirmInvariant, PTL

-------------------------------------------------------------------------------
(* The settlement of the orders that confirms create: the webhook and the  *)
(* release job of ReconcileRC, over the same rows.                         *)
CONSTANTS Hook, Jobs, Plan, MayExpire
VARIABLES work, due

R == INSTANCE ReconcileRC WITH at <- work

SettlementAssumption ==
  /\ R!SessionAssumption /\ R!VariantAssumption /\ R!PlanAssumption
  /\ R!EventAssumption /\ R!OrderAssumption /\ R!StockAssumption

(* The statements of the two modules are the same.                         *)
LEMMA SameStatements ==
  /\ \A p, r : R!Read(p, r) = Read(p, r)
  /\ \A p, rows : R!Write(p, rows) <=> Write(p, rows)
  /\ \A p, rows : R!CommitWith(p, rows) <=> CommitWith(p, rows)
  /\ \A p : R!Rollback(p) <=> Rollback(p)
  /\ R!NoWrites = NoWrites
BY DEF R!Read, Read, R!Write, Write, R!Unlocked, Unlocked, R!CommitWith, CommitWith,
       R!Rollback, Rollback, R!NoWrites, NoWrites

(* So are what they leave.                                                 *)
LEMMA StatementRows ==
  ASSUME NEW Table, StoreOf(Table), LocksExclusive, NEW p \in Proc, NEW rows,
         DOMAIN rows \subseteq Table, R!Write(p, rows)
  PROVE  /\ StoreOf(Table)' /\ LocksExclusive'
         /\ db' = db
         /\ DOMAIN dirty'[p] = DOMAIN rows \cup DOMAIN dirty[p]
         /\ \A r \in DOMAIN dirty'[p] :
              dirty'[p][r] = IF r \in DOMAIN rows THEN rows[r] ELSE dirty[p][r]
         /\ \A q \in Proc \ {p} : dirty'[q] = dirty[q]
BY SameStatements, WriteRows

(* The rows a commit publishes.                                            *)
LEMMA PublishedRows ==
  ASSUME NEW Table, StoreOf(Table), LocksExclusive, NEW p \in Proc, NEW rows,
         DOMAIN rows \subseteq Table, R!CommitWith(p, rows)
  PROVE  /\ StoreOf(Table)' /\ LocksExclusive'
         /\ \A r \in Table : db'[r] = IF r \in DOMAIN rows THEN rows[r] ELSE R!Read(p, r)
         /\ dirty'[p] = R!NoWrites
         /\ \A q \in Proc \ {p} : /\ dirty'[q] = dirty[q]
                                  /\ \A r \in DOMAIN dirty[q] : db'[r] = db[r]
<1>1. CommitWith(p, rows) /\ NoWrites = R!NoWrites /\ \A r : R!Read(p, r) = Read(p, r)
  BY SameStatements
<1> QED
  BY <1>1, CommitRows

(* The rows a rollback forgets.                                            *)
LEMMA ForgottenRows ==
  ASSUME NEW Table, StoreOf(Table), LocksExclusive, NEW p \in Proc, R!Rollback(p)
  PROVE  /\ StoreOf(Table)' /\ LocksExclusive'
         /\ db' = db
         /\ dirty'[p] = R!NoWrites
         /\ \A q \in Proc \ {p} : dirty'[q] = dirty[q]
BY SameStatements, RollbackRows

(* So are the sizes of sets.                                               *)
LEMMA SameSizes ==
  \A K : R!Cardinality(K) = Cardinality(K) /\ (R!IsFiniteSet(K) <=> IsFiniteSet(K))
<1>1. \A K : R!IsFiniteSet(K) <=> IsFiniteSet(K)
  BY DEF R!IsFiniteSet, IsFiniteSet
<1>2. \A K : R!Cardinality(K) = Cardinality(K)
  BY <1>1 DEF R!Cardinality, Cardinality
<1> QED
  BY <1>1, <1>2

(* And the rows of orders and stock.                                       *)
LEMMA SameRows ==
  /\ \A o : R!orderRow(o) = orderRow(o) /\ R!resvRow(o) = resvRow(o)
  /\ \A v : R!stockRow(v) = stockRow(v)
  /\ R!Holding = Holding /\ R!Sold = Sold
  /\ \A K, v : R!Promised(K, v) = Promised(K, v)
<1>1. \A o : R!Item(o) = Item(o)
  BY DEF R!Item, Item, R!orderRow, orderRow
<1>2. \A lines, K, v : R!Units(lines, K, v) = Units(lines, K, v)
  BY DEF R!Units, Units
<1>3. \A K, v : R!Promised(K, v) = Promised(K, v)
  BY <1>1, <1>2, SameSizes DEF R!Promised, Promised
<1> QED
  BY <1>3 DEF R!orderRow, orderRow, R!resvRow, resvRow, R!stockRow, stockRow, R!Holding, Holding,
     R!Sold, Sold

Settler == Hook \cup Jobs

Settling == {"again", "list", "stock", "coupon", "charge", "finish"}   \* on one order
PastMark == {"coupon", "charge", "finish"}                             \* past MarkReservations

Statuses == {"none", "pending_payment", "paid", "payment_failed", "expired",
             "paid_awaiting_stock"}

Doing == [pc : {"idle", "lookup", "next", "expire"} \cup Settling,
          task : {"none", "pay", "fail", "late", "expire"},
          order : Order \cup {"none"}, event : Event \cup {"none"},
          todo : Seq(Variant), list : SUBSET Order, short : BOOLEAN]

OrderRecord == [status : Statuses, item : [Variant -> 0..MaxQty],
                coupon : Coupon \cup {NoCoupon}]

(* Reservations are held as long as their order waits for its payment.     *)
OrderOK(o) ==
  /\ db[R!orderRow(o)] \in OrderRecord
  /\ db[R!resvRow(o)] \in {"none", "held", "committed", "released"}
  /\ db[R!orderRow(o)].status = "none" <=> db[R!resvRow(o)] = "none"
  /\ db[R!orderRow(o)].status = "pending_payment" <=> db[R!resvRow(o)] = "held"
  /\ db[R!orderRow(o)].status # "none" => R!LinesOf(o) # {}

(* What a session has written of the order it settles: the job has expired *)
(* it from the start, and whoever is past MarkReservations has resolved    *)
(* the reservations if they are still held.                                *)
SettlingOK(p) ==
  LET o == work[p].order IN
  /\ o \in Order /\ db[R!orderRow(o)].status # "none"
  /\ work[p].task # "none" /\ (work[p].task = "expire" <=> p \in Jobs)
  /\ work[p].pc = "again" => work[p].task = "late" /\ work[p].todo # <<>>
  /\ work[p].pc \in {"list", "stock", "coupon"} => work[p].task # "late"
  /\ work[p].pc = "coupon" => R!Code(o) \in Coupon
  /\ work[p].task = "late" => db[R!orderRow(o)].status # "pending_payment"
  /\ \A r \in DOMAIN dirty[p] : \/ r[1] \in {"event", "charge", "coupon", "stock"}
                                \/ r = R!orderRow(o) /\ p \in Jobs
                                \/ r = R!resvRow(o)
  /\ p \in Jobs => /\ R!orderRow(o) \in DOMAIN dirty[p]
                   /\ db[R!orderRow(o)].status = "pending_payment"
                   /\ dirty[p][R!orderRow(o)] = [db[R!orderRow(o)] EXCEPT !.status = "expired"]
  /\ R!resvRow(o) \in DOMAIN dirty[p] =>
       /\ db[R!resvRow(o)] = "held" /\ dirty[p][R!resvRow(o)] \in {"committed", "released"}
       /\ work[p].pc \in PastMark /\ work[p].task # "late"
  /\ work[p].pc \in PastMark /\ db[R!orderRow(o)].status = "pending_payment"
       => R!resvRow(o) \in DOMAIN dirty[p]

SettlerOK(p) ==
  /\ work[p] \in Doing
  /\ work[p].pc \in {"idle", "next", "expire"} => dirty[p] = R!NoWrites
  /\ work[p].pc \in {"next", "expire"} => p \in Jobs
  /\ work[p].pc = "expire" => work[p].order \in Order /\ work[p].task = "expire"
  /\ work[p].pc = "lookup" => /\ p \in Hook /\ work[p].order \in Order
                              /\ work[p].event \in Event /\ work[p].event.order = work[p].order
                              /\ \A r \in DOMAIN dirty[p] : r[1] = "event"
  /\ work[p].pc \in Settling => SettlingOK(p)

Orderly == /\ StoreOf(R!Row) /\ LocksExclusive
           /\ DOMAIN work = Settler /\ dirty[Shop] = R!NoWrites /\ due \subseteq Order
           /\ \A o \in Order : OrderOK(o)
           /\ \A p \in Settler : SettlerOK(p)

(* What no step takes back.                                                *)
OrdersMove ==
  \A o \in Order :
    /\ db[R!orderRow(o)].status # "none" =>
         /\ db'[R!orderRow(o)].item = db[R!orderRow(o)].item
         /\ db'[R!orderRow(o)].coupon = db[R!orderRow(o)].coupon
         /\ db'[R!orderRow(o)].status # "none"
         /\ db'[R!orderRow(o)].status = "pending_payment" => db[R!orderRow(o)].status = "pending_payment"
    /\ db'[R!resvRow(o)] # db[R!resvRow(o)] => db[R!resvRow(o)] \in {"none", "held"}

(* The sessions: handlers and jobs, and those of the one-step transactions. *)
LEMMA Settlers ==
  ASSUME SettlementAssumption
  PROVE  /\ \A p \in Settler : p \in Proc /\ p # Shop
         /\ Shop \in Proc /\ \A p \in Proc \ {Shop} : p \in Settler
         /\ \A p : ~(p \in Hook /\ p \in Jobs)
BY DEF SettlementAssumption, R!SessionAssumption, Settler

(* Rows of different tables differ, and a name has one row in each.        *)
LEMMA TableNames ==
  /\ \A x : /\ R!orderRow(x)[1] = "order" /\ R!resvRow(x)[1] = "resv" /\ R!chargeRow(x)[1] = "charge"
            /\ R!auditRow(x)[1] = "audit" /\ R!stockRow(x)[1] = "stock" /\ R!couponRow(x)[1] = "coupon"
            /\ R!eventRow(x)[1] = "event"
  /\ \A x, y : /\ R!orderRow(x) = R!orderRow(y) => x = y
               /\ R!resvRow(x) = R!resvRow(y) => x = y
               /\ R!stockRow(x) = R!stockRow(y) => x = y
BY DEF R!orderRow, R!resvRow, R!chargeRow, R!auditRow, R!stockRow, R!couponRow, R!eventRow

(* The tables.                                                             *)
LEMMA TablesThere ==
  /\ \A o \in Order : /\ R!orderRow(o) \in R!Row /\ R!resvRow(o) \in R!Row /\ R!chargeRow(o) \in R!Row
                      /\ R!auditRow(o) \in R!Row
  /\ \A v \in Variant : R!stockRow(v) \in R!Row
  /\ \A c \in Coupon : R!couponRow(c) \in R!Row
  /\ \A i \in EventId : R!eventRow(i) \in R!Row
BY DEF R!Row

(* A statement that writes one row, or none.                               *)
LEMMA OneWrite ==
  /\ \A r, x : DOMAIN R!Only(r, x) = {r} /\ R!Only(r, x)[r] = x
  /\ DOMAIN R!NoWrites = {}
BY DEF R!Only, R!NoWrites

(* What becomes of the frames when a session goes on.                      *)
LEMMA FrameMoves ==
  ASSUME DOMAIN work = Settler, NEW p \in Settler, NEW f, R!Goto(p, f)
  PROVE  /\ DOMAIN work' = Settler /\ work'[p] = f /\ due' = due
         /\ \A q \in Settler \ {p} : work'[q] = work[q]
BY DEF R!Goto

(* Fields of the frame whose session is idle.                              *)
LEMMA IdleFrame ==
  /\ R!Idle \in Doing
  /\ R!Idle.pc = "idle" /\ R!Idle.task = "none" /\ R!Idle.todo = <<>> /\ ~R!Idle.short
<1>1. <<>> \in Seq(Variant)
  OBVIOUS
<1> QED
  BY <1>1 DEF R!Idle, Doing

(* Nobody else's step changes what a session has seen of its order.        *)
LEMMA KeepSettler ==
  ASSUME Orderly, OrdersMove, NEW q \in Settler, work'[q] = work[q], dirty'[q] = dirty[q],
         \A r \in DOMAIN dirty[q] : db'[r] = db[r]
  PROVE  SettlerOK(q)'
<1>1. SettlerOK(q)
  BY DEF Orderly
<1>2. R!NoWrites' = R!NoWrites
  BY DEF R!NoWrites
<1>3. ASSUME work[q].pc \in Settling
      PROVE  SettlingOK(q)'
  <2> DEFINE o == work[q].order
  <2>1. /\ o \in Order /\ db[R!orderRow(o)].status # "none"
        /\ SettlingOK(q)
    BY <1>1, <1>3 DEF SettlerOK, SettlingOK
  <2>2. /\ db'[R!orderRow(o)].coupon = db[R!orderRow(o)].coupon
        /\ db'[R!orderRow(o)].status # "none"
        /\ db'[R!orderRow(o)].status = "pending_payment" => db[R!orderRow(o)].status = "pending_payment"
    BY <2>1 DEF OrdersMove
  <2>3. R!Code(o)' = R!Code(o)
    BY <2>2 DEF R!Code
  <2>4. /\ R!orderRow(o) \in DOMAIN dirty[q] => db'[R!orderRow(o)] = db[R!orderRow(o)]
        /\ R!resvRow(o) \in DOMAIN dirty[q] => db'[R!resvRow(o)] = db[R!resvRow(o)]
    OBVIOUS
  <2> QED
    BY <2>1, <2>2, <2>3, <2>4 DEF SettlingOK
<1> QED
  BY <1>1, <1>2, <1>3 DEF SettlerOK

(* A step that commits nothing.                                            *)
LEMMA StatementKeeps ==
  ASSUME SettlementAssumption, Orderly, NEW p \in Settler, NEW f, R!Goto(p, f), db' = db,
         StoreOf(R!Row)', LocksExclusive', \A q \in Proc \ {p} : dirty'[q] = dirty[q],
         SettlerOK(p)'
  PROVE  Orderly' /\ OrdersMove
<1>1. /\ DOMAIN work' = Settler /\ \A q \in Settler \ {p} : work'[q] = work[q]
      /\ due' \subseteq Order
  BY FrameMoves DEF Orderly
<1>2. OrdersMove /\ \A o \in Order : OrderOK(o)'
  BY DEF OrdersMove, Orderly, OrderOK, R!LinesOf, R!Item
<1>3. \A q \in Settler \ {p} : SettlerOK(q)'
  BY <1>1, <1>2, KeepSettler, Settlers
<1>4. dirty'[Shop] = R!NoWrites'
  BY Settlers DEF Orderly, R!NoWrites
<1> QED
  BY <1>1, <1>2, <1>3, <1>4 DEF Orderly

(* A session at rest.                                                      *)
LEMMA RestKeeps ==
  ASSUME NEW p, work'[p] = R!Idle, dirty'[p] = R!NoWrites
  PROVE  SettlerOK(p)'
<1>1. R!NoWrites' = R!NoWrites
  BY DEF R!NoWrites
<1> QED
  BY <1>1, IdleFrame DEF SettlerOK, Settling

(* The rows of the order at hand, read by the session that settles it.     *)
LEMMA AtHand ==
  ASSUME Orderly, NEW p \in Settler, work[p].pc \in Settling
  PROVE  /\ work[p] \in Doing /\ SettlingOK(p)
         /\ work[p].order \in Order /\ OrderOK(work[p].order)
         /\ R!LinesOf(work[p].order) \subseteq Variant
BY DEF Orderly, SettlerOK, SettlingOK, R!LinesOf

(* A step that writes neither the order nor its reservations.              *)
LEMMA SameOrder ==
  ASSUME Orderly, NEW p \in Settler, work[p].pc \in Settling, db' = db,
         work'[p] \in Doing, work'[p].pc \in Settling,
         work'[p].task = work[p].task, work'[p].order = work[p].order,
         work'[p].pc = "again" => work[p].task = "late" /\ work'[p].todo # <<>>,
         work'[p].pc \in {"list", "stock", "coupon"} => work[p].task # "late",
         work'[p].pc = "coupon" => R!Code(work[p].order) \in Coupon,
         work[p].pc \in PastMark => work'[p].pc \in PastMark,
         work'[p].pc \in PastMark => work[p].pc \in PastMark \/ work[p].task = "late",
         \A r \in DOMAIN dirty'[p] :
           \/ r \in DOMAIN dirty[p] /\ dirty'[p][r] = dirty[p][r]
           \/ r[1] \in {"charge", "coupon", "stock"},
         \A r \in DOMAIN dirty[p] : r[1] # "stock" => r \in DOMAIN dirty'[p]
  PROVE  SettlerOK(p)'
<1> DEFINE o == work[p].order
<1>1. SettlingOK(p) /\ o \in Order
  BY AtHand
<1>2. /\ R!orderRow(o)[1] = "order" /\ R!resvRow(o)[1] = "resv"
      /\ R!Code(o)' = R!Code(o)
  BY TableNames DEF R!Code
<1>3. /\ R!orderRow(o) \in DOMAIN dirty[p] =>
           R!orderRow(o) \in DOMAIN dirty'[p] /\ dirty'[p][R!orderRow(o)] = dirty[p][R!orderRow(o)]
      /\ R!resvRow(o) \in DOMAIN dirty[p] <=> R!resvRow(o) \in DOMAIN dirty'[p]
      /\ R!resvRow(o) \in DOMAIN dirty'[p] => dirty'[p][R!resvRow(o)] = dirty[p][R!resvRow(o)]
  BY <1>2
<1>4. \A r \in DOMAIN dirty'[p] : \/ r[1] \in {"event", "charge", "coupon", "stock"}
                                  \/ r = R!orderRow(o) /\ p \in Jobs
                                  \/ r = R!resvRow(o)
  BY <1>1 DEF SettlingOK
<1>5. R!resvRow(o) \in DOMAIN dirty'[p] =>
       /\ db[R!resvRow(o)] = "held" /\ dirty'[p][R!resvRow(o)] \in {"committed", "released"}
       /\ work'[p].pc \in PastMark /\ work[p].task # "late"
  BY <1>1, <1>3 DEF SettlingOK
<1>6. work'[p].pc \in PastMark /\ db[R!orderRow(o)].status = "pending_payment"
        => R!resvRow(o) \in DOMAIN dirty'[p]
  BY <1>1, <1>3 DEF SettlingOK
<1>7. p \in Jobs => /\ R!orderRow(o) \in DOMAIN dirty'[p]
                    /\ db[R!orderRow(o)].status = "pending_payment"
                    /\ dirty'[p][R!orderRow(o)] = [db[R!orderRow(o)] EXCEPT !.status = "expired"]
  BY <1>1, <1>3 DEF SettlingOK
<1>8. SettlingOK(p)'
  BY <1>1, <1>2, <1>4, <1>5, <1>6, <1>7 DEF SettlingOK
<1> QED
  BY <1>8 DEF SettlerOK, Settling

(* What a statement of a settler leaves.                                   *)
LEMMA WriteStep ==
  ASSUME SettlementAssumption,
         Orderly, NEW p \in Settler, NEW rows, DOMAIN rows \subseteq R!Row, R!Write(p, rows)
  PROVE  /\ StoreOf(R!Row)' /\ LocksExclusive' /\ db' = db
         /\ DOMAIN dirty'[p] = DOMAIN rows \cup DOMAIN dirty[p]
         /\ \A r \in DOMAIN dirty'[p] :
              dirty'[p][r] = IF r \in DOMAIN rows THEN rows[r] ELSE dirty[p][r]
         /\ \A q \in Proc \ {p} : dirty'[q] = dirty[q]
BY StatementRows, Settlers DEF Orderly

(* A read leaves all of it.                                                *)
LEMMA ReadStep ==
  ASSUME Orderly, R!NoStatement
  PROVE  StoreOf(R!Row)' /\ LocksExclusive' /\ db' = db /\ dirty' = dirty
BY DEF Orderly, StoreOf, LocksExclusive, R!NoStatement

(* So does a rollback, but for what it forgets.                            *)
LEMMA RollbackStep ==
  ASSUME SettlementAssumption, Orderly, NEW p \in Settler, R!Rollback(p)
  PROVE  /\ StoreOf(R!Row)' /\ LocksExclusive' /\ db' = db /\ dirty'[p] = R!NoWrites
         /\ \A q \in Proc \ {p} : dirty'[q] = dirty[q]
BY ForgottenRows, Settlers DEF Orderly

(* An event is inserted before anything is read.                           *)
LEMMA DeliverKeeps ==
  ASSUME SettlementAssumption, Orderly, NEW h \in Hook, NEW e \in Event, R!Deliver(h, e)
  PROVE  Orderly' /\ OrdersMove
<1>1. /\ work[h].pc = "idle" /\ R!Write(h, R!InsertWebhookEvent(e))
      /\ R!Goto(h, [R!Idle EXCEPT !.pc = "lookup", !.event = e, !.order = e.order])
  BY DEF R!Deliver
<1>2. h \in Settler /\ e.id \in EventId /\ e.order \in Order
  BY DEF SettlementAssumption, R!EventAssumption, Settler
<1>3. dirty[h] = R!NoWrites
  BY <1>1, <1>2 DEF Orderly, SettlerOK
<1>4. DOMAIN R!InsertWebhookEvent(e) = {R!eventRow(e.id)} /\ R!eventRow(e.id) \in R!Row
  BY <1>2, OneWrite, TablesThere DEF R!InsertWebhookEvent
<1>5. /\ StoreOf(R!Row)' /\ LocksExclusive' /\ db' = db
      /\ DOMAIN dirty'[h] = {R!eventRow(e.id)}
      /\ \A q \in Proc \ {h} : dirty'[q] = dirty[q]
  BY <1>1, <1>2, <1>3, <1>4, WriteStep, OneWrite
<1>6. work'[h] = [R!Idle EXCEPT !.pc = "lookup", !.event = e, !.order = e.order]
  BY <1>1, <1>2, FrameMoves DEF Orderly
<1>7. /\ work'[h] \in Doing /\ work'[h].pc = "lookup" /\ work'[h].event = e /\ work'[h].order = e.order
  BY <1>2, <1>6, IdleFrame DEF Doing, R!Idle
<1>8. SettlerOK(h)'
  BY <1>2, <1>5, <1>7, TableNames DEF SettlerOK, Settling
<1> QED
  BY <1>1, <1>2, <1>5, <1>8, StatementKeeps

(* A step that commits.                                                    *)
LEMMA CommitStep ==
  ASSUME SettlementAssumption, Orderly, NEW p \in Settler, NEW f, R!Goto(p, f), OrdersMove,
         StoreOf(R!Row)', LocksExclusive',
         \A q \in Proc \ {p} : /\ dirty'[q] = dirty[q]
                               /\ \A r \in DOMAIN dirty[q] : db'[r] = db[r],
         \A o \in Order : OrderOK(o)', SettlerOK(p)'
  PROVE  Orderly'
<1>1. /\ DOMAIN work' = Settler /\ \A q \in Settler \ {p} : work'[q] = work[q]
      /\ due' \subseteq Order
  BY FrameMoves DEF Orderly
<1>2. \A q \in Settler \ {p} : SettlerOK(q)'
  BY <1>1, KeepSettler, Settlers
<1>3. dirty'[Shop] = R!NoWrites'
  BY Settlers DEF Orderly, R!NoWrites
<1> QED
  BY <1>1, <1>2, <1>3 DEF Orderly

(* A sequence that holds each element of a finite set once holds them all. *)
LEMMA EachOnce ==
  ASSUME NEW T, IsFiniteSet(T), NEW s \in R!SetToSeqs(T)
  PROVE  s \in Seq(T) /\ R!ToSet(s) = T /\ \A i, j \in DOMAIN s : i # j => s[i] # s[j]
<1> DEFINE n == Cardinality(T)
<1>1. n \in Nat
  BY FS_CardinalityType
<1>2. s \in [1..n -> T] /\ \A i, j \in 1..n : i # j => s[i] # s[j]
  BY SameSizes DEF R!SetToSeqs
<1>3. s \in Injection(1..n, T)
  BY <1>2 DEF Injection, IsInjective
<1>4. IsFiniteSet(1..n) /\ Cardinality(1..n) = n
  BY <1>1, FS_Interval
<1>5. s \in Surjection(1..n, T)
  BY <1>3, <1>4, FS_Injection
<1>6. \A t \in T : \E i \in 1..n : s[i] = t
  BY <1>5 DEF Surjection
<1> HIDE DEF n
<1> QED
  BY <1>1, <1>2, <1>6 DEF R!ToSet

(* The lines of an order, in some order.                                   *)
LEMMA LinesInOrder ==
  ASSUME SettlementAssumption, NEW K \in SUBSET Variant, NEW todo \in R!SetToSeqs(K)
  PROVE  /\ todo \in Seq(Variant) /\ R!ToSet(todo) = K
         /\ \A i, j \in DOMAIN todo : i # j => todo[i] # todo[j]
         /\ K # {} => todo # <<>>
<1>1. IsFiniteSet(K)
  <2>1. IsFiniteSet(Variant)
    BY SameSizes DEF SettlementAssumption, R!VariantAssumption
  <2> QED
    BY <2>1, FS_Subset
<1>2. todo \in Seq(K) /\ R!ToSet(todo) = K /\ \A i, j \in DOMAIN todo : i # j => todo[i] # todo[j]
  BY <1>1, EachOnce
<1>3. K # {} => todo # <<>>
  BY <1>2 DEF R!ToSet
<1> QED
  BY <1>2, <1>3

(* What a webhook reads of its order.                                      *)
LEMMA LookupReads ==
  ASSUME Orderly, NEW h \in Hook, work[h].pc = "lookup"
  PROVE  /\ h \in Settler /\ work[h] \in Doing /\ work[h].event \in Event
         /\ work[h].order \in Order /\ work[h].event.order = work[h].order
         /\ \A r \in DOMAIN dirty[h] : r[1] = "event"
         /\ R!Status(h, work[h].order) = db[R!orderRow(work[h].order)].status
<1>1. h \in Settler
  BY DEF Settler
<1>2. SettlerOK(h)
  BY <1>1 DEF Orderly
<1> QED
  BY <1>1, <1>2, TableNames DEF SettlerOK, R!Status, R!Read

(* Entering the switch.                                                    *)
LEMMA BegunOK ==
  ASSUME SettlementAssumption, Orderly, NEW h \in Hook, work[h].pc = "lookup", R!NoStatement,
         R!Concerned(h, work[h].event, R!Status(h, work[h].order)),
         R!Begun(h, work[h].event, R!TaskFor(work[h].event, R!Status(h, work[h].order)))
  PROVE  SettlerOK(h)' /\ \E f : R!Goto(h, f)
<1> DEFINE e == work[h].event
           o == work[h].order
           task == R!TaskFor(e, R!Status(h, o))
<1>1. /\ h \in Settler /\ work[h] \in Doing /\ e \in Event /\ o \in Order /\ e.order = o
      /\ \A r \in DOMAIN dirty[h] : r[1] = "event"
      /\ R!Status(h, o) = db[R!orderRow(o)].status
  BY LookupReads
<1>2. /\ db' = db /\ dirty' = dirty
      /\ DOMAIN work = Settler /\ OrderOK(o)
  BY <1>1 DEF R!NoStatement, Orderly
<1>3. db[R!orderRow(o)].status \in {"pending_payment", "expired"}
  BY <1>1 DEF R!Concerned
<1>4. /\ task \in {"fail", "late", "pay"}
      /\ task = "late" => db[R!orderRow(o)].status = "expired"
  BY <1>1 DEF R!TaskFor
<1>5. h \notin Jobs /\ R!LinesOf(o) # {} /\ R!LinesOf(o) \subseteq Variant
  BY <1>2, <1>3, Settlers DEF OrderOK, R!LinesOf
<1>6. CASE task = "late"
  <2>1. PICK todo \in R!Ascending(R!LinesOf(o)) :
          R!Goto(h, [work[h] EXCEPT !.task = task, !.pc = "again", !.todo = todo])
    BY <1>1, <1>6 DEF R!Begun
  <2>2. todo \in R!SetToSeqs(R!LinesOf(o))
    BY DEF R!Ascending
  <2>3. todo \in Seq(Variant) /\ todo # <<>>
    BY <1>5, <2>2, LinesInOrder
  <2>4. work'[h] = [work[h] EXCEPT !.task = task, !.pc = "again", !.todo = todo]
    BY <1>1, <1>2, <2>1, FrameMoves
  <2> HIDE DEF task, o, e
  <2>5. /\ work'[h] \in Doing /\ work'[h].pc = "again" /\ work'[h].task = task
        /\ work'[h].order = work[h].order /\ work'[h].todo = todo
    BY <1>1, <1>6, <2>3, <2>4 DEF Doing, Settling
  <2>6. SettlingOK(h)'
    BY <1>1, <1>2, <1>3, <1>4, <1>5, <1>6, <2>3, <2>5, TableNames
       DEF SettlingOK, PastMark, o
  <2> QED
    BY <2>1, <2>5, <2>6 DEF SettlerOK
<1>7. CASE task # "late"
  <2>1. R!Goto(h, [work[h] EXCEPT !.task = task, !.pc = "list"])
    BY <1>1, <1>7 DEF R!Begun
  <2>2. work'[h] = [work[h] EXCEPT !.task = task, !.pc = "list"]
    BY <1>1, <1>2, <2>1, FrameMoves
  <2> HIDE DEF task, o, e
  <2>3. /\ work'[h] \in Doing /\ work'[h].pc = "list" /\ work'[h].task = task
        /\ work'[h].order = work[h].order
    BY <1>1, <1>4, <2>2 DEF Doing, Settling
  <2>4. SettlingOK(h)'
    BY <1>1, <1>2, <1>3, <1>4, <1>5, <1>7, <2>3, TableNames DEF SettlingOK, PastMark, o
  <2> QED
    BY <2>1, <2>3, <2>4 DEF SettlerOK
<1> QED
  BY <1>6, <1>7

(* A commit that writes no order and no reservation changes none.          *)
LEMMA OrdersStay ==
  ASSUME \A o \in Order : OrderOK(o),
         \A o \in Order : db'[R!orderRow(o)] = db[R!orderRow(o)] /\ db'[R!resvRow(o)] = db[R!resvRow(o)]
  PROVE  OrdersMove /\ \A o \in Order : OrderOK(o)'
BY DEF OrdersMove, OrderOK, R!LinesOf, R!Item

(* An event with nothing to do is recorded.                                *)
LEMMA LookupKeeps ==
  ASSUME SettlementAssumption, Orderly, NEW h \in Hook, R!Lookup(h)
  PROVE  Orderly' /\ OrdersMove
<1> DEFINE e == work[h].event
           o == work[h].order
<1>1. /\ h \in Settler /\ e \in Event /\ e.order = o /\ work[h].pc = "lookup"
      /\ \A r \in DOMAIN dirty[h] : r[1] = "event"
  BY LookupReads DEF R!Lookup
<1>2. CASE R!Concerned(h, e, R!Status(h, o))
  <2>1. R!NoStatement /\ R!Begun(h, e, R!TaskFor(e, R!Status(h, o)))
    BY <1>1, <1>2 DEF R!Lookup
  <2>2. PICK f : SettlerOK(h)' /\ R!Goto(h, f)
    BY <1>1, <1>2, <2>1, BegunOK
  <2> QED
    BY <1>1, <2>1, <2>2, ReadStep, StatementKeeps
<1>3. CASE ~R!Concerned(h, e, R!Status(h, o))
  <2>1. R!CommitWith(h, R!NoWrites) /\ R!Goto(h, R!Idle)
    BY <1>1, <1>3 DEF R!Lookup, R!Commit
  <2>2. /\ StoreOf(R!Row)' /\ LocksExclusive' /\ dirty'[h] = R!NoWrites
        /\ \A r \in R!Row : db'[r] = IF r \in DOMAIN R!NoWrites THEN R!NoWrites[r] ELSE R!Read(h, r)
        /\ \A q \in Proc \ {h} : /\ dirty'[q] = dirty[q]
                                 /\ \A r \in DOMAIN dirty[q] : db'[r] = db[r]
    BY <1>1, <2>1, OneWrite, Settlers, PublishedRows DEF Orderly
  <2>3. \A r \in R!Row : r[1] # "event" => db'[r] = db[r]
    BY <1>1, <2>2, OneWrite DEF R!Read
  <2>4. OrdersMove /\ \A x \in Order : OrderOK(x)'
    BY <2>3, TableNames, TablesThere, OrdersStay DEF Orderly
  <2>5. SettlerOK(h)'
    BY <1>1, <2>1, <2>2, RestKeeps, FrameMoves DEF Orderly
  <2> QED
    BY <1>1, <2>1, <2>2, <2>4, <2>5, CommitStep
<1> QED
  BY <1>2, <1>3

(* Dropping the statements since the savepoint.                            *)
LEMMA ToSavepoint ==
  ASSUME SettlementAssumption, Orderly, NEW p \in Settler, UNCHANGED db,
         dirty' = [dirty EXCEPT ![p] = [r \in {x \in DOMAIN @ : x[1] # "stock"} |-> @[r]]]
  PROVE  /\ StoreOf(R!Row)' /\ LocksExclusive' /\ db' = db
         /\ DOMAIN dirty'[p] = {x \in DOMAIN dirty[p] : x[1] # "stock"}
         /\ \A r \in DOMAIN dirty'[p] : dirty'[p][r] = dirty[p][r]
         /\ \A q \in Proc \ {p} : dirty'[q] = dirty[q]
<1>1. p \in Proc /\ dirty = [q \in Proc |-> dirty[q]]
  BY Settlers DEF Orderly, StoreOf
<1>2. dirty'[p] = [r \in {x \in DOMAIN dirty[p] : x[1] # "stock"} |-> dirty[p][r]]
  BY <1>1
<1>3. /\ dirty' = [q \in Proc |-> dirty'[q]]
      /\ \A q \in Proc \ {p} : dirty'[q] = dirty[q]
  BY <1>1
<1>4. /\ DOMAIN dirty'[p] = {x \in DOMAIN dirty[p] : x[1] # "stock"}
      /\ \A r \in DOMAIN dirty'[p] : dirty'[p][r] = dirty[p][r]
  BY <1>2
<1>5. StoreOf(R!Row)'
  BY <1>3, <1>4 DEF Orderly, StoreOf
<1>6. LocksExclusive'
  BY <1>3, <1>4 DEF Orderly, LocksExclusive
<1> QED
  BY <1>3, <1>4, <1>5, <1>6

(* What is left of a list of lines.                                        *)
LEMMA NextLine ==
  ASSUME NEW todo \in Seq(Variant), todo # <<>>
  PROVE  /\ Head(todo) \in Variant /\ Tail(todo) \in Seq(Variant)
         /\ Len(todo) # 1 => Tail(todo) # <<>>
         /\ R!ToSet(todo) = {Head(todo)} \cup R!ToSet(Tail(todo))
<1>1. /\ Head(todo) \in Variant /\ Tail(todo) \in Seq(Variant)
      /\ Len(Tail(todo)) = Len(todo) - 1 /\ Len(todo) \in Nat /\ Len(todo) >= 1
      /\ Head(todo) = todo[1]
      /\ \A i \in 1..Len(Tail(todo)) : Tail(todo)[i] = todo[i + 1]
  OBVIOUS
<1>2. Len(todo) # 1 => Tail(todo) # <<>>
  BY <1>1
<1>3. DOMAIN todo = 1..Len(todo) /\ DOMAIN Tail(todo) = 1..Len(Tail(todo))
  BY <1>1
<1>4. \A i \in 1..Len(todo) : i = 1 \/ i - 1 \in 1..Len(Tail(todo))
  BY <1>1
<1>5. R!ToSet(todo) \subseteq {Head(todo)} \cup R!ToSet(Tail(todo))
  <2>1. ASSUME NEW i \in 1..Len(todo)
        PROVE  todo[i] \in {Head(todo)} \cup R!ToSet(Tail(todo))
    <3>1. CASE i = 1
      BY <1>1, <3>1
    <3>2. CASE i # 1
      <4>1. i - 1 \in 1..Len(Tail(todo)) /\ Tail(todo)[i - 1] = todo[i - 1 + 1] /\ i - 1 + 1 = i
        BY <1>1, <1>4, <3>2
      <4> QED
        BY <1>3, <4>1 DEF R!ToSet
    <3> QED
      BY <3>1, <3>2
  <2> QED
    BY <1>3, <2>1 DEF R!ToSet
<1>6. {Head(todo)} \cup R!ToSet(Tail(todo)) \subseteq R!ToSet(todo)
  <2>1. 1 \in DOMAIN todo /\ Head(todo) \in R!ToSet(todo)
    BY <1>1, <1>3 DEF R!ToSet
  <2>2. ASSUME NEW i \in 1..Len(Tail(todo))
        PROVE  Tail(todo)[i] \in R!ToSet(todo)
    <3>1. i + 1 \in 1..Len(todo)
      BY <1>1
    <3> QED
      BY <1>1, <1>3, <3>1 DEF R!ToSet
  <2> QED
    BY <1>3, <2>1, <2>2 DEF R!ToSet
<1> QED
  BY <1>1, <1>2, <1>5, <1>6

(* A late payment takes the units of one line again, or of none.           *)
LEMMA ReserveAgainKeeps ==
  ASSUME SettlementAssumption, Orderly, NEW h \in Hook, R!ReserveAgain(h)
  PROVE  Orderly' /\ OrdersMove
<1> DEFINE v == Head(work[h].todo)
           o == work[h].order
           s == R!Read(h, R!stockRow(v))
           q == R!Item(o)[v]
<1>1. work[h].pc = "again" /\ h \in Settler
  BY DEF R!ReserveAgain, Settler
<1>2. /\ work[h] \in Doing /\ SettlingOK(h) /\ o \in Order
  BY <1>1, AtHand DEF Settling
<1>3. /\ work[h].task = "late" /\ work[h].todo \in Seq(Variant) /\ work[h].todo # <<>>
      /\ <<>> \in Seq(Variant)
  BY <1>1, <1>2 DEF SettlingOK, Doing
<1>4. v \in Variant /\ Tail(work[h].todo) \in Seq(Variant)
      /\ (Len(work[h].todo) # 1 => Tail(work[h].todo) # <<>>)
  BY <1>3, NextLine
<1>5. CASE R!Shortfall(s, q)
  <2>1. /\ UNCHANGED db
        /\ dirty' = [dirty EXCEPT ![h] = [r \in {x \in DOMAIN @ : x[1] # "stock"} |-> @[r]]]
        /\ R!Goto(h, [work[h] EXCEPT !.todo = <<>>, !.short = TRUE, !.pc = "charge"])
    BY <1>5 DEF R!ReserveAgain
  <2>2. /\ StoreOf(R!Row)' /\ LocksExclusive' /\ db' = db
        /\ DOMAIN dirty'[h] = {x \in DOMAIN dirty[h] : x[1] # "stock"}
        /\ \A r \in DOMAIN dirty'[h] : dirty'[h][r] = dirty[h][r]
        /\ \A p \in Proc \ {h} : dirty'[p] = dirty[p]
    BY <1>1, <2>1, ToSavepoint
  <2>3. work'[h] = [work[h] EXCEPT !.todo = <<>>, !.short = TRUE, !.pc = "charge"]
    BY <1>1, <2>1, FrameMoves DEF Orderly
  <2>4. /\ work'[h] \in Doing /\ work'[h].pc = "charge"
        /\ work'[h].task = work[h].task /\ work'[h].order = o
    BY <1>2, <1>3, <2>3 DEF Doing, Settling
  <2>5. SettlerOK(h)'
    BY <1>1, <1>3, <2>2, <2>4, SameOrder DEF Settling, PastMark
  <2> QED
    BY <1>1, <2>1, <2>2, <2>5, StatementKeeps
<1>6. CASE ~R!Shortfall(s, q)
  <2> DEFINE pc == IF Len(work[h].todo) = 1 THEN "charge" ELSE "again"
             x == R!CommitReservedStock(R!ReserveStock(s, q), q)
  <2>1. /\ R!Write(h, R!Only(R!stockRow(v), x))
        /\ R!Goto(h, [work[h] EXCEPT !.todo = Tail(@), !.pc = pc])
    BY <1>6 DEF R!ReserveAgain
  <2> HIDE DEF x, v
  <2>2. DOMAIN R!Only(R!stockRow(v), x) = {R!stockRow(v)} /\ R!stockRow(v) \in R!Row
    BY <1>4, OneWrite, TablesThere
  <2>3. /\ StoreOf(R!Row)' /\ LocksExclusive' /\ db' = db
        /\ DOMAIN dirty'[h] = {R!stockRow(v)} \cup DOMAIN dirty[h]
        /\ \A r \in DOMAIN dirty'[h] : r # R!stockRow(v) => dirty'[h][r] = dirty[h][r]
        /\ \A p \in Proc \ {h} : dirty'[p] = dirty[p]
    BY <1>1, <2>1, <2>2, WriteStep
  <2>4. work'[h] = [work[h] EXCEPT !.todo = Tail(@), !.pc = pc]
    BY <1>1, <2>1, FrameMoves DEF Orderly
  <2>5. /\ work'[h] \in Doing /\ work'[h].pc = pc /\ work'[h].todo = Tail(work[h].todo)
        /\ work'[h].task = work[h].task /\ work'[h].order = o
    BY <1>2, <1>4, <2>4 DEF Doing, Settling
  <2>6. pc = "charge" \/ (pc = "again" /\ Tail(work[h].todo) # <<>>)
    BY <1>4
  <2> HIDE DEF pc
  <2>7. \A r \in DOMAIN dirty'[h] : \/ r \in DOMAIN dirty[h] /\ dirty'[h][r] = dirty[h][r]
                                   \/ r[1] \in {"charge", "coupon", "stock"}
    BY <2>3, TableNames
  <2>8. SettlerOK(h)'
    BY <1>1, <1>3, <2>3, <2>5, <2>6, <2>7, SameOrder DEF Settling, PastMark
  <2> QED
    BY <1>1, <2>1, <2>3, <2>8, StatementKeeps
<1> QED
  BY <1>5, <1>6

(* SetChargeStatus.                                                        *)
LEMMA SetChargeKeeps ==
  ASSUME SettlementAssumption, Orderly, NEW h \in Hook, R!SetCharge(h)
  PROVE  Orderly' /\ OrdersMove
<1> DEFINE o == work[h].order
           x == IF work[h].task = "fail" THEN "failed" ELSE "paid"
<1>1. /\ work[h].pc = "charge" /\ h \in Settler
      /\ R!Write(h, R!Only(R!chargeRow(o), x)) /\ R!Goto(h, [work[h] EXCEPT !.pc = "finish"])
  BY DEF R!SetCharge, R!SetChargeStatus, Settler
<1> HIDE DEF x
<1>2. /\ work[h] \in Doing /\ o \in Order
  BY <1>1, AtHand DEF Settling
<1>3. DOMAIN R!Only(R!chargeRow(o), x) = {R!chargeRow(o)} /\ R!chargeRow(o) \in R!Row
  BY <1>2, OneWrite, TablesThere
<1>4. /\ StoreOf(R!Row)' /\ LocksExclusive' /\ db' = db
      /\ DOMAIN dirty'[h] = {R!chargeRow(o)} \cup DOMAIN dirty[h]
      /\ \A r \in DOMAIN dirty'[h] : r # R!chargeRow(o) => dirty'[h][r] = dirty[h][r]
      /\ \A p \in Proc \ {h} : dirty'[p] = dirty[p]
  BY <1>1, <1>3, WriteStep
<1>5. work'[h] = [work[h] EXCEPT !.pc = "finish"]
  BY <1>1, FrameMoves DEF Orderly
<1>6. /\ work'[h] \in Doing /\ work'[h].pc = "finish"
      /\ work'[h].task = work[h].task /\ work'[h].order = o
  BY <1>2, <1>5 DEF Doing, Settling
<1>7. SettlerOK(h)'
  BY <1>1, <1>4, <1>6, TableNames, SameOrder DEF Settling, PastMark
<1> QED
  BY <1>1, <1>4, <1>7, StatementKeeps

(* The reservations found held, in any order.                              *)
LEMMA ListKeeps ==
  ASSUME SettlementAssumption, Orderly, NEW p \in Settler, R!List(p)
  PROVE  Orderly' /\ OrdersMove
<1> DEFINE o == work[p].order
<1>1. work[p].pc = "list" /\ R!NoStatement
  BY DEF R!List
<1>2. PICK rows \in R!SetToSeqs(R!HeldReservations(p, o)) :
        R!Goto(p, [work[p] EXCEPT !.pc = "stock", !.todo = rows])
  BY DEF R!List
<1>3. /\ work[p] \in Doing /\ o \in Order /\ SettlingOK(p) /\ R!LinesOf(o) \subseteq Variant
  BY <1>1, AtHand DEF Settling
<1>4. rows \in Seq(Variant)
  BY <1>3, LinesInOrder DEF R!HeldReservations
<1>5. work'[p] = [work[p] EXCEPT !.pc = "stock", !.todo = rows]
  BY <1>2, FrameMoves DEF Orderly
<1>6. /\ work'[p] \in Doing /\ work'[p].pc = "stock"
      /\ work'[p].task = work[p].task /\ work'[p].order = o
  BY <1>3, <1>4, <1>5 DEF Doing, Settling
<1>7. StoreOf(R!Row)' /\ LocksExclusive' /\ db' = db /\ dirty' = dirty
  BY <1>1, ReadStep
<1>8. work[p].task # "late"
  BY <1>1, <1>3 DEF SettlingOK
<1>9. SettlerOK(p)'
  BY <1>1, <1>6, <1>7, <1>8, SameOrder DEF Settling, PastMark
<1> QED
  BY <1>2, <1>7, <1>9, StatementKeeps

(* The stock of one reservation.                                           *)
LEMMA ResolveStockKeeps ==
  ASSUME SettlementAssumption, Orderly, NEW p \in Settler, R!ResolveStock(p)
  PROVE  Orderly' /\ OrdersMove
<1> DEFINE v == Head(work[p].todo)
           o == work[p].order
           x == R!Resolved(R!Read(p, R!stockRow(v)), R!Item(o)[v], work[p].task)
<1>1. /\ work[p].pc = "stock" /\ work[p].todo # <<>> /\ R!Write(p, R!Only(R!stockRow(v), x))
      /\ R!Goto(p, [work[p] EXCEPT !.todo = Tail(@)])
  BY DEF R!ResolveStock
<1>2. /\ work[p] \in Doing /\ o \in Order /\ SettlingOK(p)
  BY <1>1, AtHand DEF Settling
<1>3. work[p].task # "late" /\ work[p].todo \in Seq(Variant)
  BY <1>1, <1>2 DEF SettlingOK, Doing
<1>4. v \in Variant /\ Tail(work[p].todo) \in Seq(Variant)
  BY <1>1, <1>3, NextLine
<1> HIDE DEF x, v
<1>5. DOMAIN R!Only(R!stockRow(v), x) = {R!stockRow(v)} /\ R!stockRow(v) \in R!Row
  BY <1>4, OneWrite, TablesThere
<1>6. /\ StoreOf(R!Row)' /\ LocksExclusive' /\ db' = db
      /\ DOMAIN dirty'[p] = {R!stockRow(v)} \cup DOMAIN dirty[p]
      /\ \A r \in DOMAIN dirty'[p] : r # R!stockRow(v) => dirty'[p][r] = dirty[p][r]
      /\ \A q \in Proc \ {p} : dirty'[q] = dirty[q]
  BY <1>1, <1>5, WriteStep
<1>7. work'[p] = [work[p] EXCEPT !.todo = Tail(@)]
  BY <1>1, FrameMoves DEF Orderly
<1>8. /\ work'[p] \in Doing /\ work'[p].pc = "stock"
      /\ work'[p].task = work[p].task /\ work'[p].order = o
  BY <1>1, <1>2, <1>4, <1>7 DEF Doing, Settling
<1>9. SettlerOK(p)'
  BY <1>1, <1>3, <1>6, <1>8, TableNames, SameOrder DEF Settling, PastMark
<1> QED
  BY <1>1, <1>6, <1>9, StatementKeeps

(* Whose coupon is given back.                                             *)
LEMMA MarkStep ==
  ASSUME Orderly, NEW p \in Settler, work[p].pc \in Settling, work[p].task # "late"
  PROVE  /\ R!AfterMark(p) \in PastMark
         /\ R!AfterMark(p) = "coupon" => R!Code(work[p].order) \in Coupon
         /\ R!Marked(p) \in {"committed", "released"}
<1>1. /\ work[p] \in Doing /\ SettlingOK(p) /\ OrderOK(work[p].order)
  BY AtHand
<1>2. R!Code(work[p].order) # NoCoupon => R!Code(work[p].order) \in Coupon
  BY <1>1 DEF OrderOK, OrderRecord, R!Code
<1>3. work[p].task \in {"pay", "fail", "expire"}
  BY <1>1 DEF SettlingOK, Doing
<1>4. /\ work[p].task = "pay" => R!AfterMark(p) = "charge"
      /\ work[p].task # "pay" /\ R!Code(work[p].order) # NoCoupon => R!AfterMark(p) = "coupon"
      /\ work[p].task = "fail" /\ R!Code(work[p].order) = NoCoupon => R!AfterMark(p) = "charge"
      /\ work[p].task = "expire" /\ R!Code(work[p].order) = NoCoupon => R!AfterMark(p) = "finish"
  BY DEF R!AfterMark
<1>5. R!AfterMark(p) \in PastMark /\ (R!AfterMark(p) = "coupon" => R!Code(work[p].order) # NoCoupon)
  BY <1>3, <1>4 DEF PastMark
<1> QED
  BY <1>2, <1>5 DEF R!Marked

(* SetReservationStatus: what is still held is resolved, nothing else is.  *)
LEMMA MarkReservationsKeeps ==
  ASSUME SettlementAssumption, Orderly, NEW p \in Settler, R!MarkReservations(p)
  PROVE  Orderly' /\ OrdersMove
<1> DEFINE o == work[p].order
           rows == R!SetReservationStatus(p, o, R!Marked(p))
           pc == R!AfterMark(p)
<1>1. /\ work[p].pc = "stock" /\ R!Write(p, rows)
      /\ R!Goto(p, [work[p] EXCEPT !.pc = pc])
  BY DEF R!MarkReservations
<1>2. /\ work[p] \in Doing /\ o \in Order /\ SettlingOK(p) /\ OrderOK(o)
      /\ work[p].task # "late"
  <2>1. work[p] \in Doing /\ o \in Order /\ SettlingOK(p) /\ OrderOK(o)
    BY <1>1, AtHand DEF Settling
  <2> QED
    BY <1>1, <2>1 DEF SettlingOK
<1>3. /\ pc \in PastMark /\ (pc = "coupon" => R!Code(o) \in Coupon)
      /\ R!Marked(p) \in {"committed", "released"}
  BY <1>1, <1>2, MarkStep DEF Settling
<1>4. R!Read(p, R!resvRow(o)) = db[R!resvRow(o)]
  <2>1. R!resvRow(o) \notin DOMAIN dirty[p]
    BY <1>1, <1>2 DEF SettlingOK, PastMark
  <2> QED
    BY <2>1 DEF R!Read
<1>5. rows = IF db[R!resvRow(o)] = "held" THEN R!Only(R!resvRow(o), R!Marked(p)) ELSE R!NoWrites
  BY <1>4 DEF R!SetReservationStatus
<1>6. /\ DOMAIN rows = IF db[R!resvRow(o)] = "held" THEN {R!resvRow(o)} ELSE {}
      /\ db[R!resvRow(o)] = "held" => rows[R!resvRow(o)] = R!Marked(p)
  BY <1>5, OneWrite
<1>7. DOMAIN rows \subseteq R!Row
  BY <1>2, <1>6, TablesThere
<1> HIDE DEF rows, pc
<1>8. /\ StoreOf(R!Row)' /\ LocksExclusive' /\ db' = db
      /\ DOMAIN dirty'[p] = DOMAIN rows \cup DOMAIN dirty[p]
      /\ \A r \in DOMAIN dirty'[p] : dirty'[p][r] = IF r \in DOMAIN rows THEN rows[r] ELSE dirty[p][r]
      /\ \A q \in Proc \ {p} : dirty'[q] = dirty[q]
  BY <1>1, <1>7, WriteStep
<1>9. work'[p] = [work[p] EXCEPT !.pc = pc]
  BY <1>1, FrameMoves DEF Orderly
<1>10. /\ work'[p] \in Doing /\ work'[p].pc = pc
       /\ work'[p].task = work[p].task /\ work'[p].order = o
  BY <1>2, <1>3, <1>9 DEF Doing, Settling, PastMark
<1>11. /\ R!resvRow(o) \in DOMAIN dirty'[p] => db[R!resvRow(o)] = "held" /\ dirty'[p][R!resvRow(o)] = R!Marked(p)
       /\ db[R!orderRow(o)].status = "pending_payment" => R!resvRow(o) \in DOMAIN dirty'[p]
  <2>1. R!resvRow(o) \notin DOMAIN dirty[p]
    BY <1>1, <1>2 DEF SettlingOK, PastMark
  <2> QED
    BY <1>2, <1>6, <1>8, <2>1 DEF OrderOK
<1>12. \A r \in DOMAIN dirty'[p] : r = R!resvRow(o) \/ (r \in DOMAIN dirty[p] /\ dirty'[p][r] = dirty[p][r])
  BY <1>6, <1>8
<1>13. SettlingOK(p)'
  <2>1. \A r \in DOMAIN dirty'[p] : \/ r[1] \in {"event", "charge", "coupon", "stock"}
                                    \/ r = R!orderRow(o) /\ p \in Jobs
                                    \/ r = R!resvRow(o)
    BY <1>2, <1>12 DEF SettlingOK
  <2>2. p \in Jobs => /\ R!orderRow(o) \in DOMAIN dirty'[p]
                      /\ db[R!orderRow(o)].status = "pending_payment"
                      /\ dirty'[p][R!orderRow(o)] = [db[R!orderRow(o)] EXCEPT !.status = "expired"]
    <3>1. ASSUME p \in Jobs
          PROVE  R!orderRow(o) \in DOMAIN dirty'[p] /\ dirty'[p][R!orderRow(o)] = dirty[p][R!orderRow(o)]
      <4>1. R!orderRow(o) \in DOMAIN dirty[p] /\ R!orderRow(o) # R!resvRow(o)
        BY <1>2, <3>1, TableNames DEF SettlingOK
      <4> QED
        BY <1>8, <1>12, <4>1
    <3> QED
      BY <1>2, <3>1 DEF SettlingOK
  <2>3. R!Code(o)' = R!Code(o)
    BY <1>8, <1>10 DEF R!Code
  <2> QED
    BY <1>2, <1>3, <1>8, <1>10, <1>11, <2>1, <2>2, <2>3 DEF SettlingOK, PastMark
<1>14. SettlerOK(p)'
  BY <1>3, <1>10, <1>13 DEF SettlerOK, PastMark
<1> QED
  BY <1>1, <1>8, <1>14, StatementKeeps

(* ReleaseCoupon.                                                          *)
LEMMA GiveBackCouponKeeps ==
  ASSUME SettlementAssumption, Orderly, NEW p \in Settler, R!GiveBackCoupon(p)
  PROVE  Orderly' /\ OrdersMove
<1> DEFINE o == work[p].order
           c == R!Code(o)
           rows == R!ReleaseCoupon(p, c)
           pc == IF work[p].task = "fail" THEN "charge" ELSE "finish"
<1>1. /\ work[p].pc = "coupon" /\ R!Write(p, rows)
      /\ R!Goto(p, [work[p] EXCEPT !.pc = pc])
  BY DEF R!GiveBackCoupon
<1>2. /\ work[p] \in Doing /\ o \in Order /\ SettlingOK(p)
  BY <1>1, AtHand DEF Settling
<1>3. c \in Coupon /\ pc \in {"charge", "finish"}
  BY <1>1, <1>2 DEF SettlingOK
<1>4. DOMAIN rows \subseteq {R!couponRow(c)} /\ R!couponRow(c) \in R!Row
  BY <1>3, OneWrite, TablesThere DEF R!ReleaseCoupon
<1> HIDE DEF rows, pc, c
<1>5. /\ StoreOf(R!Row)' /\ LocksExclusive' /\ db' = db
      /\ DOMAIN dirty'[p] = DOMAIN rows \cup DOMAIN dirty[p]
      /\ \A r \in DOMAIN dirty'[p] : dirty'[p][r] = IF r \in DOMAIN rows THEN rows[r] ELSE dirty[p][r]
      /\ \A q \in Proc \ {p} : dirty'[q] = dirty[q]
  BY <1>1, <1>4, WriteStep
<1>6. work'[p] = [work[p] EXCEPT !.pc = pc]
  BY <1>1, FrameMoves DEF Orderly
<1>7. /\ work'[p] \in Doing /\ work'[p].pc = pc
      /\ work'[p].task = work[p].task /\ work'[p].order = o
  BY <1>2, <1>3, <1>6 DEF Doing, Settling
<1>8. \A r \in DOMAIN dirty'[p] : \/ r \in DOMAIN dirty[p] /\ dirty'[p][r] = dirty[p][r]
                                  \/ r[1] \in {"charge", "coupon", "stock"}
  BY <1>4, <1>5, TableNames
<1>9. SettlerOK(p)'
  BY <1>1, <1>3, <1>5, <1>7, <1>8, SameOrder DEF Settling, PastMark
<1> QED
  BY <1>1, <1>5, <1>9, StatementKeeps

(* The tick: a session that is between transactions has written nothing.   *)
LEMMA TickKeeps ==
  ASSUME SettlementAssumption, Orderly, NEW j \in Jobs, R!Tick(j)
  PROVE  Orderly' /\ OrdersMove
<1> DEFINE f == [R!Idle EXCEPT !.pc = "next", !.list = R!ListExpiredHeldOrderIDs]
<1>1. work[j].pc = "idle" /\ j \in Settler /\ R!Goto(j, f) /\ R!NoStatement
  BY DEF R!Tick, Settler
<1>2. StoreOf(R!Row)' /\ LocksExclusive' /\ db' = db /\ dirty' = dirty
  BY <1>1, ReadStep
<1>3. work'[j] = f /\ dirty'[j] = R!NoWrites'
  BY <1>1, <1>2, FrameMoves DEF Orderly, SettlerOK, R!NoWrites
<1>4. R!ListExpiredHeldOrderIDs \subseteq Order
  BY DEF R!ListExpiredHeldOrderIDs, Orderly
<1>5. work'[j] \in Doing /\ work'[j].pc = "next"
  BY <1>3, <1>4, IdleFrame DEF Doing, R!Idle
<1>6. SettlerOK(j)'
  BY <1>3, <1>5 DEF SettlerOK, Settling
<1> QED
  BY <1>1, <1>2, <1>6, StatementKeeps

(* The job goes on to the next order of its list.                          *)
LEMMA NextOrderKeeps ==
  ASSUME SettlementAssumption, Orderly, NEW j \in Jobs, R!NextOrder(j)
  PROVE  Orderly' /\ OrdersMove
<1>1. work[j].pc = "next" /\ j \in Settler /\ R!NoStatement
  BY DEF R!NextOrder, Settler
<1>2. StoreOf(R!Row)' /\ LocksExclusive' /\ db' = db /\ dirty' = dirty
  BY <1>1, ReadStep
<1>3. work[j] \in Doing /\ dirty'[j] = R!NoWrites'
  BY <1>1, <1>2 DEF Orderly, SettlerOK, R!NoWrites
<1>4. CASE R!Goto(j, R!Idle)
  <2>1. SettlerOK(j)'
    BY <1>1, <1>3, <1>4, FrameMoves, RestKeeps DEF Orderly, R!NoWrites
  <2> QED
    BY <1>1, <1>2, <1>4, <2>1, StatementKeeps
<1>5. ASSUME NEW o \in work[j].list, R!Goto(j, [work[j] EXCEPT !.list = @ \ {o}])
      PROVE  Orderly' /\ OrdersMove
  <2>1. work'[j] = [work[j] EXCEPT !.list = @ \ {o}]
    BY <1>1, <1>5, FrameMoves DEF Orderly
  <2>2. work'[j] \in Doing /\ work'[j].pc = "next"
    BY <1>1, <1>3, <2>1 DEF Doing
  <2>3. SettlerOK(j)'
    BY <1>3, <2>2 DEF SettlerOK, Settling
  <2> QED
    BY <1>1, <1>2, <1>5, <2>3, StatementKeeps
<1>6. ASSUME NEW o \in work[j].list,
             R!Goto(j, [work[j] EXCEPT !.list = @ \ {o}, !.order = o, !.pc = "expire", !.task = "expire"])
      PROVE  Orderly' /\ OrdersMove
  <2>1. work'[j] = [work[j] EXCEPT !.list = @ \ {o}, !.order = o, !.pc = "expire", !.task = "expire"]
    BY <1>1, <1>6, FrameMoves DEF Orderly
  <2>2. o \in Order
    BY <1>3, <1>6 DEF Doing
  <2>3. work'[j] \in Doing /\ work'[j].pc = "expire" /\ work'[j].order = o /\ work'[j].task = "expire"
    BY <1>3, <2>1, <2>2 DEF Doing
  <2>4. SettlerOK(j)'
    BY <1>3, <2>2, <2>3 DEF SettlerOK, Settling
  <2> QED
    BY <1>1, <1>2, <1>6, <2>4, StatementKeeps
<1> QED
  BY <1>4, <1>5, <1>6 DEF R!NextOrder

(* The job expires the order, unless it is no longer pending.              *)
LEMMA ExpireOrderKeeps ==
  ASSUME SettlementAssumption, Orderly, NEW j \in Jobs, R!ExpireOrder(j)
  PROVE  Orderly' /\ OrdersMove
<1> DEFINE o == work[j].order
<1>1. work[j].pc = "expire" /\ j \in Settler
  BY DEF R!ExpireOrder, Settler
<1>2. /\ work[j] \in Doing /\ o \in Order /\ work[j].task = "expire" /\ dirty[j] = R!NoWrites
      /\ OrderOK(o)
  BY <1>1 DEF Orderly, SettlerOK
<1>3. R!Read(j, R!orderRow(o)) = db[R!orderRow(o)] /\ R!Status(j, o) = db[R!orderRow(o)].status
  BY <1>2, OneWrite DEF R!Read, R!Status
<1>4. CASE R!Status(j, o) = "pending_payment"
  <2> DEFINE rows == R!Transition(j, o)
             x == [db[R!orderRow(o)] EXCEPT !.status = "expired"]
  <2>1. R!Write(j, rows) /\ R!Goto(j, [work[j] EXCEPT !.pc = "list"])
    BY <1>4 DEF R!ExpireOrder
  <2>2. rows = R!Only(R!orderRow(o), x)
    BY <1>2, <1>3, <1>4 DEF R!Transition, R!From, R!To
  <2>3. DOMAIN rows = {R!orderRow(o)} /\ rows[R!orderRow(o)] = x /\ R!orderRow(o) \in R!Row
    BY <1>2, <2>2, OneWrite, TablesThere
  <2> HIDE DEF rows, x
  <2>4. /\ StoreOf(R!Row)' /\ LocksExclusive' /\ db' = db
        /\ DOMAIN dirty'[j] = {R!orderRow(o)} /\ dirty'[j][R!orderRow(o)] = x
        /\ \A q \in Proc \ {j} : dirty'[q] = dirty[q]
    BY <1>1, <1>2, <2>1, <2>3, WriteStep, OneWrite
  <2>5. work'[j] = [work[j] EXCEPT !.pc = "list"]
    BY <1>1, <2>1, FrameMoves DEF Orderly
  <2>6. /\ work'[j] \in Doing /\ work'[j].pc = "list" /\ work'[j].task = "expire" /\ work'[j].order = o
    BY <1>2, <2>5 DEF Doing, Settling
  <2>7. R!resvRow(o) # R!orderRow(o) /\ db[R!orderRow(o)].status = "pending_payment"
    BY <1>3, <1>4, TableNames
  <2>8. SettlingOK(j)'
    BY <1>1, <1>2, <2>4, <2>6, <2>7 DEF SettlingOK, PastMark, x
  <2>9. SettlerOK(j)'
    BY <2>6, <2>8 DEF SettlerOK
  <2> QED
    BY <1>1, <2>1, <2>4, <2>9, StatementKeeps
<1>5. CASE R!Status(j, o) # "pending_payment"
  <2>1. R!Rollback(j) /\ R!Goto(j, [R!Idle EXCEPT !.pc = "next", !.list = work[j].list])
    BY <1>5 DEF R!ExpireOrder
  <2>2. /\ StoreOf(R!Row)' /\ LocksExclusive' /\ db' = db /\ dirty'[j] = R!NoWrites'
        /\ \A q \in Proc \ {j} : dirty'[q] = dirty[q]
    BY <1>1, <2>1, RollbackStep DEF R!NoWrites
  <2>3. work'[j] = [R!Idle EXCEPT !.pc = "next", !.list = work[j].list]
    BY <1>1, <2>1, FrameMoves DEF Orderly
  <2>4. work'[j] \in Doing /\ work'[j].pc = "next"
    BY <1>2, <2>3, IdleFrame DEF Doing, R!Idle
  <2>5. SettlerOK(j)'
    BY <2>2, <2>4 DEF SettlerOK, Settling
  <2> QED
    BY <1>1, <2>1, <2>2, <2>5, StatementKeeps
<1> QED
  BY <1>4, <1>5

(* A failed statement, or a lost connection.                               *)
LEMMA AbortKeeps ==
  ASSUME SettlementAssumption, Orderly, NEW p \in Settler, R!Abort(p)
  PROVE  Orderly' /\ OrdersMove
<1>1. R!Rollback(p) /\ R!Goto(p, R!Idle)
  BY DEF R!Abort
<1>2. /\ StoreOf(R!Row)' /\ LocksExclusive' /\ db' = db /\ dirty'[p] = R!NoWrites
      /\ \A q \in Proc \ {p} : dirty'[q] = dirty[q]
  BY <1>1, RollbackStep
<1>3. SettlerOK(p)'
  BY <1>1, <1>2, FrameMoves, RestKeeps DEF Orderly
<1> QED
  BY <1>1, <1>2, <1>3, StatementKeeps

(* The last UPDATE takes an order from the status the session found.       *)
Settled(p) ==
  LET o == work[p].order IN
  /\ \A x \in Order \ {o} : db'[R!orderRow(x)] = db[R!orderRow(x)] /\ db'[R!resvRow(x)] = db[R!resvRow(x)]
  /\ db'[R!resvRow(o)] = R!Read(p, R!resvRow(o))
  /\ db'[R!orderRow(o)] = IF db[R!orderRow(o)].status = R!From(p)
                          THEN [db[R!orderRow(o)] EXCEPT !.status = R!To(p)] ELSE db[R!orderRow(o)]

(* The statuses a task moves an order between.                             *)
LEMMA TaskMoves ==
  ASSUME NEW p, work[p].task \in {"pay", "fail", "late", "expire"}
  PROVE  /\ work[p].task = "late" => R!From(p) = "expired" /\ R!To(p) \in {"paid", "paid_awaiting_stock"}
         /\ work[p].task # "late" => /\ R!From(p) = "pending_payment"
                                     /\ R!To(p) \in {"paid", "payment_failed", "expired"}
BY DEF R!From, R!To

(* One order changes, and stays what an order is.                          *)
LEMMA OneOrder ==
  ASSUME NEW o \in Order, \A x \in Order \ {o} : OrderOK(x)',
         \A x \in Order \ {o} : db'[R!orderRow(x)] = db[R!orderRow(x)] /\ db'[R!resvRow(x)] = db[R!resvRow(x)],
         OrderOK(o), db[R!orderRow(o)].status # "none",
         db'[R!orderRow(o)] \in OrderRecord, db'[R!orderRow(o)].item = db[R!orderRow(o)].item,
         db'[R!orderRow(o)].coupon = db[R!orderRow(o)].coupon,
         db'[R!orderRow(o)].status \notin {"none", "pending_payment"},
         db'[R!resvRow(o)] \in {"committed", "released"},
         db'[R!resvRow(o)] = db[R!resvRow(o)] \/ db[R!resvRow(o)] = "held"
  PROVE  OrdersMove /\ \A x \in Order : OrderOK(x)'
<1>1. OrdersMove
  BY DEF OrdersMove
<1>2. R!LinesOf(o)' # {}
  BY DEF OrderOK, R!LinesOf, R!Item
<1>3. OrderOK(o)'
  BY <1>2 DEF OrderOK
<1> QED
  BY <1>1, <1>3

(* A settlement takes a pending order's reservations with it.              *)
LEMMA SettledOK ==
  ASSUME Orderly, NEW p \in Settler, work[p].pc = "finish", Settled(p)
  PROVE  OrdersMove /\ \A x \in Order : OrderOK(x)'
<1> DEFINE o == work[p].order
<1>1. /\ work[p] \in Doing /\ o \in Order /\ SettlingOK(p) /\ OrderOK(o)
  BY AtHand DEF Settling
<1>2. work[p].task \in {"pay", "fail", "late", "expire"}
  BY <1>1 DEF SettlingOK, Doing
<1>3. \A x \in Order \ {o} : OrderOK(x)'
  BY DEF Settled, Orderly, OrderOK, R!LinesOf, R!Item
<1>4. db[R!orderRow(o)] \in OrderRecord /\ db[R!orderRow(o)].status # "none"
  BY <1>1 DEF OrderOK, SettlingOK
<1>5. /\ db'[R!orderRow(o)] \in OrderRecord
      /\ db'[R!orderRow(o)].item = db[R!orderRow(o)].item
      /\ db'[R!orderRow(o)].coupon = db[R!orderRow(o)].coupon
  BY <1>2, <1>4, TaskMoves DEF Settled, OrderRecord, Statuses
<1>6. CASE db[R!orderRow(o)].status = "pending_payment"
  <2>1. work[p].task # "late" /\ R!resvRow(o) \in DOMAIN dirty[p]
    BY <1>1, <1>6 DEF SettlingOK, PastMark
  <2>2. db'[R!resvRow(o)] \in {"committed", "released"} /\ db[R!resvRow(o)] = "held"
    BY <1>1, <2>1 DEF SettlingOK, Settled, R!Read
  <2>3. db'[R!orderRow(o)].status \in {"paid", "payment_failed", "expired"}
    BY <1>2, <1>4, <1>6, <2>1, TaskMoves DEF Settled, OrderRecord
  <2> QED
    BY <1>1, <1>3, <1>4, <1>5, <1>6, <2>2, <2>3, OneOrder DEF Settled
<1>7. CASE db[R!orderRow(o)].status # "pending_payment"
  <2>1. R!resvRow(o) \notin DOMAIN dirty[p]
    BY <1>1, <1>7 DEF SettlingOK, OrderOK
  <2>2. db'[R!resvRow(o)] = db[R!resvRow(o)]
    BY <2>1 DEF Settled, R!Read
  <2>3. db'[R!orderRow(o)].status \notin {"none", "pending_payment"}
    BY <1>2, <1>4, <1>7, TaskMoves DEF Settled, OrderRecord
  <2>4. db[R!resvRow(o)] \notin {"none", "held"} /\ db[R!resvRow(o)] \in {"committed", "released"}
    BY <1>1, <1>4, <1>7 DEF OrderOK
  <2> QED
    BY <1>1, <1>3, <1>4, <1>5, <1>7, <2>2, <2>3, <2>4, OneOrder DEF Settled
<1> QED
  BY <1>6, <1>7

(* What the other rows of a session that settles an order are.             *)
LEMMA OnlyItsOrder ==
  ASSUME Orderly, NEW p \in Settler, work[p].pc \in Settling, NEW x \in Order \ {work[p].order}
  PROVE  R!orderRow(x) \notin DOMAIN dirty[p] /\ R!resvRow(x) \notin DOMAIN dirty[p]
<1>1. SettlingOK(p)
  BY AtHand
<1>2. /\ R!orderRow(x)[1] = "order" /\ R!resvRow(x)[1] = "resv"
      /\ R!orderRow(x) # R!orderRow(work[p].order) /\ R!resvRow(x) # R!resvRow(work[p].order)
      /\ R!orderRow(x) # R!resvRow(work[p].order) /\ R!resvRow(x) # R!orderRow(work[p].order)
  BY TableNames
<1> QED
  BY <1>1, <1>2 DEF SettlingOK

(* TransitionOrderStatus, RecordTransition and COMMIT of a webhook.        *)
LEMMA FinishKeeps ==
  ASSUME SettlementAssumption, Orderly, NEW h \in Hook, R!Finish(h)
  PROVE  Orderly' /\ OrdersMove /\ Settled(h)
<1> DEFINE o == work[h].order
           moved == R!Transition(h, o)
           noted == R!RecordTransition(o, R!From(h), R!To(h))
           rows == R!Together(moved, noted)
<1>1. /\ work[h].pc = "finish" /\ h \in Settler /\ h \notin Jobs
      /\ R!CommitWith(h, rows) /\ R!Goto(h, R!Idle)
  BY Settlers DEF R!Finish, Settler
<1>2. /\ o \in Order /\ SettlingOK(h)
  BY <1>1, AtHand DEF Settling
<1>3. R!orderRow(o) \notin DOMAIN dirty[h] /\ R!orderRow(o) # R!resvRow(o)
  BY <1>1, <1>2, TableNames DEF SettlingOK
<1>4. R!Read(h, R!orderRow(o)) = db[R!orderRow(o)] /\ R!Status(h, o) = db[R!orderRow(o)].status
  BY <1>3 DEF R!Read, R!Status
<1>5. moved = IF db[R!orderRow(o)].status = R!From(h)
                THEN R!Only(R!orderRow(o), [db[R!orderRow(o)] EXCEPT !.status = R!To(h)]) ELSE R!NoWrites
  BY <1>4 DEF R!Transition
<1>6. /\ DOMAIN moved = IF db[R!orderRow(o)].status = R!From(h) THEN {R!orderRow(o)} ELSE {}
      /\ db[R!orderRow(o)].status = R!From(h) =>
           moved[R!orderRow(o)] = [db[R!orderRow(o)] EXCEPT !.status = R!To(h)]
      /\ DOMAIN noted = {R!auditRow(o)}
  <2>1. DOMAIN noted = {R!auditRow(o)}
    BY OneWrite DEF R!RecordTransition
  <2>2. CASE db[R!orderRow(o)].status = R!From(h)
    BY <1>5, <2>1, <2>2, OneWrite
  <2>3. CASE db[R!orderRow(o)].status # R!From(h)
    BY <1>5, <2>1, <2>3, OneWrite
  <2> QED
    BY <2>1, <2>2, <2>3
<1> HIDE DEF moved, noted
<1>7. /\ DOMAIN rows = DOMAIN moved \cup {R!auditRow(o)}
      /\ R!orderRow(o) \in DOMAIN moved => rows[R!orderRow(o)] = moved[R!orderRow(o)]
  BY <1>6 DEF R!Together
<1> HIDE DEF rows
<1>8. DOMAIN rows \subseteq R!Row
  BY <1>2, <1>6, <1>7, TablesThere
<1>9. /\ StoreOf(R!Row)' /\ LocksExclusive' /\ dirty'[h] = R!NoWrites
      /\ \A r \in R!Row : db'[r] = IF r \in DOMAIN rows THEN rows[r] ELSE R!Read(h, r)
      /\ \A q \in Proc \ {h} : /\ dirty'[q] = dirty[q]
                               /\ \A r \in DOMAIN dirty[q] : db'[r] = db[r]
  BY <1>1, <1>8, Settlers, PublishedRows DEF Orderly
<1>10. Settled(h)
  <2>1. ASSUME NEW x \in Order \ {o}
        PROVE  db'[R!orderRow(x)] = db[R!orderRow(x)] /\ db'[R!resvRow(x)] = db[R!resvRow(x)]
    <3>1. R!orderRow(x) \notin DOMAIN rows /\ R!resvRow(x) \notin DOMAIN rows
      BY <1>6, <1>7, TableNames
    <3>2. R!orderRow(x) \notin DOMAIN dirty[h] /\ R!resvRow(x) \notin DOMAIN dirty[h]
      BY <1>1, OnlyItsOrder DEF Settling
    <3> QED
      BY <1>9, <3>1, <3>2, TablesThere DEF R!Read
  <2>2. db'[R!resvRow(o)] = R!Read(h, R!resvRow(o))
    BY <1>2, <1>6, <1>7, <1>9, TableNames, TablesThere
  <2>3. db'[R!orderRow(o)] = IF db[R!orderRow(o)].status = R!From(h)
                             THEN [db[R!orderRow(o)] EXCEPT !.status = R!To(h)] ELSE db[R!orderRow(o)]
    BY <1>2, <1>4, <1>6, <1>7, <1>9, TableNames, TablesThere
  <2> QED
    BY <2>1, <2>2, <2>3 DEF Settled
<1>11. OrdersMove /\ \A x \in Order : OrderOK(x)'
  BY <1>1, <1>10, SettledOK
<1>12. SettlerOK(h)'
  BY <1>1, <1>9, RestKeeps, FrameMoves DEF Orderly
<1> QED
  BY <1>1, <1>9, <1>10, <1>11, <1>12, CommitStep

(* The job's transaction commits what it wrote, and goes on.               *)
LEMMA FinishOrderKeeps ==
  ASSUME SettlementAssumption, Orderly, NEW j \in Jobs, R!FinishOrder(j)
  PROVE  Orderly' /\ OrdersMove /\ Settled(j)
<1> DEFINE o == work[j].order
           rows == R!RecordTransition(o, R!From(j), R!To(j))
<1>1. /\ work[j].pc = "finish" /\ j \in Settler /\ R!CommitWith(j, rows)
      /\ R!Goto(j, [R!Idle EXCEPT !.pc = "next", !.list = work[j].list])
  BY DEF R!FinishOrder, Settler
<1>2. /\ work[j] \in Doing /\ o \in Order /\ SettlingOK(j)
  BY <1>1, AtHand DEF Settling
<1>3. DOMAIN rows = {R!auditRow(o)} /\ R!auditRow(o) \in R!Row
  BY <1>2, OneWrite, TablesThere DEF R!RecordTransition
<1> HIDE DEF rows
<1>4. /\ StoreOf(R!Row)' /\ LocksExclusive' /\ dirty'[j] = R!NoWrites
      /\ \A r \in R!Row : db'[r] = IF r \in DOMAIN rows THEN rows[r] ELSE R!Read(j, r)
      /\ \A q \in Proc \ {j} : /\ dirty'[q] = dirty[q]
                               /\ \A r \in DOMAIN dirty[q] : db'[r] = db[r]
  BY <1>1, <1>3, Settlers, PublishedRows DEF Orderly
<1>5. Settled(j)
  <2>1. ASSUME NEW x \in Order \ {o}
        PROVE  db'[R!orderRow(x)] = db[R!orderRow(x)] /\ db'[R!resvRow(x)] = db[R!resvRow(x)]
    <3>1. R!orderRow(x) \notin DOMAIN dirty[j] /\ R!resvRow(x) \notin DOMAIN dirty[j]
      BY <1>1, OnlyItsOrder DEF Settling
    <3> QED
      BY <1>3, <1>4, <3>1, TableNames, TablesThere DEF R!Read
  <2>2. db'[R!resvRow(o)] = R!Read(j, R!resvRow(o)) /\ db'[R!orderRow(o)] = R!Read(j, R!orderRow(o))
    BY <1>2, <1>3, <1>4, TableNames, TablesThere
  <2>3. /\ db[R!orderRow(o)].status = "pending_payment"
        /\ R!Read(j, R!orderRow(o)) = [db[R!orderRow(o)] EXCEPT !.status = "expired"]
    BY <1>2 DEF SettlingOK, R!Read
  <2>4. R!From(j) = "pending_payment" /\ R!To(j) = "expired"
    BY <1>2 DEF SettlingOK, R!From, R!To
  <2> QED
    BY <2>1, <2>2, <2>3, <2>4 DEF Settled
<1>6. OrdersMove /\ \A x \in Order : OrderOK(x)'
  BY <1>1, <1>5, SettledOK
<1>7. work'[j] = [R!Idle EXCEPT !.pc = "next", !.list = work[j].list]
  BY <1>1, FrameMoves DEF Orderly
<1>8. work'[j] \in Doing /\ work'[j].pc = "next"
  BY <1>2, <1>7, IdleFrame DEF Doing, R!Idle
<1>9. SettlerOK(j)'
  BY <1>4, <1>8 DEF SettlerOK, Settling, R!NoWrites
<1> QED
  BY <1>1, <1>4, <1>5, <1>6, <1>9, CommitStep

(* What a step of the shop leaves alone.                                   *)
LEMMA ShopStep ==
  ASSUME SettlementAssumption,
         Orderly, NEW rows, DOMAIN rows \subseteq R!Row, R!CommitWith(Shop, rows), UNCHANGED <<work, due>>
  PROVE  /\ StoreOf(R!Row)' /\ LocksExclusive' /\ dirty' = dirty
         /\ \A r \in R!Row : db'[r] = IF r \in DOMAIN rows THEN rows[r] ELSE db[r]
         /\ \A q \in Settler : \A r \in DOMAIN dirty[q] : db'[r] = db[r]
         /\ OrdersMove /\ (\A o \in Order : OrderOK(o)') => Orderly'
<1>1. /\ StoreOf(R!Row)' /\ LocksExclusive' /\ dirty'[Shop] = R!NoWrites
      /\ \A r \in R!Row : db'[r] = IF r \in DOMAIN rows THEN rows[r] ELSE R!Read(Shop, r)
      /\ \A q \in Proc \ {Shop} : /\ dirty'[q] = dirty[q]
                                  /\ \A r \in DOMAIN dirty[q] : db'[r] = db[r]
  BY Settlers, PublishedRows DEF Orderly
<1>2. \A r \in R!Row : R!Read(Shop, r) = db[r]
  BY OneWrite DEF Orderly, R!Read
<1>3. dirty' = dirty
  <2>1. \A q \in Proc : dirty'[q] = dirty[q]
    BY <1>1 DEF Orderly
  <2> QED
    BY <1>1, <2>1 DEF Orderly, StoreOf
<1>4. ASSUME OrdersMove, \A o \in Order : OrderOK(o)'
      PROVE  Orderly'
  <2>1. \A q \in Settler : SettlerOK(q)'
    BY <1>1, <1>3, <1>4, Settlers, KeepSettler
  <2>2. work' = work /\ due' = due /\ R!NoWrites' = R!NoWrites
    BY DEF R!NoWrites
  <2> QED
    BY <1>1, <1>4, <2>1, <2>2 DEF Orderly
<1> QED
  BY <1>1, <1>2, <1>3, <1>4, Settlers

(* What the statements of a confirm write.                                 *)
NewRows(o, lines, c) == R!Together(R!NewOrder(o, lines, c), R!Together(R!Reserved(lines), R!RedeemCoupon(c)))

LEMMA ConfirmWrites ==
  ASSUME NEW o \in Order, NEW lines \in [Variant -> 0..MaxQty], NEW c
  PROVE  /\ DOMAIN NewRows(o, lines, c)
              = {R!orderRow(o), R!resvRow(o), R!chargeRow(o), R!auditRow(o)}
                  \cup {R!stockRow(v) : v \in {w \in Variant : lines[w] > 0}}
                  \cup {R!couponRow(d) : d \in {c} \cap Coupon}
         /\ NewRows(o, lines, c)[R!orderRow(o)] = [status |-> "pending_payment", item |-> lines, coupon |-> c]
         /\ NewRows(o, lines, c)[R!resvRow(o)] = "held"
         /\ \A v \in Variant : lines[v] > 0 =>
              NewRows(o, lines, c)[R!stockRow(v)] = R!ReserveStock(db[R!stockRow(v)], lines[v])
<1> DEFINE row == [status |-> "pending_payment", item |-> lines, coupon |-> c]
           charged == R!Together(R!Only(R!chargeRow(o), "pending"), R!RecordTransition(o, "none", "pending_payment"))
           held == R!Together(R!Only(R!resvRow(o), "held"), charged)
           stock == R!Reserved(lines)
           used == R!RedeemCoupon(c)
           rest == R!Together(stock, used)
<1>1. DOMAIN charged = {R!chargeRow(o), R!auditRow(o)}
  <2>1. DOMAIN R!Only(R!chargeRow(o), "pending") = {R!chargeRow(o)}
    BY OneWrite
  <2>2. DOMAIN R!RecordTransition(o, "none", "pending_payment") = {R!auditRow(o)}
    BY OneWrite DEF R!RecordTransition
  <2> QED
    BY <2>1, <2>2 DEF R!Together
<1> HIDE DEF charged
<1>2. DOMAIN held = {R!resvRow(o), R!chargeRow(o), R!auditRow(o)} /\ held[R!resvRow(o)] = "held"
  <2>1. DOMAIN R!Only(R!resvRow(o), "held") = {R!resvRow(o)} /\ R!Only(R!resvRow(o), "held")[R!resvRow(o)] = "held"
    BY OneWrite
  <2> QED
    BY <1>1, <2>1 DEF R!Together
<1>3. R!NewOrder(o, lines, c) = R!Together(R!Only(R!orderRow(o), row), held)
  BY DEF R!NewOrder, held, charged
<1> HIDE DEF held, row
<1>4. /\ DOMAIN R!NewOrder(o, lines, c) = {R!orderRow(o), R!resvRow(o), R!chargeRow(o), R!auditRow(o)}
      /\ R!NewOrder(o, lines, c)[R!orderRow(o)] = row
      /\ R!NewOrder(o, lines, c)[R!resvRow(o)] = "held"
  <2>1. DOMAIN R!Only(R!orderRow(o), row) = {R!orderRow(o)} /\ R!Only(R!orderRow(o), row)[R!orderRow(o)] = row
    BY OneWrite
  <2>2. R!orderRow(o) # R!resvRow(o)
    BY TableNames
  <2>3. R!NewOrder(o, lines, c) = [r \in {R!orderRow(o)} \cup DOMAIN held |->
                                   IF r \in {R!orderRow(o)} THEN R!Only(R!orderRow(o), row)[r] ELSE held[r]]
    BY <1>3, <2>1 DEF R!Together
  <2> QED
    BY <1>2, <2>1, <2>2, <2>3
<1>5. /\ DOMAIN stock = {R!stockRow(v) : v \in {w \in Variant : lines[w] > 0}}
      /\ \A v \in Variant : lines[v] > 0 => stock[R!stockRow(v)] = R!ReserveStock(db[R!stockRow(v)], lines[v])
  <2>1. \A v : R!stockRow(v)[2] = v
    BY DEF R!stockRow
  <2> QED
    BY <2>1 DEF R!Reserved
<1>6. DOMAIN used = {R!couponRow(d) : d \in {c} \cap Coupon}
  BY DEF R!RedeemCoupon
<1> HIDE DEF stock, used
<1>7. /\ DOMAIN rest = DOMAIN stock \cup DOMAIN used
      /\ \A v \in Variant : lines[v] > 0 => rest[R!stockRow(v)] = stock[R!stockRow(v)]
  BY <1>5 DEF R!Together
<1>8. NewRows(o, lines, c) = R!Together(R!NewOrder(o, lines, c), rest)
  BY DEF NewRows, rest, stock, used
<1> HIDE DEF rest
<1>9. DOMAIN NewRows(o, lines, c) = DOMAIN R!NewOrder(o, lines, c) \cup DOMAIN rest
  BY <1>8 DEF R!Together
<1>10. \A r \in DOMAIN R!NewOrder(o, lines, c) : NewRows(o, lines, c)[r] = R!NewOrder(o, lines, c)[r]
  BY <1>8 DEF R!Together
<1>11. \A r \in DOMAIN rest \ DOMAIN R!NewOrder(o, lines, c) : NewRows(o, lines, c)[r] = rest[r]
  BY <1>8 DEF R!Together
<1>12. ASSUME NEW v \in Variant, lines[v] > 0
       PROVE  NewRows(o, lines, c)[R!stockRow(v)] = R!ReserveStock(db[R!stockRow(v)], lines[v])
  <2>1. R!stockRow(v) \in DOMAIN rest /\ R!stockRow(v) \notin DOMAIN R!NewOrder(o, lines, c)
    BY <1>4, <1>5, <1>7, <1>12, TableNames
  <2> QED
    BY <1>5, <1>7, <1>11, <1>12, <2>1
<1> QED
  BY <1>4, <1>5, <1>6, <1>7, <1>9, <1>10, <1>12 DEF row

(* A new order waits for its payment and holds its units.                  *)
LEMMA NewOrderKeeps ==
  ASSUME SettlementAssumption, Orderly, NEW plan \in Plan, R!ConfirmTx(plan[1], plan[2], plan[3])
  PROVE  /\ Orderly' /\ OrdersMove /\ dirty' = dirty
         /\ \A r \in R!Row : db'[r] = IF r \in DOMAIN NewRows(plan[1], plan[2], plan[3])
                                      THEN NewRows(plan[1], plan[2], plan[3])[r] ELSE db[r]
<1>1. PICK o \in Order, lines \in [Variant -> 0..MaxQty], c \in Coupon \cup {NoCoupon} :
        o = plan[1] /\ lines = plan[2] /\ c = plan[3] /\ lines # R!NoLines
  BY DEF SettlementAssumption, R!PlanAssumption
<1> DEFINE rows == NewRows(o, lines, c)
<1>2. /\ db[R!orderRow(o)].status = "none" /\ R!CommitWith(Shop, rows) /\ UNCHANGED <<work, due>>
  BY <1>1 DEF R!ConfirmTx, NewRows
<1>3. /\ DOMAIN rows = {R!orderRow(o), R!resvRow(o), R!chargeRow(o), R!auditRow(o)}
                         \cup {R!stockRow(v) : v \in {w \in Variant : lines[w] > 0}}
                         \cup {R!couponRow(d) : d \in {c} \cap Coupon}
      /\ rows[R!orderRow(o)] = [status |-> "pending_payment", item |-> lines, coupon |-> c]
      /\ rows[R!resvRow(o)] = "held"
  BY <1>1, ConfirmWrites
<1> HIDE DEF rows
<1>4. DOMAIN rows \subseteq R!Row
  BY <1>1, <1>3, TablesThere
<1>5. /\ dirty' = dirty
      /\ \A r \in R!Row : db'[r] = IF r \in DOMAIN rows THEN rows[r] ELSE db[r]
      /\ OrdersMove /\ (\A x \in Order : OrderOK(x)') => Orderly'
  BY <1>2, <1>4, ShopStep
<1>6. ASSUME NEW x \in Order \ {o}
      PROVE  db'[R!orderRow(x)] = db[R!orderRow(x)] /\ db'[R!resvRow(x)] = db[R!resvRow(x)]
  <2>1. R!orderRow(x) \notin DOMAIN rows /\ R!resvRow(x) \notin DOMAIN rows
    BY <1>3, TableNames
  <2> QED
    BY <1>5, <2>1, TablesThere
<1>7. /\ db'[R!orderRow(o)] = [status |-> "pending_payment", item |-> lines, coupon |-> c]
      /\ db'[R!resvRow(o)] = "held"
  BY <1>1, <1>3, <1>5, TablesThere
<1>8. OrderOK(o) /\ \A x \in Order : OrderOK(x)
  BY <1>1 DEF Orderly
<1>9. OrdersMove
  BY <1>2, <1>6, <1>8 DEF OrdersMove, OrderOK
<1>10. \A x \in Order \ {o} : OrderOK(x)'
  BY <1>6, <1>8 DEF OrderOK, R!LinesOf, R!Item
<1>11. \E v \in Variant : lines[v] > 0
  <2>1. PICK v \in Variant : lines[v] # 0
    BY <1>1 DEF R!NoLines
  <2>2. lines[v] \in 0..MaxQty
    BY <1>1
  <2> QED
    BY <2>1, <2>2
<1>12. R!LinesOf(o)' # {}
  BY <1>7, <1>11 DEF R!LinesOf, R!Item
<1>13. db'[R!orderRow(o)] \in OrderRecord
  BY <1>1, <1>7 DEF OrderRecord, Statuses
<1>14. OrderOK(o)'
  BY <1>7, <1>12, <1>13 DEF OrderOK
<1> QED
  BY <1>1, <1>5, <1>9, <1>10, <1>14 DEF rows

(* Set-stock changes one stock row.                                        *)
LEMMA AdminKeeps ==
  ASSUME SettlementAssumption, Orderly, NEW v \in Variant, NEW n, R!SetStock(v, n)
  PROVE  Orderly' /\ OrdersMove
<1> DEFINE rows == R!Only(R!stockRow(v), [db[R!stockRow(v)] EXCEPT !.available = n])
<1>1. R!CommitWith(Shop, rows) /\ UNCHANGED <<work, due>>
  BY DEF R!SetStock
<1>2. DOMAIN rows = {R!stockRow(v)} /\ R!stockRow(v) \in R!Row
  BY OneWrite, TablesThere
<1> HIDE DEF rows
<1>3. /\ \A r \in R!Row : db'[r] = IF r \in DOMAIN rows THEN rows[r] ELSE db[r]
      /\ OrdersMove /\ (\A x \in Order : OrderOK(x)') => Orderly'
  BY <1>1, <1>2, ShopStep
<1>4. \A x \in Order : db'[R!orderRow(x)] = db[R!orderRow(x)] /\ db'[R!resvRow(x)] = db[R!resvRow(x)]
  BY <1>2, <1>3, TableNames, TablesThere
<1>5. OrdersMove /\ \A x \in Order : OrderOK(x)'
  BY <1>4, OrdersStay DEF Orderly
<1> QED
  BY <1>3, <1>5

(* Steps that change no row and no frame.                                  *)
LEMMA NothingMoves ==
  ASSUME Orderly, UNCHANGED <<db, dirty, work>>, due' \subseteq Order
  PROVE  Orderly' /\ OrdersMove
<1>1. db' = db /\ dirty' = dirty /\ work' = work /\ R!NoWrites' = R!NoWrites
  BY DEF R!NoWrites
<1>2. OrdersMove /\ \A x \in Order : OrderOK(x)'
  BY <1>1, OrdersStay DEF Orderly
<1>3. \A q \in Settler : SettlerOK(q)'
  BY <1>1, <1>2, KeepSettler
<1>4. StoreOf(R!Row)' /\ LocksExclusive'
  BY <1>1 DEF Orderly, StoreOf, LocksExclusive
<1> QED
  BY <1>1, <1>2, <1>3, <1>4 DEF Orderly

(* Reservations of an order pass their expiry.                             *)
LEMMA DueKeeps ==
  ASSUME SettlementAssumption, Orderly, NEW o \in MayExpire, R!ReservationDue(o)
  PROVE  Orderly' /\ OrdersMove
BY NothingMoves DEF SettlementAssumption, R!OrderAssumption, R!ReservationDue, Orderly

(* Initially there are no orders.                                          *)
LEMMA NoOrdersYet ==
  ASSUME SettlementAssumption
  PROVE  R!Init => Orderly
<1> SUFFICES ASSUME R!Init PROVE Orderly
  OBVIOUS
<1>1. /\ DOMAIN db = R!Row
      /\ \A o \in Order : db[R!orderRow(o)] = R!NoOrder /\ db[R!resvRow(o)] = "none"
  <2>1. ASSUME NEW r \in R!Row, r[1] # "stock"
        PROVE  db[r] = R!Empty[r[1]]
    BY <2>1 DEF R!Init
  <2>2. \A o \in Order : db[R!orderRow(o)] = R!Empty.order /\ db[R!resvRow(o)] = R!Empty.resv
    BY <2>1, TableNames, TablesThere
  <2> QED
    BY <2>2 DEF R!Init, R!Empty
<1>2. /\ \A p \in Proc : dirty[p] = R!NoWrites
      /\ dirty = [p \in Proc |-> dirty[p]]
      /\ DOMAIN R!NoWrites = {}
  BY OneWrite DEF R!Init
<1>3. StoreOf(R!Row) /\ LocksExclusive
  BY <1>1, <1>2 DEF StoreOf, LocksExclusive
<1>4. ASSUME NEW o \in Order
      PROVE  OrderOK(o)
  <2>1. R!NoLines \in [Variant -> 0..MaxQty]
    BY DEF SettlementAssumption, R!PlanAssumption, R!NoLines
  <2>2. db[R!orderRow(o)] \in OrderRecord
    BY <1>1, <2>1 DEF OrderRecord, R!NoOrder, Statuses
  <2> QED
    BY <1>1, <2>2 DEF OrderOK, R!NoOrder
<1>5. ASSUME NEW p \in Settler
      PROVE  SettlerOK(p)
  <2>1. work[p] = R!Idle /\ dirty[p] = R!NoWrites
    BY <1>2, Settlers DEF R!Init, Settler
  <2> QED
    BY <2>1, IdleFrame DEF SettlerOK, Settling
<1>6. DOMAIN work = Settler /\ dirty[Shop] = R!NoWrites /\ due \subseteq Order
  BY <1>2, Settlers DEF R!Init, Settler
<1> QED
  BY <1>3, <1>4, <1>5, <1>6 DEF Orderly

(* Every step keeps the tables in order.                                   *)
LEMMA SettlementKeeps ==
  ASSUME SettlementAssumption, Orderly, R!Next
  PROVE  Orderly' /\ OrdersMove
<1>1. ASSUME NEW h \in Hook, NEW e \in Event, R!Deliver(h, e) PROVE Orderly' /\ OrdersMove
  BY <1>1, DeliverKeeps
<1>2. ASSUME NEW h \in Hook, R!HookStep(h) PROVE Orderly' /\ OrdersMove
  BY <1>2, LookupKeeps, ReserveAgainKeeps, SetChargeKeeps, FinishKeeps DEF R!HookStep
<1>3. ASSUME NEW j \in Jobs, R!JobStep(j) PROVE Orderly' /\ OrdersMove
  BY <1>3, NextOrderKeeps, ExpireOrderKeeps, FinishOrderKeeps DEF R!JobStep
<1>4. ASSUME NEW p \in Settler, R!Shared(p) PROVE Orderly' /\ OrdersMove
  BY <1>4, ListKeeps, ResolveStockKeeps, MarkReservationsKeeps, GiveBackCouponKeeps DEF R!Shared
<1>5. ASSUME NEW p \in Settler, R!Abort(p) PROVE Orderly' /\ OrdersMove
  BY <1>5, AbortKeeps
<1>6. ASSUME NEW j \in Jobs, R!Tick(j) PROVE Orderly' /\ OrdersMove
  BY <1>6, TickKeeps
<1>7. ASSUME NEW plan \in Plan, R!ConfirmTx(plan[1], plan[2], plan[3]) PROVE Orderly' /\ OrdersMove
  BY <1>7, NewOrderKeeps
<1>8. ASSUME NEW v \in Variant, NEW n \in StockLevel, R!SetStock(v, n) PROVE Orderly' /\ OrdersMove
  BY <1>8, AdminKeeps
<1>9. ASSUME NEW o \in MayExpire, R!ReservationDue(o) PROVE Orderly' /\ OrdersMove
  BY <1>9, DueKeeps
<1> QED
  BY <1>1, <1>2, <1>3, <1>4, <1>5, <1>6, <1>7, <1>8, <1>9 DEF R!Next, Settler

(* Reservations are held as long as their order waits for its payment,     *)
(* whatever webhooks and job race for it.                                  *)
THEOREM OrdersAreConsistent ==
  ASSUME SettlementAssumption
  PROVE  R!Spec => []Orderly
<1>1. Orderly /\ [R!Next]_(R!vars) => Orderly'
  <2>1. ASSUME Orderly, UNCHANGED R!vars
        PROVE  Orderly'
    BY <2>1, NothingMoves DEF R!vars, Orderly
  <2> QED
    BY <2>1, SettlementKeeps
<1> QED
  BY NoOrdersYet, <1>1, PTL DEF R!Spec

(* I6: a reservation leaves 'held' at most once, although the transactions *)
(* that resolve it read its status long before they write it.              *)
THEOREM ResolvedOnce ==
  ASSUME SettlementAssumption
  PROVE  R!Spec => ReservationsResolveOnce
<1>1. ASSUME Orderly, [R!Next]_(R!vars)
      PROVE  [\A o \in Order : db'[resvRow(o)] # db[resvRow(o)] => db[resvRow(o)] \in {"none", "held"}]_db
  BY <1>1, SettlementKeeps, SameRows DEF R!vars, OrdersMove
<1> QED
  BY <1>1, OrdersAreConsistent, PTL DEF R!Spec, ReservationsResolveOnce

-------------------------------------------------------------------------------
(* Units promised and units on the shelf.                                  *)

Lines == [o \in Order |-> R!Item(o)]

(* The lines of orders, whatever their status.                             *)
LinesOK(lines) == \A o \in Order : lines[o] \in [Variant -> 0..MaxQty]

(* The units of finitely many orders are finitely many.                    *)
LEMMA UnitsFinite ==
  ASSUME SettlementAssumption, NEW lines, NEW K \in SUBSET Order, NEW v \in Variant
  PROVE  IsFiniteSet(R!Units(lines, K, v)) /\ Cardinality(R!Units(lines, K, v)) \in Nat
<1>1. IsFiniteSet(K \X (1..MaxQty))
  <2>1. IsFiniteSet(K)
    <3>1. IsFiniteSet(Order)
      BY SameSizes DEF SettlementAssumption, R!OrderAssumption
    <3> QED
      BY <3>1, FS_Subset
  <2>2. IsFiniteSet(1..MaxQty)
    BY FS_Interval DEF SettlementAssumption, R!PlanAssumption
  <2> QED
    BY <2>1, <2>2, FS_Product
<1>2. IsFiniteSet(R!Units(lines, K, v))
  BY <1>1, FS_Subset DEF R!Units
<1> QED
  BY <1>2, FS_CardinalityType

(* An order accounts for as many units as its line says.                   *)
LEMMA UnitsOfOne ==
  ASSUME SettlementAssumption, NEW lines, LinesOK(lines), NEW o \in Order, NEW v \in Variant
  PROVE  Cardinality(R!Units(lines, {o}, v)) = lines[o][v] /\ lines[o][v] \in Nat
<1> DEFINE q == lines[o][v]
<1>1. q \in Nat /\ q <= MaxQty /\ MaxQty \in Nat
  <2>1. MaxQty \in Nat
    BY DEF SettlementAssumption, R!PlanAssumption
  <2> QED
    BY <2>1 DEF LinesOK
<1>2. R!Units(lines, {o}, v) = {u \in {o} \X (1..MaxQty) : u[2] <= q}
  BY DEF R!Units
<1> HIDE DEF q
<1>3. R!Units(lines, {o}, v) = {o} \X (1..q)
  BY <1>1, <1>2
<1>4. /\ IsFiniteSet({o}) /\ Cardinality({o}) = 1
      /\ IsFiniteSet(1..q) /\ Cardinality(1..q) = q
  <2>1. IsFiniteSet({o}) /\ Cardinality({o}) = 1
    BY FS_Singleton
  <2>2. IsFiniteSet(1..q) /\ Cardinality(1..q) = q
    BY <1>1, FS_Interval
  <2> QED
    BY <2>1, <2>2
<1>5. Cardinality({o} \X (1..q)) = Cardinality({o}) * Cardinality(1..q)
  BY <1>4, FS_Product, Zenon
<1>6. Cardinality({o} \X (1..q)) = 1 * q
  BY <1>4, <1>5, Zenon
<1>7. 1 * q = q
  BY <1>1
<1> QED
  BY <1>1, <1>3, <1>6, <1>7, Zenon DEF q

(* Orders that are not the same ones have units of their own.              *)
LEMMA UnitsUnion ==
  ASSUME SettlementAssumption,
         NEW lines, NEW K \in SUBSET Order, NEW T \in SUBSET Order, K \cap T = {},
         NEW v \in Variant
  PROVE  Cardinality(R!Units(lines, K \cup T, v))
           = Cardinality(R!Units(lines, K, v)) + Cardinality(R!Units(lines, T, v))
<1> DEFINE A == R!Units(lines, K, v)
           B == R!Units(lines, T, v)
<1>1. R!Units(lines, K \cup T, v) = A \cup B
  BY DEF R!Units
<1>2. A \cap B = {}
  BY DEF R!Units
<1>3. IsFiniteSet(A) /\ IsFiniteSet(B) /\ Cardinality(A) \in Nat /\ Cardinality(B) \in Nat
  BY UnitsFinite
<1> HIDE DEF A, B
<1>4. Cardinality(A \cup B) = Cardinality(A) + Cardinality(B) - Cardinality(A \cap B)
  BY <1>3, FS_Union
<1>5. Cardinality(A \cap B) = 0
  BY <1>2, FS_EmptySet
<1>6. Cardinality(A \cup B) = Cardinality(A) + Cardinality(B)
  BY <1>3, <1>4, <1>5
<1> QED
  BY <1>1, <1>6, Zenon DEF A, B

(* Lines of other orders do not matter.                                    *)
LEMMA UnitsSame ==
  ASSUME NEW f, NEW g, NEW K, \A o \in K : f[o] = g[o], NEW v
  PROVE  R!Units(f, K, v) = R!Units(g, K, v)
BY DEF R!Units

-------------------------------------------------------------------------------
(* When no unit is promised twice: administrators leave stock alone, and   *)
(* an order whose payment failed is left to that one event.                *)
Undisputed ==
  /\ StockLevel = {}
  /\ \A e \in Event : e.exact /\ e.type = "failed" =>
       /\ e.order \notin MayExpire
       /\ \A f \in Event : f.exact /\ f.order = e.order => f.id = e.id

StockRows   == {R!stockRow(v) : v \in Variant}
StockRecord == [available : Int, reserved : Int]

(* Whom a session acts for: a webhook for an event it has locked, the job  *)
(* for an order that was due.                                              *)
ActsFor(p) ==
  LET e == work[p].event IN
  /\ work[p].pc \in {"lookup", "next", "expire"} => work[p].todo = <<>> /\ ~work[p].short
  /\ p \in Hook /\ work[p].pc \in Settling \cup {"lookup"} => R!eventRow(e.id) \in DOMAIN dirty[p]
  /\ p \in Hook /\ work[p].pc \in Settling => /\ e \in Event /\ e.exact /\ e.order = work[p].order
                                              /\ work[p].task = "fail" => e.type = "failed"
  /\ p \in Jobs => work[p].list \subseteq MayExpire
  /\ p \in Jobs /\ work[p].pc \in Settling \cup {"expire"} => work[p].order \in MayExpire

(* The lines left to update are each once and not written; a late payment  *)
(* has written the others, or none when stock fell short, and a failed one *)
(* only those of reservations that are still held.                         *)
Left(p) ==
  LET o == work[p].order  todo == work[p].todo IN
  /\ \A i, j \in DOMAIN todo : i # j => todo[i] # todo[j]
  /\ \A v \in R!ToSet(todo) : R!stockRow(v) \notin DOMAIN dirty[p]
  /\ work[p].pc \notin {"again", "stock"} => todo = <<>>
  /\ work[p].pc \in {"again", "list"} => ~work[p].short
  /\ work[p].pc = "list" => DOMAIN dirty[p] \cap StockRows = {}
  /\ work[p].task = "late" =>
       IF work[p].short THEN DOMAIN dirty[p] \cap StockRows = {}
       ELSE \A v \in R!LinesOf(o) : R!stockRow(v) \in DOMAIN dirty[p] \/ v \in R!ToSet(todo)
  /\ work[p].task = "fail" /\ (todo # <<>> \/ DOMAIN dirty[p] \cap StockRows # {})
       => db[R!resvRow(o)] = "held"

(* What a session takes from the shelf of a variant it has written.        *)
Taken(p, v) == CASE work[p].task = "late" -> R!Item(work[p].order)[v]
                 [] work[p].task = "pay" -> 0
                 [] work[p].task \in {"fail", "expire"} -> 0 - R!Item(work[p].order)[v]

Wrote(p) ==
  \A v \in Variant : R!stockRow(v) \in DOMAIN dirty[p] =>
    /\ dirty[p][R!stockRow(v)] \in StockRecord
    /\ dirty[p][R!stockRow(v)].available + Taken(p, v) <= db[R!stockRow(v)].available

Promising == R!Holding \cup R!Sold

ShareOfPromising(v) ==
  R!Promised(Promising, v)
    = Cardinality({u \in Promising \X (1..MaxQty) : u[2] <= Lines[u[1]][v]})

SharesOfPromising == \A v : ShareOfPromising(v)

(* What orders share out.                                                  *)
LEMMA ShareOf ==
  \A K, v : R!Promised(K, v) = Cardinality(R!Units(Lines, K, v))
BY SameSizes DEF R!Promised, Lines, R!Units

(* What all that hold or own units share out.                              *)
LEMMA ShareOfAll == SharesOfPromising
BY SameSizes DEF R!Promised, Lines, SharesOfPromising, ShareOfPromising, R!Units

Backed ==
  \A v \in Variant :
    /\ db[R!stockRow(v)] \in StockRecord
    /\ db[R!stockRow(v)].available + R!Promised(Promising, v) <= InitStock[v]

SellerOK(p) == ActsFor(p) /\ (work[p].pc \in Settling => Left(p) /\ Wrote(p))

Accounted == Backed /\ due \subseteq MayExpire /\ \A p \in Settler : SellerOK(p)

(* The quantities of an order.                                             *)
LEMMA Quantities ==
  ASSUME SettlementAssumption, Orderly, NEW o \in Order
  PROVE  /\ R!Item(o) \in [Variant -> 0..MaxQty] /\ \A v \in Variant : R!Item(o)[v] \in Nat
         /\ LinesOK(Lines)
<1>1. \A x \in Order : R!Item(x) \in [Variant -> 0..MaxQty]
  BY DEF Orderly, OrderOK, OrderRecord, R!Item
<1> QED
  BY <1>1 DEF SettlementAssumption, R!PlanAssumption, LinesOK, Lines

(* Nobody else's step changes what a session may rely on.                  *)
LEMMA KeepSeller ==
  ASSUME Orderly, OrdersMove, NEW q \in Settler, work'[q] = work[q], dirty'[q] = dirty[q],
         \A r \in DOMAIN dirty[q] : db'[r] = db[r], SellerOK(q),
         work[q].pc \in Settling /\ work[q].task = "fail" =>
           db'[R!resvRow(work[q].order)] = db[R!resvRow(work[q].order)]
  PROVE  SellerOK(q)'
<1>1. ActsFor(q)'
  BY DEF SellerOK, ActsFor
<1>2. ASSUME work[q].pc \in Settling
      PROVE  Left(q)' /\ Wrote(q)'
  <2> DEFINE o == work[q].order
  <2>1. Left(q) /\ Wrote(q) /\ SettlingOK(q)
    BY <1>2, AtHand DEF SellerOK
  <2>2. db'[R!orderRow(o)].item = db[R!orderRow(o)].item
    BY <2>1 DEF SettlingOK, OrdersMove
  <2>3. R!LinesOf(o)' = R!LinesOf(o) /\ R!Item(o)' = R!Item(o)
    BY <2>2 DEF R!LinesOf, R!Item
  <2>4. Left(q)'
    BY <1>2, <2>1, <2>3 DEF Left
  <2>5. \A v : Taken(q, v)' = Taken(q, v)
    BY <2>3 DEF Taken
  <2>6. Wrote(q)'
    BY <2>1, <2>5 DEF Wrote
  <2> QED
    BY <2>4, <2>6
<1> QED
  BY <1>1, <1>2 DEF SellerOK

(* A step that commits nothing.                                            *)
LEMMA StepAccounts ==
  ASSUME SettlementAssumption,
         Orderly, OrdersMove, Accounted, NEW p \in Settler, NEW f, R!Goto(p, f), db' = db,
         \A q \in Proc \ {p} : dirty'[q] = dirty[q], SellerOK(p)'
  PROVE  Accounted'
<1>1. /\ \A q \in Settler \ {p} : work'[q] = work[q]
      /\ due' = due
  BY FrameMoves DEF Orderly
<1>2. Backed'
  BY DEF Accounted, Backed, R!Promised, R!Item, Promising, R!Holding, R!Sold
<1>3. \A q \in Settler \ {p} : SellerOK(q)'
  BY <1>1, KeepSeller, Settlers DEF Accounted
<1> QED
  BY <1>1, <1>2, <1>3 DEF Accounted

(* What a statement that writes one row of a settler leaves.               *)
LEMMA WriteOne ==
  ASSUME SettlementAssumption, Orderly, NEW p \in Settler, NEW r \in R!Row, NEW x, NEW f,
         R!Write(p, R!Only(r, x)), R!Goto(p, f)
  PROVE  /\ db' = db /\ work'[p] = f /\ \A q \in Proc \ {p} : dirty'[q] = dirty[q]
         /\ DOMAIN dirty'[p] = {r} \cup DOMAIN dirty[p]
         /\ dirty'[p][r] = x
         /\ \A y \in DOMAIN dirty[p] \ {r} : dirty'[p][y] = dirty[p][y]
<1>1. DOMAIN R!Only(r, x) = {r} /\ R!Only(r, x)[r] = x
  BY OneWrite
<1>2. /\ db' = db /\ \A q \in Proc \ {p} : dirty'[q] = dirty[q]
      /\ DOMAIN dirty'[p] = DOMAIN R!Only(r, x) \cup DOMAIN dirty[p]
      /\ \A y \in DOMAIN dirty'[p] :
           dirty'[p][y] = IF y \in DOMAIN R!Only(r, x) THEN R!Only(r, x)[y] ELSE dirty[p][y]
  BY <1>1, WriteStep
<1>3. work'[p] = f
  BY FrameMoves DEF Orderly
<1> QED
  BY <1>1, <1>2, <1>3

(* A handler whose event has been inserted.                                *)
LEMMA DeliverAccounts ==
  ASSUME SettlementAssumption, Orderly, Accounted, NEW h \in Hook, NEW e \in Event, R!Deliver(h, e)
  PROVE  Accounted'
<1> DEFINE rows == R!InsertWebhookEvent(e)
<1>1. /\ work[h].pc = "idle" /\ R!Write(h, rows) /\ h \in Settler
      /\ R!Goto(h, [R!Idle EXCEPT !.pc = "lookup", !.event = e, !.order = e.order])
  BY DEF R!Deliver, Settler
<1>2. DOMAIN rows = {R!eventRow(e.id)} /\ R!eventRow(e.id) \in R!Row
  BY OneWrite, TablesThere DEF SettlementAssumption, R!EventAssumption, R!InsertWebhookEvent
<1> HIDE DEF rows
<1>3. /\ db' = db /\ \A q \in Proc \ {h} : dirty'[q] = dirty[q]
      /\ work'[h] = [R!Idle EXCEPT !.pc = "lookup", !.event = e, !.order = e.order]
      /\ DOMAIN dirty'[h] = {R!eventRow(e.id)} \cup DOMAIN dirty[h]
  BY <1>1, <1>2, WriteStep, FrameMoves DEF Orderly
<1>4. work'[h].pc = "lookup" /\ work'[h].event = e /\ work'[h].todo = <<>> /\ ~work'[h].short
  BY <1>3 DEF R!Idle
<1>5. SellerOK(h)'
  BY <1>1, <1>3, <1>4, Settlers DEF SellerOK, ActsFor, Settling
<1>6. OrdersMove
  BY DeliverKeeps
<1> QED
  BY <1>1, <1>3, <1>5, <1>6, StepAccounts

(* Entering the switch, with nothing written but the event.                *)
LEMMA BegunAccounts ==
  ASSUME SettlementAssumption,
         Orderly, Accounted, NEW h \in Hook, work[h].pc = "lookup", R!NoStatement,
         R!Concerned(h, work[h].event, R!Status(h, work[h].order)),
         R!Begun(h, work[h].event, R!TaskFor(work[h].event, R!Status(h, work[h].order)))
  PROVE  SellerOK(h)'
<1> DEFINE e == work[h].event
           o == work[h].order
           task == R!TaskFor(e, R!Status(h, o))
<1>1. /\ h \in Settler /\ work[h] \in Doing /\ e \in Event /\ o \in Order /\ e.order = o
      /\ \A r \in DOMAIN dirty[h] : r[1] = "event"
  BY LookupReads
<1>2. /\ db' = db /\ dirty' = dirty /\ DOMAIN work = Settler
      /\ work[h].todo = <<>> /\ ~work[h].short /\ R!eventRow(e.id) \in DOMAIN dirty[h] /\ h \notin Jobs
  BY <1>1, Settlers DEF R!NoStatement, Orderly, Accounted, SellerOK, ActsFor
<1>3. e.exact /\ (task = "fail" => e.type = "failed") /\ task \in {"fail", "late", "pay"}
  BY DEF R!Concerned, R!TaskFor
<1>4. DOMAIN dirty[h] \cap StockRows = {} /\ \A v : R!stockRow(v) \notin DOMAIN dirty[h]
  BY <1>1, TableNames DEF StockRows
<1>5. CASE task = "late"
  <2>1. PICK todo \in R!Ascending(R!LinesOf(o)) :
          R!Goto(h, [work[h] EXCEPT !.task = task, !.pc = "again", !.todo = todo])
    BY <1>1, <1>5 DEF R!Begun
  <2>2. todo \in R!SetToSeqs(R!LinesOf(o)) /\ R!LinesOf(o) \subseteq Variant
    BY DEF R!Ascending, R!LinesOf
  <2>3. /\ todo \in Seq(Variant) /\ R!ToSet(todo) = R!LinesOf(o)
        /\ \A i, j \in DOMAIN todo : i # j => todo[i] # todo[j]
    BY <2>2, LinesInOrder
  <2>4. work'[h] = [work[h] EXCEPT !.task = task, !.pc = "again", !.todo = todo]
    BY <1>1, <1>2, <2>1, FrameMoves
  <2> HIDE DEF task, o, e
  <2>5. /\ work'[h].pc = "again" /\ work'[h].task = "late" /\ work'[h].order = work[h].order
        /\ work'[h].todo = todo /\ work'[h].event = work[h].event /\ ~work'[h].short
    BY <1>1, <1>2, <1>5, <2>4 DEF Doing
  <2>6. Left(h)'
    <3>1. R!LinesOf(work[h].order)' = R!LinesOf(work[h].order)
      BY <1>2, <2>5 DEF R!LinesOf, R!Item
    <3> QED
      BY <1>2, <1>4, <2>3, <2>5, <3>1 DEF Left, o
  <2>7. ActsFor(h)' /\ Wrote(h)'
    BY <1>1, <1>2, <1>3, <1>4, <2>5 DEF ActsFor, Wrote, e, o
  <2> QED
    BY <2>6, <2>7 DEF SellerOK
<1>6. CASE task # "late"
  <2>1. R!Goto(h, [work[h] EXCEPT !.task = task, !.pc = "list"])
    BY <1>1, <1>6 DEF R!Begun
  <2>2. work'[h] = [work[h] EXCEPT !.task = task, !.pc = "list"]
    BY <1>1, <1>2, <2>1, FrameMoves
  <2> HIDE DEF task, o, e
  <2>3. /\ work'[h].pc = "list" /\ work'[h].task = task /\ work'[h].order = work[h].order
        /\ work'[h].todo = <<>> /\ work'[h].event = work[h].event /\ ~work'[h].short
    BY <1>1, <1>2, <2>2 DEF Doing
  <2>4. Left(h)'
    BY <1>2, <1>4, <1>6, <2>3 DEF Left, R!ToSet, StockRows
  <2>5. ActsFor(h)' /\ Wrote(h)'
    BY <1>1, <1>2, <1>3, <1>4, <2>3 DEF ActsFor, Wrote, e, o
  <2> QED
    BY <2>4, <2>5 DEF SellerOK
<1> QED
  BY <1>5, <1>6

(* A step that writes no stock and leaves no line to do.                   *)
LEMMA SameStock ==
  ASSUME Orderly, Accounted, NEW p \in Settler, work[p].pc \in Settling, work[p].todo = <<>>, db' = db,
         work'[p].pc \in PastMark, work'[p].todo = <<>>, work'[p].event = work[p].event,
         work'[p].task = work[p].task, work'[p].order = work[p].order, work'[p].short = work[p].short,
         work'[p].list = work[p].list, DOMAIN dirty[p] \subseteq DOMAIN dirty'[p],
         \A r \in DOMAIN dirty'[p] : r[1] = "stock" => r \in DOMAIN dirty[p] /\ dirty'[p][r] = dirty[p][r]
  PROVE  SellerOK(p)'
<1>1. ActsFor(p) /\ Left(p) /\ Wrote(p)
  BY DEF Accounted, SellerOK
<1>2. work'[p].pc \in Settling /\ work'[p].pc \notin {"lookup", "next", "expire", "again", "list"}
  BY DEF PastMark, Settling
<1>3. /\ \A v : R!stockRow(v) \in DOMAIN dirty'[p] <=> R!stockRow(v) \in DOMAIN dirty[p]
      /\ \A v : R!stockRow(v) \in DOMAIN dirty[p] => dirty'[p][R!stockRow(v)] = dirty[p][R!stockRow(v)]
      /\ DOMAIN dirty'[p] \cap StockRows = DOMAIN dirty[p] \cap StockRows
  BY TableNames DEF StockRows
<1>4. ActsFor(p)'
  BY <1>1, <1>2 DEF ActsFor
<1>5. R!LinesOf(work[p].order)' = R!LinesOf(work[p].order) /\ R!Item(work[p].order)' = R!Item(work[p].order)
  BY DEF R!LinesOf, R!Item
<1>6. Left(p)'
  BY <1>1, <1>2, <1>3, <1>5 DEF Left
<1>7. \A v : Taken(p, v)' = Taken(p, v)
  BY <1>5 DEF Taken
<1>8. Wrote(p)'
  BY <1>1, <1>3, <1>7 DEF Wrote
<1> QED
  BY <1>4, <1>6, <1>8 DEF SellerOK

(* SetChargeStatus.                                                        *)
LEMMA SetChargeAccounts ==
  ASSUME SettlementAssumption, Orderly, Accounted, NEW h \in Hook, R!SetCharge(h)
  PROVE  Accounted'
<1> DEFINE o == work[h].order
           x == IF work[h].task = "fail" THEN "failed" ELSE "paid"
           f == [work[h] EXCEPT !.pc = "finish"]
<1>1. /\ work[h].pc = "charge" /\ h \in Settler
      /\ R!Write(h, R!Only(R!chargeRow(o), x)) /\ R!Goto(h, f)
  BY DEF R!SetCharge, R!SetChargeStatus, Settler
<1>2. work[h] \in Doing /\ R!chargeRow(o) \in R!Row /\ work[h].todo = <<>>
  <2>1. work[h] \in Doing /\ o \in Order /\ work[h].pc \in Settling
    BY <1>1, AtHand DEF Settling
  <2>2. work[h].todo = <<>>
    BY <1>1, <2>1 DEF Accounted, SellerOK, Left
  <2> QED
    BY <2>1, <2>2, TablesThere
<1>3. /\ f.pc = "finish" /\ f.todo = <<>> /\ f.event = work[h].event /\ f.task = work[h].task
      /\ f.order = work[h].order /\ f.short = work[h].short /\ f.list = work[h].list
  BY <1>2 DEF Doing
<1> HIDE DEF x, f
<1>4. /\ db' = db /\ work'[h] = f /\ \A q \in Proc \ {h} : dirty'[q] = dirty[q]
      /\ DOMAIN dirty'[h] = {R!chargeRow(o)} \cup DOMAIN dirty[h]
      /\ \A y \in DOMAIN dirty[h] \ {R!chargeRow(o)} : dirty'[h][y] = dirty[h][y]
  BY <1>1, <1>2, WriteOne
<1>5. \A r \in DOMAIN dirty'[h] : r[1] = "stock" => r \in DOMAIN dirty[h] /\ dirty'[h][r] = dirty[h][r]
  BY <1>4, TableNames
<1>6. SellerOK(h)'
  BY <1>1, <1>2, <1>3, <1>4, <1>5, SameStock DEF Settling, PastMark
<1> QED
  BY <1>1, <1>4, <1>6, SetChargeKeeps, StepAccounts

(* SetReservationStatus.                                                   *)
LEMMA MarkAccounts ==
  ASSUME SettlementAssumption, Orderly, Accounted, NEW p \in Settler, R!MarkReservations(p)
  PROVE  Accounted'
<1> DEFINE o == work[p].order
           rows == R!SetReservationStatus(p, o, R!Marked(p))
           f == [work[p] EXCEPT !.pc = R!AfterMark(p)]
<1>1. /\ work[p].pc = "stock" /\ work[p].todo = <<>> /\ R!Write(p, rows) /\ R!Goto(p, f)
  BY DEF R!MarkReservations
<1>2. work[p] \in Doing /\ o \in Order /\ work[p].pc \in Settling /\ R!AfterMark(p) \in PastMark
  <2>1. work[p] \in Doing /\ o \in Order /\ work[p].pc \in Settling /\ SettlingOK(p)
    BY <1>1, AtHand DEF Settling
  <2> QED
    BY <1>1, <2>1, MarkStep DEF SettlingOK
<1>3. DOMAIN rows \subseteq {R!resvRow(o)} /\ DOMAIN rows \subseteq R!Row
  <2>1. DOMAIN rows = {R!resvRow(o)} \/ DOMAIN rows = {}
    BY OneWrite DEF R!SetReservationStatus
  <2>2. R!resvRow(o) \in R!Row
    BY <1>2, TablesThere
  <2> QED
    BY <2>1, <2>2
<1>4. /\ f.pc \in PastMark /\ f.todo = <<>> /\ f.event = work[p].event /\ f.task = work[p].task
      /\ f.order = work[p].order /\ f.short = work[p].short /\ f.list = work[p].list
  BY <1>1, <1>2 DEF Doing
<1> HIDE DEF rows, f
<1>5. /\ db' = db /\ work'[p] = f /\ \A q \in Proc \ {p} : dirty'[q] = dirty[q]
      /\ DOMAIN dirty'[p] = DOMAIN rows \cup DOMAIN dirty[p]
      /\ \A y \in DOMAIN dirty'[p] : dirty'[p][y] = IF y \in DOMAIN rows THEN rows[y] ELSE dirty[p][y]
  BY <1>1, <1>3, WriteStep, FrameMoves DEF Orderly
<1>6. \A r \in DOMAIN dirty'[p] : r[1] = "stock" => r \in DOMAIN dirty[p] /\ dirty'[p][r] = dirty[p][r]
  BY <1>3, <1>5, TableNames
<1>7. SellerOK(p)'
  BY <1>1, <1>2, <1>4, <1>5, <1>6, SameStock
<1> QED
  BY <1>1, <1>5, <1>7, MarkReservationsKeeps, StepAccounts

(* ReleaseCoupon.                                                          *)
LEMMA GiveBackAccounts ==
  ASSUME SettlementAssumption, Orderly, Accounted, NEW p \in Settler, R!GiveBackCoupon(p)
  PROVE  Accounted'
<1> DEFINE c == R!Code(work[p].order)
           rows == R!ReleaseCoupon(p, c)
           pc == IF work[p].task = "fail" THEN "charge" ELSE "finish"
           f == [work[p] EXCEPT !.pc = pc]
<1>1. /\ work[p].pc = "coupon" /\ R!Write(p, rows) /\ R!Goto(p, f)
  BY DEF R!GiveBackCoupon
<1>2. work[p] \in Doing /\ work[p].pc \in Settling /\ c \in Coupon /\ work[p].todo = <<>>
  <2>1. work[p] \in Doing /\ work[p].pc \in Settling /\ SettlingOK(p)
    BY <1>1, AtHand DEF Settling
  <2>2. work[p].todo = <<>>
    BY <1>1, <2>1 DEF Accounted, SellerOK, Left
  <2> QED
    BY <1>1, <2>1, <2>2 DEF SettlingOK
<1>3. DOMAIN rows \subseteq {R!couponRow(c)} /\ DOMAIN rows \subseteq R!Row
  <2>1. DOMAIN rows = {R!couponRow(c)} \/ DOMAIN rows = {}
    BY OneWrite DEF R!ReleaseCoupon
  <2>2. R!couponRow(c) \in R!Row
    BY <1>2, TablesThere
  <2> QED
    BY <2>1, <2>2
<1>4. /\ f.pc \in PastMark /\ f.todo = <<>> /\ f.event = work[p].event /\ f.task = work[p].task
      /\ f.order = work[p].order /\ f.short = work[p].short /\ f.list = work[p].list
  BY <1>2 DEF Doing, PastMark
<1> HIDE DEF rows, f, c
<1>5. /\ db' = db /\ work'[p] = f /\ \A q \in Proc \ {p} : dirty'[q] = dirty[q]
      /\ DOMAIN dirty'[p] = DOMAIN rows \cup DOMAIN dirty[p]
      /\ \A y \in DOMAIN dirty'[p] : dirty'[p][y] = IF y \in DOMAIN rows THEN rows[y] ELSE dirty[p][y]
  BY <1>1, <1>3, WriteStep, FrameMoves DEF Orderly
<1>6. \A r \in DOMAIN dirty'[p] : r[1] = "stock" => r \in DOMAIN dirty[p] /\ dirty'[p][r] = dirty[p][r]
  BY <1>3, <1>5, TableNames
<1>7. SellerOK(p)'
  BY <1>1, <1>2, <1>4, <1>5, <1>6, SameStock
<1> QED
  BY <1>1, <1>5, <1>7, GiveBackCouponKeeps, StepAccounts

(* ListReservationsByOrder: what is still held is all there is to do.      *)
LEMMA ListAccounts ==
  ASSUME SettlementAssumption, Orderly, Accounted, NEW p \in Settler, R!List(p)
  PROVE  Accounted'
<1> DEFINE o == work[p].order
<1>1. work[p].pc = "list" /\ R!NoStatement /\ work[p].pc \in Settling
  BY DEF R!List, Settling
<1>2. PICK rows \in R!SetToSeqs(R!HeldReservations(p, o)) :
        R!Goto(p, [work[p] EXCEPT !.pc = "stock", !.todo = rows])
  BY DEF R!List
<1>3. /\ work[p] \in Doing /\ o \in Order /\ SettlingOK(p) /\ R!LinesOf(o) \subseteq Variant
      /\ ActsFor(p) /\ Left(p) /\ Wrote(p)
  BY <1>1, AtHand DEF Accounted, SellerOK
<1>4. /\ R!HeldReservations(p, o) \subseteq Variant
      /\ R!HeldReservations(p, o) # {} => db[R!resvRow(o)] = "held"
  <2>1. R!resvRow(o) \notin DOMAIN dirty[p]
    BY <1>1, <1>3 DEF SettlingOK, PastMark
  <2> QED
    BY <1>3, <2>1 DEF R!HeldReservations, R!Read
<1>5. /\ rows \in Seq(Variant) /\ R!ToSet(rows) = R!HeldReservations(p, o)
      /\ \A i, j \in DOMAIN rows : i # j => rows[i] # rows[j]
  BY <1>4, LinesInOrder
<1>6. rows # <<>> => R!ToSet(rows) # {}
  <2>1. rows # <<>> => 1 \in DOMAIN rows
    BY <1>5
  <2> QED
    BY <2>1 DEF R!ToSet
<1>7. work'[p] = [work[p] EXCEPT !.pc = "stock", !.todo = rows]
  BY <1>2, FrameMoves DEF Orderly
<1>8. /\ work'[p].pc = "stock" /\ work'[p].todo = rows /\ work'[p].event = work[p].event
      /\ work'[p].task = work[p].task /\ work'[p].order = work[p].order /\ work'[p].list = work[p].list
  BY <1>3, <1>7 DEF Doing
<1>9. db' = db /\ dirty' = dirty
  BY <1>1 DEF R!NoStatement
<1>10. DOMAIN dirty[p] \cap StockRows = {} /\ \A v \in Variant : R!stockRow(v) \notin DOMAIN dirty[p]
  BY <1>1, <1>3 DEF Left, StockRows
<1>11. work[p].task # "late"
  BY <1>1, <1>3 DEF SettlingOK
<1>12. Left(p)'
  BY <1>4, <1>5, <1>6, <1>8, <1>9, <1>10, <1>11 DEF Left, StockRows
<1>13. ActsFor(p)' /\ Wrote(p)'
  BY <1>1, <1>3, <1>8, <1>9, <1>10 DEF ActsFor, Wrote, Settling
<1>14. SellerOK(p)'
  BY <1>12, <1>13 DEF SellerOK
<1> QED
  BY <1>2, <1>9, <1>14, ListKeeps, StepAccounts

(* Head and Tail of what is left, each line once.                          *)
LEMMA HeadOnce ==
  ASSUME NEW todo \in Seq(Variant), todo # <<>>,
         \A i, j \in DOMAIN todo : i # j => todo[i] # todo[j]
  PROVE  /\ Head(todo) \in R!ToSet(todo) /\ Head(todo) \notin R!ToSet(Tail(todo))
         /\ \A i, j \in DOMAIN Tail(todo) : i # j => Tail(todo)[i] # Tail(todo)[j]
<1>1. /\ Len(Tail(todo)) = Len(todo) - 1 /\ Len(todo) \in Nat /\ Len(todo) >= 1
      /\ Head(todo) = todo[1]
      /\ DOMAIN todo = 1..Len(todo) /\ DOMAIN Tail(todo) = 1..Len(Tail(todo))
      /\ \A i \in 1..Len(Tail(todo)) : Tail(todo)[i] = todo[i + 1]
  OBVIOUS
<1>2. \A i \in 1..Len(Tail(todo)) : i + 1 \in 1..Len(todo) /\ i + 1 # 1
  BY <1>1
<1>3. \A i \in DOMAIN Tail(todo) : Tail(todo)[i] # Head(todo)
  BY <1>1, <1>2
<1>4. Head(todo) \in R!ToSet(todo)
  BY NextLine
<1>5. \A i, j \in DOMAIN Tail(todo) : i # j => Tail(todo)[i] # Tail(todo)[j]
  <2> SUFFICES ASSUME NEW i \in DOMAIN Tail(todo), NEW j \in DOMAIN Tail(todo), i # j
               PROVE  Tail(todo)[i] # Tail(todo)[j]
    OBVIOUS
  <2>1. i + 1 \in DOMAIN todo /\ j + 1 \in DOMAIN todo /\ i + 1 # j + 1
    BY <1>1, <1>2
  <2> QED
    BY <1>1, <2>1
<1> QED
  BY <1>3, <1>4, <1>5 DEF R!ToSet

(* What the statements on a stock row take from the shelf.                 *)
LEMMA StockArithmetic ==
  ASSUME NEW s \in StockRecord, NEW q \in Nat
  PROVE  /\ R!ReserveStock(s, q) \in StockRecord
         /\ R!CommitReservedStock(s, q) \in StockRecord
         /\ R!CommitReservedStock(s, q).available = s.available
         /\ R!ReleaseReservedStock(s, q) \in StockRecord
         /\ R!ReleaseReservedStock(s, q).available <= s.available + q
         /\ R!CommitReservedStock(R!ReserveStock(s, q), q) \in StockRecord
         /\ R!CommitReservedStock(R!ReserveStock(s, q), q).available = s.available - q
<1>1. R!ReserveStock(s, q) \in StockRecord /\ R!ReserveStock(s, q).available = s.available - q
  BY DEF R!ReserveStock, StockRecord
<1>2. ASSUME NEW r \in StockRecord
      PROVE  R!CommitReservedStock(r, q) \in StockRecord /\ R!CommitReservedStock(r, q).available = r.available
  BY DEF R!CommitReservedStock, StockRecord
<1>3. /\ R!ReleaseReservedStock(s, q) \in StockRecord
      /\ R!ReleaseReservedStock(s, q).available <= s.available + q
  <2>1. CASE s.reserved < q
    BY <2>1 DEF R!ReleaseReservedStock, StockRecord
  <2>2. CASE ~(s.reserved < q)
    <3>1. R!ReleaseReservedStock(s, q) = [s EXCEPT !.reserved = @ - q, !.available = @ + q]
      BY <2>2 DEF R!ReleaseReservedStock
    <3>2. PICK a \in Int, b \in Int : s = [available |-> a, reserved |-> b]
      BY DEF StockRecord
    <3>3. R!ReleaseReservedStock(s, q) = [available |-> a + q, reserved |-> b - q]
      BY <3>1, <3>2
    <3> QED
      BY <3>2, <3>3 DEF StockRecord
  <2> QED
    BY <2>1, <2>2
<1> QED
  BY <1>1, <1>2, <1>3

(* Writing the next line.                                                  *)
LEMMA LineWritten ==
  ASSUME Orderly, Accounted, NEW p \in Settler, work[p].pc \in {"again", "stock"},
         work[p].todo \in Seq(Variant), work[p].todo # <<>>, NEW x \in StockRecord,
         work[p].pc = "stock" => work[p].task # "late",
         x.available + Taken(p, Head(work[p].todo)) <= db[R!stockRow(Head(work[p].todo))].available,
         db' = db, work'[p].pc \in {"again", "stock", "charge"}, work'[p].todo = Tail(work[p].todo),
         work'[p].pc = "charge" => Tail(work[p].todo) = <<>>,
         work'[p].event = work[p].event, work'[p].task = work[p].task, work'[p].order = work[p].order,
         work'[p].short = work[p].short, work'[p].list = work[p].list,
         work'[p].pc = "again" => work[p].pc = "again",
         DOMAIN dirty'[p] = {R!stockRow(Head(work[p].todo))} \cup DOMAIN dirty[p],
         dirty'[p][R!stockRow(Head(work[p].todo))] = x,
         \A y \in DOMAIN dirty[p] \ {R!stockRow(Head(work[p].todo))} : dirty'[p][y] = dirty[p][y]
  PROVE  SellerOK(p)'
<1> DEFINE v == Head(work[p].todo)
           o == work[p].order
           todo == work[p].todo
<1>1. /\ ActsFor(p) /\ Left(p) /\ Wrote(p) /\ SettlingOK(p)
  BY AtHand DEF Accounted, SellerOK, Settling
<1>2. /\ v \in Variant /\ v \in R!ToSet(todo) /\ v \notin R!ToSet(Tail(todo))
      /\ R!ToSet(todo) = {v} \cup R!ToSet(Tail(todo))
      /\ \A i, j \in DOMAIN Tail(todo) : i # j => Tail(todo)[i] # Tail(todo)[j]
  BY <1>1, NextLine, HeadOnce DEF Left
<1>3. R!LinesOf(o)' = R!LinesOf(o) /\ R!Item(o)' = R!Item(o) /\ \A w : Taken(p, w)' = Taken(p, w)
  BY DEF R!LinesOf, R!Item, Taken
<1>4. ActsFor(p)'
  BY <1>1 DEF ActsFor, Settling
<1>5. \A w \in Variant : w # v => R!stockRow(w) # R!stockRow(v)
  BY TableNames
<1>6. Wrote(p)'
  BY <1>1, <1>3, <1>5 DEF Wrote
<1> HIDE DEF v
<1>7. Left(p)'
  <2>1. \A w \in R!ToSet(Tail(todo)) : R!stockRow(w) \notin DOMAIN dirty'[p]
    BY <1>1, <1>2, TableNames DEF v, Left
  <2>2. work'[p].task = "late" =>
          IF work'[p].short THEN DOMAIN dirty'[p] \cap StockRows = {}
          ELSE \A w \in R!LinesOf(o) : R!stockRow(w) \in DOMAIN dirty'[p] \/ w \in R!ToSet(Tail(todo))
    BY <1>1, <1>2 DEF v, Left
  <2>3. work'[p].task = "fail" => db'[R!resvRow(o)] = "held"
    BY <1>1 DEF Left
  <2> QED
    BY <1>1, <1>2, <1>3, <2>1, <2>2, <2>3 DEF Left
<1> QED
  BY <1>4, <1>6, <1>7 DEF SellerOK

(* CommitReservedStock or ReleaseReservedStock of a line on the list.      *)
LEMMA ResolveStockAccounts ==
  ASSUME SettlementAssumption, Orderly, Accounted, NEW p \in Settler, R!ResolveStock(p)
  PROVE  Accounted'
<1> DEFINE v == Head(work[p].todo)
           o == work[p].order
           q == R!Item(o)[v]
           x == R!Resolved(R!Read(p, R!stockRow(v)), q, work[p].task)
           f == [work[p] EXCEPT !.todo = Tail(@)]
<1>1. /\ work[p].pc = "stock" /\ work[p].todo # <<>> /\ R!Write(p, R!Only(R!stockRow(v), x)) /\ R!Goto(p, f)
      /\ work[p].pc \in Settling
  BY DEF R!ResolveStock, Settling
<1>2. /\ work[p] \in Doing /\ o \in Order /\ SettlingOK(p) /\ Left(p)
  BY <1>1, AtHand DEF Accounted, SellerOK
<1>3. work[p].task \in {"pay", "fail", "expire"} /\ work[p].todo \in Seq(Variant)
  BY <1>1, <1>2 DEF SettlingOK, Doing
<1>4. v \in Variant /\ R!stockRow(v) \in R!Row /\ R!stockRow(v) \notin DOMAIN dirty[p]
  BY <1>1, <1>2, <1>3, NextLine, TablesThere DEF Left
<1>5. R!Read(p, R!stockRow(v)) = db[R!stockRow(v)] /\ db[R!stockRow(v)] \in StockRecord /\ q \in Nat
  BY <1>2, <1>4, Quantities DEF R!Read, Accounted, Backed
<1>6. x \in StockRecord /\ x.available + Taken(p, v) <= db[R!stockRow(v)].available
  <2> DEFINE s == db[R!stockRow(v)]
  <2>1. s \in StockRecord /\ s.available \in Int
    BY <1>5 DEF StockRecord
  <2>2. CASE work[p].task = "pay"
    <3>1. x = R!CommitReservedStock(s, q) /\ Taken(p, v) = 0
      BY <1>5, <2>2 DEF R!Resolved, Taken
    <3>2. R!CommitReservedStock(s, q) \in StockRecord /\ R!CommitReservedStock(s, q).available = s.available
      BY <1>5, <2>1, StockArithmetic
    <3>3. x \in StockRecord /\ x.available = s.available
      BY <3>1, <3>2
    <3> QED
      BY <2>1, <3>1, <3>3
  <2>3. CASE work[p].task \in {"fail", "expire"}
    <3>1. x = R!ReleaseReservedStock(s, q) /\ Taken(p, v) = 0 - q
      BY <1>5, <2>3 DEF R!Resolved, Taken
    <3>2. x \in StockRecord /\ x.available <= s.available + q /\ x.available \in Int
      BY <1>5, <2>1, <3>1, StockArithmetic DEF StockRecord
    <3> QED
      BY <1>5, <2>1, <3>1, <3>2
  <2> QED
    BY <1>3, <2>2, <2>3
<1>7. /\ f.pc = "stock" /\ f.todo = Tail(work[p].todo) /\ f.event = work[p].event /\ f.task = work[p].task
      /\ f.order = work[p].order /\ f.short = work[p].short /\ f.list = work[p].list
  BY <1>1, <1>2 DEF Doing
<1> HIDE DEF x, f, q
<1>8. /\ db' = db /\ work'[p] = f /\ \A u \in Proc \ {p} : dirty'[u] = dirty[u]
      /\ DOMAIN dirty'[p] = {R!stockRow(v)} \cup DOMAIN dirty[p] /\ dirty'[p][R!stockRow(v)] = x
      /\ \A y \in DOMAIN dirty[p] \ {R!stockRow(v)} : dirty'[p][y] = dirty[p][y]
  BY <1>1, <1>4, WriteOne
<1>9. SellerOK(p)'
  BY <1>1, <1>3, <1>6, <1>7, <1>8, LineWritten
<1> QED
  BY <1>1, <1>8, <1>9, ResolveStockKeeps, StepAccounts

(* ReserveStock and CommitReservedStock of the next line, or the savepoint. *)
LEMMA ReserveAgainAccounts ==
  ASSUME SettlementAssumption, Orderly, Accounted, NEW h \in Hook, R!ReserveAgain(h)
  PROVE  Accounted'
<1> DEFINE v == Head(work[h].todo)
           o == work[h].order
           q == R!Item(o)[v]
           s == R!Read(h, R!stockRow(v))
<1>1. work[h].pc = "again" /\ h \in Settler /\ h \notin Jobs /\ work[h].pc \in Settling
  BY Settlers DEF R!ReserveAgain, Settler, Settling
<1>2. /\ work[h] \in Doing /\ o \in Order /\ SettlingOK(h)
      /\ ActsFor(h) /\ Left(h) /\ Wrote(h)
  BY <1>1, AtHand DEF Accounted, SellerOK
<1>3. /\ work[h].task = "late" /\ work[h].todo # <<>> /\ work[h].todo \in Seq(Variant)
  BY <1>1, <1>2 DEF SettlingOK, Doing
<1>4. v \in Variant /\ R!stockRow(v) \in R!Row /\ R!stockRow(v) \notin DOMAIN dirty[h]
  BY <1>2, <1>3, NextLine, TablesThere DEF Left
<1>5. s = db[R!stockRow(v)] /\ db[R!stockRow(v)] \in StockRecord /\ q \in Nat
  BY <1>2, <1>4, Quantities DEF R!Read, Accounted, Backed
<1>6. CASE R!Shortfall(s, q)
  <2> DEFINE f == [work[h] EXCEPT !.todo = <<>>, !.short = TRUE, !.pc = "charge"]
  <2>1. /\ UNCHANGED db /\ R!Goto(h, f)
        /\ dirty' = [dirty EXCEPT ![h] = [r \in {x \in DOMAIN @ : x[1] # "stock"} |-> @[r]]]
    BY <1>6 DEF R!ReserveAgain
  <2>2. /\ db' = db /\ DOMAIN dirty'[h] = {x \in DOMAIN dirty[h] : x[1] # "stock"}
        /\ \A r \in DOMAIN dirty'[h] : dirty'[h][r] = dirty[h][r]
        /\ \A p \in Proc \ {h} : dirty'[p] = dirty[p]
    BY <1>1, <2>1, ToSavepoint
  <2>3. work'[h] = f
    BY <1>1, <2>1, FrameMoves DEF Orderly
  <2>4. /\ work'[h].pc = "charge" /\ work'[h].todo = <<>> /\ work'[h].event = work[h].event /\ work'[h].short
        /\ work'[h].task = "late" /\ work'[h].order = work[h].order
    BY <1>2, <1>3, <2>3 DEF Doing
  <2> HIDE DEF f
  <2>5. DOMAIN dirty'[h] \cap StockRows = {} /\ \A w \in Variant : R!stockRow(w) \notin DOMAIN dirty'[h]
    BY <2>2, TableNames DEF StockRows
  <2>6. \A i : R!eventRow(i) \in DOMAIN dirty[h] => R!eventRow(i) \in DOMAIN dirty'[h]
    BY <2>2, TableNames
  <2>7. ActsFor(h)'
    BY <1>1, <1>2, <1>3, <2>4, <2>6 DEF ActsFor, Settling
  <2>8. Left(h)' /\ Wrote(h)'
    BY <2>4, <2>5 DEF Left, Wrote, R!ToSet
  <2>9. SellerOK(h)'
    BY <2>7, <2>8 DEF SellerOK
  <2> QED
    BY <1>1, <2>1, <2>2, <2>9, ReserveAgainKeeps, StepAccounts
<1>7. CASE ~R!Shortfall(s, q)
  <2> DEFINE pc == IF Len(work[h].todo) = 1 THEN "charge" ELSE "again"
             f == [work[h] EXCEPT !.todo = Tail(@), !.pc = pc]
             x == R!CommitReservedStock(R!ReserveStock(s, q), q)
  <2>1. /\ R!Write(h, R!Only(R!stockRow(v), x)) /\ R!Goto(h, f)
    BY <1>7 DEF R!ReserveAgain
  <2>2. x \in StockRecord /\ x.available = db[R!stockRow(v)].available - q
    BY <1>5, StockArithmetic
  <2>3. /\ f.pc = pc /\ f.todo = Tail(work[h].todo) /\ f.event = work[h].event /\ f.task = work[h].task
        /\ f.order = work[h].order /\ f.short = work[h].short /\ f.list = work[h].list
    BY <1>2 DEF Doing
  <2>4. pc = "again" \/ (pc = "charge" /\ Tail(work[h].todo) = <<>>)
    <3>1. Len(work[h].todo) = 1 => Tail(work[h].todo) \in Seq(Variant) /\ Len(Tail(work[h].todo)) = 0
      BY <1>3
    <3>2. \A e \in Seq(Variant) : Len(e) = 0 => e = <<>>
      OBVIOUS
    <3> QED
      BY <3>1, <3>2
  <2>5. Taken(h, v) = q
    BY <1>3 DEF Taken
  <2>6. x.available + Taken(h, v) <= db[R!stockRow(v)].available
    BY <1>5, <2>2, <2>5 DEF StockRecord
  <2> HIDE DEF x, f, q, pc, s
  <2>7. /\ db' = db /\ work'[h] = f /\ \A u \in Proc \ {h} : dirty'[u] = dirty[u]
        /\ DOMAIN dirty'[h] = {R!stockRow(v)} \cup DOMAIN dirty[h] /\ dirty'[h][R!stockRow(v)] = x
        /\ \A y \in DOMAIN dirty[h] \ {R!stockRow(v)} : dirty'[h][y] = dirty[h][y]
    BY <1>1, <1>4, <2>1, WriteOne
  <2>8. SellerOK(h)'
    BY <1>1, <1>3, <2>2, <2>3, <2>4, <2>6, <2>7, LineWritten
  <2> QED
    BY <1>1, <2>1, <2>7, <2>8, ReserveAgainKeeps, StepAccounts
<1> QED
  BY <1>6, <1>7

(* A session between transactions.                                         *)
LEMMA AtRest ==
  ASSUME NEW p \in Settler, work'[p] = R!Idle
  PROVE  SellerOK(p)'
<1>1. /\ work'[p].pc = "idle" /\ work'[p].list = {}
  BY DEF R!Idle
<1> QED
  BY <1>1 DEF SellerOK, ActsFor, Settling

(* The job goes on, with nothing left to do for the orders before.         *)
LEMMA OnTheList ==
  ASSUME SettlementAssumption, NEW j \in Jobs, NEW list \in SUBSET MayExpire,
         work'[j] = [R!Idle EXCEPT !.pc = "next", !.list = list]
  PROVE  SellerOK(j)'
<1>1. work'[j].pc = "next" /\ work'[j].list = list /\ work'[j].todo = <<>> /\ ~work'[j].short
  BY DEF R!Idle
<1> QED
  BY <1>1, Settlers DEF SellerOK, ActsFor, Settling

(* The tick lists orders that are due.                                     *)
LEMMA TickAccounts ==
  ASSUME SettlementAssumption, Orderly, Accounted, NEW j \in Jobs, R!Tick(j)
  PROVE  Accounted'
<1> DEFINE f == [R!Idle EXCEPT !.pc = "next", !.list = R!ListExpiredHeldOrderIDs]
<1>1. j \in Settler /\ R!Goto(j, f) /\ R!NoStatement
  BY DEF R!Tick, Settler
<1>2. db' = db /\ dirty' = dirty /\ work'[j] = f
  BY <1>1, FrameMoves DEF R!NoStatement, Orderly
<1>3. R!ListExpiredHeldOrderIDs \in SUBSET MayExpire
  BY DEF R!ListExpiredHeldOrderIDs, Accounted
<1>4. SellerOK(j)'
  BY <1>2, <1>3, OnTheList
<1> HIDE DEF f
<1> QED
  BY <1>1, <1>2, <1>4, TickKeeps, StepAccounts

(* The next order of the list.                                             *)
LEMMA NextOrderAccounts ==
  ASSUME SettlementAssumption, Orderly, Accounted, NEW j \in Jobs, R!NextOrder(j)
  PROVE  Accounted'
<1>1. work[j].pc = "next" /\ j \in Settler /\ R!NoStatement /\ j \notin Hook
  BY Settlers DEF R!NextOrder, Settler
<1>2. db' = db /\ dirty' = dirty /\ OrdersMove
  BY <1>1, NextOrderKeeps DEF R!NoStatement
<1>3. /\ work[j] \in Doing /\ work[j].todo = <<>> /\ ~work[j].short /\ work[j].list \subseteq MayExpire
  BY <1>1 DEF Orderly, SettlerOK, Accounted, SellerOK, ActsFor
<1>4. CASE R!Goto(j, R!Idle)
  BY <1>1, <1>2, <1>4, AtRest, FrameMoves, StepAccounts DEF Orderly
<1>5. ASSUME NEW o \in work[j].list, R!Goto(j, [work[j] EXCEPT !.list = @ \ {o}])
      PROVE  Accounted'
  <2>1. work'[j] = [work[j] EXCEPT !.list = @ \ {o}]
    BY <1>1, <1>5, FrameMoves DEF Orderly
  <2>2. /\ work'[j].pc = "next" /\ work'[j].list = work[j].list \ {o}
        /\ work'[j].todo = <<>> /\ ~work'[j].short
    BY <1>1, <1>3, <2>1 DEF Doing
  <2>3. SellerOK(j)'
    BY <1>1, <1>3, <2>2 DEF SellerOK, ActsFor, Settling
  <2> QED
    BY <1>1, <1>2, <1>5, <2>3, StepAccounts
<1>6. ASSUME NEW o \in work[j].list,
             R!Goto(j, [work[j] EXCEPT !.list = @ \ {o}, !.order = o, !.pc = "expire", !.task = "expire"])
      PROVE  Accounted'
  <2>1. work'[j] = [work[j] EXCEPT !.list = @ \ {o}, !.order = o, !.pc = "expire", !.task = "expire"]
    BY <1>1, <1>6, FrameMoves DEF Orderly
  <2>2. /\ work'[j].pc = "expire" /\ work'[j].list = work[j].list \ {o} /\ work'[j].order = o
        /\ work'[j].todo = <<>> /\ ~work'[j].short
    BY <1>3, <2>1 DEF Doing
  <2>3. SellerOK(j)'
    BY <1>1, <1>3, <2>2 DEF SellerOK, ActsFor, Settling
  <2> QED
    BY <1>1, <1>2, <1>6, <2>3, StepAccounts
<1> QED
  BY <1>4, <1>5, <1>6 DEF R!NextOrder

(* The job takes the order it has listed.                                  *)
LEMMA ExpireOrderAccounts ==
  ASSUME SettlementAssumption, Orderly, Accounted, NEW j \in Jobs, R!ExpireOrder(j)
  PROVE  Accounted'
<1> DEFINE o == work[j].order
<1>1. work[j].pc = "expire" /\ j \in Settler /\ j \notin Hook
  BY Settlers DEF R!ExpireOrder, Settler
<1>2. /\ work[j] \in Doing /\ o \in Order /\ dirty[j] = R!NoWrites /\ work[j].task = "expire"
      /\ work[j].todo = <<>> /\ ~work[j].short /\ work[j].list \subseteq MayExpire /\ o \in MayExpire
  BY <1>1 DEF Orderly, SettlerOK, Accounted, SellerOK, ActsFor
<1>3. OrdersMove
  BY ExpireOrderKeeps
<1>4. CASE R!Status(j, o) = "pending_payment"
  <2> DEFINE rows == R!Transition(j, o)
             f == [work[j] EXCEPT !.pc = "list"]
  <2>1. R!Write(j, rows) /\ R!Goto(j, f)
    BY <1>4 DEF R!ExpireOrder
  <2>2. DOMAIN rows \subseteq {R!orderRow(o)} /\ DOMAIN rows \subseteq R!Row
    <3>1. DOMAIN rows = {R!orderRow(o)} \/ DOMAIN rows = {}
      BY OneWrite DEF R!Transition
    <3>2. R!orderRow(o) \in R!Row
      BY <1>2, TablesThere
    <3> QED
      BY <3>1, <3>2
  <2> HIDE DEF rows
  <2>3. /\ db' = db /\ work'[j] = f /\ \A q \in Proc \ {j} : dirty'[q] = dirty[q]
        /\ DOMAIN dirty'[j] = DOMAIN rows \cup DOMAIN dirty[j]
    BY <1>1, <2>1, <2>2, WriteStep, FrameMoves DEF Orderly
  <2>4. DOMAIN dirty'[j] \cap StockRows = {} /\ \A w \in Variant : R!stockRow(w) \notin DOMAIN dirty'[j]
    BY <1>2, <2>2, <2>3, OneWrite, TableNames DEF StockRows
  <2>5. /\ work'[j].pc = "list" /\ work'[j].todo = <<>> /\ ~work'[j].short /\ work'[j].task = "expire"
        /\ work'[j].list = work[j].list /\ work'[j].order = o
    BY <1>2, <2>3 DEF Doing
  <2> HIDE DEF f
  <2>6. SellerOK(j)'
    BY <1>1, <1>2, <2>4, <2>5 DEF SellerOK, ActsFor, Left, Wrote, R!ToSet
  <2> QED
    BY <1>1, <1>3, <2>1, <2>3, <2>6, StepAccounts
<1>5. CASE R!Status(j, o) # "pending_payment"
  <2> DEFINE f == [R!Idle EXCEPT !.pc = "next", !.list = work[j].list]
  <2>1. R!Rollback(j) /\ R!Goto(j, f)
    BY <1>5 DEF R!ExpireOrder
  <2>2. db' = db /\ work'[j] = f /\ \A q \in Proc \ {j} : dirty'[q] = dirty[q]
    BY <1>1, <2>1, RollbackStep, FrameMoves DEF Orderly
  <2>3. SellerOK(j)'
    BY <1>2, <2>2, OnTheList
  <2> HIDE DEF f
  <2> QED
    BY <1>1, <1>3, <2>1, <2>2, <2>3, StepAccounts
<1> QED
  BY <1>4, <1>5

(* A failed statement, or a lost connection.                               *)
LEMMA AbortAccounts ==
  ASSUME SettlementAssumption, Orderly, Accounted, NEW p \in Settler, R!Abort(p)
  PROVE  Accounted'
<1>1. R!Rollback(p) /\ R!Goto(p, R!Idle)
  BY DEF R!Abort
<1>2. db' = db /\ work'[p] = R!Idle /\ \A q \in Proc \ {p} : dirty'[q] = dirty[q]
  BY <1>1, RollbackStep, FrameMoves DEF Orderly
<1>3. SellerOK(p)'
  BY <1>2, AtRest
<1> QED
  BY <1>1, <1>2, <1>3, AbortKeeps, StepAccounts

(* One order more or less among those that hold units.                     *)
LEMMA UnitsMove ==
  ASSUME SettlementAssumption, NEW lines, LinesOK(lines), NEW o \in Order, NEW v \in Variant,
         NEW K \in SUBSET Order, NEW T \in SUBSET Order, K \ {o} = T \ {o}
  PROVE  /\ Cardinality(R!Units(lines, K, v)) \in Nat /\ Cardinality(R!Units(lines, T, v)) \in Nat
         /\ lines[o][v] \in Nat
         /\ Cardinality(R!Units(lines, T, v)) + (IF o \in K THEN lines[o][v] ELSE 0)
              = Cardinality(R!Units(lines, K, v)) + (IF o \in T THEN lines[o][v] ELSE 0)
<1> DEFINE N(X) == Cardinality(R!Units(lines, X, v))
           B == K \ {o}
<1>1. N(K) \in Nat /\ N(T) \in Nat /\ N(B) \in Nat
  BY UnitsFinite
<1>2. lines[o][v] \in Nat /\ N({o}) = lines[o][v]
  BY UnitsOfOne
<1>3. N(B \cup {o}) = N(B) + N({o})
  BY UnitsUnion
<1>4. /\ K = IF o \in K THEN B \cup {o} ELSE B
      /\ T = IF o \in T THEN B \cup {o} ELSE B
  OBVIOUS
<1> HIDE DEF N, B
<1>5. N(K) = N(B) + (IF o \in K THEN lines[o][v] ELSE 0)
  <2>1. CASE o \in K
    <3>1. K = B \cup {o}
      BY <1>4, <2>1
    <3>2. N(K) = N(B \cup {o})
      BY <3>1
    <3> QED
      BY <1>2, <1>3, <2>1, <3>2
  <2>2. CASE o \notin K
    <3>1. K = B
      BY <1>4, <2>2
    <3>2. N(K) = N(B)
      BY <3>1
    <3> QED
      BY <1>1, <2>2, <3>2
  <2> QED
    BY <2>1, <2>2
<1>6. N(T) = N(B) + (IF o \in T THEN lines[o][v] ELSE 0)
  <2>1. CASE o \in T
    <3>1. T = B \cup {o}
      BY <1>4, <2>1
    <3>2. N(T) = N(B \cup {o})
      BY <3>1
    <3> QED
      BY <1>2, <1>3, <2>1, <3>2
  <2>2. CASE o \notin T
    <3>1. T = B
      BY <1>4, <2>2
    <3>2. N(T) = N(B)
      BY <3>1
    <3> QED
      BY <1>1, <2>2, <3>2
  <2> QED
    BY <2>1, <2>2
<1>7. N(T) + (IF o \in K THEN lines[o][v] ELSE 0) = N(K) + (IF o \in T THEN lines[o][v] ELSE 0)
  <2> DEFINE a == IF o \in K THEN lines[o][v] ELSE 0
             b == IF o \in T THEN lines[o][v] ELSE 0
  <2>1. a \in Nat /\ b \in Nat
    BY <1>2
  <2>2. N(K) = N(B) + a /\ N(T) = N(B) + b
    BY <1>5, <1>6
  <2> HIDE DEF a, b
  <2>3. N(T) + a = N(K) + b
    BY <1>1, <2>1, <2>2
  <2> QED
    BY <2>3 DEF a, b
<1> QED
  BY <1>1, <1>2, <1>7 DEF N

(* What a step may do to the units on the shelf and those that orders      *)
(* have, when it settles or creates one order.                             *)
LEMMA StillBacked ==
  ASSUME SettlementAssumption, Orderly, Accounted, NEW o \in Order, LinesOK(Lines)',
         \A x \in Order \ {o} : /\ db'[R!orderRow(x)] = db[R!orderRow(x)]
                                /\ db'[R!resvRow(x)] = db[R!resvRow(x)],
         o \in Promising => R!Item(o)' = R!Item(o),
         \A v \in Variant :
           /\ db'[R!stockRow(v)] \in StockRecord
           /\ db'[R!stockRow(v)].available + (IF o \in Promising' THEN R!Item(o)'[v] ELSE 0)
                <= db[R!stockRow(v)].available + (IF o \in Promising THEN R!Item(o)'[v] ELSE 0)
  PROVE  Backed'
<1>1. Promising' \ {o} = Promising \ {o} /\ Promising \subseteq Order /\ Promising' \subseteq Order
  BY DEF Promising, R!Holding, R!Sold
<1>2. \A x \in Promising : Lines[x] = Lines'[x]
  <2>1. \A x \in Order \ {o} : R!Item(x)' = R!Item(x)
    BY DEF R!Item
  <2> QED
    BY <1>1, <2>1 DEF Lines
<1> SUFFICES ASSUME NEW v \in Variant
             PROVE  db'[R!stockRow(v)].available + R!Promised(Promising, v)' <= InitStock[v]
  BY DEF Backed
<1> DEFINE lines == Lines'
           before == Promising
           after == Promising'
           a == db[R!stockRow(v)].available
           b == db'[R!stockRow(v)].available
           m == Cardinality(R!Units(lines, before, v))
           n == Cardinality(R!Units(lines, after, v))
           q == lines[o][v]
<1>3. R!Promised(Promising, v) = m
  <2>1. R!Units(Lines, Promising, v) = R!Units(Lines', Promising, v)
    BY <1>2, UnitsSame
  <2> QED
    BY <2>1, ShareOf
<1>4. R!Promised(Promising, v)' = n
  <2>1. SharesOfPromising'
    BY ShareOfAll, PTL
  <2> QED
    BY <2>1 DEF SharesOfPromising, ShareOfPromising, R!Units
<1>5. /\ m \in Nat /\ n \in Nat /\ q \in Nat
      /\ n + (IF o \in before THEN q ELSE 0) = m + (IF o \in after THEN q ELSE 0)
  <2>1. LinesOK(lines)
    BY DEF LinesOK
  <2> HIDE DEF lines, before, after
  <2>2. before \in SUBSET Order /\ after \in SUBSET Order /\ before \ {o} = after \ {o}
    BY <1>1 DEF before, after
  <2> QED
    BY <2>1, <2>2, UnitsMove
<1>6. q = R!Item(o)'[v]
  BY DEF Lines
<1>7. a \in Int /\ b \in Int /\ a + m <= InitStock[v] /\ InitStock[v] \in Nat
  BY <1>3 DEF SettlementAssumption, R!StockAssumption, Accounted, Backed, StockRecord
<1>8. b + (IF o \in after THEN q ELSE 0) <= a + (IF o \in before THEN q ELSE 0)
  BY <1>6
<1> HIDE DEF a, b, m, n, q, lines, before, after
<1>9. b + n <= InitStock[v]
  BY <1>5, <1>7, <1>8
<1> QED
  BY <1>4, <1>9 DEF b

(* The last statements of a settlement write no stock of their own.        *)
LEMMA StockPublished ==
  ASSUME SettlementAssumption, Orderly, NEW p \in Settler, NEW o \in Order, NEW rows,
         DOMAIN rows \subseteq {R!orderRow(o), R!auditRow(o)}, R!CommitWith(p, rows)
  PROVE  /\ \A v \in Variant : db'[R!stockRow(v)] = R!Read(p, R!stockRow(v))
         /\ \A q \in Proc \ {p} : /\ dirty'[q] = dirty[q]
                                  /\ \A r \in DOMAIN dirty[q] : db'[r] = db[r]
<1>1. DOMAIN rows \subseteq R!Row
  BY TablesThere
<1>2. /\ \A r \in R!Row : db'[r] = IF r \in DOMAIN rows THEN rows[r] ELSE R!Read(p, r)
      /\ \A q \in Proc \ {p} : /\ dirty'[q] = dirty[q]
                               /\ \A r \in DOMAIN dirty[q] : db'[r] = db[r]
  BY <1>1, Settlers, PublishedRows DEF Orderly
<1>3. \A v \in Variant : R!stockRow(v) \in R!Row /\ R!stockRow(v) \notin DOMAIN rows
  BY TableNames, TablesThere
<1> QED
  BY <1>2, <1>3

(* What a settlement publishes of a shelf.                                 *)
LEMMA ShelfPublished ==
  ASSUME Orderly, Accounted, NEW p \in Settler, work[p].pc = "finish", NEW v \in Variant,
         db'[R!stockRow(v)] = R!Read(p, R!stockRow(v))
  PROVE  /\ db'[R!stockRow(v)] \in StockRecord
         /\ db'[R!stockRow(v)].available \in Int /\ db[R!stockRow(v)].available \in Int
         /\ R!stockRow(v) \notin DOMAIN dirty[p] => db'[R!stockRow(v)].available = db[R!stockRow(v)].available
         /\ R!stockRow(v) \in DOMAIN dirty[p] =>
              db'[R!stockRow(v)].available + Taken(p, v) <= db[R!stockRow(v)].available
<1>1. Wrote(p)
  BY DEF Accounted, SellerOK, Settling
<1>2. db[R!stockRow(v)] \in StockRecord
  BY DEF Accounted, Backed
<1>3. CASE R!stockRow(v) \in DOMAIN dirty[p]
  BY <1>1, <1>2, <1>3 DEF Wrote, R!Read, StockRecord
<1>4. CASE R!stockRow(v) \notin DOMAIN dirty[p]
  BY <1>2, <1>4 DEF R!Read, StockRecord
<1> QED
  BY <1>3, <1>4

(* What becomes of the order that is settled, and of the units it had.     *)
LEMMA SettledOrder ==
  ASSUME Orderly, Accounted, NEW p \in Settler, work[p].pc = "finish", Settled(p)
  PROVE  LET o == work[p].order IN
         /\ o \in Order /\ work[p].task \in {"pay", "fail", "late", "expire"}
         /\ work[p].task = "pay" => (o \in Promising' => o \in Promising)
         /\ work[p].task \in {"fail", "expire"} =>
              \/ o \in Promising /\ o \notin Promising'
              \/ /\ o \in Promising' => o \in Promising
                 /\ DOMAIN dirty[p] \cap StockRows = {}
         /\ work[p].task = "late" =>
              \/ o \in Promising' => o \in Promising
              \/ \A v \in R!LinesOf(o) : R!stockRow(v) \in DOMAIN dirty[p]
<1> DEFINE o == work[p].order
<1>1. /\ work[p] \in Doing /\ o \in Order /\ SettlingOK(p) /\ OrderOK(o) /\ Left(p)
  BY AtHand DEF Settling, Accounted, SellerOK
<1>2. work[p].task \in {"pay", "fail", "late", "expire"}
  BY <1>1 DEF SettlingOK, Doing
<1>3. /\ o \in Promising <=> db[R!resvRow(o)] = "held" \/ db[R!orderRow(o)].status = "paid"
      /\ o \in Promising' <=> db'[R!resvRow(o)] = "held" \/ db'[R!orderRow(o)].status = "paid"
  BY <1>1 DEF Promising, R!Holding, R!Sold
<1>4. /\ db'[R!resvRow(o)] = R!Read(p, R!resvRow(o))
      /\ db'[R!orderRow(o)] = IF db[R!orderRow(o)].status = R!From(p)
                              THEN [db[R!orderRow(o)] EXCEPT !.status = R!To(p)] ELSE db[R!orderRow(o)]
      /\ db[R!orderRow(o)] \in OrderRecord
  BY <1>1 DEF Settled, OrderOK
<1>5. db[R!orderRow(o)].status = R!From(p) => db'[R!orderRow(o)].status = R!To(p)
  BY <1>4 DEF OrderRecord
<1>6. CASE db[R!orderRow(o)].status = "pending_payment"
  <2>1. work[p].task # "late" /\ R!From(p) = "pending_payment" /\ R!resvRow(o) \in DOMAIN dirty[p]
    BY <1>1, <1>6 DEF SettlingOK, PastMark, R!From
  <2>2. o \in Promising
    BY <1>1, <1>3, <1>6 DEF OrderOK
  <2>3. db'[R!resvRow(o)] # "held"
    BY <1>1, <1>4, <2>1 DEF SettlingOK, R!Read
  <2>4. work[p].task \in {"fail", "expire"} => R!To(p) # "paid"
    BY DEF R!To
  <2>5. work[p].task \in {"fail", "expire"} => o \notin Promising'
    BY <1>3, <1>5, <1>6, <2>1, <2>3, <2>4
  <2> QED
    BY <1>1, <1>2, <2>1, <2>2, <2>5
<1>7. CASE db[R!orderRow(o)].status # "pending_payment"
  <2>1. db'[R!resvRow(o)] = db[R!resvRow(o)] /\ db[R!resvRow(o)] # "held"
    BY <1>1, <1>4, <1>7 DEF SettlingOK, OrderOK, R!Read
  <2>2. work[p].task # "late" => (o \in Promising' => o \in Promising)
    BY <1>2, <1>3, <1>4, <1>7, <2>1, TaskMoves
  <2>3. work[p].task = "fail" => DOMAIN dirty[p] \cap StockRows = {}
    BY <1>1, <2>1 DEF Left
  <2>4. work[p].task # "expire"
    BY <1>1, <1>7 DEF SettlingOK
  <2>5. ASSUME work[p].task = "late", o \in Promising', o \notin Promising
        PROVE  \A v \in R!LinesOf(o) : R!stockRow(v) \in DOMAIN dirty[p]
    <3>1. db[R!orderRow(o)].status = R!From(p) /\ R!To(p) = "paid"
      BY <1>3, <1>4, <1>5, <2>1, <2>5
    <3>2. ~work[p].short
      BY <2>5, <3>1 DEF R!To
    <3>3. work[p].todo = <<>>
      BY <1>1 DEF Left
    <3>4. R!ToSet(work[p].todo) = {}
      BY <3>3 DEF R!ToSet
    <3> QED
      BY <1>1, <2>5, <3>2, <3>4 DEF Left
  <2> QED
    BY <1>1, <1>2, <2>2, <2>3, <2>4, <2>5
<1> QED
  BY <1>6, <1>7

(* No unit is on the shelf and with an order when a settlement ends.       *)
LEMMA SettledBacked ==
  ASSUME SettlementAssumption,
         Orderly, Accounted, NEW p \in Settler, work[p].pc = "finish", Settled(p),
         \A v \in Variant : db'[R!stockRow(v)] = R!Read(p, R!stockRow(v))
  PROVE  Backed'
<1>0. PICK o \in Order : o = work[p].order
  BY SettledOrder
<1>1. /\ work[p].task \in {"pay", "fail", "late", "expire"}
      /\ work[p].task = "pay" => (o \in Promising' => o \in Promising)
      /\ work[p].task \in {"fail", "expire"} =>
           \/ o \in Promising /\ o \notin Promising'
           \/ /\ o \in Promising' => o \in Promising
              /\ DOMAIN dirty[p] \cap StockRows = {}
      /\ work[p].task = "late" =>
           \/ o \in Promising' => o \in Promising
           \/ \A v \in R!LinesOf(o) : R!stockRow(v) \in DOMAIN dirty[p]
  BY <1>0, SettledOrder
<1>2. \A x \in Order : R!Item(x)' = R!Item(x)
  <2>1. \A x \in Order \ {o} : R!Item(x)' = R!Item(x)
    BY <1>0 DEF Settled, R!Item
  <2>2. db[R!orderRow(o)] \in OrderRecord
    BY <1>1 DEF Orderly, OrderOK
  <2>3. db'[R!orderRow(o)].item = db[R!orderRow(o)].item
    BY <1>0, <2>2 DEF Settled, OrderRecord
  <2>4. R!Item(o)' = R!Item(o)
    BY <2>3 DEF R!Item
  <2> QED
    BY <2>1, <2>4
<1>3. LinesOK(Lines) /\ \A x \in Order, v \in Variant : R!Item(x)[v] \in Nat
  BY Quantities, <1>1
<1>4. LinesOK(Lines)'
  BY <1>2, <1>3 DEF LinesOK, Lines
<1>5. ASSUME NEW v \in Variant
      PROVE  /\ db'[R!stockRow(v)] \in StockRecord
             /\ db'[R!stockRow(v)].available + (IF o \in Promising' THEN R!Item(o)[v] ELSE 0)
                  <= db[R!stockRow(v)].available + (IF o \in Promising THEN R!Item(o)[v] ELSE 0)
  <2> DEFINE a == db[R!stockRow(v)].available
             b == db'[R!stockRow(v)].available
             q == R!Item(o)[v]
             in == o \in Promising
             stays == o \in Promising'
             wrote == R!stockRow(v) \in DOMAIN dirty[p]
  <2>1. /\ db'[R!stockRow(v)] \in StockRecord /\ a \in Int /\ b \in Int
        /\ ~wrote => b = a
        /\ wrote => b + Taken(p, v) <= a
    BY ShelfPublished
  <2>2. q \in Nat
    BY <1>1, <1>3
  <2>3. DOMAIN dirty[p] \cap StockRows = {} => ~wrote
    BY DEF StockRows
  <2>4. q > 0 => v \in R!LinesOf(o)
    BY DEF R!LinesOf
  <2>5. b + (IF stays THEN q ELSE 0) <= a + (IF in THEN q ELSE 0)
    <3>1. CASE work[p].task = "pay"
      <4>1. (stays => in) /\ (wrote => b + 0 <= a)
        BY <1>1, <2>1, <3>1 DEF Taken
      <4> HIDE DEF a, b, q, in, stays, wrote
      <4> QED
        BY <2>1, <2>2, <4>1
    <3>2. CASE work[p].task \in {"fail", "expire"}
      <4>1. wrote => b + (0 - q) <= a
        BY <1>0, <2>1, <3>2 DEF Taken
      <4>2. \/ in /\ ~stays
            \/ (stays => in) /\ DOMAIN dirty[p] \cap StockRows = {}
        BY <1>1, <3>2
      <4>3. (in /\ ~stays) \/ ((stays => in) /\ ~wrote)
        <5> HIDE DEF in, stays, wrote
        <5> QED
          BY <2>3, <4>2
      <4> HIDE DEF a, b, q, in, stays, wrote
      <4> QED
        BY <2>1, <2>2, <4>1, <4>3
    <3>3. CASE work[p].task = "late"
      <4>1. wrote => b + q <= a
        BY <1>0, <2>1, <3>3 DEF Taken
      <4>2. (stays => in) \/ (q > 0 => wrote)
        BY <1>1, <2>4, <3>3
      <4> HIDE DEF a, b, q, in, stays, wrote
      <4> QED
        BY <2>1, <2>2, <4>1, <4>2
    <3> QED
      BY <1>1, <3>1, <3>2, <3>3
  <2> QED
    BY <2>1, <2>5
<1>6. \A x \in Order \ {o} : db'[R!orderRow(x)] = db[R!orderRow(x)] /\ db'[R!resvRow(x)] = db[R!resvRow(x)]
  BY <1>0 DEF Settled
<1>7. \A v \in Variant :
        /\ db'[R!stockRow(v)] \in StockRecord
        /\ db'[R!stockRow(v)].available + (IF o \in Promising' THEN R!Item(o)'[v] ELSE 0)
             <= db[R!stockRow(v)].available + (IF o \in Promising THEN R!Item(o)'[v] ELSE 0)
  BY <1>2, <1>5
<1> QED
  BY <1>2, <1>4, <1>6, <1>7, StillBacked

(* Nobody settles an order whose payment has failed while the failure      *)
(* does.                                                                   *)
LEMMA FailsAlone ==
  ASSUME SettlementAssumption,
         Undisputed, Orderly, Accounted, NEW p \in Settler, work[p].pc \in Settling,
         NEW q \in Settler, q # p, work[q].pc \in Settling, work[q].task = "fail"
  PROVE  work[q].order # work[p].order
<1> SUFFICES ASSUME work[q].order = work[p].order
             PROVE  FALSE
  OBVIOUS
<1> DEFINE e == work[q].event
           f == work[p].event
<1>1. q \in Hook
  BY AtHand DEF SettlingOK, Settler
<1>2. /\ e \in Event /\ e.exact /\ e.type = "failed" /\ e.order = work[p].order
      /\ R!eventRow(e.id) \in DOMAIN dirty[q]
  BY <1>1 DEF Accounted, SellerOK, ActsFor
<1>3. e.order \notin MayExpire /\ \A g \in Event : g.exact /\ g.order = e.order => g.id = e.id
  BY <1>2 DEF Undisputed
<1>4. CASE p \in Jobs
  BY <1>2, <1>3, <1>4 DEF Accounted, SellerOK, ActsFor
<1>5. CASE p \in Hook
  <2>1. f \in Event /\ f.exact /\ f.order = work[p].order /\ R!eventRow(f.id) \in DOMAIN dirty[p]
    BY <1>5 DEF Accounted, SellerOK, ActsFor
  <2>2. f.id = e.id
    BY <1>2, <1>3, <2>1
  <2> QED
    BY <1>2, <2>1, <2>2, Settlers DEF Orderly, LocksExclusive
<1> QED
  BY <1>4, <1>5 DEF Settler

(* A step that commits.                                                    *)
LEMMA CommitAccounts ==
  ASSUME SettlementAssumption,
         Orderly, OrdersMove, Accounted, NEW p \in Settler, NEW f, R!Goto(p, f),
         \A q \in Proc \ {p} : /\ dirty'[q] = dirty[q]
                               /\ \A r \in DOMAIN dirty[q] : db'[r] = db[r],
         \A q \in Settler \ {p} : work[q].pc \in Settling /\ work[q].task = "fail" =>
           db'[R!resvRow(work[q].order)] = db[R!resvRow(work[q].order)],
         Backed', SellerOK(p)'
  PROVE  Accounted'
<1>1. (\A q \in Settler \ {p} : work'[q] = work[q]) /\ due' = due
  BY FrameMoves DEF Orderly
<1>2. \A q \in Settler \ {p} : SellerOK(q)'
  BY <1>1, KeepSeller, Settlers DEF Accounted
<1> QED
  BY <1>1, <1>2 DEF Accounted

(* The end of a settlement, with what it publishes.                        *)
LEMMA SettledAccounts ==
  ASSUME SettlementAssumption,
         Undisputed, Orderly, OrdersMove, Accounted, NEW p \in Settler, NEW f, R!Goto(p, f),
         work[p].pc = "finish", Settled(p),
         \A v \in Variant : db'[R!stockRow(v)] = R!Read(p, R!stockRow(v)),
         \A q \in Proc \ {p} : /\ dirty'[q] = dirty[q]
                               /\ \A r \in DOMAIN dirty[q] : db'[r] = db[r],
         SellerOK(p)'
  PROVE  Accounted'
<1>1. Backed'
  BY SettledBacked
<1>2. ASSUME NEW q \in Settler \ {p}, work[q].pc \in Settling, work[q].task = "fail"
      PROVE  db'[R!resvRow(work[q].order)] = db[R!resvRow(work[q].order)]
  <2>1. work[p].pc \in Settling
    BY DEF Settling
  <2>2. work[q].order \in Order /\ work[q].order # work[p].order
    BY <1>2, <2>1, FailsAlone, AtHand
  <2> QED
    BY <2>2 DEF Settled
<1> QED
  BY <1>1, <1>2, CommitAccounts

(* TransitionOrderStatus, RecordTransition and COMMIT of a webhook.        *)
LEMMA FinishAccounts ==
  ASSUME SettlementAssumption, Undisputed, Orderly, Accounted, NEW h \in Hook, R!Finish(h)
  PROVE  Accounted'
<1> DEFINE o == work[h].order
           moved == R!Transition(h, o)
           noted == R!RecordTransition(o, R!From(h), R!To(h))
           rows == R!Together(moved, noted)
<1>1. h \in Settler /\ work[h].pc = "finish" /\ R!CommitWith(h, rows) /\ R!Goto(h, R!Idle)
  BY DEF R!Finish, Settler
<1>2. o \in Order
  BY <1>1, AtHand DEF Settling
<1>3. DOMAIN moved \subseteq {R!orderRow(o)} /\ DOMAIN noted = {R!auditRow(o)}
  <2>1. DOMAIN moved = {R!orderRow(o)} \/ DOMAIN moved = {}
    BY OneWrite DEF R!Transition
  <2>2. DOMAIN noted = {R!auditRow(o)}
    BY OneWrite DEF R!RecordTransition
  <2> QED
    BY <2>1, <2>2
<1> HIDE DEF moved, noted
<1>4. DOMAIN rows \subseteq {R!orderRow(o), R!auditRow(o)}
  BY <1>3 DEF R!Together
<1> HIDE DEF rows
<1>5. /\ \A v \in Variant : db'[R!stockRow(v)] = R!Read(h, R!stockRow(v))
      /\ \A q \in Proc \ {h} : /\ dirty'[q] = dirty[q]
                               /\ \A r \in DOMAIN dirty[q] : db'[r] = db[r]
  BY <1>1, <1>2, <1>4, StockPublished
<1>6. SellerOK(h)'
  BY <1>1, FrameMoves, AtRest DEF Orderly
<1> QED
  BY <1>1, <1>5, <1>6, FinishKeeps, SettledAccounts

(* The job's transaction commits what it wrote, and goes on.               *)
LEMMA FinishOrderAccounts ==
  ASSUME SettlementAssumption, Undisputed, Orderly, Accounted, NEW j \in Jobs, R!FinishOrder(j)
  PROVE  Accounted'
<1> DEFINE o == work[j].order
           rows == R!RecordTransition(o, R!From(j), R!To(j))
           f == [R!Idle EXCEPT !.pc = "next", !.list = work[j].list]
<1>1. j \in Settler /\ work[j].pc = "finish" /\ R!CommitWith(j, rows) /\ R!Goto(j, f)
  BY DEF R!FinishOrder, Settler
<1>2. o \in Order /\ work[j].list \in SUBSET MayExpire
  BY <1>1, AtHand DEF Settling, Accounted, SellerOK, ActsFor
<1>3. DOMAIN rows \subseteq {R!orderRow(o), R!auditRow(o)}
  <2>1. DOMAIN rows = {R!auditRow(o)}
    BY OneWrite DEF R!RecordTransition
  <2> QED
    BY <2>1
<1> HIDE DEF rows
<1>4. /\ \A v \in Variant : db'[R!stockRow(v)] = R!Read(j, R!stockRow(v))
      /\ \A q \in Proc \ {j} : /\ dirty'[q] = dirty[q]
                               /\ \A r \in DOMAIN dirty[q] : db'[r] = db[r]
  BY <1>1, <1>2, <1>3, StockPublished
<1>5. SellerOK(j)'
  <2>1. work'[j] = f
    BY <1>1, FrameMoves DEF Orderly
  <2> QED
    BY <1>2, <2>1, OnTheList
<1> HIDE DEF f
<1> QED
  BY <1>1, <1>4, <1>5, FinishOrderKeeps, SettledAccounts

(* An event with nothing to do is recorded; the others are acted on.       *)
LEMMA LookupAccounts ==
  ASSUME SettlementAssumption, Orderly, Accounted, NEW h \in Hook, R!Lookup(h)
  PROVE  Accounted'
<1> DEFINE e == work[h].event
           o == work[h].order
<1>1. /\ h \in Settler /\ e.order = o /\ work[h].pc = "lookup"
      /\ \A r \in DOMAIN dirty[h] : r[1] = "event"
  BY LookupReads DEF R!Lookup
<1>2. OrdersMove
  BY LookupKeeps
<1>3. CASE R!Concerned(h, e, R!Status(h, o))
  <2>1. R!NoStatement /\ R!Begun(h, e, R!TaskFor(e, R!Status(h, o)))
    BY <1>1, <1>3 DEF R!Lookup
  <2>2. PICK f : R!Goto(h, f)
    BY <2>1 DEF R!Begun
  <2>3. SellerOK(h)'
    BY <1>1, <1>3, <2>1, BegunAccounts
  <2>4. db' = db /\ dirty' = dirty
    BY <2>1 DEF R!NoStatement
  <2> QED
    BY <1>1, <1>2, <2>2, <2>3, <2>4, StepAccounts
<1>4. CASE ~R!Concerned(h, e, R!Status(h, o))
  <2>1. R!CommitWith(h, R!NoWrites) /\ R!Goto(h, R!Idle)
    BY <1>1, <1>4 DEF R!Lookup, R!Commit
  <2>2. /\ \A r \in R!Row : db'[r] = IF r \in DOMAIN R!NoWrites THEN R!NoWrites[r] ELSE R!Read(h, r)
        /\ \A q \in Proc \ {h} : /\ dirty'[q] = dirty[q]
                                 /\ \A r \in DOMAIN dirty[q] : db'[r] = db[r]
    BY <1>1, <2>1, OneWrite, Settlers, PublishedRows DEF Orderly
  <2>3. \A r \in R!Row : r[1] # "event" => db'[r] = db[r]
    BY <1>1, <2>2, OneWrite DEF R!Read
  <2>4. /\ \A x \in Order : db'[R!orderRow(x)] = db[R!orderRow(x)] /\ db'[R!resvRow(x)] = db[R!resvRow(x)]
        /\ \A v \in Variant : db'[R!stockRow(v)] = db[R!stockRow(v)]
    BY <2>3, TableNames, TablesThere
  <2>5. Backed'
    <3>1. Promising' = Promising /\ Lines' = Lines
      BY <2>4 DEF Promising, R!Holding, R!Sold, Lines, R!Item
    <3>2. \A v : R!Promised(Promising, v)' = R!Promised(Promising, v)
      BY <3>1 DEF R!Promised, Lines
    <3> QED
      BY <2>4, <3>2 DEF Accounted, Backed
  <2>6. SellerOK(h)'
    BY <1>1, <2>1, FrameMoves, AtRest DEF Orderly
  <2>7. \A q \in Settler : work[q].pc \in Settling =>
          db'[R!resvRow(work[q].order)] = db[R!resvRow(work[q].order)]
    BY <2>4, AtHand
  <2> QED
    BY <1>1, <1>2, <2>1, <2>2, <2>5, <2>6, <2>7, CommitAccounts
<1> QED
  BY <1>3, <1>4

(* A new order takes its units off the shelf.                              *)
LEMMA ConfirmTxAccounts ==
  ASSUME SettlementAssumption,
         Orderly, Accounted, NEW plan \in Plan, R!ConfirmTx(plan[1], plan[2], plan[3])
  PROVE  Accounted'
<1>1. PICK o \in Order, lines \in [Variant -> 0..MaxQty], c \in Coupon \cup {NoCoupon} :
        o = plan[1] /\ lines = plan[2] /\ c = plan[3]
  BY DEF SettlementAssumption, R!PlanAssumption
<1> DEFINE rows == NewRows(o, lines, c)
<1>2. /\ db[R!orderRow(o)].status = "none" /\ \A v \in Variant : db[R!stockRow(v)].available >= lines[v]
      /\ R!CommitWith(Shop, rows) /\ UNCHANGED <<work, due>>
  BY <1>1 DEF R!ConfirmTx, NewRows
<1>3. /\ DOMAIN rows = {R!orderRow(o), R!resvRow(o), R!chargeRow(o), R!auditRow(o)}
                         \cup {R!stockRow(v) : v \in {w \in Variant : lines[w] > 0}}
                         \cup {R!couponRow(d) : d \in {c} \cap Coupon}
      /\ rows[R!orderRow(o)] = [status |-> "pending_payment", item |-> lines, coupon |-> c]
      /\ \A v \in Variant : lines[v] > 0 =>
           rows[R!stockRow(v)] = R!ReserveStock(db[R!stockRow(v)], lines[v])
  BY ConfirmWrites
<1>4. /\ Orderly' /\ OrdersMove /\ dirty' = dirty
      /\ \A r \in R!Row : db'[r] = IF r \in DOMAIN rows THEN rows[r] ELSE db[r]
  BY <1>1, NewOrderKeeps
<1> HIDE DEF rows
<1>5. DOMAIN rows \subseteq R!Row
  BY <1>1, <1>3, TablesThere
<1>6. \A q \in Settler : \A r \in DOMAIN dirty[q] : db'[r] = db[r]
  BY <1>2, <1>5, ShopStep
<1>7. ASSUME NEW x \in Order \ {o}
      PROVE  db'[R!orderRow(x)] = db[R!orderRow(x)] /\ db'[R!resvRow(x)] = db[R!resvRow(x)]
  <2>1. R!orderRow(x) \notin DOMAIN rows /\ R!resvRow(x) \notin DOMAIN rows
    BY <1>3, TableNames
  <2> QED
    BY <1>4, <2>1, TablesThere
<1>8. R!Item(o)' = lines
  <2>1. db'[R!orderRow(o)] = rows[R!orderRow(o)]
    BY <1>1, <1>3, <1>4, TablesThere
  <2> QED
    BY <1>3, <2>1 DEF R!Item
<1>9. o \notin Promising
  BY <1>2 DEF Orderly, OrderOK, Promising, R!Holding, R!Sold
<1>10. ASSUME NEW v \in Variant
       PROVE  /\ db'[R!stockRow(v)] \in StockRecord
              /\ db'[R!stockRow(v)].available + lines[v] = db[R!stockRow(v)].available
  <2>1. lines[v] \in Nat /\ db[R!stockRow(v)] \in StockRecord
    BY <1>1 DEF SettlementAssumption, R!PlanAssumption, Accounted, Backed
  <2>2. CASE lines[v] > 0
    <3>1. db'[R!stockRow(v)] = R!ReserveStock(db[R!stockRow(v)], lines[v])
      BY <1>3, <1>4, <2>2, TablesThere
    <3> QED
      BY <2>1, <3>1 DEF R!ReserveStock, StockRecord
  <2>3. CASE ~(lines[v] > 0)
    <3>1. R!stockRow(v) \notin DOMAIN rows
      BY <1>3, <2>3, TableNames
    <3>2. db'[R!stockRow(v)] = db[R!stockRow(v)]
      BY <1>4, <3>1, TablesThere
    <3> QED
      BY <2>1, <2>3, <3>2 DEF StockRecord
  <2> QED
    BY <2>2, <2>3
<1>11. LinesOK(Lines)'
  BY <1>4 DEF Orderly, OrderOK, OrderRecord, R!Item, LinesOK, Lines
<1>12. Backed'
  <2>1. ASSUME NEW v \in Variant
        PROVE  /\ db'[R!stockRow(v)] \in StockRecord
               /\ db'[R!stockRow(v)].available + (IF o \in Promising' THEN R!Item(o)'[v] ELSE 0)
                    <= db[R!stockRow(v)].available + (IF o \in Promising THEN R!Item(o)'[v] ELSE 0)
    <3>1. lines[v] \in Nat /\ db'[R!stockRow(v)] \in StockRecord /\ db[R!stockRow(v)] \in StockRecord
      BY <1>1, <1>10 DEF SettlementAssumption, R!PlanAssumption, Accounted, Backed
    <3>2. db'[R!stockRow(v)].available \in Int /\ db[R!stockRow(v)].available \in Int
      BY <3>1 DEF StockRecord
    <3> DEFINE a == db[R!stockRow(v)].available
               b == db'[R!stockRow(v)].available
               stays == o \in Promising'
    <3>3. b + (IF stays THEN lines[v] ELSE 0) <= a
      <4>1. b + lines[v] = a
        BY <1>10
      <4> HIDE DEF a, b, stays
      <4>2. a \in Int /\ b \in Int
        BY <3>2 DEF a, b
      <4> QED
        BY <3>1, <4>1, <4>2
    <3>4. a + 0 = a
      BY <3>2
    <3> QED
      BY <1>8, <1>9, <3>1, <3>3, <3>4
  <2> QED
    BY <1>7, <1>9, <1>11, <2>1, StillBacked
<1>13. ASSUME NEW q \in Settler
       PROVE  SellerOK(q)'
  <2>1. work[q].pc \in Settling => db'[R!resvRow(work[q].order)] = db[R!resvRow(work[q].order)]
    <3>1. work[q].pc \in Settling => work[q].order \in Order /\ work[q].order # o
      BY <1>2, AtHand DEF SettlingOK
    <3> QED
      BY <1>7, <3>1
  <2>2. work'[q] = work[q] /\ dirty'[q] = dirty[q]
    BY <1>2, <1>4
  <2> QED
    BY <1>4, <1>6, <2>1, <2>2, KeepSeller DEF Accounted
<1> QED
  BY <1>2, <1>12, <1>13 DEF Accounted

(* Steps that change no row and no frame.                                  *)
LEMMA NothingAccounts ==
  ASSUME SettlementAssumption,
         Orderly, Accounted, UNCHANGED <<db, dirty, work>>, due' \subseteq MayExpire
  PROVE  Accounted'
<1>1. db' = db /\ dirty' = dirty /\ work' = work
  OBVIOUS
<1>2. OrdersMove
  BY NothingMoves DEF SettlementAssumption, R!OrderAssumption
<1>3. \A q \in Settler : SellerOK(q)'
  BY <1>1, <1>2, KeepSeller DEF Accounted
<1>4. Backed'
  BY <1>1 DEF Accounted, Backed, R!Promised, R!Item, Promising, R!Holding, R!Sold
<1> QED
  BY <1>3, <1>4 DEF Accounted

(* Initially all units are on the shelf.                                   *)
LEMMA AllOnTheShelf ==
  ASSUME SettlementAssumption
  PROVE  R!Init => Accounted
<1> SUFFICES ASSUME R!Init PROVE Accounted
  OBVIOUS
<1>1. Orderly
  BY NoOrdersYet
<1>2. \A o \in Order : db[R!orderRow(o)] = R!NoOrder /\ db[R!resvRow(o)] = "none"
  <2>1. ASSUME NEW r \in R!Row, r[1] # "stock"
        PROVE  db[r] = R!Empty[r[1]]
    BY <2>1 DEF R!Init
  <2>2. \A o \in Order : db[R!orderRow(o)] = R!Empty.order /\ db[R!resvRow(o)] = R!Empty.resv
    BY <2>1, TableNames, TablesThere
  <2> QED
    BY <2>2 DEF R!Empty
<1>3. Promising = {}
  BY <1>2 DEF Promising, R!Holding, R!Sold, R!NoOrder
<1>4. ASSUME NEW v \in Variant
      PROVE  /\ db[R!stockRow(v)] \in StockRecord
             /\ db[R!stockRow(v)].available + R!Promised(Promising, v) <= InitStock[v]
  <2>1. InitStock[v] \in Nat
    BY DEF SettlementAssumption, R!StockAssumption
  <2>2. db[R!stockRow(v)] = [available |-> InitStock[v], reserved |-> 0]
    <3>1. R!stockRow(v) \in R!Row /\ R!stockRow(v)[1] = "stock" /\ R!stockRow(v)[2] = v
      BY TablesThere DEF R!stockRow
    <3> QED
      BY <3>1 DEF R!Init
  <2>3. R!Promised(Promising, v) = 0
    <3>1. R!Units(Lines, Promising, v) = {}
      BY <1>3 DEF R!Units
    <3> QED
      BY <3>1, ShareOf, FS_EmptySet
  <2> QED
    BY <2>1, <2>2, <2>3 DEF StockRecord
<1>5. ASSUME NEW p \in Settler
      PROVE  SellerOK(p)
  <2>1. work[p] = R!Idle
    BY DEF R!Init, Settler
  <2>2. work[p].pc = "idle" /\ work[p].list = {}
    BY <2>1 DEF R!Idle
  <2> QED
    BY <2>2 DEF SellerOK, ActsFor, Settling
<1>6. due \subseteq MayExpire
  BY DEF R!Init
<1> QED
  BY <1>4, <1>5, <1>6 DEF Accounted, Backed

(* Every step keeps the accounts, when no order is disputed.               *)
LEMMA NextAccounts ==
  ASSUME SettlementAssumption, Undisputed, Orderly, Accounted, R!Next
  PROVE  Accounted'
<1>1. ASSUME NEW h \in Hook, NEW e \in Event, R!Deliver(h, e) PROVE Accounted'
  BY <1>1, DeliverAccounts
<1>2. ASSUME NEW h \in Hook, R!HookStep(h) PROVE Accounted'
  BY <1>2, LookupAccounts, ReserveAgainAccounts, SetChargeAccounts, FinishAccounts DEF R!HookStep
<1>3. ASSUME NEW j \in Jobs, R!JobStep(j) PROVE Accounted'
  BY <1>3, NextOrderAccounts, ExpireOrderAccounts, FinishOrderAccounts DEF R!JobStep
<1>4. ASSUME NEW p \in Settler, R!Shared(p) PROVE Accounted'
  BY <1>4, ListAccounts, ResolveStockAccounts, MarkAccounts, GiveBackAccounts DEF R!Shared
<1>5. ASSUME NEW p \in Settler, R!Abort(p) PROVE Accounted'
  BY <1>5, AbortAccounts
<1>6. ASSUME NEW j \in Jobs, R!Tick(j) PROVE Accounted'
  BY <1>6, TickAccounts
<1>7. ASSUME NEW plan \in Plan, R!ConfirmTx(plan[1], plan[2], plan[3]) PROVE Accounted'
  BY <1>7, ConfirmTxAccounts
<1>8. ~ \E v \in Variant, n \in StockLevel : R!SetStock(v, n)
  BY DEF Undisputed
<1>9. ASSUME NEW o \in MayExpire, R!ReservationDue(o) PROVE Accounted'
  <2>1. UNCHANGED <<db, dirty, work>> /\ due' \subseteq MayExpire
    BY <1>9 DEF R!ReservationDue, Accounted
  <2> QED
    BY <2>1, NothingAccounts
<1> QED
  BY <1>1, <1>2, <1>3, <1>4, <1>5, <1>6, <1>7, <1>8, <1>9 DEF R!Next, Settler

(* The units of an order that is held are not those of one that is sold.   *)
LEMMA AccountsShow ==
  ASSUME SettlementAssumption, Orderly, Accounted
  PROVE  NoOversell
<1>1. R!Holding \subseteq Order /\ R!Sold \subseteq Order /\ R!Holding \cap R!Sold = {}
  BY DEF Orderly, OrderOK, R!Holding, R!Sold
<1> SUFFICES ASSUME NEW v \in Variant
             PROVE  db[R!stockRow(v)].available + R!Promised(R!Holding, v) + R!Promised(R!Sold, v) <= InitStock[v]
  BY SameRows DEF NoOversell
<1>2. /\ R!Promised(Promising, v) = R!Promised(R!Holding, v) + R!Promised(R!Sold, v)
      /\ R!Promised(R!Holding, v) \in Nat /\ R!Promised(R!Sold, v) \in Nat
  <2> HIDE DEF R!Holding, R!Sold
  <2>1. R!Promised(R!Holding \cup R!Sold, v) = R!Promised(R!Holding, v) + R!Promised(R!Sold, v)
    BY <1>1, UnitsUnion, ShareOf
  <2>2. R!Promised(R!Holding, v) \in Nat /\ R!Promised(R!Sold, v) \in Nat
    BY <1>1, UnitsFinite, ShareOf
  <2> QED
    BY <2>1, <2>2 DEF Promising
<1>3. /\ db[R!stockRow(v)].available \in Int /\ InitStock[v] \in Nat
      /\ db[R!stockRow(v)].available + R!Promised(Promising, v) <= InitStock[v]
  BY DEF SettlementAssumption, R!StockAssumption, Accounted, Backed, StockRecord
<1> QED
  BY <1>2, <1>3

(* No unit is promised twice, whatever payments, retries and job ticks     *)
(* race, when a failed payment is all that its order hears.                *)
THEOREM NothingSoldTwice ==
  ASSUME SettlementAssumption
  PROVE  Undisputed => (R!Spec => []NoOversell)
<1>1. ASSUME Undisputed, Orderly, Accounted, [R!Next]_(R!vars)
      PROVE  Accounted'
  <2>1. ASSUME UNCHANGED R!vars
        PROVE  Accounted'
    BY <1>1, <2>1, NothingAccounts DEF R!vars, Accounted
  <2> QED
    BY <1>1, <2>1, NextAccounts
<1>2. Orderly /\ Accounted => NoOversell
  BY AccountsShow
<1>3. Undisputed /\ Orderly /\ Accounted /\ [R!Next]_(R!vars) => Accounted'
  BY <1>1
<1>4. ASSUME Undisputed
      PROVE  R!Spec => []NoOversell
  <2>1. Orderly /\ Accounted /\ [R!Next]_(R!vars) => Accounted'
    BY <1>3, <1>4
  <2> QED
    BY <1>2, <2>1, AllOnTheShelf, OrdersAreConsistent, PTL DEF R!Spec
<1> QED
  BY <1>4
===============================================================================
