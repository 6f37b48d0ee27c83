------------------------------- MODULE ConfirmRC -------------------------------
(***************************************************************************)
(* POST /checkout/confirm, one SQL statement per step: CheckoutService's   *)
(* checks, then ConfirmTx as a READ COMMITTED transaction over the rows of *)
(* RowStore.  Requests of one user race each other, are retried with the   *)
(* same Idempotency-Key, and race the user's own cart and quote requests   *)
(* and the admin's set-stock, which enter as single steps.                 *)
(***************************************************************************)
EXTENDS OrderRows, FiniteSetsExt, SequencesExt

CONSTANTS
  User, Key, QuoteId,
  CartNo,         \* ids of the carts a user may have, one after the other
  Basket,         \* what a cart may hold: quantities by variant
  Request,        \* [user, key, quote] clients send, any number of times
  Client,         \* HTTP handlers running Confirm
  Shop,           \* the session of the one-step transactions
  MayLapse,       \* quotes and coupons whose expires_at may pass
  MayCrash        \* handlers that may lose their connection at any time

ASSUME ClientAssumption ==
  /\ Proc = Client \cup {Shop} /\ Shop \notin Client
  /\ MayCrash \subseteq Client
ASSUME IdAssumption == Variant \subseteq Nat /\ IsFiniteSet(Variant) /\ CartNo \subseteq Nat \ {0}
ASSUME RequestAssumption ==
  Request \subseteq [user: User, key: Key, quote: QuoteId] /\ "none" \notin User
ASSUME QtyAssumption == /\ MaxQty \in Nat /\ MaxInt \in Nat
                        /\ Basket \subseteq [Variant -> 0..MaxQty]
ASSUME StockAssumption == StockLevel \subseteq 0..MaxInt /\ InitStock \in [Variant -> 0..MaxInt]
ASSUME CouponAssumption == /\ NoCoupon \notin Coupon /\ NoLimit \notin Nat
                           /\ UsageLimit \in [Coupon -> Nat \cup {NoLimit}]

VARIABLES
  at,        \* [Client -> what the handler's Go frame remembers]
  lapsed,    \* quotes and coupons past expires_at
  answers    \* the 201 and replayed answers: <<request, order>>

vars == <<db, dirty, at, lapsed, answers>>

cartRow(u, n)  == <<"cart", u, n>>    \* carts.status
itemsRow(u, n) == <<"items", u, n>>   \* the cart's cart_items
quoteRow(q)    == <<"quote", q>>
keyRow(u, k)   == <<"key", u, k>>

NoOrder == [status |-> "none", user |-> "none", item |-> NoLines, coupon |-> NoCoupon]
NoQuote == [user |-> "none", lines |-> NoLines, coupon |-> NoCoupon]

(* The frame of a handler: its next statement, the request, the order id   *)
(* it minted, the cart it found active, the variants left to reserve, and  *)
(* what was past expires_at at BEGIN, the time now() stands for.           *)
Idle == [pc |-> "idle", request |-> "none", order |-> "none", cart |-> 0,
         todo |-> <<>>, past |-> {}]

Row == {orderRow(o) : o \in Order} \cup {resvRow(o) : o \in Order}
         \cup {chargeRow(o) : o \in Order} \cup {stockRow(v) : v \in Variant}
         \cup {couponRow(c) : c \in Coupon} \cup {quoteRow(q) : q \in QuoteId}
         \cup {keyRow(u, k) : u \in User, k \in Key}
         \cup {cartRow(u, n) : u \in User, n \in CartNo}
         \cup {itemsRow(u, n) : u \in User, n \in CartNo}

Empty == [order |-> NoOrder, resv |-> "none", charge |-> "none", coupon |-> 0,
          quote |-> NoQuote, key |-> {}, cart |-> "none", items |-> NoLines]

Init ==
  /\ db = [r \in Row |-> IF r[1] = "stock" THEN [available |-> InitStock[r[2]], reserved |-> 0]
                                           ELSE Empty[r[1]]]
  /\ dirty = [p \in Proc |-> NoWrites]
  /\ at = [p \in Client |-> Idle]
  /\ lapsed = {}
  /\ answers = {}

(* GetActiveCartByUser: the id of the user's active cart, if there is one. *)
ActiveCart(u) == {n \in CartNo : db[cartRow(u, n)] = "active"}

(* ListCartItems                                                           *)
ListCartItems(u, n) == db[itemsRow(u, n)]

(* GetUserQuote: a quote the user owns, expired or not.                    *)
GetUserQuote(q, u) == {quote \in {db[quoteRow(q)]} : quote.user = u}

(* GetIdempotencyKey: the stored response, if there is one.                *)
GetIdempotencyKey(u, k) == db[keyRow(u, k)]

(* What the INSERTs and UPDATEs write.                                     *)
CreateOrder(u, coupon) ==
  [status |-> "pending_payment", user |-> u, item |-> NoLines, coupon |-> coupon]

CreateOrderItems(order, lines) == [order EXCEPT !.item = lines]

CreateReservation(o) == Only(resvRow(o), "held")

SetCartStatus(u, n, status) == Only(cartRow(u, n), status)

CreateCharge(o) == Only(chargeRow(o), "pending")

PutIdempotencyKey(r, o) == Only(keyRow(r.user, r.key), {[quote |-> r.quote, order |-> o]})

CreateQuote(q, u, lines, c) == Only(quoteRow(q), [user |-> u, lines |-> lines, coupon |-> c])

Goto(p, frame) == at' = [at EXCEPT ![p] = frame] /\ UNCHANGED <<lapsed, answers>>

(* An answer other than 4xx and 5xx leaves the handler.                    *)
Answer(p, request, o) ==
  /\ answers' = answers \cup {<<request, o>>}
  /\ at' = [at EXCEPT ![p] = Idle]
  /\ UNCHANGED lapsed

(* A 4xx or 5xx answer: the deferred Rollback undoes the transaction.      *)
Refuse(p) == Rollback(p) /\ Goto(p, Idle)

-------------------------------------------------------------------------------
(* CheckoutService.Confirm                                                 *)

(* Idempotency.Lookup: the key is stored for this request, or for another. *)
Replay(r)   == {hit \in GetIdempotencyKey(r.user, r.key) : hit.quote = r.quote}
Conflict(r) == GetIdempotencyKey(r.user, r.key) \ Replay(r) # {}

(* The stored order, 409 for a conflict, or on to the checks.              *)
Confirm(p, r) ==
  /\ at[p].pc = "idle"
  /\ NoStatement
  /\ ~Conflict(r)
  /\ \/ \E hit \in Replay(r) : Answer(p, r, hit.order)
     \/ Replay(r) = {} /\ Goto(p, [Idle EXCEPT !.pc = "checks", !.request = r])

(* CartReader.ActiveCart: the active cart's lines, if there is a cart.     *)
CartView(u) == {ListCartItems(u, n) : n \in ActiveCart(u)}

(* GetUserQuote, its expiry, and the active cart against the fingerprint,  *)
(* which tells two different carts apart: "variant:quantity" for each row, *)
(* sorted.                                                                 *)
CartMatches(u, lines) == lines \in CartView(u)

QuoteHonoured(r) ==
  \E q \in GetUserQuote(r.quote, r.user) :
    r.quote \notin lapsed /\ CartMatches(r.user, q.lines)

Checks(p) ==
  /\ at[p].pc = "checks"
  /\ IF QuoteHonoured(at[p].request)
       THEN NoStatement /\ Goto(p, [at[p] EXCEPT !.pc = "begin"])
       ELSE Refuse(p)

-------------------------------------------------------------------------------
(* ConfirmTx                                                               *)

QuoteOf(p) == db[quoteRow(at[p].request.quote)]     \* never updated

Bought(lines) == {v \in Variant : lines[v] > 0}

ReserveOrdersAny(lines) == SetToSeqs(Bought(lines))   \* variant: the quote's own order

(* The orders in which the variants may be reserved: ascending, rule I2.   *)
ReserveOrders(lines) ==
  {vs \in SetToSeqs(Bought(lines)) : \A i, j \in DOMAIN vs : i < j => vs[i] < vs[j]}

(* The order once its CreateOrderItem, one for each line, are in: the      *)
(* inserts follow in the same transaction, under an id no other knows.     *)
OrderWithItems(q) == CreateOrderItems(CreateOrder(q.user, q.coupon), q.lines)

(* BEGIN; the cart guard reads the active cart without locking it; the     *)
(* order is inserted under the id the service minted, with its items.      *)
Begin(p) ==
  LET q == QuoteOf(p) IN
  /\ at[p].pc = "begin"
  /\ \/ /\ ActiveCart(at[p].request.user) = {}
        /\ Refuse(p)
     \/ \E n \in ActiveCart(at[p].request.user), o \in Order,
           todo \in ReserveOrders(q.lines) :
          /\ db[orderRow(o)] = NoOrder
          /\ \A c \in Client : at[c].order # o
          /\ Write(p, Together(Only(orderRow(o), OrderWithItems(q)), CreateReservation(o)))
          /\ Goto(p, [at[p] EXCEPT !.pc = "reserve", !.order = o, !.cart = n,
                        !.todo = todo, !.past = lapsed])

(* UPDATE ... WHERE available >= qty; an INT that overflows fails it.      *)
Enough(s, q) == s.available >= q /\ s.reserved + q <= MaxInt

(* ReserveStock for the next line.                                         *)
ReserveLine(p) ==
  LET v == Head(at[p].todo)  s == Read(p, stockRow(v))  q == QuoteOf(p).lines[v] IN
  /\ at[p].pc = "reserve"
  /\ Unlocked(p, stockRow(v))
  /\ IF Enough(s, q)
       THEN /\ Write(p, Only(stockRow(v), ReserveStock(s, q)))
            /\ Goto(p, [at[p] EXCEPT !.todo = Tail(@),
                  !.pc = IF Len(at[p].todo) > 1 THEN "reserve"
                         ELSE IF QuoteOf(p).coupon # NoCoupon THEN "coupon" ELSE "cart"])
       ELSE Refuse(p)

RedeemableAtLimit(c, used, past) ==   \* variant: off by one
  /\ c \notin past
  /\ UsageLimit[c] # NoLimit => used <= UsageLimit[c]

(* RedeemCoupon: UPDATE ... WHERE active AND below the limit AND not       *)
(* expired at now(), when the transaction began (C4).                      *)
Redeemable(c, used, past) ==
  /\ c \notin past
  /\ UsageLimit[c] # NoLimit => used < UsageLimit[c]

RedeemCoupon(p) ==
  LET c == QuoteOf(p).coupon  used == Read(p, couponRow(c)) IN
  /\ at[p].pc = "coupon"
  /\ Unlocked(p, couponRow(c))
  /\ IF Redeemable(c, used, at[p].past)
       THEN Write(p, Only(couponRow(c), used + 1)) /\ Goto(p, [at[p] EXCEPT !.pc = "cart"])
       ELSE Refuse(p)

(* SetCartStatus, by id, whatever the cart's status; then CreateCharge.    *)
ConvertCart(p) ==
  /\ at[p].pc = "cart"
  /\ Write(p, Together(SetCartStatus(at[p].request.user, at[p].cart, "converted"),
                       CreateCharge(at[p].order)))
  /\ Goto(p, [at[p] EXCEPT !.pc = "key"])

KeyOverwritten(p) == TRUE   \* variant: ON CONFLICT DO UPDATE

(* No committed response holds the (user, key) of p's request.             *)
KeyFree(p) == Read(p, keyRow(at[p].request.user, at[p].request.key)) = {}

(* PutIdempotencyKey: the insert waits for a transaction that inserted the *)
(* same (user, key) and fails when it has committed; RecordTransition and  *)
(* COMMIT follow.  The stored response names the order.  The client may    *)
(* not see the answer: the commit stands.                                  *)
ClaimKey(p) ==
  LET r == at[p].request  k == keyRow(r.user, r.key) IN
  /\ at[p].pc = "key"
  /\ Unlocked(p, k)
  /\ IF KeyFree(p)
       THEN /\ CommitWith(p, PutIdempotencyKey(r, at[p].order))
            /\ Answer(p, r, at[p].order) \/ (p \in MayCrash /\ Goto(p, Idle))
       ELSE Refuse(p)

(* The row whose lock the next statement of p needs, if any.               *)
Wants(p) ==
  LET r == at[p].request IN
  CASE at[p].pc = "reserve" -> {stockRow(Head(at[p].todo))}
    [] at[p].pc = "coupon"  -> {couponRow(QuoteOf(p).coupon)}
    [] at[p].pc = "cart"    -> {cartRow(r.user, at[p].cart)}
    [] at[p].pc = "key"     -> {keyRow(r.user, r.key)}
    [] OTHER -> {}

(* A connection lost or a deadlock broken before COMMIT.                   *)
Abort(p) ==
  /\ p \in MayCrash \/ Victim(p, [c \in Client |-> Wants(c)])
  /\ at[p].pc # "idle"
  /\ Refuse(p)

-------------------------------------------------------------------------------
(* One-step requests of other handlers                                     *)

Shopping == UNCHANGED <<at, lapsed, answers>>

(* POST /checkout/quote: the lines of the active cart, if it has any, with *)
(* a coupon that was valid then.  A quote is written once.                 *)
Quote(q, u, c) ==
  /\ db[quoteRow(q)] = NoQuote
  /\ c # NoCoupon => Redeemable(c, db[couponRow(c)], lapsed)
  /\ \E lines \in CartView(u) \ {NoLines} :
       CommitWith(Shop, CreateQuote(q, u, lines, c))
  /\ Shopping

(* The cart's item requests: they find the active cart, or create the next *)
(* one, and write its items, which no confirm locks.                       *)
EditCart(u, lines) ==
  /\ \/ \E n \in ActiveCart(u) : CommitWith(Shop, Only(itemsRow(u, n), lines))
     \/ /\ ActiveCart(u) = {}
        /\ \E n \in CartNo :
             /\ db[cartRow(u, n)] = "none"
             /\ CommitWith(Shop, Together(Only(cartRow(u, n), "active"), Only(itemsRow(u, n), lines)))
  /\ Shopping

SetStock(v, n) ==
  /\ CommitWith(Shop, Only(stockRow(v), [db[stockRow(v)] EXCEPT !.available = n]))
  /\ Shopping

(* Time passes: a quote or a coupon is now past expires_at.                *)
Lapse(x) ==
  /\ lapsed' = lapsed \cup {x}
  /\ UNCHANGED <<db, dirty, at, answers>>

Next ==
  \/ \E p \in Client : \/ \E r \in Request : Confirm(p, r)
                       \/ Checks(p) \/ Begin(p) \/ ReserveLine(p) \/ RedeemCoupon(p)
                       \/ ConvertCart(p) \/ ClaimKey(p) \/ Abort(p)
  \/ \E q \in QuoteId, u \in User, c \in Coupon \cup {NoCoupon} : Quote(q, u, c)
  \/ \E u \in User, lines \in Basket : EditCart(u, lines)
  \/ \E v \in Variant, n \in StockLevel : SetStock(v, n)
  \/ \E x \in MayLapse : Lapse(x)

Spec == Init /\ [][Next]_vars

-------------------------------------------------------------------------------
(* The committed rows, read as the tables of Settlement.  A coupon may     *)
(* expire between BEGIN and COMMIT, so its expiry is left out.             *)
S == INSTANCE Settlement WITH
  order     <- [o \in Order |-> db[orderRow(o)].status],
  item      <- [o \in Order |-> db[orderRow(o)].item],
  couponOf  <- [o \in Order |-> db[orderRow(o)].coupon],
  resv      <- [o \in Order |-> db[resvRow(o)]],
  charge    <- [o \in Order |-> db[chargeRow(o)]],
  available <- [v \in Variant |-> db[stockRow(v)].available],
  reserved  <- [v \in Variant |-> db[stockRow(v)].reserved],
  used      <- [c \in Coupon |-> db[couponRow(c)]],
  lapsed    <- {},
  seen      <- {},
  due       <- {},
  audit     <- {<<o, "none", "pending_payment">> :
                  o \in {x \in Order : db[orderRow(x)].status # "none"}}

(* Whatever confirms race, crash or fall short, what they commit is what   *)
(* ConfirmTx of Settlement does in one step: all of an order or nothing,   *)
(* within the stock and the coupon's limit (I2, I3, C4).                   *)
ImplementsSettlement == S!Spec

(* I5, the retry of a request: every successful answer to a (user, key),   *)
(* first or replayed, before or after a lost one, names the same order,    *)
(* and the key holds it.  No order is without its key: the client that     *)
(* retries finds it.                                                       *)
KeyNamesOneOrder ==
  /\ \A a, b \in answers :
       a[1].user = b[1].user /\ a[1].key = b[1].key => a = b
  /\ \A a \in answers :
       db[keyRow(a[1].user, a[1].key)] = {[quote |-> a[1].quote, order |-> a[2]]}
  /\ \A o \in Order : db[orderRow(o)] # NoOrder =>
       \E k \in Key : \E hit \in db[keyRow(db[orderRow(o)].user, k)] : hit.order = o

(* I2: confirms never deadlock each other: all of them lock variants       *)
(* ascending, then the coupon, the cart and the key.                       *)
ConfirmsNeverDeadlock ==
  \A T \in SUBSET Client : T # {} => ~WaitCycle(T, [c \in Client |-> Wants(c)])

(* The cart guard of ConfirmTx: a cart is converted into one order, so a   *)
(* user has no more orders than converted carts.                           *)
OneOrderPerCart ==
  \A u \in User :
    Cardinality({o \in Order : db[orderRow(o)].user = u})
      <= Cardinality({n \in CartNo : db[cartRow(u, n)] = "converted"})
===============================================================================
