------------------------------ MODULE Settlement ------------------------------
(***************************************************************************)
(* The settlement core of the shop: an order, the stock it reserves, the   *)
(* coupon it redeems and the charge that pays for it, from the confirm     *)
(* transaction that creates them to the webhook or the release job that    *)
(* resolves them.  Every database transaction is ONE step here: this is    *)
(* what section 5 of the phase-3a design promises.  ReconcileRC and        *)
(* ConfirmRC split the same transactions into the statements Postgres runs *)
(* and say when the promise is kept.                                       *)
(*                                                                         *)
(* Tables: orders (order, item, couponOf), inventory_stock (available,     *)
(* reserved), stock_reservations (resv, due), charges (charge), coupons    *)
(* (used, lapsed), payment_webhook_events (seen), order_status_transitions *)
(* (audit).  inventory_stock.version, which only the admin's set-stock     *)
(* reads, is not part of this module: SetStock here is a write that passed *)
(* its version check.                                                      *)
(***************************************************************************)
EXTENDS Integers, FiniteSets

CONSTANTS
  Order,        \* the order ids confirm may mint
  Variant,      \* the catalog variants with a stock row
  Coupon,       \* coupon codes
  NoCoupon,     \* orders.coupon_code IS NULL
  UsageLimit,   \* coupons.usage_limit, NoLimit where it is NULL
  NoLimit,
  MaxQty,       \* largest quantity of a line (99 in the schema)
  MaxInt,       \* largest value of an INT column
  StockLevel,   \* what the admin sets `available` to
  InitStock,    \* `available` of each variant at the start
  EventId,      \* ids of provider events
  Event         \* events the provider may deliver, each any number of times

OrderStatus == {"pending_payment", "paid", "payment_failed", "expired",
                "paid_awaiting_stock"}
EventType   == {"paid", "failed", "other"}

ASSUME OrderAssumption  == IsFiniteSet(Order)
ASSUME QtyAssumption    == MaxQty \in Nat /\ MaxInt \in Nat
ASSUME StockAssumption  == /\ StockLevel \subseteq 0..MaxInt
                           /\ InitStock \in [Variant -> 0..MaxInt]
ASSUME CouponAssumption == /\ NoCoupon \notin Coupon
                           /\ NoLimit \notin Nat
                           /\ UsageLimit \in [Coupon -> Nat \cup {NoLimit}]
ASSUME EventAssumption  ==
  Event \subseteq [id: EventId, order: Order, type: EventType, exact: BOOLEAN]
ASSUME EventIdAssumption ==     \* a provider event id names one event
  \A e, f \in Event : e.id = f.id => e = f

VARIABLES
  order,      \* status of each order, "none" before it is created
  item,       \* quantity of each variant in the order (order_items)
  couponOf,   \* coupon the order redeemed
  resv,       \* status of the order's reservation rows, which move together
  due,        \* orders whose reservations are past expires_at
  charge,     \* status of the order's charge
  available, reserved,
  used,       \* coupons.used_count
  lapsed,     \* coupons past coupons.expires_at
  seen,       \* event ids recorded in payment_webhook_events
  audit       \* <<order, from, to>> rows of order_status_transitions

stockVars == <<available, reserved>>
orderVars == <<order, item, couponOf, resv, charge, audit>>
vars == <<orderVars, due, stockVars, used, lapsed, seen>>

(* The lines of an order: a quantity for each variant, at least one line.  *)
(* A cart has one row per variant, so a quote has one line per variant.    *)
Lines == {l \in [Variant -> 0..MaxQty] : \E v \in Variant : l[v] > 0}

NoLines == [v \in Variant |-> 0]

Init ==
  /\ order = [o \in Order |-> "none"]
  /\ item = [o \in Order |-> NoLines]
  /\ couponOf = [o \in Order |-> NoCoupon]
  /\ resv = [o \in Order |-> "none"]
  /\ due = {}
  /\ charge = [o \in Order |-> "none"]
  /\ available = InitStock
  /\ reserved = [v \in Variant |-> 0]
  /\ used = [c \in Coupon |-> 0]
  /\ lapsed = {}
  /\ seen = {}
  /\ audit = {}

-------------------------------------------------------------------------------
(* The state machine of ordering/domain/state.go.  The repositories never  *)
(* consult it: they spell the statuses out in guarded UPDATEs.             *)
CanTransition(from, to) ==
  <<from, to>> \in {<<"pending_payment", "paid">>,
                    <<"pending_payment", "payment_failed">>,
                    <<"pending_payment", "expired">>,
                    <<"expired", "paid">>,
                    <<"expired", "paid_awaiting_stock">>}

MoveOrderFromPending(o, from, to) ==   \* variant: the audit row names the wrong status
  /\ order' = [order EXCEPT ![o] = to]
  /\ audit' = audit \cup {<<o, "pending_payment", to>>}

(* UPDATE orders ... and INSERT INTO order_status_transitions, together.   *)
MoveOrder(o, from, to) ==
  /\ order' = [order EXCEPT ![o] = to]
  /\ audit' = audit \cup {<<o, from, to>>}

CanReserveUnguarded(lines) ==   \* variant: no WHERE available >= qty
  \A v \in Variant : reserved[v] + lines[v] <= MaxInt

(* ReserveStock for every line: the conditional decrement that guards      *)
(* against overselling, or no change at all.  INT columns cannot overflow. *)
CanReserve(lines) ==
  \A v \in Variant : /\ available[v] >= lines[v]
                     /\ reserved[v] + lines[v] <= MaxInt

Reserve(lines) ==
  /\ CanReserve(lines)
  /\ available' = [v \in Variant |-> available[v] - lines[v]]
  /\ reserved' = [v \in Variant |-> reserved[v] + lines[v]]

BackedStrictly(v, q) == reserved[v] > q   \* variant: off by one

(* A line's units leave `reserved` only WHERE reserved >= qty; otherwise   *)
(* the UPDATE touches no row and reports no error.                         *)
Backed(v, q) == reserved[v] >= q

(* CommitReservedStock for every line: the units are sold.                 *)
CommitReserved(lines) ==
  /\ reserved' = [v \in Variant |->
       IF Backed(v, lines[v]) THEN reserved[v] - lines[v] ELSE reserved[v]]
  /\ UNCHANGED available

(* ReleaseReservedStock for every line: the units are for sale again.      *)
ReleaseReserved(lines) ==
  /\ \A v \in Variant : Backed(v, lines[v]) => available[v] + lines[v] <= MaxInt
  /\ available' = [v \in Variant |->
       IF Backed(v, lines[v]) THEN available[v] + lines[v] ELSE available[v]]
  /\ reserved' = [v \in Variant |->
       IF Backed(v, lines[v]) THEN reserved[v] - lines[v] ELSE reserved[v]]

(* RedeemCoupon: one conditional UPDATE (C4).                              *)
Redeemable(c) ==
  /\ c \notin lapsed
  /\ UsageLimit[c] # NoLimit => used[c] < UsageLimit[c]

Redeem(c) ==
  IF c = NoCoupon
    THEN UNCHANGED used
    ELSE Redeemable(c) /\ used' = [used EXCEPT ![c] = @ + 1]

(* ReleaseCoupon: one UPDATE ... WHERE used_count > 0.                     *)
GiveBack(c) ==
  IF c # NoCoupon /\ used[c] > 0
    THEN used' = [used EXCEPT ![c] = @ - 1]
    ELSE UNCHANGED used

(* SetReservationStatus: UPDATE ... WHERE order_id = o AND status = 'held' *)
ResolveReservations(o, to) ==
  resv' = [resv EXCEPT ![o] = IF @ = "held" THEN to ELSE @]

-------------------------------------------------------------------------------
(* ConfirmTx that commits: the order, its reservations, its coupon         *)
(* redemption and its pending charge appear together.  A shortage of stock *)
(* or of coupon rolls everything back, which is no step.                   *)
ConfirmTx(o, lines, c) ==
  /\ order[o] = "none"
  /\ Reserve(lines)
  /\ Redeem(c)
  /\ item' = [item EXCEPT ![o] = lines]
  /\ couponOf' = [couponOf EXCEPT ![o] = c]
  /\ resv' = [resv EXCEPT ![o] = "held"]
  /\ charge' = [charge EXCEPT ![o] = "pending"]
  /\ MoveOrder(o, "none", "pending_payment")
  /\ UNCHANGED <<due, lapsed, seen>>

(* The webhook's early returns that still commit the event's row: unknown  *)
(* charge, wrong amount, an event type or order status with nothing to do. *)
Ignored(e) ==
  \/ order[e.order] = "none"
  \/ ~e.exact
  \/ e.type = "other"
  \/ e.type = "failed" /\ order[e.order] # "pending_payment"
  \/ e.type = "paid" /\ order[e.order] \notin {"pending_payment", "expired"}

RecordOnly(e) == Ignored(e) /\ UNCHANGED <<orderVars, stockVars, used>>

(* A failed payment of a pending order returns its stock and its coupon.   *)
FailPayment(o) ==
  /\ order[o] = "pending_payment"
  /\ ReleaseReserved(item[o])
  /\ ResolveReservations(o, "released")
  /\ GiveBack(couponOf[o])
  /\ charge' = [charge EXCEPT ![o] = "failed"]
  /\ MoveOrder(o, "pending_payment", "payment_failed")
  /\ UNCHANGED <<item, couponOf>>

PayInTimeOrLate(o) ==   \* variant: an expired order is paid like a pending one
  /\ order[o] \in {"pending_payment", "expired"}
  /\ CommitReserved(item[o])
  /\ ResolveReservations(o, "committed")
  /\ charge' = [charge EXCEPT ![o] = "paid"]
  /\ MoveOrder(o, "pending_payment", "paid")
  /\ UNCHANGED <<item, couponOf, used>>

(* A payment of a pending order sells the units it holds.                  *)
PayInTime(o) ==
  /\ order[o] = "pending_payment"
  /\ CommitReserved(item[o])
  /\ ResolveReservations(o, "committed")
  /\ charge' = [charge EXCEPT ![o] = "paid"]
  /\ MoveOrder(o, "pending_payment", "paid")
  /\ UNCHANGED <<item, couponOf, used>>

PayLateDropping(o) ==   \* variant: without stock, the payment is recorded and forgotten
  /\ order[o] = "expired"
  /\ \/ /\ CanReserve(item[o])
        /\ available' = [v \in Variant |-> available[v] - item[o][v]]
        /\ charge' = [charge EXCEPT ![o] = "paid"]
        /\ UNCHANGED reserved
        /\ MoveOrder(o, "expired", "paid")
     \/ /\ \E v \in Variant : available[v] < item[o][v]
        /\ UNCHANGED <<stockVars, charge, order, audit>>
  /\ UNCHANGED <<item, couponOf, resv, used>>

PayLateUncharged(o) ==   \* variant: the charge is marked paid only with stock
  /\ order[o] = "expired"
  /\ \/ /\ CanReserve(item[o])
        /\ available' = [v \in Variant |-> available[v] - item[o][v]]
        /\ charge' = [charge EXCEPT ![o] = "paid"]
        /\ UNCHANGED reserved
        /\ MoveOrder(o, "expired", "paid")
     \/ /\ \E v \in Variant : available[v] < item[o][v]
        /\ UNCHANGED <<stockVars, charge>>
        /\ MoveOrder(o, "expired", "paid_awaiting_stock")
  /\ UNCHANGED <<item, couponOf, resv, used>>

PayLateReserving(o) ==   \* variant: re-reserved but not committed
  /\ order[o] = "expired"
  /\ charge' = [charge EXCEPT ![o] = "paid"]
  /\ Reserve(item[o])
  /\ MoveOrder(o, "expired", "paid")
  /\ UNCHANGED <<item, couponOf, resv, used>>

(* A payment of an expired order reserves and sells its items again in one *)
(* savepoint, or, when some line falls short, waits for stock (C2).  No    *)
(* reservation row is written and the coupon is not redeemed again.        *)
PayLate(o) ==
  /\ order[o] = "expired"
  /\ charge' = [charge EXCEPT ![o] = "paid"]
  /\ \/ /\ CanReserve(item[o])
        /\ available' = [v \in Variant |-> available[v] - item[o][v]]
        /\ UNCHANGED reserved
        /\ MoveOrder(o, "expired", "paid")
     \/ /\ \E v \in Variant : available[v] < item[o][v]
        /\ UNCHANGED stockVars
        /\ MoveOrder(o, "expired", "paid_awaiting_stock")
  /\ UNCHANGED <<item, couponOf, resv, used>>

(* Apply: a delivery of an event not seen before.  A duplicate delivery    *)
(* changes nothing and is no step.                                         *)
Apply(e) ==
  /\ e.id \notin seen
  /\ seen' = seen \cup {e.id}
  /\ \/ RecordOnly(e)
     \/ ~Ignored(e) /\ e.type = "failed" /\ FailPayment(e.order)
     \/ ~Ignored(e) /\ e.type = "paid" /\ PayInTime(e.order)
     \/ ~Ignored(e) /\ e.type = "paid" /\ PayLate(e.order)
  /\ UNCHANGED <<due, lapsed>>

ReleaseExpiredKeepsCoupon(o) ==   \* variant: the redemption is not given back
  /\ o \in due /\ resv[o] = "held" /\ charge[o] # "paid"
  /\ order[o] = "pending_payment"
  /\ ReleaseReserved(item[o])
  /\ ResolveReservations(o, "released")
  /\ MoveOrder(o, "pending_payment", "expired")
  /\ UNCHANGED <<item, couponOf, charge, used, due, lapsed, seen>>

(* One order of a tick of the release job: pending, past its expiry, and   *)
(* with no paid charge.                                                    *)
ReleaseExpired(o) ==
  /\ o \in due
  /\ resv[o] = "held"
  /\ charge[o] # "paid"
  /\ order[o] = "pending_payment"
  /\ ReleaseReserved(item[o])
  /\ ResolveReservations(o, "released")
  /\ GiveBack(couponOf[o])
  /\ MoveOrder(o, "pending_payment", "expired")
  /\ UNCHANGED <<item, couponOf, charge, due, lapsed, seen>>

(* The admin overwrites `available`, whatever is reserved.                 *)
SetStock(v, n) ==
  /\ available' = [available EXCEPT ![v] = n]
  /\ UNCHANGED <<orderVars, due, reserved, used, lapsed, seen>>

(* Time passes: the order's reservations are now past expires_at.          *)
ReservationDue(o) ==
  /\ resv[o] = "held"
  /\ due' = due \cup {o}
  /\ UNCHANGED <<orderVars, stockVars, used, lapsed, seen>>

(* Time passes: the coupon is now past coupons.expires_at.                 *)
CouponLapses(c) ==
  /\ lapsed' = lapsed \cup {c}
  /\ UNCHANGED <<orderVars, due, stockVars, used, seen>>

Next ==
  \/ \E o \in Order, lines \in Lines, c \in Coupon \cup {NoCoupon} : ConfirmTx(o, lines, c)
  \/ \E e \in Event : Apply(e)
  \/ \E o \in Order : ReleaseExpired(o) \/ ReservationDue(o)
  \/ \E v \in Variant, n \in StockLevel : SetStock(v, n)
  \/ \E c \in Coupon : CouponLapses(c)

Spec == Init /\ [][Next]_vars
-------------------------------------------------------------------------------
(* The types of the columns: stock stays within INT and never below zero   *)
(* (the CHECK constraints), statuses within their enumerations.            *)
TypeOK ==
  /\ order \in [Order -> OrderStatus \cup {"none"}]
  /\ item \in [Order -> [Variant -> 0..MaxQty]]
  /\ couponOf \in [Order -> Coupon \cup {NoCoupon}]
  /\ resv \in [Order -> {"none", "held", "committed", "released"}]
  /\ due \subseteq Order
  /\ charge \in [Order -> {"none", "pending", "paid", "failed"}]
  /\ available \in [Variant -> 0..MaxInt]
  /\ reserved \in [Variant -> 0..MaxInt]
  /\ used \in [Coupon -> Nat]
  /\ lapsed \subseteq Coupon
  /\ seen \subseteq EventId
  /\ audit \subseteq Order \X (OrderStatus \cup {"none"}) \X OrderStatus

(* The three tables that record a payment agree: the status of an order,   *)
(* of its reservations and of its charge tell the same story (spec 6).     *)
Agreement ==
  \A o \in Order : <<order[o], resv[o], charge[o]>> \in
    {<<"none", "none", "none">>,
     <<"pending_payment", "held", "pending">>,
     <<"payment_failed", "released", "failed">>,
     <<"expired", "released", "pending">>,
     <<"paid", "committed", "paid">>,
     <<"paid", "released", "paid">>,
     <<"paid_awaiting_stock", "released", "paid">>}

(* The units of v that the orders in S account for when their lines are    *)
(* `lines`: one element per unit, so that their number is the sum of the   *)
(* quantities.                                                             *)
Units(lines, S, v) == {u \in S \X (1..MaxQty) : u[2] <= lines[u[1]][v]}

Holding == {o \in Order : resv[o] = "held"}
Sold    == {o \in Order : order[o] = "paid"}

(* `reserved` is exactly the sum of the held reservations, so no reserve,  *)
(* commit, release, expiry or failed confirm leaks or double-counts a unit *)
(* and the silent WHERE reserved >= qty guards never bite.                 *)
ReservedBacked ==
  \A v \in Variant : reserved[v] = Cardinality(Units(item, Holding, v))

(* Every unit is available, reserved or sold: only the admin's set-stock   *)
(* changes how many there are.  This is "no oversell, no lost stock".      *)
Stock(v) == available[v] + reserved[v] + Cardinality(Units(item, Sold, v))

StockConserved ==
  [][ \/ \A v \in Variant : Stock(v)' = Stock(v)
      \/ \E v \in Variant, n \in StockLevel : SetStock(v, n) ]_vars

(* used_count is the number of orders holding a redemption and stays       *)
(* within usage_limit (C4): a failed or expired order has given its        *)
(* redemption back exactly once.                                           *)
Redeemers(c) ==
  {o \in Order : couponOf[o] = c /\ resv[o] \in {"held", "committed"}}

CouponCounted ==
  \A c \in Coupon : /\ used[c] = Cardinality(Redeemers(c))
                    /\ UsageLimit[c] # NoLimit => used[c] <= UsageLimit[c]

(* Orders move only along the state machine of ordering/domain/state.go,   *)
(* which the repositories spell out but never consult, and every move      *)
(* leaves its row in the audit trail.                                      *)
ForwardOnly ==
  [][ \A o \in Order : order'[o] # order[o] =>
        /\ \/ CanTransition(order[o], order'[o])
           \/ order[o] = "none" /\ order'[o] = "pending_payment"
        /\ <<o, order[o], order'[o]>> \in audit' ]_vars

(* The audit trail is one path that ends in the order's status: a status   *)
(* is left at most once, and what is recorded as reached is either current *)
(* or recorded as left.                                                    *)
AuditIsAPath ==
  /\ \A s, t \in audit : s[1] = t[1] /\ s[2] = t[2] => s = t
  /\ \A t \in audit : \/ order[t[1]] = t[3]
                      \/ \E s \in audit : s[1] = t[1] /\ s[2] = t[3]

(* C2, "paid always wins": when a verified payment of a pending or expired *)
(* order is recorded as processed, that order is paid or awaits stock.     *)
PaymentNeverDropped ==
  [][ \A e \in Event :
        /\ e.id \notin seen /\ e.id \in seen'
        /\ e.type = "paid" /\ e.exact
        /\ order[e.order] \in {"pending_payment", "expired"}
        => order'[e.order] \in {"paid", "paid_awaiting_stock"} ]_vars

(* No order stays pending: the payment or the release job resolves it.     *)
EveryOrderResolved ==
  \A o \in Order : order[o] = "pending_payment" ~> order[o] # "pending_payment"
===============================================================================
