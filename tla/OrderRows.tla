------------------------------- MODULE OrderRows -------------------------------
(***************************************************************************)
(* The rows the transactions of the checkout share: ConfirmRC has the      *)
(* statements that create an order, ReconcileRC those that settle it.      *)
(***************************************************************************)
EXTENDS RowStore, Integers, FiniteSets

CONSTANTS Order, Variant, Coupon, NoCoupon, UsageLimit, NoLimit, MaxQty, MaxInt,
          StockLevel, InitStock, EventId, Event

orderRow(o)  == <<"order", o>>
resvRow(o)   == <<"resv", o>>
chargeRow(o) == <<"charge", o>>      \* the provider's charge id names the order
stockRow(v)  == <<"stock", v>>
couponRow(c) == <<"coupon", c>>

NoLines == [v \in Variant |-> 0]

(* SELECTs: ListOrderItems (never updated, like the order's coupon_code).  *)
Item(o) == db[orderRow(o)].item
Code(o) == db[orderRow(o)].coupon

(* What ReserveStock writes.                                               *)
ReserveStock(s, q) == [available |-> s.available - q, reserved |-> s.reserved + q]

-------------------------------------------------------------------------------
Holding == {o \in Order : db[resvRow(o)] = "held"}
Sold    == {o \in Order : db[orderRow(o)].status = "paid"}

(* One element for each unit of v in the lines of the orders in S.         *)
Units(lines, S, v) == {u \in S \X (1..MaxQty) : u[2] <= lines[u[1]][v]}
Promised(S, v)     == Cardinality(Units([o \in Order |-> Item(o)], S, v))

(* Units on the shelf, held by an order and sold are never more than there *)
(* were: no unit is promised twice, though the counter `reserved` may lose *)
(* some when two payments of an order commit its units.  A failure that    *)
(* races a payment does break it: its units go back on the shelf.          *)
NoOversell ==
  \A v \in Variant :
    db[stockRow(v)].available + Promised(Holding, v) + Promised(Sold, v) <= InitStock[v]

(* I6: a reservation leaves 'held' at most once.                           *)
ReservationsResolveOnce ==
  [][\A o \in Order : db'[resvRow(o)] # db[resvRow(o)] =>
        db[resvRow(o)] \in {"none", "held"}]_db
===============================================================================
