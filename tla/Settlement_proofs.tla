-------------------------- MODULE Settlement_proofs --------------------------
(***************************************************************************)
(* What the settlement core guarantees for any number of orders, variants, *)
(* coupons and events.                                                     *)
(***************************************************************************)
EXTENDS Settlement, FiniteSetTheorems, TLAPS

(* Giving a redemption back leaves a natural count.                        *)
LEMMA GiveBackType ==
  ASSUME NEW o \in Order, TypeOK, GiveBack(couponOf[o])
  PROVE  used' \in [Coupon -> Nat]
<1>1. couponOf[o] \in Coupon \cup {NoCoupon}
  BY DEF TypeOK
<1>2. CASE couponOf[o] # NoCoupon /\ used[couponOf[o]] > 0
  BY <1>1, <1>2 DEF GiveBack, TypeOK
<1>3. CASE ~(couponOf[o] # NoCoupon /\ used[couponOf[o]] > 0)
  BY <1>3 DEF GiveBack, TypeOK
<1> QED
  BY <1>2, <1>3

(* Columns keep their types; in particular `available` and `reserved`      *)
(* never go negative nor overflow an INT, and coupon counts stay natural.  *)
THEOREM TypeCorrect == Spec => []TypeOK
<1> USE QtyAssumption, StockAssumption, CouponAssumption, EventAssumption
<1>1. Init => TypeOK
  BY DEF Init, TypeOK, NoLines, OrderStatus
<1>2. TypeOK /\ [Next]_vars => TypeOK'
  <2> SUFFICES ASSUME TypeOK, [Next]_vars
               PROVE  TypeOK'
    OBVIOUS
  <2> USE DEF TypeOK, OrderStatus
  <2>1. ASSUME NEW o \in Order, NEW lines \in Lines, NEW c \in Coupon \cup {NoCoupon},
               ConfirmTx(o, lines, c)
        PROVE  TypeOK'
    <3>1. lines \in [Variant -> 0..MaxQty]
      BY DEF Lines
    <3>2. available' \in [Variant -> 0..MaxInt] /\ reserved' \in [Variant -> 0..MaxInt]
      BY <2>1, <3>1 DEF ConfirmTx, Reserve, CanReserve
    <3>3. used' \in [Coupon -> Nat]
      BY <2>1 DEF ConfirmTx, Redeem
    <3>4. audit' \subseteq Order \X (OrderStatus \cup {"none"}) \X OrderStatus
      BY <2>1 DEF ConfirmTx, MoveOrder
    <3> QED
      BY <2>1, <3>1, <3>2, <3>3, <3>4 DEF ConfirmTx, MoveOrder
  <2>2. ASSUME NEW e \in Event, Apply(e)
        PROVE  TypeOK'
    <3>1. e.id \in EventId /\ e.order \in Order
      OBVIOUS
    <3>2. seen' \subseteq EventId /\ due' \subseteq Order /\ lapsed' \subseteq Coupon
      BY <2>2, <3>1 DEF Apply
    <3>3. CASE RecordOnly(e)
      BY <3>2, <3>3 DEF RecordOnly, orderVars, stockVars
    <3>4. CASE FailPayment(e.order)
      <4>1. available' \in [Variant -> 0..MaxInt] /\ reserved' \in [Variant -> 0..MaxInt]
        BY <3>1, <3>4 DEF FailPayment, ReleaseReserved, Backed
      <4>2. used' \in [Coupon -> Nat]
        BY <3>1, <3>4, GiveBackType DEF FailPayment
      <4> QED
        BY <3>1, <3>2, <3>4, <4>1, <4>2 DEF FailPayment, ResolveReservations, MoveOrder
    <3>5. CASE PayInTime(e.order)
      <4>1. available' \in [Variant -> 0..MaxInt] /\ reserved' \in [Variant -> 0..MaxInt]
        BY <3>1, <3>5 DEF PayInTime, CommitReserved, Backed
      <4> QED
        BY <3>1, <3>2, <3>5, <4>1 DEF PayInTime, ResolveReservations, MoveOrder
    <3>6. CASE PayLate(e.order)
      <4>1. available' \in [Variant -> 0..MaxInt] /\ reserved' \in [Variant -> 0..MaxInt]
        BY <3>1, <3>6 DEF PayLate, CanReserve, stockVars
      <4> QED
        BY <3>1, <3>2, <3>6, <4>1 DEF PayLate, MoveOrder
    <3> QED
      BY <2>2, <3>3, <3>4, <3>5, <3>6 DEF Apply
  <2>3. ASSUME NEW o \in Order, ReleaseExpired(o)
        PROVE  TypeOK'
    <3>1. available' \in [Variant -> 0..MaxInt] /\ reserved' \in [Variant -> 0..MaxInt]
      BY <2>3 DEF ReleaseExpired, ReleaseReserved, Backed
    <3>2. used' \in [Coupon -> Nat]
      BY <2>3, GiveBackType DEF ReleaseExpired
    <3> QED
      BY <2>3, <3>1, <3>2 DEF ReleaseExpired, ResolveReservations, MoveOrder
  <2>4. ASSUME NEW o \in Order, ReservationDue(o)
        PROVE  TypeOK'
    BY <2>4 DEF ReservationDue, orderVars, stockVars
  <2>5. ASSUME NEW v \in Variant, NEW n \in StockLevel, SetStock(v, n)
        PROVE  TypeOK'
    BY <2>5 DEF SetStock, orderVars
  <2>6. ASSUME NEW c \in Coupon, CouponLapses(c)
        PROVE  TypeOK'
    BY <2>6 DEF CouponLapses, orderVars, stockVars
  <2>7. CASE UNCHANGED vars
    BY <2>7 DEF vars, orderVars, stockVars
  <2> QED
    BY <2>1, <2>2, <2>3, <2>4, <2>5, <2>6, <2>7 DEF Next
<1> QED
  BY <1>1, <1>2, PTL DEF Spec

(* The order, reservation and charge rows of an order always agree: no     *)
(* transaction moves one of them without the others.                       *)
THEOREM AgreementHolds == Spec => []Agreement
<1>1. Init => Agreement
  BY DEF Init, Agreement
<1>2. TypeOK /\ Agreement /\ [Next]_vars => Agreement'
  <2> SUFFICES ASSUME TypeOK, Agreement, [Next]_vars
               PROVE  Agreement'
    OBVIOUS
  <2>1. ASSUME NEW o \in Order, NEW lines \in Lines, NEW c \in Coupon \cup {NoCoupon},
               ConfirmTx(o, lines, c)
        PROVE  Agreement'
    BY <2>1 DEF ConfirmTx, MoveOrder, Agreement, TypeOK
  <2>2. ASSUME NEW e \in Event, Apply(e)
        PROVE  Agreement'
    <3>1. e.order \in Order
      BY EventAssumption
    <3>2. CASE RecordOnly(e)
      BY <3>2 DEF RecordOnly, orderVars, Agreement
    <3>3. CASE FailPayment(e.order)
      BY <3>1, <3>3 DEF FailPayment, ResolveReservations, MoveOrder, Agreement, TypeOK
    <3>4. CASE PayInTime(e.order)
      BY <3>1, <3>4 DEF PayInTime, ResolveReservations, MoveOrder, Agreement, TypeOK
    <3>5. CASE PayLate(e.order)
      BY <3>1, <3>5 DEF PayLate, MoveOrder, Agreement, TypeOK
    <3> QED
      BY <2>2, <3>2, <3>3, <3>4, <3>5 DEF Apply
  <2>3. ASSUME NEW o \in Order, ReleaseExpired(o)
        PROVE  Agreement'
    BY <2>3 DEF ReleaseExpired, ResolveReservations, MoveOrder, Agreement, TypeOK
  <2>4. ASSUME NEW o \in Order, ReservationDue(o)
        PROVE  Agreement'
    BY <2>4 DEF ReservationDue, orderVars, Agreement
  <2>5. ASSUME NEW v \in Variant, NEW n \in StockLevel, SetStock(v, n)
        PROVE  Agreement'
    BY <2>5 DEF SetStock, orderVars, Agreement
  <2>6. ASSUME NEW c \in Coupon, CouponLapses(c)
        PROVE  Agreement'
    BY <2>6 DEF CouponLapses, orderVars, Agreement
  <2>7. CASE UNCHANGED vars
    BY <2>7 DEF vars, orderVars, Agreement
  <2> QED
    BY <2>1, <2>2, <2>3, <2>4, <2>5, <2>6, <2>7 DEF Next
<1> QED
  BY <1>1, <1>2, TypeCorrect, PTL DEF Spec

-------------------------------------------------------------------------------
(* Counting units.                                                         *)

Quantities == [Order -> [Variant -> 0..MaxQty]]

(* The units of finitely many orders are finitely many.                    *)
LEMMA UnitsFinite ==
  ASSUME NEW lines \in Quantities, NEW S \in SUBSET Order, NEW v \in Variant
  PROVE  /\ IsFiniteSet(Units(lines, S, v))
         /\ Cardinality(Units(lines, S, v)) \in Nat
<1>1. IsFiniteSet(S)
  BY OrderAssumption, FS_Subset
<1>2. IsFiniteSet(1..MaxQty)
  BY QtyAssumption, FS_Interval
<1>3. IsFiniteSet(S \X (1..MaxQty))
  BY <1>1, <1>2, FS_Product
<1>4. Units(lines, S, v) \in SUBSET (S \X (1..MaxQty))
  BY DEF Units
<1>5. IsFiniteSet(Units(lines, S, v))
  BY <1>3, <1>4, FS_Subset
<1> QED
  BY <1>5, FS_CardinalityType

(* One order accounts for as many units as its line says.                  *)
LEMMA UnitsOfOne ==
  ASSUME NEW lines \in Quantities, NEW o \in Order, NEW v \in Variant
  PROVE  Cardinality(Units(lines, {o}, v)) = lines[o][v]
<1> DEFINE q == lines[o][v]
<1>1. q \in 0..MaxQty
  BY DEF Quantities
<1>2. q \in Nat /\ q <= MaxQty
  BY <1>1, QtyAssumption
<1>3. Units(lines, {o}, v) = {o} \X (1..q)
  <2>1. ASSUME NEW u \in {o} \X (1..MaxQty)
        PROVE  u[2] <= lines[u[1]][v] <=> u[2] <= q
    BY <2>1
  <2>2. Units(lines, {o}, v) = {u \in {o} \X (1..MaxQty) : u[2] <= q}
    BY <2>1 DEF Units
  <2> HIDE DEF q
  <2> QED
    BY <1>2, <2>2, QtyAssumption
<1>4. IsFiniteSet({o}) /\ Cardinality({o}) = 1
  BY FS_Singleton
<1> HIDE DEF q
<1>5. IsFiniteSet(1..q) /\ Cardinality(1..q) = q
  BY <1>2, FS_Interval
<1>6. Cardinality({o} \X (1..q)) = Cardinality({o}) * Cardinality(1..q)
  BY <1>4, <1>5, FS_Product, Zenon
<1>7. Cardinality({o} \X (1..q)) = 1 * q
  BY <1>4, <1>5, <1>6, Zenon
<1>8. 1 * q = q
  BY <1>2
<1>9. Cardinality(Units(lines, {o}, v)) = q
  BY <1>3, <1>7, <1>8, Zenon
<1> QED
  BY <1>9 DEF q

(* An order that joins a set of orders brings its line's quantity.         *)
LEMMA UnitsAdd ==
  ASSUME NEW lines \in Quantities, NEW S \in SUBSET Order, NEW o \in Order,
         o \notin S, NEW v \in Variant
  PROVE  Cardinality(Units(lines, S \cup {o}, v))
           = Cardinality(Units(lines, S, v)) + lines[o][v]
<1> DEFINE A == Units(lines, S, v)
           B == Units(lines, {o}, v)
<1>1. Units(lines, S \cup {o}, v) = A \cup B
  BY DEF Units
<1>2. A \cap B = {}
  BY DEF Units
<1>3. IsFiniteSet(A) /\ IsFiniteSet(B) /\ Cardinality(A) \in Nat
  BY UnitsFinite
<1>4. Cardinality(B) = lines[o][v] /\ lines[o][v] \in Nat
  BY UnitsOfOne, QtyAssumption DEF Quantities
<1> HIDE DEF A, B
<1>5. Cardinality(A \cup B) = Cardinality(A) + Cardinality(B) - Cardinality(A \cap B)
  BY <1>3, FS_Union
<1>6. Cardinality(A \cap B) = 0
  BY <1>2, FS_EmptySet
<1>7. Cardinality(A \cup B) = Cardinality(A) + lines[o][v]
  BY <1>3, <1>4, <1>5, <1>6
<1>8. Cardinality(Units(lines, S \cup {o}, v)) = Cardinality(A) + lines[o][v]
  BY <1>1, <1>7, Zenon
<1> QED
  BY <1>8 DEF A

(* An order that leaves a set of orders takes its line's quantity away.    *)
LEMMA UnitsRemove ==
  ASSUME NEW lines \in Quantities, NEW S \in SUBSET Order, NEW o \in S,
         NEW v \in Variant
  PROVE  /\ Cardinality(Units(lines, S, v))
              = Cardinality(Units(lines, S \ {o}, v)) + lines[o][v]
         /\ lines[o][v] <= Cardinality(Units(lines, S, v))
<1> DEFINE T == S \ {o}
<1>1. /\ T \in SUBSET Order
      /\ o \in Order /\ o \notin T
      /\ S = T \cup {o}
  OBVIOUS
<1> HIDE DEF T
<1>2. Cardinality(Units(lines, T \cup {o}, v)) = Cardinality(Units(lines, T, v)) + lines[o][v]
  BY <1>1, UnitsAdd
<1>3. Cardinality(Units(lines, S, v)) = Cardinality(Units(lines, T, v)) + lines[o][v]
  BY <1>1, <1>2, Zenon
<1>4. Cardinality(Units(lines, T, v)) \in Nat
  BY <1>1, UnitsFinite
<1>5. lines[o][v] \in Nat
  BY <1>1, QtyAssumption DEF Quantities
<1>6. lines[o][v] <= Cardinality(Units(lines, S, v))
  BY <1>3, <1>4, <1>5
<1> QED
  BY <1>3, <1>6 DEF T

(* Lines of orders outside S do not matter to the units of S.              *)
LEMMA UnitsSame ==
  ASSUME NEW f \in Quantities, NEW g \in Quantities, NEW S \in SUBSET Order,
         \A o \in S : f[o] = g[o], NEW v \in Variant
  PROVE  Units(f, S, v) = Units(g, S, v)
BY DEF Units

(* While `reserved` counts the held units, the guard of the commit and     *)
(* release statements holds for every order that still holds its own.      *)
LEMMA HeldAreBacked ==
  ASSUME TypeOK, ReservedBacked, NEW o \in Holding, NEW v \in Variant
  PROVE  Backed(v, item[o][v])
<1>1. item \in Quantities /\ Holding \in SUBSET Order
  BY DEF TypeOK, Quantities, Holding
<1>2. item[o][v] <= Cardinality(Units(item, Holding, v))
  BY <1>1, UnitsRemove
<1> QED
  BY <1>2 DEF ReservedBacked, Backed

(* An order that stops holding its units, and returns them from            *)
(* `reserved`, keeps the count.                                            *)
LEMMA ResolveKeepsBacked ==
  ASSUME TypeOK, ReservedBacked, NEW o \in Holding, NEW to \in {"committed", "released"},
         ResolveReservations(o, to), UNCHANGED item,
         reserved' = [v \in Variant |->
           IF Backed(v, item[o][v]) THEN reserved[v] - item[o][v] ELSE reserved[v]]
  PROVE  ReservedBacked'
<1>1. item \in Quantities /\ Holding \in SUBSET Order
  BY DEF TypeOK, Quantities, Holding
<1>2. Holding' = Holding \ {o}
  BY DEF Holding, ResolveReservations, TypeOK
<1> SUFFICES ASSUME NEW v \in Variant
             PROVE  reserved'[v] = Cardinality(Units(item, Holding \ {o}, v))
  BY <1>2 DEF ReservedBacked
<1>3. reserved'[v] = reserved[v] - item[o][v]
  BY HeldAreBacked
<1>4. reserved[v] = Cardinality(Units(item, Holding, v))
  BY DEF ReservedBacked
<1>5. Cardinality(Units(item, Holding, v))
        = Cardinality(Units(item, Holding \ {o}, v)) + item[o][v]
  BY <1>1, UnitsRemove
<1>6. Cardinality(Units(item, Holding \ {o}, v)) \in Nat
  BY <1>1, UnitsFinite
<1>7. item[o][v] \in Nat
  BY <1>1, QtyAssumption DEF Quantities, Holding
<1> QED
  BY <1>3, <1>4, <1>5, <1>6, <1>7

(* `reserved` is the sum of the held reservations in every reachable state *)
(* of the serial system, whatever the quantities.                          *)
THEOREM ReservedIsBacked == Spec => []ReservedBacked
<1>1. Init => ReservedBacked
  <2> SUFFICES ASSUME Init, NEW v \in Variant
               PROVE  reserved[v] = Cardinality(Units(item, Holding, v))
    BY DEF ReservedBacked
  <2>1. Holding = {}
    BY DEF Init, Holding
  <2>2. Units(item, Holding, v) = {}
    BY <2>1 DEF Units
  <2>3. Cardinality({}) = 0
    BY FS_EmptySet
  <2> QED
    BY <2>2, <2>3 DEF Init
<1>2. TypeOK /\ Agreement /\ ReservedBacked /\ [Next]_vars => ReservedBacked'
  <2> SUFFICES ASSUME TypeOK, Agreement, ReservedBacked, [Next]_vars
               PROVE  ReservedBacked'
    OBVIOUS
  <2>0. item \in Quantities /\ Holding \in SUBSET Order
    BY DEF TypeOK, Quantities, Holding
  <2>1. ASSUME NEW o \in Order, NEW lines \in Lines, NEW c \in Coupon \cup {NoCoupon},
               ConfirmTx(o, lines, c)
        PROVE  ReservedBacked'
    <3>1. o \notin Holding
      BY <2>1 DEF ConfirmTx, Agreement, Holding
    <3>2. Holding' = Holding \cup {o}
      BY <2>1 DEF ConfirmTx, Holding, TypeOK
    <3>3. item' \in Quantities /\ item'[o] = lines
      BY <2>0, <2>1 DEF ConfirmTx, Lines, Quantities
    <3>4. \A p \in Holding : item'[p] = item[p]
      BY <2>0, <2>1, <3>1 DEF ConfirmTx, Quantities
    <3> SUFFICES ASSUME NEW v \in Variant
                 PROVE  reserved'[v] = Cardinality(Units(item', Holding \cup {o}, v))
      BY <3>2 DEF ReservedBacked
    <3>5. Cardinality(Units(item', Holding \cup {o}, v))
            = Cardinality(Units(item', Holding, v)) + lines[v]
      BY <2>0, <3>1, <3>3, UnitsAdd
    <3>6. Units(item', Holding, v) = Units(item, Holding, v)
      BY <2>0, <3>3, <3>4, UnitsSame
    <3>7. reserved'[v] = reserved[v] + lines[v]
      BY <2>1 DEF ConfirmTx, Reserve
    <3>8. reserved[v] = Cardinality(Units(item, Holding, v))
      BY DEF ReservedBacked
    <3> QED
      BY <3>5, <3>6, <3>7, <3>8, Zenon
  <2>2. ASSUME NEW e \in Event, Apply(e)
        PROVE  ReservedBacked'
    <3>1. e.order \in Order
      BY EventAssumption
    <3>2. CASE RecordOnly(e)
      BY <3>2 DEF RecordOnly, orderVars, stockVars, ReservedBacked, Holding
    <3>3. ASSUME NEW o \in Order, FailPayment(o)
          PROVE  ReservedBacked'
      <4>1. o \in Holding
        BY <3>3 DEF FailPayment, Agreement, Holding
      <4> QED
        BY <3>3, <4>1, ResolveKeepsBacked DEF FailPayment, ReleaseReserved
    <3>4. ASSUME NEW o \in Order, PayInTime(o)
          PROVE  ReservedBacked'
      <4>1. o \in Holding
        BY <3>4 DEF PayInTime, Agreement, Holding
      <4> QED
        BY <3>4, <4>1, ResolveKeepsBacked DEF PayInTime, CommitReserved
    <3>5. CASE PayLate(e.order)
      BY <3>5 DEF PayLate, stockVars, ReservedBacked, Holding
    <3> QED
      BY <2>2, <3>1, <3>2, <3>3, <3>4, <3>5 DEF Apply
  <2>3. ASSUME NEW o \in Order, ReleaseExpired(o)
        PROVE  ReservedBacked'
    <3>1. o \in Holding
      BY <2>3 DEF ReleaseExpired, Holding
    <3> QED
      BY <2>3, <3>1, ResolveKeepsBacked DEF ReleaseExpired, ReleaseReserved
  <2>4. ASSUME NEW o \in Order, ReservationDue(o)
        PROVE  ReservedBacked'
    BY <2>4 DEF ReservationDue, orderVars, stockVars, ReservedBacked, Holding
  <2>5. ASSUME NEW v \in Variant, NEW n \in StockLevel, SetStock(v, n)
        PROVE  ReservedBacked'
    BY <2>5 DEF SetStock, orderVars, ReservedBacked, Holding
  <2>6. ASSUME NEW c \in Coupon, CouponLapses(c)
        PROVE  ReservedBacked'
    BY <2>6 DEF CouponLapses, orderVars, stockVars, ReservedBacked, Holding
  <2>7. CASE UNCHANGED vars
    BY <2>7 DEF vars, orderVars, stockVars, ReservedBacked, Holding
  <2> QED
    BY <2>1, <2>2, <2>3, <2>4, <2>5, <2>6, <2>7 DEF Next
<1> QED
  BY <1>1, <1>2, TypeCorrect, AgreementHolds, PTL DEF Spec

-------------------------------------------------------------------------------
(* Returning an order's held units to the shelf keeps the stock of every   *)
(* variant.                                                                *)
LEMMA ReleaseConserves ==
  ASSUME TypeOK, Agreement, ReservedBacked, NEW o \in Holding,
         ReleaseReserved(item[o]), UNCHANGED item,
         NEW to \in {"payment_failed", "expired"}, MoveOrder(o, "pending_payment", to),
         NEW v \in Variant
  PROVE  Stock(v)' = Stock(v)
<1>1. o \in Order /\ order[o] = "pending_payment"
  BY DEF Holding, Agreement
<1>2. Sold' = Sold
  BY <1>1 DEF Sold, MoveOrder, TypeOK
<1>3. Units(item', Sold', v) = Units(item, Sold, v)
  BY <1>2
<1>4. available'[v] = available[v] + item[o][v] /\ reserved'[v] = reserved[v] - item[o][v]
  BY HeldAreBacked DEF ReleaseReserved
<1>5. available[v] \in Int /\ reserved[v] \in Int /\ item[o][v] \in Int
  BY <1>1, QtyAssumption DEF TypeOK
<1>6. available'[v] + reserved'[v] = available[v] + reserved[v]
  BY <1>4, <1>5
<1> QED
  BY <1>3, <1>6 DEF Stock

(* An order that becomes paid adds its quantity to the sold units.         *)
LEMMA SellAdds ==
  ASSUME TypeOK, NEW o \in Order, order[o] # "paid", UNCHANGED item,
         NEW from, MoveOrder(o, from, "paid"), NEW v \in Variant
  PROVE  Cardinality(Units(item', Sold', v)) = Cardinality(Units(item, Sold, v)) + item[o][v]
<1>1. item \in Quantities /\ Sold \in SUBSET Order /\ o \notin Sold
  BY DEF TypeOK, Quantities, Sold
<1>2. Sold' = Sold \cup {o}
  BY DEF Sold, MoveOrder, TypeOK
<1>3. Units(item', Sold', v) = Units(item, Sold \cup {o}, v)
  BY <1>2
<1> QED
  BY <1>1, <1>3, UnitsAdd

(* No transaction other than the admin's set-stock creates or destroys a   *)
(* unit: what leaves `available` is reserved or sold.                      *)
THEOREM StockIsConserved == Spec => StockConserved
<1> DEFINE Conserved == \A v \in Variant : Stock(v)' = Stock(v)
           AdminWrite == \E v \in Variant, n \in StockLevel : SetStock(v, n)
<1>1. TypeOK /\ Agreement /\ ReservedBacked /\ [Next]_vars => [Conserved \/ AdminWrite]_vars
  <2> SUFFICES ASSUME TypeOK, Agreement, ReservedBacked, Next
               PROVE  Conserved \/ AdminWrite
    OBVIOUS
  <2>0. item \in Quantities /\ Sold \in SUBSET Order
    BY DEF TypeOK, Quantities, Sold
  <2>1. ASSUME NEW o \in Order, NEW lines \in Lines, NEW c \in Coupon \cup {NoCoupon},
               ConfirmTx(o, lines, c)
        PROVE  Conserved
    <3> SUFFICES ASSUME NEW v \in Variant
                 PROVE  Stock(v)' = Stock(v)
      OBVIOUS
    <3>1. o \notin Sold
      BY <2>1 DEF ConfirmTx, Sold
    <3>2. Sold' = Sold
      BY <2>1 DEF ConfirmTx, MoveOrder, Sold, TypeOK
    <3>3. item' \in Quantities
      BY <2>0, <2>1 DEF ConfirmTx, Lines, Quantities
    <3>4. \A p \in Sold : item'[p] = item[p]
      BY <2>0, <2>1, <3>1 DEF ConfirmTx, Quantities
    <3>5. Units(item', Sold', v) = Units(item, Sold, v)
      BY <2>0, <3>2, <3>3, <3>4, UnitsSame
    <3>6. available'[v] = available[v] - lines[v] /\ reserved'[v] = reserved[v] + lines[v]
      BY <2>1 DEF ConfirmTx, Reserve
    <3>7. available[v] \in Int /\ reserved[v] \in Int /\ lines[v] \in Int
      BY QtyAssumption DEF TypeOK, Lines
    <3>8. available'[v] + reserved'[v] = available[v] + reserved[v]
      BY <3>6, <3>7
    <3> QED
      BY <3>5, <3>8 DEF Stock
  <2>2. ASSUME NEW e \in Event, Apply(e)
        PROVE  Conserved
    <3>1. e.order \in Order
      BY EventAssumption
    <3>2. CASE RecordOnly(e)
      BY <3>2 DEF RecordOnly, orderVars, stockVars, Stock, Sold
    <3>3. ASSUME NEW o \in Order, FailPayment(o)
          PROVE  Conserved
      <4>1. o \in Holding
        BY <3>3 DEF FailPayment, Agreement, Holding
      <4> QED
        BY <3>3, <4>1, ReleaseConserves DEF FailPayment
    <3>4. ASSUME NEW o \in Order, PayInTime(o)
          PROVE  Conserved
      <4> SUFFICES ASSUME NEW v \in Variant
                   PROVE  Stock(v)' = Stock(v)
        OBVIOUS
      <4>1. o \in Holding
        BY <3>4 DEF PayInTime, Agreement, Holding
      <4>2. Cardinality(Units(item', Sold', v)) = Cardinality(Units(item, Sold, v)) + item[o][v]
        BY <3>4, SellAdds DEF PayInTime
      <4>3. available'[v] = available[v] /\ reserved'[v] = reserved[v] - item[o][v]
        BY <3>4, <4>1, HeldAreBacked DEF PayInTime, CommitReserved
      <4>4. available[v] \in Int /\ reserved[v] \in Int /\ item[o][v] \in Int
        BY QtyAssumption DEF TypeOK
      <4>5. Cardinality(Units(item, Sold, v)) \in Int
        BY <2>0, UnitsFinite
      <4>6. available'[v] + reserved'[v] + Cardinality(Units(item', Sold', v))
              = available[v] + reserved[v] + Cardinality(Units(item, Sold, v))
        BY <4>2, <4>3, <4>4, <4>5
      <4> QED
        BY <4>6 DEF Stock
    <3>5. ASSUME NEW o \in Order, PayLate(o)
          PROVE  Conserved
      <4> SUFFICES ASSUME NEW v \in Variant
                   PROVE  Stock(v)' = Stock(v)
        OBVIOUS
      <4>1. available[v] \in Int /\ reserved[v] \in Int /\ item[o][v] \in Int
        BY QtyAssumption DEF TypeOK
      <4>2. Cardinality(Units(item, Sold, v)) \in Int
        BY <2>0, UnitsFinite
      <4>3. CASE MoveOrder(o, "expired", "paid") /\ available'[v] = available[v] - item[o][v]
                   /\ UNCHANGED reserved
        <5>1. Cardinality(Units(item', Sold', v)) = Cardinality(Units(item, Sold, v)) + item[o][v]
          BY <3>5, <4>3, SellAdds DEF PayLate
        <5>2. available'[v] + reserved'[v] + Cardinality(Units(item', Sold', v))
                = available[v] + reserved[v] + Cardinality(Units(item, Sold, v))
          BY <4>1, <4>2, <4>3, <5>1
        <5> QED
          BY <5>2 DEF Stock
      <4>4. CASE MoveOrder(o, "expired", "paid_awaiting_stock") /\ UNCHANGED stockVars
        <5>1. Sold' = Sold /\ UNCHANGED item
          BY <3>5, <4>4 DEF PayLate, MoveOrder, Sold, TypeOK
        <5> QED
          BY <4>4, <5>1 DEF Stock, stockVars
      <4> QED
        BY <3>5, <4>3, <4>4 DEF PayLate
    <3> QED
      BY <2>2, <3>1, <3>2, <3>3, <3>4, <3>5 DEF Apply
  <2>3. ASSUME NEW o \in Order, ReleaseExpired(o)
        PROVE  Conserved
    <3>1. o \in Holding
      BY <2>3 DEF ReleaseExpired, Holding
    <3> QED
      BY <2>3, <3>1, ReleaseConserves DEF ReleaseExpired
  <2>4. ASSUME NEW o \in Order, ReservationDue(o)
        PROVE  Conserved
    BY <2>4 DEF ReservationDue, orderVars, stockVars, Stock, Sold
  <2>5. ASSUME NEW c \in Coupon, CouponLapses(c)
        PROVE  Conserved
    BY <2>5 DEF CouponLapses, orderVars, stockVars, Stock, Sold
  <2> QED
    BY <2>1, <2>2, <2>3, <2>4, <2>5 DEF Next
<1> QED
  BY <1>1, TypeCorrect, AgreementHolds, ReservedIsBacked, PTL DEF Spec, StockConserved

-------------------------------------------------------------------------------
(* Redeemers of a coupon are finitely many.                                *)
LEMMA RedeemersFinite ==
  ASSUME NEW c
  PROVE  IsFiniteSet(Redeemers(c)) /\ Cardinality(Redeemers(c)) \in Nat
<1>1. IsFiniteSet(Redeemers(c))
  BY OrderAssumption, FS_Subset DEF Redeemers
<1> QED
  BY <1>1, FS_CardinalityType

(* An order that stops holding its units as a release gives back exactly   *)
(* the one redemption it held.                                             *)
LEMMA GiveBackCounts ==
  ASSUME TypeOK, CouponCounted, NEW o \in Holding,
         ResolveReservations(o, "released"), GiveBack(couponOf[o]), UNCHANGED couponOf
  PROVE  CouponCounted'
<1>1. o \in Order /\ resv[o] = "held"
  BY DEF Holding
<1> SUFFICES ASSUME NEW c \in Coupon
             PROVE  /\ used'[c] = Cardinality(Redeemers(c)')
                    /\ UsageLimit[c] # NoLimit => used'[c] <= UsageLimit[c]
  BY DEF CouponCounted
<1>2. /\ used[c] = Cardinality(Redeemers(c))
      /\ UsageLimit[c] # NoLimit => used[c] <= UsageLimit[c]
  BY DEF CouponCounted
<1>3. used[c] \in Nat
  BY DEF TypeOK
<1>4. CASE couponOf[o] = c
  <2>1. Redeemers(c)' = Redeemers(c) \ {o} /\ o \in Redeemers(c)
    BY <1>1, <1>4 DEF Redeemers, ResolveReservations, TypeOK
  <2>2. Cardinality(Redeemers(c) \ {o}) = Cardinality(Redeemers(c)) - 1
    BY <2>1, RedeemersFinite, FS_RemoveElement
  <2>3. Cardinality(Redeemers(c)) # 0
    BY <2>1, RedeemersFinite, FS_EmptySet
  <2>4. used[c] > 0
    BY <1>2, <1>3, <2>3
  <2>5. used'[c] = used[c] - 1
    BY <1>4, <2>4, CouponAssumption DEF GiveBack, TypeOK
  <2> QED
    BY <1>2, <1>3, <2>1, <2>2, <2>5, CouponAssumption
<1>5. CASE couponOf[o] # c
  <2>1. Redeemers(c)' = Redeemers(c)
    BY <1>1, <1>5 DEF Redeemers, ResolveReservations, TypeOK
  <2>2. used'[c] = used[c]
    BY <1>5 DEF GiveBack, TypeOK
  <2> QED
    BY <1>2, <2>1, <2>2
<1> QED
  BY <1>4, <1>5

(* used_count is the number of orders that hold a redemption and never     *)
(* exceeds usage_limit, however many confirms, failures and expiries.      *)
THEOREM CouponsAreCounted == Spec => []CouponCounted
<1>1. Init => CouponCounted
  <2> SUFFICES ASSUME Init, NEW c \in Coupon
               PROVE  /\ used[c] = Cardinality(Redeemers(c))
                      /\ UsageLimit[c] # NoLimit => used[c] <= UsageLimit[c]
    BY DEF CouponCounted
  <2>1. Redeemers(c) = {} /\ used[c] = 0
    BY DEF Init, Redeemers
  <2>2. Cardinality(Redeemers(c)) = 0
    BY <2>1, FS_EmptySet
  <2> QED
    BY <2>1, <2>2, CouponAssumption
<1>2. TypeOK /\ Agreement /\ CouponCounted /\ [Next]_vars => CouponCounted'
  <2> SUFFICES ASSUME TypeOK, Agreement, CouponCounted, [Next]_vars
               PROVE  CouponCounted'
    OBVIOUS
  <2>1. ASSUME NEW o \in Order, NEW lines \in Lines, NEW d \in Coupon \cup {NoCoupon},
               ConfirmTx(o, lines, d)
        PROVE  CouponCounted'
    <3> SUFFICES ASSUME NEW c \in Coupon
                 PROVE  /\ used'[c] = Cardinality(Redeemers(c)')
                        /\ UsageLimit[c] # NoLimit => used'[c] <= UsageLimit[c]
      BY DEF CouponCounted
    <3>1. /\ used[c] = Cardinality(Redeemers(c))
          /\ UsageLimit[c] # NoLimit => used[c] <= UsageLimit[c]
      BY DEF CouponCounted
    <3>2. o \notin Redeemers(c)
      BY <2>1 DEF ConfirmTx, Agreement, Redeemers
    <3>3. used[c] \in Nat
      BY DEF TypeOK
    <3>4. CASE d = c
      <4>1. Redeemers(c)' = Redeemers(c) \cup {o}
        BY <2>1, <3>4 DEF ConfirmTx, Redeemers, TypeOK
      <4>2. Cardinality(Redeemers(c) \cup {o}) = Cardinality(Redeemers(c)) + 1
        BY <3>2, RedeemersFinite, FS_AddElement
      <4>3. used'[c] = used[c] + 1 /\ Redeemable(c)
        BY <2>1, <3>4, CouponAssumption DEF ConfirmTx, Redeem, TypeOK
      <4> QED
        BY <3>1, <3>3, <4>1, <4>2, <4>3, CouponAssumption DEF Redeemable
    <3>5. CASE d # c
      <4>1. Redeemers(c)' = Redeemers(c)
        BY <2>1, <3>2, <3>5 DEF ConfirmTx, Redeemers, TypeOK
      <4>2. used'[c] = used[c]
        BY <2>1, <3>5 DEF ConfirmTx, Redeem, TypeOK
      <4> QED
        BY <3>1, <4>1, <4>2
    <3> QED
      BY <3>4, <3>5
  <2>2. ASSUME NEW e \in Event, Apply(e)
        PROVE  CouponCounted'
    <3>1. e.order \in Order
      BY EventAssumption
    <3>2. CASE RecordOnly(e)
      BY <3>2 DEF RecordOnly, orderVars, CouponCounted, Redeemers
    <3>3. ASSUME NEW o \in Order, FailPayment(o)
          PROVE  CouponCounted'
      <4>1. o \in Holding
        BY <3>3 DEF FailPayment, Agreement, Holding
      <4> QED
        BY <3>3, <4>1, GiveBackCounts DEF FailPayment
    <3>4. ASSUME NEW o \in Order, PayInTime(o)
          PROVE  CouponCounted'
      <4>1. resv[o] = "held"
        BY <3>4 DEF PayInTime, Agreement
      <4>2. \A c \in Coupon : Redeemers(c)' = Redeemers(c)
        BY <3>4, <4>1 DEF PayInTime, ResolveReservations, Redeemers, TypeOK
      <4> QED
        BY <3>4, <4>2 DEF PayInTime, CouponCounted
    <3>5. CASE PayLate(e.order)
      BY <3>5 DEF PayLate, CouponCounted, Redeemers
    <3> QED
      BY <2>2, <3>1, <3>2, <3>3, <3>4, <3>5 DEF Apply
  <2>3. ASSUME NEW o \in Order, ReleaseExpired(o)
        PROVE  CouponCounted'
    <3>1. o \in Holding
      BY <2>3 DEF ReleaseExpired, Holding
    <3> QED
      BY <2>3, <3>1, GiveBackCounts DEF ReleaseExpired
  <2>4. CASE \/ \E o \in Order : ReservationDue(o)
             \/ \E v \in Variant, n \in StockLevel : SetStock(v, n)
             \/ \E c \in Coupon : CouponLapses(c)
             \/ UNCHANGED vars
    BY <2>4 DEF ReservationDue, SetStock, CouponLapses, vars, orderVars, stockVars,
                CouponCounted, Redeemers
  <2> QED
    BY <2>1, <2>2, <2>3, <2>4 DEF Next
<1> QED
  BY <1>1, <1>2, TypeCorrect, AgreementHolds, PTL DEF Spec

-------------------------------------------------------------------------------
(* Orders only move forward along the documented state machine, and every  *)
(* move leaves its audit row.                                              *)
THEOREM OrdersMoveForward == Spec => ForwardOnly
<1> DEFINE Forward ==
      \A o \in Order : order'[o] # order[o] =>
        /\ \/ CanTransition(order[o], order'[o])
           \/ order[o] = "none" /\ order'[o] = "pending_payment"
        /\ <<o, order[o], order'[o]>> \in audit'
<1>1. ASSUME TypeOK, NEW o \in Order, NEW from, NEW to, MoveOrder(o, from, to),
             order[o] = from,
             \/ from = "none" /\ to = "pending_payment"
             \/ from = "pending_payment" /\ to \in {"paid", "payment_failed", "expired"}
             \/ from = "expired" /\ to \in {"paid", "paid_awaiting_stock"}
      PROVE  Forward
  BY <1>1 DEF MoveOrder, TypeOK, CanTransition
<1>2. TypeOK /\ [Next]_vars => [Forward]_vars
  <2> SUFFICES ASSUME TypeOK, Next
               PROVE  Forward
    OBVIOUS
  <2> HIDE DEF Forward
  <2>1. ASSUME NEW o \in Order, NEW lines \in Lines, NEW c \in Coupon \cup {NoCoupon},
               ConfirmTx(o, lines, c)
        PROVE  Forward
    BY <1>1, <2>1 DEF ConfirmTx
  <2>2. ASSUME NEW e \in Event, Apply(e)
        PROVE  Forward
    <3>1. e.order \in Order
      BY EventAssumption
    <3>2. CASE RecordOnly(e)
      BY <3>2 DEF RecordOnly, orderVars, Forward
    <3>3. CASE FailPayment(e.order)
      BY <1>1, <3>1, <3>3 DEF FailPayment
    <3>4. CASE PayInTime(e.order)
      BY <1>1, <3>1, <3>4 DEF PayInTime
    <3>5. CASE PayLate(e.order)
      BY <1>1, <3>1, <3>5 DEF PayLate
    <3> QED
      BY <2>2, <3>2, <3>3, <3>4, <3>5 DEF Apply
  <2>3. ASSUME NEW o \in Order, ReleaseExpired(o)
        PROVE  Forward
    BY <1>1, <2>3 DEF ReleaseExpired
  <2>4. CASE \/ \E o \in Order : ReservationDue(o)
             \/ \E v \in Variant, n \in StockLevel : SetStock(v, n)
             \/ \E c \in Coupon : CouponLapses(c)
    BY <2>4 DEF ReservationDue, SetStock, CouponLapses, orderVars, Forward
  <2> QED
    BY <2>1, <2>2, <2>3, <2>4 DEF Next
<1> QED
  BY <1>2, TypeCorrect, PTL DEF Spec, ForwardOnly

(* A verified payment of a pending or expired order is never recorded      *)
(* without making that order paid, or paid and waiting for stock.          *)
THEOREM PaymentsAreKept == Spec => PaymentNeverDropped
<1> DEFINE Kept ==
      \A e \in Event :
        /\ e.id \notin seen /\ e.id \in seen'
        /\ e.type = "paid" /\ e.exact
        /\ order[e.order] \in {"pending_payment", "expired"}
        => order'[e.order] \in {"paid", "paid_awaiting_stock"}
<1>1. TypeOK /\ [Next]_vars => [Kept]_vars
  <2> SUFFICES ASSUME TypeOK, Next, NEW e \in Event,
                      e.id \notin seen, e.id \in seen', e.type = "paid", e.exact,
                      order[e.order] \in {"pending_payment", "expired"}
               PROVE  order'[e.order] \in {"paid", "paid_awaiting_stock"}
    OBVIOUS
  <2>1. Apply(e)
    <3>1. PICK f \in Event : Apply(f)
      BY DEF Next, ConfirmTx, ReleaseExpired, ReservationDue, SetStock, CouponLapses
    <3>2. f = e
      BY <3>1, EventIdAssumption DEF Apply
    <3> QED
      BY <3>1, <3>2
  <2>2. ~Ignored(e)
    BY DEF Ignored
  <2>3. CASE PayInTime(e.order)
    BY <2>3, EventAssumption DEF PayInTime, MoveOrder, TypeOK
  <2>4. CASE PayLate(e.order)
    BY <2>4, EventAssumption DEF PayLate, MoveOrder, TypeOK
  <2> QED
    BY <2>1, <2>2, <2>3, <2>4 DEF Apply, RecordOnly
<1> QED
  BY <1>1, TypeCorrect, PTL DEF Spec, PaymentNeverDropped

-------------------------------------------------------------------------------
(* The audit trail.                                                        *)

(* How far along the state machine a status is.                            *)
Age(s) == CASE s = "none" -> 0
            [] s = "pending_payment" -> 1
            [] s = "expired" -> 2
            [] OTHER -> 3

(* What makes AuditIsAPath inductive: an order is past every status its    *)
(* audit rows record it as leaving, so it leaves none of them again.       *)
LeftBehind == \A t \in audit : Age(t[2]) < Age(order[t[1]])

(* A status change of one order ages it and is recorded.                   *)
Moves(o, from, to) == /\ order[o] = from
                      /\ Age(from) < Age(to)
                      /\ MoveOrder(o, from, to)

(* Every step leaves statuses and audit trail alone or is one such change. *)
LEMMA StepsMoveOneOrder ==
  ASSUME TypeOK, [Next]_vars
  PROVE  \/ UNCHANGED <<order, audit>>
         \/ \E o \in Order, from, to \in OrderStatus \cup {"none"} : Moves(o, from, to)
<1> USE DEF Moves, Age, OrderStatus
<1>1. ASSUME NEW o \in Order, NEW lines \in Lines, NEW c \in Coupon \cup {NoCoupon},
             ConfirmTx(o, lines, c)
      PROVE  Moves(o, "none", "pending_payment")
  BY <1>1 DEF ConfirmTx
<1>2. ASSUME NEW e \in Event, Apply(e)
      PROVE  \/ UNCHANGED <<order, audit>>
             \/ \E from, to \in OrderStatus \cup {"none"} : Moves(e.order, from, to)
  <2>1. CASE RecordOnly(e)
    BY <2>1 DEF RecordOnly, orderVars
  <2>2. CASE FailPayment(e.order)
    <3>1. Moves(e.order, "pending_payment", "payment_failed")
      BY <2>2 DEF FailPayment
    <3> QED
      BY <3>1
  <2>3. CASE PayInTime(e.order)
    <3>1. Moves(e.order, "pending_payment", "paid")
      BY <2>3 DEF PayInTime
    <3> QED
      BY <3>1
  <2>4. CASE PayLate(e.order)
    <3>1. \/ Moves(e.order, "expired", "paid")
          \/ Moves(e.order, "expired", "paid_awaiting_stock")
      BY <2>4 DEF PayLate
    <3> QED
      BY <3>1
  <2> QED
    BY <1>2, <2>1, <2>2, <2>3, <2>4 DEF Apply
<1>3. ASSUME NEW o \in Order, ReleaseExpired(o)
      PROVE  Moves(o, "pending_payment", "expired")
  BY <1>3 DEF ReleaseExpired
<1>4. ASSUME NEW o \in Order, ReservationDue(o)
      PROVE  UNCHANGED <<order, audit>>
  BY <1>4 DEF ReservationDue, orderVars
<1>5. ASSUME NEW v \in Variant, NEW n \in StockLevel, SetStock(v, n)
      PROVE  UNCHANGED <<order, audit>>
  BY <1>5 DEF SetStock, orderVars
<1>6. ASSUME NEW c \in Coupon, CouponLapses(c)
      PROVE  UNCHANGED <<order, audit>>
  BY <1>6 DEF CouponLapses, orderVars
<1>7. CASE UNCHANGED vars
  BY <1>7 DEF vars, orderVars
<1> HIDE DEF Moves, Age
<1>8. \A e \in Event : e.order \in Order
  BY EventAssumption
<1> QED
  BY <1>1, <1>2, <1>3, <1>4, <1>5, <1>6, <1>7, <1>8 DEF Next

(* One such change keeps the trail a path.                                 *)
LEMMA MovesKeepThePath ==
  ASSUME TypeOK, AuditIsAPath, LeftBehind,
         NEW o \in Order, NEW from \in OrderStatus \cup {"none"},
         NEW to \in OrderStatus \cup {"none"}, Moves(o, from, to)
  PROVE  AuditIsAPath' /\ LeftBehind'
<1> DEFINE row == <<o, from, to>>
<1>1. /\ order[o] = from /\ Age(from) < Age(to)
      /\ order' = [order EXCEPT ![o] = to]
      /\ audit' = audit \cup {row}
  BY DEF Moves, MoveOrder
<1>2. /\ order'[o] = to
      /\ \A t \in audit : t[1] # o => order'[t[1]] = order[t[1]]
  BY <1>1 DEF TypeOK
<1>3. \A s \in OrderStatus \cup {"none"} : Age(s) \in Nat
  BY DEF Age, OrderStatus
<1>4. \A t \in audit : /\ t[1] \in Order /\ t[2] \in OrderStatus \cup {"none"}
                       /\ order[t[1]] \in OrderStatus \cup {"none"}
  BY DEF TypeOK
<1>5. \A t \in audit : ~(t[1] = o /\ t[2] = from)
  BY <1>1, <1>3, <1>4 DEF LeftBehind
<1>6. LeftBehind'
  <2>1. \A t \in audit : Age(t[2]) < Age(order'[t[1]])
    BY <1>1, <1>2, <1>3, <1>4 DEF LeftBehind
  <2> QED
    BY <1>1, <1>2, <2>1 DEF LeftBehind, Age
<1>7. \A s, t \in audit' : s[1] = t[1] /\ s[2] = t[2] => s = t
  BY <1>1, <1>5 DEF AuditIsAPath
<1>8. ASSUME NEW t \in audit'
      PROVE  \/ order'[t[1]] = t[3]
             \/ \E s \in audit' : s[1] = t[1] /\ s[2] = t[3]
  <2>1. CASE t = row
    BY <1>2, <2>1
  <2>2. CASE t \in audit /\ t[1] # o
    BY <1>1, <1>2, <2>2 DEF AuditIsAPath
  <2>3. CASE t \in audit /\ t[1] = o
    <3>1. \/ t[3] = from
          \/ \E s \in audit : s[1] = t[1] /\ s[2] = t[3]
      BY <1>1, <2>3 DEF AuditIsAPath
    <3>2. row \in audit' /\ row[1] = t[1] /\ row[2] = from
      BY <1>1, <2>3
    <3> QED
      BY <1>1, <3>1, <3>2
  <2> QED
    BY <1>1, <2>1, <2>2, <2>3
<1> QED
  BY <1>6, <1>7, <1>8 DEF AuditIsAPath

(* The audit rows of an order are the path of its status, for any number   *)
(* of orders: no status is left twice and none is skipped.                 *)
THEOREM AuditTrailIsAPath == Spec => []AuditIsAPath
<1>1. Init => AuditIsAPath /\ LeftBehind
  BY DEF Init, AuditIsAPath, LeftBehind
<1>2. TypeOK /\ AuditIsAPath /\ LeftBehind /\ [Next]_vars => (AuditIsAPath /\ LeftBehind)'
  <2> SUFFICES ASSUME TypeOK, AuditIsAPath, LeftBehind, [Next]_vars
               PROVE  AuditIsAPath' /\ LeftBehind'
    OBVIOUS
  <2>1. CASE UNCHANGED <<order, audit>>
    BY <2>1 DEF AuditIsAPath, LeftBehind
  <2>2. CASE \E o \in Order, from, to \in OrderStatus \cup {"none"} : Moves(o, from, to)
    BY <2>2, MovesKeepThePath
  <2> QED
    BY <2>1, <2>2, StepsMoveOneOrder
<1> QED
  BY <1>1, <1>2, TypeCorrect, PTL DEF Spec
===============================================================================
