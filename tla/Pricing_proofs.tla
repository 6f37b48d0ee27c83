---------------------------- MODULE Pricing_proofs ----------------------------
(***************************************************************************)
(* What the amounts of an order satisfy for all prices, coupons, regions   *)
(* and quantities: the arithmetic of money.go, and the invariant that      *)
(* carries it from the quote to the order.                                 *)
(***************************************************************************)
EXTENDS Pricing, FiniteSetTheorems, TLAPS

(* money.go:11: (n + 50) / 100 is n / 100 rounded to the nearest cent,     *)
(* halves up.                                                              *)
THEOREM PercentageIsNearest ==
  ASSUME NEW n \in Nat
  PROVE  Percentage(n) \in Nat /\ Nearest(Percentage(n), n)
<1> DEFINE d == Percentage(n)
<1>1. d \in Nat /\ 100 * d <= n + 50 /\ n + 50 < 100 * d + 100
  BY DEF Percentage
<1>2. ASSUME NEW e \in 0..(d + 1)
      PROVE  Off(d, n) < Off(e, n) \/ (Off(d, n) = Off(e, n) /\ e <= d)
  <2> HIDE DEF d
  <2>1. CASE e = d
    BY <1>1, <2>1 DEF Off
  <2>2. CASE e < d
    BY <1>1, <2>2 DEF Off
  <2>3. CASE e = d + 1
    BY <1>1, <2>3 DEF Off
  <2> QED
    BY <1>1, <2>1, <2>2, <2>3
<1> QED
  BY <1>1, <1>2 DEF Nearest

(* A percentage up to 100 of an amount never exceeds it, rounding included. *)
LEMMA PercentageBounded ==
  ASSUME NEW s \in Nat, NEW v \in 1..100
  PROVE  s * v \in Nat /\ Percentage(s * v) \in Nat /\ Percentage(s * v) <= s
<1>1. s * v \in Nat /\ s * v <= s * 100
  OBVIOUS
<1>2. ASSUME NEW n \in Nat, n <= s * 100
      PROVE  Percentage(n) \in Nat /\ Percentage(n) <= s
  BY <1>2 DEF Percentage
<1> QED
  BY <1>1, <1>2

(* ComputeDiscount on what the table stores.                               *)
LEMMA DiscountBounded ==
  ASSUME NEW t \in Terms, Storable(t), NEW s \in Nat
  PROVE  /\ ComputeDiscount(t, s) \in Nat
         /\ ComputeDiscount(t, s) <= s
         /\ t.type = "percent" => Nearest(ComputeDiscount(t, s), s * t.value)
         /\ t.type = "fixed" => /\ ComputeDiscount(t, s) \in {t.value, s}
                                /\ ComputeDiscount(t, s) <= t.value
<1>1. t.value \in Int
  BY TermsAssumption
<1>2. CASE t.type = "fixed" /\ t.value > 0
  BY <1>1, <1>2 DEF ComputeDiscount, Least
<1>3. CASE t.type = "percent" /\ t.value \in 1..100
  <2>1. s * t.value \in Nat /\ Percentage(s * t.value) \in Nat /\ Percentage(s * t.value) <= s
    BY <1>3, PercentageBounded
  <2>2. ComputeDiscount(t, s) = Percentage(s * t.value)
    BY <1>3, <2>1 DEF ComputeDiscount, Least
  <2>3. Nearest(Percentage(s * t.value), s * t.value)
    BY <2>1, PercentageIsNearest
  <2> QED
    BY <1>3, <2>1, <2>2, <2>3
<1> QED
  BY <1>2, <1>3 DEF Storable

(* ComputeTotal never takes its floor on a discount of at most the goods.  *)
LEMMA TotalBounded ==
  ASSUME NEW s \in Nat, NEW f \in Nat, NEW d \in Nat, d <= s
  PROVE  /\ ComputeTotal(s, f, d) \in Nat
         /\ ComputeTotal(s, f, d) = s + f - d
         /\ ComputeTotal(s, f, d) >= f
BY DEF ComputeTotal

(* pickShipping picks a service, the cheapest one unless asked.            *)
LEMMA ShippingPicked ==
  ASSUME NEW asked \in Service \cup {None}, NEW r \in Region
  PROVE  LET s == PickShipping(asked, r) IN
         /\ s \in Service
         /\ Fee(s, r) \in Nat
         /\ asked # None => s = asked
         /\ asked = None => \A u \in Service : Fee(s, r) <= Fee(u, r)
<1>1. \A u \in Service : Fee(u, r) \in Nat
  BY RegionAssumption DEF Fee
<1>2. \A u \in Service : Fee("pac", r) <= Fee(u, r)
  BY RegionAssumption DEF Fee, Service
<1>3. \E s \in Service : \A u \in Service : Fee(s, r) <= Fee(u, r)
  BY <1>2 DEF Service
<1> QED
  BY <1>1, <1>3 DEF PickShipping

-------------------------------------------------------------------------------
(* Adding up lines: the goods of S cost a finite number of cents, n.       *)
Counted(lines, S, n) == /\ IsFiniteSet(Cents(lines, S))
                        /\ Cardinality(Cents(lines, S)) = n

(* Lines of no unit cost nothing.                                          *)
LEMMA NothingCounted ==
  ASSUME NEW lines \in Cart, NEW S \in SUBSET Variant, \A v \in S : lines[v] = 0
  PROVE  Counted(lines, S, 0)
<1>1. \A v \in S : Price[v] * lines[v] = 0
  BY PriceAssumption
<1>2. \A v \in S : 1..(Price[v] * lines[v]) = {}
  BY <1>1
<1>3. Cents(lines, S) = {}
  BY <1>2, Zenon DEF Cents
<1> QED
  BY <1>3, FS_EmptySet DEF Counted

(* One line more adds its price.                                           *)
LEMMA LineCounted ==
  ASSUME NEW lines \in Cart, NEW S \in SUBSET Variant, NEW v \in Variant \ S,
         NEW n \in Nat, Counted(lines, S, n)
  PROVE  Counted(lines, S \cup {v}, n + Price[v] * lines[v])
<1> DEFINE c == Price[v] * lines[v]
           A == Cents(lines, S)
           B == {v} \X (1..c)
<1>1. c \in Nat
  BY PriceAssumption DEF Cart
<1>2. Cents(lines, S \cup {v}) = A \cup B
  BY Zenon DEF Cents
<1>3. A \cap B = {}
  <2>1. \A u \in A : u[1] \in S
    BY DEF Cents
  <2>2. \A u \in B : u[1] = v
    OBVIOUS
  <2> QED
    BY <2>1, <2>2
<1> HIDE DEF c
<1>4. IsFiniteSet(1..c) /\ Cardinality(1..c) = c
  BY <1>1, FS_Interval
<1>5. IsFiniteSet({v}) /\ Cardinality({v}) = 1
  BY FS_Singleton
<1>6. IsFiniteSet(B) /\ Cardinality(B) = 1 * c
  BY <1>4, <1>5, FS_Product, Zenon
<1>7. IsFiniteSet(A) /\ Cardinality(A) = n
  BY DEF Counted
<1> HIDE DEF A, B
<1>8. /\ IsFiniteSet(A \cup B)
      /\ Cardinality(A \cup B) = Cardinality(A) + Cardinality(B) - Cardinality(A \cap B)
  BY <1>6, <1>7, FS_Union
<1>9. Cardinality(A \cap B) = 0
  BY <1>3, FS_EmptySet
<1>10. Cardinality(A \cup B) = n + c
  BY <1>1, <1>6, <1>7, <1>8, <1>9
<1> QED
  BY <1>2, <1>8, <1>10 DEF Counted, c

-------------------------------------------------------------------------------
(* The inductive invariant.  DiscountIsDue and the like speak of orders    *)
(* only; an order inherits its amounts from an open quote, so that quotes  *)
(* satisfy them first.                                                     *)
Sound(r) == DiscountDue(r) /\ Reconciled(r) /\ FairlyShipped(r)

QuotesSound == \A q \in Quote : quote[q] \in QuoteRow => Sound(quote[q])
OrdersSound == \A q \in Quote : order[q] \in OrderRow =>
                 Sound(order[q]) /\ order[q].charge = order[q].total

(* What a quote in the making has added up, its lines to do left out, and  *)
(* what it and its order keep of it.                                       *)
LinesCounted ==
  \A q \in Quote :
    /\ quote[q] \in Request =>
         Counted(quote[q].lines, Variant \ quote[q].todo, quote[q].subtotal)
    /\ quote[q] \in QuoteRow => Counted(quote[q].lines, Variant, quote[q].subtotal)
    /\ order[q] \in OrderRow => Counted(order[q].items, Variant, order[q].subtotal)

IInv == TypeOK /\ QuotesSound /\ OrdersSound /\ LinesCounted

(* A quote that is confirmed is a stored row, and its coupon exists.       *)
LEMMA OpenQuote ==
  ASSUME IInv, NEW q \in Quote, quote[q].stage = "open"
  PROVE  quote[q] \in QuoteRow /\ Sound(quote[q])
<1>1. quote[q] \in QuoteRow
  BY DEF IInv, TypeOK, Request, NoQuote, None
<1> QED
  BY <1>1 DEF IInv, QuotesSound

(* RedeemCoupon leaves a coupon row with its terms.                        *)
LEMMA Redeemed ==
  ASSUME TypeOK, NEW c \in Code, coupon[c] \in CouponRow, Redeem(c)
  PROVE  /\ coupon' \in [Code -> CouponRow \cup {NoCoupon}]
         /\ \A d \in Code : coupon[d] \in CouponRow =>
              coupon'[d] \in CouponRow /\ coupon'[d].terms = coupon[d].terms
<1>1. [coupon[c] EXCEPT !.used = @ + 1] \in CouponRow
  BY DEF CouponRow
<1> QED
  BY <1>1 DEF Redeem, TypeOK, CouponRow

(* Once stored, a coupon keeps its terms in every step.                    *)
LEMMA CouponsKeepTerms ==
  ASSUME IInv, [Next]_vars
  PROVE  /\ coupon' \in [Code -> CouponRow \cup {NoCoupon}]
         /\ \A d \in Code : coupon[d] \in CouponRow =>
              coupon'[d] \in CouponRow /\ coupon'[d].terms = coupon[d].terms
<1> DEFINE Kept == /\ coupon' \in [Code -> CouponRow \cup {NoCoupon}]
                   /\ \A d \in Code : coupon[d] \in CouponRow =>
                        coupon'[d] \in CouponRow /\ coupon'[d].terms = coupon[d].terms
<1>1. TypeOK
  BY DEF IInv
<1>2. ASSUME UNCHANGED coupon PROVE Kept
  BY <1>1, <1>2 DEF TypeOK
<1>3. ASSUME NEW c \in Code, NEW t \in Terms, CreateCoupon(c, t)
      PROVE  Kept
  <2>1. [terms |-> t, used |-> 0, lapsed |-> FALSE] \in CouponRow
    BY <1>3 DEF CreateCoupon, CouponRow
  <2>2. coupon[c] \notin CouponRow
    BY <1>3 DEF CreateCoupon, CouponRow, NoCoupon
  <2> QED
    BY <1>1, <1>3, <2>1, <2>2 DEF CreateCoupon, TypeOK
<1>4. ASSUME NEW c \in Code, OthersUse(c)
      PROVE  Kept
  <2>1. coupon[c] \in CouponRow
    BY <1>1, <1>4 DEF OthersUse, TypeOK
  <2>2. CASE Redeem(c)
    BY <1>1, <2>1, <2>2, Redeemed
  <2>3. CASE Releasable(coupon[c]) /\ coupon' = [coupon EXCEPT ![c].used = @ - 1]
    <3>1. [coupon[c] EXCEPT !.used = @ - 1] \in CouponRow
      BY <2>1, <2>3 DEF Releasable, CouponRow
    <3> QED
      BY <1>1, <2>3, <3>1 DEF TypeOK, CouponRow
  <2> QED
    BY <1>4, <2>2, <2>3 DEF OthersUse
<1>5. ASSUME NEW c \in Code, CouponLapses(c)
      PROVE  Kept
  <2>1. [coupon[c] EXCEPT !.lapsed = TRUE] \in CouponRow
    BY <1>1, <1>5 DEF CouponLapses, CouponRow, TypeOK
  <2> QED
    BY <1>1, <1>5, <2>1 DEF CouponLapses, TypeOK, CouponRow
<1>6. ASSUME NEW q \in Quote, Confirm(q)
      PROVE  Kept
  <2>1. quote[q] \in QuoteRow /\ Sound(quote[q])
    BY <1>6, OpenQuote DEF Confirm
  <2>2. CASE quote[q].code = None
    BY <1>2, <1>6, <2>2 DEF Confirm
  <2>3. CASE quote[q].code # None
    <3>1. quote[q].code \in Code /\ coupon[quote[q].code] \in CouponRow
      BY <2>1, <2>3 DEF QuoteRow, Sound, DiscountDue
    <3> QED
      BY <1>1, <1>6, <2>3, <3>1, Redeemed DEF Confirm
  <2> QED
    BY <2>2, <2>3
<1> HIDE DEF Kept
<1>7. ASSUME NEW q \in Quote, NEW asked \in Service \cup {None}, NEW code \in Code \cup {None},
             BeginQuote(q, asked, code)
      PROVE  Kept
  BY <1>2, <1>7 DEF BeginQuote
<1>8. ASSUME NEW q \in Quote, PriceLines(q) \/ FinishQuote(q) \/ RefuseQuote(q) \/ QuoteExpires(q)
      PROVE  Kept
  BY <1>2, <1>8 DEF PriceLines, FinishQuote, RefuseQuote, QuoteExpires
<1>9. ASSUME NEW v \in Variant, NEW n \in 0..MaxQty, EditCart(v, n)
      PROVE  Kept
  BY <1>2, <1>9 DEF EditCart
<1>10. ASSUME NEW r \in Region, EditAddress(r)
       PROVE  Kept
  BY <1>2, <1>10 DEF EditAddress
<1>11. ASSUME UNCHANGED vars PROVE Kept
  BY <1>2, <1>11 DEF vars
<1>12. Kept
  BY <1>3, <1>4, <1>5, <1>6, <1>7, <1>8, <1>9, <1>10, <1>11 DEF Next
<1> QED
  BY <1>12 DEF Kept

(* So a sound row stays sound.                                             *)
LEMMA SoundnessKept ==
  ASSUME IInv, [Next]_vars, NEW r, r.code \in Code \cup {None}, Sound(r)
  PROVE  Sound(r)'
<1>1. CASE r.code = None
  BY <1>1 DEF Sound, DiscountDue, Reconciled, FairlyShipped
<1>2. CASE r.code \in Code /\ r.code # None
  <2>1. coupon[r.code] \in CouponRow
    BY <1>2 DEF Sound, DiscountDue
  <2>2. coupon'[r.code] \in CouponRow /\ coupon'[r.code].terms = coupon[r.code].terms
    BY <1>2, <2>1, CouponsKeepTerms
  <2> QED
    BY <1>2, <2>2 DEF Sound, DiscountDue, Reconciled, FairlyShipped
<1> QED
  BY <1>1, <1>2

(* CheckoutService.Quote stores a sound row.                               *)
LEMMA FinishedQuote ==
  ASSUME TypeOK, NEW q \in Quote, FinishQuote(q)
  PROVE  /\ quote' = [quote EXCEPT ![q] = quote'[q]]
         /\ quote'[q] \in QuoteRow
         /\ Sound(quote'[q])
<1> DEFINE w == quote[q]
           service  == PickShipping(w.asked, w.region)
           shipping == Fee(service, w.region)
           discount == IF w.code = None THEN 0
                       ELSE ComputeDiscount(coupon[w.code].terms, w.subtotal)
           total == ComputeTotal(w.subtotal, shipping, discount)
           row == [stage |-> "open", lines |-> w.lines, code |-> w.code, asked |-> w.asked,
                   region |-> w.region, service |-> service, subtotal |-> w.subtotal,
                   shipping |-> shipping, discount |-> discount, total |-> total]
<1>1. quote' = [quote EXCEPT ![q] = row]
  BY DEF FinishQuote
<1>2. w \in Request
  BY DEF FinishQuote, TypeOK, QuoteRow, NoQuote, None
<1>3. /\ w.lines \in Cart /\ w.code \in Code \cup {None} /\ w.asked \in Service \cup {None}
      /\ w.region \in Region /\ w.subtotal \in Nat
  BY <1>2 DEF Request
<1>4. w.code # None => /\ w.code \in Code /\ coupon[w.code] \in CouponRow
                       /\ w.subtotal >= coupon[w.code].terms.min
  BY <1>3 DEF FinishQuote, Applicable, TypeOK
<1>5. w.code # None => coupon[w.code].terms \in Terms /\ Storable(coupon[w.code].terms)
  BY <1>4 DEF CouponRow
<1> HIDE DEF w
<1>6. /\ service \in Service /\ shipping \in Nat
      /\ w.asked # None => service = w.asked
      /\ w.asked = None => \A u \in Service : shipping <= Fee(u, w.region)
  BY <1>3, ShippingPicked
<1> HIDE DEF service, shipping
<1>7. /\ discount \in Nat /\ discount <= w.subtotal
      /\ w.code # None =>
           LET t == coupon[w.code].terms IN
           /\ t.type = "percent" => Nearest(discount, w.subtotal * t.value)
           /\ t.type = "fixed" => discount \in {t.value, w.subtotal} /\ discount <= t.value
  BY <1>3, <1>5, DiscountBounded
<1> HIDE DEF discount
<1>8. total \in Nat /\ total = w.subtotal + shipping - discount /\ total >= shipping
  BY <1>3, <1>6, <1>7, TotalBounded
<1> HIDE DEF total
<1>9. row \in QuoteRow
  BY <1>3, <1>6, <1>7, <1>8 DEF QuoteRow
<1>10. DiscountDue(row)
  <2>1. CASE w.code = None
    BY <2>1 DEF DiscountDue, discount
  <2>2. CASE w.code # None
    BY <2>2, <1>4, <1>7 DEF DiscountDue
  <2> QED
    BY <2>1, <2>2
<1>11. Reconciled(row)
  BY <1>8 DEF Reconciled
<1>12. FairlyShipped(row)
  BY <1>6 DEF FairlyShipped, shipping
<1>13. quote'[q] = row
  BY <1>1 DEF TypeOK
<1> HIDE DEF row
<1> QED
  BY <1>1, <1>9, <1>10, <1>11, <1>12, <1>13 DEF Sound

(* ConfirmTx copies the amounts of a sound quote.                          *)
LEMMA ConfirmedOrder ==
  ASSUME IInv, NEW q \in Quote, Confirm(q)
  PROVE  /\ order' = [order EXCEPT ![q] = order'[q]]
         /\ order'[q] \in OrderRow
         /\ Sound(order'[q])
         /\ order'[q].charge = order'[q].total
<1> DEFINE w == quote[q]
           row == [items |-> w.lines, code |-> w.code, region |-> w.region,
                   service |-> w.service, asked |-> w.asked,
                   subtotal |-> w.subtotal, shipping |-> w.shipping,
                   discount |-> w.discount, total |-> w.total, charge |-> w.total]
<1>1. w \in QuoteRow /\ Sound(w)
  BY OpenQuote DEF Confirm
<1>2. order' = [order EXCEPT ![q] = row] /\ order'[q] = row
  BY DEF Confirm, ShipsTo, IInv, TypeOK
<1>3. row \in OrderRow
  BY <1>1 DEF QuoteRow, OrderRow
<1>4. Sound(row)
  BY <1>1 DEF Sound, DiscountDue, Reconciled, FairlyShipped
<1>5. row.charge = row.total
  OBVIOUS
<1> HIDE DEF row
<1> QED
  BY <1>2, <1>3, <1>4, <1>5

-------------------------------------------------------------------------------
(* Columns keep their types: amounts stay natural numbers, and no coupon   *)
(* the table would refuse is ever stored.                                  *)
LEMMA TypeKept ==
  ASSUME IInv, [Next]_vars
  PROVE  TypeOK'
<1>1. TypeOK
  BY DEF IInv
<1>2. coupon' \in [Code -> CouponRow \cup {NoCoupon}]
  BY CouponsKeepTerms
<1>3. ASSUME NEW v \in Variant, NEW n \in 0..MaxQty, EditCart(v, n)
      PROVE  TypeOK'
  BY <1>1, <1>3 DEF EditCart, TypeOK, Cart
<1>4. ASSUME NEW r \in Region, EditAddress(r)
      PROVE  TypeOK'
  BY <1>1, <1>4 DEF EditAddress, TypeOK
<1>5. ASSUME NEW c \in Code, \/ \E t \in Terms : CreateCoupon(c, t)
                            \/ OthersUse(c) \/ CouponLapses(c)
      PROVE  TypeOK'
  BY <1>1, <1>2, <1>5 DEF CreateCoupon, OthersUse, CouponLapses, TypeOK
<1>6. ASSUME NEW q \in Quote, NEW asked \in Service \cup {None}, NEW code \in Code \cup {None},
             BeginQuote(q, asked, code)
      PROVE  TypeOK'
  <2> DEFINE todo == {v \in Variant : cart[v] > 0}
             row == [stage |-> "pricing", todo |-> todo, lines |-> cart,
                     code |-> code, asked |-> asked, region |-> address, subtotal |-> 0]
  <2>1. row \in Request
    <3>1. todo \subseteq Variant /\ cart \in Cart /\ address \in Region
      BY <1>1 DEF TypeOK
    <3> HIDE DEF todo
    <3> QED
      BY <1>6, <3>1 DEF Request
  <2>2. quote' = [quote EXCEPT ![q] = row]
    BY <1>6 DEF BeginQuote
  <2> HIDE DEF row
  <2> QED
    BY <1>1, <1>6, <2>1, <2>2 DEF BeginQuote, TypeOK
<1>7. ASSUME NEW q \in Quote, PriceLines(q)
      PROVE  TypeOK'
  <2>1. quote[q] \in Request
    BY <1>1, <1>7 DEF PriceLines, QuoteRow, NoQuote, None, TypeOK
  <2>2. PICK v \in quote[q].todo : PriceLine(q, v)
    BY <1>7 DEF PriceLines
  <2>3. v \in Variant /\ Price[v] \in Nat /\ quote[q].lines[v] \in Nat
    BY <2>1, PriceAssumption DEF Request, Cart
  <2>4. Price[v] * quote[q].lines[v] \in Nat
    BY <2>3
  <2> DEFINE cents == Price[v] * quote[q].lines[v]
             row == [quote[q] EXCEPT !.todo = @ \ {v}, !.subtotal = @ + cents]
  <2>5. row \in Request
    <3>1. cents \in Nat
      BY <2>4
    <3> HIDE DEF cents
    <3>2. quote[q].todo \ {v} \in SUBSET Variant /\ quote[q].subtotal + cents \in Nat
      BY <2>1, <3>1 DEF Request
    <3> QED
      BY <2>1, <3>2 DEF Request
  <2>6. quote' = [quote EXCEPT ![q] = row]
    BY <2>2 DEF PriceLine
  <2> HIDE DEF row
  <2> QED
    BY <1>1, <1>7, <2>5, <2>6 DEF PriceLines, TypeOK
<1>8. ASSUME NEW q \in Quote, FinishQuote(q)
      PROVE  TypeOK'
  <2>1. quote' = [quote EXCEPT ![q] = quote'[q]] /\ quote'[q] \in QuoteRow
    BY <1>1, <1>8, FinishedQuote
  <2> QED
    BY <1>1, <1>8, <2>1 DEF FinishQuote, TypeOK
<1>9. ASSUME NEW q \in Quote, RefuseQuote(q)
      PROVE  TypeOK'
  BY <1>1, <1>9 DEF RefuseQuote, TypeOK
<1>10. ASSUME NEW q \in Quote, QuoteExpires(q)
       PROVE  TypeOK'
  <2>1. quote[q] \in QuoteRow
    BY <1>10, OpenQuote DEF QuoteExpires
  <2>2. [quote[q] EXCEPT !.stage = "expired"] \in QuoteRow
    BY <2>1 DEF QuoteRow
  <2> QED
    BY <1>1, <1>10, <2>2 DEF QuoteExpires, TypeOK
<1>11. ASSUME NEW q \in Quote, Confirm(q)
       PROVE  TypeOK'
  <2>1. order' = [order EXCEPT ![q] = order'[q]] /\ order'[q] \in OrderRow
    BY <1>11, ConfirmedOrder
  <2>2. cart' \in Cart
    BY <1>11, PriceAssumption DEF Confirm, Cart
  <2> QED
    BY <1>1, <1>2, <1>11, <2>1, <2>2 DEF Confirm, TypeOK
<1>12. ASSUME UNCHANGED vars
       PROVE  TypeOK'
  BY <1>1, <1>12 DEF vars, TypeOK
<1> QED
  BY <1>3, <1>4, <1>5, <1>6, <1>7, <1>8, <1>9, <1>10, <1>11, <1>12 DEF Next

(* A step leaves a quote as it is, expires it, or stores it sound.         *)
LEMMA QuotesStaySound ==
  ASSUME IInv, [Next]_vars, NEW q \in Quote, quote'[q] \in QuoteRow
  PROVE  Sound(quote[q])' /\ quote'[q].code \in Code \cup {None}
<1>1. TypeOK
  BY DEF IInv
<1>2. PICK r : r = quote'[q]
  OBVIOUS
<1>3. r \in QuoteRow /\ r.code \in Code \cup {None}
  BY <1>2 DEF QuoteRow
<1>4. Sound(r)
  <2>1. CASE quote'[q] = quote[q]
    BY <1>2, <2>1 DEF IInv, QuotesSound
  <2>2. ASSUME NEW p \in Quote, FinishQuote(p), quote'[q] # quote[q]
        PROVE  Sound(r)
    <3>1. q = p
      BY <1>1, <2>2 DEF FinishQuote, TypeOK
    <3> QED
      BY <1>1, <1>2, <2>2, <3>1, FinishedQuote
  <2>3. ASSUME NEW p \in Quote, QuoteExpires(p), quote'[q] # quote[q]
        PROVE  Sound(r)
    <3>1. quote[q] \in QuoteRow /\ Sound(quote[q]) /\ r = [quote[q] EXCEPT !.stage = "expired"]
      BY <1>1, <1>2, <2>3, OpenQuote DEF QuoteExpires, TypeOK
    <3> QED
      BY <3>1 DEF Sound, DiscountDue, Reconciled, FairlyShipped, QuoteRow
  <2>4. ASSUME NEW p \in Quote, NEW asked \in Service \cup {None}, NEW code \in Code \cup {None},
               BeginQuote(p, asked, code)
        PROVE  quote'[q] = quote[q]
    BY <1>1, <1>2, <1>3, <2>4 DEF BeginQuote, TypeOK, QuoteRow
  <2>5. ASSUME NEW p \in Quote, PriceLines(p)
        PROVE  quote'[q] = quote[q]
    <3>1. CASE q = p
      <4>1. quote[p] \in Request
        BY <1>1, <2>5 DEF PriceLines, QuoteRow, NoQuote, None, TypeOK
      <4>2. quote'[p].stage = "pricing"
        BY <1>1, <2>5, <4>1 DEF PriceLines, PriceLine, TypeOK, Request
      <4> QED
        BY <1>2, <1>3, <3>1, <4>2 DEF QuoteRow
    <3>2. CASE q # p
      BY <1>1, <2>5, <3>2 DEF PriceLines, PriceLine, TypeOK
    <3> QED
      BY <3>1, <3>2
  <2>6. ASSUME NEW p \in Quote, RefuseQuote(p)
        PROVE  quote'[q] = quote[q]
    BY <1>1, <1>2, <1>3, <2>6 DEF RefuseQuote, TypeOK, QuoteRow, NoQuote, None
  <2>7. ASSUME UNCHANGED quote
        PROVE  quote'[q] = quote[q]
    BY <2>7
  <2>8. CASE quote'[q] # quote[q]
    <3>1. ~UNCHANGED quote
      BY <2>7, <2>8
    <3>2. \E p \in Quote : FinishQuote(p) \/ QuoteExpires(p)
      BY <2>4, <2>5, <2>6, <2>8, <3>1
         DEF Next, vars, EditCart, EditAddress, CreateCoupon, OthersUse, CouponLapses, Confirm
    <3> QED
      BY <2>2, <2>3, <2>8, <3>2
  <2> QED
    BY <2>1, <2>8
<1>5. Sound(r)'
  BY <1>3, <1>4, SoundnessKept
<1> QED
  BY <1>2, <1>3, <1>5 DEF Sound, DiscountDue, Reconciled, FairlyShipped

(* A step leaves an order as it is or confirms it from a sound quote.      *)
LEMMA OrdersStaySound ==
  ASSUME IInv, [Next]_vars, NEW q \in Quote, order'[q] \in OrderRow
  PROVE  Sound(order[q])' /\ order'[q].charge = order'[q].total
<1>1. TypeOK
  BY DEF IInv
<1>2. PICK r : r = order'[q]
  OBVIOUS
<1>3. r \in OrderRow /\ r.code \in Code \cup {None}
  BY <1>2 DEF OrderRow
<1>4. Sound(r) /\ r.charge = r.total
  <2>1. CASE order'[q] = order[q]
    BY <1>2, <2>1 DEF IInv, OrdersSound
  <2>2. ASSUME NEW p \in Quote, Confirm(p), order'[q] # order[q]
        PROVE  Sound(r) /\ r.charge = r.total
    <3>1. q = p
      BY <1>1, <2>2 DEF Confirm, TypeOK
    <3> QED
      BY <1>2, <2>2, <3>1, ConfirmedOrder
  <2>3. CASE order'[q] # order[q]
    <3>1. \E p \in Quote : Confirm(p)
      BY <2>3 DEF Next, vars, EditCart, EditAddress, CreateCoupon, OthersUse, CouponLapses,
                  BeginQuote, PriceLines, FinishQuote, RefuseQuote, QuoteExpires
    <3> QED
      BY <2>2, <2>3, <3>1
  <2> QED
    BY <2>1, <2>3
<1>5. Sound(r)'
  BY <1>3, <1>4, SoundnessKept
<1> QED
  BY <1>2, <1>4, <1>5 DEF Sound, DiscountDue, Reconciled, FairlyShipped

(* Lines are added up one by one, each once, and nothing else touches a    *)
(* subtotal: the cart the quote read is in its frame.                      *)
LEMMA CountKept ==
  ASSUME IInv, [Next]_vars
  PROVE  LinesCounted'
<1>1. TypeOK /\ LinesCounted
  BY DEF IInv
<1>2. ASSUME UNCHANGED <<quote, order>>
      PROVE  LinesCounted'
  BY <1>1, <1>2 DEF LinesCounted
<1>3. ASSUME NEW q \in Quote, NEW asked \in Service \cup {None}, NEW code \in Code \cup {None},
             BeginQuote(q, asked, code)
      PROVE  LinesCounted'
  <2> DEFINE todo == {v \in Variant : cart[v] > 0}
             row == [stage |-> "pricing", todo |-> todo, lines |-> cart,
                     code |-> code, asked |-> asked, region |-> address, subtotal |-> 0]
  <2>1. cart \in Cart /\ \A v \in Variant \ todo : cart[v] = 0
    BY <1>1, PriceAssumption DEF TypeOK, Cart
  <2>2. Counted(cart, Variant \ todo, 0)
    BY <2>1, NothingCounted
  <2>3. quote' = [quote EXCEPT ![q] = row] /\ order' = order
    BY <1>3 DEF BeginQuote
  <2>4. row.stage = "pricing" /\ row.todo = todo /\ row.lines = cart /\ row.subtotal = 0
    OBVIOUS
  <2> HIDE DEF todo, row
  <2>5. row \notin QuoteRow
    BY <2>4 DEF QuoteRow
  <2> QED
    BY <1>1, <2>2, <2>3, <2>4, <2>5 DEF LinesCounted, TypeOK
<1>4. ASSUME NEW q \in Quote, PriceLines(q)
      PROVE  LinesCounted'
  <2>1. quote[q] \in Request
    BY <1>1, <1>4 DEF PriceLines, QuoteRow, NoQuote, None, TypeOK
  <2>2. PICK v \in quote[q].todo : PriceLine(q, v)
    BY <1>4 DEF PriceLines
  <2>3. PICK w : w = quote[q]
    OBVIOUS
  <2>4. /\ w.lines \in Cart /\ w.todo \in SUBSET Variant /\ w.subtotal \in Nat /\ v \in w.todo
        /\ Counted(w.lines, Variant \ w.todo, w.subtotal)
    BY <1>1, <2>1, <2>2, <2>3 DEF LinesCounted, Request
  <2>5. Counted(w.lines, (Variant \ w.todo) \cup {v}, w.subtotal + Price[v] * w.lines[v])
    BY <2>4, LineCounted
  <2>6. (Variant \ w.todo) \cup {v} = Variant \ (w.todo \ {v})
    BY <2>4
  <2> DEFINE sum == w.subtotal + Price[v] * w.lines[v]
             row == [w EXCEPT !.todo = @ \ {v}, !.subtotal = sum]
  <2>7. Counted(w.lines, Variant \ (w.todo \ {v}), sum)
    BY <2>5, <2>6
  <2>8. quote' = [quote EXCEPT ![q] = row] /\ order' = order
    BY <1>4, <2>2, <2>3 DEF PriceLine, PriceLines
  <2> HIDE DEF sum
  <2>9. /\ row.stage = "pricing" /\ row.todo = w.todo \ {v} /\ row.lines = w.lines
        /\ row.subtotal = sum
    BY <2>1, <2>3 DEF Request
  <2> HIDE DEF row
  <2>10. row \notin QuoteRow
    BY <2>9 DEF QuoteRow
  <2> QED
    BY <1>1, <2>7, <2>8, <2>9, <2>10 DEF LinesCounted, TypeOK
<1>5. ASSUME NEW q \in Quote, FinishQuote(q)
      PROVE  LinesCounted'
  <2>1. quote[q] \in Request /\ quote[q].todo = {} /\ order' = order
    BY <1>1, <1>5 DEF FinishQuote, TypeOK, QuoteRow, NoQuote, None
  <2>2. PICK row : row = quote'[q]
    OBVIOUS
  <2>3. /\ quote' = [quote EXCEPT ![q] = row] /\ row \in QuoteRow
        /\ row.lines = quote[q].lines /\ row.subtotal = quote[q].subtotal
    BY <1>1, <1>5, <2>2, FinishedQuote DEF FinishQuote, TypeOK
  <2>4. Variant \ quote[q].todo = Variant
    BY <2>1
  <2>5. Counted(row.lines, Variant, row.subtotal)
    BY <1>1, <2>1, <2>3, <2>4 DEF LinesCounted
  <2>6. row \notin Request
    BY <2>3 DEF Request, QuoteRow
  <2> QED
    BY <1>1, <2>1, <2>3, <2>5, <2>6 DEF LinesCounted, TypeOK
<1>6. ASSUME NEW q \in Quote, RefuseQuote(q)
      PROVE  LinesCounted'
  BY <1>1, <1>6 DEF RefuseQuote, LinesCounted, TypeOK, Request, QuoteRow, NoQuote, None
<1>7. ASSUME NEW q \in Quote, QuoteExpires(q)
      PROVE  LinesCounted'
  <2>1. quote[q] \in QuoteRow
    BY <1>7, OpenQuote DEF QuoteExpires
  <2>2. PICK row : row = [quote[q] EXCEPT !.stage = "expired"]
    OBVIOUS
  <2>3. row.stage = "expired" /\ row.lines = quote[q].lines /\ row.subtotal = quote[q].subtotal
    BY <2>1, <2>2 DEF QuoteRow
  <2>4. row \notin Request
    BY <2>3 DEF Request
  <2>5. quote' = [quote EXCEPT ![q] = row] /\ order' = order
    BY <1>7, <2>2 DEF QuoteExpires
  <2> QED
    BY <1>1, <2>1, <2>3, <2>4, <2>5 DEF LinesCounted, TypeOK
<1>8. ASSUME NEW q \in Quote, Confirm(q)
      PROVE  LinesCounted'
  <2>1. quote[q] \in QuoteRow
    BY <1>8, OpenQuote DEF Confirm
  <2>2. PICK row : row = order'[q]
    OBVIOUS
  <2>3. /\ order' = [order EXCEPT ![q] = row] /\ quote' = quote
        /\ row.items = quote[q].lines /\ row.subtotal = quote[q].subtotal
    BY <1>1, <1>8, <2>2, ConfirmedOrder DEF Confirm, TypeOK
  <2> QED
    BY <1>1, <2>1, <2>3 DEF LinesCounted, TypeOK
<1>9. CASE UNCHANGED vars
  BY <1>2, <1>9 DEF vars
<1>10. CASE Next
  <2>1. \/ UNCHANGED <<quote, order>>
        \/ \E q \in Quote : \/ \E asked \in Service \cup {None}, code \in Code \cup {None} :
                                  BeginQuote(q, asked, code)
                             \/ PriceLines(q) \/ FinishQuote(q) \/ RefuseQuote(q)
                             \/ QuoteExpires(q) \/ Confirm(q)
    BY <1>10 DEF Next, EditCart, EditAddress, CreateCoupon, OthersUse, CouponLapses
  <2> QED
    BY <1>2, <1>3, <1>4, <1>5, <1>6, <1>7, <1>8, <2>1
<1> QED
  BY <1>9, <1>10

(* The invariant holds in every reachable state.                           *)
THEOREM AmountsSound == Spec => []IInv
<1>1. Init => IInv
  BY RegionAssumption, PriceAssumption
     DEF Init, IInv, TypeOK, QuotesSound, OrdersSound, LinesCounted, Cart, Request, QuoteRow,
         OrderRow, NoQuote, NoOrder, None
<1>2. IInv /\ [Next]_vars => IInv'
  <2> SUFFICES ASSUME IInv, [Next]_vars
               PROVE  IInv'
    OBVIOUS
  <2>1. TypeOK'
    BY TypeKept
  <2>2. QuotesSound'
    BY QuotesStaySound DEF QuotesSound
  <2>3. OrdersSound'
    BY OrdersStaySound DEF OrdersSound
  <2>4. LinesCounted'
    BY CountKept
  <2> QED
    BY <2>1, <2>2, <2>3, <2>4 DEF IInv
<1> QED
  BY <1>1, <1>2, PTL DEF Spec

(* Columns keep their types: amounts stay natural numbers, and no coupon   *)
(* the table would refuse is ever stored.                                  *)
THEOREM TypeCorrect == Spec => []TypeOK
<1>1. IInv => TypeOK
  BY DEF IInv
<1> QED
  BY <1>1, AmountsSound, PTL

(* Every order carries the discount its coupon grants on its goods, to the *)
(* nearest cent and never beyond them.                                     *)
THEOREM DiscountsAreDue == Spec => []DiscountIsDue
<1>1. IInv => DiscountIsDue
  BY DEF IInv, TypeOK, OrdersSound, DiscountIsDue, Placed, Sound
<1> QED
  BY <1>1, AmountsSound, PTL

(* The subtotal of every order is the price of its lines, whatever the     *)
(* shopper does to the cart while the quote prices them.                   *)
THEOREM GoodsAlwaysAddUp == Spec => []GoodsAddUp
<1>1. IInv => GoodsAddUp
  BY DEF IInv, TypeOK, LinesCounted, Counted, GoodsAddUp, Placed
<1> QED
  BY <1>1, AmountsSound, PTL

(* Every order's total is goods plus shipping minus discount, is what was  *)
(* charged, and at least pays the shipping.                                *)
THEOREM TotalsAlwaysReconcile == Spec => []TotalsReconcile
<1>1. IInv => TotalsReconcile
  BY DEF IInv, TypeOK, OrdersSound, TotalsReconcile, Placed, Sound
<1> QED
  BY <1>1, AmountsSound, PTL

(* Every order pays the fee to the address it ships to, the cheapest one   *)
(* unless the shopper asked for another service.                           *)
THEOREM ShippingIsFair == Spec => []ShippingToTheAddress
<1>1. IInv => ShippingToTheAddress
  BY DEF IInv, TypeOK, OrdersSound, ShippingToTheAddress, Placed, Sound
<1> QED
  BY <1>1, AmountsSound, PTL
===============================================================================
