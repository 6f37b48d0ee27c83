-------------------------------- MODULE Pricing --------------------------------
(***************************************************************************)
(* The amounts of a checkout: what a quote computes from the cart, the     *)
(* address and a coupon, and what the order confirmed from it charges,     *)
(* while carts, addresses and coupons change.  In cents.                   *)
(*                                                                         *)
(* A variant keeps its price for life: an edit of its product replaces the *)
(* variant (CatalogRC).  ConfirmRC has the statements of a confirm, which  *)
(* is one step here.                                                       *)
(***************************************************************************)
EXTENDS Integers, FiniteSets

CONSTANTS
  Variant,
  Price,        \* [Variant -> cents], GetVariantUnitPrice
  MaxQty,       \* 99, the largest quantity of a cart line
  Region,       \* first digits of postal codes
  Code,
  Terms,        \* the coupons an administrator may ask for
  MaxUses,      \* bound: redemptions counted by a coupon
  Quote         \* quotes, each confirmed as one order or more

ASSUME PriceAssumption == Price \in [Variant -> Nat] /\ IsFiniteSet(Variant) /\ MaxQty \in Nat
ASSUME RegionAssumption == Region \subseteq 0..9

(* What arrives at POST /admin/coupons; a limit or minimum below every     *)
(* amount stands for an absent one.                                        *)
ASSUME TermsAssumption ==
  Terms \subseteq [type : STRING, value : Int, limit : Int, min : Int]

VARIABLES
  cart,      \* [Variant -> quantity], 0 without a line
  address,   \* the region of the user's address
  coupon,    \* [Code -> row of coupons]
  quote,     \* [Quote -> row of checkout_quotes]
  order      \* [Quote -> the amounts of the last order confirmed from it]

vars == <<cart, address, coupon, quote, order>>

None == "none"
NoCoupon == [terms |-> None]
NoQuote  == [stage |-> None]
NoOrder  == [charge |-> None]
Cart     == [Variant -> 0..MaxQty]

Init ==
  /\ cart = [v \in Variant |-> 0]
  /\ address \in Region
  /\ coupon = [c \in Code |-> NoCoupon]
  /\ quote = [q \in Quote |-> NoQuote]
  /\ order = [q \in Quote |-> NoOrder]

-------------------------------------------------------------------------------
(* Coupons.                                                                *)

(* The CHECKs of the table: the handler looks at nothing but the code.     *)
Storable(t) == \/ t.type = "fixed" /\ t.value > 0
               \/ t.type = "percent" /\ t.value \in 1..100

CreateCoupon(c, t) ==
  /\ coupon[c] = NoCoupon
  /\ Storable(t)
  /\ coupon' = [coupon EXCEPT ![c] = [terms |-> t, used |-> 0, lapsed |-> FALSE]]
  /\ UNCHANGED <<cart, address, quote, order>>

HasUses(r) == ~r.lapsed /\ (r.terms.limit > 0 => r.used < r.terms.limit)

(* RedeemCoupon and ReleaseCoupon.                                         *)
Redeem(c) == /\ HasUses(coupon[c]) /\ coupon[c].used < MaxUses
             /\ coupon' = [coupon EXCEPT ![c].used = @ + 1]

ReleasableAlways(r) == TRUE   \* variant: no WHERE used_count > 0

Releasable(r) == r.used > 0

(* Orders of other shoppers redeem the coupon, fail or expire.             *)
OthersUse(c) ==
  /\ coupon[c] # NoCoupon
  /\ \/ Redeem(c)
     \/ Releasable(coupon[c]) /\ coupon' = [coupon EXCEPT ![c].used = @ - 1]
  /\ UNCHANGED <<cart, address, quote, order>>

CouponLapses(c) ==
  /\ coupon[c] # NoCoupon
  /\ coupon' = [coupon EXCEPT ![c].lapsed = TRUE]
  /\ UNCHANGED <<cart, address, quote, order>>

(* CouponService.Validate.                                                 *)
Applicable(r, subtotal) ==
  /\ r # NoCoupon
  /\ HasUses(r)
  /\ subtotal >= r.terms.min

-------------------------------------------------------------------------------
(* Amounts.                                                                *)
Least(a, b) == IF b < a THEN b ELSE a

PercentageDown(n) == n \div 100   \* variant: rounds down

(* n hundredths of a cent, rounded half up.                                *)
Percentage(n) == (n + 50) \div 100

UncappedDiscount(t, subtotal) ==   \* variant: no cap at the subtotal
  IF t.type = "fixed" THEN t.value ELSE Percentage(subtotal * t.value)

ComputeDiscount(t, subtotal) ==
  Least(IF t.type = "fixed" THEN t.value ELSE Percentage(subtotal * t.value), subtotal)

ComputeTotal(subtotal, shipping, discount) ==
  IF subtotal + shipping < discount THEN 0 ELSE subtotal + shipping - discount

(* MockShipping.Quote: what each service asks for a region.                *)
Service == {"pac", "sedex"}
Fee(s, region) == (IF s = "pac" THEN 1990 ELSE 3490) + 10 * region

(* pickShipping: the service asked for, or else the cheapest one.          *)
PickShipping(asked, region) ==
  IF asked # None THEN asked
  ELSE CHOOSE s \in Service : \A t \in Service : Fee(s, region) <= Fee(t, region)

-------------------------------------------------------------------------------
EditCart(v, n) ==
  /\ cart[v] # n
  /\ cart' = [cart EXCEPT ![v] = n]
  /\ UNCHANGED <<address, coupon, quote, order>>

EditAddress(r) ==
  /\ address' = r
  /\ UNCHANGED <<cart, coupon, quote, order>>

(* CheckoutService.Quote: the cart's lines and the address...              *)
BeginQuote(q, asked, code) ==
  /\ quote[q] = NoQuote
  /\ \E v \in Variant : cart[v] > 0
  /\ quote' = [quote EXCEPT ![q] =
       [stage |-> "pricing", todo |-> {v \in Variant : cart[v] > 0}, lines |-> cart,
        code |-> code, asked |-> asked, region |-> address, subtotal |-> 0]]
  /\ UNCHANGED <<cart, address, coupon, order>>

PriceLineOnce(q, v) ==   \* variant: the price of one unit
  quote' = [quote EXCEPT ![q].todo = @ \ {v}, ![q].subtotal = @ + Price[v]]

(* ... the price of each line, multiplied and added up...                  *)
PriceLine(q, v) ==
  quote' = [quote EXCEPT ![q].todo = @ \ {v},
                         ![q].subtotal = @ + Price[v] * quote[q].lines[v]]

PriceLines(q) ==
  /\ quote[q].stage = "pricing"
  /\ \E v \in quote[q].todo : PriceLine(q, v)
  /\ UNCHANGED <<cart, address, coupon, order>>

(* ... shipping, the coupon, the total, and the row.                       *)
FinishQuote(q) ==
  LET w == quote[q]
      service  == PickShipping(w.asked, w.region)
      shipping == Fee(service, w.region)
      discount == IF w.code = None THEN 0
                  ELSE ComputeDiscount(coupon[w.code].terms, w.subtotal) IN
  /\ w.stage = "pricing" /\ w.todo = {}
  /\ w.code # None => Applicable(coupon[w.code], w.subtotal)
  /\ quote' = [quote EXCEPT ![q] =
       [stage |-> "open", lines |-> w.lines, code |-> w.code, asked |-> w.asked,
        region |-> w.region, service |-> service, subtotal |-> w.subtotal,
        shipping |-> shipping, discount |-> discount,
        total |-> ComputeTotal(w.subtotal, shipping, discount)]]
  /\ UNCHANGED <<cart, address, coupon, order>>

(* A variant is gone or the coupon does not apply: nothing is stored.      *)
RefuseQuote(q) ==
  /\ quote[q].stage = "pricing"
  /\ quote' = [quote EXCEPT ![q] = NoQuote]
  /\ UNCHANGED <<cart, address, coupon, order>>

QuoteExpires(q) ==
  /\ quote[q].stage = "open"
  /\ quote' = [quote EXCEPT ![q].stage = "expired"]
  /\ UNCHANGED <<cart, address, coupon, order>>

ShippedTo(q) == address   \* variant: the address as it is now

(* CreateOrder stores the region frozen in the quote.                      *)
ShipsTo(q) == quote[q].region

(* Confirm honours the amounts of an open quote of the cart as it is.      *)
Confirm(q) ==
  /\ quote[q].stage = "open"
  /\ quote[q].lines = cart
  /\ IF quote[q].code = None THEN UNCHANGED coupon ELSE Redeem(quote[q].code)
  /\ cart' = [v \in Variant |-> 0]
  /\ order' = [order EXCEPT ![q] =
       [items |-> quote[q].lines, code |-> quote[q].code, region |-> ShipsTo(q),
        service |-> quote[q].service, asked |-> quote[q].asked,
        subtotal |-> quote[q].subtotal, shipping |-> quote[q].shipping,
        discount |-> quote[q].discount, total |-> quote[q].total, charge |-> quote[q].total]]
  /\ UNCHANGED <<address, quote>>

Next ==
  \/ \E v \in Variant, n \in 0..MaxQty : EditCart(v, n)
  \/ \E r \in Region : EditAddress(r)
  \/ \E c \in Code : \/ \E t \in Terms : CreateCoupon(c, t)
                     \/ OthersUse(c) \/ CouponLapses(c)
  \/ \E q \in Quote : \/ \E asked \in Service \cup {None}, code \in Code \cup {None} :
                           BeginQuote(q, asked, code)
                      \/ PriceLines(q) \/ FinishQuote(q) \/ RefuseQuote(q)
                      \/ QuoteExpires(q) \/ Confirm(q)

Spec == Init /\ [][Next]_vars
-------------------------------------------------------------------------------
CouponRow == [terms : {t \in Terms : Storable(t)}, used : Nat, lapsed : BOOLEAN]
Request   == [stage : {"pricing"}, todo : SUBSET Variant, lines : Cart,
              code : Code \cup {None}, asked : Service \cup {None}, region : Region,
              subtotal : Nat]
QuoteRow  == [stage : {"open", "expired"}, lines : Cart,
              code : Code \cup {None}, asked : Service \cup {None}, region : Region,
              service : Service, subtotal : Nat, shipping : Nat, discount : Nat, total : Nat]
OrderRow  == [items : Cart,
              code : Code \cup {None}, asked : Service \cup {None}, region : Region,
              service : Service, subtotal : Nat, shipping : Nat, discount : Nat, total : Nat,
              charge : Nat]

(* Rows have their columns; stored coupons are legal and their counts      *)
(* never negative, and no quote has a negative amount.                     *)
TypeOK ==
  /\ cart \in Cart
  /\ address \in Region
  /\ coupon \in [Code -> CouponRow \cup {NoCoupon}]
  /\ quote \in [Quote -> Request \cup QuoteRow \cup {NoQuote}]
  /\ order \in [Quote -> OrderRow \cup {NoOrder}]

Placed(q) == order[q] # NoOrder

(* An amount of d cents is n hundredths of a cent rounded to the nearest   *)
(* cent, halves up: no other amount is nearer, none as near is larger.     *)
Off(d, n) == IF 100 * d < n THEN n - 100 * d ELSE 100 * d - n
Nearest(d, n) == \A e \in 0..(d + 1) : Off(d, n) < Off(e, n) \/ (Off(d, n) = Off(e, n) /\ e <= d)

(* The discount of row r is what its coupon, as it stands in the table,    *)
(* grants on r's goods.                                                    *)
DiscountDue(r) ==
  LET t == coupon[r.code].terms IN
  IF r.code = None THEN r.discount = 0
  ELSE /\ coupon[r.code] \in CouponRow
       /\ t.type = "percent" => Nearest(r.discount, r.subtotal * t.value)
       /\ t.type = "fixed" => r.discount \in {t.value, r.subtotal} /\ r.discount <= t.value
       /\ r.discount <= r.subtotal
       /\ r.subtotal >= t.min

Reconciled(r) == /\ r.total = r.subtotal + r.shipping - r.discount
                 /\ r.total >= r.shipping

FairlyShipped(r) == /\ r.shipping = Fee(r.service, r.region)
                    /\ r.asked = None => \A s \in Service : r.shipping <= Fee(s, r.region)
                    /\ r.asked # None => r.service = r.asked

(* Orders keep the discount their coupon grants, to the nearest cent, at   *)
(* most the goods and only above the minimum, although coupons are used up *)
(* and lapse after the quote: nothing ever changes the terms of a coupon.  *)
DiscountIsDue == \A q \in Quote : Placed(q) => DiscountDue(order[q])

(* The cents that the lines of the variants in S cost, each a member.      *)
Cents(lines, S) == UNION {{v} \X (1..(Price[v] * lines[v])) : v \in S}

(* The subtotal an order carries is the price of its lines, although the   *)
(* cart may change while they are priced one by one.                       *)
GoodsAddUp ==
  \A q \in Quote : Placed(q) =>
    order[q].subtotal = Cardinality(Cents(order[q].items, Variant))

(* An order's amounts reconcile with each other and with the charge, and   *)
(* shipping is never discounted.                                           *)
TotalsReconcile ==
  \A q \in Quote : Placed(q) => Reconciled(order[q]) /\ order[q].charge = order[q].total

(* What an order pays for shipping is the fee of its service to the        *)
(* address frozen in the order, whatever became of the user's address; a   *)
(* shopper who asked for none got the cheapest.                            *)
ShippingToTheAddress == \A q \in Quote : Placed(q) => FairlyShipped(order[q])
===============================================================================
