----------------------------- MODULE MCReconcileRC -----------------------------
(* Small instances of ReconcileRC for TLC.  Variants are 1 and 2.          *)
EXTENDS ReconcileRC

CONSTANTS o1, o2, o3, c1, h1, h2, job, shop

Sessions == Hook \cup Jobs \cup {Shop}
Handlers == Permutations(Hook)

Paid(i, o)   == [id |-> i, order |-> o, type |-> "paid", exact |-> TRUE]
Failed(i, o) == [id |-> i, order |-> o, type |-> "failed", exact |-> TRUE]
Wrong(i, o)  == [id |-> i, order |-> o, type |-> "paid", exact |-> FALSE]

NoCoupons == [c \in {} |-> NoLimit]
LimitOne  == c1 :> 1
LimitTwo  == c1 :> 2

Three     == 1 :> 3
TwoOfEach == (1 :> 2) @@ (2 :> 2)

(* Both orders buy one unit of variant 1.                                  *)
SameVariant == {<<o1, 1 :> 1, NoCoupon>>, <<o2, 1 :> 1, NoCoupon>>}

(* Every order buys both variants with the coupon.                         *)
BothVariants == {<<o, (1 :> 1) @@ (2 :> 1), c1>> : o \in {o1, o2, o3}}

(* o1 uses the coupon, o2 uses it or not.                                  *)
WithCoupon  == {<<o1, 1 :> 1, c1>>, <<o2, 1 :> 1, c1>>, <<o2, 1 :> 1, NoCoupon>>}

(* Either order is paid or fails, by one event each; o1's is also reported *)
(* with a wrong amount.                                                    *)
OnePerOrder == {Paid(1, o1), Failed(2, o2), Wrong(3, o1)}
PaidTwice   == {Paid(1, o1), Paid(2, o1)}
PaidOnce    == {Paid(1, o1), Paid(2, o2)}
===============================================================================
