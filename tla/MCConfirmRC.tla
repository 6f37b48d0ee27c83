------------------------------ MODULE MCConfirmRC ------------------------------
(* Small instances of ConfirmRC for TLC.  Variants are 1 and 2, carts 1    *)
(* and 2.  No payment is delivered here.                                   *)
EXTENDS ConfirmRC

CONSTANTS o1, o2, o3, c1, u1, u2, k1, k2, q1, q2, p1, p2, shop

Sessions == Client \cup {Shop}
Handlers == Permutations(Client)

Ask(u, k, q) == [user |-> u, key |-> k, quote |-> q]

NoCoupons == [c \in {} |-> NoLimit]
LimitOne  == c1 :> 1

TwoAndOne == (1 :> 2) @@ (2 :> 1)
Three     == 1 :> 3

One    == 1 :> 1
Two    == 1 :> 2
Either == {One, Two}
Both   == {(1 :> 1) @@ (2 :> 1)}

(* Two users, each request sent by either handler and retried; u1's key is *)
(* also reused for the other quote.                                        *)
TwoUsers == {Ask(u1, k1, q1), Ask(u2, k1, q2), Ask(u1, k1, q2)}
(* The same quote under two keys.                                          *)
TwoKeys  == {Ask(u1, k1, q1), Ask(u1, k2, q1)}
===============================================================================
