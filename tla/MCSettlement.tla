----------------------------- MODULE MCSettlement -----------------------------
(* Small instances of Settlement for TLC.                                  *)
EXTENDS Settlement, TLC

CONSTANTS o1, o2, v1, v2, c1

TwoAndOne == (v1 :> 2) @@ (v2 :> 1)
LimitOne  == c1 :> 1

Paid(i, o)   == [id |-> i, order |-> o, type |-> "paid", exact |-> TRUE]
Failed(i, o) == [id |-> i, order |-> o, type |-> "failed", exact |-> TRUE]
Wrong(i, o)  == [id |-> i, order |-> o, type |-> "paid", exact |-> FALSE]

(* The first order may be paid or fail; the second be paid, or be reported *)
(* with a wrong amount or an event of another kind.                        *)
TwoOrders == {Paid(1, o1), Failed(2, o1), Paid(3, o2), Wrong(4, o2)}
===============================================================================
