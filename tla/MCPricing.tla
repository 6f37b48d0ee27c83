------------------------------- MODULE MCPricing -------------------------------
(* A small instance of Pricing for TLC: odd prices, so that half a cent is *)
(* rounded, and coupons that are capped, limited, have a minimum or are    *)
(* refused by the table.                                                   *)
EXTENDS Pricing, TLC

CONSTANTS v1, v2

Prices == (v1 :> 1) @@ (v2 :> 13)
CouponTerms ==
  {[type |-> "percent", value |-> 50, limit |-> 0, min |-> 0],
   [type |-> "percent", value |-> 100, limit |-> 1, min |-> 2],
   [type |-> "percent", value |-> 101, limit |-> 0, min |-> 0],
   [type |-> "fixed", value |-> 5, limit |-> 1, min |-> 0],
   [type |-> "fixed", value |-> 0, limit |-> 0, min |-> 14]}
===============================================================================
