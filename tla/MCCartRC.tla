-------------------------------- MODULE MCCartRC --------------------------------
(* Small instances of CartRC for TLC: the cap on a line is 2 instead of 99.*)
EXTENDS CartRC

CONSTANTS u1, a1, a2, p1, p2, p3, shop

Sessions == Handler \cup {Shop}
Handlers == Permutations(Handler)

Add(w, v)     == [op |-> "add", owner |-> w, variant |-> v, qty |-> 1]
Update(w, v)  == [op |-> "update", owner |-> w, variant |-> v, qty |-> 2]
TooMany(w, v) == [op |-> "update", owner |-> w, variant |-> v, qty |-> 3]
Drop(w, v)    == [op |-> "remove", owner |-> w, variant |-> v]
Clear(w)      == [op |-> "clear", owner |-> w]
Merge(a, u)   == [op |-> "merge", owner |-> u, anon |-> a]

(* A visitor fills a cart and logs in, from two tabs at once, as a user    *)
(* whose cart is also changed from elsewhere.                              *)
Visit == {Add(a1, 1), Add(a1, 2), Merge(a1, u1),
          Add(u1, 1), Update(u1, 1), TooMany(u1, 1), Drop(u1, 1), Clear(u1)}

TwoThenOne == (u1 :> {1, 2}) @@ (a1 :> {1})
===============================================================================
