------------------------------ MODULE MCCatalogRC ------------------------------
(* A small instance of CatalogRC for TLC: three variant ids, one of which  *)
(* is the product's first, two handlers that edit, upload and confirm.     *)
EXTENDS CatalogRC

CONSTANTS p1, p2, shop, o1, o2, i1

Sessions == Handler \cup {Shop}
Handlers == Permutations(Handler)
Thumb    == <<"thumb">>
===============================================================================
