------------------------------ MODULE MCStorefront ------------------------------
(* A small instance of Storefront for TLC: two administrators, a page.     *)
EXTENDS Storefront

CONSTANTS p1, p2, s1, s2, k1, k2, t1, i1, a1, a2, r1, shop

Sessions == Admin \cup {Shop}
Symmetry == Permutations(Product) \cup Permutations(Admin)

Fill(slug, status, skus, images) ==
  [slug |-> slug, tag |-> t1, status |-> status, skus |-> skus, images |-> images]

(* The last two are refused.                                               *)
Forms == {Fill(s1, "published", <<k1, k2>>, 1), Fill(s1, "draft", <<k2>>, 0),
          Fill(s2, "published", <<k1>>, 1),
          Fill(s2, "published", <<k1, k1>>, 0), Fill(s2, "sold out", <<>>, 0)}
=================================================================================
