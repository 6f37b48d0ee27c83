--------------------------------- MODULE Page ---------------------------------
(***************************************************************************)
(* What a page of the public catalog shows of the products in the database *)
(* and what a shopper may rely on: Storefront has the requests that read   *)
(* and change them.                                                        *)
(***************************************************************************)
EXTENDS RowStore, Integers, Sequences

CONSTANT Reader   \* the HTTP handlers of shoppers

VARIABLES
  frames,   \* [requests -> what the request's Go frame remembers]
  forms     \* the forms written to a product's row, in that order

productRow(p) == <<"product", p>>

NoForm    == 0
NoProduct == [form |-> NoForm]

Listed(p) == db[productRow(p)] # NoProduct

Shown == UNION {{frames[r].shown[k] : k \in DOMAIN frames[r].shown} :
                r \in {q \in Reader : frames[q].pc # "idle"}}

SkusOf(n)     == {forms[n].skus[k] : k \in DOMAIN forms[n].skus}
VariantsOf(n) == {<<s, n>> : s \in SkusOf(n)}
ImagesOf(n)   == {<<k, n>> : k \in 1..forms[n].images}
FormsOf(p)    == {n \in 1..Len(forms) : forms[n].product = p /\ forms[n].kept}

(* A page shows uploaded images beside those a form listed.                *)
FormImages(i) == {m \in i.images : m[2] # NoForm}

(* "Update replaces product attributes and rebuilds variants/images        *)
(* atomically", for the shoppers who look on: the variants a page shows    *)
(* are all those of one form that was saved, and the images it shows that  *)
(* came with a form all those of one, never part of a form nor the gap     *)
(* between two; none at all means a form without any, or that the product  *)
(* is gone.  Of uploaded images, which no form lists, it says nothing.     *)
PartsOfOneForm ==
  \A i \in Shown :
    /\ Listed(i.id) => \E n \in FormsOf(i.id) : i.variants = VariantsOf(n)
    /\ i.variants = {} \/ \E n \in FormsOf(i.id) : i.variants = VariantsOf(n)
    /\ FormImages(i) = {} \/ \E n \in FormsOf(i.id) : FormImages(i) = ImagesOf(n)

(* A page mixes the row, variants and images of different edits, but only  *)
(* forwards: no part is older than one it read before, so a product        *)
(* nobody edits meanwhile is shown as it is.                               *)
PagesMoveForward ==
  \A i \in Shown : /\ \A v \in i.variants : i.row <= v[2]
                   /\ \A v \in i.variants, m \in FormImages(i) : v[2] <= m[2]
===============================================================================
