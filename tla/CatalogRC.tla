------------------------------- MODULE CatalogRC -------------------------------
(***************************************************************************)
(* The catalog as its administrators change it while shoppers buy: product *)
(* edits that rebuild the variants, image uploads to object storage, and   *)
(* set-stock with its version, against carts and confirms that refer to    *)
(* the same variants.  One product; edits keep its slug.  Requests with    *)
(* several transactions or calls run step by step over RowStore.           *)
(***************************************************************************)
EXTENDS RowStore, Integers, Sequences, FiniteSetsExt

CONSTANTS
  Variant,            \* 1..N, in the order their ids are minted
  FormSize,           \* how many variants a product form may list
  Order, Image,
  Renditions,         \* what Generate makes: <<"thumb", "medium", "large">>
  Amount,             \* what set-stock sets available to
  MaxVersion,         \* bound: set-stock stops there
  Handler,            \* HTTP handlers that edit, upload and confirm
  Shop,               \* the session of all single statements
  MayCrash            \* handlers that may lose their connection

ASSUME CatalogAssumption ==
  /\ Variant \subseteq Nat \ {0} /\ FormSize \subseteq Nat /\ Amount \subseteq Nat
  /\ MaxVersion \in Nat /\ IsFiniteSet(Order)
ASSUME HandlerAssumption == /\ Proc = Handler \cup {Shop} /\ Shop \notin Handler
                            /\ MayCrash \subseteq Handler

VARIABLES
  at,        \* [Handler -> what the request's Go frame remembers]
  objects,   \* what object storage holds: pairs of an image and a size
  upload,    \* [Image -> how its upload went]
  known      \* [Variant -> the stock the last accepted set-stock answered]

vars == <<db, dirty, at, objects, upload, known>>

product      == <<"product">>          \* "new", "listed" or "deleted"
variantRow(v) == <<"variant", v>>      \* 0 before, the form it came from, -1 after
stockRow(v)  == <<"stock", v>>         \* inventory_stock
lineRow(v)   == <<"line", v>>          \* whether a cart_items row names v
resvRow(o)   == <<"reservation", o>>   \* stock_reservations, and order_items
imageRow(i)  == <<"image", i>>         \* whether catalog_images has the row

NoStock == [available |-> 0, reserved |-> 0, version |-> -1]
NoResv  == [variant |-> 0, status |-> "none"]
Key     == <<"original">> \o Renditions   \* in the order Upload puts them

Idle == [pc |-> "idle", form |-> 0, variant |-> 0, order |-> "none", image |-> "none",
         put |-> 0, seen |-> {}]

variantRows(S) == {variantRow(v) : v \in S}
stockRows(S)   == {stockRow(v) : v \in S}
imageRows(S)   == {imageRow(i) : i \in S}

Row == {product} \cup variantRows(Variant) \cup stockRows(Variant) \cup imageRows(Image)
         \cup {lineRow(v) : v \in Variant} \cup {resvRow(o) : o \in Order}

(* What a row of each table reads before it exists, and after a DELETE.    *)
Empty == [product |-> "new", variant |-> 0, stock |-> NoStock, line |-> FALSE,
          reservation |-> NoResv, image |-> FALSE]
Gone  == [product |-> "deleted", variant |-> -1, stock |-> NoStock, image |-> FALSE]

Delete(rows) == [r \in rows |-> Gone[r[1]]]

Init ==
  /\ db = [r \in Row |-> Empty[r[1]]]
  /\ dirty = [p \in Proc |-> NoWrites]
  /\ at = [p \in Handler |-> Idle]
  /\ objects = {}
  /\ upload = [i \in Image |-> "none"]
  /\ known = [v \in Variant |-> NoStock]

Goto(p, frame) == at' = [at EXCEPT ![p] = frame]
Done(p) == Goto(p, Idle)
Shelf == <<objects, upload>>    \* what only uploads change

-------------------------------------------------------------------------------
(* Foreign keys.  A statement that inserts a reference locks the variant   *)
(* against deletion until its transaction ends, and fails without it.      *)
Live(p, v) == Read(p, variantRow(v)) > 0
LiveVariants(p) == {v \in Variant : Live(p, v)}

ReferUnchecked(p, v) == Unlocked(p, variantRow(v))   \* variant: no foreign key

Refer(p, v) == Unlocked(p, variantRow(v)) /\ Live(p, v)

Holds(q, v) == \E o \in Order : /\ resvRow(o) \in DOMAIN dirty[q]
                               /\ dirty[q][resvRow(o)].variant = v

Deletable(p, v) == /\ Unlocked(p, variantRow(v))
                   /\ \A q \in Proc \ {p} : ~Holds(q, v)

(* ON DELETE RESTRICT of cart_items, whatever the status of the cart, and  *)
(* of stock_reservations and order_items, whatever became of the order.    *)
InCart(p, v) == Read(p, lineRow(v))

SoldOnly(p, v) ==   \* variant: the order_items of settled orders only
  \E o \in Order : Read(p, resvRow(o)).variant = v /\ Read(p, resvRow(o)).status = "committed"

Ordered(p, v) == \E o \in Order : Read(p, resvRow(o)).variant = v

-------------------------------------------------------------------------------
(* Products.                                                               *)

Fresh(n) == {S \in SUBSET {v \in Variant : db[variantRow(v)] = 0} :
               /\ Cardinality(S) = n
               /\ \A v \in S, w \in Variant : db[variantRow(w)] = 0 /\ w < v => w \in S}

(* persistChildren: the variants of one form, under new ids.               *)
NewVariants(S) == [r \in variantRows(S) |-> Min(S)]

(* Repository.Create, whose inserts contend with nothing.                  *)
CreateProduct ==
  /\ db[product] = "new"
  /\ \E n \in FormSize : \E S \in Fresh(n) :
       CommitWith(Shop, Together(NewVariants(S), Only(product, "listed")))
  /\ UNCHANGED <<at, Shelf, known>>

(* DELETE of the product: cascades to variants, their stock, and images,   *)
(* and fails when a cart or an order names a variant.                      *)
DeleteProduct ==
  LET S == LiveVariants(Shop) IN
  /\ db[product] = "listed"
  /\ \A v \in S : Deletable(Shop, v) /\ ~InCart(Shop, v) /\ ~Ordered(Shop, v)
  /\ CommitWith(Shop, Delete({product} \cup variantRows(S) \cup stockRows(S)
                              \cup imageRows(Image)))
  /\ UNCHANGED <<at, Shelf, known>>

(* UpdateProduct: GetByID, outside the transaction.  Bounded by the ids    *)
(* left for the forms under way.                                           *)
UpdateProduct(p, n) ==
  /\ at[p].pc = "idle"
  /\ n + MapThenSumSet(LAMBDA q : at[q].form, Handler)
       <= Cardinality({v \in Variant : db[variantRow(v)] = 0})
  /\ db[product] = "listed"
  /\ Goto(p, [Idle EXCEPT !.pc = "update", !.form = n, !.seen = LiveVariants(p)])
  /\ NoStatement
  /\ UNCHANGED <<Shelf, known>>

(* Repository.Update: BEGIN and UPDATE of the product's row, which keeps   *)
(* other edits out until the end; 500 when it is gone.                     *)
LockProduct(p) ==
  /\ at[p].pc = "update"
  /\ Unlocked(p, product)
  /\ \/ /\ Read(p, product) = "listed"
        /\ Write(p, Only(product, "listed"))
        /\ Goto(p, [at[p] EXCEPT !.pc = "variants"])
     \/ /\ Read(p, product) # "listed"
        /\ NoStatement
        /\ Done(p)
  /\ UNCHANGED <<Shelf, known>>

Fail(p) == Rollback(p) /\ Done(p)

Seen(p) == at[p].seen   \* variant: delete the variants GetByID found

(* DeleteVariantsByProduct: its snapshot is taken after the product's lock.*)
Doomed(p) == LiveVariants(p)

DeleteVariants(p) ==
  /\ at[p].pc = "variants"
  /\ \A v \in Doomed(p) : Deletable(p, v)
  /\ \/ /\ \E v \in Doomed(p) : InCart(p, v)
        /\ Fail(p)
     \/ /\ \A v \in Doomed(p) : ~InCart(p, v)
        /\ Write(p, Delete(variantRows(Doomed(p))))
        /\ Goto(p, [at[p] EXCEPT !.pc = "cascade", !.seen = Doomed(p)])
  /\ UNCHANGED <<Shelf, known>>

(* The same statement's cascade to inventory_stock, then the check of the  *)
(* references that were declared after it.                                 *)
CascadeStock(p) ==
  /\ at[p].pc = "cascade"
  /\ \A v \in at[p].seen : Unlocked(p, stockRow(v))
  /\ \/ /\ \E v \in at[p].seen : Ordered(p, v)
        /\ Fail(p)
     \/ /\ \A v \in at[p].seen : ~Ordered(p, v)
        /\ Write(p, Delete(stockRows(at[p].seen)))
        /\ Goto(p, [at[p] EXCEPT !.pc = "children"])
  /\ UNCHANGED <<Shelf, known>>

(* DeleteImagesByProduct, persistChildren and COMMIT.                      *)
RebuildChildren(p) ==
  /\ at[p].pc = "children"
  /\ \E S \in Fresh(at[p].form) :
       CommitWith(p, Together(NewVariants(S), Delete(imageRows(Image))))
  /\ Done(p)
  /\ UNCHANGED <<Shelf, known>>

-------------------------------------------------------------------------------
(* Shoppers.  A statement that would fail changes nothing and is no step.  *)
AddToCart(v) ==
  /\ Refer(Shop, v)
  /\ ~db[lineRow(v)]
  /\ CommitWith(Shop, Only(lineRow(v), TRUE))
  /\ UNCHANGED <<at, Shelf, known>>

(* RemoveItem, or the deletion of the user with the cart.                  *)
RemoveFromCart(v) ==
  /\ db[lineRow(v)]
  /\ CommitWith(Shop, Only(lineRow(v), FALSE))
  /\ UNCHANGED <<at, Shelf, known>>

Confirming == {at[p].order : p \in Handler}

(* Confirm of a quote for one unit: the cart still has the line when the   *)
(* fingerprint is checked.                                                 *)
Confirm(p, o, v) ==
  /\ at[p].pc = "idle"
  /\ db[resvRow(o)] = NoResv /\ o \notin Confirming
  /\ db[lineRow(v)]
  /\ Goto(p, [Idle EXCEPT !.pc = "reserve", !.order = o, !.variant = v])
  /\ NoStatement
  /\ UNCHANGED <<Shelf, known>>

NotBumped(s, a, r) ==   \* variant: the version counts set-stock only
  [available |-> a, reserved |-> r, version |-> s.version]

(* Every statement on inventory_stock adds one to the version.             *)
Bumped(s, a, r) == [available |-> a, reserved |-> r, version |-> s.version + 1]

Enough(s) == s.available > 0

(* ReserveStock, WHERE available >= qty.                                   *)
ReserveStock(p) ==
  LET s == Read(p, stockRow(at[p].variant)) IN
  /\ at[p].pc = "reserve"
  /\ Unlocked(p, stockRow(at[p].variant))
  /\ \/ /\ Enough(s)
        /\ Write(p, Only(stockRow(at[p].variant), Bumped(s, s.available - 1, s.reserved + 1)))
        /\ Goto(p, [at[p] EXCEPT !.pc = "hold"])
     \/ ~Enough(s) /\ Fail(p)
  /\ UNCHANGED <<Shelf, known>>

(* CreateReservation and CreateOrderItem; a variant deleted meanwhile      *)
(* fails the foreign key.                                                  *)
HoldUnit(p) ==
  LET v == at[p].variant IN
  /\ at[p].pc = "hold"
  /\ Unlocked(p, variantRow(v))
  /\ \/ /\ Live(p, v)
        /\ Write(p, Only(resvRow(at[p].order), [variant |-> v, status |-> "held"]))
        /\ Goto(p, [at[p] EXCEPT !.pc = "order"])
     \/ ~Live(p, v) /\ Fail(p)
  /\ UNCHANGED <<Shelf, known>>

CommitOrder(p) ==
  /\ at[p].pc = "order"
  /\ Commit(p)
  /\ Done(p)
  /\ UNCHANGED <<Shelf, known>>

Returned(status) == IF status = "released" THEN 1 ELSE 0

(* The webhook or the release job settles the reservation (ReconcileRC has *)
(* the statements): WHERE reserved >= qty.                                 *)
Resolve(o, status) ==
  LET v == db[resvRow(o)].variant
      s == db[stockRow(v)] IN
  /\ db[resvRow(o)].status = "held"
  /\ CommitWith(Shop,
       Together(Only(resvRow(o), [variant |-> v, status |-> status]),
                IF s.reserved = 0 THEN NoWrites
                ELSE Only(stockRow(v), Bumped(s, s.available + Returned(status),
                                              s.reserved - 1))))
  /\ UNCHANGED <<at, Shelf, known>>

UpsertAnyVersion(s, expected) == TRUE   \* variant: no WHERE on the version

(* UpsertStock inserts a missing row whatever version is expected.         *)
UpsertMatches(s, expected) == s = NoStock \/ s.version = expected

(* setStock: the version of the last answer, or 0 when the body has none.  *)
SetStock(v, a, expected) ==
  LET s == db[stockRow(v)]
      next == IF s = NoStock THEN [available |-> a, reserved |-> 0, version |-> 0]
                             ELSE Bumped(s, a, s.reserved) IN
  /\ expected \in {0, known[v].version}
  /\ s.version < MaxVersion
  /\ s = NoStock => Refer(Shop, v)
  /\ UpsertMatches(s, expected)
  /\ CommitWith(Shop, Only(stockRow(v), next))
  /\ known' = [known EXCEPT ![v] = next]
  /\ UNCHANGED <<at, Shelf>>

-------------------------------------------------------------------------------
(* ImageService.Upload.                                                    *)
Upload(p, i) ==
  /\ at[p].pc = "idle"
  /\ upload[i] = "none"
  /\ Goto(p, [Idle EXCEPT !.pc = "original", !.image = i])
  /\ upload' = [upload EXCEPT ![i] = "running"]
  /\ NoStatement
  /\ UNCHANGED <<objects, known>>

Stored(p) == {<<at[p].image, Key[k]>> : k \in 1..at[p].put}

PutOk(p) ==
  /\ objects' = objects \cup {<<at[p].image, Key[at[p].put + 1]>>}
  /\ Goto(p, [at[p] EXCEPT !.put = @ + 1, !.pc = "renditions"])
  /\ UNCHANGED upload

RollbackOriginal(p, stray) ==   \* variant: only the original is deleted
  /\ objects' = (objects \ {<<at[p].image, Key[1]>>}) \cup stray
  /\ upload' = [upload EXCEPT ![at[p].image] = IF stray = {} THEN "failed" ELSE "spoiled"]

(* rollback: deletes what was uploaded, best effort; some Deletes fail.    *)
(* `stray` is what the provider stored although its Put failed.            *)
RollbackObjects(p, stray) ==
  \E kept \in SUBSET Stored(p) :
    /\ objects' = (objects \ (Stored(p) \ kept)) \cup stray
    /\ upload' = [upload EXCEPT ![at[p].image] =
                    IF kept \cup stray = {} THEN "failed" ELSE "spoiled"]

PutIgnored(p) ==   \* variant: an error of Put is not looked at
  Goto(p, [at[p] EXCEPT !.put = @ + 1, !.pc = "renditions"]) /\ UNCHANGED Shelf

PutFails(p) ==
  /\ \E stray \in SUBSET {<<at[p].image, Key[at[p].put + 1]>>} : RollbackObjects(p, stray)
  /\ Done(p)

(* Generate rejects the file once the original is stored.                  *)
GenerateFails(p) == at[p].put = 1 /\ RollbackObjects(p, {}) /\ Done(p)

PutObject(p) ==
  /\ at[p].pc \in {"original", "renditions"} /\ at[p].put < Len(Key)
  /\ PutOk(p) \/ PutFails(p) \/ GenerateFails(p)
  /\ NoStatement
  /\ UNCHANGED known

(* AttachImage.  It fails without the product; its answer may be lost      *)
(* after the row is committed, and the objects are rolled back all the     *)
(* same.                                                                   *)
AttachImage(p) ==
  LET i == at[p].image IN
  /\ at[p].pc = "renditions" /\ at[p].put = Len(Key)
  /\ \/ /\ db[product] = "listed"
        /\ CommitWith(Shop, Only(imageRow(i), TRUE))
        /\ upload' = [upload EXCEPT ![i] = "done"]
        /\ UNCHANGED objects
     \/ /\ db[product] # "listed"
        /\ NoStatement
        /\ RollbackObjects(p, {})
     \/ /\ p \in MayCrash /\ db[product] = "listed"
        /\ CommitWith(Shop, Only(imageRow(i), TRUE))
        /\ \E kept \in SUBSET Stored(p) : objects' = objects \ (Stored(p) \ kept)
        /\ upload' = [upload EXCEPT ![i] = "spoiled"]
  /\ Done(p)
  /\ UNCHANGED known

(* CleanupOrphans: the rows of images whose product is gone.  The cascade  *)
(* leaves it none; storage it never touches.                               *)
CleanupOrphans ==
  LET orphans == {i \in Image : db[imageRow(i)] /\ db[product] # "listed"} IN
  /\ CommitWith(Shop, Delete(imageRows(orphans)))
  /\ UNCHANGED <<at, Shelf, known>>

-------------------------------------------------------------------------------
Wants(p) ==
  CASE at[p].pc = "update"   -> {product}
    [] at[p].pc = "variants" -> variantRows(Doomed(p))
    [] at[p].pc = "cascade"  -> stockRows(at[p].seen)
    [] at[p].pc = "reserve"  -> {stockRow(at[p].variant)}
    [] at[p].pc = "hold"     -> {variantRow(at[p].variant)}
    [] OTHER -> {}

(* The process or its connection is lost, or the transaction is the victim *)
(* of a deadlock: a confirm has the stock row and wants the variant, an    *)
(* edit the reverse.                                                       *)
Abort(p) ==
  /\ p \in MayCrash \/ Victim(p, [q \in Handler |-> Wants(q)])
  /\ at[p].pc # "idle"
  /\ Fail(p)
  /\ upload' = IF at[p].image = "none" THEN upload
               ELSE [upload EXCEPT ![at[p].image] = "spoiled"]
  /\ UNCHANGED <<objects, known>>

EditStep(p)    == LockProduct(p) \/ DeleteVariants(p) \/ CascadeStock(p) \/ RebuildChildren(p)
ConfirmStep(p) == ReserveStock(p) \/ HoldUnit(p) \/ CommitOrder(p)
UploadStep(p)  == PutObject(p) \/ AttachImage(p)

Next ==
  \/ CreateProduct \/ DeleteProduct \/ CleanupOrphans
  \/ \E p \in Handler :
       \/ \E n \in FormSize : UpdateProduct(p, n)
       \/ \E o \in Order, v \in Variant : Confirm(p, o, v)
       \/ \E i \in Image : Upload(p, i)
       \/ EditStep(p) \/ ConfirmStep(p) \/ UploadStep(p) \/ Abort(p)
  \/ \E v \in Variant : \/ AddToCart(v) \/ RemoveFromCart(v)
                        \/ \E a \in Amount, e \in 0..MaxVersion : SetStock(v, a, e)
  \/ \E o \in Order : Resolve(o, "committed") \/ Resolve(o, "released")

Spec == Init /\ [][Next]_vars
-------------------------------------------------------------------------------
(* The stock of a variant is deleted with it by cascade.  Still, whatever  *)
(* edits race confirms, carts being emptied and settlements, the units     *)
(* held by reservations are on a stock row that counts them.               *)
HeldUnitsKept ==
  \A v \in Variant : db[stockRow(v)].reserved =
    Cardinality({o \in Order : db[resvRow(o)] = [variant |-> v, status |-> "held"]})

(* Cart lines, reservations and order items always name a variant of the   *)
(* catalog, and images a product: the daily orphan cleanup finds no row.   *)
ReferencesLive ==
  /\ \A v \in Variant : db[lineRow(v)] => db[variantRow(v)] > 0
  /\ \A o \in Order : db[resvRow(o)] # NoResv => db[variantRow(db[resvRow(o)].variant)] > 0
  /\ \A i \in Image : db[imageRow(i)] => db[product] = "listed"

(* Update replaces all variants at once: two edits of the product that     *)
(* started from the same page leave the variants of one form, not a mix.   *)
EditsDoNotMix ==
  \A v, w \in Variant : db[variantRow(v)] > 0 /\ db[variantRow(w)] > 0 =>
    db[variantRow(v)] = db[variantRow(w)]

(* The lost-update guard of set-stock: a set-stock that is accepted        *)
(* overwrites exactly what the last accepted one answered; no reservation, *)
(* sale, release or other admin has come between.                          *)
SetStockSawTheRow ==
  [][\A v \in Variant : known'[v] # known[v] /\ db[stockRow(v)] # NoStock =>
       known[v] = db[stockRow(v)]]_vars

(* An image the catalog shows has its original and every rendition in      *)
(* storage, unless the answer of the attaching statement was lost.         *)
ImagesComplete ==
  \A i \in Image : db[imageRow(i)] /\ upload[i] # "spoiled" =>
    \A k \in 1..Len(Key) : <<i, Key[k]>> \in objects

(* The promise of Upload: after a failure storage is clean, unless a call  *)
(* to storage or the process failed as well.                               *)
FailedUploadIsClean ==
  \A i \in Image : upload[i] = "failed" =>
    ~db[imageRow(i)] /\ \A k \in 1..Len(Key) : <<i, Key[k]>> \notin objects
===============================================================================
