------------------------------ MODULE Storefront ------------------------------
(***************************************************************************)
(* The public catalog, read while administrators change it: a page is a    *)
(* SELECT of product rows and then, product by product, a SELECT of its    *)
(* variants and one of its images, in no transaction; an edit is one       *)
(* transaction that replaces them all, over the rows of RowStore.          *)
(* CatalogRC has what else contends with an edit, and an upload's way to   *)
(* its row; Page has what a page shows, and what it promises.              *)
(***************************************************************************)
EXTENDS Page, SequencesExt

CONSTANTS
  Product,       \* ids
  Slug, Sku,
  Tag,           \* what filters and search terms look at
  Form,          \* what administrators submit
  Image,         \* ids of uploaded images
  MaxImages,     \* bound: images of a form
  MaxLimit,      \* 100, the longest page
  MaxForms,      \* bound: forms that reach the database
  Admin,         \* the HTTP handlers of administrators
  Shop,          \* the session of single statements
  MayCrash       \* handlers that may lose their connection

Status == {"draft", "published", "archived"}

ASSUME FormAssumption == Form \subseteq
  [slug : Slug, tag : Tag, status : STRING, skus : Seq(Sku), images : 0..MaxImages]
ASSUME BoundAssumption == MaxLimit \in Nat \ {0} /\ MaxForms \in Nat /\ MaxImages \in Nat
ASSUME HandlerAssumption == /\ Proc = Admin \cup {Shop} /\ Shop \notin Admin
                            /\ MayCrash \subseteq Admin /\ Admin \cap Reader = {}

vars == <<db, dirty, frames, forms>>

variantRow(p, s) == <<"variant", p, s>>   \* the form it came from, or 0
imageRow(p, n)   == <<"image", p, n>>     \* likewise
uploadRow(p, i)  == <<"upload", p, i>>    \* a row of the same table no form lists: 1, or 0

Position == 1..MaxImages

Idle == [pc |-> "idle"]

variantRows(p) == {variantRow(p, s) : s \in Sku}
imageRows(p)   == {imageRow(p, n) : n \in Position}
uploadRows(p)  == {uploadRow(p, i) : i \in Image}
rowsOf(p)      == {productRow(p)} \cup variantRows(p) \cup imageRows(p) \cup uploadRows(p)
Row            == UNION {rowsOf(p) : p \in Product}

Init ==
  /\ db = [r \in Row |-> IF r[1] = "product" THEN NoProduct ELSE 0]
  /\ dirty = [q \in Proc |-> NoWrites]
  /\ frames = [h \in Admin \cup Reader |-> Idle]
  /\ forms = <<>>

Goto(h, frame) == frames' = [frames EXCEPT ![h] = frame]
Done(h)        == Goto(h, Idle)

-------------------------------------------------------------------------------
(* The statements that write.                                              *)
CreateProduct(p, f, n) == Only(productRow(p),
  [form |-> n, created |-> n, slug |-> f.slug, tag |-> f.tag, status |-> f.status])

(* created_at stays.                                                       *)
UpdateProduct(p, f, n) == Only(productRow(p),
  [form |-> n, created |-> db[productRow(p)].created,
   slug |-> f.slug, tag |-> f.tag, status |-> f.status])

CreateVariant(p, s, n) == Only(variantRow(p, s), n)
CreateImage(p, k, n)   == Only(imageRow(p, k), n)

DeleteVariantsByProduct(p) == [r \in variantRows(p) |-> 0]
KeepImages(p)              == NoWrites    \* variant: only the variants are replaced

(* Uploads committed so far included; the INSERT of a later one is neither *)
(* seen nor kept waiting.                                                  *)
Uploads(p) == {i \in Image : db[uploadRow(p, i)] = 1}

DeleteImagesByProduct(p) == [r \in imageRows(p) \cup {uploadRow(p, i) : i \in Uploads(p)} |-> 0]

(* ON DELETE CASCADE.                                                      *)
DeleteProduct(p) ==
  Together(Only(productRow(p), NoProduct),
           Together(DeleteVariantsByProduct(p), DeleteImagesByProduct(p)))

(* The statements that read, each the committed rows of one moment.        *)
ListVariantsByProduct(p) == {<<s, db[variantRow(p, s)]>> : s \in {t \in Sku : db[variantRow(p, t)] > 0}}

ListImagesByProduct(p) ==
  {<<k, db[imageRow(p, k)]>> : k \in {j \in Position : db[imageRow(p, j)] > 0}}
    \cup {<<i, NoForm>> : i \in Uploads(p)}

GetProductByID(p)   == {q \in {p} : Listed(q)}
GetProductBySlug(s) == {p \in Product : Listed(p) /\ db[productRow(p)].slug = s}

Published == {p \in Product : Listed(p) /\ db[productRow(p)].status = "published"}

(* ORDER BY created_at DESC LIMIT: what is newer than a row on the page is *)
(* above it, and only a full page leaves a row out.                        *)
Newer(p, q) == db[productRow(p)].created > db[productRow(q)].created

Newest(S, limit) ==
  {ids \in BoundedSeq(S, limit) :
     /\ \A k \in DOMAIN ids, p \in S : Newer(p, ids[k]) <=> \E j \in 1..(k - 1) : ids[j] = p
     /\ Range(ids) = S \/ Len(ids) = limit}

ListPublishedProducts(filter, limit) ==
  Newest({p \in Published : filter \in {"any", db[productRow(p)].tag}}, limit)

SearchProducts(term, limit) ==
  Newest({p \in Published : db[productRow(p)].tag = term}, limit)

-------------------------------------------------------------------------------
(* Forms.  AddVariant refuses a second variant of one SKU.                 *)
AddVariant(skus) == IsInjective(skus)

NewProduct(f) == f.status \in Status /\ AddVariant(f.skus)

(* createProduct and updateProduct, up to BEGIN: ids are fresh, and the    *)
(* product of an update was there.                                         *)
Post(a, p, f) ==
  /\ frames[a] = Idle /\ NewProduct(f)
  /\ \A n \in 1..Len(forms) : forms[n].product # p
  /\ \A b \in Admin : frames[b] # Idle => frames[b].product # p
  /\ Goto(a, [pc |-> "insert", product |-> p, form |-> f])
  /\ NoStatement /\ UNCHANGED forms

Put(a, p, f) ==
  /\ frames[a] = Idle /\ NewProduct(f)
  /\ GetProductByID(p) # {}
  /\ Goto(a, [pc |-> "update", product |-> p, form |-> f])
  /\ NoStatement /\ UNCHANGED forms

(* UNIQUE (slug): a writer waits for a transaction that moves a product to *)
(* or from the slug, and fails when another product then has it.           *)
Versions(q) == {Read(b, productRow(q)) : b \in Proc} \ {NoProduct}

Settled(a, p, slug) == \A q \in Product \ {p} :
  Unlocked(a, productRow(q)) \/ slug \notin {v.slug : v \in Versions(q)}

Taken(p, slug) == GetProductBySlug(slug) \ {p} # {}

AutoCommit(a, rows) == CommitWith(a, rows)   \* variant: r.q instead of r.q.WithTx(tx)

InTx(a, rows) == Write(a, rows)

Fails(a) == Rollback(a) /\ Done(a) /\ UNCHANGED forms

(* The rows still to be written, variants before images.                   *)
Children(f) == [k \in 1..Len(f.skus) |-> <<"variant", f.skus[k]>>]
                 \o [k \in 1..f.images |-> <<"image", k>>]

WriteRow(a, rows, pc) ==
  LET f == frames[a].form IN
  /\ InTx(a, rows)
  /\ forms' = Append(forms, [product |-> frames[a].product, kept |-> FALSE,
                             skus |-> f.skus, images |-> f.images])
  /\ Goto(a, [pc |-> pc, product |-> frames[a].product, n |-> Len(forms) + 1, todo |-> Children(f)])

InsertProduct(a) ==
  LET p == frames[a].product  f == frames[a].form IN
  /\ frames[a].pc = "insert" /\ Len(forms) < MaxForms
  /\ Settled(a, p, f.slug)
  /\ IF Taken(p, f.slug) THEN Fails(a)
     ELSE WriteRow(a, CreateProduct(p, f, Len(forms) + 1), "children")

(* Repository.Update: the row, or 500 when it is gone.                     *)
ReplaceProduct(a) ==
  LET p == frames[a].product  f == frames[a].form IN
  /\ frames[a].pc = "update" /\ Len(forms) < MaxForms
  /\ Unlocked(a, productRow(p)) /\ Settled(a, p, f.slug)
  /\ IF ~Listed(p) \/ Taken(p, f.slug) THEN Fails(a)
     ELSE WriteRow(a, UpdateProduct(p, f, Len(forms) + 1), "variants")

ClearVariants(a) ==
  /\ frames[a].pc = "variants"
  /\ InTx(a, DeleteVariantsByProduct(frames[a].product))
  /\ Goto(a, [frames[a] EXCEPT !.pc = "images"]) /\ UNCHANGED forms

ClearImages(a) ==
  /\ frames[a].pc = "images"
  /\ InTx(a, DeleteImagesByProduct(frames[a].product))
  /\ Goto(a, [frames[a] EXCEPT !.pc = "children"]) /\ UNCHANGED forms

PersistChild(a) ==
  LET p == frames[a].product  c == Head(frames[a].todo) IN
  /\ frames[a].pc = "children" /\ frames[a].todo # <<>>
  /\ InTx(a, IF c[1] = "variant" THEN CreateVariant(p, c[2], frames[a].n)
                                 ELSE CreateImage(p, c[2], frames[a].n))
  /\ Goto(a, [frames[a] EXCEPT !.todo = Tail(@)]) /\ UNCHANGED forms

CommitProduct(a) ==
  /\ frames[a].pc = "children" /\ frames[a].todo = <<>>
  /\ Commit(a)
  /\ forms' = [forms EXCEPT ![frames[a].n].kept = TRUE]
  /\ Done(a)

Delete(p) ==
  /\ Listed(p)
  /\ CommitWith(Shop, DeleteProduct(p))
  /\ UNCHANGED <<frames, forms>>

(* The INSERT of an upload, under a fresh id.  Its foreign key locks the   *)
(* product FOR KEY SHARE: it waits for an edit only while that moves the   *)
(* slug, a unique key, and fails when the product is not there.            *)
AttachImage(p, i) ==
  /\ Listed(p) /\ \A v \in Versions(p) : v.slug = db[productRow(p)].slug
  /\ \A q \in Product : i \notin Uploads(q)
  /\ CommitWith(Shop, Only(uploadRow(p, i), 1))
  /\ UNCHANGED <<frames, forms>>

Abort(a) == a \in MayCrash /\ frames[a] # Idle /\ Fails(a)

-------------------------------------------------------------------------------
(* Pages.  The rows of a SELECT are held in memory, then completed one     *)
(* after the other.                                                        *)
ParseLimit(limit) == limit \in 1..MaxLimit

Select(r, ids) ==
  /\ frames[r] = Idle
  /\ Goto(r, [pc |-> "variants", todo |-> [k \in 1..Len(ids) |->
       [id |-> ids[k], row |-> db[productRow(ids[k])].form]], shown |-> <<>>])
  /\ NoStatement /\ UNCHANGED forms

ListPublished(r, filter, limit) ==
  ParseLimit(limit) /\ \E ids \in ListPublishedProducts(filter, limit) : Select(r, ids)

Search(r, term, limit) ==
  ParseLimit(limit) /\ \E ids \in SearchProducts(term, limit) : Select(r, ids)

(* Whatever its status.                                                    *)
GetBySlug(r, slug) == \E p \in GetProductBySlug(slug) : Select(r, <<p>>)

(* What a page shows of a product: its row, variants and images.           *)
mapProduct(item, variants, images) ==
  [id |-> item.id, row |-> item.row, variants |-> variants, images |-> images]

(* hydrateProduct.                                                         *)
HydrateVariants(r) ==
  LET item == Head(frames[r].todo) IN
  /\ frames[r].pc = "variants" /\ frames[r].todo # <<>>
  /\ Goto(r, [pc |-> "images", todo |-> Tail(frames[r].todo), shown |-> Append(frames[r].shown,
       mapProduct(item, ListVariantsByProduct(item.id), {}))])
  /\ NoStatement /\ UNCHANGED forms

HydrateImages(r) ==
  /\ frames[r].pc = "images"
  /\ Goto(r, [frames[r] EXCEPT !.pc = "variants", !.shown[Len(frames[r].shown)].images =
                ListImagesByProduct(Last(frames[r].shown).id)])
  /\ NoStatement /\ UNCHANGED forms

Answer(r) ==
  /\ frames[r].pc = "variants" /\ frames[r].todo = <<>>
  /\ Done(r)
  /\ NoStatement /\ UNCHANGED forms

Next ==
  \/ \E a \in Admin : \/ \E p \in Product, f \in Form : Post(a, p, f) \/ Put(a, p, f)
                      \/ InsertProduct(a) \/ ReplaceProduct(a) \/ ClearVariants(a) \/ ClearImages(a)
                      \/ PersistChild(a) \/ CommitProduct(a) \/ Abort(a)
  \/ \E p \in Product : Delete(p) \/ \E i \in Image : AttachImage(p, i)
  \/ \E r \in Reader :
       \/ \E t \in Tag, n \in 1..MaxLimit + 1 : Search(r, t, n) \/ \E f \in {t, "any"} : ListPublished(r, f, n)
       \/ \E s \in Slug : GetBySlug(r, s)
       \/ HydrateVariants(r) \/ HydrateImages(r) \/ Answer(r)

Spec == Init /\ [][Next]_vars
===============================================================================
