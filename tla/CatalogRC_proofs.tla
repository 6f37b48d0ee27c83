--------------------------- MODULE CatalogRC_proofs ---------------------------
(***************************************************************************)
(* What the catalog guarantees while its product is edited, its images are *)
(* uploaded and its variants are sold, for any number of handlers, forms,  *)
(* variants, orders and images: the run's properties, from one invariant.  *)
(***************************************************************************)
EXTENDS CatalogRC, Page, RowStore_proofs, FiniteSetTheorems

Deleting   == {"cascade", "children"}                \* past DeleteVariants
Editing    == {"variants"} \cup Deleting             \* holds the product's lock
Reserving  == {"hold", "order"}                      \* holds a stock row's lock
Confirmed  == {"reserve"} \cup Reserving
Uploading  == {"original", "renditions"}

Frame == [pc : {"idle", "update"} \cup Editing \cup Confirmed \cup Uploading,
          form : FormSize \cup {0}, variant : Variant \cup {0}, order : Order \cup {"none"},
          image : Image \cup {"none"}, put : Nat, seen : SUBSET Variant]

Stock       == [available : Nat, reserved : Nat, version : Nat]
Reservation == [variant : Variant, status : {"held", "committed", "released"}]

Sold(v) == {o \in Order : db[resvRow(o)] = [variant |-> v, status |-> "held"]}

Living == {v \in Variant : db[variantRow(v)] > 0}

(* What is in storage of image i.                                          *)
In(i) == {x \in objects : x[1] = i}

(* The variants are those of one form of a listed product, and what carts, *)
(* orders and images refer to is there.                                    *)
ReferencesOK == /\ ReferencesLive /\ EditsDoNotMix
                /\ Living # {} => db[product] = "listed"
                /\ \A o \in Order : db[resvRow(o)] \in Reservation \cup {NoResv}

(* A stock row counts the units held, and has the version of the last      *)
(* accepted set-stock only as that set-stock left it.                      *)
StockOK ==
  \A v \in Variant :
    /\ db[stockRow(v)] \in Stock \cup {NoStock}
    /\ db[stockRow(v)].reserved = Cardinality(Sold(v))
    /\ db[stockRow(v)] # NoStock =>
         /\ known[v].version \in Nat /\ known[v].version <= db[stockRow(v)].version
         /\ db[stockRow(v)].version \in {0, known[v].version} => known[v] = db[stockRow(v)]

(* Storage before an upload, after one that failed, and after the others.  *)
ImagesOK ==
  \A i \in Image :
    /\ upload[i] \in {"none", "running", "failed", "done", "spoiled"}
    /\ upload[i] \in {"none", "running", "failed"} => ~db[imageRow(i)]
    /\ upload[i] \in {"none", "failed"} => In(i) = {}
    /\ upload[i] = "done" => \A k \in 1..Len(Key) : <<i, Key[k]>> \in objects

(* An edit holds the product, and past DeleteVariants every variant there  *)
(* is, none of them in a cart; past the cascade, none in an order either.  *)
EditOK(p) ==
  /\ db[product] = "listed" /\ dirty[p][product] = "listed"
  /\ DOMAIN dirty[p] =
       {product} \cup {r \in variantRows(at[p].seen) : at[p].pc \in Deleting}
                 \cup {r \in stockRows(at[p].seen) : at[p].pc = "children"}
  /\ at[p].pc \in Deleting =>
       /\ at[p].seen = Living
       /\ \A v \in at[p].seen : dirty[p][variantRow(v)] = -1 /\ ~db[lineRow(v)]
  /\ at[p].pc = "children" =>
       \A v \in at[p].seen : /\ dirty[p][stockRow(v)] = NoStock
                             /\ \A o \in Order : db[resvRow(o)].variant # v

(* A confirm's stock row is one unit off the committed one, which cannot   *)
(* change under it; nor can the variant go once the order names it.        *)
ConfirmOK(p) ==
  LET v == at[p].variant
      o == at[p].order
      s == db[stockRow(v)] IN
  /\ v \in Variant /\ o \in Order /\ db[resvRow(o)] = NoResv
  /\ at[p].pc \in Reserving =>
       /\ DOMAIN dirty[p] = {stockRow(v)} \cup {r \in {resvRow(o)} : at[p].pc = "order"}
       /\ Enough(s) /\ dirty[p][stockRow(v)] = Bumped(s, s.available - 1, s.reserved + 1)
  /\ at[p].pc = "order" =>
       /\ dirty[p][resvRow(o)] = [variant |-> v, status |-> "held"]
       /\ v \in Living

(* An upload under way owns its image, and knows what it has stored.       *)
UploadOK(p) == /\ at[p].image \in Image /\ upload[at[p].image] = "running"
               /\ In(at[p].image) = Stored(p)

HandlerOK(p) ==
  /\ at[p] \in Frame
  /\ at[p].pc \in Editing => EditOK(p)
  /\ at[p].pc \in Confirmed => ConfirmOK(p)
  /\ at[p].pc \in Uploading => UploadOK(p)
  /\ at[p].pc \notin Uploading => at[p].image = "none"
  /\ at[p].pc \notin Editing \cup Reserving => dirty[p] = NoWrites

(* Two handlers never work on one order or image, and no variant gets into *)
(* an order while an edit deletes it.                                      *)
Apart(p, q) ==
  /\ at[p].pc \in Confirmed /\ at[q].pc \in Confirmed => at[p].order # at[q].order
  /\ at[p].pc \in Uploading /\ at[q].pc \in Uploading => at[p].image # at[q].image
  /\ at[p].pc \in Deleting /\ at[q].pc = "order" => at[q].variant \notin at[p].seen

IInv == /\ StoreOf(Row) /\ LocksExclusive
        /\ ReferencesOK /\ StockOK /\ ImagesOK
        /\ DOMAIN at = Handler /\ DOMAIN upload = Image /\ DOMAIN known = Variant
        /\ \A p \in Handler : HandlerOK(p)
        /\ \A p, q \in Handler : p # q => Apart(p, q)
        /\ dirty[Shop] = NoWrites

(* A row's name tells its table and its key.                               *)
LEMMA RowNames ==
  /\ product[1] = "product"
  /\ \A v : /\ variantRow(v)[1] = "variant" /\ variantRow(v)[2] = v
            /\ stockRow(v)[1] = "stock" /\ stockRow(v)[2] = v
            /\ lineRow(v)[1] = "line" /\ lineRow(v)[2] = v
  /\ \A o : resvRow(o)[1] = "reservation" /\ resvRow(o)[2] = o
  /\ \A i : imageRow(i)[1] = "image" /\ imageRow(i)[2] = i
BY DEF product, variantRow, stockRow, lineRow, resvRow, imageRow

(* The rows there are.                                                     *)
LEMMA RowsThere ==
  /\ product \in Row
  /\ \A v \in Variant : variantRow(v) \in Row /\ stockRow(v) \in Row /\ lineRow(v) \in Row
  /\ \A o \in Order : resvRow(o) \in Row
  /\ \A i \in Image : imageRow(i) \in Row
  /\ variantRows(Variant) \subseteq Row /\ stockRows(Variant) \subseteq Row
  /\ imageRows(Image) \subseteq Row
BY DEF Row, variantRows, stockRows, imageRows

(* Which rows the sets of rows hold.                                       *)
LEMMA RowSets ==
  ASSUME NEW T
  PROVE  /\ \A r \in variantRows(T) : r[1] = "variant" /\ r[2] \in T
         /\ \A r \in stockRows(T) : r[1] = "stock" /\ r[2] \in T
         /\ \A r \in imageRows(T) : r[1] = "image" /\ r[2] \in T
         /\ \A v : /\ variantRow(v) \in variantRows(T) <=> v \in T
                   /\ stockRow(v) \in stockRows(T) <=> v \in T
                   /\ imageRow(v) \in imageRows(T) <=> v \in T
BY RowNames DEF variantRows, stockRows, imageRows

(* A statement that writes one row.                                        *)
LEMMA OnlyRow ==
  ASSUME NEW row, NEW value
  PROVE  DOMAIN Only(row, value) = {row} /\ Only(row, value)[row] = value
BY DEF Only

(* What a deleted row reads.                                               *)
LEMMA DeletedRows ==
  ASSUME NEW rows
  PROVE  /\ DOMAIN Delete(rows) = rows
         /\ \A r \in rows : /\ r[1] = "product" => Delete(rows)[r] = "deleted"
                            /\ r[1] = "variant" => Delete(rows)[r] = -1
                            /\ r[1] = "stock" => Delete(rows)[r] = NoStock
                            /\ r[1] = "image" => Delete(rows)[r] = FALSE
BY DEF Delete, Gone

(* What the deleted variants, stock rows and images of a set read.         *)
LEMMA DeletedSets ==
  ASSUME NEW T
  PROVE  /\ DOMAIN Delete(variantRows(T)) = variantRows(T)
         /\ \A r \in variantRows(T) : Delete(variantRows(T))[r] = -1
         /\ DOMAIN Delete(stockRows(T)) = stockRows(T)
         /\ \A r \in stockRows(T) : Delete(stockRows(T))[r] = NoStock
         /\ DOMAIN Delete(imageRows(T)) = imageRows(T)
         /\ \A r \in imageRows(T) : Delete(imageRows(T))[r] = FALSE
<1>1. \A r \in variantRows(T) : Delete(variantRows(T))[r] = -1
  <2> SUFFICES ASSUME NEW r \in variantRows(T) PROVE Delete(variantRows(T))[r] = -1
    OBVIOUS
  <2>1. r[1] = "variant"
    BY RowSets
  <2> QED
    BY <2>1 DEF Delete, Gone
<1>2. \A r \in stockRows(T) : Delete(stockRows(T))[r] = NoStock
  <2> SUFFICES ASSUME NEW r \in stockRows(T) PROVE Delete(stockRows(T))[r] = NoStock
    OBVIOUS
  <2>1. r[1] = "stock"
    BY RowSets
  <2> QED
    BY <2>1 DEF Delete, Gone
<1>3. \A r \in imageRows(T) : Delete(imageRows(T))[r] = FALSE
  <2> SUFFICES ASSUME NEW r \in imageRows(T) PROVE Delete(imageRows(T))[r] = FALSE
    OBVIOUS
  <2>1. r[1] = "image"
    BY RowSets
  <2> QED
    BY <2>1 DEF Delete, Gone
<1> QED
  BY <1>1, <1>2, <1>3 DEF Delete

(* No row, no stock: the values of the rows that are not there.            *)
LEMMA NoRowValues ==
  /\ NoStock \notin Stock /\ NoStock.reserved = 0 /\ NoStock.available = 0
  /\ NoStock.version = -1
  /\ NoResv \notin Reservation /\ NoResv.variant \notin Variant /\ NoResv.status = "none"
  /\ \A x \in Stock : x.available \in Nat /\ x.reserved \in Nat /\ x.version \in Nat
  /\ \A x \in Reservation : x.variant \in Variant
BY CatalogAssumption DEF NoStock, NoResv, Stock, Reservation

(* The invariant holds at the start.                                       *)
LEMMA InitOK == Init => IInv
<1> SUFFICES ASSUME Init PROVE IInv
  OBVIOUS
<1>1. \A r \in Row : db[r] = Empty[r[1]]
  BY DEF Init
<1>2. /\ Empty["product"] = "new" /\ Empty["variant"] = 0 /\ Empty["stock"] = NoStock
      /\ Empty["line"] = FALSE /\ Empty["reservation"] = NoResv /\ Empty["image"] = FALSE
  BY DEF Empty
<1>3. DOMAIN NoWrites = {}
  BY DEF NoWrites
<1>4. StoreOf(Row) /\ LocksExclusive /\ dirty[Shop] = NoWrites
  BY <1>3, HandlerAssumption DEF Init, StoreOf, LocksExclusive
<1>5. ASSUME NEW v \in Variant
      PROVE  db[variantRow(v)] = 0 /\ db[stockRow(v)] = NoStock /\ ~db[lineRow(v)]
  <2>1. /\ variantRow(v) \in Row /\ stockRow(v) \in Row /\ lineRow(v) \in Row
        /\ variantRow(v)[1] = "variant" /\ stockRow(v)[1] = "stock" /\ lineRow(v)[1] = "line"
    BY RowNames, RowsThere
  <2> QED
    BY <1>1, <1>2, <2>1
<1>6. ASSUME NEW o \in Order PROVE db[resvRow(o)] = NoResv
  <2>1. resvRow(o) \in Row /\ resvRow(o)[1] = "reservation"
    BY RowNames, RowsThere
  <2> QED
    BY <1>1, <1>2, <2>1
<1>7. ASSUME NEW i \in Image PROVE ~db[imageRow(i)]
  <2>1. imageRow(i) \in Row /\ imageRow(i)[1] = "image"
    BY RowNames, RowsThere
  <2> QED
    BY <1>1, <1>2, <2>1
<1>8. ReferencesOK
  <2>1. Living = {}
    BY <1>5 DEF Living
  <2> QED
    BY <1>5, <1>6, <1>7, <2>1 DEF ReferencesOK, ReferencesLive, EditsDoNotMix
<1>9. StockOK
  <2>1. \A v \in Variant : Sold(v) = {}
    BY <1>6 DEF Sold, NoResv
  <2> QED
    BY <1>5, <2>1, NoRowValues, FS_EmptySet DEF StockOK
<1>10. ImagesOK
  BY <1>7 DEF ImagesOK, Init, In
<1>11. ASSUME NEW p \in Handler PROVE HandlerOK(p) /\ at[p].pc = "idle"
  <2>1. /\ at[p] = Idle /\ Idle.pc = "idle" /\ Idle.image = "none"
        /\ dirty[p] = NoWrites
    BY HandlerAssumption DEF Init, Idle
  <2>2. Idle \in Frame
    BY DEF Idle, Frame
  <2> QED
    BY <2>1, <2>2 DEF HandlerOK, Editing, Deleting, Confirmed, Reserving, Uploading
<1>12. \A p, q \in Handler : Apart(p, q)
  BY <1>11 DEF Apart, Deleting, Confirmed, Reserving, Uploading
<1>13. DOMAIN at = Handler /\ DOMAIN upload = Image /\ DOMAIN known = Variant
  BY DEF Init
<1> QED
  BY <1>4, <1>8, <1>9, <1>10, <1>11, <1>12, <1>13 DEF IInv

(* A handler keeps its place in a step that leaves it, its locked rows,    *)
(* its order, its image and what it saw of the catalog alone.              *)
LEMMA OthersKeep ==
  ASSUME NEW q \in Handler, HandlerOK(q), at'[q] = at[q], dirty'[q] = dirty[q],
         \A r \in DOMAIN dirty[q] : db'[r] = db[r],
         at[q].pc \in Deleting =>
           /\ Living' = Living
           /\ \A v \in at[q].seen : db'[lineRow(v)] => db[lineRow(v)]
           /\ \A o \in Order : db'[resvRow(o)].variant \in at[q].seen =>
                                 db'[resvRow(o)].variant = db[resvRow(o)].variant,
         at[q].pc \in Confirmed => db'[resvRow(at[q].order)] = db[resvRow(at[q].order)],
         at[q].pc = "order" => at[q].variant \in Living',
         at[q].pc \in Uploading =>
           /\ upload'[at[q].image] = upload[at[q].image]
           /\ In(at[q].image)' = In(at[q].image)
  PROVE  HandlerOK(q)'
<1>1. ASSUME at[q].pc \in Editing PROVE EditOK(q)'
  <2>1. EditOK(q)
    BY <1>1 DEF HandlerOK
  <2>2. product \in DOMAIN dirty[q]
    BY <2>1 DEF EditOK
  <2> QED
    BY <2>1, <2>2 DEF EditOK, Deleting
<1>2. ASSUME at[q].pc \in Confirmed PROVE ConfirmOK(q)'
  <2>1. ConfirmOK(q)
    BY <1>2 DEF HandlerOK
  <2>2. at[q].pc \in Reserving => stockRow(at[q].variant) \in DOMAIN dirty[q]
    BY <2>1 DEF ConfirmOK
  <2> QED
    BY <1>2, <2>1, <2>2 DEF ConfirmOK
<1>3. ASSUME at[q].pc \in Uploading PROVE UploadOK(q)'
  <2>1. UploadOK(q)
    BY <1>3 DEF HandlerOK
  <2>2. Stored(q)' = Stored(q)
    BY DEF Stored
  <2> QED
    BY <1>3, <2>1, <2>2 DEF UploadOK
<1> QED
  BY <1>1, <1>2, <1>3 DEF HandlerOK

(* A handler that is idle again.                                           *)
LEMMA IdleOK ==
  ASSUME NEW p \in Handler, at'[p] = Idle, dirty'[p] = NoWrites
  PROVE  HandlerOK(p)' /\ \A q \in Handler : Apart(p, q)' /\ Apart(q, p)'
<1>1. Idle.pc = "idle" /\ Idle.image = "none" /\ Idle \in Frame
  BY DEF Idle, Frame
<1> QED
  BY <1>1 DEF HandlerOK, Apart, Editing, Deleting, Confirmed, Reserving, Uploading

(* What the checks of a statement or the invariant say of the catalog when *)
(* its variants stay and what refers to them is there.                     *)
LEMMA KeepReferences ==
  ASSUME ReferencesOK, db'[product] = db[product],
         \A v \in Variant : db'[variantRow(v)] = db[variantRow(v)],
         \A v \in Variant : db'[lineRow(v)] => v \in Living,
         \A o \in Order : \/ db'[resvRow(o)] = NoResv
                          \/ /\ db'[resvRow(o)] \in Reservation
                             /\ db'[resvRow(o)].variant \in Living,
         \A i \in Image : db'[imageRow(i)] => db[product] = "listed"
  PROVE  ReferencesOK' /\ Living' = Living
<1>1. Living' = Living
  BY DEF Living
<1>2. ReferencesLive'
  <2>1. \A o \in Order : db'[resvRow(o)] # NoResv =>
          db'[variantRow(db'[resvRow(o)].variant)] > 0
    BY <1>1 DEF Living
  <2>2. \A v \in Variant : db'[lineRow(v)] => db'[variantRow(v)] > 0
    BY <1>1 DEF Living
  <2> QED
    BY <2>1, <2>2 DEF ReferencesLive
<1>3. EditsDoNotMix'
  BY DEF ReferencesOK, EditsDoNotMix
<1> QED
  BY <1>1, <1>2, <1>3 DEF ReferencesOK

(* What the invariant says of the references.                              *)
LEMMA References ==
  ASSUME ReferencesOK
  PROVE  /\ \A v \in Variant : db[lineRow(v)] => v \in Living
         /\ \A o \in Order : \/ db[resvRow(o)] = NoResv
                             \/ /\ db[resvRow(o)] \in Reservation
                                /\ db[resvRow(o)].variant \in Living
         /\ \A i \in Image : db[imageRow(i)] => db[product] = "listed"
BY NoRowValues DEF ReferencesOK, ReferencesLive, Living

(* Stock rows and reservations that stay as they are keep counting.        *)
LEMMA KeepStock ==
  ASSUME StockOK, known' = known,
         \A v \in Variant : db'[stockRow(v)] = db[stockRow(v)],
         \A o \in Order : db'[resvRow(o)] = db[resvRow(o)]
  PROVE  StockOK'
<1>1. \A v \in Variant : Sold(v)' = Sold(v)
  BY DEF Sold
<1> QED
  BY <1>1 DEF StockOK

(* Storage stays as it should while image rows only go.                    *)
LEMMA KeepImages ==
  ASSUME ImagesOK, objects' = objects, upload' = upload,
         \A i \in Image : db'[imageRow(i)] => db[imageRow(i)]
  PROVE  ImagesOK'
<1>1. \A i \in Image : In(i)' = In(i)
  BY DEF In
<1> QED
  BY <1>1 DEF ImagesOK

(* A step that moves p's frame to f.                                       *)
LEMMA GotoEffect ==
  ASSUME IInv, NEW p \in Handler, NEW f, Goto(p, f)
  PROVE  /\ DOMAIN at' = Handler /\ at'[p] = f
         /\ \A q \in Handler \ {p} : at'[q] = at[q]
BY DEF IInv, Goto

(* A step of p that commits nothing keeps the invariant when p's own part, *)
(* the images and the other uploads are right after it.                    *)
LEMMA StepKeeps ==
  ASSUME IInv, NEW p \in Handler, NEW f, Goto(p, f),
         StoreOf(Row)', LocksExclusive', db' = db, known' = known,
         \A q \in Proc \ {p} : dirty'[q] = dirty[q],
         HandlerOK(p)', \A q \in Handler \ {p} : Apart(p, q)' /\ Apart(q, p)',
         ImagesOK', DOMAIN upload' = Image,
         \A q \in Handler \ {p} : at[q].pc \in Uploading =>
           /\ upload'[at[q].image] = upload[at[q].image]
           /\ In(at[q].image)' = In(at[q].image)
  PROVE  IInv'
<1>1. /\ DOMAIN at' = Handler /\ at'[p] = f
      /\ \A q \in Handler \ {p} : at'[q] = at[q]
  BY GotoEffect
<1>2. Living' = Living
  BY DEF Living
<1>3. ASSUME NEW q \in Handler \ {p} PROVE HandlerOK(q)'
  <2>1. /\ HandlerOK(q) /\ at'[q] = at[q] /\ dirty'[q] = dirty[q]
        /\ at[q].pc = "order" => at[q].variant \in Living
    BY <1>1, HandlerAssumption DEF IInv, HandlerOK, ConfirmOK, Confirmed, Reserving
  <2> QED
    BY <1>2, <2>1, OthersKeep
<1>4. \A q, r \in Handler : q # r => Apart(q, r)'
  BY <1>1 DEF IInv, Apart
<1>5. ReferencesOK' /\ StockOK'
  BY <1>2, References, KeepReferences, KeepStock DEF IInv
<1>6. dirty'[Shop] = NoWrites
  BY HandlerAssumption DEF IInv
<1> QED
  BY <1>1, <1>3, <1>4, <1>5, <1>6 DEF IInv

(* The same when the step leaves storage and the uploads alone.            *)
LEMMA QuietStep ==
  ASSUME IInv, NEW p \in Handler, NEW f, Goto(p, f),
         StoreOf(Row)', LocksExclusive', db' = db, UNCHANGED <<Shelf, known>>,
         \A q \in Proc \ {p} : dirty'[q] = dirty[q],
         HandlerOK(p)', \A q \in Handler \ {p} : Apart(p, q)' /\ Apart(q, p)'
  PROVE  IInv'
<1>1. objects' = objects /\ upload' = upload /\ known' = known
  BY DEF Shelf
<1>2. \A q \in Handler \ {p} : In(at[q].image)' = In(at[q].image)
  BY <1>1, GotoEffect DEF In
<1>3. ImagesOK' /\ DOMAIN upload' = Image
  BY <1>1, KeepImages DEF IInv
<1> QED
  BY <1>1, <1>2, <1>3, StepKeeps

(* So does a statement that writes rows and moves on.                      *)
LEMMA WriteKeeps ==
  ASSUME IInv, NEW p \in Handler, NEW rows, NEW f, Write(p, rows), Goto(p, f),
         DOMAIN rows \subseteq Row, UNCHANGED <<Shelf, known>>,
         HandlerOK(p)', \A q \in Handler \ {p} : Apart(p, q)' /\ Apart(q, p)'
  PROVE  IInv'
<1>1. /\ StoreOf(Row)' /\ LocksExclusive' /\ db' = db
      /\ \A q \in Proc \ {p} : dirty'[q] = dirty[q]
  BY WriteRows, HandlerAssumption DEF IInv
<1> QED
  BY <1>1, QuietStep

(* A statement that fails ends the transaction and the request.            *)
LEMMA FailKeeps ==
  ASSUME IInv, NEW p \in Handler, Fail(p), UNCHANGED <<Shelf, known>>
  PROVE  IInv'
<1>1. Rollback(p) /\ Goto(p, Idle) /\ p \in Proc
  BY HandlerAssumption DEF Fail, Done
<1>2. /\ StoreOf(Row)' /\ LocksExclusive' /\ db' = db /\ dirty'[p] = NoWrites
      /\ \A q \in Proc \ {p} : dirty'[q] = dirty[q]
  BY <1>1, RollbackRows DEF IInv
<1>3. at'[p] = Idle
  BY <1>1, GotoEffect
<1> QED
  BY <1>1, <1>2, <1>3, IdleOK, QuietStep

(* A request that does not read or write rows of its own.                  *)
LEMMA NoStatementStore ==
  ASSUME IInv, NoStatement
  PROVE  StoreOf(Row)' /\ LocksExclusive' /\ db' = db /\ dirty' = dirty
BY DEF IInv, NoStatement, StoreOf, LocksExclusive

(* A frame that goes on with the same order, image and deletions.          *)
LEMMA MovesOn ==
  ASSUME IInv, NEW p \in Handler, NEW f, Goto(p, f),
         f.pc \in Confirmed => at[p].pc \in Confirmed /\ f.order = at[p].order,
         f.pc \in Uploading => at[p].pc \in Uploading /\ f.image = at[p].image,
         f.pc \in Deleting => at[p].pc \in Deleting /\ f.seen = at[p].seen,
         f.pc = "order" => at[p].pc = "order" /\ f.variant = at[p].variant
  PROVE  \A q \in Handler \ {p} : Apart(p, q)' /\ Apart(q, p)'
BY GotoEffect DEF IInv, Apart

(* A single statement of the shop commits its own rows and no others.      *)
LEMMA ShopCommit ==
  ASSUME IInv, NEW rows, DOMAIN rows \subseteq Row, CommitWith(Shop, rows)
  PROVE  /\ StoreOf(Row)' /\ LocksExclusive'
         /\ \A r \in Row : db'[r] = IF r \in DOMAIN rows THEN rows[r] ELSE db[r]
         /\ \A q \in Proc : dirty'[q] = dirty[q]
         /\ \A q \in Handler : \A r \in DOMAIN dirty[q] : r \notin DOMAIN rows /\ db'[r] = db[r]
<1>1. Shop \in Proc /\ dirty[Shop] = NoWrites /\ DOMAIN NoWrites = {}
  BY HandlerAssumption DEF IInv, NoWrites
<1>2. /\ StoreOf(Row)' /\ LocksExclusive' /\ dirty'[Shop] = NoWrites
      /\ \A r \in Row : db'[r] = IF r \in DOMAIN rows THEN rows[r] ELSE Read(Shop, r)
      /\ \A q \in Proc \ {Shop} : /\ dirty'[q] = dirty[q]
                                  /\ \A r \in DOMAIN dirty[q] : db'[r] = db[r]
  BY <1>1, CommitRows DEF IInv
<1>3. \A r : Read(Shop, r) = db[r]
  BY <1>1 DEF Read
<1>4. \A q \in Handler : \A r \in DOMAIN dirty[q] : r \notin DOMAIN rows
  BY HandlerAssumption DEF CommitWith, Unlocked
<1> QED
  BY <1>1, <1>2, <1>3, <1>4, HandlerAssumption

(* Such a step keeps the invariant when the handlers' parts and those of   *)
(* the committed rows hold after it.                                       *)
LEMMA ShopKeeps ==
  ASSUME IInv, NEW rows, DOMAIN rows \subseteq Row, CommitWith(Shop, rows),
         at' = at, UNCHANGED Shelf, DOMAIN known' = Variant,
         \A q \in Handler : HandlerOK(q)', ReferencesOK', StockOK', ImagesOK'
  PROVE  IInv'
<1>1. StoreOf(Row)' /\ LocksExclusive' /\ dirty'[Shop] = NoWrites
  BY ShopCommit, HandlerAssumption DEF IInv
<1>2. \A p, q \in Handler : p # q => Apart(p, q)'
  BY DEF IInv, Apart
<1> QED
  BY <1>1, <1>2 DEF IInv, Shelf

(* What an edit that holds nothing but the product reads is committed.     *)
LEMMA EditReads ==
  ASSUME IInv, NEW p \in Handler, at[p].pc \in {"update", "variants"}
  PROVE  /\ \A v : Read(p, variantRow(v)) = db[variantRow(v)]
         /\ \A v : Read(p, lineRow(v)) = db[lineRow(v)]
         /\ LiveVariants(p) = Living
         /\ at[p].pc = "update" => dirty[p] = NoWrites /\ Read(p, product) = db[product]
         /\ at[p].pc = "variants" => DOMAIN dirty[p] = {product}
<1>1. DOMAIN dirty[p] \subseteq {product}
  BY DEF IInv, HandlerOK, EditOK, Editing, Deleting, Reserving, NoWrites
<1>2. /\ \A v : Read(p, variantRow(v)) = db[variantRow(v)]
      /\ \A v : Read(p, lineRow(v)) = db[lineRow(v)]
  BY <1>1, RowNames DEF Read
<1>3. LiveVariants(p) = Living
  BY <1>2 DEF LiveVariants, Live, Living
<1>4. ASSUME at[p].pc = "update"
      PROVE  dirty[p] = NoWrites /\ Read(p, product) = db[product]
  BY <1>4 DEF IInv, HandlerOK, Editing, Deleting, Reserving, NoWrites, Read
<1>5. at[p].pc = "variants" => DOMAIN dirty[p] = {product}
  BY DEF IInv, HandlerOK, EditOK, Editing, Deleting
<1> QED
  BY <1>2, <1>3, <1>4, <1>5

(* GetByID, before the transaction.                                        *)
LEMMA UpdateProductKeeps ==
  ASSUME IInv, NEW p \in Handler, NEW n \in FormSize, UpdateProduct(p, n)
  PROVE  IInv'
<1> DEFINE f == [Idle EXCEPT !.pc = "update", !.form = n, !.seen = LiveVariants(p)]
<1>1. Goto(p, f) /\ NoStatement /\ UNCHANGED <<Shelf, known>> /\ at[p].pc = "idle"
  BY DEF UpdateProduct
<1>2. f \in Frame /\ f.pc = "update" /\ f.image = "none"
  BY DEF Idle, Frame, LiveVariants
<1> HIDE DEF f
<1>3. StoreOf(Row)' /\ LocksExclusive' /\ db' = db /\ dirty' = dirty /\ at'[p] = f
  BY <1>1, NoStatementStore, GotoEffect
<1>4. dirty[p] = NoWrites
  BY <1>1 DEF IInv, HandlerOK, Editing, Deleting, Reserving
<1>5. HandlerOK(p)'
  BY <1>2, <1>3, <1>4 DEF HandlerOK, Editing, Deleting, Confirmed, Reserving, Uploading
<1>6. \A q \in Handler \ {p} : Apart(p, q)' /\ Apart(q, p)'
  BY <1>1, <1>2, MovesOn DEF Deleting, Confirmed, Reserving, Uploading
<1> QED
  BY <1>1, <1>3, <1>5, <1>6, QuietStep

(* BEGIN and the UPDATE that takes the product's lock.                     *)
LEMMA LockProductKeeps ==
  ASSUME IInv, NEW p \in Handler, LockProduct(p)
  PROVE  IInv'
<1> DEFINE f == [at[p] EXCEPT !.pc = "variants"]
<1>1. /\ at[p].pc = "update" /\ UNCHANGED <<Shelf, known>> /\ at[p] \in Frame
      /\ p \in Proc /\ at[p].image = "none"
  BY HandlerAssumption DEF LockProduct, IInv, HandlerOK, Uploading
<1>2. dirty[p] = NoWrites /\ Read(p, product) = db[product] /\ DOMAIN NoWrites = {}
  BY <1>1, EditReads DEF NoWrites
<1>3. ASSUME Read(p, product) = "listed", Write(p, Only(product, "listed")), Goto(p, f)
      PROVE  IInv'
  <2>1. f \in Frame /\ f.pc = "variants" /\ f.image = "none"
    BY <1>1 DEF Frame, Editing
  <2> HIDE DEF f
  <2>2. at'[p] = f
    BY <1>3, GotoEffect
  <2>3. DOMAIN Only(product, "listed") = {product} /\ Only(product, "listed")[product] = "listed"
    BY OnlyRow
  <2>4. DOMAIN Only(product, "listed") \subseteq Row
    BY <2>3, RowsThere
  <2>5. /\ db' = db /\ DOMAIN dirty'[p] = {product}
        /\ dirty'[p][product] = "listed"
    BY <1>1, <1>2, <1>3, <2>3, <2>4, WriteRows DEF IInv
  <2>6. EditOK(p)'
    BY <1>2, <1>3, <2>1, <2>2, <2>5 DEF EditOK, Deleting
  <2>7. HandlerOK(p)'
    BY <2>1, <2>2, <2>6 DEF HandlerOK, Editing, Deleting, Confirmed, Reserving, Uploading
  <2>8. \A q \in Handler \ {p} : Apart(p, q)' /\ Apart(q, p)'
    BY <1>3, <2>1, MovesOn DEF Deleting, Confirmed, Reserving, Uploading
  <2> QED
    BY <1>1, <1>3, <2>4, <2>7, <2>8, WriteKeeps
<1>4. ASSUME NoStatement, Done(p)
      PROVE  IInv'
  <2>1. StoreOf(Row)' /\ LocksExclusive' /\ db' = db /\ dirty' = dirty
    BY <1>4, NoStatementStore
  <2>2. Goto(p, Idle) /\ at'[p] = Idle
    BY <1>4, GotoEffect DEF Done
  <2> QED
    BY <1>1, <1>2, <2>1, <2>2, IdleOK, QuietStep
<1> QED
  BY <1>3, <1>4 DEF LockProduct

(* DELETE of the variants: none of them in an uncommitted order or a cart. *)
LEMMA DeleteVariantsKeeps ==
  ASSUME IInv, NEW p \in Handler, DeleteVariants(p)
  PROVE  IInv'
<1> DEFINE f == [at[p] EXCEPT !.pc = "cascade", !.seen = Doomed(p)]
           rows == Delete(variantRows(Doomed(p)))
<1>1. /\ at[p].pc = "variants" /\ UNCHANGED <<Shelf, known>> /\ at[p] \in Frame
      /\ p \in Proc /\ at[p].image = "none"
      /\ \A v \in Doomed(p) : Deletable(p, v)
  BY HandlerAssumption DEF DeleteVariants, IInv, HandlerOK, Uploading
<1>2. Doomed(p) = Living /\ DOMAIN dirty[p] = {product} /\ Living \subseteq Variant
  BY <1>1, EditReads DEF Doomed, Living
<1>3. ASSUME \A v \in Doomed(p) : ~InCart(p, v), Write(p, rows), Goto(p, f)
      PROVE  IInv'
  <2>1. f \in Frame /\ f.pc = "cascade" /\ f.seen = Living /\ f.image = "none"
    BY <1>1, <1>2 DEF Frame, Editing, Deleting
  <2> HIDE DEF f
  <2>2. at'[p] = f
    BY <1>3, GotoEffect
  <2>3. DOMAIN rows = variantRows(Living) /\ \A r \in variantRows(Living) : rows[r] = -1
    BY <1>2, DeletedSets
  <2>4. variantRows(Living) \subseteq Row
    BY <1>2, RowsThere DEF variantRows
  <2> HIDE DEF rows
  <2>5. /\ db' = db /\ DOMAIN dirty'[p] = variantRows(Living) \cup DOMAIN dirty[p]
        /\ \A r \in DOMAIN dirty'[p] :
             dirty'[p][r] = IF r \in DOMAIN rows THEN rows[r] ELSE dirty[p][r]
    BY <1>1, <1>3, <2>3, <2>4, WriteRows DEF IInv
  <2>6. EditOK(p)
    BY <1>1 DEF IInv, HandlerOK, Editing, Deleting
  <2>7. /\ product \notin variantRows(Living)
        /\ \A v \in Living : variantRow(v) \in variantRows(Living)
    BY RowNames, RowSets
  <2>8. Living' = Living /\ at'[p].seen = Living
    BY <2>1, <2>2, <2>5 DEF Living
  <2>9. \A v \in Living : dirty'[p][variantRow(v)] = -1 /\ ~db'[lineRow(v)]
    <3>1. \A v \in Living : dirty'[p][variantRow(v)] = -1
      BY <2>3, <2>5, <2>7
    <3>2. \A v \in Living : ~db[lineRow(v)]
      BY <1>1, <1>2, <1>3, EditReads DEF InCart
    <3> QED
      BY <2>5, <3>1, <3>2
  <2>10. dirty'[p][product] = "listed" /\ db'[product] = "listed"
    BY <1>2, <2>3, <2>5, <2>6, <2>7 DEF EditOK
  <2>11. DOMAIN dirty'[p] = {product} \cup variantRows(Living)
    BY <1>2, <2>5
  <2>12. EditOK(p)'
    BY <2>1, <2>2, <2>8, <2>9, <2>10, <2>11 DEF EditOK, Deleting
  <2>13. HandlerOK(p)'
    BY <2>1, <2>2, <2>12 DEF HandlerOK, Editing, Deleting, Confirmed, Reserving, Uploading
  <2>14. ASSUME NEW q \in Handler \ {p} PROVE at[q].pc # "order"
    <3> SUFFICES ASSUME at[q].pc = "order" PROVE FALSE
      OBVIOUS
    <3>1. ConfirmOK(q)
      BY DEF IInv, HandlerOK, Confirmed, Reserving
    <3>2. /\ at[q].order \in Order /\ at[q].variant \in Living
          /\ resvRow(at[q].order) \in DOMAIN dirty[q]
          /\ dirty[q][resvRow(at[q].order)] = [variant |-> at[q].variant, status |-> "held"]
      BY <3>1 DEF ConfirmOK, Reserving
    <3>3. Holds(q, at[q].variant)
      BY <3>2 DEF Holds
    <3> QED
      BY <1>1, <1>2, <3>2, <3>3, HandlerAssumption DEF Deletable
  <2>15. \A q \in Handler \ {p} : Apart(p, q)' /\ Apart(q, p)'
    BY <1>1, <1>3, <2>1, <2>2, <2>14, GotoEffect
       DEF Apart, Deleting, Confirmed, Reserving, Uploading
  <2> QED
    BY <1>1, <1>3, <2>3, <2>4, <2>13, <2>15, WriteKeeps
<1>4. ASSUME Fail(p) PROVE IInv'
  BY <1>1, <1>4, FailKeeps
<1> QED
  BY <1>3, <1>4 DEF DeleteVariants

(* The cascade to the stock rows, and the foreign keys checked after it.   *)
LEMMA CascadeStockKeeps ==
  ASSUME IInv, NEW p \in Handler, CascadeStock(p)
  PROVE  IInv'
<1> DEFINE f == [at[p] EXCEPT !.pc = "children"]
           S == at[p].seen
           rows == Delete(stockRows(S))
<1>1. /\ at[p].pc = "cascade" /\ UNCHANGED <<Shelf, known>> /\ at[p] \in Frame
      /\ p \in Proc /\ S \subseteq Variant /\ at[p].image = "none"
  BY HandlerAssumption DEF CascadeStock, IInv, HandlerOK, Frame, Uploading
<1>2. EditOK(p)
  BY <1>1 DEF IInv, HandlerOK, Editing, Deleting
<1>3. ASSUME \A v \in S : ~Ordered(p, v), Write(p, rows), Goto(p, f)
      PROVE  IInv'
  <2>1. f \in Frame /\ f.pc = "children" /\ f.seen = S /\ f.image = "none"
    BY <1>1 DEF Frame, Editing, Deleting
  <2> HIDE DEF f
  <2>2. at'[p] = f
    BY <1>3, GotoEffect
  <2>3. DOMAIN rows = stockRows(S) /\ \A r \in stockRows(S) : rows[r] = NoStock
    BY DeletedSets
  <2>4. stockRows(S) \subseteq Row
    BY <1>1, RowsThere DEF stockRows
  <2> HIDE DEF rows
  <2>5. /\ db' = db /\ DOMAIN dirty'[p] = stockRows(S) \cup DOMAIN dirty[p]
        /\ \A r \in DOMAIN dirty'[p] :
             dirty'[p][r] = IF r \in DOMAIN rows THEN rows[r] ELSE dirty[p][r]
    BY <1>1, <1>3, <2>3, <2>4, WriteRows DEF IInv
  <2>6. DOMAIN dirty[p] = {product} \cup variantRows(S)
    BY <1>1, <1>2 DEF EditOK, Deleting
  <2>7. /\ product \notin stockRows(S)
        /\ \A v \in S : /\ variantRow(v) \in variantRows(S) /\ variantRow(v) \notin stockRows(S)
                        /\ stockRow(v) \in stockRows(S)
    BY RowNames, RowSets
  <2>8. DOMAIN dirty'[p] = {product} \cup variantRows(S) \cup stockRows(S)
    BY <2>5, <2>6
  <2>9. dirty'[p][product] = "listed" /\ db'[product] = "listed"
    BY <1>2, <2>3, <2>5, <2>6, <2>7 DEF EditOK
  <2>10. /\ Living' = Living /\ S = Living
         /\ \A v \in S : dirty'[p][variantRow(v)] = -1 /\ ~db'[lineRow(v)]
    <3>1. S = Living /\ \A v \in S : dirty[p][variantRow(v)] = -1 /\ ~db[lineRow(v)]
      BY <1>1, <1>2 DEF EditOK, Deleting
    <3> QED
      BY <2>3, <2>5, <2>7, <2>8, <3>1 DEF Living
  <2>11. ASSUME NEW v \in S
         PROVE  /\ dirty'[p][stockRow(v)] = NoStock
                /\ \A o \in Order : db'[resvRow(o)].variant # v
    <3>1. \A o : resvRow(o) \notin DOMAIN dirty[p]
      <4>1. ASSUME NEW r \in DOMAIN dirty[p] PROVE r[1] # "reservation"
        <5>1. CASE r = product
          BY <5>1, RowNames
        <5>2. CASE r \in variantRows(S)
          BY <5>2, RowSets
        <5> QED
          BY <2>6, <5>1, <5>2
      <4> QED
        BY <4>1, RowNames
    <3>2. \A o \in Order : Read(p, resvRow(o)) = db[resvRow(o)]
      BY <3>1 DEF Read
    <3>3. \A o \in Order : db[resvRow(o)].variant # v
      BY <1>3, <3>2 DEF Ordered
    <3> QED
      BY <2>3, <2>5, <2>7, <2>8, <3>3
  <2>12. EditOK(p)'
    BY <2>1, <2>2, <2>8, <2>9, <2>10, <2>11 DEF EditOK, Deleting
  <2>13. HandlerOK(p)'
    BY <2>1, <2>2, <2>12 DEF HandlerOK, Editing, Deleting, Confirmed, Reserving, Uploading
  <2>14. \A q \in Handler \ {p} : Apart(p, q)' /\ Apart(q, p)'
    BY <1>1, <1>3, <2>1, MovesOn DEF Deleting, Confirmed, Reserving, Uploading
  <2> QED
    BY <1>1, <1>3, <2>3, <2>4, <2>13, <2>14, WriteKeeps
<1>4. ASSUME Fail(p) PROVE IInv'
  BY <1>1, <1>4, FailKeeps
<1> QED
  BY <1>3, <1>4 DEF CascadeStock

(* A commit ends the request; the others go on as they were.               *)
LEMMA CommitEffects ==
  ASSUME IInv, NEW p \in Handler, NEW rows, DOMAIN rows \subseteq Row, CommitWith(p, rows),
         Done(p)
  PROVE  /\ StoreOf(Row)' /\ LocksExclusive' /\ dirty'[p] = NoWrites
         /\ \A r \in Row : db'[r] = IF r \in DOMAIN rows THEN rows[r] ELSE Read(p, r)
         /\ DOMAIN at' = Handler /\ at'[p] = Idle
         /\ \A q \in Handler \ {p} : /\ dirty'[q] = dirty[q] /\ at'[q] = at[q]
                                     /\ \A r \in DOMAIN dirty[q] : db'[r] = db[r]
         /\ dirty'[Shop] = NoWrites
<1>1. /\ StoreOf(Row)' /\ LocksExclusive' /\ dirty'[p] = NoWrites
      /\ \A r \in Row : db'[r] = IF r \in DOMAIN rows THEN rows[r] ELSE Read(p, r)
      /\ \A q \in Proc \ {p} : /\ dirty'[q] = dirty[q]
                               /\ \A r \in DOMAIN dirty[q] : db'[r] = db[r]
  BY CommitRows, HandlerAssumption DEF IInv
<1>2. /\ DOMAIN at' = Handler /\ at'[p] = Idle
      /\ \A q \in Handler \ {p} : at'[q] = at[q]
  BY GotoEffect DEF Done
<1> QED
  BY <1>1, <1>2, HandlerAssumption DEF IInv

(* So the invariant holds when the others' parts and those of the          *)
(* committed rows do.                                                      *)
LEMMA CommitKeeps ==
  ASSUME IInv, NEW p \in Handler, NEW rows, DOMAIN rows \subseteq Row, CommitWith(p, rows),
         Done(p), UNCHANGED <<Shelf, known>>,
         \A q \in Handler \ {p} : HandlerOK(q)', ReferencesOK', StockOK', ImagesOK'
  PROVE  IInv'
<1>1. /\ StoreOf(Row)' /\ LocksExclusive' /\ dirty'[p] = NoWrites /\ dirty'[Shop] = NoWrites
      /\ DOMAIN at' = Handler /\ at'[p] = Idle
      /\ \A q \in Handler \ {p} : at'[q] = at[q]
  BY CommitEffects
<1>2. HandlerOK(p)' /\ \A q \in Handler : Apart(p, q)' /\ Apart(q, p)'
  BY <1>1, IdleOK
<1>3. \A q, r \in Handler : q # r => Apart(q, r)'
  BY <1>1, <1>2 DEF IInv, Apart
<1> QED
  BY <1>1, <1>2, <1>3 DEF IInv, Shelf

(* DeleteImagesByProduct, the new form's variants and COMMIT: the rows     *)
(* after it.                                                               *)
LEMMA RebuildRows ==
  ASSUME IInv, NEW p \in Handler, at[p].pc = "children", NEW S \in Fresh(at[p].form),
         NEW rows, rows = Together(NewVariants(S), Delete(imageRows(Image))),
         CommitWith(p, rows), Done(p)
  PROVE  /\ DOMAIN rows \subseteq Row
         /\ db'[product] = "listed"
         /\ \A v \in S : db'[variantRow(v)] = Min(S)
         /\ \A v \in Variant : v \in Living' => v \in S
         /\ \A v \in Variant : db'[lineRow(v)] = db[lineRow(v)]
         /\ \A v \in Variant : db'[stockRow(v)] = IF v \in Living THEN NoStock ELSE db[stockRow(v)]
         /\ \A o \in Order : db'[resvRow(o)] = db[resvRow(o)]
         /\ \A i \in Image : ~db'[imageRow(i)]
<1>1. EditOK(p) /\ at[p].seen = Living
  BY DEF IInv, HandlerOK, EditOK, Editing, Deleting
<1>2. DOMAIN dirty[p] = {product} \cup variantRows(Living) \cup stockRows(Living)
  BY <1>1 DEF EditOK, Deleting
<1>3. S \subseteq Variant /\ \A v \in S : db[variantRow(v)] = 0 /\ v \notin Living
  BY DEF Fresh, Living
<1>4. /\ DOMAIN rows = variantRows(S) \cup imageRows(Image)
      /\ \A r \in variantRows(S) : rows[r] = Min(S)
      /\ \A r \in imageRows(Image) : r \notin variantRows(S) => rows[r] = FALSE
  <2>1. DOMAIN Delete(imageRows(Image)) = imageRows(Image)
    BY DeletedSets
  <2>2. \A r \in imageRows(Image) : Delete(imageRows(Image))[r] = FALSE
    BY DeletedSets
  <2> QED
    BY <2>1, <2>2 DEF Together, NewVariants
<1>5. DOMAIN rows \subseteq Row
  BY <1>3, <1>4, RowsThere DEF variantRows
<1>6. \A r \in Row : db'[r] = IF r \in DOMAIN rows THEN rows[r] ELSE Read(p, r)
  BY <1>5, CommitEffects
<1>7. \A r \in DOMAIN rows : r[1] \in {"variant", "image"}
  <2>1. \A r \in variantRows(S) : r[1] = "variant"
    BY RowSets
  <2>2. \A r \in imageRows(Image) : r[1] = "image"
    BY RowSets
  <2> QED
    BY <1>4, <2>1, <2>2
<1>8. \A r \in DOMAIN dirty[p] : r[1] \in {"product", "variant", "stock"}
  <2>1. \A r \in variantRows(Living) : r[1] = "variant"
    BY RowSets
  <2>2. \A r \in stockRows(Living) : r[1] = "stock"
    BY RowSets
  <2> QED
    BY <1>2, <2>1, <2>2, RowNames
<1>9. db'[product] = "listed"
  <2>1. product \notin DOMAIN rows /\ product \in Row /\ product \in DOMAIN dirty[p]
    BY <1>2, <1>7, RowNames, RowsThere
  <2> QED
    BY <1>1, <1>6, <2>1 DEF Read, EditOK
<1>10. \A v \in S : db'[variantRow(v)] = Min(S)
  BY <1>3, <1>4, <1>6, RowsThere, RowSets
<1>11. ASSUME NEW v \in Variant, v \in Living' PROVE v \in S
  <2> SUFFICES ASSUME v \notin S PROVE FALSE
    OBVIOUS
  <2>1. variantRow(v) \in Row /\ variantRow(v) \notin DOMAIN rows
    <3>1. variantRow(v) \notin variantRows(S)
      BY RowSets
    <3>2. variantRow(v) \notin imageRows(Image)
      BY RowNames, RowSets
    <3> QED
      BY <1>4, <3>1, <3>2, RowsThere
  <2>2. db'[variantRow(v)] = Read(p, variantRow(v))
    BY <1>6, <2>1
  <2>3. CASE v \in Living
    <3>1. variantRow(v) \in DOMAIN dirty[p] /\ dirty[p][variantRow(v)] = -1
      BY <1>1, <1>2, <2>3, RowSets DEF EditOK, Deleting
    <3>2. db'[variantRow(v)] = -1
      BY <2>2, <3>1 DEF Read
    <3> QED
      BY <1>11, <3>2 DEF Living
  <2>4. CASE v \notin Living
    <3>1. variantRow(v) \notin DOMAIN dirty[p]
      <4>1. variantRow(v) \notin variantRows(Living)
        BY <2>4, RowSets
      <4>2. variantRow(v) \notin stockRows(Living)
        BY RowNames, RowSets
      <4> QED
        BY <1>2, <4>1, <4>2, RowNames
    <3>2. db'[variantRow(v)] = db[variantRow(v)]
      BY <2>2, <3>1 DEF Read
    <3> QED
      BY <1>11, <2>4, <3>2 DEF Living
  <2> QED
    BY <2>3, <2>4
<1>12. ASSUME NEW v \in Variant PROVE db'[lineRow(v)] = db[lineRow(v)]
  BY <1>6, <1>7, <1>8, RowNames, RowsThere DEF Read
<1>13. ASSUME NEW o \in Order PROVE db'[resvRow(o)] = db[resvRow(o)]
  BY <1>6, <1>7, <1>8, RowNames, RowsThere DEF Read
<1>14. ASSUME NEW i \in Image PROVE ~db'[imageRow(i)]
  <2>1. imageRow(i) \in imageRows(Image) /\ imageRow(i) \in Row
    BY RowSets, RowsThere
  <2>2. imageRow(i) \notin variantRows(S)
    BY RowNames, RowSets
  <2> QED
    BY <1>4, <1>6, <2>1, <2>2
<1>15. ASSUME NEW v \in Variant
       PROVE  db'[stockRow(v)] = IF v \in Living THEN NoStock ELSE db[stockRow(v)]
  <2>1. db'[stockRow(v)] = Read(p, stockRow(v))
    BY <1>6, <1>7, RowNames, RowsThere
  <2>2. CASE v \in Living
    <3>1. stockRow(v) \in DOMAIN dirty[p] /\ dirty[p][stockRow(v)] = NoStock
      BY <1>1, <1>2, <2>2, RowSets DEF EditOK
    <3> QED
      BY <2>1, <2>2, <3>1 DEF Read
  <2>3. CASE v \notin Living
    <3>1. stockRow(v) \notin stockRows(Living)
      BY <2>3, RowSets
    <3>2. stockRow(v) \notin variantRows(Living)
      BY RowNames, RowSets
    <3> QED
      BY <1>2, <2>1, <2>3, <3>1, <3>2, RowNames DEF Read
  <2> QED
    BY <2>2, <2>3
<1> QED
  BY <1>5, <1>9, <1>10, <1>11, <1>12, <1>13, <1>14, <1>15

(* So an edit replaces the variants of every form before it, which no      *)
(* cart and no order refers to.                                            *)
LEMMA RebuildKeeps ==
  ASSUME IInv, NEW p \in Handler, RebuildChildren(p)
  PROVE  IInv'
<1>1. /\ at[p].pc = "children" /\ Done(p) /\ UNCHANGED <<Shelf, known>>
      /\ objects' = objects /\ upload' = upload /\ known' = known
  BY DEF RebuildChildren, Shelf
<1>2. PICK S \in Fresh(at[p].form) :
        CommitWith(p, Together(NewVariants(S), Delete(imageRows(Image))))
  BY DEF RebuildChildren
<1> DEFINE rows == Together(NewVariants(S), Delete(imageRows(Image)))
<1>3. CommitWith(p, rows) /\ rows = Together(NewVariants(S), Delete(imageRows(Image)))
  BY <1>2
<1> HIDE DEF rows
<1>4. /\ DOMAIN rows \subseteq Row
      /\ db'[product] = "listed"
      /\ \A v \in S : db'[variantRow(v)] = Min(S)
      /\ \A v \in Variant : v \in Living' => v \in S
      /\ \A v \in Variant : db'[lineRow(v)] = db[lineRow(v)]
      /\ \A v \in Variant : db'[stockRow(v)] = IF v \in Living THEN NoStock ELSE db[stockRow(v)]
      /\ \A o \in Order : db'[resvRow(o)] = db[resvRow(o)]
      /\ \A i \in Image : ~db'[imageRow(i)]
  BY <1>1, <1>3, RebuildRows
<1>5. EditOK(p) /\ at[p].seen = Living /\ product \in DOMAIN dirty[p]
  BY <1>1 DEF IInv, HandlerOK, EditOK, Editing, Deleting
<1>6. /\ \A v \in Variant : ~db[lineRow(v)]
      /\ \A o \in Order : db[resvRow(o)] = NoResv
  BY <1>1, <1>5, References DEF IInv, EditOK, Deleting
<1>7. ReferencesOK'
  <2>1. ReferencesLive'
    BY <1>4, <1>6 DEF ReferencesLive
  <2>2. EditsDoNotMix'
    BY <1>4 DEF EditsDoNotMix, Living
  <2> QED
    BY <1>4, <1>6, <2>1, <2>2 DEF ReferencesOK
<1>8. StockOK'
  <2>1. \A v \in Variant : Sold(v)' = Sold(v) /\ Sold(v) = {}
    BY <1>4, <1>6 DEF Sold, NoResv
  <2>2. \A v \in Variant : Cardinality(Sold(v)') = 0
    BY <2>1, FS_EmptySet
  <2>3. ASSUME NEW v \in Variant
        PROVE  /\ db'[stockRow(v)] \in Stock \cup {NoStock}
               /\ db'[stockRow(v)].reserved = Cardinality(Sold(v)')
               /\ db'[stockRow(v)] # NoStock =>
                    /\ known[v].version \in Nat /\ known[v].version <= db'[stockRow(v)].version
                    /\ db'[stockRow(v)].version \in {0, known[v].version} =>
                         known[v] = db'[stockRow(v)]
    <3>1. CASE v \in Living
      BY <1>4, <2>2, <3>1, NoRowValues
    <3>2. CASE v \notin Living
      BY <1>4, <2>1, <3>2 DEF IInv, StockOK
    <3> QED
      BY <3>1, <3>2
  <2> QED
    BY <1>1, <2>3 DEF StockOK
<1>9. ImagesOK'
  BY <1>1, <1>4, KeepImages DEF IInv
<1>10. ASSUME NEW q \in Handler \ {p} PROVE HandlerOK(q)'
  <2>1. /\ HandlerOK(q) /\ at'[q] = at[q] /\ dirty'[q] = dirty[q]
        /\ \A r \in DOMAIN dirty[q] : db'[r] = db[r]
    BY <1>1, <1>3, <1>4, CommitEffects DEF IInv
  <2>2. at[q].pc \notin Deleting
    BY <1>5, HandlerAssumption DEF IInv, LocksExclusive, HandlerOK, EditOK, Editing
  <2>3. at[q].pc # "order"
    BY <1>1, <1>5 DEF IInv, Apart, HandlerOK, ConfirmOK, Confirmed, Reserving, Deleting
  <2>4. at[q].pc \in Confirmed => at[q].order \in Order
    BY <2>1 DEF HandlerOK, ConfirmOK
  <2>5. at[q].pc \in Confirmed => db'[resvRow(at[q].order)] = db[resvRow(at[q].order)]
    BY <1>4, <2>4
  <2>6. In(at[q].image)' = In(at[q].image) /\ upload'[at[q].image] = upload[at[q].image]
    BY <1>1, <2>1 DEF In
  <2> QED
    BY <2>1, <2>2, <2>3, <2>5, <2>6, OthersKeep
<1> QED
  BY <1>1, <1>3, <1>4, <1>7, <1>8, <1>9, <1>10, CommitKeeps

(* What the handlers remember survives a single statement that does not    *)
(* refer to variants an edit deletes, resolve their orders or delete their *)
(* variants.                                                               *)
LEMMA ShopHandlers ==
  ASSUME IInv, NEW rows, DOMAIN rows \subseteq Row, CommitWith(Shop, rows), NEW q \in Handler,
         at'[q] = at[q],
         at[q].pc \in Deleting =>
           /\ Living' = Living
           /\ \A v \in at[q].seen : db'[lineRow(v)] => db[lineRow(v)]
           /\ \A o \in Order : db'[resvRow(o)].variant = db[resvRow(o)].variant,
         at[q].pc \in Confirmed => db'[resvRow(at[q].order)] = db[resvRow(at[q].order)],
         at[q].pc = "order" => at[q].variant \in Living',
         at[q].pc \in Uploading =>
           /\ upload'[at[q].image] = upload[at[q].image]
           /\ In(at[q].image)' = In(at[q].image)
  PROVE  HandlerOK(q)'
<1>1. /\ HandlerOK(q) /\ dirty'[q] = dirty[q]
      /\ \A r \in DOMAIN dirty[q] : db'[r] = db[r]
  BY ShopCommit, HandlerAssumption DEF IInv
<1> QED
  BY <1>1, OthersKeep

(* The facts of a handler's place that single statements run into: its     *)
(* locks, its order and its image.                                         *)
LEMMA Places ==
  ASSUME IInv, NEW q \in Handler
  PROVE  /\ at[q].pc \in Editing => product \in DOMAIN dirty[q] /\ db[product] = "listed"
         /\ at[q].pc \in Deleting =>
              /\ at[q].seen = Living
              /\ \A v \in Living : variantRow(v) \in DOMAIN dirty[q]
         /\ at[q].pc \in Confirmed =>
              at[q].order \in Order /\ db[resvRow(at[q].order)] = NoResv
         /\ at[q].pc = "order" => at[q].variant \in Living /\ Holds(q, at[q].variant)
         /\ at[q].pc \in Uploading => at[q].image \in Image
<1>1. HandlerOK(q)
  BY DEF IInv
<1>2. ASSUME at[q].pc \in Editing
      PROVE  product \in DOMAIN dirty[q] /\ db[product] = "listed"
  BY <1>1, <1>2 DEF HandlerOK, EditOK
<1>3. ASSUME at[q].pc \in Deleting
      PROVE  /\ at[q].seen = Living
             /\ \A v \in Living : variantRow(v) \in DOMAIN dirty[q]
  <2>1. EditOK(q)
    BY <1>1, <1>3 DEF HandlerOK, Editing
  <2> QED
    BY <1>3, <2>1, RowSets DEF EditOK
<1>4. ASSUME at[q].pc \in Confirmed
      PROVE  at[q].order \in Order /\ db[resvRow(at[q].order)] = NoResv
  BY <1>1, <1>4 DEF HandlerOK, ConfirmOK
<1>5. ASSUME at[q].pc = "order"
      PROVE  at[q].variant \in Living /\ Holds(q, at[q].variant)
  <2>1. ConfirmOK(q)
    BY <1>1, <1>5 DEF HandlerOK, Confirmed, Reserving
  <2> QED
    BY <1>5, <2>1 DEF ConfirmOK, Holds, Reserving
<1>6. at[q].pc \in Uploading => at[q].image \in Image
  BY <1>1 DEF HandlerOK, UploadOK
<1> QED
  BY <1>2, <1>3, <1>4, <1>5, <1>6

(* The product's row is locked while an edit goes on.                      *)
LEMMA ProductUnlocked ==
  ASSUME IInv, Unlocked(Shop, product), NEW q \in Handler
  PROVE  at[q].pc \notin Editing /\ at[q].pc \notin Deleting
BY Places, HandlerAssumption DEF Unlocked, Editing

(* The first form.                                                         *)
LEMMA CreateProductKeeps ==
  ASSUME IInv, CreateProduct
  PROVE  IInv'
<1>1. /\ db[product] = "new" /\ UNCHANGED <<at, Shelf, known>>
      /\ at' = at /\ objects' = objects /\ upload' = upload /\ known' = known
  BY DEF CreateProduct, Shelf
<1>2. PICK n \in FormSize : \E S \in Fresh(n) :
        CommitWith(Shop, Together(NewVariants(S), Only(product, "listed")))
  BY DEF CreateProduct
<1>3. PICK S \in Fresh(n) : CommitWith(Shop, Together(NewVariants(S), Only(product, "listed")))
  BY <1>2
<1> DEFINE rows == Together(NewVariants(S), Only(product, "listed"))
<1>4. S \subseteq Variant
  BY DEF Fresh
<1>5. /\ DOMAIN rows = variantRows(S) \cup {product}
      /\ \A r \in variantRows(S) : rows[r] = Min(S)
      /\ product \notin variantRows(S) => rows[product] = "listed"
  BY DEF Together, NewVariants, Only
<1>6. CommitWith(Shop, rows)
  BY <1>3
<1> HIDE DEF rows
<1>7. DOMAIN rows \subseteq Row
  BY <1>4, <1>5, RowsThere DEF variantRows
<1>8. \A r \in Row : db'[r] = IF r \in DOMAIN rows THEN rows[r] ELSE db[r]
  BY <1>6, <1>7, ShopCommit
<1>9. \A r \in DOMAIN rows : r[1] \in {"product", "variant"}
  <2>1. \A r \in variantRows(S) : r[1] = "variant"
    BY RowSets
  <2> QED
    BY <1>5, <2>1, RowNames
<1>10. db'[product] = "listed"
  <2>1. product \notin variantRows(S)
    BY RowNames, RowSets
  <2> QED
    BY <1>5, <1>8, <2>1, RowsThere
<1>11. Living = {}
  BY <1>1 DEF IInv, ReferencesOK
<1>12. ASSUME NEW v \in Variant
       PROVE  /\ v \in S => db'[variantRow(v)] = Min(S)
              /\ v \in Living' => v \in S
              /\ ~db'[lineRow(v)] /\ db'[stockRow(v)] = db[stockRow(v)]
  <2>1. /\ lineRow(v) \notin DOMAIN rows /\ stockRow(v) \notin DOMAIN rows
        /\ lineRow(v) \in Row /\ stockRow(v) \in Row /\ variantRow(v) \in Row
    BY <1>9, RowNames, RowsThere
  <2>2. db'[lineRow(v)] = db[lineRow(v)] /\ db'[stockRow(v)] = db[stockRow(v)]
    BY <1>8, <2>1
  <2>3. v \in S => db'[variantRow(v)] = Min(S)
    BY <1>5, <1>8, <2>1, RowSets
  <2>4. ASSUME v \notin S PROVE v \notin Living'
    <3>1. variantRow(v) \notin variantRows(S)
      BY <2>4, RowSets
    <3>2. variantRow(v) # product
      BY RowNames
    <3>3. db'[variantRow(v)] = db[variantRow(v)]
      BY <1>5, <1>8, <2>1, <3>1, <3>2
    <3> QED
      BY <1>11, <3>3 DEF Living
  <2> QED
    BY <1>11, <2>2, <2>3, <2>4, References DEF IInv
<1>13. \A o \in Order : db'[resvRow(o)] = NoResv /\ db[resvRow(o)] = NoResv
  <2>1. \A o \in Order : resvRow(o) \notin DOMAIN rows /\ resvRow(o) \in Row
    BY <1>9, RowNames, RowsThere
  <2> QED
    BY <1>8, <1>11, <2>1, References DEF IInv
<1>14. \A i \in Image : ~db'[imageRow(i)]
  <2>1. \A i \in Image : imageRow(i) \notin DOMAIN rows /\ imageRow(i) \in Row
    BY <1>9, RowNames, RowsThere
  <2> QED
    BY <1>1, <1>8, <2>1, References DEF IInv
<1>15. ReferencesOK'
  <2>1. ReferencesLive'
    BY <1>12, <1>13, <1>14 DEF ReferencesLive
  <2>2. EditsDoNotMix'
    BY <1>12 DEF EditsDoNotMix, Living
  <2> QED
    BY <1>10, <1>13, <2>1, <2>2 DEF ReferencesOK
<1>16. StockOK'
  BY <1>1, <1>12, <1>13, KeepStock DEF IInv
<1>17. ImagesOK'
  BY <1>1, <1>14, KeepImages DEF IInv
<1>18. ASSUME NEW q \in Handler PROVE HandlerOK(q)'
  <2>1. Unlocked(Shop, product)
    BY <1>5, <1>6 DEF CommitWith
  <2>2. at[q].pc \notin Deleting /\ at[q].pc # "order"
    BY <1>11, <2>1, ProductUnlocked, Places
  <2>3. at[q].pc \in Confirmed => db'[resvRow(at[q].order)] = db[resvRow(at[q].order)]
    BY <1>13, Places
  <2>4. In(at[q].image)' = In(at[q].image) /\ upload'[at[q].image] = upload[at[q].image]
    BY <1>1 DEF In
  <2> QED
    BY <1>1, <1>6, <1>7, <2>2, <2>3, <2>4, ShopHandlers
<1> QED
  BY <1>1, <1>6, <1>7, <1>15, <1>16, <1>17, <1>18, ShopKeeps DEF IInv

(* DELETE of the product, its variants, their stock and the images: what   *)
(* the statement requires and leaves.                                      *)
LEMMA DeletedProduct ==
  ASSUME IInv, DeleteProduct
  PROVE  /\ Unlocked(Shop, product)
         /\ \A v \in Living : /\ \A q \in Handler : ~Holds(q, v)
                              /\ ~db[lineRow(v)]
                              /\ \A o \in Order : db[resvRow(o)].variant # v
         /\ \E rows : /\ DOMAIN rows \subseteq Row /\ CommitWith(Shop, rows)
         /\ Living' = {}
         /\ \A v \in Variant :
              /\ db'[lineRow(v)] = db[lineRow(v)]
              /\ db'[stockRow(v)] = IF v \in Living THEN NoStock ELSE db[stockRow(v)]
         /\ \A o \in Order : db'[resvRow(o)] = db[resvRow(o)]
         /\ \A i \in Image : ~db'[imageRow(i)]
<1> DEFINE R == {product} \cup variantRows(Living) \cup stockRows(Living) \cup imageRows(Image)
           rows == Delete(R)
<1>1. Shop \in Proc /\ dirty[Shop] = NoWrites /\ DOMAIN NoWrites = {}
  BY HandlerAssumption DEF IInv, NoWrites
<1>2. \A r : Read(Shop, r) = db[r]
  BY <1>1 DEF Read
<1>3. LiveVariants(Shop) = Living
  BY <1>2 DEF LiveVariants, Live, Living
<1>4. CommitWith(Shop, rows)
  BY <1>3 DEF DeleteProduct
<1>5. \A v \in Living : Deletable(Shop, v) /\ ~InCart(Shop, v) /\ ~Ordered(Shop, v)
  BY <1>3 DEF DeleteProduct
<1>6. \A v \in Living : /\ \A q \in Handler : ~Holds(q, v)
                        /\ ~db[lineRow(v)]
                        /\ \A o \in Order : db[resvRow(o)].variant # v
  BY <1>2, <1>5, HandlerAssumption DEF Deletable, InCart, Ordered
<1>7. DOMAIN rows = R
  BY DeletedRows
<1>8. \A r \in R : /\ r[1] = "variant" => rows[r] = -1
                   /\ r[1] = "stock" => rows[r] = NoStock
                   /\ r[1] = "image" => rows[r] = FALSE
  BY DeletedRows
<1> HIDE DEF rows
<1>9. R \subseteq Row
  BY RowsThere DEF variantRows, stockRows, imageRows, Living
<1>10. product \in R
  OBVIOUS
<1>11. \A v \in Variant : (variantRow(v) \in R <=> v \in Living) /\ (stockRow(v) \in R <=> v \in Living)
  <2> SUFFICES ASSUME NEW v \in Variant
               PROVE  /\ variantRow(v) \in R <=> v \in Living
                      /\ stockRow(v) \in R <=> v \in Living
    OBVIOUS
  <2>1. /\ variantRow(v) # product /\ stockRow(v) # product
        /\ variantRow(v) \notin stockRows(Living) /\ stockRow(v) \notin variantRows(Living)
    BY RowNames, RowSets
  <2>2. variantRow(v) \notin imageRows(Image) /\ stockRow(v) \notin imageRows(Image)
    BY RowNames, RowSets
  <2>3. /\ variantRow(v) \in variantRows(Living) <=> v \in Living
        /\ stockRow(v) \in stockRows(Living) <=> v \in Living
    BY RowSets
  <2> QED
    BY <2>1, <2>2, <2>3
<1>12. \A i \in Image : imageRow(i) \in R
  BY RowSets
<1>13. \A r \in R : r[1] \in {"product", "variant", "stock", "image"}
  <2>1. \A r \in variantRows(Living) : r[1] = "variant"
    BY RowSets
  <2>2. \A r \in stockRows(Living) : r[1] = "stock"
    BY RowSets
  <2>3. \A r \in imageRows(Image) : r[1] = "image"
    BY RowSets
  <2> QED
    BY <2>1, <2>2, <2>3, RowNames
<1> HIDE DEF R
<1>14. \A r \in Row : db'[r] = IF r \in R THEN rows[r] ELSE db[r]
  BY <1>4, <1>7, <1>9, ShopCommit
<1>15. Living' = {}
  <2> SUFFICES ASSUME NEW v \in Variant, v \in Living' PROVE FALSE
    BY DEF Living
  <2>1. CASE v \in Living
    <3>1. db'[variantRow(v)] = -1
      BY <1>8, <1>11, <1>14, <2>1, RowNames, RowsThere
    <3> QED
      BY <3>1 DEF Living
  <2>2. CASE v \notin Living
    <3>1. db'[variantRow(v)] = db[variantRow(v)]
      BY <1>11, <1>14, <2>2, RowsThere
    <3> QED
      BY <2>2, <3>1 DEF Living
  <2> QED
    BY <2>1, <2>2
<1>16. ASSUME NEW v \in Variant
       PROVE  /\ db'[lineRow(v)] = db[lineRow(v)]
              /\ db'[stockRow(v)] = IF v \in Living THEN NoStock ELSE db[stockRow(v)]
  <2>1. lineRow(v) \notin R /\ lineRow(v) \in Row /\ stockRow(v) \in Row
    BY <1>13, RowNames, RowsThere
  <2> QED
    BY <1>8, <1>11, <1>14, <2>1, RowNames
<1>17. \A o \in Order : db'[resvRow(o)] = db[resvRow(o)]
  BY <1>13, <1>14, RowNames, RowsThere
<1>18. \A i \in Image : ~db'[imageRow(i)]
  BY <1>8, <1>12, <1>14, RowNames, RowsThere
<1>19. Unlocked(Shop, product)
  BY <1>4, <1>7, <1>10 DEF CommitWith
<1>20. \E x : DOMAIN x \subseteq Row /\ CommitWith(Shop, x)
  BY <1>4, <1>7, <1>9
<1> QED
  BY <1>6, <1>15, <1>16, <1>17, <1>18, <1>19, <1>20

(* The deletion of the product leaves nothing that refers to it.           *)
LEMMA DeleteProductKeeps ==
  ASSUME IInv, DeleteProduct
  PROVE  IInv'
<1>1. UNCHANGED <<at, Shelf, known>> /\ at' = at /\ objects' = objects /\ upload' = upload /\ known' = known
  BY DEF DeleteProduct, Shelf
<1>2. /\ Unlocked(Shop, product)
      /\ \A v \in Living : /\ \A q \in Handler : ~Holds(q, v)
                           /\ ~db[lineRow(v)]
                           /\ \A o \in Order : db[resvRow(o)].variant # v
      /\ \E rows : /\ DOMAIN rows \subseteq Row /\ CommitWith(Shop, rows)
      /\ Living' = {}
      /\ \A v \in Variant :
           /\ db'[lineRow(v)] = db[lineRow(v)]
           /\ db'[stockRow(v)] = IF v \in Living THEN NoStock ELSE db[stockRow(v)]
      /\ \A o \in Order : db'[resvRow(o)] = db[resvRow(o)]
      /\ \A i \in Image : ~db'[imageRow(i)]
  BY DeletedProduct
<1>3. PICK rows : DOMAIN rows \subseteq Row /\ CommitWith(Shop, rows)
  BY <1>2
<1>4. /\ \A v \in Variant : ~db[lineRow(v)]
      /\ \A o \in Order : db[resvRow(o)] = NoResv
  <2>1. \A v \in Living : ~db[lineRow(v)] /\ \A o \in Order : db[resvRow(o)].variant # v
    BY <1>2
  <2>2. ReferencesOK
    BY DEF IInv
  <2> QED
    BY <2>1, <2>2, References
<1>5. ReferencesOK'
  <2>1. ReferencesLive'
    BY <1>2, <1>4 DEF ReferencesLive
  <2>2. EditsDoNotMix'
    BY <1>2 DEF EditsDoNotMix, Living
  <2> QED
    BY <1>2, <1>4, <2>1, <2>2 DEF ReferencesOK
<1>6. StockOK'
  <2>1. \A v \in Variant : Sold(v)' = Sold(v) /\ Sold(v) = {}
    BY <1>2, <1>4 DEF Sold, NoResv
  <2>2. \A v \in Variant : Cardinality(Sold(v)') = 0
    BY <2>1, FS_EmptySet
  <2>3. ASSUME NEW v \in Variant
        PROVE  /\ db'[stockRow(v)] \in Stock \cup {NoStock}
               /\ db'[stockRow(v)].reserved = Cardinality(Sold(v)')
               /\ db'[stockRow(v)] # NoStock =>
                    /\ known[v].version \in Nat /\ known[v].version <= db'[stockRow(v)].version
                    /\ db'[stockRow(v)].version \in {0, known[v].version} =>
                         known[v] = db'[stockRow(v)]
    <3>1. CASE v \in Living
      BY <1>2, <2>2, <3>1, NoRowValues
    <3>2. CASE v \notin Living
      BY <1>2, <2>1, <3>2 DEF IInv, StockOK
    <3> QED
      BY <3>1, <3>2
  <2> QED
    BY <1>1, <2>3 DEF StockOK
<1>7. ImagesOK'
  BY <1>1, <1>2, KeepImages DEF IInv
<1>8. ASSUME NEW q \in Handler PROVE HandlerOK(q)'
  <2>1. at[q].pc \notin Deleting /\ at[q].pc # "order"
    BY <1>2, ProductUnlocked, Places
  <2>2. at[q].pc \in Confirmed => db'[resvRow(at[q].order)] = db[resvRow(at[q].order)]
    BY <1>2, Places
  <2>3. In(at[q].image)' = In(at[q].image) /\ upload'[at[q].image] = upload[at[q].image]
    BY <1>1 DEF In
  <2> QED
    BY <1>1, <1>3, <2>1, <2>2, <2>3, ShopHandlers
<1> QED
  BY <1>1, <1>3, <1>5, <1>6, <1>7, <1>8, ShopKeeps DEF IInv

(* A single statement that writes one row.                                 *)
LEMMA OneRow ==
  ASSUME IInv, NEW row \in Row, NEW value, CommitWith(Shop, Only(row, value))
  PROVE  /\ DOMAIN Only(row, value) \subseteq Row
         /\ db'[row] = value /\ \A r \in Row : r # row => db'[r] = db[r]
         /\ Unlocked(Shop, row)
<1>1. DOMAIN Only(row, value) = {row} /\ Only(row, value)[row] = value
  BY OnlyRow
<1>2. \A r \in Row : db'[r] = IF r \in DOMAIN Only(row, value) THEN Only(row, value)[r] ELSE db[r]
  BY <1>1, ShopCommit
<1>3. Unlocked(Shop, row)
  BY <1>1 DEF CommitWith
<1> QED
  BY <1>1, <1>2, <1>3

(* Rows of a table are those of no other table.                            *)
LEMMA OtherRows ==
  ASSUME NEW row, \A r \in Row : r # row => db'[r] = db[r]
  PROVE  /\ row[1] # "product" => db'[product] = db[product]
         /\ row[1] # "variant" =>
              /\ \A v \in Variant : db'[variantRow(v)] = db[variantRow(v)]
              /\ Living' = Living
         /\ row[1] # "stock" => \A v \in Variant : db'[stockRow(v)] = db[stockRow(v)]
         /\ row[1] # "line" => \A v \in Variant : db'[lineRow(v)] = db[lineRow(v)]
         /\ row[1] # "reservation" => \A o \in Order : db'[resvRow(o)] = db[resvRow(o)]
         /\ row[1] # "image" => \A i \in Image : db'[imageRow(i)] = db[imageRow(i)]
<1>1. row[1] # "variant" => \A v \in Variant : db'[variantRow(v)] = db[variantRow(v)]
  BY RowNames, RowsThere
<1>2. (\A v \in Variant : db'[variantRow(v)] = db[variantRow(v)]) => Living' = Living
  BY DEF Living
<1> QED
  BY <1>1, <1>2, RowNames, RowsThere

(* A cart line comes or goes; one that comes names a variant nobody is     *)
(* deleting.                                                               *)
LEMMA LineKeeps ==
  ASSUME IInv, NEW v \in Variant, NEW b \in BOOLEAN, CommitWith(Shop, Only(lineRow(v), b)),
         UNCHANGED <<at, Shelf, known>>, b => Refer(Shop, v)
  PROVE  IInv'
<1>1. at' = at /\ objects' = objects /\ upload' = upload /\ known' = known
  BY DEF Shelf
<1>2. lineRow(v) \in Row /\ lineRow(v)[1] = "line"
  BY RowNames, RowsThere
<1>3. /\ DOMAIN Only(lineRow(v), b) \subseteq Row
      /\ db'[lineRow(v)] = b /\ \A r \in Row : r # lineRow(v) => db'[r] = db[r]
  BY <1>2, OneRow
<1>4. /\ db'[product] = db[product] /\ Living' = Living
      /\ \A w \in Variant : db'[variantRow(w)] = db[variantRow(w)]
      /\ \A w \in Variant : db'[stockRow(w)] = db[stockRow(w)]
      /\ \A o \in Order : db'[resvRow(o)] = db[resvRow(o)]
      /\ \A i \in Image : db'[imageRow(i)] = db[imageRow(i)]
  BY <1>2, <1>3, OtherRows
<1>5. \A w \in Variant : w # v => db'[lineRow(w)] = db[lineRow(w)]
  BY <1>3, RowNames, RowsThere
<1>6. b => v \in Living
  <2>1. dirty[Shop] = NoWrites /\ DOMAIN NoWrites = {}
    BY DEF IInv, NoWrites
  <2> QED
    BY <2>1 DEF Refer, Live, Read, Living
<1>7. ReferencesOK'
  <2>1. \A w \in Variant : db'[lineRow(w)] => w \in Living
    BY <1>3, <1>5, <1>6, References DEF IInv
  <2> QED
    BY <1>4, <2>1, References, KeepReferences DEF IInv
<1>8. StockOK' /\ ImagesOK'
  BY <1>1, <1>4, KeepStock, KeepImages DEF IInv
<1>9. ASSUME NEW q \in Handler PROVE HandlerOK(q)'
  <2>1. ASSUME at[q].pc \in Deleting, NEW w \in at[q].seen, db'[lineRow(w)]
        PROVE  db[lineRow(w)]
    <3>1. w \in Variant /\ variantRow(w) \in DOMAIN dirty[q]
      BY <2>1, Places DEF Living
    <3>2. CASE w = v
      BY <1>3, <2>1, <3>1, <3>2, HandlerAssumption DEF Refer, Unlocked
    <3> QED
      BY <1>5, <2>1, <3>1, <3>2
  <2>2. at[q].pc \in Confirmed => db'[resvRow(at[q].order)] = db[resvRow(at[q].order)]
    BY <1>4, Places
  <2>3. at[q].pc = "order" => at[q].variant \in Living'
    BY <1>4, Places
  <2>4. In(at[q].image)' = In(at[q].image) /\ upload'[at[q].image] = upload[at[q].image]
    BY <1>1 DEF In
  <2>5. \A o \in Order : db'[resvRow(o)].variant = db[resvRow(o)].variant
    BY <1>4
  <2> QED
    BY <1>1, <1>3, <1>4, <2>1, <2>2, <2>3, <2>4, <2>5, ShopHandlers
<1> QED
  BY <1>1, <1>3, <1>7, <1>8, <1>9, ShopKeeps DEF IInv

(* A settlement: the unit leaves the stock row that counts it.             *)
LEMMA ResolveKeeps ==
  ASSUME IInv, NEW o \in Order, NEW status \in {"committed", "released"}, Resolve(o, status)
  PROVE  IInv'
<1> DEFINE v == db[resvRow(o)].variant
           s == db[stockRow(v)]
           resv == [variant |-> v, status |-> status]
           stock == Bumped(s, s.available + Returned(status), s.reserved - 1)
           rows == Together(Only(resvRow(o), resv), Only(stockRow(v), stock))
<1>1. /\ UNCHANGED <<at, Shelf, known>> /\ at' = at /\ objects' = objects /\ upload' = upload
      /\ known' = known /\ db[resvRow(o)].status = "held"
  BY DEF Resolve, Shelf
<1>2. db[resvRow(o)] \in Reservation
  BY <1>1, NoRowValues DEF IInv, ReferencesOK
<1>3. v \in Variant /\ db[resvRow(o)] = [variant |-> v, status |-> "held"] /\ v \in Living
  BY <1>1, <1>2, References, NoRowValues DEF IInv, Reservation
<1>4. o \in Sold(v) /\ Sold(v) \subseteq Order
  BY <1>3 DEF Sold
<1>5. /\ IsFiniteSet(Sold(v)) /\ Cardinality(Sold(v)) \in Nat /\ Cardinality(Sold(v)) # 0
      /\ Cardinality(Sold(v) \ {o}) = Cardinality(Sold(v)) - 1
  <2>1. IsFiniteSet(Sold(v))
    BY <1>4, FS_Subset, CatalogAssumption
  <2>2. /\ Cardinality(Sold(v)) \in Nat
        /\ Cardinality(Sold(v) \ {o}) = Cardinality(Sold(v)) - 1
    BY <1>4, <2>1, FS_CardinalityType, FS_RemoveElement
  <2>3. Cardinality(Sold(v)) # 0
    BY <1>4, <2>1, FS_EmptySet
  <2> QED
    BY <2>1, <2>2, <2>3
<1>6. s \in Stock /\ s.reserved = Cardinality(Sold(v))
  BY <1>3, <1>5, NoRowValues DEF IInv, StockOK
<1>7. CommitWith(Shop, rows)
  BY <1>5, <1>6 DEF Resolve
<1>8. /\ DOMAIN rows = {resvRow(o), stockRow(v)} /\ resvRow(o) # stockRow(v)
      /\ rows[resvRow(o)] = resv /\ rows[stockRow(v)] = stock
  <2>1. resvRow(o) # stockRow(v)
    BY RowNames
  <2> QED
    BY <2>1, Zenon DEF Together, Only
<1>9. stock \in Stock /\ stock.reserved = Cardinality(Sold(v)) - 1 /\ stock.version = s.version + 1
  BY <1>5, <1>6 DEF Stock, Bumped, Returned
<1>10. resv \in Reservation /\ resv # [variant |-> v, status |-> "held"] /\ resv.variant = v
  BY <1>3 DEF Reservation
<1> HIDE DEF rows, resv, stock
<1>11. DOMAIN rows \subseteq Row
  BY <1>3, <1>8, RowsThere
<1>12. \A r \in Row : db'[r] = IF r \in DOMAIN rows THEN rows[r] ELSE db[r]
  BY <1>7, <1>11, ShopCommit
<1>13. db'[resvRow(o)] = resv /\ db'[stockRow(v)] = stock
  BY <1>3, <1>8, <1>12, RowsThere
<1>14. \A x \in Order : x # o => db'[resvRow(x)] = db[resvRow(x)]
  BY <1>8, <1>12, RowNames, RowsThere
<1>15. \A w \in Variant : w # v => db'[stockRow(w)] = db[stockRow(w)]
  BY <1>8, <1>12, RowNames, RowsThere
<1>16. /\ db'[product] = db[product]
       /\ \A w \in Variant : /\ db'[variantRow(w)] = db[variantRow(w)]
                             /\ db'[lineRow(w)] = db[lineRow(w)]
       /\ \A i \in Image : db'[imageRow(i)] = db[imageRow(i)]
  BY <1>8, <1>12, RowNames, RowsThere
<1>17. ReferencesOK' /\ Living' = Living
  <2>1. ASSUME NEW x \in Order
        PROVE  \/ db'[resvRow(x)] = NoResv
               \/ /\ db'[resvRow(x)] \in Reservation
                  /\ db'[resvRow(x)].variant \in Living
    <3>1. CASE x = o
      BY <1>3, <1>10, <1>13, <3>1
    <3>2. CASE x # o
      BY <1>14, <3>2, References DEF IInv
    <3> QED
      BY <3>1, <3>2
  <2> QED
    BY <1>16, <2>1, References, KeepReferences DEF IInv
<1>18. StockOK'
  <2>1. ASSUME NEW w \in Variant, w = v PROVE Sold(w)' = Sold(v) \ {o}
    BY <1>10, <1>13, <1>14, <2>1 DEF Sold
  <2>2. ASSUME NEW w \in Variant, w # v PROVE Sold(w)' = Sold(w)
    BY <1>3, <1>10, <1>13, <1>14, <2>2 DEF Sold
  <2>3. ASSUME NEW w \in Variant
        PROVE  /\ db'[stockRow(w)] \in Stock \cup {NoStock}
               /\ db'[stockRow(w)].reserved = Cardinality(Sold(w)')
               /\ db'[stockRow(w)] # NoStock =>
                    /\ known[w].version \in Nat /\ known[w].version <= db'[stockRow(w)].version
                    /\ db'[stockRow(w)].version \in {0, known[w].version} =>
                         known[w] = db'[stockRow(w)]
    <3>1. CASE w = v
      <4>1. /\ known[v].version \in Nat /\ known[v].version <= s.version /\ s.version \in Nat
        BY <1>3, <1>6, NoRowValues DEF IInv, StockOK
      <4>2. known[v].version < stock.version /\ stock.version > 0
        BY <1>9, <4>1
      <4>3. Cardinality(Sold(w)') = Cardinality(Sold(v)) - 1
        BY <1>5, <2>1, <3>1
      <4> QED
        BY <1>9, <1>13, <3>1, <4>1, <4>2, <4>3
    <3>2. CASE w # v
      BY <1>15, <2>2, <3>2 DEF IInv, StockOK
    <3> QED
      BY <3>1, <3>2
  <2> QED
    BY <1>1, <2>3 DEF StockOK
<1>19. ImagesOK'
  BY <1>1, <1>16, KeepImages DEF IInv
<1>20. ASSUME NEW q \in Handler PROVE HandlerOK(q)'
  <2>1. at[q].pc \in Confirmed => at[q].order \in Order /\ at[q].order # o
    BY <1>2, Places, NoRowValues
  <2>2. at[q].pc \in Confirmed => db'[resvRow(at[q].order)] = db[resvRow(at[q].order)]
    BY <1>14, <2>1
  <2>3. \A x \in Order : db'[resvRow(x)].variant = db[resvRow(x)].variant
    BY <1>10, <1>13, <1>14
  <2>4. at[q].pc = "order" => at[q].variant \in Living'
    BY <1>17, Places
  <2>5. In(at[q].image)' = In(at[q].image) /\ upload'[at[q].image] = upload[at[q].image]
    BY <1>1 DEF In
  <2>6. at[q].pc \in Deleting => \A w \in at[q].seen : db'[lineRow(w)] = db[lineRow(w)]
    BY <1>16, Places DEF Living
  <2> QED
    BY <1>1, <1>7, <1>11, <1>17, <2>2, <2>3, <2>4, <2>5, <2>6, ShopHandlers
<1> QED
  BY <1>1, <1>7, <1>11, <1>17, <1>18, <1>19, <1>20, ShopKeeps DEF IInv

(* What an accepted set-stock overwrites is what the last one answered.    *)
LEMMA SetStockSaw ==
  ASSUME IInv, NEW v \in Variant, NEW a, NEW expected, SetStock(v, a, expected),
         db[stockRow(v)] # NoStock
  PROVE  known[v] = db[stockRow(v)]
<1>1. /\ expected \in {0, known[v].version}
      /\ UpsertMatches(db[stockRow(v)], expected)
  BY DEF SetStock
<1>2. db[stockRow(v)].version \in {0, known[v].version}
  BY <1>1 DEF UpsertMatches
<1> QED
  BY <1>2 DEF IInv, StockOK

(* Set-stock keeps the units held, and knows the row it leaves.            *)
LEMMA SetStockKeeps ==
  ASSUME IInv, NEW v \in Variant, NEW a \in Amount, NEW expected, SetStock(v, a, expected)
  PROVE  IInv'
<1> DEFINE s == db[stockRow(v)]
           next == IF s = NoStock THEN [available |-> a, reserved |-> 0, version |-> 0]
                                  ELSE Bumped(s, a, s.reserved)
<1>1. /\ UNCHANGED <<at, Shelf>> /\ at' = at /\ objects' = objects /\ upload' = upload
      /\ known' = [known EXCEPT ![v] = next] /\ CommitWith(Shop, Only(stockRow(v), next))
  BY DEF SetStock, Shelf
<1>2. s \in Stock \cup {NoStock} /\ s.reserved = Cardinality(Sold(v))
  BY DEF IInv, StockOK
<1>3. next \in Stock /\ next.reserved = s.reserved
  <2>1. CASE s = NoStock
    BY <2>1, NoRowValues, CatalogAssumption DEF Stock
  <2>2. CASE s # NoStock
    BY <1>2, <2>2, NoRowValues, CatalogAssumption DEF Stock, Bumped
  <2> QED
    BY <2>1, <2>2
<1> HIDE DEF next
<1>4. known'[v] = next /\ \A w \in Variant : w # v => known'[w] = known[w]
  BY <1>1 DEF IInv
<1>5. DOMAIN known' = Variant
  BY <1>1 DEF IInv
<1>6. stockRow(v) \in Row /\ stockRow(v)[1] = "stock"
  BY RowNames, RowsThere
<1>7. /\ DOMAIN Only(stockRow(v), next) \subseteq Row
      /\ db'[stockRow(v)] = next /\ \A r \in Row : r # stockRow(v) => db'[r] = db[r]
  BY <1>1, <1>6, OneRow
<1>8. /\ db'[product] = db[product] /\ Living' = Living
      /\ \A w \in Variant : db'[variantRow(w)] = db[variantRow(w)]
      /\ \A w \in Variant : db'[lineRow(w)] = db[lineRow(w)]
      /\ \A o \in Order : db'[resvRow(o)] = db[resvRow(o)]
      /\ \A i \in Image : db'[imageRow(i)] = db[imageRow(i)]
  BY <1>6, <1>7, OtherRows
<1>9. ReferencesOK' /\ ImagesOK'
  BY <1>1, <1>8, References, KeepReferences, KeepImages DEF IInv
<1>10. StockOK'
  <2>1. \A w \in Variant : Sold(w)' = Sold(w)
    BY <1>8 DEF Sold
  <2>2. \A w \in Variant : w # v => db'[stockRow(w)] = db[stockRow(w)]
    BY <1>7, RowNames, RowsThere
  <2>3. ASSUME NEW w \in Variant
        PROVE  /\ db'[stockRow(w)] \in Stock \cup {NoStock}
               /\ db'[stockRow(w)].reserved = Cardinality(Sold(w)')
               /\ db'[stockRow(w)] # NoStock =>
                    /\ known'[w].version \in Nat
                    /\ known'[w].version <= db'[stockRow(w)].version
                    /\ db'[stockRow(w)].version \in {0, known'[w].version} =>
                         known'[w] = db'[stockRow(w)]
    <3>1. CASE w = v
      <4>1. next.version \in Nat /\ next.version <= next.version
        BY <1>3, NoRowValues
      <4> QED
        BY <1>2, <1>3, <1>4, <1>7, <2>1, <3>1, <4>1
    <3>2. CASE w # v
      BY <1>4, <2>1, <2>2, <3>2 DEF IInv, StockOK
    <3> QED
      BY <3>1, <3>2
  <2> QED
    BY <2>3 DEF StockOK
<1>11. ASSUME NEW q \in Handler PROVE HandlerOK(q)'
  <2>1. at[q].pc \in Confirmed => db'[resvRow(at[q].order)] = db[resvRow(at[q].order)]
    BY <1>8, Places
  <2>2. at[q].pc = "order" => at[q].variant \in Living'
    BY <1>8, Places
  <2>3. In(at[q].image)' = In(at[q].image) /\ upload'[at[q].image] = upload[at[q].image]
    BY <1>1 DEF In
  <2>4. at[q].pc \in Deleting => \A w \in at[q].seen : db'[lineRow(w)] = db[lineRow(w)]
    BY <1>8, Places DEF Living
  <2>5. \A o \in Order : db'[resvRow(o)].variant = db[resvRow(o)].variant
    BY <1>8
  <2> QED
    BY <1>1, <1>7, <1>8, <2>1, <2>2, <2>3, <2>4, <2>5, ShopHandlers
<1> QED
  BY <1>1, <1>5, <1>7, <1>9, <1>10, <1>11, ShopKeeps

(* The orphan cleanup takes image rows only.                               *)
LEMMA CleanupKeeps ==
  ASSUME IInv, CleanupOrphans
  PROVE  IInv'
<1> DEFINE T == {i \in Image : db[imageRow(i)] /\ db[product] # "listed"}
           rows == Delete(imageRows(T))
<1>1. /\ UNCHANGED <<at, Shelf, known>> /\ at' = at /\ objects' = objects /\ upload' = upload
      /\ known' = known /\ CommitWith(Shop, rows)
  BY DEF CleanupOrphans, Shelf
<1>2. DOMAIN rows = imageRows(T) /\ \A r \in imageRows(T) : rows[r] = FALSE /\ r[1] = "image"
  BY DeletedSets, RowSets
<1>3. imageRows(T) \subseteq Row
  BY RowsThere DEF imageRows
<1> HIDE DEF rows, T
<1>4. \A r \in Row : db'[r] = IF r \in DOMAIN rows THEN rows[r] ELSE db[r]
  BY <1>1, <1>2, <1>3, ShopCommit
<1>5. \A r \in Row : r[1] # "image" => db'[r] = db[r]
  BY <1>2, <1>4
<1>6. \A i \in Image : db'[imageRow(i)] => db[imageRow(i)]
  BY <1>2, <1>4, RowsThere
<1>7. /\ db'[product] = db[product]
      /\ \A w \in Variant : /\ db'[variantRow(w)] = db[variantRow(w)]
                            /\ db'[lineRow(w)] = db[lineRow(w)]
                            /\ db'[stockRow(w)] = db[stockRow(w)]
      /\ \A o \in Order : db'[resvRow(o)] = db[resvRow(o)]
  BY <1>5, RowNames, RowsThere
<1>8. \A i \in Image : db'[imageRow(i)] => db[product] = "listed"
  BY <1>6, References DEF IInv
<1>9. ReferencesOK' /\ Living' = Living /\ StockOK' /\ ImagesOK'
  BY <1>1, <1>6, <1>7, <1>8, References, KeepReferences, KeepStock, KeepImages DEF IInv
<1>10. ASSUME NEW q \in Handler PROVE HandlerOK(q)'
  <2>1. at[q].pc \in Confirmed => db'[resvRow(at[q].order)] = db[resvRow(at[q].order)]
    BY <1>7, Places
  <2>2. at[q].pc = "order" => at[q].variant \in Living'
    BY <1>9, Places
  <2>3. In(at[q].image)' = In(at[q].image) /\ upload'[at[q].image] = upload[at[q].image]
    BY <1>1 DEF In
  <2>4. at[q].pc \in Deleting => \A w \in at[q].seen : db'[lineRow(w)] = db[lineRow(w)]
    BY <1>7, Places DEF Living
  <2>5. \A o \in Order : db'[resvRow(o)].variant = db[resvRow(o)].variant
    BY <1>7
  <2> QED
    BY <1>1, <1>2, <1>3, <1>9, <2>1, <2>2, <2>3, <2>4, <2>5, ShopHandlers
<1> QED
  BY <1>1, <1>2, <1>3, <1>9, <1>10, ShopKeeps DEF IInv

(* A confirm begins, for an order no other handler has.                    *)
LEMMA ConfirmKeeps ==
  ASSUME IInv, NEW p \in Handler, NEW o \in Order, NEW v \in Variant, Confirm(p, o, v)
  PROVE  IInv'
<1> DEFINE f == [Idle EXCEPT !.pc = "reserve", !.order = o, !.variant = v]
<1>1. /\ Goto(p, f) /\ NoStatement /\ UNCHANGED <<Shelf, known>> /\ at[p].pc = "idle"
      /\ db[resvRow(o)] = NoResv /\ o \notin Confirming
  BY DEF Confirm
<1>2. f \in Frame /\ f.pc = "reserve" /\ f.order = o /\ f.variant = v /\ f.image = "none"
  BY DEF Idle, Frame, Confirmed
<1> HIDE DEF f
<1>3. StoreOf(Row)' /\ LocksExclusive' /\ db' = db /\ dirty' = dirty /\ at'[p] = f
  BY <1>1, NoStatementStore, GotoEffect
<1>4. dirty[p] = NoWrites
  BY <1>1 DEF IInv, HandlerOK, Editing, Deleting, Reserving
<1>5. ConfirmOK(p)'
  BY <1>1, <1>2, <1>3 DEF ConfirmOK, Reserving
<1>6. HandlerOK(p)'
  BY <1>2, <1>3, <1>4, <1>5 DEF HandlerOK, Editing, Deleting, Confirmed, Reserving, Uploading
<1>7. \A q \in Handler \ {p} : at'[q] = at[q] /\ at[q].order # o
  BY <1>1, GotoEffect DEF Confirming
<1>8. \A q \in Handler \ {p} : Apart(p, q)' /\ Apart(q, p)'
  BY <1>2, <1>3, <1>7 DEF Apart, Deleting, Confirmed, Reserving, Uploading
<1> QED
  BY <1>1, <1>3, <1>6, <1>8, QuietStep

(* ReserveStock takes the lock of the stock row and a unit off it.         *)
LEMMA ReserveStockKeeps ==
  ASSUME IInv, NEW p \in Handler, ReserveStock(p)
  PROVE  IInv'
<1> DEFINE v == at[p].variant
           s == Read(p, stockRow(v))
           row == Bumped(s, s.available - 1, s.reserved + 1)
           f == [at[p] EXCEPT !.pc = "hold"]
<1>1. /\ at[p].pc = "reserve" /\ UNCHANGED <<Shelf, known>> /\ at[p] \in Frame /\ p \in Proc
      /\ at[p].image = "none" /\ ConfirmOK(p) /\ dirty[p] = NoWrites
  BY HandlerAssumption
     DEF ReserveStock, IInv, HandlerOK, Uploading, Confirmed, Editing, Deleting, Reserving
<1>2. ASSUME Enough(s), Write(p, Only(stockRow(v), row)), Goto(p, f)
      PROVE  IInv'
  <2>1. /\ f \in Frame /\ f.pc = "hold" /\ f.order = at[p].order /\ f.variant = v
        /\ f.image = "none"
    BY <1>1 DEF Frame, Confirmed, Reserving
  <2> HIDE DEF f
  <2>2. at'[p] = f
    BY <1>2, GotoEffect
  <2>3. s = db[stockRow(v)] /\ DOMAIN dirty[p] = {}
    BY <1>1 DEF Read, NoWrites
  <2>4. v \in Variant /\ at[p].order \in Order /\ db[resvRow(at[p].order)] = NoResv
    BY <1>1 DEF ConfirmOK
  <2>5. stockRow(v) \in Row
    BY <2>4, RowsThere
  <2>6. /\ DOMAIN Only(stockRow(v), row) = {stockRow(v)}
        /\ Only(stockRow(v), row)[stockRow(v)] = row
    BY OnlyRow
  <2>7. DOMAIN Only(stockRow(v), row) \subseteq Row
    BY <2>5, <2>6
  <2>8. /\ db' = db /\ DOMAIN dirty'[p] = {stockRow(v)}
        /\ dirty'[p][stockRow(v)] = row
    <3>1. /\ db' = db
          /\ DOMAIN dirty'[p] = DOMAIN Only(stockRow(v), row) \cup DOMAIN dirty[p]
          /\ \A r \in DOMAIN dirty'[p] :
               dirty'[p][r] = IF r \in DOMAIN Only(stockRow(v), row)
                                THEN Only(stockRow(v), row)[r] ELSE dirty[p][r]
      BY <1>1, <1>2, <2>7, WriteRows DEF IInv
    <3> QED
      BY <2>3, <2>6, <3>1
  <2>9. row = Bumped(db[stockRow(v)], db[stockRow(v)].available - 1, db[stockRow(v)].reserved + 1)
    BY <2>3
  <2> HIDE DEF row
  <2>10. ConfirmOK(p)'
    BY <1>2, <2>1, <2>2, <2>3, <2>4, <2>8, <2>9 DEF ConfirmOK, Reserving
  <2>11. HandlerOK(p)'
    BY <2>1, <2>2, <2>10 DEF HandlerOK, Editing, Deleting, Confirmed, Reserving, Uploading
  <2>12. \A q \in Handler \ {p} : Apart(p, q)' /\ Apart(q, p)'
    BY <1>1, <1>2, <2>1, MovesOn DEF Deleting, Confirmed, Reserving, Uploading
  <2> QED
    BY <1>1, <1>2, <2>7, <2>11, <2>12, WriteKeeps
<1>3. ASSUME Fail(p) PROVE IInv'
  BY <1>1, <1>3, FailKeeps
<1> QED
  BY <1>2, <1>3 DEF ReserveStock

(* The reservation and the item name a variant that is there and that no   *)
(* edit has deleted.                                                       *)
LEMMA HoldUnitKeeps ==
  ASSUME IInv, NEW p \in Handler, HoldUnit(p)
  PROVE  IInv'
<1> DEFINE v == at[p].variant
           o == at[p].order
           row == [variant |-> v, status |-> "held"]
           f == [at[p] EXCEPT !.pc = "order"]
<1>1. /\ at[p].pc = "hold" /\ UNCHANGED <<Shelf, known>> /\ at[p] \in Frame /\ p \in Proc
      /\ at[p].image = "none" /\ ConfirmOK(p) /\ Unlocked(p, variantRow(v))
  BY HandlerAssumption
     DEF HoldUnit, IInv, HandlerOK, Uploading, Confirmed, Editing, Deleting, Reserving
<1>2. ASSUME Live(p, v), Write(p, Only(resvRow(o), row)), Goto(p, f)
      PROVE  IInv'
  <2>1. /\ f \in Frame /\ f.pc = "order" /\ f.order = o /\ f.variant = v /\ f.image = "none"
    BY <1>1 DEF Frame, Confirmed, Reserving
  <2> HIDE DEF f
  <2>2. at'[p] = f
    BY <1>2, GotoEffect
  <2>3. /\ v \in Variant /\ o \in Order /\ db[resvRow(o)] = NoResv
        /\ DOMAIN dirty[p] = {stockRow(v)} /\ Enough(db[stockRow(v)])
        /\ dirty[p][stockRow(v)] = Bumped(db[stockRow(v)], db[stockRow(v)].available - 1,
                                          db[stockRow(v)].reserved + 1)
    BY <1>1 DEF ConfirmOK, Reserving
  <2>4. variantRow(v) \notin DOMAIN dirty[p] /\ resvRow(o) # stockRow(v)
    BY <2>3, RowNames
  <2>5. v \in Living
    BY <1>2, <2>3, <2>4 DEF Live, Read, Living
  <2>6. /\ DOMAIN Only(resvRow(o), row) = {resvRow(o)}
        /\ Only(resvRow(o), row)[resvRow(o)] = row
    BY OnlyRow
  <2>7. DOMAIN Only(resvRow(o), row) \subseteq Row
    BY <2>3, <2>6, RowsThere
  <2>8. /\ db' = db /\ DOMAIN dirty'[p] = {stockRow(v), resvRow(o)}
        /\ dirty'[p][stockRow(v)] = dirty[p][stockRow(v)]
        /\ dirty'[p][resvRow(o)] = row
    <3>1. /\ db' = db
          /\ DOMAIN dirty'[p] = DOMAIN Only(resvRow(o), row) \cup DOMAIN dirty[p]
          /\ \A r \in DOMAIN dirty'[p] :
               dirty'[p][r] = IF r \in DOMAIN Only(resvRow(o), row)
                                THEN Only(resvRow(o), row)[r] ELSE dirty[p][r]
      BY <1>1, <1>2, <2>7, WriteRows DEF IInv
    <3> QED
      BY <2>3, <2>4, <2>6, <3>1
  <2>9. Living' = Living
    BY <2>8 DEF Living
  <2>10. ConfirmOK(p)'
    BY <2>1, <2>2, <2>3, <2>5, <2>8, <2>9 DEF ConfirmOK, Reserving
  <2>11. HandlerOK(p)'
    BY <2>1, <2>2, <2>10 DEF HandlerOK, Editing, Deleting, Confirmed, Reserving, Uploading
  <2>12. ASSUME NEW q \in Handler \ {p} PROVE at[q].pc \notin Deleting
    BY <1>1, <2>5, Places, HandlerAssumption DEF Unlocked
  <2>13. \A q \in Handler \ {p} : Apart(p, q)' /\ Apart(q, p)'
    BY <1>1, <1>2, <2>1, <2>2, <2>12, GotoEffect
       DEF IInv, Apart, Deleting, Confirmed, Reserving, Uploading
  <2> QED
    BY <1>1, <1>2, <2>7, <2>11, <2>13, WriteKeeps
<1>3. ASSUME Fail(p) PROVE IInv'
  BY <1>1, <1>3, FailKeeps
<1> QED
  BY <1>2, <1>3 DEF HoldUnit

(* COMMIT of the order: one more unit is held on the row that counts it.   *)
LEMMA CommitOrderKeeps ==
  ASSUME IInv, NEW p \in Handler, CommitOrder(p)
  PROVE  IInv'
<1>1. PICK v \in Variant, o \in Order : v = at[p].variant /\ o = at[p].order
  BY DEF CommitOrder, IInv, HandlerOK, ConfirmOK, Confirmed, Reserving
<1> DEFINE s == db[stockRow(v)]
           row == Bumped(s, s.available - 1, s.reserved + 1)
           held == [variant |-> v, status |-> "held"]
<1>2. /\ at[p].pc = "order" /\ Done(p) /\ UNCHANGED <<Shelf, known>> /\ known' = known
      /\ objects' = objects /\ upload' = upload /\ CommitWith(p, NoWrites)
  BY DEF CommitOrder, Commit, Shelf
<1>3. /\ db[resvRow(o)] = NoResv /\ DOMAIN dirty[p] = {stockRow(v), resvRow(o)}
      /\ Enough(s) /\ dirty[p][stockRow(v)] = row /\ dirty[p][resvRow(o)] = held
      /\ v \in Living
  BY <1>1, <1>2 DEF IInv, HandlerOK, ConfirmOK, Confirmed, Reserving
<1>4. DOMAIN NoWrites = {} /\ DOMAIN NoWrites \subseteq Row
  BY DEF NoWrites
<1>5. \A r \in Row : db'[r] = IF r \in DOMAIN dirty[p] THEN dirty[p][r] ELSE db[r]
  <2>1. \A r \in Row : db'[r] = Read(p, r)
    BY <1>2, <1>4, CommitEffects
  <2> QED
    BY <2>1 DEF Read
<1>6. s \in Stock /\ s.reserved = Cardinality(Sold(v)) /\ s.available > 0
  BY <1>3, NoRowValues DEF IInv, StockOK, Enough
<1>7. /\ row \in Stock /\ row.reserved = s.reserved + 1 /\ row.version = s.version + 1
      /\ row # NoStock
  <2>1. s.available \in Nat /\ s.reserved \in Nat /\ s.version \in Nat
    BY <1>6, NoRowValues
  <2>2. row \in Stock
    BY <1>6, <2>1 DEF Stock, Bumped
  <2> QED
    BY <2>2, NoRowValues DEF Bumped
<1> HIDE DEF row
<1>8. db'[stockRow(v)] = row /\ db'[resvRow(o)] = held
  BY <1>3, <1>5, RowsThere
<1>9. /\ \A w \in Variant : w # v => db'[stockRow(w)] = db[stockRow(w)]
      /\ \A x \in Order : x # o => db'[resvRow(x)] = db[resvRow(x)]
  BY <1>3, <1>5, RowNames, RowsThere
<1>10. /\ db'[product] = db[product]
       /\ \A w \in Variant : /\ db'[variantRow(w)] = db[variantRow(w)]
                             /\ db'[lineRow(w)] = db[lineRow(w)]
       /\ \A i \in Image : db'[imageRow(i)] = db[imageRow(i)]
  BY <1>3, <1>5, RowNames, RowsThere
<1>11. held \in Reservation /\ held.variant = v
  BY DEF Reservation
<1>12. ReferencesOK' /\ Living' = Living
  <2>1. ASSUME NEW x \in Order
        PROVE  \/ db'[resvRow(x)] = NoResv
               \/ /\ db'[resvRow(x)] \in Reservation
                  /\ db'[resvRow(x)].variant \in Living
    <3>1. CASE x = o
      BY <1>3, <1>8, <1>11, <3>1
    <3>2. CASE x # o
      BY <1>9, <3>2, References DEF IInv
    <3> QED
      BY <3>1, <3>2
  <2> QED
    BY <1>10, <2>1, References, KeepReferences DEF IInv
<1>13. StockOK'
  <2>1. Sold(v)' = Sold(v) \cup {o} /\ o \notin Sold(v)
    BY <1>3, <1>8, <1>9 DEF Sold, NoResv
  <2>2. \A w \in Variant : w # v => Sold(w)' = Sold(w)
    BY <1>3, <1>8, <1>9 DEF Sold, NoResv
  <2>3. IsFiniteSet(Sold(v))
    BY CatalogAssumption, FS_Subset DEF Sold
  <2>4. Cardinality(Sold(v)') = Cardinality(Sold(v)) + 1
    BY <2>1, <2>3, FS_AddElement
  <2>5. ASSUME NEW w \in Variant
        PROVE  /\ db'[stockRow(w)] \in Stock \cup {NoStock}
               /\ db'[stockRow(w)].reserved = Cardinality(Sold(w)')
               /\ db'[stockRow(w)] # NoStock =>
                    /\ known[w].version \in Nat /\ known[w].version <= db'[stockRow(w)].version
                    /\ db'[stockRow(w)].version \in {0, known[w].version} =>
                         known[w] = db'[stockRow(w)]
    <3>1. CASE w = v
      <4>1. known[v].version \in Nat /\ known[v].version <= s.version /\ s.version \in Nat
        BY <1>6, NoRowValues DEF IInv, StockOK
      <4>2. known[v].version < row.version /\ row.version > 0
        BY <1>7, <4>1
      <4> QED
        BY <1>6, <1>7, <1>8, <2>4, <3>1, <4>1, <4>2
    <3>2. CASE w # v
      BY <1>9, <2>2, <3>2 DEF IInv, StockOK
    <3> QED
      BY <3>1, <3>2
  <2> QED
    BY <1>2, <2>5 DEF StockOK
<1>14. ImagesOK'
  BY <1>2, <1>10, KeepImages DEF IInv
<1>15. ASSUME NEW q \in Handler \ {p} PROVE HandlerOK(q)'
  <2>1. /\ HandlerOK(q) /\ at'[q] = at[q] /\ dirty'[q] = dirty[q]
        /\ \A r \in DOMAIN dirty[q] : db'[r] = db[r]
    BY <1>2, <1>4, CommitEffects DEF IInv
  <2>2. at[q].pc \notin Deleting
    BY <1>1, <1>2, <1>3, Places DEF IInv, Apart
  <2>3. at[q].pc \in Confirmed => at[q].order \in Order /\ at[q].order # o
    BY <1>1, <1>2, Places DEF IInv, Apart, Confirmed, Reserving
  <2>4. at[q].pc \in Confirmed => db'[resvRow(at[q].order)] = db[resvRow(at[q].order)]
    BY <1>9, <2>3
  <2>5. at[q].pc = "order" => at[q].variant \in Living'
    BY <1>12, Places
  <2>6. In(at[q].image)' = In(at[q].image) /\ upload'[at[q].image] = upload[at[q].image]
    BY <1>2, <2>1 DEF In
  <2> QED
    BY <2>1, <2>2, <2>4, <2>5, <2>6, OthersKeep
<1> QED
  BY <1>2, <1>4, <1>12, <1>13, <1>14, <1>15, CommitKeeps

(* Other uploads than image i's see nothing of what a step does to i's.    *)
LEMMA OtherUploads ==
  ASSUME IInv, NEW p \in Handler, at[p].pc \in Uploading, NEW q \in Handler \ {p},
         at[q].pc \in Uploading, at'[q] = at[q],
         \A j \in Image : j # at[p].image => upload'[j] = upload[j] /\ In(j)' = In(j)
  PROVE  /\ upload'[at[q].image] = upload[at[q].image]
         /\ In(at[q].image)' = In(at[q].image)
<1>1. PICK j \in Image : j = at[q].image
  BY Places
<1>2. j # at[p].image
  BY <1>1 DEF IInv, Apart
<1>3. In(at[q].image)' = In(j)'
  BY <1>1 DEF In
<1> QED
  BY <1>1, <1>2, <1>3

(* The images are right after a step that touches those of image i alone,  *)
(* when i's are.                                                           *)
LEMMA OneImage ==
  ASSUME ImagesOK, NEW i \in Image,
         \A j \in Image : j # i => /\ upload'[j] = upload[j] /\ In(j)' = In(j)
                                   /\ db'[imageRow(j)] = db[imageRow(j)],
         upload'[i] \in {"none", "running", "failed", "done", "spoiled"},
         upload'[i] \in {"none", "running", "failed"} => ~db'[imageRow(i)],
         upload'[i] \in {"none", "failed"} => In(i)' = {},
         upload'[i] = "done" => \A k \in 1..Len(Key) : <<i, Key[k]>> \in objects'
  PROVE  ImagesOK'
<1>1. ASSUME NEW j \in Image, j # i, upload[j] = "done", NEW k \in 1..Len(Key)
      PROVE  <<j, Key[k]>> \in objects'
  <2>1. <<j, Key[k]>> \in In(j)
    BY <1>1 DEF ImagesOK, In
  <2> QED
    BY <1>1, <2>1 DEF In
<1> QED
  BY <1>1 DEF ImagesOK

(* An upload begins: nothing of the image is in storage yet.               *)
LEMMA UploadKeeps ==
  ASSUME IInv, NEW p \in Handler, NEW i \in Image, Upload(p, i)
  PROVE  IInv'
<1> DEFINE f == [Idle EXCEPT !.pc = "original", !.image = i]
<1>1. /\ Goto(p, f) /\ NoStatement /\ objects' = objects /\ known' = known
      /\ at[p].pc = "idle" /\ upload[i] = "none"
      /\ upload' = [upload EXCEPT ![i] = "running"]
  BY DEF Upload
<1>2. f \in Frame /\ f.pc = "original" /\ f.image = i /\ f.put = 0
  BY DEF Idle, Frame, Uploading
<1> HIDE DEF f
<1>3. /\ StoreOf(Row)' /\ LocksExclusive' /\ db' = db /\ dirty' = dirty /\ at'[p] = f
      /\ \A q \in Handler \ {p} : at'[q] = at[q]
  BY <1>1, NoStatementStore, GotoEffect
<1>4. dirty[p] = NoWrites
  BY <1>1 DEF IInv, HandlerOK, Editing, Deleting, Reserving
<1>5. /\ DOMAIN upload' = Image /\ upload'[i] = "running"
      /\ \A j \in Image : j # i => upload'[j] = upload[j]
  BY <1>1 DEF IInv
<1>6. \A j : In(j)' = In(j)
  BY <1>1 DEF In
<1>7. In(i) = {} /\ ~db[imageRow(i)]
  BY <1>1 DEF IInv, ImagesOK
<1>8. UploadOK(p)'
  <2>1. Stored(p)' = {}
    BY <1>2, <1>3 DEF Stored
  <2>2. In(at[p].image)' = {}
    BY <1>2, <1>3, <1>6, <1>7 DEF In
  <2> QED
    BY <1>2, <1>3, <1>5, <2>1, <2>2 DEF UploadOK
<1>9. HandlerOK(p)'
  BY <1>2, <1>3, <1>4, <1>8 DEF HandlerOK, Editing, Deleting, Confirmed, Reserving, Uploading
<1>10. ASSUME NEW q \in Handler \ {p}, at[q].pc \in Uploading
       PROVE  at[q].image \in Image /\ at[q].image # i
  BY <1>1, <1>10 DEF IInv, HandlerOK, UploadOK
<1>11. \A q \in Handler \ {p} : Apart(p, q)' /\ Apart(q, p)'
  BY <1>2, <1>3, <1>10 DEF Apart, Deleting, Confirmed, Reserving, Uploading
<1>12. ASSUME NEW q \in Handler \ {p}, at[q].pc \in Uploading
       PROVE  /\ upload'[at[q].image] = upload[at[q].image]
              /\ In(at[q].image)' = In(at[q].image)
  <2>1. In(at[q].image)' = In(at[q].image)
    BY <1>1, <1>3 DEF In
  <2> QED
    BY <1>5, <1>10, <1>12, <2>1
<1>13. ImagesOK'
  BY <1>3, <1>5, <1>6, <1>7, OneImage DEF IInv
<1> QED
  BY <1>1, <1>3, <1>5, <1>9, <1>11, <1>12, <1>13, StepKeeps

(* The objects an upload in progress has stored, and its next one.         *)
LEMMA StoredObjects ==
  ASSUME IInv, NEW p \in Handler, at[p].pc \in Uploading
  PROVE  /\ at[p].image \in Image /\ upload[at[p].image] = "running" /\ at[p].put \in Nat
         /\ In(at[p].image) = Stored(p) /\ dirty[p] = NoWrites /\ ~db[imageRow(at[p].image)]
         /\ \A x \in Stored(p) : x[1] = at[p].image /\ x \in objects
<1>1. UploadOK(p) /\ at[p] \in Frame /\ dirty[p] = NoWrites
  BY DEF IInv, HandlerOK, Editing, Deleting, Reserving, Uploading
<1>2. at[p].image \in Image /\ upload[at[p].image] = "running"
  BY <1>1 DEF UploadOK
<1>3. ~db[imageRow(at[p].image)]
  BY <1>2 DEF IInv, ImagesOK
<1> QED
  BY <1>1, <1>2, <1>3 DEF UploadOK, Frame, In

(* Put stores the next object.                                             *)
LEMMA PutOkKeeps ==
  ASSUME IInv, NEW p \in Handler, at[p].pc \in Uploading, PutOk(p), NoStatement,
         known' = known
  PROVE  IInv'
<1>1. PICK i \in Image : i = at[p].image
  BY StoredObjects
<1> DEFINE n == at[p].put
           x == <<i, Key[n + 1]>>
           f == [at[p] EXCEPT !.put = @ + 1, !.pc = "renditions"]
<1>2. /\ Goto(p, f) /\ objects' = objects \cup {x} /\ upload' = upload
  BY <1>1 DEF PutOk
<1>3. /\ upload[i] = "running" /\ n \in Nat /\ In(i) = Stored(p) /\ dirty[p] = NoWrites
      /\ ~db[imageRow(i)] /\ at[p] \in Frame
  BY <1>1, StoredObjects DEF IInv, HandlerOK
<1>4. f \in Frame /\ f.pc = "renditions" /\ f.image = i /\ f.put = n + 1
  <2>1. PICK m \in Nat : m = n + 1
    BY <1>3
  <2>2. f = [at[p] EXCEPT !.put = m, !.pc = "renditions"]
    BY <2>1
  <2>3. [at[p] EXCEPT !.put = m, !.pc = "renditions"] \in Frame
    BY <1>3 DEF Frame, Uploading
  <2>4. /\ [at[p] EXCEPT !.put = m, !.pc = "renditions"].put = m
        /\ [at[p] EXCEPT !.put = m, !.pc = "renditions"].pc = "renditions"
        /\ [at[p] EXCEPT !.put = m, !.pc = "renditions"].image = i
    BY <1>1, <1>3 DEF Frame
  <2> QED
    BY <2>1, <2>2, <2>3, <2>4
<1> HIDE DEF f
<1>5. /\ StoreOf(Row)' /\ LocksExclusive' /\ db' = db /\ dirty' = dirty /\ at'[p] = f
      /\ \A q \in Handler \ {p} : at'[q] = at[q]
  BY <1>2, NoStatementStore, GotoEffect
<1>6. In(i)' = In(i) \cup {x} /\ \A j \in Image : j # i => In(j)' = In(j)
  BY <1>2 DEF In
<1>7. UploadOK(p)'
  <2>1. 1..(n + 1) = (1..n) \cup {n + 1}
    BY <1>3
  <2>2. Stored(p)' = {<<i, Key[k]>> : k \in 1..(n + 1)}
    BY <1>4, <1>5 DEF Stored
  <2>3. Stored(p) = {<<i, Key[k]>> : k \in 1..n}
    BY <1>1 DEF Stored
  <2>4. Stored(p)' = Stored(p) \cup {x}
    BY <2>1, <2>2, <2>3
  <2>5. In(at[p].image)' = In(i)'
    BY <1>4, <1>5 DEF In
  <2> QED
    BY <1>2, <1>3, <1>4, <1>5, <1>6, <2>4, <2>5 DEF UploadOK
<1>8. HandlerOK(p)'
  BY <1>3, <1>4, <1>5, <1>7
     DEF HandlerOK, Editing, Deleting, Confirmed, Reserving, Uploading
<1>9. \A q \in Handler \ {p} : Apart(p, q)' /\ Apart(q, p)'
  BY <1>1, <1>2, <1>4, MovesOn DEF Deleting, Confirmed, Reserving, Uploading
<1>10. ASSUME NEW q \in Handler \ {p}, at[q].pc \in Uploading
       PROVE  /\ upload'[at[q].image] = upload[at[q].image]
              /\ In(at[q].image)' = In(at[q].image)
  BY <1>1, <1>2, <1>5, <1>6, <1>10, OtherUploads
<1>11. ImagesOK'
  BY <1>2, <1>3, <1>5, <1>6, OneImage DEF IInv
<1>12. DOMAIN upload' = Image
  BY <1>2 DEF IInv
<1> QED
  BY <1>2, <1>5, <1>8, <1>9, <1>10, <1>11, <1>12, StepKeeps

(* The rollback of an upload: clean storage, or an image that is spoiled.  *)
LEMMA RollbackObjectsEffect ==
  ASSUME IInv, NEW p \in Handler, at[p].pc \in Uploading, NEW stray,
         \A x \in stray : x[1] = at[p].image, RollbackObjects(p, stray)
  PROVE  /\ DOMAIN upload' = Image /\ upload'[at[p].image] \in {"failed", "spoiled"}
         /\ upload'[at[p].image] = "failed" => {x \in objects' : x[1] = at[p].image} = {}
         /\ \A j \in Image : j # at[p].image => upload'[j] = upload[j] /\ In(j)' = In(j)
<1>1. PICK kept \in SUBSET Stored(p) :
        /\ objects' = (objects \ (Stored(p) \ kept)) \cup stray
        /\ upload' = [upload EXCEPT ![at[p].image] =
                        IF kept \cup stray = {} THEN "failed" ELSE "spoiled"]
  BY DEF RollbackObjects
<1>2. /\ at[p].image \in Image /\ In(at[p].image) = Stored(p)
      /\ \A x \in Stored(p) : x[1] = at[p].image
  BY StoredObjects
<1>3. /\ DOMAIN upload' = Image
      /\ upload'[at[p].image] = IF kept \cup stray = {} THEN "failed" ELSE "spoiled"
      /\ \A j \in Image : j # at[p].image => upload'[j] = upload[j]
  BY <1>1, <1>2 DEF IInv
<1>4. ASSUME NEW j \in Image, j # at[p].image PROVE In(j)' = In(j)
  BY <1>1, <1>2, <1>4 DEF In
<1>5. ASSUME kept \cup stray = {}
      PROVE  {x \in objects' : x[1] = at[p].image} = {}
  <2>1. objects' = objects \ Stored(p)
    BY <1>1, <1>5
  <2> QED
    BY <1>2, <2>1 DEF In
<1> QED
  BY <1>3, <1>4, <1>5

(* An upload that fails leaves the image as its rollback does.             *)
LEMMA UploadFails ==
  ASSUME IInv, NEW p \in Handler, at[p].pc \in Uploading, NEW stray,
         \A x \in stray : x[1] = at[p].image, RollbackObjects(p, stray), Done(p),
         NoStatement, known' = known
  PROVE  IInv'
<1>1. PICK i \in Image : i = at[p].image
  BY StoredObjects
<1>2. /\ StoreOf(Row)' /\ LocksExclusive' /\ db' = db /\ dirty' = dirty
      /\ Goto(p, Idle) /\ at'[p] = Idle
      /\ \A q \in Handler \ {p} : at'[q] = at[q]
  BY NoStatementStore, GotoEffect DEF Done
<1>3. /\ DOMAIN upload' = Image /\ upload'[i] \in {"failed", "spoiled"}
      /\ upload'[i] = "failed" => {x \in objects' : x[1] = i} = {}
      /\ \A j \in Image : j # i => upload'[j] = upload[j] /\ In(j)' = In(j)
  BY <1>1, RollbackObjectsEffect
<1>4. dirty[p] = NoWrites /\ ~db[imageRow(i)]
  BY <1>1, StoredObjects
<1>5. HandlerOK(p)' /\ \A q \in Handler \ {p} : Apart(p, q)' /\ Apart(q, p)'
  BY <1>2, <1>4, IdleOK
<1>6. ImagesOK'
  <2>1. upload'[i] \in {"none", "failed"} => In(i)' = {}
    BY <1>3 DEF In
  <2> QED
    BY <1>2, <1>3, <1>4, <2>1, OneImage DEF IInv
<1>7. ASSUME NEW q \in Handler \ {p}, at[q].pc \in Uploading
      PROVE  /\ upload'[at[q].image] = upload[at[q].image]
             /\ In(at[q].image)' = In(at[q].image)
  BY <1>1, <1>2, <1>3, <1>7, OtherUploads
<1> QED
  BY <1>2, <1>3, <1>5, <1>6, <1>7, StepKeeps

(* Put of an object, the original first.                                   *)
LEMMA PutObjectKeeps ==
  ASSUME IInv, NEW p \in Handler, PutObject(p)
  PROVE  IInv'
<1>1. at[p].pc \in Uploading /\ NoStatement /\ known' = known
  BY DEF PutObject, Uploading
<1>2. CASE PutOk(p)
  BY <1>1, <1>2, PutOkKeeps
<1>3. CASE PutFails(p)
  <2>1. PICK stray \in SUBSET {<<at[p].image, Key[at[p].put + 1]>>} : RollbackObjects(p, stray)
    BY <1>3 DEF PutFails
  <2>2. Done(p) /\ \A x \in stray : x[1] = at[p].image
    BY <1>3 DEF PutFails
  <2> QED
    BY <1>1, <2>1, <2>2, UploadFails
<1>4. CASE GenerateFails(p)
  <2>1. RollbackObjects(p, {}) /\ Done(p) /\ \A x \in {} : x[1] = at[p].image
    BY <1>4 DEF GenerateFails
  <2> QED
    BY <1>1, <2>1, UploadFails
<1> QED
  BY <1>2, <1>3, <1>4 DEF PutObject

(* The row of an image whose objects are all there, or that is spoiled.    *)
LEMMA AttachKeeps ==
  ASSUME IInv, NEW p \in Handler, at[p].pc \in Uploading, NEW i \in Image, i = at[p].image,
         db[product] = "listed", CommitWith(Shop, Only(imageRow(i), TRUE)), Done(p),
         known' = known, NEW u \in {"done", "spoiled"},
         upload' = [upload EXCEPT ![i] = u],
         \A j \in Image : j # i => In(j)' = In(j),
         u = "done" => \A k \in 1..Len(Key) : <<i, Key[k]>> \in objects'
  PROVE  IInv'
<1>1. /\ DOMAIN at' = Handler /\ at'[p] = Idle
      /\ \A q \in Handler \ {p} : at'[q] = at[q]
  BY GotoEffect DEF Done
<1>2. imageRow(i) \in Row /\ imageRow(i)[1] = "image"
  BY RowNames, RowsThere
<1>3. /\ DOMAIN Only(imageRow(i), TRUE) \subseteq Row
      /\ \A r \in Row : r # imageRow(i) => db'[r] = db[r]
  BY <1>2, OneRow
<1>4. /\ StoreOf(Row)' /\ LocksExclusive' /\ \A q \in Proc : dirty'[q] = dirty[q]
  BY <1>3, ShopCommit
<1>5. /\ db'[product] = db[product] /\ Living' = Living
      /\ \A v \in Variant : db'[variantRow(v)] = db[variantRow(v)]
      /\ \A v \in Variant : db'[lineRow(v)] = db[lineRow(v)]
      /\ \A v \in Variant : db'[stockRow(v)] = db[stockRow(v)]
      /\ \A o \in Order : db'[resvRow(o)] = db[resvRow(o)]
  BY <1>2, <1>3, OtherRows
<1>6. \A j \in Image : j # i => db'[imageRow(j)] = db[imageRow(j)]
  BY <1>3, RowNames, RowsThere
<1>7. ReferencesOK' /\ StockOK'
  BY <1>5, References, KeepReferences, KeepStock DEF IInv
<1>8. DOMAIN upload' = Image /\ upload'[i] = u /\ \A j \in Image : j # i => upload'[j] = upload[j]
  BY DEF IInv
<1>9. ImagesOK'
  BY <1>6, <1>8, OneImage DEF IInv
<1>10. HandlerOK(p)' /\ \A q \in Handler : Apart(p, q)' /\ Apart(q, p)'
  <2>1. dirty'[p] = NoWrites
    BY <1>4, StoredObjects, HandlerAssumption
  <2> QED
    BY <1>1, <2>1, IdleOK
<1>11. ASSUME NEW q \in Handler \ {p} PROVE HandlerOK(q)'
  <2>1. at[q].pc \in Confirmed => db'[resvRow(at[q].order)] = db[resvRow(at[q].order)]
    BY <1>5, Places
  <2>2. at[q].pc = "order" => at[q].variant \in Living'
    BY <1>5, Places
  <2>3. at[q].pc \in Uploading => /\ upload'[at[q].image] = upload[at[q].image]
                                  /\ In(at[q].image)' = In(at[q].image)
    BY <1>1, <1>8, OtherUploads
  <2>4. at[q].pc \in Deleting => \A w \in at[q].seen : db'[lineRow(w)] = db[lineRow(w)]
    BY <1>5, Places DEF Living
  <2>5. \A o \in Order : db'[resvRow(o)].variant = db[resvRow(o)].variant
    BY <1>5
  <2> QED
    BY <1>1, <1>3, <1>5, <2>1, <2>2, <2>3, <2>4, <2>5, ShopHandlers
<1>12. \A q, r \in Handler : q # r => Apart(q, r)'
  BY <1>1, <1>10 DEF IInv, Apart
<1>13. dirty'[Shop] = NoWrites /\ DOMAIN known' = Variant
  BY <1>4, HandlerAssumption DEF IInv
<1> QED
  BY <1>1, <1>4, <1>7, <1>8, <1>9, <1>10, <1>11, <1>12, <1>13 DEF IInv

(* AttachImage, with its answer, without the product, or its answer lost.  *)
LEMMA AttachImageKeeps ==
  ASSUME IInv, NEW p \in Handler, AttachImage(p)
  PROVE  IInv'
<1>1. PICK i : i = at[p].image
  OBVIOUS
<1>2. /\ at[p].pc \in Uploading /\ at[p].put = Len(Key) /\ Done(p) /\ known' = known
  BY DEF AttachImage, Uploading
<1>3. /\ i \in Image /\ In(i) = Stored(p) /\ \A x \in Stored(p) : x[1] = i /\ x \in objects
  BY <1>1, <1>2, StoredObjects
<1>4. ASSUME db[product] = "listed", CommitWith(Shop, Only(imageRow(i), TRUE)),
             upload' = [upload EXCEPT ![i] = "done"], objects' = objects
      PROVE  IInv'
  <2>1. \A j \in Image : j # i => In(j)' = In(j)
    BY <1>4 DEF In
  <2>2. ASSUME NEW k \in 1..Len(Key) PROVE <<i, Key[k]>> \in objects'
    <3>1. <<i, Key[k]>> \in Stored(p)
      BY <1>1, <1>2, <2>2 DEF Stored
    <3> QED
      BY <1>3, <1>4, <3>1
  <2> QED
    BY <1>1, <1>2, <1>3, <1>4, <2>1, <2>2, AttachKeeps
<1>5. ASSUME NoStatement, RollbackObjects(p, {})
      PROVE  IInv'
  BY <1>2, <1>5, UploadFails
<1>6. ASSUME db[product] = "listed", CommitWith(Shop, Only(imageRow(i), TRUE)),
             upload' = [upload EXCEPT ![i] = "spoiled"],
             NEW kept \in SUBSET Stored(p), objects' = objects \ (Stored(p) \ kept)
      PROVE  IInv'
  <2>1. \A j \in Image : j # i => In(j)' = In(j)
    BY <1>3, <1>6 DEF In
  <2> QED
    BY <1>1, <1>2, <1>3, <1>6, <2>1, AttachKeeps
<1> QED
  BY <1>1, <1>4, <1>5, <1>6 DEF AttachImage

(* A lost connection or a deadlock's victim: its transaction is gone, its  *)
(* upload is spoiled.                                                      *)
LEMMA AbortKeeps ==
  ASSUME IInv, NEW p \in Handler, Abort(p)
  PROVE  IInv'
<1>1. /\ Rollback(p) /\ Goto(p, Idle) /\ p \in Proc /\ objects' = objects /\ known' = known
  BY HandlerAssumption DEF Abort, Fail, Done
<1>2. /\ StoreOf(Row)' /\ LocksExclusive' /\ db' = db /\ dirty'[p] = NoWrites
      /\ \A q \in Proc \ {p} : dirty'[q] = dirty[q]
  BY <1>1, RollbackRows DEF IInv
<1>3. at'[p] = Idle /\ \A q \in Handler \ {p} : at'[q] = at[q]
  BY <1>1, GotoEffect
<1>4. HandlerOK(p)' /\ \A q \in Handler \ {p} : Apart(p, q)' /\ Apart(q, p)'
  BY <1>2, <1>3, IdleOK
<1>5. \A j : In(j)' = In(j)
  BY <1>1 DEF In
<1>6. CASE upload' = upload
  <2>1. ImagesOK' /\ DOMAIN upload' = Image
    BY <1>1, <1>2, <1>6, KeepImages DEF IInv
  <2>2. \A q \in Handler \ {p} : In(at[q].image)' = In(at[q].image)
    BY <1>1, <1>3 DEF In
  <2> QED
    BY <1>1, <1>2, <1>4, <1>6, <2>1, <2>2, StepKeeps
<1>7. ASSUME at[p].image # "none", upload' = [upload EXCEPT ![at[p].image] = "spoiled"]
      PROVE  IInv'
  <2>1. at[p].pc \in Uploading
    BY <1>7 DEF IInv, HandlerOK
  <2>2. PICK i \in Image : i = at[p].image
    BY <2>1, StoredObjects
  <2>3. /\ DOMAIN upload' = Image /\ upload'[i] = "spoiled"
        /\ \A j \in Image : j # i => upload'[j] = upload[j]
    BY <1>7, <2>2 DEF IInv
  <2>4. ImagesOK'
    BY <1>2, <1>5, <2>3, OneImage DEF IInv
  <2>5. ASSUME NEW q \in Handler \ {p}, at[q].pc \in Uploading
        PROVE  /\ upload'[at[q].image] = upload[at[q].image]
               /\ In(at[q].image)' = In(at[q].image)
    BY <1>3, <1>5, <2>1, <2>2, <2>3, <2>5, OtherUploads
  <2> QED
    BY <1>1, <1>2, <1>4, <2>3, <2>4, <2>5, StepKeeps
<1> QED
  BY <1>6, <1>7 DEF Abort

(* Every step of the shop and of the handlers keeps the invariant.         *)
LEMMA NextKeeps ==
  ASSUME IInv, Next
  PROVE  IInv'
<1>1. CASE CreateProduct
  BY <1>1, CreateProductKeeps
<1>2. CASE DeleteProduct
  BY <1>2, DeleteProductKeeps
<1>3. CASE CleanupOrphans
  BY <1>3, CleanupKeeps
<1>4. ASSUME NEW p \in Handler, NEW n \in FormSize, UpdateProduct(p, n) PROVE IInv'
  BY <1>4, UpdateProductKeeps
<1>5. ASSUME NEW p \in Handler, NEW o \in Order, NEW v \in Variant, Confirm(p, o, v)
      PROVE  IInv'
  BY <1>5, ConfirmKeeps
<1>6. ASSUME NEW p \in Handler, NEW i \in Image, Upload(p, i) PROVE IInv'
  BY <1>6, UploadKeeps
<1>7. ASSUME NEW p \in Handler, EditStep(p) PROVE IInv'
  BY <1>7, LockProductKeeps, DeleteVariantsKeeps, CascadeStockKeeps, RebuildKeeps DEF EditStep
<1>8. ASSUME NEW p \in Handler, ConfirmStep(p) PROVE IInv'
  BY <1>8, ReserveStockKeeps, HoldUnitKeeps, CommitOrderKeeps DEF ConfirmStep
<1>9. ASSUME NEW p \in Handler, UploadStep(p) PROVE IInv'
  BY <1>9, PutObjectKeeps, AttachImageKeeps DEF UploadStep
<1>10. ASSUME NEW p \in Handler, Abort(p) PROVE IInv'
  BY <1>10, AbortKeeps
<1>11. ASSUME NEW v \in Variant, AddToCart(v) PROVE IInv'
  <2>1. CommitWith(Shop, Only(lineRow(v), TRUE)) /\ UNCHANGED <<at, Shelf, known>> /\ Refer(Shop, v)
    BY <1>11 DEF AddToCart
  <2> QED
    BY <2>1, LineKeeps
<1>12. ASSUME NEW v \in Variant, RemoveFromCart(v) PROVE IInv'
  <2>1. CommitWith(Shop, Only(lineRow(v), FALSE)) /\ UNCHANGED <<at, Shelf, known>>
    BY <1>12 DEF RemoveFromCart
  <2> QED
    BY <2>1, LineKeeps
<1>13. ASSUME NEW v \in Variant, NEW a \in Amount, NEW e \in 0..MaxVersion, SetStock(v, a, e)
       PROVE  IInv'
  BY <1>13, SetStockKeeps
<1>14. ASSUME NEW o \in Order, Resolve(o, "committed") \/ Resolve(o, "released") PROVE IInv'
  BY <1>14, ResolveKeeps
<1> QED
  BY <1>1, <1>2, <1>3, <1>4, <1>5, <1>6, <1>7, <1>8, <1>9, <1>10, <1>11, <1>12, <1>13, <1>14
     DEF Next

(* A step in which nothing changes keeps every part of it.                 *)
LEMMA StutterKeeps ==
  ASSUME IInv, UNCHANGED vars
  PROVE  IInv'
<1>1. /\ db' = db /\ dirty' = dirty /\ at' = at /\ objects' = objects
      /\ upload' = upload /\ known' = known
  BY DEF vars
<1>2. Living' = Living
  BY <1>1 DEF Living
<1>3. StoreOf(Row)' /\ LocksExclusive'
  BY <1>1 DEF IInv, StoreOf, LocksExclusive
<1>4. ReferencesOK' /\ StockOK' /\ ImagesOK'
  BY <1>1, <1>2, References, KeepReferences, KeepStock, KeepImages DEF IInv
<1>5. ASSUME NEW q \in Handler PROVE HandlerOK(q)'
  <2>1. In(at[q].image)' = In(at[q].image)
    BY <1>1 DEF In
  <2>2. at[q].pc = "order" => at[q].variant \in Living'
    BY <1>2, Places
  <2> QED
    BY <1>1, <1>2, <2>1, <2>2, OthersKeep DEF IInv
<1>6. \A p, q \in Handler : p # q => Apart(p, q)'
  BY <1>1 DEF IInv, Apart
<1> QED
  BY <1>1, <1>3, <1>4, <1>5, <1>6 DEF IInv

(* What the catalog maintains under every interleaving of edits, uploads,  *)
(* purchases and lost connections.                                         *)
THEOREM CatalogInvariant == Spec => []IInv
<1>1. IInv /\ [Next]_vars => IInv'
  BY NextKeeps, StutterKeeps
<1> QED
  BY InitOK, <1>1, PTL DEF Spec

(* The units reservations hold are on a stock row that counts them:        *)
(* ReserveStock, the cascade of a product edit and the settlements between *)
(* them lose none and count none twice.                                    *)
THEOREM UnitsAreKept == Spec => []HeldUnitsKept
<1>1. IInv => HeldUnitsKept
  BY DEF IInv, StockOK, HeldUnitsKept, Sold
<1> QED
  BY CatalogInvariant, <1>1, PTL

(* Cart lines, reservations and images always refer to a variant and a     *)
(* product that are there, although edits delete every variant.            *)
THEOREM ReferencesAreLive == Spec => []ReferencesLive
<1>1. IInv => ReferencesLive
  BY DEF IInv, ReferencesOK
<1> QED
  BY CatalogInvariant, <1>1, PTL

(* The variants of the catalog are always those of one form, however many  *)
(* edits started from the same page.                                       *)
THEOREM FormsDoNotMix == Spec => []EditsDoNotMix
<1>1. IInv => EditsDoNotMix
  BY DEF IInv, ReferencesOK
<1> QED
  BY CatalogInvariant, <1>1, PTL

(* An image the catalog shows is in storage with all its renditions,       *)
(* unless the answer of AttachImage was lost.                              *)
THEOREM ShownImagesAreComplete == Spec => []ImagesComplete
<1>1. IInv => ImagesComplete
  BY DEF IInv, ImagesOK, ImagesComplete
<1> QED
  BY CatalogInvariant, <1>1, PTL

(* After a failed upload nothing of the image is left in storage or in the *)
(* catalog, unless a call to storage or the process failed as well.        *)
THEOREM FailedUploadsAreClean == Spec => []FailedUploadIsClean
<1>1. IInv => FailedUploadIsClean
  BY DEF IInv, ImagesOK, FailedUploadIsClean, In
<1> QED
  BY CatalogInvariant, <1>1, PTL

(* Nothing but a set-stock changes what its admin knows.                   *)
LEMMA KnownChanges ==
  ASSUME Next, known' # known
  PROVE  \E v \in Variant : \E a \in Amount, e \in 0..MaxVersion : SetStock(v, a, e)
<1>1. ~CreateProduct /\ ~DeleteProduct /\ ~CleanupOrphans
  BY DEF CreateProduct, DeleteProduct, CleanupOrphans
<1>2. ASSUME NEW p \in Handler
      PROVE  /\ \A n \in FormSize : ~UpdateProduct(p, n)
             /\ \A o \in Order, v \in Variant : ~Confirm(p, o, v)
             /\ \A i \in Image : ~Upload(p, i)
  BY DEF UpdateProduct, Confirm, Upload
<1>3. ASSUME NEW p \in Handler
      PROVE  ~EditStep(p) /\ ~ConfirmStep(p) /\ ~UploadStep(p) /\ ~Abort(p)
  <2>1. ~EditStep(p)
    BY DEF EditStep, LockProduct, DeleteVariants, CascadeStock, RebuildChildren
  <2>2. ~ConfirmStep(p)
    BY DEF ConfirmStep, ReserveStock, HoldUnit, CommitOrder
  <2>3. ~UploadStep(p) /\ ~Abort(p)
    BY DEF UploadStep, PutObject, AttachImage, Abort
  <2> QED
    BY <2>1, <2>2, <2>3
<1>4. /\ \A v \in Variant : ~AddToCart(v) /\ ~RemoveFromCart(v)
      /\ \A o \in Order : ~Resolve(o, "committed") /\ ~Resolve(o, "released")
  BY DEF AddToCart, RemoveFromCart, Resolve
<1> QED
  BY <1>1, <1>2, <1>3, <1>4 DEF Next

(* The lost-update guard: an accepted set-stock overwrites exactly what    *)
(* the last accepted one answered, whatever reserved, sold or released     *)
(* units in between; UpsertStock's version is enough.                      *)
THEOREM SetStockIsGuarded == Spec => SetStockSawTheRow
<1> DEFINE Saw == \A v \in Variant : known'[v] # known[v] /\ db[stockRow(v)] # NoStock =>
                    known[v] = db[stockRow(v)]
<1>1. ASSUME IInv, [Next]_vars
      PROVE  Saw
  <2> SUFFICES ASSUME NEW v \in Variant, known'[v] # known[v], db[stockRow(v)] # NoStock
               PROVE  known[v] = db[stockRow(v)]
    OBVIOUS
  <2>1. PICK w \in Variant : \E a \in Amount, e \in 0..MaxVersion : SetStock(w, a, e)
    <3>1. known' # known /\ Next
      BY <1>1 DEF vars
    <3> QED
      BY <3>1, KnownChanges
  <2>2. PICK a \in Amount, e \in 0..MaxVersion : SetStock(w, a, e)
    BY <2>1
  <2>3. w = v
    BY <1>1, <2>2 DEF SetStock, IInv
  <2> QED
    BY <1>1, <2>2, <2>3, SetStockSaw
<1>2. IInv /\ [Next]_vars => [Saw]_vars
  BY <1>1
<1> QED
  BY <1>2, CatalogInvariant, PTL DEF Spec, SetStockSawTheRow

-------------------------------------------------------------------------------
(* The storefront: the catalog as its readers see it, in Storefront, over  *)
(* the same rows and sessions.                                             *)
CONSTANTS Product, Slug, Sku, Tag, Form, MaxImages, MaxLimit, MaxForms

F == INSTANCE Storefront WITH Admin <- Handler

StorefrontAssumption == F!FormAssumption /\ F!BoundAssumption /\ F!HandlerAssumption

(* The statements of the two modules are the same.                         *)
LEMMA SameStatements ==
  /\ \A p, r : F!Read(p, r) = Read(p, r)
  /\ \A p, rows : F!Write(p, rows) <=> Write(p, rows)
  /\ \A p, rows : F!CommitWith(p, rows) <=> CommitWith(p, rows)
  /\ \A p : F!Commit(p) <=> CommitWith(p, NoWrites)
  /\ \A p : F!Rollback(p) <=> Rollback(p)
  /\ F!NoStatement <=> NoStatement
  /\ F!NoWrites = NoWrites
  /\ \A r, v : F!Only(r, v) = Only(r, v)
  /\ \A f, g : F!Together(f, g) = Together(f, g)
BY DEF F!Read, Read, F!Write, Write, F!Unlocked, Unlocked, F!CommitWith, CommitWith, F!Commit,
       F!Rollback, Rollback, F!NoStatement, NoStatement, F!NoWrites, NoWrites, F!Only, Only,
       F!Together, Together

Writing == {"variants", "images", "children"}   \* holds the product's lock
Waiting == {"insert", "update"}                 \* before BEGIN

Child == ({"variant"} \X Sku) \cup ({"image"} \X F!Position)

(* The rows below the product row that form f asks for.                    *)
Asked(f) == {<<"variant", s>> : s \in F!Range(f.skus)} \cup {<<"image", k>> : k \in 1..f.images}

FormRow == [product : Product, kept : BOOLEAN, skus : Seq(Sku), images : 0..MaxImages]

(* The product's rows are one form that was saved, and gone with it.       *)
ProductOK(p) ==
  LET n == db[F!productRow(p)].form IN
  /\ F!Listed(p) => n \in F!FormsOf(p)
  /\ \A s \in Sku : db[F!variantRow(p, s)] =
       IF F!Listed(p) /\ s \in F!Range(forms[n].skus) THEN n ELSE 0
  /\ \A k \in F!Position : db[F!imageRow(p, k)] =
       IF F!Listed(p) /\ k <= forms[n].images THEN n ELSE 0

(* A transaction that has written the row of a product holds its lock; its *)
(* form is newer than the committed one, and of its children it has        *)
(* written, once the old ones are deleted, those not left to do.           *)
WriterOK(a) ==
  LET p == frames[a].product
      n == frames[a].n
      todo == frames[a].todo
      Made == Asked(forms[n]) \ F!Range(todo) IN
  /\ p \in Product /\ n \in 1..Len(forms)
  /\ forms[n].product = p /\ ~forms[n].kept
  /\ DOMAIN dirty[a] \subseteq F!rowsOf(p) /\ F!productRow(p) \in DOMAIN dirty[a]
  /\ dirty[a][F!productRow(p)].form = n
  /\ IF F!Listed(p) THEN db[F!productRow(p)].form < n ELSE F!FormsOf(p) = {}
  /\ todo \in Seq(Child) /\ F!IsInjective(todo) /\ F!Range(todo) \subseteq Asked(forms[n])
  /\ frames[a].pc \in {"variants", "images"} => F!Range(todo) = Asked(forms[n])
  /\ frames[a].pc \in {"images", "children"} => \A s \in Sku :
       Read(a, F!variantRow(p, s)) = IF <<"variant", s>> \in Made THEN n ELSE 0
  /\ frames[a].pc = "children" => \A k \in F!Position :
       Read(a, F!imageRow(p, k)) = IF <<"image", k>> \in Made THEN n ELSE 0

(* A new product's id is nobody else's; a product to update has been there. *)
AdminOK(a) ==
  /\ \/ frames[a] = F!Idle
     \/ frames[a] \in [pc : Waiting, product : Product, form : Form] /\ F!AddVariant(frames[a].form.skus)
     \/ frames[a].pc \in Writing /\ DOMAIN frames[a] = {"pc", "product", "n", "todo"} /\ WriterOK(a)
  /\ frames[a].pc = "insert" =>
       /\ \A n \in 1..Len(forms) : forms[n].product # frames[a].product
       /\ \A b \in Handler \ {a} : frames[b] # F!Idle => frames[b].product # frames[a].product
  /\ frames[a].pc = "update" => F!FormsOf(frames[a].product) # {}
  /\ frames[a].pc \notin Writing => dirty[a] = NoWrites

(* A product on a page has been saved, and its row there is no newer than  *)
(* the committed one.                                                      *)
ItemOK(i) ==
  /\ i.id \in Product /\ F!FormsOf(i.id) # {}
  /\ F!Listed(i.id) => i.row <= db[F!productRow(i.id)].form

(* Its variants are those of one form, between the row shown and the       *)
(* committed one, or the product is gone; the images of its forms those of *)
(* one no older.                                                           *)
ShownOK(i) ==
  /\ ItemOK(i)
  /\ \/ i.variants = {} /\ ~F!Listed(i.id)
     \/ \E n \in F!FormsOf(i.id) :
          /\ i.variants = F!VariantsOf(n) /\ i.row <= n
          /\ F!Listed(i.id) => n <= db[F!productRow(i.id)].form
  /\ \/ F!FormImages(i) = {}
     \/ \E m \in F!FormsOf(i.id) : F!FormImages(i) = F!ImagesOf(m) /\ \A v \in i.variants : v[2] <= m

Item == [id : Product, row : Nat]
ShownItem == [id : Product, row : Nat, variants : SUBSET (Sku \X Nat),
              images : SUBSET ((F!Position \cup Image) \X Nat)]

ReaderOK(r) ==
  \/ frames[r] = F!Idle
  \/ /\ frames[r] \in [pc : {"variants", "images"}, todo : Seq(Item), shown : Seq(ShownItem)]
     /\ frames[r].pc = "images" => frames[r].shown # <<>>
     /\ \A i \in F!Range(frames[r].todo) : ItemOK(i)
     /\ \A i \in F!Range(frames[r].shown) : ShownOK(i)

StorefrontInv ==
  /\ StoreOf(F!Row) /\ LocksExclusive
  /\ forms \in Seq(FormRow)
  /\ \A p \in Product : ProductOK(p)
  /\ DOMAIN frames = Handler \cup Reader
  /\ \A a \in Handler : AdminOK(a)
  /\ \A r \in Reader : ReaderOK(r)
  /\ dirty[Shop] = NoWrites

(* A row's name tells its table and its key.                               *)
LEMMA RowKeys ==
  /\ \A p : F!productRow(p)[1] = "product" /\ F!productRow(p)[2] = p
  /\ \A p, s : F!variantRow(p, s)[1] = "variant" /\ F!variantRow(p, s)[2] = p /\ F!variantRow(p, s)[3] = s
  /\ \A p, k : F!imageRow(p, k)[1] = "image" /\ F!imageRow(p, k)[2] = p /\ F!imageRow(p, k)[3] = k
  /\ \A p, i : F!uploadRow(p, i)[1] = "upload" /\ F!uploadRow(p, i)[2] = p /\ F!uploadRow(p, i)[3] = i
BY DEF F!productRow, F!variantRow, F!imageRow, F!uploadRow

(* A product's rows that its form determines.                              *)
FormRows(p) == F!rowsOf(p) \ F!uploadRows(p)

(* The rows of two products are different ones.                            *)
LEMMA RowsApart ==
  /\ \A p \in Product : F!rowsOf(p) \subseteq F!Row
  /\ \A p \in Product : /\ F!productRow(p) \in F!rowsOf(p)
                        /\ \A s \in Sku : F!variantRow(p, s) \in F!rowsOf(p)
                        /\ \A k \in F!Position : F!imageRow(p, k) \in F!rowsOf(p)
  /\ \A p, q \in Product : p # q => F!rowsOf(p) \cap F!rowsOf(q) = {}
<1>1. \A p \in Product : \A r \in F!rowsOf(p) : r[2] = p
  BY RowKeys DEF F!rowsOf, F!variantRows, F!imageRows, F!uploadRows
<1> QED
  BY <1>1 DEF F!rowsOf, F!Row, F!variantRows, F!imageRows

(* Those of its form are no upload of any product.                         *)
LEMMA FormRowsApart ==
  /\ \A p \in Product : /\ F!productRow(p) \in FormRows(p)
                        /\ \A s \in Sku : F!variantRow(p, s) \in FormRows(p)
                        /\ \A k \in F!Position : F!imageRow(p, k) \in FormRows(p)
                        /\ FormRows(p) \subseteq F!rowsOf(p)
                        /\ F!uploadRows(p) \subseteq F!rowsOf(p)
                        /\ F!rowsOf(p) = {F!productRow(p)} \cup F!variantRows(p) \cup F!imageRows(p)
                                           \cup F!uploadRows(p)
  /\ \A p, q \in Product : FormRows(p) \cap F!uploadRows(q) = {}
<1>1. \A p : \A r \in F!uploadRows(p) : r[1] = "upload"
  BY RowKeys DEF F!uploadRows
<1>2. \A p : \A r \in {F!productRow(p)} \cup F!variantRows(p) \cup F!imageRows(p) : r[1] # "upload"
  BY RowKeys DEF F!variantRows, F!imageRows
<1>3. \A p : F!rowsOf(p) = {F!productRow(p)} \cup F!variantRows(p) \cup F!imageRows(p) \cup F!uploadRows(p)
  BY DEF F!rowsOf
<1>4. \A p : FormRows(p) = {F!productRow(p)} \cup F!variantRows(p) \cup F!imageRows(p)
  BY <1>1, <1>2, <1>3 DEF FormRows
<1> QED
  BY <1>1, <1>2, <1>3, <1>4 DEF F!variantRows, F!imageRows

(* What a sequence holds is in the set it is over.                         *)
LEMMA HeldIn ==
  ASSUME NEW S, NEW s \in Seq(S)
  PROVE  F!Range(s) \subseteq S
<1>1. \A k \in DOMAIN s : s[k] \in S
  OBVIOUS
<1> QED
  BY <1>1 DEF F!Range

(* The children of a form come each once.                                  *)
LEMMA ChildrenShape ==
  ASSUME StorefrontAssumption,
         NEW f, f.skus \in Seq(Sku), F!IsInjective(f.skus), f.images \in 0..MaxImages
  PROVE  F!Children(f) \in Seq(Child) /\ F!IsInjective(F!Children(f)) /\ F!Range(F!Children(f)) = Asked(f)
<1> DEFINE A == [k \in 1..Len(f.skus) |-> <<"variant", f.skus[k]>>]
           B == [k \in 1..f.images |-> <<"image", k>>]
           m == Len(f.skus)
           n == f.images
<1>0. m \in Nat /\ n \in Nat /\ \A k \in 1..m : f.skus[k] \in Sku
  BY DEF StorefrontAssumption, F!BoundAssumption
<1>1. A \in Seq(Child) /\ Len(A) = m
  BY <1>0 DEF Child
<1>2. B \in Seq(Child) /\ Len(B) = n
  BY <1>0 DEF StorefrontAssumption, F!BoundAssumption, Child, F!Position
<1>3. F!Children(f) = A \o B
  BY DEF F!Children
<1>4. /\ A \o B \in Seq(Child) /\ Len(A \o B) = m + n
      /\ \A k \in 1..m : (A \o B)[k] = <<"variant", f.skus[k]>>
      /\ \A k \in (m + 1)..(m + n) : (A \o B)[k] = <<"image", k - m>>
  BY <1>0, <1>1, <1>2
<1>5. PICK c : c = A \o B
  OBVIOUS
<1> HIDE DEF A, B
<1>6. DOMAIN c = 1..(m + n)
  BY <1>4, <1>5, <1>0
<1>7. F!IsInjective(c)
  <2> SUFFICES ASSUME NEW i \in 1..(m + n), NEW j \in 1..(m + n), c[i] = c[j]
               PROVE  i = j
    BY <1>6 DEF F!IsInjective
  <2>1. CASE i \in 1..m /\ j \in 1..m
    <3>0. c[i] = <<"variant", f.skus[i]>> /\ c[j] = <<"variant", f.skus[j]>>
      BY <1>4, <1>5, <2>1
    <3>1. <<"variant", f.skus[i]>> = <<"variant", f.skus[j]>>
      BY Zenon, <3>0
    <3>2. f.skus[i] = f.skus[j] /\ i \in DOMAIN f.skus /\ j \in DOMAIN f.skus
      BY <1>0, <2>1, <3>1
    <3> QED
      BY <3>2 DEF F!IsInjective
  <2>2. CASE i \in (m + 1)..(m + n) /\ j \in (m + 1)..(m + n)
    <3>0. c[i] = <<"image", i - m>> /\ c[j] = <<"image", j - m>>
      BY <1>4, <1>5, <2>2
    <3>1. <<"image", i - m>> = <<"image", j - m>>
      BY Zenon, <3>0
    <3>2. i - m = j - m
      BY <3>1
    <3> QED
      BY <1>0, <2>2, <3>2
  <2>3. CASE i \in 1..m /\ j \in (m + 1)..(m + n)
    BY <1>0, <1>4, <1>5, <2>3
  <2>4. CASE j \in 1..m /\ i \in (m + 1)..(m + n)
    BY <1>0, <1>4, <1>5, <2>4
  <2> QED
    BY <1>0, <2>1, <2>2, <2>3, <2>4
<1>8. F!Range(c) = Asked(f)
  <2>1. ASSUME NEW i \in 1..(m + n)
        PROVE  c[i] \in Asked(f)
    <3>1. CASE i \in 1..m
      <4>1. c[i] = <<"variant", f.skus[i]>> /\ f.skus[i] \in F!Range(f.skus)
        BY <1>0, <1>4, <1>5, <3>1 DEF F!Range
      <4> QED
        BY <4>1 DEF Asked
    <3>2. CASE i \in (m + 1)..(m + n)
      <4>1. c[i] = <<"image", i - m>> /\ i - m \in 1..f.images
        BY <1>0, <1>4, <1>5, <3>2
      <4> QED
        BY <4>1 DEF Asked
    <3> QED
      BY <1>0, <3>1, <3>2
  <2>2. ASSUME NEW s \in F!Range(f.skus)
        PROVE  <<"variant", s>> \in F!Range(c)
    <3>1. PICK i \in DOMAIN f.skus : s = f.skus[i]
      BY DEF F!Range
    <3>2. i \in 1..m /\ i \in 1..(m + n)
      BY <1>0, <3>1
    <3> QED
      BY <1>4, <1>5, <1>6, <3>1, <3>2 DEF F!Range
  <2>3. ASSUME NEW k \in 1..f.images
        PROVE  <<"image", k>> \in F!Range(c)
    <3>1. m + k \in (m + 1)..(m + n) /\ m + k \in 1..(m + n) /\ (m + k) - m = k
      BY <1>0
    <3> QED
      BY <1>4, <1>5, <1>6, <3>1 DEF F!Range
  <2> QED
    BY <1>6, <2>1, <2>2, <2>3 DEF F!Range, Asked
<1> QED
  BY <1>3, <1>4, <1>5, <1>7, <1>8

(* The next child leaves the list, and is on it no more.                   *)
LEMMA TailShape ==
  ASSUME NEW S, NEW todo \in Seq(S), todo # <<>>, F!IsInjective(todo)
  PROVE  /\ Head(todo) \in F!Range(todo) /\ Head(todo) \in S
         /\ Tail(todo) \in Seq(S) /\ F!IsInjective(Tail(todo))
         /\ F!Range(Tail(todo)) = F!Range(todo) \ {Head(todo)}
<1>1. /\ Len(todo) \in Nat /\ Len(todo) > 0 /\ DOMAIN todo = 1..Len(todo)
      /\ Head(todo) = todo[1] /\ Tail(todo) \in Seq(S) /\ Len(Tail(todo)) = Len(todo) - 1
      /\ DOMAIN Tail(todo) = 1..(Len(todo) - 1)
      /\ \A k \in 1..(Len(todo) - 1) : Tail(todo)[k] = todo[k + 1]
  OBVIOUS
<1>2. F!IsInjective(Tail(todo))
  BY <1>1 DEF F!IsInjective
<1>3. F!Range(Tail(todo)) \subseteq F!Range(todo) \ {Head(todo)}
  BY <1>1 DEF F!IsInjective, F!Range
<1>4. ASSUME NEW x \in F!Range(todo) \ {Head(todo)}
      PROVE  x \in F!Range(Tail(todo))
  <2>1. PICK i \in 1..Len(todo) : x = todo[i]
    BY <1>1 DEF F!Range
  <2>2. i - 1 \in 1..(Len(todo) - 1) /\ (i - 1) + 1 = i
    BY <1>1, <2>1
  <2> QED
    BY <1>1, <2>1, <2>2 DEF F!Range
<1> QED
  <2>1. Head(todo) \in F!Range(todo) /\ Head(todo) \in S
    BY <1>1 DEF F!Range
  <2>2. F!Range(Tail(todo)) = F!Range(todo) \ {Head(todo)}
    BY <1>3, <1>4
  <2> QED
    BY <1>1, <1>2, <2>1, <2>2

-------------------------------------------------------------------------------
(* What a step does to the forms: saved ones stay, more may follow.        *)
Keeps ==
  /\ forms' \in Seq(FormRow) /\ Len(forms) <= Len(forms')
  /\ \A n \in 1..Len(forms) :
       /\ forms'[n].product = forms[n].product
       /\ forms'[n].skus = forms[n].skus /\ forms'[n].images = forms[n].images
       /\ forms[n].kept => forms'[n].kept

(* A saved product does not come back, and its row only gets newer.        *)
Moves ==
  \A p \in Product : F!FormsOf(p) # {} /\ F!Listed(p)' =>
    /\ F!Listed(p)
    /\ db'[F!productRow(p)].form \in Nat /\ db[F!productRow(p)].form <= db'[F!productRow(p)].form

Untouched(p) == F!FormsOf(p)' = F!FormsOf(p) /\ \A r \in FormRows(p) : db'[r] = db[r]

(* A saved form is one of the forms written.                               *)
LEMMA SavedForm ==
  \A p : \A n \in F!FormsOf(p) : n \in 1..Len(forms) /\ forms[n].product = p /\ forms[n].kept
BY DEF F!FormsOf

(* What was a saved form still is, with the same variants and images.      *)
LEMMA FormsKept ==
  ASSUME forms \in Seq(FormRow), Keeps, NEW p, NEW n \in F!FormsOf(p)
  PROVE  n \in F!FormsOf(p)' /\ n \in Nat /\ F!VariantsOf(n)' = F!VariantsOf(n) /\ F!ImagesOf(n)' = F!ImagesOf(n)
<1>1. /\ Len(forms) \in Nat /\ Len(forms') \in Nat /\ Len(forms) <= Len(forms')
      /\ n \in 1..Len(forms) /\ forms[n].product = p /\ forms[n].kept
  BY SavedForm DEF Keeps
<1>2. n \in 1..Len(forms')
  BY <1>1
<1>3. /\ forms'[n].product = p /\ forms'[n].skus = forms[n].skus
      /\ forms'[n].images = forms[n].images /\ forms'[n].kept
  BY <1>1 DEF Keeps
<1> QED
  BY <1>1, <1>2, <1>3 DEF F!FormsOf, F!VariantsOf, F!SkusOf, F!ImagesOf

(* Nobody else's step changes what a reader may rely on.                   *)
LEMMA ReaderKeeps ==
  ASSUME StorefrontInv, Keeps, Moves, NEW r \in Reader, frames'[r] = frames[r]
  PROVE  ReaderOK(r)'
<1>1. CASE frames[r] = F!Idle
  BY <1>1 DEF ReaderOK
<1>2. CASE frames[r] # F!Idle
  <2>1. forms \in Seq(FormRow)
    BY DEF StorefrontInv
  <2>2. /\ frames[r] \in [pc : {"variants", "images"}, todo : Seq(Item), shown : Seq(ShownItem)]
        /\ frames[r].pc = "images" => frames[r].shown # <<>>
        /\ \A i \in F!Range(frames[r].todo) : ItemOK(i)
        /\ \A i \in F!Range(frames[r].shown) : ShownOK(i)
    BY <1>2 DEF StorefrontInv, ReaderOK
  <2>3. /\ \A i \in F!Range(frames[r].todo) : i.row \in Nat
        /\ \A i \in F!Range(frames[r].shown) : i.row \in Nat
    <3>1. frames[r].todo \in Seq(Item) /\ frames[r].shown \in Seq(ShownItem)
      BY <2>2
    <3>2. F!Range(frames[r].todo) \subseteq Item /\ F!Range(frames[r].shown) \subseteq ShownItem
      BY <3>1, HeldIn
    <3> QED
      BY <3>2 DEF Item, ShownItem
  <2>4. ASSUME NEW i, ItemOK(i), i.row \in Nat
        PROVE  ItemOK(i)'
    <3>1. i.id \in Product /\ F!FormsOf(i.id) # {} /\ (F!Listed(i.id) => i.row <= db[F!productRow(i.id)].form)
      BY <2>4 DEF ItemOK
    <3>2. F!FormsOf(i.id)' # {}
      BY <2>1, <3>1, FormsKept
    <3>3. ASSUME F!Listed(i.id)'
          PROVE  i.row <= db'[F!productRow(i.id)].form
      <4>1. /\ F!Listed(i.id) /\ db'[F!productRow(i.id)].form \in Nat
            /\ db[F!productRow(i.id)].form <= db'[F!productRow(i.id)].form
        BY <3>1, <3>3 DEF Moves
      <4>2. db[F!productRow(i.id)].form \in Nat
        BY <3>1, <4>1, SavedForm, <2>1 DEF StorefrontInv, ProductOK
      <4> QED
        BY <2>4, <3>1, <4>1, <4>2
    <3> QED
      BY <3>1, <3>2, <3>3 DEF ItemOK
  <2>5. ASSUME NEW i, ShownOK(i), i.row \in Nat
        PROVE  ShownOK(i)'
    <3>1. ItemOK(i) /\ ItemOK(i)' /\ i.id \in Product /\ F!FormsOf(i.id) # {}
      BY <2>4, <2>5 DEF ShownOK, ItemOK
    <3>2. F!Listed(i.id)' => /\ F!Listed(i.id) /\ db'[F!productRow(i.id)].form \in Nat
                             /\ db[F!productRow(i.id)].form <= db'[F!productRow(i.id)].form
                             /\ db[F!productRow(i.id)].form \in Nat
      BY <2>1, <3>1, SavedForm DEF Moves, StorefrontInv, ProductOK
    <3>0. F!FormImages(i)' = F!FormImages(i)
      BY DEF F!FormImages
    <3>3. F!FormImages(i) = {} \/ \E m \in F!FormsOf(i.id)' :
             F!FormImages(i) = F!ImagesOf(m)' /\ \A v \in i.variants : v[2] <= m
      <4>1. CASE F!FormImages(i) = {}
        BY <4>1
      <4>2. CASE \E m \in F!FormsOf(i.id) : F!FormImages(i) = F!ImagesOf(m) /\ \A v \in i.variants : v[2] <= m
        BY <2>1, <4>2, FormsKept
      <4> QED
        BY <2>5, <4>1, <4>2 DEF ShownOK
    <3>4. CASE i.variants = {} /\ ~F!Listed(i.id)
      BY <3>0, <3>1, <3>2, <3>3, <3>4 DEF ShownOK
    <3>5. ASSUME NEW n \in F!FormsOf(i.id), i.variants = F!VariantsOf(n), i.row <= n,
                 F!Listed(i.id) => n <= db[F!productRow(i.id)].form
          PROVE  ShownOK(i)'
      <4>1. n \in F!FormsOf(i.id)' /\ n \in Nat /\ F!VariantsOf(n)' = F!VariantsOf(n)
        BY <2>1, FormsKept
      <4>2. F!Listed(i.id)' => n <= db'[F!productRow(i.id)].form
        BY <3>2, <3>5, <4>1
      <4> QED
        BY <3>0, <3>1, <3>3, <3>5, <4>1, <4>2 DEF ShownOK
    <3> QED
      BY <2>5, <3>4, <3>5 DEF ShownOK
  <2> QED
    BY <2>2, <2>3, <2>4, <2>5 DEF ReaderOK
<1> QED
  BY <1>1, <1>2

(* Nor the rows of a product it leaves alone.                              *)
LEMMA ProductKeeps ==
  ASSUME StorefrontInv, Keeps, NEW p \in Product, Untouched(p)
  PROVE  ProductOK(p)'
<1>1. /\ db'[F!productRow(p)] = db[F!productRow(p)] /\ F!FormsOf(p)' = F!FormsOf(p)
      /\ \A s \in Sku : db'[F!variantRow(p, s)] = db[F!variantRow(p, s)]
      /\ \A k \in F!Position : db'[F!imageRow(p, k)] = db[F!imageRow(p, k)]
  BY FormRowsApart DEF Untouched
<1>2. ProductOK(p)
  BY DEF StorefrontInv
<1>3. F!Listed(p)' <=> F!Listed(p)
  BY <1>1 DEF F!Listed
<1>4. PICK n : n = db[F!productRow(p)].form
  OBVIOUS
<1>5. F!Listed(p) => n \in F!FormsOf(p) /\ forms'[n].skus = forms[n].skus /\ forms'[n].images = forms[n].images
  BY <1>2, <1>4, SavedForm DEF ProductOK, Keeps
<1> QED
  BY <1>1, <1>2, <1>3, <1>4, <1>5 DEF ProductOK

(* Where a handler that is not idle can be.                                *)
LEMMA AdminCases ==
  ASSUME NEW a \in Handler, AdminOK(a)
  PROVE  /\ frames[a].pc \in Waiting => /\ frames[a] # F!Idle /\ frames[a].product \in Product
                                        /\ frames[a].form \in Form /\ F!AddVariant(frames[a].form.skus)
         /\ frames[a].pc \in Writing => /\ frames[a] # F!Idle /\ WriterOK(a)
                                        /\ DOMAIN frames[a] = {"pc", "product", "n", "todo"}
         /\ frames[a] # F!Idle => frames[a].pc \in Waiting \/ frames[a].pc \in Writing
         /\ frames[a] # F!Idle => frames[a].product \in Product
<1>1. /\ "idle" \notin Waiting /\ "idle" \notin Writing /\ F!Idle.pc = "idle"
      /\ \A c \in Waiting : c \notin Writing
  BY DEF Waiting, Writing, F!Idle
<1>2. CASE frames[a] = F!Idle
  BY <1>1, <1>2
<1>3. CASE frames[a] \in [pc : Waiting, product : Product, form : Form] /\ F!AddVariant(frames[a].form.skus)
  BY <1>1, <1>3
<1>4. CASE frames[a].pc \in Writing /\ DOMAIN frames[a] = {"pc", "product", "n", "todo"} /\ WriterOK(a)
  BY <1>1, <1>4 DEF WriterOK
<1> QED
  BY <1>2, <1>3, <1>4 DEF AdminOK

(* A new product's id is on no form and in no other request.               *)
OwnId(b) ==
  /\ \A n \in 1..Len(forms) : forms[n].product # frames[b].product
  /\ \A c \in Handler \ {b} : frames[c] # F!Idle => frames[c].product # frames[b].product

(* Nor what the other administrators rely on.                              *)
LEMMA AdminKeeps ==
  ASSUME StorefrontInv, Keeps, NEW b \in Handler, frames'[b] = frames[b], dirty'[b] = dirty[b],
         frames[b].pc = "insert" => OwnId(b)',
         frames[b].pc \in Writing => Untouched(frames[b].product)
  PROVE  AdminOK(b)'
<1>1. AdminOK(b) /\ forms \in Seq(FormRow)
  BY DEF StorefrontInv
<1>2. frames[b].pc = "insert" =>
        /\ \A n \in 1..Len(forms') : forms'[n].product # frames'[b].product
        /\ \A c \in Handler \ {b} : frames'[c] # F!Idle => frames'[c].product # frames'[b].product
  BY DEF OwnId
<1>3. frames[b].pc = "update" => F!FormsOf(frames[b].product)' # {}
  <2>1. SUFFICES ASSUME frames[b].pc = "update"
                 PROVE  F!FormsOf(frames[b].product)' # {}
    OBVIOUS
  <2>2. PICK n \in F!FormsOf(frames[b].product) : TRUE
    BY <1>1, <2>1 DEF AdminOK
  <2>3. PICK p : p = frames[b].product
    OBVIOUS
  <2>4. n \in F!FormsOf(p)'
    BY <1>1, <2>2, <2>3, FormsKept
  <2> QED
    BY <2>3, <2>4
<1>4. frames[b].pc \in Writing => WriterOK(b)'
  <2> SUFFICES ASSUME frames[b].pc \in Writing
               PROVE  WriterOK(b)'
    OBVIOUS
  <2>1. WriterOK(b) /\ Untouched(frames[b].product)
    BY <1>1, AdminCases
  <2>2. PICK p, n, todo : p = frames[b].product /\ n = frames[b].n /\ todo = frames[b].todo
    OBVIOUS
  <2>3. /\ p \in Product /\ n \in 1..Len(forms) /\ forms[n].product = p /\ ~forms[n].kept
    BY <2>1, <2>2 DEF WriterOK
  <2>4. F!FormsOf(p)' = F!FormsOf(p) /\ \A r \in FormRows(p) : db'[r] = db[r]
    BY <2>1, <2>2 DEF Untouched
  <2>5. /\ forms'[n].product = p /\ forms'[n].skus = forms[n].skus /\ forms'[n].images = forms[n].images
        /\ n \in 1..Len(forms')
    BY <1>1, <2>3 DEF Keeps
  <2>6. ~forms'[n].kept
    BY <2>3, <2>4, <2>5 DEF F!FormsOf
  <2>7. Asked(forms'[n]) = Asked(forms[n])
    BY <2>5 DEF Asked
  <2>8. /\ F!Listed(p)' <=> F!Listed(p)
        /\ db'[F!productRow(p)] = db[F!productRow(p)]
        /\ \A s \in Sku : Read(b, F!variantRow(p, s))' = Read(b, F!variantRow(p, s))
        /\ \A k \in F!Position : Read(b, F!imageRow(p, k))' = Read(b, F!imageRow(p, k))
    BY <2>3, <2>4, FormRowsApart DEF F!Listed, Read
  <2> QED
    BY <2>1, <2>2, <2>3, <2>4, <2>5, <2>6, <2>7, <2>8 DEF WriterOK
<1> QED
  BY <1>1, <1>2, <1>3, <1>4, AdminCases DEF AdminOK

(* So a step of handler h on product p is to be looked at there only.      *)
LEMMA ProductStep ==
  ASSUME StorefrontInv, NEW h, NEW p \in Product, Keeps, Moves, StoreOf(F!Row)', LocksExclusive',
         dirty'[Shop] = NoWrites,
         DOMAIN frames' = DOMAIN frames, \A b \in Handler \cup Reader : b = h \/ frames'[b] = frames[b],
         \A b \in Handler : b = h \/ dirty'[b] = dirty[b],
         \A q \in Product \ {p} : Untouched(q),
         ProductOK(p)',
         h \in Handler => AdminOK(h)',
         h \in Reader => ReaderOK(h)',
         \A b \in Handler \ {h} : frames[b].pc = "insert" => OwnId(b)',
         \A b \in Handler \ {h} : frames[b].pc \in Writing => frames[b].product # p \/ Untouched(p)
  PROVE  StorefrontInv'
<1>1. \A q \in Product : ProductOK(q)'
  BY ProductKeeps
<1>2. \A r \in Reader : ReaderOK(r)'
  BY ReaderKeeps
<1>3. ASSUME NEW b \in Handler \ {h}
      PROVE  AdminOK(b)'
  <2>1. frames'[b] = frames[b] /\ dirty'[b] = dirty[b] /\ (frames[b].pc = "insert" => OwnId(b)')
    BY <1>3
  <2>2. AdminOK(b)
    BY DEF StorefrontInv
  <2>3. frames[b].pc \in Writing => Untouched(frames[b].product)
    BY <1>3, <2>2, AdminCases DEF WriterOK
  <2> QED
    BY <1>3, <2>1, <2>3, AdminKeeps
<1> QED
  BY <1>1, <1>2, <1>3 DEF StorefrontInv, Keeps

-------------------------------------------------------------------------------
(* A step that commits nothing and writes no form.                         *)
LEMMA NothingSaved ==
  ASSUME StorefrontInv, db' = db, forms' = forms
  PROVE  /\ Keeps /\ Moves
         /\ \A q \in Product : Untouched(q) /\ ProductOK(q)'
<1>1. /\ \A q : F!FormsOf(q)' = F!FormsOf(q)
      /\ \A q : F!Listed(q)' <=> F!Listed(q)
  BY DEF F!FormsOf, F!Listed
<1>2. forms \in Seq(FormRow) /\ Len(forms) \in Nat
  BY DEF StorefrontInv
<1>3. Keeps
  BY <1>2 DEF Keeps
<1>4. \A q \in Product : Untouched(q)
  BY <1>1 DEF Untouched
<1>5. \A q \in Product : F!Listed(q) => db[F!productRow(q)].form \in Nat
  BY <1>2, SavedForm DEF StorefrontInv, ProductOK
<1>6. Moves
  BY <1>1, <1>5 DEF Moves
<1> QED
  BY <1>3, <1>4, <1>6, ProductKeeps

(* The transactions without a statement.                                   *)
LEMMA StoreSame ==
  ASSUME StorefrontInv, NoStatement
  PROVE  /\ StoreOf(F!Row)' /\ LocksExclusive' /\ db' = db /\ dirty' = dirty
         /\ dirty'[Shop] = NoWrites
BY DEF StorefrontInv, NoStatement, StoreOf, LocksExclusive

(* A handler's frame is replaced, the others' are not.                     *)
LEMMA GotoFrame ==
  ASSUME DOMAIN frames = Handler \cup Reader, NEW h \in Handler \cup Reader, NEW frame, F!Goto(h, frame)
  PROVE  /\ DOMAIN frames' = DOMAIN frames /\ frames'[h] = frame
         /\ \A b \in Handler \cup Reader : b = h \/ frames'[b] = frames[b]
BY DEF F!Goto

(* Begun, a creation has an id of its own.                                 *)
LEMMA PostKeeps ==
  ASSUME StorefrontAssumption,
         StorefrontInv, NEW a \in Handler, NEW p \in Product, NEW f \in Form, F!Post(a, p, f)
  PROVE  StorefrontInv'
<1>1. PICK frame : frame = [pc |-> "insert", product |-> p, form |-> f]
  OBVIOUS
<1>2. /\ frames[a] = F!Idle /\ F!AddVariant(f.skus) /\ F!Goto(a, frame)
      /\ NoStatement /\ forms' = forms
      /\ \A n \in 1..Len(forms) : forms[n].product # p
      /\ \A b \in Handler : frames[b] # F!Idle => frames[b].product # p
  BY <1>1, SameStatements DEF F!Post, F!NewProduct
<1>3. /\ DOMAIN frames' = DOMAIN frames /\ frames'[a] = frame
      /\ \A b \in Handler \cup Reader : b = a \/ frames'[b] = frames[b]
  BY <1>2, GotoFrame DEF StorefrontInv
<1>4. /\ StoreOf(F!Row)' /\ LocksExclusive' /\ db' = db /\ dirty' = dirty
      /\ dirty'[Shop] = NoWrites
  BY <1>2, StoreSame
<1>5. /\ Keeps /\ Moves
      /\ \A q \in Product : Untouched(q) /\ ProductOK(q)'
  BY <1>2, <1>4, NothingSaved
<1>6. AdminOK(a)'
  <2>1. /\ frame.pc = "insert" /\ frame.product = p /\ frame.form = f
        /\ frame \in [pc : Waiting, product : Product, form : Form]
        /\ "insert" # "update" /\ "insert" \notin Writing
    BY <1>1 DEF Waiting, Writing
  <2>2. dirty[a] = NoWrites
    BY <1>2 DEF StorefrontInv, AdminOK, F!Idle, Writing
  <2>3. \A b \in Handler \ {a} : frames'[b] # F!Idle => frames'[b].product # p
    BY <1>2, <1>3
  <2> QED
    BY <1>2, <1>3, <1>4, <2>1, <2>2, <2>3 DEF AdminOK
<1>7. ASSUME NEW b \in Handler \ {a}, frames[b].pc = "insert"
      PROVE  OwnId(b)'
  <2>1. frames[b] # F!Idle /\ AdminOK(b)
    BY <1>7 DEF StorefrontInv, F!Idle
  <2>2. /\ \A n \in 1..Len(forms) : forms[n].product # frames[b].product
        /\ \A c \in Handler \ {b} : frames[c] # F!Idle => frames[c].product # frames[b].product
    BY <1>7, <2>1 DEF AdminOK
  <2>3. frames'[a].product = p /\ p # frames[b].product
    BY <1>1, <1>2, <1>3, <2>1
  <2> QED
    BY <1>2, <1>3, <2>2, <2>3 DEF OwnId
<1>8. a \notin Reader
  BY DEF StorefrontAssumption, F!HandlerAssumption
<1> QED
  BY <1>3, <1>4, <1>5, <1>6, <1>7, <1>8, ProductStep

(* An update is of a product that has been saved.                          *)
LEMMA PutKeeps ==
  ASSUME StorefrontAssumption,
         StorefrontInv, NEW a \in Handler, NEW p \in Product, NEW f \in Form, F!Put(a, p, f)
  PROVE  StorefrontInv'
<1>1. PICK frame : frame = [pc |-> "update", product |-> p, form |-> f]
  OBVIOUS
<1>2. /\ frames[a] = F!Idle /\ F!AddVariant(f.skus) /\ F!Goto(a, frame)
      /\ NoStatement /\ forms' = forms /\ F!Listed(p)
  BY <1>1, SameStatements DEF F!Put, F!NewProduct, F!GetProductByID
<1>3. /\ DOMAIN frames' = DOMAIN frames /\ frames'[a] = frame
      /\ \A b \in Handler \cup Reader : b = a \/ frames'[b] = frames[b]
  BY <1>2, GotoFrame DEF StorefrontInv
<1>4. /\ StoreOf(F!Row)' /\ LocksExclusive' /\ db' = db /\ dirty' = dirty
      /\ dirty'[Shop] = NoWrites
  BY <1>2, StoreSame
<1>5. /\ Keeps /\ Moves
      /\ \A q \in Product : Untouched(q) /\ ProductOK(q)'
  BY <1>2, <1>4, NothingSaved
<1>0. PICK n : n \in F!FormsOf(p) /\ n \in 1..Len(forms) /\ forms[n].product = p
  BY <1>2, SavedForm DEF StorefrontInv, ProductOK
<1>6. AdminOK(a)'
  <2>1. /\ frame.pc = "update" /\ frame.product = p /\ frame.form = f
        /\ frame \in [pc : Waiting, product : Product, form : Form]
        /\ "insert" # "update" /\ "update" \notin Writing
    BY <1>1 DEF Waiting, Writing
  <2>2. dirty[a] = NoWrites
    BY <1>2 DEF StorefrontInv, AdminOK, F!Idle, Writing
  <2>3. F!FormsOf(p)' # {}
    BY <1>0, <1>5 DEF Untouched
  <2> QED
    BY <1>2, <1>3, <1>4, <2>1, <2>2, <2>3 DEF AdminOK
<1>7. ASSUME NEW b \in Handler \ {a}, frames[b].pc = "insert"
      PROVE  OwnId(b)'
  <2>1. AdminOK(b)
    BY <1>7 DEF StorefrontInv
  <2>2. /\ \A m \in 1..Len(forms) : forms[m].product # frames[b].product
        /\ \A c \in Handler \ {b} : frames[c] # F!Idle => frames[c].product # frames[b].product
    BY <1>7, <2>1 DEF AdminOK
  <2>3. frames'[a].product = p /\ p # frames[b].product
    BY <1>0, <1>1, <1>3, <2>2
  <2> QED
    BY <1>2, <1>3, <2>2, <2>3 DEF OwnId
<1>8. a \notin Reader
  BY DEF StorefrontAssumption, F!HandlerAssumption
<1> QED
  BY <1>3, <1>4, <1>5, <1>6, <1>7, <1>8, ProductStep

(* An error, or a lost connection, undoes what the transaction wrote.      *)
LEMMA FailsKeeps ==
  ASSUME StorefrontAssumption, StorefrontInv, NEW a \in Handler, frames[a] # F!Idle, F!Fails(a)
  PROVE  StorefrontInv'
<1>1. Rollback(a) /\ F!Goto(a, F!Idle) /\ forms' = forms /\ a \in Proc /\ a # Shop /\ Shop \in Proc
  BY SameStatements DEF StorefrontAssumption, F!HandlerAssumption, F!Fails, F!Done
<1>2. PICK p \in Product : p = frames[a].product
  BY AdminCases DEF StorefrontInv
<1>3. /\ DOMAIN frames' = DOMAIN frames /\ frames'[a] = F!Idle
      /\ \A b \in Handler \cup Reader : b = a \/ frames'[b] = frames[b]
  BY <1>1, GotoFrame DEF StorefrontInv
<1>4. /\ StoreOf(F!Row)' /\ LocksExclusive' /\ db' = db /\ dirty'[a] = NoWrites
      /\ \A b \in Proc \ {a} : dirty'[b] = dirty[b]
  BY <1>1, RollbackRows DEF StorefrontInv
<1>5. /\ Keeps /\ Moves
      /\ \A q \in Product : Untouched(q) /\ ProductOK(q)'
  BY <1>1, <1>4, NothingSaved
<1>6. AdminOK(a)'
  <2>1. F!Idle.pc = "idle" /\ "idle" \notin Writing
    BY DEF F!Idle, Writing
  <2> QED
    BY <1>3, <1>4, <2>1 DEF AdminOK
<1>7. ASSUME NEW b \in Handler \ {a}, frames[b].pc = "insert"
      PROVE  OwnId(b)'
  <2>1. AdminOK(b)
    BY <1>7 DEF StorefrontInv
  <2>2. /\ \A n \in 1..Len(forms) : forms[n].product # frames[b].product
        /\ \A c \in Handler \ {b} : frames[c] # F!Idle => frames[c].product # frames[b].product
    BY <1>7, <2>1 DEF AdminOK
  <2> QED
    BY <1>1, <1>3, <2>2 DEF OwnId
<1>8. a \notin Reader /\ \A b \in Handler : b \in Proc
  BY DEF StorefrontAssumption, F!HandlerAssumption
<1>9. dirty'[Shop] = NoWrites
  BY <1>1, <1>4 DEF StorefrontInv
<1> QED
  BY <1>2, <1>3, <1>4, <1>5, <1>6, <1>7, <1>8, <1>9, ProductStep

(* A request that keeps to its product leaves the new ids of the others alone. *)
LEMMA OwnIdKeeps ==
  ASSUME StorefrontInv, NEW a \in Handler, frames[a] # F!Idle, NEW b \in Handler \ {a}, frames[b].pc = "insert",
         frames'[a] = F!Idle \/ frames'[a].product = frames[a].product,
         \A c \in Handler \cup Reader : c = a \/ frames'[c] = frames[c],
         \A n \in 1..Len(forms') : \/ forms'[n].product = frames[a].product
                                   \/ n \in 1..Len(forms) /\ forms'[n].product = forms[n].product
  PROVE  OwnId(b)'
<1>1. AdminOK(b)
  BY DEF StorefrontInv
<1>2. /\ \A n \in 1..Len(forms) : forms[n].product # frames[b].product
      /\ \A c \in Handler \ {b} : frames[c] # F!Idle => frames[c].product # frames[b].product
  BY <1>1 DEF AdminOK
<1>3. frames'[b] = frames[b] /\ frames[a].product # frames[b].product
  BY <1>2
<1>4. \A n \in 1..Len(forms') : forms'[n].product # frames[b].product
  BY <1>2, <1>3
<1>5. \A c \in Handler \ {b} : frames'[c] # F!Idle => frames'[c].product # frames[b].product
  BY <1>2, <1>3
<1> QED
  BY <1>3, <1>4, <1>5 DEF OwnId

(* Nobody else holds the row of a product that a statement writes.         *)
LEMMA HeldAlone ==
  ASSUME StorefrontAssumption,
         StorefrontInv, NEW a \in Proc, NEW p \in Product, NEW b \in Handler, b # a, frames[b].pc \in Writing,
         F!productRow(p) \in DOMAIN dirty[a] \/ Unlocked(a, F!productRow(p))
  PROVE  frames[b].product # p
<1>1. AdminOK(b) /\ LocksExclusive /\ b \in Proc
  BY DEF StorefrontAssumption, F!HandlerAssumption, StorefrontInv
<1>2. F!productRow(frames[b].product) \in DOMAIN dirty[b]
  BY <1>1, AdminCases DEF WriterOK
<1> QED
  BY <1>1, <1>2 DEF LocksExclusive, Unlocked

(* The row of a product is written, and its form noted.                    *)
LEMMA WriteRowKeeps ==
  ASSUME StorefrontAssumption,
         StorefrontInv, NEW a \in Handler, frames[a].pc \in Waiting, NEW p, p = frames[a].product, NEW v, NEW pc,
         v.form = Len(forms) + 1,
         pc \in {"variants", "children"}, pc = "children" => ~F!Listed(p),
         ~F!Listed(p) => F!FormsOf(p) = {},
         F!WriteRow(a, Only(F!productRow(p), v), pc)
  PROVE  StorefrontInv'
<1>1. /\ p \in Product /\ frames[a] # F!Idle /\ AdminOK(a) /\ frames[a].form \in Form
      /\ F!AddVariant(frames[a].form.skus)
  BY AdminCases DEF StorefrontInv
<1>2. PICK f : f = frames[a].form
  OBVIOUS
<1>3. /\ f.skus \in Seq(Sku) /\ f.images \in 0..MaxImages /\ F!IsInjective(f.skus)
  BY <1>1, <1>2 DEF StorefrontAssumption, F!FormAssumption, F!AddVariant
<1>4. PICK n : n = Len(forms) + 1
  OBVIOUS
<1>5. PICK new : new = [product |-> p, kept |-> FALSE, skus |-> f.skus, images |-> f.images]
  OBVIOUS
<1>6. PICK frame : frame = [pc |-> pc, product |-> p, n |-> n, todo |-> F!Children(f)]
  OBVIOUS
<1>7. PICK rows : rows = Only(F!productRow(p), v)
  OBVIOUS
<1>8. /\ Write(a, rows) /\ forms' = Append(forms, new) /\ F!Goto(a, frame)
  BY <1>2, <1>4, <1>5, <1>6, <1>7, SameStatements DEF F!WriteRow, F!InTx
<1>9. /\ forms \in Seq(FormRow) /\ Len(forms) \in Nat /\ n \in Nat /\ n \in 1..n
      /\ new \in FormRow
  BY <1>1, <1>3, <1>4, <1>5 DEF StorefrontInv, FormRow
<1>10. /\ forms' \in Seq(FormRow) /\ Len(forms') = n /\ forms'[n] = new
       /\ \A m \in 1..Len(forms) : forms'[m] = forms[m] /\ m \in 1..n
       /\ \A m \in 1..n : m = n \/ m \in 1..Len(forms)
       /\ Len(forms) < n
  BY <1>4, <1>8, <1>9
<1>11. /\ new.product = p /\ new.skus = f.skus /\ new.images = f.images /\ ~new.kept
       /\ frame.pc = pc /\ frame.product = p /\ frame.n = n /\ frame.todo = F!Children(f)
       /\ DOMAIN frame = {"pc", "product", "n", "todo"}
  BY <1>5, <1>6
<1>12. DOMAIN rows = {F!productRow(p)} /\ rows[F!productRow(p)] = v
  BY <1>7 DEF Only
<1>13. dirty[a] = NoWrites /\ DOMAIN NoWrites = {}
  BY <1>1 DEF AdminOK, Waiting, Writing, NoWrites
<1>14. a \in Proc /\ a # Shop /\ Shop \in Proc /\ a \notin Reader /\ \A b \in Handler : b \in Proc
  BY DEF StorefrontAssumption, F!HandlerAssumption
<1>15. /\ StoreOf(F!Row)' /\ LocksExclusive' /\ db' = db
       /\ DOMAIN dirty'[a] = {F!productRow(p)} /\ dirty'[a][F!productRow(p)] = v
       /\ \A b \in Proc \ {a} : dirty'[b] = dirty[b]
  <2>1. DOMAIN rows \subseteq F!Row
    BY <1>1, <1>12, RowsApart
  <2>2. /\ StoreOf(F!Row)' /\ LocksExclusive' /\ db' = db
        /\ DOMAIN dirty'[a] = DOMAIN rows \cup DOMAIN dirty[a]
        /\ \A r \in DOMAIN dirty'[a] : dirty'[a][r] = IF r \in DOMAIN rows THEN rows[r] ELSE dirty[a][r]
        /\ \A b \in Proc \ {a} : dirty'[b] = dirty[b]
    BY <1>8, <1>14, <2>1, WriteRows DEF StorefrontInv
  <2> QED
    BY <1>12, <1>13, <2>2
<1>16. /\ DOMAIN frames' = DOMAIN frames /\ frames'[a] = frame
       /\ \A b \in Handler \cup Reader : b = a \/ frames'[b] = frames[b]
  BY <1>8, GotoFrame DEF StorefrontInv
<1>17. Keeps
  BY <1>9, <1>10 DEF Keeps
<1>18. \A q : F!FormsOf(q)' = F!FormsOf(q)
  BY <1>10, <1>11 DEF F!FormsOf
<1>19. \A q : F!Listed(q)' <=> F!Listed(q)
  BY <1>15 DEF F!Listed
<1>20. \A q \in Product : Untouched(q)
  BY <1>15, <1>18 DEF Untouched
<1>21. \A q \in Product : ProductOK(q)'
  BY <1>17, <1>20, ProductKeeps
<1>22. \A q \in Product : F!Listed(q) => db[F!productRow(q)].form \in 1..Len(forms)
  BY SavedForm DEF StorefrontInv, ProductOK
<1>23. Moves
  BY <1>9, <1>15, <1>19, <1>22 DEF Moves
<1>24. AdminOK(a)'
  <2>1. /\ F!Children(f) \in Seq(Child) /\ F!IsInjective(F!Children(f)) /\ F!Range(F!Children(f)) = Asked(f)
    BY <1>3, ChildrenShape
  <2>2. Asked(new) = Asked(f)
    BY <1>11 DEF Asked
  <2>3. IF F!Listed(p)' THEN db'[F!productRow(p)].form < n ELSE F!FormsOf(p)' = {}
    BY <1>1, <1>4, <1>9, <1>15, <1>18, <1>19, <1>22
  <2>4. DOMAIN dirty'[a] \subseteq F!rowsOf(p) /\ F!productRow(p) \in DOMAIN dirty'[a]
        /\ dirty'[a][F!productRow(p)].form = n
    BY <1>1, <1>4, <1>15, RowsApart
  <2>5. pc = "children" =>
          /\ \A s \in Sku : Read(a, F!variantRow(p, s))' = 0
          /\ \A k \in F!Position : Read(a, F!imageRow(p, k))' = 0
    <3>1. SUFFICES ASSUME pc = "children"
                   PROVE  /\ \A s \in Sku : Read(a, F!variantRow(p, s))' = 0
                          /\ \A k \in F!Position : Read(a, F!imageRow(p, k))' = 0
      OBVIOUS
    <3>2. /\ \A s \in Sku : F!variantRow(p, s) \notin DOMAIN dirty'[a]
          /\ \A k \in F!Position : F!imageRow(p, k) \notin DOMAIN dirty'[a]
      BY <1>15, RowKeys
    <3>3. /\ \A s \in Sku : db[F!variantRow(p, s)] = 0
          /\ \A k \in F!Position : db[F!imageRow(p, k)] = 0
      BY <1>1, <3>1 DEF StorefrontInv, ProductOK
    <3> QED
      BY <1>15, <3>2, <3>3 DEF Read
  <2>6. Asked(forms'[n]) \ F!Range(F!Children(f)) = {}
    BY <1>10, <2>1, <2>2
  <2>7. WriterOK(a)'
    <3> DEFINE Made == Asked(forms'[n]) \ F!Range(F!Children(f))
    <3>1. p \in Product /\ n \in 1..Len(forms') /\ forms'[n].product = p /\ ~forms'[n].kept
      BY <1>1, <1>9, <1>10, <1>11
    <3>2. F!Range(F!Children(f)) = Asked(forms'[n])
      BY <1>10, <2>1, <2>2
    <3>3. pc \in {"images", "children"} => \A s \in Sku :
            Read(a, F!variantRow(p, s))' = IF <<"variant", s>> \in Made THEN n ELSE 0
      BY <2>5, <2>6
    <3>4. pc = "children" => \A k \in F!Position :
            Read(a, F!imageRow(p, k))' = IF <<"image", k>> \in Made THEN n ELSE 0
      BY <2>5, <2>6
    <3> QED
      BY <1>11, <1>16, <2>1, <2>3, <2>4, <3>1, <3>2, <3>3, <3>4 DEF WriterOK
  <2> QED
    BY <1>11, <1>16, <2>7 DEF AdminOK, Writing
<1>25. ASSUME NEW b \in Handler \ {a}, frames[b].pc = "insert"
       PROVE  OwnId(b)'
  <2>1. \A m \in 1..Len(forms') : \/ forms'[m].product = frames[a].product
                                  \/ m \in 1..Len(forms) /\ forms'[m].product = forms[m].product
    BY <1>10, <1>11
  <2> QED
    BY <1>1, <1>11, <1>16, <1>25, <2>1, OwnIdKeeps
<1> QED
  BY <1>1, <1>14, <1>15, <1>16, <1>17, <1>20, <1>21, <1>23, <1>24, <1>25, ProductStep DEF StorefrontInv

(* A new product: no form of it is known yet.                              *)
LEMMA InsertKeeps ==
  ASSUME StorefrontAssumption, StorefrontInv, NEW a \in Handler, F!InsertProduct(a)
  PROVE  StorefrontInv'
<1>1. PICK p, f : p = frames[a].product /\ f = frames[a].form
  OBVIOUS
<1>2. frames[a].pc = "insert" /\ (F!Fails(a) \/ F!WriteRow(a, F!CreateProduct(p, f, Len(forms) + 1), "children"))
  BY <1>1 DEF F!InsertProduct
<1>3. frames[a].pc \in Waiting /\ frames[a] # F!Idle /\ AdminOK(a) /\ p \in Product
  BY <1>1, <1>2, AdminCases DEF StorefrontInv, Waiting
<1>4. F!FormsOf(p) = {}
  BY <1>1, <1>2, <1>3 DEF AdminOK, F!FormsOf
<1>5. ~F!Listed(p)
  BY <1>3, <1>4 DEF StorefrontInv, ProductOK
<1>6. CASE F!WriteRow(a, F!CreateProduct(p, f, Len(forms) + 1), "children")
  <2>1. PICK v : v = [form |-> Len(forms) + 1, created |-> Len(forms) + 1, slug |-> f.slug,
                      tag |-> f.tag, status |-> f.status]
    OBVIOUS
  <2>2. F!WriteRow(a, Only(F!productRow(p), v), "children") /\ v.form = Len(forms) + 1
    BY <1>6, <2>1, SameStatements DEF F!CreateProduct
  <2> QED
    BY <1>1, <1>3, <1>4, <1>5, <2>2, WriteRowKeeps
<1> QED
  BY <1>2, <1>3, <1>6, FailsKeeps

(* An update takes the lock of the row it found.                           *)
LEMMA ReplaceKeeps ==
  ASSUME StorefrontAssumption, StorefrontInv, NEW a \in Handler, F!ReplaceProduct(a)
  PROVE  StorefrontInv'
<1>1. PICK p, f : p = frames[a].product /\ f = frames[a].form
  OBVIOUS
<1>2. /\ frames[a].pc = "update"
      /\ \/ F!Fails(a)
         \/ F!Listed(p) /\ F!WriteRow(a, F!UpdateProduct(p, f, Len(forms) + 1), "variants")
  <2>1. frames[a].pc = "update"
    BY DEF F!ReplaceProduct
  <2>2. IF ~F!Listed(p) \/ F!Taken(p, f.slug) THEN F!Fails(a)
        ELSE F!WriteRow(a, F!UpdateProduct(p, f, Len(forms) + 1), "variants")
    BY <1>1 DEF F!ReplaceProduct
  <2> QED
    BY <2>1, <2>2
<1>3. frames[a].pc \in Waiting /\ frames[a] # F!Idle
  BY <1>2, AdminCases DEF StorefrontInv, Waiting
<1>4. CASE F!Listed(p) /\ F!WriteRow(a, F!UpdateProduct(p, f, Len(forms) + 1), "variants")
  <2>1. PICK v : v = [form |-> Len(forms) + 1, created |-> db[F!productRow(p)].created, slug |-> f.slug,
                      tag |-> f.tag, status |-> f.status]
    OBVIOUS
  <2>2. F!WriteRow(a, Only(F!productRow(p), v), "variants") /\ v.form = Len(forms) + 1
    BY <1>4, <2>1, SameStatements DEF F!UpdateProduct
  <2> QED
    BY <1>1, <1>3, <1>4, <2>2, WriteRowKeeps
<1> QED
  BY <1>2, <1>3, <1>4, FailsKeeps

(* A statement on the rows below one's product.                            *)
LEMMA ChildWrite ==
  ASSUME StorefrontAssumption,
         StorefrontInv, NEW a \in Handler, frames[a].pc \in Writing, NEW p, p = frames[a].product, NEW n, n = frames[a].n,
         NEW rows, DOMAIN rows \subseteq F!rowsOf(p) \ {F!productRow(p)}, Write(a, rows), forms' = forms,
         NEW frame, F!Goto(a, frame), DOMAIN frame = {"pc", "product", "n", "todo"},
         frame.pc \in Writing, frame.product = p, frame.n = n,
         frame.todo \in Seq(Child), F!IsInjective(frame.todo), F!Range(frame.todo) \subseteq Asked(forms[n]),
         frame.pc \in {"variants", "images"} => F!Range(frame.todo) = Asked(forms[n]),
         frame.pc \in {"images", "children"} => \A s \in Sku :
           (IF F!variantRow(p, s) \in DOMAIN rows THEN rows[F!variantRow(p, s)] ELSE Read(a, F!variantRow(p, s)))
             = IF <<"variant", s>> \in Asked(forms[n]) \ F!Range(frame.todo) THEN n ELSE 0,
         frame.pc = "children" => \A k \in F!Position :
           (IF F!imageRow(p, k) \in DOMAIN rows THEN rows[F!imageRow(p, k)] ELSE Read(a, F!imageRow(p, k)))
             = IF <<"image", k>> \in Asked(forms[n]) \ F!Range(frame.todo) THEN n ELSE 0
  PROVE  StorefrontInv'
<1>1. /\ p \in Product /\ frames[a] # F!Idle /\ WriterOK(a)
  BY AdminCases DEF StorefrontInv, WriterOK
<1>2. a \in Proc /\ a # Shop /\ Shop \in Proc /\ a \notin Reader /\ \A b \in Handler : b \in Proc
  BY DEF StorefrontAssumption, F!HandlerAssumption
<1>3. /\ StoreOf(F!Row)' /\ LocksExclusive' /\ db' = db
      /\ DOMAIN dirty'[a] = DOMAIN rows \cup DOMAIN dirty[a]
      /\ \A r \in DOMAIN dirty'[a] : dirty'[a][r] = IF r \in DOMAIN rows THEN rows[r] ELSE dirty[a][r]
      /\ \A b \in Proc \ {a} : dirty'[b] = dirty[b]
  <2>1. DOMAIN rows \subseteq F!Row
    BY <1>1, RowsApart
  <2> QED
    BY <1>2, <2>1, WriteRows DEF StorefrontInv
<1>4. /\ DOMAIN frames' = DOMAIN frames /\ frames'[a] = frame
      /\ \A b \in Handler \cup Reader : b = a \/ frames'[b] = frames[b]
  BY GotoFrame DEF StorefrontInv
<1>5. /\ Keeps /\ Moves
      /\ \A q \in Product : Untouched(q) /\ ProductOK(q)'
  BY <1>3, NothingSaved
<1>6. \A r \in F!Row : Read(a, r)' = IF r \in DOMAIN rows THEN rows[r] ELSE Read(a, r)
  BY <1>3 DEF Read
<1>7. WriterOK(a)'
  <2>1. /\ n \in 1..Len(forms) /\ forms[n].product = p /\ ~forms[n].kept
        /\ DOMAIN dirty[a] \subseteq F!rowsOf(p) /\ F!productRow(p) \in DOMAIN dirty[a]
        /\ dirty[a][F!productRow(p)].form = n
        /\ IF F!Listed(p) THEN db[F!productRow(p)].form < n ELSE F!FormsOf(p) = {}
    BY <1>1 DEF WriterOK
  <2>2. /\ DOMAIN dirty'[a] \subseteq F!rowsOf(p) /\ F!productRow(p) \in DOMAIN dirty'[a]
        /\ dirty'[a][F!productRow(p)].form = n
    BY <1>3, <2>1
  <2>3. IF F!Listed(p)' THEN db'[F!productRow(p)].form < n ELSE F!FormsOf(p)' = {}
    BY <1>3, <2>1 DEF F!Listed, F!FormsOf
  <2>4. /\ frame.pc \in {"images", "children"} => \A s \in Sku :
             Read(a, F!variantRow(p, s))'
               = IF <<"variant", s>> \in Asked(forms[n]) \ F!Range(frame.todo) THEN n ELSE 0
        /\ frame.pc = "children" => \A k \in F!Position :
             Read(a, F!imageRow(p, k))'
               = IF <<"image", k>> \in Asked(forms[n]) \ F!Range(frame.todo) THEN n ELSE 0
    BY <1>1, <1>6, RowsApart
  <2> QED
    BY <1>1, <1>4, <2>1, <2>2, <2>3, <2>4 DEF WriterOK
<1>8. AdminOK(a)'
  BY <1>4, <1>7 DEF AdminOK, Writing
<1>9. ASSUME NEW b \in Handler \ {a}, frames[b].pc = "insert"
      PROVE  OwnId(b)'
  BY <1>1, <1>4, <1>9, OwnIdKeeps
<1>10. dirty'[Shop] = NoWrites
  BY <1>2, <1>3 DEF StorefrontInv
<1> QED
  BY <1>1, <1>2, <1>3, <1>4, <1>5, <1>8, <1>9, <1>10, ProductStep

(* First the old variants go.                                              *)
LEMMA ClearVariantsKeeps ==
  ASSUME StorefrontAssumption, StorefrontInv, NEW a \in Handler, F!ClearVariants(a)
  PROVE  StorefrontInv'
<1>1. PICK p, n, rows : p = frames[a].product /\ n = frames[a].n /\ rows = F!DeleteVariantsByProduct(p)
  OBVIOUS
<1>2. PICK frame : frame = [frames[a] EXCEPT !.pc = "images"]
  OBVIOUS
<1>3. frames[a].pc = "variants" /\ Write(a, rows) /\ F!Goto(a, frame) /\ forms' = forms
  BY <1>1, <1>2, SameStatements DEF F!ClearVariants, F!InTx
<1>4. frames[a].pc \in Writing /\ WriterOK(a) /\ DOMAIN frames[a] = {"pc", "product", "n", "todo"}
  BY <1>3, AdminCases DEF StorefrontInv, Writing
<1>5. /\ DOMAIN frame = {"pc", "product", "n", "todo"}
      /\ frame.pc = "images" /\ frame.product = p /\ frame.n = n /\ frame.todo = frames[a].todo
  BY <1>1, <1>2, <1>4
<1>6. /\ frame.todo \in Seq(Child) /\ F!IsInjective(frame.todo) /\ F!Range(frame.todo) = Asked(forms[n])
      /\ p \in Product
  BY <1>1, <1>3, <1>4, <1>5 DEF WriterOK
<1>7. /\ DOMAIN rows \subseteq F!rowsOf(p) \ {F!productRow(p)}
      /\ \A s \in Sku : F!variantRow(p, s) \in DOMAIN rows /\ rows[F!variantRow(p, s)] = 0
  <2>1. \A r \in F!variantRows(p) : r # F!productRow(p)
    BY RowKeys DEF F!variantRows
  <2> QED
    BY <1>1, <2>1, SameStatements DEF F!DeleteVariantsByProduct, F!rowsOf, F!variantRows
<1>8. frame.pc \in Writing
  BY <1>5 DEF Writing
<1> QED
  BY <1>1, <1>3, <1>4, <1>5, <1>6, <1>7, <1>8, ChildWrite

(* The images of the old form go, and uploads.                             *)
LEMMA ImagesDeleted ==
  ASSUME NEW p
  PROVE  LET rows == F!DeleteImagesByProduct(p) IN
         /\ F!imageRows(p) \subseteq DOMAIN rows /\ DOMAIN rows \subseteq F!imageRows(p) \cup F!uploadRows(p)
         /\ \A r \in DOMAIN rows : rows[r] = 0
BY DEF F!DeleteImagesByProduct, F!Uploads, F!uploadRows

(* Then the old images; the variants are gone still.                       *)
LEMMA ClearImagesKeeps ==
  ASSUME StorefrontAssumption, StorefrontInv, NEW a \in Handler, F!ClearImages(a)
  PROVE  StorefrontInv'
<1>1. PICK p, n, rows : p = frames[a].product /\ n = frames[a].n /\ rows = F!DeleteImagesByProduct(p)
  OBVIOUS
<1>2. PICK frame : frame = [frames[a] EXCEPT !.pc = "children"]
  OBVIOUS
<1>3. frames[a].pc = "images" /\ Write(a, rows) /\ F!Goto(a, frame) /\ forms' = forms
  BY <1>1, <1>2, SameStatements DEF F!ClearImages, F!InTx
<1>4. frames[a].pc \in Writing /\ WriterOK(a) /\ DOMAIN frames[a] = {"pc", "product", "n", "todo"}
  BY <1>3, AdminCases DEF StorefrontInv, Writing
<1>5. /\ DOMAIN frame = {"pc", "product", "n", "todo"}
      /\ frame.pc = "children" /\ frame.product = p /\ frame.n = n /\ frame.todo = frames[a].todo
  BY <1>1, <1>2, <1>4
<1>6. /\ frame.todo \in Seq(Child) /\ F!IsInjective(frame.todo) /\ F!Range(frame.todo) = Asked(forms[n])
      /\ p \in Product
      /\ \A s \in Sku : Read(a, F!variantRow(p, s))
           = IF <<"variant", s>> \in Asked(forms[n]) \ F!Range(frame.todo) THEN n ELSE 0
  BY <1>1, <1>3, <1>4, <1>5 DEF WriterOK
<1>7. /\ DOMAIN rows \subseteq F!rowsOf(p) \ {F!productRow(p)}
      /\ \A k \in F!Position : F!imageRow(p, k) \in DOMAIN rows /\ rows[F!imageRow(p, k)] = 0
      /\ \A s \in Sku : F!variantRow(p, s) \notin DOMAIN rows
  <2>1. \A r \in F!imageRows(p) \cup F!uploadRows(p) : r # F!productRow(p) /\ \A s : r # F!variantRow(p, s)
    BY RowKeys DEF F!imageRows, F!uploadRows
  <2>2. /\ F!imageRows(p) \subseteq DOMAIN rows /\ DOMAIN rows \subseteq F!imageRows(p) \cup F!uploadRows(p)
        /\ \A r \in F!imageRows(p) : rows[r] = 0
    BY <1>1, ImagesDeleted
  <2>3. DOMAIN rows \subseteq F!rowsOf(p)
    BY <2>2 DEF F!rowsOf
  <2>4. \A k \in F!Position : F!imageRow(p, k) \in F!imageRows(p)
    BY DEF F!imageRows
  <2> QED
    BY <2>1, <2>2, <2>3, <2>4
<1>8. frame.pc \in Writing
  BY <1>5 DEF Writing
<1> QED
  BY <1>1, <1>3, <1>4, <1>5, <1>6, <1>7, <1>8, ChildWrite

(* Then the new rows, one by one.                                          *)
LEMMA PersistChildKeeps ==
  ASSUME StorefrontAssumption, StorefrontInv, NEW a \in Handler, F!PersistChild(a)
  PROVE  StorefrontInv'
<1>1. PICK p, n, todo, c : p = frames[a].product /\ n = frames[a].n /\ todo = frames[a].todo /\ c = Head(todo)
  OBVIOUS
<1>2. PICK r : r = IF c[1] = "variant" THEN F!variantRow(p, c[2]) ELSE F!imageRow(p, c[2])
  OBVIOUS
<1>3. PICK rows : rows = Only(r, n)
  OBVIOUS
<1>4. PICK frame : frame = [frames[a] EXCEPT !.todo = Tail(todo)]
  OBVIOUS
<1>5. frames[a].pc = "children" /\ todo # <<>> /\ Write(a, rows) /\ F!Goto(a, frame) /\ forms' = forms
  BY <1>1, <1>2, <1>3, <1>4, SameStatements DEF F!PersistChild, F!InTx, F!CreateVariant, F!CreateImage
<1>6. frames[a].pc \in Writing /\ WriterOK(a) /\ DOMAIN frames[a] = {"pc", "product", "n", "todo"}
  BY <1>5, AdminCases DEF StorefrontInv, Writing
<1>7. /\ DOMAIN frame = {"pc", "product", "n", "todo"}
      /\ frame.pc = "children" /\ frame.product = p /\ frame.n = n /\ frame.todo = Tail(todo)
  BY <1>1, <1>4, <1>5, <1>6
<1>8. /\ todo \in Seq(Child) /\ F!IsInjective(todo) /\ F!Range(todo) \subseteq Asked(forms[n])
      /\ p \in Product
      /\ \A s \in Sku : Read(a, F!variantRow(p, s))
           = IF <<"variant", s>> \in Asked(forms[n]) \ F!Range(todo) THEN n ELSE 0
      /\ \A k \in F!Position : Read(a, F!imageRow(p, k))
           = IF <<"image", k>> \in Asked(forms[n]) \ F!Range(todo) THEN n ELSE 0
  BY <1>1, <1>5, <1>6 DEF WriterOK
<1>9. /\ c \in F!Range(todo) /\ c \in Child
      /\ Tail(todo) \in Seq(Child) /\ F!IsInjective(Tail(todo))
      /\ F!Range(Tail(todo)) = F!Range(todo) \ {c}
  BY <1>1, <1>5, <1>8, TailShape
<1>10. DOMAIN rows = {r} /\ rows[r] = n
  BY <1>3 DEF Only
<1>11. \/ \E s \in Sku : c = <<"variant", s>> /\ r = F!variantRow(p, s)
       \/ \E k \in F!Position : c = <<"image", k>> /\ r = F!imageRow(p, k)
  BY <1>2, <1>9 DEF Child
<1>12. r \in F!rowsOf(p) \ {F!productRow(p)}
  BY <1>8, <1>11, RowKeys, RowsApart
<1>13. ASSUME NEW s \in Sku
       PROVE  (IF F!variantRow(p, s) \in DOMAIN rows THEN rows[F!variantRow(p, s)] ELSE Read(a, F!variantRow(p, s)))
                = IF <<"variant", s>> \in Asked(forms[n]) \ F!Range(Tail(todo)) THEN n ELSE 0
  <2>1. F!variantRow(p, s) = r <=> c = <<"variant", s>>
    BY <1>11, RowKeys
  <2> QED
    BY <1>8, <1>9, <1>10, <2>1
<1>14. ASSUME NEW k \in F!Position
       PROVE  (IF F!imageRow(p, k) \in DOMAIN rows THEN rows[F!imageRow(p, k)] ELSE Read(a, F!imageRow(p, k)))
                = IF <<"image", k>> \in Asked(forms[n]) \ F!Range(Tail(todo)) THEN n ELSE 0
  <2>1. F!imageRow(p, k) = r <=> c = <<"image", k>>
    BY <1>11, RowKeys
  <2> QED
    BY <1>8, <1>9, <1>10, <2>1
<1>15. /\ frame.pc \in Writing /\ F!Range(frame.todo) \subseteq Asked(forms[n])
       /\ frame.todo \in Seq(Child) /\ F!IsInjective(frame.todo)
       /\ frame.pc \notin {"variants", "images"}
  BY <1>7, <1>8, <1>9 DEF Writing
<1>16. /\ \A s \in Sku :
            (IF F!variantRow(p, s) \in DOMAIN rows THEN rows[F!variantRow(p, s)] ELSE Read(a, F!variantRow(p, s)))
              = IF <<"variant", s>> \in Asked(forms[n]) \ F!Range(frame.todo) THEN n ELSE 0
       /\ \A k \in F!Position :
            (IF F!imageRow(p, k) \in DOMAIN rows THEN rows[F!imageRow(p, k)] ELSE Read(a, F!imageRow(p, k)))
              = IF <<"image", k>> \in Asked(forms[n]) \ F!Range(frame.todo) THEN n ELSE 0
  BY Zenon, <1>7, <1>13, <1>14
<1>17. DOMAIN rows \subseteq F!rowsOf(p) \ {F!productRow(p)}
  BY <1>10, <1>12
<1> QED
  BY Zenon, <1>1, <1>5, <1>6, <1>7, <1>15, <1>16, <1>17, ChildWrite

(* A form asks for its variants and its images.                            *)
LEMMA AskedFor ==
  ASSUME NEW f
  PROVE  /\ \A s : <<"variant", s>> \in Asked(f) <=> s \in F!Range(f.skus)
         /\ \A k : <<"image", k>> \in Asked(f) <=> k \in 1..f.images
<1>1. /\ \A s, t : F!variantRow(s, t) # F!imageRow(s, t)
      /\ \A s, t : <<"variant", s>> = <<"variant", t>> => s = t
      /\ \A s, t : <<"image", s>> = <<"image", t>> => s = t
      /\ \A s, t : <<"variant", s>> # <<"image", t>>
  BY DEF F!variantRow, F!imageRow
<1> QED
  BY <1>1 DEF Asked

(* The commit publishes the form, whole.                                   *)
LEMMA CommitFormKeeps ==
  ASSUME StorefrontAssumption, StorefrontInv, NEW a \in Handler, F!CommitProduct(a)
  PROVE  StorefrontInv'
<1>1. PICK p, n : p = frames[a].product /\ n = frames[a].n
  OBVIOUS
<1>2. /\ frames[a].pc = "children" /\ frames[a].todo = <<>> /\ CommitWith(a, NoWrites)
      /\ forms' = [forms EXCEPT ![n].kept = TRUE] /\ F!Goto(a, F!Idle)
  BY <1>1, SameStatements DEF F!CommitProduct, Commit, F!Done
<1>3. frames[a].pc \in Writing /\ WriterOK(a) /\ frames[a] # F!Idle
  BY <1>2, AdminCases DEF StorefrontInv, Writing
<1>4. /\ p \in Product /\ n \in 1..Len(forms)
      /\ forms[n].product = p /\ ~forms[n].kept
      /\ DOMAIN dirty[a] \subseteq F!rowsOf(p) /\ F!productRow(p) \in DOMAIN dirty[a]
      /\ dirty[a][F!productRow(p)].form = n
      /\ IF F!Listed(p) THEN db[F!productRow(p)].form < n ELSE F!FormsOf(p) = {}
  BY <1>1, <1>3 DEF WriterOK
<1>5. /\ \A s \in Sku : Read(a, F!variantRow(p, s)) = IF <<"variant", s>> \in Asked(forms[n]) THEN n ELSE 0
      /\ \A k \in F!Position : Read(a, F!imageRow(p, k)) = IF <<"image", k>> \in Asked(forms[n]) THEN n ELSE 0
  <2>1. F!Range(<<>>) = {}
    BY DEF F!Range
  <2> QED
    BY <1>1, <1>2, <1>3, <2>1 DEF WriterOK
<1>6. a \in Proc /\ a # Shop /\ Shop \in Proc /\ a \notin Reader /\ \A b \in Handler : b \in Proc
  BY DEF StorefrontAssumption, F!HandlerAssumption
<1>7. /\ StoreOf(F!Row)' /\ LocksExclusive'
      /\ \A r \in F!Row : db'[r] = Read(a, r)
      /\ dirty'[a] = NoWrites
      /\ \A b \in Proc \ {a} : dirty'[b] = dirty[b]
  <2>1. DOMAIN NoWrites = {}
    BY DEF NoWrites
  <2>2. DOMAIN NoWrites \subseteq F!Row
    BY <2>1
  <2> QED
    BY <1>2, <1>6, <2>1, <2>2, CommitRows DEF StorefrontInv
<1>8. /\ DOMAIN frames' = DOMAIN frames /\ frames'[a] = F!Idle
      /\ \A b \in Handler \cup Reader : b = a \/ frames'[b] = frames[b]
  BY <1>2, GotoFrame DEF StorefrontInv
<1>9. forms \in Seq(FormRow) /\ Len(forms) \in Nat /\ n \in Nat /\ n > 0
  BY <1>4 DEF StorefrontInv
<1>10. /\ forms' \in Seq(FormRow) /\ Len(forms') = Len(forms)
       /\ \A m \in 1..Len(forms) :
            /\ forms'[m].product = forms[m].product /\ forms'[m].skus = forms[m].skus
            /\ forms'[m].images = forms[m].images
            /\ forms'[m].kept = IF m = n THEN TRUE ELSE forms[m].kept
  <2>1. forms[n] \in FormRow /\ \A m \in 1..Len(forms) : forms[m] \in FormRow
    BY <1>4, <1>9
  <2>2. PICK new : new = [forms[n] EXCEPT !.kept = TRUE]
    OBVIOUS
  <2>3. /\ new \in FormRow /\ new.product = forms[n].product /\ new.skus = forms[n].skus
        /\ new.images = forms[n].images /\ new.kept = TRUE
    BY <2>1, <2>2 DEF FormRow
  <2>4. forms' = [forms EXCEPT ![n] = new]
    BY <1>2, <2>2
  <2>5. /\ forms' \in Seq(FormRow) /\ Len(forms') = Len(forms)
        /\ \A m \in 1..Len(forms) : forms'[m] = IF m = n THEN new ELSE forms[m]
    BY <1>4, <1>9, <2>3, <2>4
  <2> QED
    BY <2>3, <2>5
<1>11. Keeps
  <2>1. \A m \in 1..Len(forms) : forms[m].kept => forms'[m].kept
    BY Zenon, <1>10
  <2>2. Len(forms) <= Len(forms')
    BY <1>9, <1>10
  <2> QED
    BY Zenon, <1>10, <2>1, <2>2 DEF Keeps
<1>12. ASSUME NEW q \in Product \ {p}
       PROVE  Untouched(q)
  <2>1. F!FormsOf(q)' = F!FormsOf(q)
    BY <1>4, <1>10, <1>12 DEF F!FormsOf
  <2>2. \A r \in FormRows(q) : r \in F!Row /\ r \notin DOMAIN dirty[a]
    BY <1>4, <1>12, RowsApart, FormRowsApart
  <2> QED
    BY <1>7, <2>1, <2>2 DEF Untouched, Read
<1>13. db'[F!productRow(p)].form = n /\ F!Listed(p)'
  <2>1. F!productRow(p) \in F!Row
    BY <1>4, RowsApart
  <2>2. db'[F!productRow(p)] = dirty[a][F!productRow(p)]
    BY <1>4, <1>7, <2>1 DEF Read
  <2>3. F!NoProduct.form = 0
    BY DEF F!NoProduct, F!NoForm
  <2> QED
    BY <1>4, <1>9, <2>2, <2>3 DEF F!Listed
<1>14. n \in F!FormsOf(p)'
  BY <1>4, <1>10 DEF F!FormsOf
<1>15. ProductOK(p)'
  <2>1. /\ \A s \in Sku : db'[F!variantRow(p, s)] = IF s \in F!Range(forms[n].skus) THEN n ELSE 0
        /\ \A k \in F!Position : db'[F!imageRow(p, k)] = IF k \in 1..forms[n].images THEN n ELSE 0
    <3>1. /\ \A s \in Sku : F!variantRow(p, s) \in F!Row
          /\ \A k \in F!Position : F!imageRow(p, k) \in F!Row
      BY <1>4, RowsApart
    <3>2. PICK f : f = forms[n]
      OBVIOUS
    <3>3. /\ \A s \in Sku : <<"variant", s>> \in Asked(f) <=> s \in F!Range(f.skus)
          /\ \A k \in F!Position : <<"image", k>> \in Asked(f) <=> k \in 1..f.images
      BY AskedFor
    <3> QED
      BY <1>5, <1>7, <3>1, <3>2, <3>3
  <2>2. forms[n].images \in 0..MaxImages /\ MaxImages \in Nat
    <3>1. forms[n] \in FormRow
      BY <1>4, <1>9
    <3> QED
      BY <3>1 DEF StorefrontAssumption, F!BoundAssumption, FormRow
  <2>3. \A k \in F!Position : k \in 1..forms[n].images <=> k <= forms[n].images
    BY <2>2 DEF F!Position
  <2> QED
    BY <1>4, <1>10, <1>13, <1>14, <2>1, <2>3 DEF ProductOK
<1>16. Moves
  <2> SUFFICES ASSUME NEW q \in Product, F!FormsOf(q) # {}, F!Listed(q)'
               PROVE  /\ F!Listed(q) /\ db'[F!productRow(q)].form \in Nat
                      /\ db[F!productRow(q)].form <= db'[F!productRow(q)].form
    BY DEF Moves
  <2>0. F!Listed(q) => db[F!productRow(q)].form \in Nat
    BY <1>9, SavedForm DEF StorefrontInv, ProductOK
  <2>1. CASE q = p
    BY <1>4, <1>9, <1>13, <2>0, <2>1
  <2>2. CASE q # p
    <3>1. db'[F!productRow(q)] = db[F!productRow(q)]
      BY <1>12, <2>2, FormRowsApart DEF Untouched
    <3> QED
      BY <2>0, <3>1 DEF F!Listed
  <2> QED
    BY <2>1, <2>2
<1>17. AdminOK(a)'
  <2>1. F!Idle.pc = "idle" /\ "idle" \notin Writing
    BY DEF F!Idle, Writing
  <2> QED
    BY <1>7, <1>8, <2>1 DEF AdminOK
<1>18. ASSUME NEW b \in Handler \ {a}, frames[b].pc = "insert"
       PROVE  OwnId(b)'
  <2>1. \A m \in 1..Len(forms') : \/ forms'[m].product = frames[a].product
                                  \/ m \in 1..Len(forms) /\ forms'[m].product = forms[m].product
    BY <1>10
  <2> QED
    BY <1>3, <1>8, <1>18, <2>1, OwnIdKeeps
<1>19. \A b \in Handler \ {a} : frames[b].pc \in Writing => frames[b].product # p
  BY <1>4, <1>6, HeldAlone
<1>20. dirty'[Shop] = NoWrites /\ \A b \in Handler : b = a \/ dirty'[b] = dirty[b]
  BY <1>6, <1>7 DEF StorefrontInv
<1> QED
  BY <1>4, <1>6, <1>7, <1>8, <1>11, <1>12, <1>15, <1>16, <1>17, <1>18, <1>19, <1>20, ProductStep

(* A deletion waits for the writers of its product, and leaves no row.     *)
LEMMA DeleteKeeps ==
  ASSUME StorefrontAssumption, StorefrontInv, NEW p \in Product, F!Delete(p)
  PROVE  StorefrontInv'
<1>1. PICK rows : rows = F!DeleteProduct(p)
  OBVIOUS
<1>2. CommitWith(Shop, rows) /\ frames' = frames /\ forms' = forms /\ Shop \in Proc /\ Shop \notin Handler
  BY <1>1, SameStatements DEF StorefrontAssumption, F!HandlerAssumption, F!Delete
<1>3. /\ DOMAIN rows \subseteq F!rowsOf(p)
      /\ F!productRow(p) \in DOMAIN rows /\ rows[F!productRow(p)] = F!NoProduct
      /\ \A s \in Sku : F!variantRow(p, s) \in DOMAIN rows /\ rows[F!variantRow(p, s)] = 0
      /\ \A k \in F!Position : F!imageRow(p, k) \in DOMAIN rows /\ rows[F!imageRow(p, k)] = 0
  <2>1. PICK f, v, i : /\ f = Only(F!productRow(p), F!NoProduct)
                       /\ v = F!DeleteVariantsByProduct(p) /\ i = F!DeleteImagesByProduct(p)
    OBVIOUS
  <2>2. /\ DOMAIN f = {F!productRow(p)} /\ f[F!productRow(p)] = F!NoProduct
        /\ DOMAIN v = F!variantRows(p) /\ \A r \in F!variantRows(p) : v[r] = 0
    BY <2>1, SameStatements DEF Only, F!DeleteVariantsByProduct
  <2>0. /\ F!imageRows(p) \subseteq DOMAIN i /\ DOMAIN i \subseteq F!imageRows(p) \cup F!uploadRows(p)
        /\ \A r \in DOMAIN i : i[r] = 0
    BY <2>1, ImagesDeleted
  <2>3. PICK c : c = Together(v, i)
    OBVIOUS
  <2>4. /\ DOMAIN c = F!variantRows(p) \cup DOMAIN i
        /\ \A r \in F!variantRows(p) \cup DOMAIN i : c[r] = 0
    BY <2>0, <2>2, <2>3 DEF Together
  <2>5. rows = Together(f, c)
    BY <1>1, <2>1, <2>3, SameStatements DEF F!DeleteProduct
  <2>6. /\ DOMAIN rows = {F!productRow(p)} \cup (F!variantRows(p) \cup DOMAIN i)
        /\ \A r \in DOMAIN rows : rows[r] = IF r \in DOMAIN f THEN f[r] ELSE c[r]
    BY <2>2, <2>4, <2>5 DEF Together
  <2>7. /\ \A s \in Sku : F!variantRow(p, s) \in F!variantRows(p) /\ F!variantRow(p, s) # F!productRow(p)
        /\ \A k \in F!Position : F!imageRow(p, k) \in F!imageRows(p) /\ F!imageRow(p, k) # F!productRow(p)
    BY RowKeys DEF F!variantRows, F!imageRows
  <2>8. DOMAIN rows \subseteq F!rowsOf(p)
    BY <2>0, <2>6 DEF F!rowsOf
  <2> QED
    BY <2>0, <2>2, <2>4, <2>6, <2>7, <2>8
<1>4. F!rowsOf(p) \subseteq F!Row
  BY RowsApart
<1>5. /\ StoreOf(F!Row)' /\ LocksExclusive'
      /\ \A r \in F!Row : db'[r] = IF r \in DOMAIN rows THEN rows[r] ELSE Read(Shop, r)
      /\ dirty'[Shop] = NoWrites
      /\ \A b \in Proc \ {Shop} : dirty'[b] = dirty[b]
  BY <1>2, <1>3, <1>4, CommitRows DEF StorefrontInv
<1>6. \A r \in F!Row \ F!rowsOf(p) : db'[r] = db[r]
  <2>1. dirty[Shop] = NoWrites /\ DOMAIN NoWrites = {}
    BY DEF StorefrontInv, NoWrites
  <2> QED
    BY <1>3, <1>5, <2>1 DEF Read
<1>7. \A q : F!FormsOf(q)' = F!FormsOf(q)
  BY <1>2 DEF F!FormsOf
<1>8. forms \in Seq(FormRow) /\ Len(forms) \in Nat
  BY DEF StorefrontInv
<1>9. Keeps
  BY <1>2, <1>8 DEF Keeps
<1>10. \A q \in Product \ {p} : Untouched(q)
  <2>1. \A q \in Product \ {p} : \A r \in FormRows(q) : r \in F!Row \ F!rowsOf(p)
    BY RowsApart, FormRowsApart
  <2> QED
    BY <1>6, <1>7, <2>1 DEF Untouched
<1>11. /\ ~F!Listed(p)'
       /\ \A s \in Sku : db'[F!variantRow(p, s)] = 0
       /\ \A k \in F!Position : db'[F!imageRow(p, k)] = 0
  <2>1. db'[F!productRow(p)] = F!NoProduct
    BY <1>3, <1>4, <1>5, RowsApart
  <2> QED
    BY <1>3, <1>4, <1>5, <2>1, RowsApart DEF F!Listed
<1>12. ProductOK(p)'
  BY <1>11 DEF ProductOK
<1>13. Moves
  <2> SUFFICES ASSUME NEW q \in Product, F!FormsOf(q) # {}, F!Listed(q)'
               PROVE  /\ F!Listed(q) /\ db'[F!productRow(q)].form \in Nat
                      /\ db[F!productRow(q)].form <= db'[F!productRow(q)].form
    BY DEF Moves
  <2>1. F!Listed(q) => db[F!productRow(q)].form \in Nat
    BY <1>8, SavedForm DEF StorefrontInv, ProductOK
  <2>2. q # p
    BY <1>11
  <2>3. db'[F!productRow(q)] = db[F!productRow(q)]
    BY <1>10, <2>2, FormRowsApart DEF Untouched
  <2> QED
    BY <2>1, <2>3 DEF F!Listed
<1>14. ASSUME NEW b \in Handler, frames[b].pc = "insert"
       PROVE  OwnId(b)'
  <2>1. OwnId(b)
    BY <1>14 DEF StorefrontInv, AdminOK, OwnId
  <2> QED
    BY <1>2, <2>1 DEF OwnId
<1>15. ASSUME NEW b \in Handler, frames[b].pc \in Writing
       PROVE  frames[b].product # p
  <2>1. Unlocked(Shop, F!productRow(p))
    BY <1>2, <1>3, RowsApart DEF CommitWith
  <2> QED
    BY <1>2, <1>15, <2>1, HeldAlone
<1>16. \A b \in Handler : dirty'[b] = dirty[b]
  BY <1>2, <1>5 DEF StorefrontAssumption, F!HandlerAssumption
<1>17. Shop \in Reader => ReaderOK(Shop)'
  BY <1>2, <1>9, <1>13, ReaderKeeps
<1> QED
  BY <1>2, <1>5, <1>9, <1>10, <1>12, <1>13, <1>14, <1>15, <1>16, <1>17, ProductStep

(* An upload is a row of its own.                                          *)
LEMMA UploadedKeeps ==
  ASSUME StorefrontAssumption, StorefrontInv, NEW p \in Product, NEW i \in Image, F!AttachImage(p, i)
  PROVE  StorefrontInv'
<1>1. PICK rows : rows = Only(F!uploadRow(p, i), 1)
  OBVIOUS
<1>2. CommitWith(Shop, rows) /\ frames' = frames /\ forms' = forms /\ Shop \in Proc /\ Shop \notin Handler
  BY <1>1, SameStatements DEF StorefrontAssumption, F!HandlerAssumption, F!AttachImage
<1>3. DOMAIN rows \subseteq F!uploadRows(p) /\ DOMAIN rows \subseteq F!Row
  <2>1. DOMAIN rows = {F!uploadRow(p, i)} /\ F!uploadRow(p, i) \in F!uploadRows(p)
    BY <1>1 DEF Only, F!uploadRows
  <2> QED
    BY <2>1, RowsApart, FormRowsApart
<1>4. /\ StoreOf(F!Row)' /\ LocksExclusive'
      /\ \A r \in F!Row : db'[r] = IF r \in DOMAIN rows THEN rows[r] ELSE Read(Shop, r)
      /\ dirty'[Shop] = NoWrites
      /\ \A b \in Proc \ {Shop} : dirty'[b] = dirty[b]
  BY <1>2, <1>3, CommitRows DEF StorefrontInv
<1>5. \A r \in F!Row \ F!uploadRows(p) : db'[r] = db[r]
  <2>1. dirty[Shop] = NoWrites /\ DOMAIN NoWrites = {}
    BY DEF StorefrontInv, NoWrites
  <2> QED
    BY <1>3, <1>4, <2>1 DEF Read
<1>6. \A q : F!FormsOf(q)' = F!FormsOf(q)
  BY <1>2 DEF F!FormsOf
<1>7. forms \in Seq(FormRow) /\ Len(forms) \in Nat
  BY DEF StorefrontInv
<1>8. Keeps
  BY <1>2, <1>7 DEF Keeps
<1>9. ASSUME NEW q \in Product
      PROVE  Untouched(q) /\ db'[F!productRow(q)] = db[F!productRow(q)]
  <2>1. \A r \in FormRows(q) : r \in F!Row \ F!uploadRows(p)
    BY RowsApart, FormRowsApart
  <2> QED
    BY <1>5, <1>6, <2>1, FormRowsApart DEF Untouched
<1>10. \A q \in Product : F!Listed(q) => db[F!productRow(q)].form \in Nat
  BY <1>7, SavedForm DEF StorefrontInv, ProductOK
<1>11. Moves
  BY <1>9, <1>10 DEF Moves, F!Listed
<1>12. \A q \in Product : ProductOK(q)'
  BY <1>8, <1>9, ProductKeeps
<1>13. ASSUME NEW b \in Handler, frames[b].pc = "insert"
       PROVE  OwnId(b)'
  <2>1. OwnId(b)
    BY <1>13 DEF StorefrontInv, AdminOK, OwnId
  <2> QED
    BY <1>2, <2>1 DEF OwnId
<1>14. \A b \in Handler : dirty'[b] = dirty[b]
  BY <1>2, <1>4 DEF StorefrontAssumption, F!HandlerAssumption
<1>15. Shop \in Reader => ReaderOK(Shop)'
  BY <1>2, <1>8, <1>11, ReaderKeeps
<1> QED
  BY <1>2, <1>4, <1>8, <1>9, <1>11, <1>12, <1>13, <1>14, <1>15, ProductStep

-------------------------------------------------------------------------------
(* A reader writes nothing, and only its own frame changes.                *)
LEMMA ReadStep ==
  ASSUME StorefrontAssumption,
         StorefrontInv, NEW r \in Reader, NEW frame, F!Goto(r, frame), NoStatement, forms' = forms,
         frames'[r] = frame => ReaderOK(r)'
  PROVE  StorefrontInv'
<1>1. /\ DOMAIN frames' = DOMAIN frames /\ frames'[r] = frame
      /\ \A b \in Handler \cup Reader : b = r \/ frames'[b] = frames[b]
  BY GotoFrame DEF StorefrontInv
<1>2. /\ StoreOf(F!Row)' /\ LocksExclusive' /\ db' = db /\ dirty' = dirty
      /\ dirty'[Shop] = NoWrites
  BY StoreSame
<1>3. /\ Keeps /\ Moves
      /\ \A q \in Product : Untouched(q) /\ ProductOK(q)'
  BY <1>2, NothingSaved
<1>4. r \notin Handler
  BY DEF StorefrontAssumption, F!HandlerAssumption
<1>5. ASSUME NEW b \in Handler
      PROVE  AdminOK(b)'
  <2>1. frames'[b] = frames[b] /\ dirty'[b] = dirty[b] /\ AdminOK(b)
    BY <1>1, <1>2, <1>4 DEF StorefrontInv
  <2>2. frames[b].pc = "insert" => OwnId(b)'
    BY <1>1, <1>4, <2>1 DEF AdminOK, OwnId
  <2>3. frames[b].pc \in Writing => Untouched(frames[b].product)
    BY <1>3, <2>1, AdminCases DEF WriterOK
  <2> QED
    BY <1>3, <2>1, <2>2, <2>3, AdminKeeps
<1>6. ASSUME NEW q \in Reader
      PROVE  ReaderOK(q)'
  BY <1>1, <1>3, ReaderKeeps
<1> QED
  BY <1>1, <1>2, <1>3, <1>5, <1>6 DEF StorefrontInv, Keeps

(* A product on a page stays one that was saved.                           *)
LEMMA SameShown ==
  ASSUME UNCHANGED <<db, forms>>
  PROVE  /\ \A i : ItemOK(i)' <=> ItemOK(i)
         /\ \A i : ShownOK(i)' <=> ShownOK(i)
BY DEF ItemOK, ShownOK, F!FormsOf, F!Listed, F!VariantsOf, F!SkusOf, F!ImagesOf, F!FormImages

(* The SELECT of a page finds products that have been saved.               *)
LEMMA SelectKeeps ==
  ASSUME StorefrontAssumption, StorefrontInv, NEW r \in Reader, NEW ids \in Seq(Product),
         \A k \in 1..Len(ids) : F!Listed(ids[k]), F!Select(r, ids)
  PROVE  StorefrontInv'
<1>1. PICK todo : todo = [k \in 1..Len(ids) |-> [id |-> ids[k], row |-> db[F!productRow(ids[k])].form]]
  OBVIOUS
<1>2. PICK frame : frame = [pc |-> "variants", todo |-> todo, shown |-> <<>>]
  OBVIOUS
<1>3. F!Goto(r, frame) /\ NoStatement /\ forms' = forms
  BY <1>1, <1>2, SameStatements DEF F!Select
<1>4. ASSUME NEW k \in 1..Len(ids)
      PROVE  todo[k] \in Item /\ ItemOK(todo[k])
  <2>1. PICK i : i = todo[k]
    OBVIOUS
  <2>2. /\ i.id = ids[k] /\ i.row = db[F!productRow(ids[k])].form /\ ids[k] \in Product
        /\ i = [id |-> ids[k], row |-> db[F!productRow(ids[k])].form]
    BY <1>1, <2>1
  <2>3. F!Listed(ids[k]) /\ db[F!productRow(ids[k])].form \in F!FormsOf(ids[k])
    BY <2>2 DEF StorefrontInv, ProductOK
  <2>4. db[F!productRow(ids[k])].form \in Nat
    BY <2>3, SavedForm DEF StorefrontInv
  <2> QED
    BY <2>1, <2>2, <2>3, <2>4 DEF Item, ItemOK
<1>5. todo \in Seq(Item) /\ DOMAIN todo = 1..Len(ids)
  BY <1>1, <1>4
<1>6. \A i \in F!Range(todo) : ItemOK(i)
  BY <1>4, <1>5 DEF F!Range
<1>7. ASSUME frames'[r] = frame
      PROVE  ReaderOK(r)'
  <2>1. /\ frame.pc = "variants" /\ frame.todo = todo /\ frame.shown = <<>>
        /\ frame \in [pc : {"variants", "images"}, todo : Seq(Item), shown : Seq(ShownItem)]
    BY <1>2, <1>5
  <2>2. F!Range(<<>>) = {}
    BY DEF F!Range
  <2>3. \A i : ItemOK(i)' <=> ItemOK(i)
    BY <1>3, SameShown DEF NoStatement
  <2> QED
    BY <1>6, <1>7, <2>1, <2>2, <2>3 DEF ReaderOK
<1> QED
  BY <1>3, <1>7, ReadStep

(* What a reader that is on a page holds.                                  *)
LEMMA OnPage ==
  ASSUME StorefrontInv, NEW r \in Reader, frames[r].pc # "idle"
  PROVE  /\ frames[r] \in [pc : {"variants", "images"}, todo : Seq(Item), shown : Seq(ShownItem)]
         /\ frames[r].pc = "images" => frames[r].shown # <<>>
         /\ \A i \in F!Range(frames[r].todo) : ItemOK(i)
         /\ \A i \in F!Range(frames[r].shown) : ShownOK(i)
BY DEF StorefrontInv, ReaderOK, F!Idle

(* The variants of a product are those of the form its row is from.        *)
LEMMA ReadVariants ==
  ASSUME StorefrontInv, NEW p \in Product
  PROVE  IF F!Listed(p) THEN F!ListVariantsByProduct(p) = F!VariantsOf(db[F!productRow(p)].form)
         ELSE F!ListVariantsByProduct(p) = {}
<1>1. PICK n : n = db[F!productRow(p)].form
  OBVIOUS
<1>2. \A s \in Sku : db[F!variantRow(p, s)] = IF F!Listed(p) /\ s \in F!Range(forms[n].skus) THEN n ELSE 0
  BY <1>1 DEF StorefrontInv, ProductOK
<1>3. CASE F!Listed(p)
  <2>1. n \in 1..Len(forms) /\ n \in Nat /\ n > 0 /\ forms[n] \in FormRow
    BY <1>1, <1>3, SavedForm DEF StorefrontInv, ProductOK
  <2>2. F!Range(forms[n].skus) \subseteq Sku
    BY <2>1, HeldIn DEF FormRow
  <2>3. {t \in Sku : db[F!variantRow(p, t)] > 0} = F!Range(forms[n].skus)
    BY <1>2, <1>3, <2>1, <2>2
  <2> QED
    BY <1>1, <1>2, <1>3, <2>2, <2>3 DEF F!ListVariantsByProduct, F!VariantsOf, F!SkusOf, F!Range
<1>4. CASE ~F!Listed(p)
  <2>1. {t \in Sku : db[F!variantRow(p, t)] > 0} = {}
    BY <1>2, <1>4
  <2> QED
    BY <1>4, <2>1 DEF F!ListVariantsByProduct
<1> QED
  BY <1>3, <1>4

(* So are its images, but for the uploads.                                 *)
LEMMA ReadImages ==
  ASSUME StorefrontAssumption, StorefrontInv, NEW p \in Product,
         NEW is, is = F!ListImagesByProduct(p)
  PROVE  /\ is \subseteq (F!Position \cup Image) \X Nat
         /\ IF F!Listed(p) THEN {m \in is : m[2] # 0} = F!ImagesOf(db[F!productRow(p)].form)
            ELSE {m \in is : m[2] # 0} = {}
<1>1. PICK n : n = db[F!productRow(p)].form
  OBVIOUS
<1>2. \A k \in F!Position : db[F!imageRow(p, k)] = IF F!Listed(p) /\ k <= forms[n].images THEN n ELSE 0
  BY <1>1 DEF StorefrontInv, ProductOK
<1>3. PICK old : old = {<<k, db[F!imageRow(p, k)]>> : k \in {j \in F!Position : db[F!imageRow(p, j)] > 0}}
  OBVIOUS
<1>4. is = old \cup {<<i, 0>> : i \in F!Uploads(p)}
  BY <1>3 DEF F!ListImagesByProduct, F!NoForm
<1>5. CASE F!Listed(p)
  <2>1. n \in 1..Len(forms) /\ n \in Nat /\ n > 0 /\ forms[n] \in FormRow
    BY <1>1, <1>5, SavedForm DEF StorefrontInv, ProductOK
  <2>2. PICK m : m = forms[n].images
    OBVIOUS
  <2>3. m \in Nat /\ MaxImages \in Nat /\ m <= MaxImages
    BY <2>1, <2>2 DEF StorefrontAssumption, F!BoundAssumption, FormRow
  <2>4. {j \in F!Position : db[F!imageRow(p, j)] > 0} = 1..m
    BY <1>2, <1>5, <2>1, <2>2, <2>3 DEF F!Position
  <2>5. \A k \in 1..m : db[F!imageRow(p, k)] = n
    BY <1>2, <1>5, <2>2, <2>3 DEF F!Position
  <2>6. old = F!ImagesOf(n)
    BY <1>3, <2>2, <2>4, <2>5 DEF F!ImagesOf
  <2>7. 1..m \subseteq F!Position /\ old \subseteq F!Position \X Nat /\ \A x \in old : x[2] = n
    BY <2>1, <2>2, <2>3, <2>6 DEF F!ImagesOf, F!Position
  <2>8. n # 0
    BY <2>1
  <2>9. is \subseteq (F!Position \cup Image) \X Nat
    BY <1>4, <2>7 DEF F!Uploads
  <2>10. {x \in is : x[2] # 0} = old
    BY <1>4, <2>7, <2>8
  <2> QED
    BY <1>1, <1>5, <2>6, <2>9, <2>10
<1>6. CASE ~F!Listed(p)
  <2>1. {j \in F!Position : db[F!imageRow(p, j)] > 0} = {}
    BY <1>2, <1>6
  <2>2. old = {}
    BY <1>3, <2>1
  <2>3. is \subseteq (F!Position \cup Image) \X Nat /\ {x \in is : x[2] # 0} = {}
    BY <1>4, <2>2 DEF F!Uploads
  <2> QED
    BY <1>6, <2>3
<1> QED
  BY <1>5, <1>6

(* The next row of the page gets the variants of this moment.              *)
LEMMA HydrateVariantsKeeps ==
  ASSUME StorefrontAssumption, StorefrontInv, NEW r \in Reader, F!HydrateVariants(r)
  PROVE  StorefrontInv'
<1>1. PICK todo, shown, item : todo = frames[r].todo /\ shown = frames[r].shown /\ item = Head(todo)
  OBVIOUS
<1>2. PICK vs : vs = F!ListVariantsByProduct(item.id)
  OBVIOUS
<1>3. PICK i : i = F!mapProduct(item, vs, {})
  OBVIOUS
<1>4. PICK frame : frame = [pc |-> "images", todo |-> Tail(todo), shown |-> Append(shown, i)]
  OBVIOUS
<1>5. /\ frames[r].pc = "variants" /\ todo # <<>> /\ F!Goto(r, frame)
      /\ NoStatement /\ forms' = forms
  BY <1>1, <1>2, <1>3, <1>4, SameStatements DEF F!HydrateVariants
<1>6. /\ todo \in Seq(Item) /\ shown \in Seq(ShownItem)
      /\ \A j \in F!Range(todo) : ItemOK(j)
      /\ \A j \in F!Range(shown) : ShownOK(j)
  BY <1>1, <1>5, OnPage
<1>7. /\ item \in Item /\ ItemOK(item) /\ Tail(todo) \in Seq(Item)
      /\ \A j \in F!Range(Tail(todo)) : ItemOK(j)
  <2>1. /\ Len(todo) \in Nat /\ Len(todo) > 0 /\ DOMAIN todo = 1..Len(todo)
        /\ item = todo[1] /\ Tail(todo) \in Seq(Item)
        /\ DOMAIN Tail(todo) = 1..(Len(todo) - 1)
        /\ \A k \in 1..(Len(todo) - 1) : Tail(todo)[k] = todo[k + 1] /\ k + 1 \in 1..Len(todo)
    BY <1>1, <1>5, <1>6
  <2>2. item \in Item /\ item \in F!Range(todo)
    BY <1>6, <2>1 DEF F!Range
  <2>3. F!Range(Tail(todo)) \subseteq F!Range(todo)
    BY <2>1 DEF F!Range
  <2> QED
    BY <1>6, <2>1, <2>2, <2>3
<1>8. /\ i.id = item.id /\ i.row = item.row /\ i.variants = vs /\ i.images = {}
      /\ i = [id |-> item.id, row |-> item.row, variants |-> vs, images |-> {}]
  BY <1>3 DEF F!mapProduct
<1>9. PICK p : p = item.id
  OBVIOUS
<1>10. /\ p \in Product /\ item.row \in Nat /\ F!FormsOf(p) # {}
       /\ F!Listed(p) => item.row <= db[F!productRow(p)].form
  BY <1>7, <1>9 DEF Item, ItemOK
<1>11. PICK n : n = db[F!productRow(p)].form
  OBVIOUS
<1>12. IF F!Listed(p) THEN vs = F!VariantsOf(n) ELSE vs = {}
  BY <1>2, <1>9, <1>10, <1>11, ReadVariants
<1>13. F!Listed(p) => n \in F!FormsOf(p) /\ n \in Nat /\ forms[n] \in FormRow
  BY <1>10, <1>11, SavedForm DEF StorefrontInv, ProductOK
<1>14. ShownOK(i)
  <2>1. ItemOK(i)
    BY <1>8, <1>9, <1>10 DEF ItemOK
  <2>2. F!Listed(p) => item.row <= n
    BY <1>10, <1>11
  <2> QED
    BY <1>8, <1>9, <1>11, <1>12, <1>13, <2>1, <2>2 DEF ShownOK, F!FormImages
<1>15. i \in ShownItem
  <2>1. vs \subseteq Sku \X Nat
    <3>1. CASE F!Listed(p)
      <4>1. F!Range(forms[n].skus) \subseteq Sku
        BY <1>13, <3>1, HeldIn DEF FormRow
      <4> QED
        BY <1>12, <1>13, <3>1, <4>1 DEF F!VariantsOf, F!SkusOf, F!Range
    <3> QED
      BY <1>12, <3>1
  <2> QED
    BY <1>8, <1>9, <1>10, <2>1 DEF ShownItem
<1>16. /\ Append(shown, i) \in Seq(ShownItem) /\ Append(shown, i) # <<>>
       /\ \A j \in F!Range(Append(shown, i)) : ShownOK(j)
  <2>1. PICK s : s = Append(shown, i)
    OBVIOUS
  <2>2. /\ s \in Seq(ShownItem) /\ s # <<>> /\ DOMAIN s = 1..(Len(shown) + 1) /\ Len(shown) \in Nat
        /\ DOMAIN shown = 1..Len(shown)
        /\ \A k \in 1..Len(shown) : s[k] = shown[k]
        /\ s[Len(shown) + 1] = i
    BY <1>6, <1>15, <2>1
  <2>3. ASSUME NEW k \in 1..(Len(shown) + 1)
        PROVE  ShownOK(s[k])
    <3>1. k \in 1..Len(shown) \/ k = Len(shown) + 1
      BY <2>2
    <3>2. CASE k \in 1..Len(shown)
      <4>1. shown[k] \in F!Range(shown)
        BY <2>2, <3>2 DEF F!Range
      <4> QED
        BY <1>6, <2>2, <3>2, <4>1
    <3>3. CASE k = Len(shown) + 1
      BY <1>14, <2>2, <3>3
    <3> QED
      BY <3>1, <3>2, <3>3
  <2> QED
    BY <2>1, <2>2, <2>3 DEF F!Range
<1>17. ASSUME frames'[r] = frame
       PROVE  ReaderOK(r)'
  <2>1. /\ frame.pc = "images" /\ frame.todo = Tail(todo) /\ frame.shown = Append(shown, i)
        /\ frame \in [pc : {"variants", "images"}, todo : Seq(Item), shown : Seq(ShownItem)]
    BY <1>4, <1>7, <1>16
  <2>2. /\ \A j : ItemOK(j)' <=> ItemOK(j)
        /\ \A j : ShownOK(j)' <=> ShownOK(j)
    BY <1>5, SameShown DEF NoStatement
  <2> QED
    BY <1>7, <1>16, <1>17, <2>1, <2>2 DEF ReaderOK
<1> QED
  BY <1>5, <1>17, ReadStep

(* Then the images, of this moment or of none.                             *)
LEMMA HydrateImagesKeeps ==
  ASSUME StorefrontAssumption, StorefrontInv, NEW r \in Reader, F!HydrateImages(r)
  PROVE  StorefrontInv'
<1>1. PICK todo, shown, last : todo = frames[r].todo /\ shown = frames[r].shown /\ last = Len(shown)
  OBVIOUS
<1>2. PICK i : i = shown[last]
  OBVIOUS
<1>3. PICK is : is = F!ListImagesByProduct(i.id)
  OBVIOUS
<1>4. PICK frame : frame = [frames[r] EXCEPT !.pc = "variants", !.shown[Len(frames[r].shown)].images = is]
  OBVIOUS
<1>5. frames[r].pc = "images" /\ F!Goto(r, frame) /\ NoStatement /\ forms' = forms
  BY <1>1, <1>2, <1>3, <1>4, SameStatements DEF F!HydrateImages, F!Last
<1>6. /\ frames[r] \in [pc : {"variants", "images"}, todo : Seq(Item), shown : Seq(ShownItem)]
      /\ todo \in Seq(Item) /\ shown \in Seq(ShownItem) /\ shown # <<>>
      /\ \A j \in F!Range(todo) : ItemOK(j)
      /\ \A j \in F!Range(shown) : ShownOK(j)
  BY <1>1, <1>5, OnPage
<1>7. /\ last \in Nat /\ last \in 1..last /\ DOMAIN shown = 1..last
      /\ i \in ShownItem
  BY <1>1, <1>2, <1>6
<1>8. ShownOK(i)
  <2>1. i \in F!Range(shown)
    BY <1>2, <1>7 DEF F!Range
  <2> QED
    BY <1>6, <2>1
<1>9. PICK j : j = [i EXCEPT !.images = is]
  OBVIOUS
<1>10. /\ i.id \in Product /\ i.row \in Nat
       /\ i.variants \subseteq Sku \X Nat
       /\ j.id = i.id /\ j.row = i.row /\ j.variants = i.variants /\ j.images = is
       /\ j = [id |-> i.id, row |-> i.row, variants |-> i.variants, images |-> is]
  BY <1>7, <1>9 DEF ShownItem
<1>11. PICK p, m : p = i.id /\ m = db[F!productRow(p)].form
  OBVIOUS
<1>12. /\ is \subseteq (F!Position \cup Image) \X Nat
       /\ IF F!Listed(p) THEN F!FormImages(j) = F!ImagesOf(m) ELSE F!FormImages(j) = {}
  <2>1. F!FormImages(j) = {x \in is : x[2] # 0}
    BY <1>10 DEF F!FormImages, F!NoForm
  <2> QED
    BY <1>3, <1>10, <1>11, <2>1, ReadImages
<1>13. F!Listed(p) => m \in F!FormsOf(p) /\ m \in Nat /\ forms[m] \in FormRow
  BY <1>10, <1>11, SavedForm DEF StorefrontInv, ProductOK
<1>14. ShownOK(j)
  <2>1. ItemOK(j)
    BY <1>8, <1>10 DEF ShownOK, ItemOK
  <2>2. \/ j.variants = {} /\ ~F!Listed(p)
        \/ \E n \in F!FormsOf(p) : /\ j.variants = F!VariantsOf(n) /\ j.row <= n
                                   /\ F!Listed(p) => n <= m
    BY <1>8, <1>10, <1>11 DEF ShownOK
  <2>3. F!Listed(p) => \A v \in j.variants : v[2] <= m
    <3>1. SUFFICES ASSUME F!Listed(p)
                   PROVE  \A v \in j.variants : v[2] <= m
      OBVIOUS
    <3>2. PICK n \in F!FormsOf(p) : j.variants = F!VariantsOf(n) /\ n <= m
      BY <2>2, <3>1
    <3>3. \A v \in F!VariantsOf(n) : v[2] = n
      BY DEF F!VariantsOf
    <3> QED
      BY <3>2, <3>3
  <2>4. \/ F!FormImages(j) = {}
        \/ \E k \in F!FormsOf(p) : F!FormImages(j) = F!ImagesOf(k) /\ \A v \in j.variants : v[2] <= k
    BY <1>10, <1>12, <1>13, <2>3
  <2> QED
    BY <1>10, <1>11, <2>1, <2>2, <2>4 DEF ShownOK
<1>15. j \in ShownItem
  BY <1>10, <1>12 DEF ShownItem
<1>16. PICK now : now = [shown EXCEPT ![last] = j]
  OBVIOUS
<1>17. /\ now \in Seq(ShownItem) /\ \A k \in F!Range(now) : ShownOK(k)
  <2>1. /\ now \in Seq(ShownItem) /\ DOMAIN now = 1..last
        /\ \A k \in 1..last : now[k] = IF k = last THEN j ELSE shown[k]
    BY <1>1, <1>6, <1>7, <1>15, <1>16
  <2>2. \A k \in 1..last : shown[k] \in F!Range(shown)
    BY <1>7 DEF F!Range
  <2> QED
    BY <1>6, <1>14, <2>1, <2>2 DEF F!Range
<1>18. frame.pc = "variants" /\ frame.todo = todo /\ frame.shown = now
       /\ frame \in [pc : {"variants", "images"}, todo : Seq(Item), shown : Seq(ShownItem)]
  <2>1. now = [shown EXCEPT ![last].images = is]
    BY <1>2, <1>9, <1>16
  <2>2. frame = [frames[r] EXCEPT !.pc = "variants", !.shown = now]
    BY <1>1, <1>4, <2>1
  <2> QED
    BY <1>1, <1>6, <1>17, <2>2
<1>19. ASSUME frames'[r] = frame
       PROVE  ReaderOK(r)'
  <2>1. /\ \A k : ItemOK(k)' <=> ItemOK(k)
        /\ \A k : ShownOK(k)' <=> ShownOK(k)
    BY <1>5, SameShown DEF NoStatement
  <2> QED
    BY <1>6, <1>17, <1>18, <1>19, <2>1 DEF ReaderOK
<1> QED
  BY <1>5, <1>19, ReadStep

(* The page is answered.                                                   *)
LEMMA AnswerKeeps ==
  ASSUME StorefrontAssumption, StorefrontInv, NEW r \in Reader, F!Answer(r)
  PROVE  StorefrontInv'
<1>1. F!Goto(r, F!Idle) /\ NoStatement /\ forms' = forms
  BY SameStatements DEF F!Answer, F!Done
<1>2. frames'[r] = F!Idle => ReaderOK(r)'
  BY DEF ReaderOK
<1> QED
  BY <1>1, <1>2, ReadStep

(* Every way to a page.                                                    *)
LEMMA PageKeeps ==
  ASSUME StorefrontAssumption,
         StorefrontInv, NEW r \in Reader, NEW S \in SUBSET Product, \A p \in S : F!Listed(p),
         NEW limit, NEW ids \in F!Newest(S, limit), F!Select(r, ids)
  PROVE  StorefrontInv'
<1>1. ids \in Seq(S)
  <2>1. PICK m \in 0..limit : ids \in [1..m -> S]
    BY DEF F!Newest, F!BoundedSeq, F!SeqOf
  <2> QED
    BY <2>1
<1>2. ids \in Seq(Product) /\ \A k \in 1..Len(ids) : F!Listed(ids[k])
  BY <1>1
<1> QED
  BY <1>2, SelectKeeps

(* The published ones, all or of one category.                             *)
LEMMA ListPublishedKeeps ==
  ASSUME StorefrontAssumption,
         StorefrontInv, NEW r \in Reader, NEW f, NEW n, F!ListPublished(r, f, n)
  PROVE  StorefrontInv'
<1>1. PICK S : S = {p \in F!Published : f \in {"any", db[F!productRow(p)].tag}}
  OBVIOUS
<1>2. S \in SUBSET Product /\ \A p \in S : F!Listed(p)
  BY <1>1 DEF F!Published
<1>3. \E ids \in F!Newest(S, n) : F!Select(r, ids)
  BY <1>1 DEF F!ListPublished, F!ListPublishedProducts
<1> QED
  BY <1>2, <1>3, PageKeeps

(* Those a search term finds.                                              *)
LEMMA SearchKeeps ==
  ASSUME StorefrontAssumption, StorefrontInv, NEW r \in Reader, NEW t, NEW n, F!Search(r, t, n)
  PROVE  StorefrontInv'
<1>1. PICK S : S = {p \in F!Published : db[F!productRow(p)].tag = t}
  OBVIOUS
<1>2. S \in SUBSET Product /\ \A p \in S : F!Listed(p)
  BY <1>1 DEF F!Published
<1>3. \E ids \in F!Newest(S, n) : F!Select(r, ids)
  BY <1>1 DEF F!Search, F!SearchProducts
<1> QED
  BY <1>2, <1>3, PageKeeps

(* One product, by its slug.                                               *)
LEMMA GetBySlugKeeps ==
  ASSUME StorefrontAssumption, StorefrontInv, NEW r \in Reader, NEW s, F!GetBySlug(r, s)
  PROVE  StorefrontInv'
<1>1. PICK p \in Product : F!Listed(p) /\ F!Select(r, <<p>>)
  BY DEF F!GetBySlug, F!GetProductBySlug
<1>2. <<p>> \in Seq(Product) /\ \A k \in 1..Len(<<p>>) : F!Listed(<<p>>[k])
  BY <1>1
<1> QED
  BY <1>1, <1>2, SelectKeeps

-------------------------------------------------------------------------------
(* Nothing is listed, and nobody is under way.                             *)
LEMMA StorefrontStarts ==
  ASSUME StorefrontAssumption, F!Init
  PROVE  StorefrontInv
<1>1. DOMAIN NoWrites = {} /\ \A p \in Proc : dirty[p] = NoWrites
  BY SameStatements DEF F!Init, NoWrites
<1>2. StoreOf(F!Row) /\ LocksExclusive
  BY <1>1, SameStatements DEF F!Init, StoreOf, LocksExclusive
<1>3. forms = <<>> /\ forms \in Seq(FormRow)
  BY SameStatements DEF F!Init
<1>4. \A r \in F!Row : db[r] = IF r[1] = "product" THEN F!NoProduct ELSE 0
  BY SameStatements DEF F!Init
<1>5. ASSUME NEW p \in Product
      PROVE  ProductOK(p)
  <2>1. ~F!Listed(p)
    BY <1>4, RowKeys, RowsApart DEF F!Listed
  <2>2. \A s \in Sku : db[F!variantRow(p, s)] = 0
    BY <1>4, RowKeys, RowsApart
  <2>3. \A k \in F!Position : db[F!imageRow(p, k)] = 0
    BY <1>4, RowKeys, RowsApart
  <2> QED
    BY <2>1, <2>2, <2>3 DEF ProductOK
<1>6. DOMAIN frames = Handler \cup Reader /\ \A h \in Handler \cup Reader : frames[h] = F!Idle
  BY SameStatements DEF F!Init
<1>7. F!Idle.pc = "idle" /\ "idle" \notin Writing
  BY DEF F!Idle, Writing
<1>8. \A a \in Handler : AdminOK(a)
  BY <1>1, <1>6, <1>7 DEF StorefrontAssumption, F!HandlerAssumption, AdminOK
<1>9. \A r \in Reader : ReaderOK(r)
  BY <1>6 DEF ReaderOK
<1> QED
  BY <1>1, <1>2, <1>3, <1>5, <1>6, <1>8, <1>9 DEF StorefrontAssumption, F!HandlerAssumption,
     StorefrontInv

(* Every step keeps it.                                                    *)
LEMMA StorefrontKeeps ==
  ASSUME StorefrontAssumption, StorefrontInv, [F!Next]_(F!vars)
  PROVE  StorefrontInv'
<1>1. ASSUME NEW a \in Handler, NEW p \in Product, NEW f \in Form, F!Post(a, p, f) \/ F!Put(a, p, f)
      PROVE  StorefrontInv'
  BY <1>1, PostKeeps, PutKeeps
<1>2. ASSUME NEW a \in Handler, F!InsertProduct(a)
      PROVE  StorefrontInv'
  BY <1>2, InsertKeeps
<1>3. ASSUME NEW a \in Handler, F!ReplaceProduct(a)
      PROVE  StorefrontInv'
  BY <1>3, ReplaceKeeps
<1>4. ASSUME NEW a \in Handler, F!ClearVariants(a) \/ F!ClearImages(a)
      PROVE  StorefrontInv'
  BY <1>4, ClearVariantsKeeps, ClearImagesKeeps
<1>5. ASSUME NEW a \in Handler, F!PersistChild(a)
      PROVE  StorefrontInv'
  BY <1>5, PersistChildKeeps
<1>6. ASSUME NEW a \in Handler, F!CommitProduct(a)
      PROVE  StorefrontInv'
  BY <1>6, CommitFormKeeps
<1>7. ASSUME NEW a \in Handler, F!Abort(a)
      PROVE  StorefrontInv'
  BY <1>7, FailsKeeps DEF F!Abort
<1>8. ASSUME NEW p \in Product, F!Delete(p) \/ \E i \in Image : F!AttachImage(p, i)
      PROVE  StorefrontInv'
  BY <1>8, DeleteKeeps, UploadedKeeps
<1>9. ASSUME NEW r \in Reader, NEW t, NEW n, F!Search(r, t, n) \/ \E f \in {t, "any"} : F!ListPublished(r, f, n)
      PROVE  StorefrontInv'
  BY <1>9, SearchKeeps, ListPublishedKeeps
<1>10. ASSUME NEW r \in Reader, NEW s, F!GetBySlug(r, s)
       PROVE  StorefrontInv'
  BY <1>10, GetBySlugKeeps
<1>11. ASSUME NEW r \in Reader, F!HydrateVariants(r) \/ F!HydrateImages(r) \/ F!Answer(r)
       PROVE  StorefrontInv'
  BY <1>11, HydrateVariantsKeeps, HydrateImagesKeeps, AnswerKeeps
<1>12. CASE UNCHANGED F!vars
  <2>1. NoStatement /\ UNCHANGED <<db, forms>> /\ frames' = frames
    BY <1>12 DEF F!vars, NoStatement
  <2>2. /\ StoreOf(F!Row)' /\ LocksExclusive' /\ dirty' = dirty /\ dirty'[Shop] = NoWrites
    BY <2>1, StoreSame
  <2>3. /\ Keeps /\ Moves
        /\ \A q \in Product : Untouched(q) /\ ProductOK(q)'
    BY <2>1, NothingSaved
  <2>4. ASSUME NEW b \in Handler
        PROVE  AdminOK(b)'
    <3>1. frames'[b] = frames[b] /\ dirty'[b] = dirty[b] /\ AdminOK(b)
      BY <2>1, <2>2 DEF StorefrontInv
    <3>2. frames[b].pc = "insert" => OwnId(b)'
      BY <2>1, <3>1 DEF AdminOK, OwnId
    <3>3. frames[b].pc \in Writing => Untouched(frames[b].product)
      BY <2>3, <3>1, AdminCases DEF WriterOK
    <3> QED
      BY <2>3, <3>1, <3>2, <3>3, AdminKeeps
  <2>5. \A r \in Reader : ReaderOK(r)'
    BY <2>1, <2>3, ReaderKeeps
  <2> QED
    BY <2>1, <2>2, <2>3, <2>4, <2>5 DEF StorefrontInv, Keeps
<1> QED
  BY <1>1, <1>2, <1>3, <1>4, <1>5, <1>6, <1>7, <1>8, <1>9, <1>10, <1>11, <1>12 DEF F!Next

(* What Page says of a page is what the storefront's rows and forms say.   *)
LEMMA SamePage ==
  /\ \A p : F!Listed(p) <=> Listed(p)
  /\ \A p : F!FormsOf(p) = FormsOf(p)
  /\ \A n : F!VariantsOf(n) = VariantsOf(n) /\ F!ImagesOf(n) = ImagesOf(n)
  /\ \A i : F!FormImages(i) = FormImages(i)
BY DEF F!Listed, Listed, F!productRow, productRow, F!NoProduct, NoProduct, F!FormsOf, FormsOf,
       F!VariantsOf, VariantsOf, F!SkusOf, SkusOf, F!ImagesOf, ImagesOf,
       F!FormImages, FormImages, F!NoForm, NoForm

(* What is on a page is what a reader holds.                               *)
LEMMA ShownHeld ==
  ASSUME StorefrontInv, NEW i \in Shown
  PROVE  ShownOK(i) /\ i.row \in Nat
<1>1. PICK r \in Reader : frames[r] # F!Idle /\ i \in F!Range(frames[r].shown)
  BY DEF Shown, F!Idle, F!Range
<1>2. frames[r].shown \in Seq(ShownItem) /\ ShownOK(i)
  BY <1>1 DEF StorefrontInv, ReaderOK
<1>3. i \in ShownItem
  BY <1>1, <1>2, HeldIn
<1> QED
  BY <1>2, <1>3 DEF ShownItem

(* A writer has written what it is not still to write, alone on its        *)
(* product; the committed rows of a product are those of one saved form;   *)
(* and what a page shows comes from forms that were saved.                 *)
THEOREM StorefrontInvariant ==
  ASSUME StorefrontAssumption
  PROVE  F!Spec => []StorefrontInv
<1>1. F!Init => StorefrontInv
  BY StorefrontStarts
<1>2. StorefrontInv /\ [F!Next]_(F!vars) => StorefrontInv'
  BY StorefrontKeeps
<1> QED
  BY <1>1, <1>2, PTL DEF F!Spec

(* A page never shows part of a form: its variants are all those of one    *)
(* edit that was committed, and of its images those that came with a form  *)
(* are all those of one, whatever was uploaded meanwhile.                  *)
THEOREM PagesShowWholeForms ==
  ASSUME StorefrontAssumption
  PROVE  F!Spec => []PartsOfOneForm
<1>1. StorefrontInv => PartsOfOneForm
  <2> SUFFICES ASSUME StorefrontInv, NEW i \in Shown
               PROVE  /\ Listed(i.id) => \E n \in FormsOf(i.id) : i.variants = VariantsOf(n)
                      /\ i.variants = {} \/ \E n \in FormsOf(i.id) : i.variants = VariantsOf(n)
                      /\ FormImages(i) = {} \/ \E n \in FormsOf(i.id) : FormImages(i) = ImagesOf(n)
    BY DEF PartsOfOneForm
  <2> QED
    BY ShownHeld, SamePage DEF ShownOK
<1> QED
  BY <1>1, StorefrontInvariant, PTL

(* Nor anything older than what the page read before it.                   *)
THEOREM PagesReadForward ==
  ASSUME StorefrontAssumption
  PROVE  F!Spec => []PagesMoveForward
<1>1. StorefrontInv => PagesMoveForward
  <2> SUFFICES ASSUME StorefrontInv, NEW i \in Shown
               PROVE  /\ \A v \in i.variants : i.row <= v[2]
                      /\ \A v \in i.variants, m \in FormImages(i) : v[2] <= m[2]
    BY DEF PagesMoveForward
  <2>1. /\ \A n : \A v \in VariantsOf(n) : v[2] = n
        /\ \A n : \A m \in ImagesOf(n) : m[2] = n
    BY DEF VariantsOf, ImagesOf
  <2> QED
    BY <2>1, ShownHeld, SamePage DEF ShownOK
<1> QED
  BY <1>1, StorefrontInvariant, PTL
================================================================================
