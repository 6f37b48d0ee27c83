# A TLA+ model of the marketplace backend

This directory models the Go e-commerce backend in this repository: an HTTP API
(`cmd/api`), a worker with periodic jobs (`cmd/worker`), PostgreSQL as the system
of record and Redis for sessions and rate limits. The models are about what
tests hardly reach: requests, webhooks and jobs whose SQL statements interleave,
retries, lost answers, crashes between statements, deadlocks and late payments.

## 1. Inventory

| Component | State it keeps | Operations | Interacts with |
|---|---|---|---|
| Checkout confirm (`checkout/application`, `checkout/infrastructure/confirm_repo.go`) | `orders`, `order_items`, `idempotency_keys`, `checkout_quotes` | `Quote`, `Confirm` | one transaction over cart, inventory, coupon, order and charge tables |
| Webhook reconciliation (`reconcile_repo.go`) | `payment_webhook_events`, order and charge status | `Apply` | same tables as confirm and job |
| Release job (`inventory/jobs`) | none | `RunReleaseExpiredOnce` | races the webhook for every overdue order |
| Inventory (`inventory`) | `inventory_stock`, `stock_reservations` | set-stock; Reserve, Commit, Release | rows shared by confirm, webhook and job |
| Ordering (`ordering`) | `orders.status`, `order_status_transitions` | get, list, state machine | written by the three above |
| Coupons (`checkout`) | `coupons.used_count` | create, validate, redeem, release | confirm, webhook, job |
| Cart (`cart`) | `carts`, `cart_items` | add, update, remove, clear, merge, abandoned sweep | confirm converts the cart |
| Payment provider (`payment`) | none (mock) | create a charge, deliver events | webhook |
| Sessions (`core/sessionauth`) | Redis: session values and a per-user index; the browsers' cookies | create, get, refresh, delete, delete all | identity, middleware, cart |
| Identity (`identity`) | `users`, `auth_methods`, tokens | register, login, verify, reset, change password | sessions, mail |
| Shipping (`shipping`) | none (mock) | quote two services by region | quote |
| Address (`address`) | `addresses`, one default per user | create, update, delete, set default | quote |
| Catalog (`catalog`) | products, variants, images, categories | admin writes, upload, orphan cleanup, public pages | cart, quote |
| Rate limit, CSRF, admin auth, ViaCEP | Redis counters and cache | middleware and lookups | handlers |

The contract these parts are written against is
`docs/superpowers/specs/2026-06-22-phase-3a-checkout-core-design.md` (below: the
design): its section 5 gives the flows, section 6 the order state machine and
section 7 the rules C1-C5 and I1-I7 the properties refer to.

Hard behaviours, and what makes each component correct:

* **Confirm** must create all of an order or nothing, sell no unit twice, keep a
  coupon within its limit, convert a cart once, and answer every retry of a key
  with the same order. Its cart check happens before its transaction, and its
  cart guard takes no lock.
* **Webhook and job** decide on values they read without a lock and then update
  rows under locks taken in opposite orders. No payment may be dropped, no
  reservation resolved twice, no coupon given back twice.
* **Late payment**: an order may be paid after it expired and after its units and
  its coupon went to someone else.
* **Delivery**: events are duplicated, reordered and redelivered after a 500.
* **Amounts** are computed once, at the quote, and honoured later: they must be
  the due ones to the cent and reconcile whatever changed in between.
* **Carts** are created lazily, several requests at once, and merged at login
  while other requests, the sweep and a confirm write them: one active cart per
  owner, a merge all or nothing.
* **Sessions** live in Redis with two keys to keep in step, refreshed by the requests of
  an account from a copy they read, used by the cart's without a refresh, and found by a
  cookie whose time is set once, at login; **accounts** are changed by chains of
  statements that commit one by one, with mail that may be lost in between.
* **Addresses**: requests that move the default race on a unique index.
* **Catalog edits** delete and rebuild a product's variants, and by cascade their
  stock, while shoppers refer to them; uploads write object storage and then a
  row, and clean up when either fails.
* **Pages** of the public catalog are read statement by statement, in no transaction,
  while edits replace what they read and uploads add images: no page may show part of
  a form.

## 2. The modules

| Module | Models | Builds on |
|---|---|---|
| `Settlement` | the abstract specification: every transaction of section 5 of the design as one step | |
| `RowStore` | PostgreSQL rows at READ COMMITTED (external): uncommitted writes, row locks, commit, rollback, wait cycles | |
| `OrderRows` | the rows `ReconcileRC` and `ConfirmRC` share, and what must hold of them | `RowStore` |
| `ReconcileRC` | `Apply` and `RunReleaseExpiredOnce`, one SQL statement per step | `OrderRows`, refines `Settlement` |
| `ConfirmRC` | `CheckoutService.Confirm` and `ConfirmTx`, one SQL statement per step | `OrderRows`, refines `Settlement` |
| `CartRC` | cart requests, the merge at login, the abandoned sweep, one SQL statement per step | `RowStore` |
| `CatalogRC` | product edits, image uploads and set-stock against carts and confirms, one statement or storage call per step | `RowStore` |
| `Page` | what a page of the catalog shows and promises, shared by `Storefront` and `CatalogRC_proofs` | `RowStore` |
| `Storefront` | the public pages against product edits and uploaded images, one statement per step | `Page` |
| `AddressRC` | the requests on a user's addresses, one SQL statement per step | `RowStore` |
| `Sessions` | the Redis session manager, the middlewares that use it and the session cookie, one command or pipeline per step, with expiry | |
| `Account` | registration, links, login, password reset and change, one statement, command or mail per step | `Sessions` |
| `Pricing` | the amounts of a quote and of its orders, in cents | |
| `Settlement_proofs`, `Pricing_proofs`, `ConfirmRC_proofs` (with `ReconcileRC`, its instance `R`), `CatalogRC_proofs` (with `Storefront`, its instance `F`), `CartRC_proofs`, `AddressRC_proofs`, `Account_proofs` (with `Sessions`) | theorems | TLAPS |
| `RowStore_proofs` | what the statements of `RowStore` do to rows and locks | TLAPS |
| `MC...` | instances for TLC | |

The modules overlap on purpose: a confirm is statements in `ConfirmRC`, one step
in `Settlement`, `ReconcileRC` and `Pricing`, and the reservation it makes of one
variant in `CatalogRC`. In the statement-level modules every SQL statement that
changes a row is an operator with the name sqlc gave it (`CommitReservation`,
`SetCartStatus`, `UpsertCartItem`, ...), and an action is the code that runs it.

**Settlement.** One variable per table column that matters: `order`, `item`,
`couponOf` (`orders`, `order_items`), `resv` and `due` (`stock_reservations`; the
rows of an order have one status because only statements by `order_id` write it),
`charge`, `available`, `reserved`, `used`, `lapsed` (`coupons`), `seen` (event ids)
and `audit` (`order_status_transitions`). Actions: `ConfirmTx`, `Apply` (with
`RecordOnly`, `FailPayment`, `PayInTime`, `PayLate`), `ReleaseExpired`, `SetStock`,
and the passing of time (`ReservationDue`, `CouponLapses`). INT columns are
bounded by `MaxInt`: a statement that would overflow fails and its transaction
rolls back, so it is no step.

**RowStore.** `db` maps rows to committed values, `dirty` maps each session to
what its open transaction has written. `Read` is a plain SELECT; `Write` needs the
locks of its rows; an `UPDATE ... WHERE` evaluates its condition on the value
found once the lock is free, which is what READ COMMITTED re-evaluation does.
Foreign-key checks take key-share locks, which conflict only with the deletion of
the row referred to; `CatalogRC`, where variants are deleted, models them.

**ReconcileRC.** Each handler or job has a frame in `at`: the next statement, the
task the switch chose, the rows left in the loop. The statement order is the
code's: the webhook goes event row, reads, stock rows, reservations, coupon,
charge, order; the job goes order, reservations, stock rows, reservations, coupon.
`List` keeps the reservations it found held, in any order (there is no ORDER BY),
and later statements use that list although it may be stale. A step that ends a
transaction carries the statements after its last lock.
`ConfirmTx` and `SetStock` are single steps here: their statements are ConfirmRC's
subject, and the rows they share with webhook and job are the stock rows, updated
by single conditional UPDATEs under a lock in both.

**ConfirmRC.** A client sends `[user, key, quote]`; the handler looks the key up,
checks the quote and the cart, opens the transaction, reads the active cart,
inserts the order, reserves line by line, redeems, converts the cart, inserts the
charge, claims the key and commits. The shopper's cart requests, the quote and
set-stock are single steps. The fingerprint is the sorted "variant:quantity" list,
which is injective on carts (ids have a fixed width), so it is the lines
themselves. `now()` in PostgreSQL is the time of BEGIN, so a frame remembers what
had expired then. The answers clients receive are kept in `answers`.

**CartRC.** An item request finds the owner's active cart, creates it if there is
none (the partial unique indexes `carts_user_active_uniq` and
`carts_anon_active_uniq` make an insert wait for an open transaction on a cart of
the owner, then fail), and writes its line; these statements commit one by one. A
merge is a transaction: find the visitor's cart, find or create the user's, add
line by line, mark the visitor's cart merged; a unique violation restarts it once.
`Sweep` deletes anonymous carts past the cutoff. An owner's carts are numbered in
turn. Prices of lines are left out, since a quote takes the catalog's.

**CatalogRC.** One product. Variants are numbered in the order their ids are
minted, and an edit deletes all of them and inserts those of its form under new
ids; `Row`, `Empty` and `Gone` are the tables, what their rows read before they exist
and after a `DELETE`. Foreign keys are `Refer` (insert a reference: the variant must be live and is
locked against deletion) and `Deletable`. Deletion cascades to `inventory_stock`
and is refused by a cart line, a reservation or an order item. An upload puts the
original and each rendition, then attaches the row, or removes what it put. An
administrator learns a stock row's version only from the answer to set-stock (no
endpoint reads it; a body without one means 0), which `known` records. Edits keep
the product's slug (a changed slug locks the row against an image's foreign key)
and the image URLs a form may list are left out.

**Storefront.** Products, and of each one row, its variants and its images, marked
with the form they came from, so a page shows which edits it mixes. `Select` is the
first statement of a listing, a search or a product page; `HydrateVariants` and
`HydrateImages` are `hydrateProduct`, once per product. `UNIQUE (slug)` makes a write
wait for the transactions that move another product to or from the slug. A tag stands
for everything filters and search terms look at. `AttachImage` is the `INSERT` of an
upload, whose row no form lists (`uploadRow`; in the table it is told by its
`storage_key`): it commits by itself, also between the two `DELETE`s of an edit or
between the second and its commit, unless that edit moves the slug. An edit deletes the
uploads its `DELETE` sees; a later one outlives it. `ListImagesByProduct` returns both
kinds, so a page may show uploads beside the images of any form: `FormImages` are the
others, of which `PartsOfOneForm` and `PagesMoveForward` speak. The storage behind an
upload and what else contends with an edit for its variants (carts, orders, stock) are
in `CatalogRC`.

**AddressRC.** A row is whether it exists, `is_default` and its other mutable
columns; every statement is scoped by `user_id`, so one user is enough.
`ClearDefaultAddress` is two steps, because its snapshot precedes its wait for the
row: `ScanDefault` finds the rows, `ClearDefault` locks them and clears those still
default. Making an address the default (`SetDefault`, for both requests that can)
waits, by the partial unique index, for transactions that write one that is or
becomes the default, and fails with 500 when another then is. A patch is a read
and a write of all columns but `is_default`; `Validate` refuses a `Blank` value
before a create's first statement and between the two of a patch.

**Sessions.** `session` and `index` are the Redis keys, with their TTL in ticks left;
`since` is the time since `last_activity_at`, all the refresh looks at. A frame
between the read and the pipeline of a refresh keeps the age of its `now`. A
request does not outlast `RefreshAfter` (seconds against a day), and otherwise takes
no time against a tick. `cookie` is the Max-Age a session's cookie has left in the one
browser that signed in: `setSessionCookies` gives it at login, the answers that end a
session and a 401 take it away, any answer may be lost, and no other answer sends it
again. A request needs both the cookie and the key (`Request`), and gets 401 when only
the cookie is left (`Unauthenticated`). Requests on the account refresh the session,
and go on when that fails (`RefreshFails`, `middleware.go:45`); those on the cart
look it up and leave it alone (`ResolveCartIdentity`).

**Account.** `user` joins `users` and its one `auth_methods` row; `token` joins the
two token tables and whether the mail with the link arrived. Every statement
commits by itself, so a request is a chain of steps and `Abort` stops it anywhere.
The first read of a request is the step in which it arrives. What the cart's routes do
with the session is in `CartRC`; here they only look it up (`CartRequest`). A link is live, expired,
or expired for more than seven days, when the cleanup job deletes it. Names,
`last_used_at` and `status` (nothing sets it) are left out, as is the CSRF token
stored with a session.

**Pricing.** A quote takes the cart's lines and the address, prices line by line,
adds shipping and discount and is stored; a confirm copies its amounts into an
order and its charge. A variant keeps its price for life, because an edit of its
product replaces the variant, so `Price` is a constant. A quote may be confirmed
again within its TTL when the same cart is built again. A postal code is its first
digit, all that fees depend on.

## 3. The runs

`CHECK_DEADLOCK FALSE` appears where the instance really comes to rest: every
event recorded, every quote used, nothing left to do.

| Run | Question | Result |
|---|---|---|
| `Settlement_core` | do the tables agree, is stock backed and conserved, are coupons counted, payments kept and statuses audited, one transaction at a time? | holds |
| `Reconcile_apart` | webhooks and job on different orders: is every interleaving one of Settlement's behaviours? | holds |
| `Reconcile_races` | two payments and the job on one order: what safety survives, do their deadlocks starve anyone, is every event recorded and every order resolved? | holds |
| `Confirm_race` | two users, shared variants, the last redemption, keys reused and retried: deadlock-free, atomic, one order per key? | holds |
| `Cart_races` | two logins of one visitor, item requests, sweep, confirm: one active cart, merges all or nothing, one retry enough? | holds |
| `Catalog_races` | edits, an upload, confirms and set-stock on one product: is any held unit, reference, rendition or stock write lost? | holds |
| `Storefront_reads` | pages against edits, deletions, uploads and taken slugs: does a page show part of a form, or go back in time? | holds |
| `Address_default` | do requests that move the default race, lose it or double it? | holds |
| `Account_races` | every request on an account against refreshes and links it races: is anyone signed in unverified, does a session's key expire before its cookie, is anyone left with a spent link? | holds |
| `Pricing_amounts` | are the amounts of orders due and reconciled, whatever changed since the quote? | holds |
| `Reconcile_dropped` | C2 "paid always wins" with the job racing the webhook | violated |
| `Confirm_twice` | the cart guard under two keys | violated |

Each property of a run that holds has a variant of the code, an operator marked
`variant:` beside the one it would replace, under which the run fails.

### Bounds

* *Settlement*: two orders, two variants with two and one units, up to two units a
  line, a coupon of limit one, `MaxInt` 4 and set-stock to 1. Two orders are enough
  for one to take what the other released; `MaxInt` is reached by a release.
* *Reconcile*: two or three orders (the third a bystander the job expires), two
  variants where lock orders must cross, two handlers and one job (the worker runs
  one release job at a time), at most three events; `MayExpire` and `MayCrash` name
  the orders that fall due and the handlers that lose their connection.
* *Confirm*: two handlers, so every pair of statements of two confirms interleaves;
  one coupon redemption for two orders; three requests, each sent any number of
  times.
* *Cart*: one user with two cart numbers, one visitor with one, two variants, the
  quantity cap 2 for 99, two handlers plus the sweep and confirm.
* *Catalog*: three variant ids (the product's first and two editions), two handlers,
  two orders, one image with one rendition, versions up to `MaxVersion` = 2. An edit
  needs a free id, so edits end when the ids do.
* *Storefront*: two products and two slugs, so one can take what the other gives up;
  five forms, two of them refused (a repeated SKU, an unknown status), three of which
  reach the database (`MaxForms`): two edits can pass between two reads of a page;
  two SKUs, one image of a form (`MaxImages`) and one uploaded (its id is free again when
  its row is gone), `MaxLimit` 2 for 100, two administrators, one reader.
* *Address*: three addresses, so a third can take the default while two requests
  contend for it; two handlers, either may lose its connection between statements.
* *Account*: one user (every statement and key is a user's own), two sessions so one
  can be revoked while the other is kept, a link of either kind (its id is reused
  after cleanup), TTLs of 2 and 3 ticks with a refresh after 1: the least with which
  a refresh is skipped, done, and done late; logins ask to be remembered, so that
  `Ttl` is the longer (`Renewed` reads which it is from the frame; the proofs are for
  both). One handler serves every request on an account, may die and may lose its
  answer or its refresh; the other verifies, refreshes a session and uses it for the cart.
* *Pricing*: prices 1 and 13, so a half percent leaves half a cent; five coupon
  forms (percent, percent with limit and minimum, percent out of range, fixed with
  limit, fixed without value); regions 0 and 9; one quote, confirmed any number of
  times; `MaxUses` = 2 redemptions.

### What the violated runs show

The webhook races share one cause. `Apply` reads the order's status and the held
reservations without locking them (`reconcile_repo.go:70`, `:199`, `:226`) and
uses them after waiting for row locks; it drops the row count of
`TransitionOrderStatus` (`:100`, `:130`, `:169`). `SELECT ... FOR UPDATE` on the
order, or doing the guarded transition first and stopping when it changes no row,
as the job does, would restore `ImplementsSettlement` for events of one order.

* *Dropped*: the webhook reads `pending_payment`; the job expires the order and
  commits; the webhook marks the charge paid, records `pending_payment -> paid` in
  the audit table and the event as processed, and leaves the order `expired`. The
  redelivery is deduplicated, so the payment is lost.
* *Two orders of one cart*: `SetCartStatus` is by id and unconditional, so the
  unique index on active carts never comes into play.

Also reachable in the models, without a run of its own:

* `ReconcileRC`: a paid and a failed event that listed the same held rows both
  resolve them: the second takes other orders' units out of `reserved`, where the
  design's I6 asks for "exactly-once". When the failure comes second it also puts the
  unit just sold back on the shelf, where it is sold again: `NoOversell` is violated in
  17 steps once `Event` has a payment and a failure of `o1` and `o2` buys the same
  variant. Two paid events only lose units. `Reconcile_races` therefore takes two
  payments and checks what survives, `NoOversell` and `ReservationsResolveOnce`.
* `ReconcileRC`: a failed event and the job give one redemption back twice.
* `Settlement`: set-stock accepts up to 2147483647 whatever is reserved; a release
  would then overflow and the tick fails on that order for ever. `EveryOrderResolved`
  holds in `Reconcile_races`, where no stock comes near the limit.
* `Settlement`: an order expires, another redeems its coupon, and the first is paid
  late: the job gave the redemption back and `PayLate` does not take it again, so
  more paid orders than `usage_limit` carry the discount. The design asks for both
  the late payment (C2) and "no path can exceed `usage_limit`" (C4).
* `AddressRC`: of two concurrent patches the later also writes back the fields it
  was not given, as it read them; a request that loses the race for the default
  answers 500.
* `Account`: a registration interrupted after `InsertUser` leaves a user without a
  password. The address can still be verified (resend, link) but a reset answers 200
  without setting anything (`UpdatePassword` matches no row) and registering again
  is a 409. Two confirmations of one reset link both take effect.
* `Sessions`: the index expires with the session written last, where the identity
  design (`2026-05-09`, "TTL: max of session TTLs") wants the longest; sessions it no
  longer lists, or created while it is read, escape `DeleteAllForUser`; a refresh
  writes back a session removed since it was read.
* `Sessions`: users do not get the sliding window the designs promise ("TTL 30 dias com
  sliding expiration", `docs/superpowers/specs/2026-05-08-marketplace-golang-design.md:92`;
  "Sliding window refresh: middleware updates `last_activity_at` and renews TTL when
  activity > 24h ago", `2026-05-09-phase-2-identity-cart-design.md:529`). A refresh renews
  the key, but only a login sets the cookie's Max-Age (`auth_handlers.go:135`, `:231`):
  however active, the browser drops the cookie at login plus TTL, and its next request is
  anonymous. `KeyOutlivesCookie` is what does hold: the key is there as long as the
  cookie, unless a request ends the session. So for a browser the refresh gains nothing,
  and a user who only uses the cart, which refreshes nothing, loses nothing by it.
* `ConfirmRC`: a cart edited between the fingerprint check and the commit is
  converted with lines nobody ordered.
* `CartRC`: two logins at once merge one visitor's cart twice (the line stays within
  the cap); a merge racing the sweep marks an abandoned cart merged; the sweep goes
  by `carts.updated_at`, which adding items does not touch.
* `CatalogRC`: once an order or a cart names a variant, every later edit of the
  product fails with 500, because `Update` deletes variants it could keep; an edit
  drops the storage keys of images, also of one attached while it ran, and the
  objects are never removed. When only the answer to the `INSERT` of an image's row is
  lost, the upload removes the objects of an image the catalog shows.
* `Storefront`: `GET /products/{slug}` has no condition on the status, although
  `domain/product.go:14` calls a draft "not yet visible publicly" and `:18` an
  archived product "hidden"; the listings have it. A page may mix the row of one
  edit with the variants of the next. An edit deletes the images uploaded before its
  `DELETE`, and keeps one uploaded between that and its commit.

## 4. Fairness

* `ReconcileRC!FairSpec`: a running handler or job is scheduled, and is granted a
  lock that is released again and again, because PostgreSQL queues the waiters of
  a row (strong fairness of the session's steps and of the webhook's last step);
  deadlocks are broken (weak fairness of `Abort`); the job ticks again, as River runs
  it every `CHECKOUT_RELEASE_INTERVAL` (`cmd/worker/main.go:96`); the
  provider redelivers an event until it is answered 200 (strong fairness of
  `Deliver`). Confirms, crashes and set-stock are not fair.

The other modules claim safety only.

## 5. Proofs

`Settlement_proofs` proves, for every finite set of orders and any variants,
coupons, quantities, limits and events (the named ASSUMEs of `Settlement`):

* `TypeCorrect`: `TypeOK` is inductive; the only facts needed are the guards of
  the conditional UPDATEs, so `available` and `reserved` stay in `0..MaxInt`.
* `AgreementHolds`: inductive with `TypeOK`. It is the strengthening the others
  need: a held reservation belongs to a pending order, so `resv = "held"` is lost
  exactly when the order leaves `pending_payment`.
* `ReservedIsBacked`: `reserved[v]` is the cardinality of the set of held units.
  `HeldAreBacked` shows that an order that holds units is backed, so the silent
  `WHERE reserved >= qty` always matches; `UnitsAdd`, `UnitsRemove` and `UnitsSame`
  say how the cardinality changes when one order joins or leaves the set.
* `StockIsConserved`: from the same invariant, `ReleaseConserves` and `SellAdds`.
* `CouponsAreCounted`: `used_count` is the cardinality of the redeemers.
* `OrdersMoveForward`, `PaymentsAreKept`: action properties, from the guards and
  `AgreementHolds`.
* `AuditTrailIsAPath`: the audit table is a set of rows, and says of each order how it
  came to its status. The invariant is `LeftBehind`: the statuses an order's audit
  rows have left are older (`Age`) than the one it is in, so a move never repeats a
  row and the path has one end. `StepsMoveOneOrder` reduces every action to a move.

Cardinality replaces a sum so that no recursive function over data is needed; the
facts about it come from FiniteSetTheorems.

`Pricing_proofs` proves, for every finite set of variants, natural prices,
quantities, regions `0..9` and coupon terms:

* `PercentageIsNearest`: `(n + 50) / 100` is the cent nearest to `n / 100`, halves
  up, from the bounds of integer division.
* `AmountsSound`: the inductive invariant `IInv`, that is `TypeOK`, every stored
  quote is `Sound` (its discount due, its total reconciled, its shipping fair) and
  every order is, and lines are counted (below). `DiscountBounded` and `TotalBounded`
  make a finished quote sound; `CouponsKeepTerms` (no step changes the terms of a
  coupon) keeps it so; an order inherits the amounts of its quote. `QuotesSound` is the
  part the properties do not state and the proof needs.
* `GoodsAlwaysAddUp`: the sum over lines is the number of `Cents` they cost. What makes
  it inductive is `LinesCounted`: a quote in the making has added up the lines it no
  longer has to do, those of its own copy of the cart. `LineCounted` adds one line.
* `TypeCorrect`, `DiscountsAreDue`, `TotalsAlwaysReconcile`, `ShippingIsFair` follow.
  Amounts are unbounded integers: int64 would overflow only for a subtotal times a
  percentage beyond 9.2e18, far above 99 units of any listed price.

`RowStore_proofs` has the facts every statement-level proof needs, for any rows and
sessions: no row has two writers (`LocksExclusive`), and what `Write`, `CommitWith`
and `Rollback` leave in `db` and `dirty`, above all that a commit touches no row
another session has written. `RowStore` spells its function updates out, since the
provers do not take `@@`.

`ConfirmRC_proofs` proves, for finitely many variants and any users, handlers, orders,
quotes and coupon limits:

* `ConfirmImplementsSettlement`: the refinement. `ConfirmInvariant` (`IInv`) says of an open
  confirm that its uncommitted rows are exactly those of its frame (`Locks`), and that each
  is computed from the committed row as it still is (`Progress`): the locks are exclusive
  (`LocksExclusive`), so nobody changes under it what it has written. Hence the commit at
  `ClaimKey` publishes at once what `Settlement`'s `ConfirmTx` writes, with its guards
  true of the committed rows; of the other steps only `SetStock` changes what
  `Settlement` sees, and the rest are stutters. A statement that would pass the INT
  limit fails, as in `Settlement`.
* `OneOrderPerKey`: `KeysOK` says that a key holds at most one response, that every answer
  given is that one, and that every order is some key's. A key is claimed in the commit of
  its order and never written again.
* `NoConfirmDeadlock`: `Ascending` says that what a confirm has left to reserve comes
  after what it has reserved. `LocksByTable` and `WaitsForLater` show that whoever waits
  for stock waits for a handler at a later variant or past the stock, and one past it
  only for a handler further on; a cycle would have a last variant.

and, of `ReconcileRC`, for any numbers of handlers, jobs, orders, events and plans, whatever
sessions lose their connection (`SettlementAssumption` is the module's ASSUMEs; those of
`ConfirmRC` are in force too: of `ReconcileRC` they ask only that `UsageLimit` holds numbers
or `NoLimit`, and that stock counts are at most `MaxInt`, which is any bound one likes):

* `OrdersAreConsistent`: `Orderly` is inductive. Reservations are held exactly while their
  order is `pending_payment`. `Apply` reads both without a lock, so what makes it inductive
  is said of whoever settles an order (`SettlingOK`): past `MarkReservations` it has
  written the reservations if they are still held, and so has their lock until it commits;
  the job has written the order before that; a late payment came to an order that no step
  makes pending again. The commit of `Finish` may change nothing of the order, which is
  the race the violated run shows, but it never separates the two.
* `ResolvedOnce`, an action property, from the same invariant: a second session that listed
  the held rows finds its `UPDATE ... WHERE status = 'held'` empty, so the *status* is
  resolved once although the *stock* may be updated twice.
* `NothingSoldTwice`: `Accounted` says that the units on the shelf and those of orders that
  hold or own them are at most `InitStock` (`Backed`), and, of each session that settles an
  order, that the stock rows it has written put the shelf no higher than its task allows:
  as it was (a payment), down by the order's units (a late payment) or up by them (a
  failure, an expiry) (`Wrote`), with the lines still to update each once and not written
  (`Left`). `StillBacked` is the step that moves one order, by the cardinality of its units;
  `SettledBacked` the commit of each task. The hypothesis is `Undisputed`: nobody sets stock,
  since `InitStock` is what the property counts from; and an order whose payment fails may
  not expire and hears of no other exact event. Without the second part the property is
  false, as section 3 shows; with it any number of payments, redeliveries, late payments
  and job ticks may race. `FailsAlone` is where it is used: while a failure puts units
  back, nobody else settles that order.

`CatalogRC_proofs` proves, for finitely many orders and any variants, handlers, forms,
images and renditions, whatever handlers lose their connection:

* `UnitsAreKept`. An edit past `DeleteVariants` has marked all variants there are, none of
  them in a cart, and past the cascade none in an order (`EditOK`); a confirm's stock row
  is one unit off the committed one, and once its reservation is inserted its variant
  cannot be deleted (`ConfirmOK`); no variant is in both situations (`Apart`). So the
  cascade removes no row that counts a held unit. `StockOK` counts the held units as a
  cardinality, as in `Settlement_proofs`.
* `ReferencesAreLive`, `FormsDoNotMix`: from the same facts. An edit replaces the set of
  variants that is committed when it commits, not the one its page showed, because it
  holds the product's lock from its first statement.
* `SetStockIsGuarded`, an action property: while a stock row has the version of the last
  accepted set-stock (or version 0) it is as that set-stock left it, since every other
  statement raises the version.
* `ShownImagesAreComplete`, `FailedUploadsAreClean`: an upload under way owns its image, and
  storage has of it exactly what the frame says it has put (`UploadOK`), so a rollback of
  those objects leaves nothing and an attached row lacks none.

and, of `Storefront`, for any products, slugs, SKUs, administrators and readers:

* `PagesShowWholeForms`, `PagesReadForward`, from `StorefrontInvariant`. A writer holds its
  product's lock from its first statement to its last, and has written of its form exactly
  what its frame has not left to do; so the committed rows of a product are those of one
  saved form, and a commit replaces them by those of a newer one. Of a page the invariant
  says that the variants it has read are those of a form not older than the row it shows
  and not newer than the committed one, or that the product is gone, and likewise of the
  images after the variants, uploads aside: those are rows of their own (`FormRows` are
  the rest), so an upload commits under an open edit without touching what it will
  publish. `ProductStep` and `ReaderKeeps` reduce every other step to one that leaves
  this product, this administrator or this page alone.

`AddressRC_proofs` proves, for every finite or infinite set of addresses and handlers:

* `Invariant`: what a request has written and not committed are existing addresses
  made not the default (`OnlyCleared`); the id of a create under way names no row
  (`FreshIds`); at most one committed row is the default (`AtMostOne`). The unique
  index is checked at the last statement against what its transaction reads, and
  `OnlyCleared` is why nothing another session commits later can contradict it.
* `TypeCorrect` and `OneDefaultHolds` follow. `DefaultIsKept` is an action property:
  `PlainCommitKeeps` covers the single-statement requests (a create overwrites no
  default because its id is fresh), `SetDefaultKeeps` the transaction that moves the
  default, whose failure rolls back what it cleared.

`CartRC_proofs` proves, for any owners, cart numbers and handlers and finitely many variants:

* `OneActiveCartHolds`: what every session reads has one active cart per owner
  (`OneView`). A cart written and not committed is a new one (`NewCarts`), and no two
  sessions insert a cart of one owner (`OneInserter`), because the unique index makes the
  second wait; so a commit publishes no second active cart, and a rollback none.
* `MergeIsAllOrNothing`: `ListedOK` says that a listed line is still to do or among the
  merge's uncommitted writes with at least the listed quantity, and `MergeMark` commits
  them. No other step of a merge touches a committed row.
* `RetryIsEnough`: after a failed insert, `RetryOK` keeps the cart that was in the way
  active or converted (`UserCartsMove`: no step but a confirm closes a user's cart), so
  a second insert follows a conversion.
* `TypeCorrect` is part of the same invariant.

`Account_proofs` proves, of `Sessions` and `Account` and for any users, sessions, links,
requests and TTLs with `0 < RefreshAfter < TtlDefault <= TtlRememberMe`:

* `KeysOutliveCookies`, from `RedisOK`. What makes `KeyOutlivesCookie` inductive is
  `CookieOfLogin`: no cookie has more left than its login's TTL, which is what a refresh
  gives the key. So a refresh that is skipped, or fails, costs nothing, and of one that
  comes late from an old copy `FrameOK` says that the TTL less its age still covers the
  cookie, which other steps only shorten (`HeldWaned`: the id of a session in hand is not
  minted again). Each command of the manager keeps `RedisOK` and leaves no session that
  was not there, or one of the frame's user (`NoneNew`, `Origin`).
* `SignedInMeansVerified`: no statement takes back what login asks of a user (`Grows`), so
  what a frame saw in the user's row still holds when it reads the password's and when it
  writes the session (`FrameOK`). The same carries a refresh under way while the password
  changes: `Renew` writes back a session of a user who may still sign in.
* `LinksDoTheirWork`: `FrameOK` says that the link a frame is about to consume is of the
  user it has verified. `Grows` keeps it so: the id of a link that an open request holds
  is not given to another, even when the cleanup job deleted the row meanwhile.
* `TypeCorrect` is part of the same invariant.

With this every invariant of the runs is proved, and every other safety property but one.
What stays with TLC:

* liveness under fairness (`EveryEventRecorded`, `EveryOrderResolved`), out of the prover's
  reach;
* `ReconcileRC`: `ImplementsSettlement` holds only while transactions keep to different
  orders, which is how its run bounds events, retries and expiries, so it is no theorem of
  its specification.

## 6. Not modelled, and the plan

* Order and quote reads: they answer from one statement and decide nothing. Mail
  wording, logging, metrics, configuration and wiring.
* Categories: a row is inserted under a unique slug and listed, never changed.
* Rate limiting: `main.go` builds its options and the identity module keeps them, but
  no route mounts the middleware.
* ViaCEP: a read-through cache of an external directory; an address is stored as
  submitted, whatever the directory says.
* CSRF and admin authentication compare a header with a cookie or a secret.
* A webhook that arrives before its charge row is committed, and a provider charge
  whose confirm failed, concern a real provider; this phase has a mock.

What would come next: the refinement of `Settlement` by `ReconcileRC` under a hypothesis
like `Undisputed`, that no two sessions settle one order at once.
