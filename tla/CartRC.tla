--------------------------------- MODULE CartRC ---------------------------------
(***************************************************************************)
(* Carts of users and anonymous visitors, one SQL statement per step: the  *)
(* item requests, the merge a login runs, and the worker's sweep of        *)
(* abandoned carts, over the rows of RowStore.  The item requests run      *)
(* without a transaction: each of their statements commits by itself.      *)
(* Prices are left out: quotes read the catalog's.                         *)
(***************************************************************************)
EXTENDS RowStore, Integers, FiniteSets, SequencesExt

CONSTANTS
  User, Anon,         \* owners: user ids and cart_anon cookies
  Variant,
  MaxItemQuantity,    \* 99
  CartNo,             \* [Owner -> numbers of the carts it may have, in turn]
  Request,            \* the item requests and logins clients send
  Handler,            \* HTTP handlers
  Shop,               \* the session of the sweep and of confirm
  MayCrash            \* handlers that may lose their connection

ASSUME HandlerAssumption == /\ Proc = Handler \cup {Shop} /\ Shop \notin Handler
                            /\ MayCrash \subseteq Handler /\ User \cap Anon = {}
ASSUME CartAssumption == /\ CartNo \in [User \cup Anon -> SUBSET (Nat \ {0})]
                         /\ MaxItemQuantity \in Nat
                         /\ Variant \subseteq Nat /\ IsFiniteSet(Variant)

(* A request is for one cart: its user's when the session cookie is valid, *)
(* else that of the cart_anon cookie, which AddItem mints when missing.    *)
Owner == User \cup Anon

ASSUME RequestAssumption == Request \subseteq
  [op: {"add", "update"}, owner: Owner, variant: Variant, qty: Nat]
  \cup [op: {"remove"}, owner: Owner, variant: Variant]
  \cup [op: {"clear"}, owner: Owner] \cup [op: {"merge"}, owner: User, anon: Anon]

VARIABLES
  at,       \* [Handler -> what the request's Go frame remembers]
  old       \* anonymous carts whose updated_at is past the cutoff

vars == <<db, dirty, at, old>>

cartRow(w, n)    == <<"cart", w, n>>       \* carts.status
lineRow(w, n, v) == <<"line", w, n, v>>    \* quantity of the line, 0 without one

IndexRows(w)     == {cartRow(w, n) : n \in CartNo[w]}    \* the owner's carts
CartRows         == UNION {IndexRows(w) : w \in Owner}
LineRows         == UNION {{lineRow(w, n, v) : n \in CartNo[w], v \in Variant} : w \in Owner}

Idle == [pc |-> "idle", op |-> "none", owner |-> "none", anon |-> "none",
         variant |-> 0, qty |-> 0, cart |-> 0, from |-> 0,
         listed |-> [v \in Variant |-> 0], todo |-> <<>>, tries |-> 0]

Init ==
  /\ db = [r \in CartRows \cup LineRows |-> IF r \in CartRows THEN "none" ELSE 0]
  /\ dirty = [p \in Proc |-> NoWrites]
  /\ at = [p \in Handler |-> Idle]
  /\ old = {}

(* The active cart, if there is one, as a plain SELECT sees it.            *)
GetActiveCartByUser(p, u) == {n \in CartNo[u] : Read(p, cartRow(u, n)) = "active"}
GetActiveCartByAnon(p, a) == {n \in CartNo[a] : Read(p, cartRow(a, n)) = "active"}

(* activeCartRow: by the owner the identity middleware resolved.           *)
ActiveCart(p, w) ==
  IF w \in User THEN GetActiveCartByUser(p, w) ELSE GetActiveCartByAnon(p, w)

(* ListCartItems: the lines of a cart.                                     *)
ListCartItems(p, w, n) == {v \in Variant : Read(p, lineRow(w, n, v)) > 0}

Goto(p, frame) == at' = [at EXCEPT ![p] = frame] /\ UNCHANGED old
Done(p) == Goto(p, Idle)

SetCartStatus(w, n, status) == Only(cartRow(w, n), status)   \* whatever it was

(* A cart leaves 'active' with the transaction's COMMIT.                   *)
Close(p, w, n, status) ==
  /\ CommitWith(p, SetCartStatus(w, n, status))
  /\ old' = old \ {cartRow(w, n)}

-------------------------------------------------------------------------------
(* CreateUserCart and CreateAnonCart: the partial unique index on active   *)
(* carts makes an insert wait for a transaction that writes a cart of the  *)
(* same owner, and fail when the owner then has an active one.             *)
Settled(p, w) == \A r \in IndexRows(w) : Unlocked(p, r)

UniqueIgnored(p, w) == FALSE   \* variant: the index does not cover the status

Violates(p, w) == ActiveCart(p, w) # {}

(* The cart an insert makes: the owner's next.                             *)
FreshCart(p, w) == {n \in CartNo[w] : /\ Read(p, cartRow(w, n)) = "none"
                                   /\ \A m \in CartNo[w] : m < n => Read(p, cartRow(w, m)) # "none"}

CreateUserCart(u, n) == Only(cartRow(u, n), "active")
CreateAnonCart(a, n) == Only(cartRow(a, n), "active")

-------------------------------------------------------------------------------
(* The statements on lines go by the cart's id, whatever has become of it. *)
UpsertUncapped(p, w, n, v, q) ==   \* variant: no LEAST
  Only(lineRow(w, n, v), Read(p, lineRow(w, n, v)) + q)

(* ON CONFLICT the quantities add up, LEAST(..., 99).                      *)
UpsertCartItem(p, w, n, v, q) ==
  LET sum == Read(p, lineRow(w, n, v)) + q IN
  Only(lineRow(w, n, v), IF sum > MaxItemQuantity THEN MaxItemQuantity ELSE sum)

(* UPDATE and DELETE find the line, or write nothing: 404.                 *)
UpdateCartItemQuantity(p, w, n, v, q) ==
  IF v \in ListCartItems(p, w, n) THEN Only(lineRow(w, n, v), q) ELSE NoWrites

DeleteCartItem(p, w, n, v) ==
  IF v \in ListCartItems(p, w, n) THEN Only(lineRow(w, n, v), 0) ELSE NoWrites

DeleteCartItemsByCart(p, w, n) ==
  [r \in {lineRow(w, n, v) : v \in ListCartItems(p, w, n)} |-> 0]

-------------------------------------------------------------------------------
(* The item requests.                                                      *)
ValidateQuantity(q) == q \in 1..MaxItemQuantity

Frame(r) == [f \in DOMAIN Idle |-> IF f \in DOMAIN r THEN r[f] ELSE Idle[f]]

Receive(p, r) ==
  /\ at[p].pc = "idle"
  /\ "qty" \in DOMAIN r => ValidateQuantity(r.qty)
  /\ Goto(p, [Frame(r) EXCEPT !.pc = IF r.op = "merge" THEN "anon" ELSE "find"])
  /\ NoStatement

(* FindActive, or the first half of EnsureActive.                          *)
FindActive(p) ==
  LET w == at[p].owner IN
  /\ at[p].pc = "find"
  /\ NoStatement
  /\ \/ \E n \in ActiveCart(p, w) : Goto(p, [at[p] EXCEPT !.cart = n, !.pc = "write"])
     \/ ActiveCart(p, w) = {} /\ at[p].op = "add" /\ Goto(p, [at[p] EXCEPT !.pc = "ensure"])
     \/ ActiveCart(p, w) = {} /\ at[p].op # "add" /\ Done(p)

(* EnsureActive creates the missing cart; losing the race is a 500.        *)
EnsureActive(p) ==
  LET w == at[p].owner IN
  /\ at[p].pc = "ensure"
  /\ Settled(p, w)
  /\ \/ Violates(p, w) /\ NoStatement /\ Done(p)
     \/ /\ ~Violates(p, w)
        /\ \E n \in FreshCart(p, w) :
             /\ CommitWith(p, IF w \in User THEN CreateUserCart(w, n)
                                           ELSE CreateAnonCart(w, n))
             /\ Goto(p, [at[p] EXCEPT !.cart = n, !.pc = "write"])

LinesWritten(p) ==
  LET w == at[p].owner  n == at[p].cart  v == at[p].variant IN
  CASE at[p].op = "add"    -> UpsertCartItem(p, w, n, v, at[p].qty)
    [] at[p].op = "update" -> UpdateCartItemQuantity(p, w, n, v, at[p].qty)
    [] at[p].op = "remove" -> DeleteCartItem(p, w, n, v)
    [] at[p].op = "clear"  -> DeleteCartItemsByCart(p, w, n)

WriteLines(p) ==
  /\ at[p].pc = "write"
  /\ CommitWith(p, LinesWritten(p))
  /\ Done(p)

-------------------------------------------------------------------------------
(* Merge, in one transaction per attempt.                                  *)

(* GetActiveCartByAnon: without a cart there is nothing to merge.          *)
MergeFindAnon(p) ==
  /\ at[p].pc = "anon"
  /\ NoStatement
  /\ \/ ActiveCart(p, at[p].anon) = {} /\ Done(p)
     \/ \E n \in ActiveCart(p, at[p].anon) :
          Goto(p, [at[p] EXCEPT !.from = n, !.pc = "user"])

(* GetActiveCartByUser, and CreateUserCart when it finds none.             *)
MergeFindUser(p) ==
  LET u == at[p].owner IN
  /\ at[p].pc = "user"
  /\ NoStatement
  /\ \/ \E n \in ActiveCart(p, u) : Goto(p, [at[p] EXCEPT !.cart = n, !.pc = "list"])
     \/ ActiveCart(p, u) = {} /\ Goto(p, [at[p] EXCEPT !.pc = "create"])

MaxAttempts == 2

RetryInsert(p) ==   \* variant: only the failed insert is run again
  /\ Rollback(p)
  /\ IF at[p].tries + 1 < MaxAttempts
       THEN Goto(p, [at[p] EXCEPT !.tries = @ + 1])
       ELSE Done(p)

(* A unique violation restarts the transaction, once; then Merge fails,    *)
(* the login succeeds all the same and the cookie is kept.                 *)
Retry(p) ==
  /\ Rollback(p)
  /\ IF at[p].tries + 1 < MaxAttempts
       THEN Goto(p, [at[p] EXCEPT !.pc = "anon", !.tries = @ + 1])
       ELSE Done(p)

MergeCreate(p) ==
  LET u == at[p].owner IN
  /\ at[p].pc = "create"
  /\ Settled(p, u)
  /\ \/ Violates(p, u) /\ Retry(p)
     \/ /\ ~Violates(p, u)
        /\ \E n \in FreshCart(p, u) :
             /\ Write(p, CreateUserCart(u, n))
             /\ Goto(p, [at[p] EXCEPT !.cart = n, !.pc = "list"])

(* The visitor's lines, in the order they were added.                      *)
MergeList(p) ==
  LET a == at[p].anon  n == at[p].from IN
  /\ at[p].pc = "list"
  /\ NoStatement
  /\ \E rows \in SetToSeqs(ListCartItems(p, a, n)) :
       Goto(p, [at[p] EXCEPT !.listed = [v \in Variant |-> Read(p, lineRow(a, n, v))],
                             !.todo = rows, !.pc = "merge"])

MergeLine(p) ==
  LET v == Head(at[p].todo) IN
  /\ at[p].pc = "merge" /\ at[p].todo # <<>>
  /\ Write(p, UpsertCartItem(p, at[p].owner, at[p].cart, v, at[p].listed[v]))
  /\ Goto(p, [at[p] EXCEPT !.todo = Tail(@)])

MarkFirst(p) ==   \* variant: marked merged as soon as its lines are listed
  /\ at[p].pc = "merge"
  /\ Close(p, at[p].anon, at[p].from, "merged")
  /\ at' = [at EXCEPT ![p] = Idle]

(* The visitor's cart is closed with the commit.                           *)
MergeMark(p) ==
  /\ at[p].pc = "merge" /\ at[p].todo = <<>>
  /\ Close(p, at[p].anon, at[p].from, "merged")
  /\ at' = [at EXCEPT ![p] = Idle]

-------------------------------------------------------------------------------
(* The rows whose locks the next statement of p needs.                     *)
Wants(p) ==
  CASE at[p].pc \in {"ensure", "create"} -> IndexRows(at[p].owner)
    [] at[p].pc = "write" -> DOMAIN LinesWritten(p)
    [] at[p].pc = "merge" /\ at[p].todo # <<>> ->
         {lineRow(at[p].owner, at[p].cart, Head(at[p].todo))}
    [] at[p].pc = "merge" /\ at[p].todo = <<>> -> {cartRow(at[p].anon, at[p].from)}
    [] OTHER -> {}

(* A lost connection, or the victim of a deadlock: merges of two visitors  *)
(* into one user's cart lock its lines in the orders they were added.      *)
Abort(p) ==
  /\ p \in MayCrash \/ Victim(p, [q \in Handler |-> Wants(q)])
  /\ at[p].pc # "idle"
  /\ Rollback(p)
  /\ Done(p)

(* One UPDATE of the active anonymous carts whose updated_at, which no     *)
(* item statement touches, is past the cutoff.                             *)
DeleteAbandonedCarts == [r \in {c \in old : db[c] = "active"} |-> "abandoned"]

(* The worker's job runs it.                                               *)
Sweep ==
  /\ DeleteAbandonedCarts # NoWrites
  /\ CommitWith(Shop, DeleteAbandonedCarts)
  /\ old' = old \ DOMAIN DeleteAbandonedCarts
  /\ UNCHANGED at

(* Time passes the cutoff.  Closed carts have no use for it.               *)
Age(a, n) ==
  /\ db[cartRow(a, n)] = "active"
  /\ old' = old \cup {cartRow(a, n)}
  /\ UNCHANGED <<db, dirty, at>>

(* A confirm converts the user's cart (ConfirmRC has its statements).      *)
ConvertCart(u) ==
  /\ \E n \in ActiveCart(Shop, u) : Close(Shop, u, n, "converted")
  /\ UNCHANGED at

ItemStep(p)  == FindActive(p) \/ EnsureActive(p) \/ WriteLines(p)
MergeStep(p) == \/ MergeFindAnon(p) \/ MergeFindUser(p) \/ MergeCreate(p)
                \/ MergeList(p) \/ MergeLine(p) \/ MergeMark(p)

Next ==
  \/ \E p \in Handler : \/ \E r \in Request : Receive(p, r)
                        \/ ItemStep(p) \/ MergeStep(p) \/ Abort(p)
  \/ Sweep
  \/ \E a \in Anon : \E n \in CartNo[a] : Age(a, n)
  \/ \E u \in User : ConvertCart(u)

Spec == Init /\ [][Next]_vars
-------------------------------------------------------------------------------
(* Statuses and quantities: a line of a cart stays within 1..99 (0 where   *)
(* there is no line) however many adds and merges sum into it.             *)
TypeOK ==
  /\ \A w \in Owner : \A n \in CartNo[w] :
       /\ db[cartRow(w, n)] \in {"none", "active", "merged", "abandoned", "converted"}
       /\ \A v \in Variant : db[lineRow(w, n, v)] \in 0..MaxItemQuantity
  /\ old \subseteq UNION {IndexRows(a) : a \in Anon}
  /\ \A p \in Handler : at[p].tries < MaxAttempts

(* carts_user_active_uniq and carts_anon_active_uniq: however first adds,  *)
(* merges and conversions race, an owner has one active cart, so confirm   *)
(* and the item requests mean the same cart.                               *)
OneActiveCart ==
  \A w \in Owner : Cardinality({n \in CartNo[w] : db[cartRow(w, n)] = "active"}) <= 1

(* The retry of Merge reads again: its second insert can fail only if the  *)
(* cart that failed the first has been converted meanwhile.                *)
RetrySuffices ==
  \A p \in Handler : at[p].pc = "create" /\ at[p].tries = 1 =>
    \E n \in CartNo[at[p].owner] : db[cartRow(at[p].owner, n)] = "converted"

(* A merge is all or nothing: the one commit in which it changes anything  *)
(* ends it, closes the visitor's cart and leaves every line it listed in   *)
(* the user's; a merge that fails or is aborted changes neither cart.      *)
MergeAllOrNothing ==
  [][\A p \in Handler : at[p].op = "merge" /\ at'[p] # at[p] /\ db' # db =>
       /\ at'[p].pc = "idle"
       /\ db'[cartRow(at[p].anon, at[p].from)] = "merged"
       /\ \A v \in Variant :
            db'[lineRow(at[p].owner, at[p].cart, v)] >= at[p].listed[v]]_vars
===============================================================================
