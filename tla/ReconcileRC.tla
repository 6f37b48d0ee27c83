------------------------------ MODULE ReconcileRC ------------------------------
(***************************************************************************)
(* The webhook's Apply and the release job's RunReleaseExpiredOnce, one    *)
(* SQL statement per step, as concurrent READ COMMITTED transactions over  *)
(* the rows of RowStore.  ConfirmTx and the admin's set-stock touch only   *)
(* rows they lock first and enter here as single steps (ConfirmRC has the  *)
(* statements of ConfirmTx).  Stock stays far from the INT limit here.     *)
(*                                                                         *)
(* A step that ends in COMMIT carries the statements after the last lock   *)
(* of its transaction: TransitionOrderStatus, RecordTransition, COMMIT.    *)
(***************************************************************************)
EXTENDS OrderRows, SequencesExt

CONSTANTS
  Hook,           \* HTTP handlers running Apply
  Jobs,           \* workers running the release job: {} or one
  Shop,           \* the session of the one-step transactions
  Plan,           \* <<order, lines, coupon>> confirms may create
  MayExpire,      \* orders whose expires_at may pass
  MayCrash        \* sessions that may lose their connection at any time

ASSUME SessionAssumption ==
  /\ Proc = Hook \cup Jobs \cup {Shop}
  /\ Shop \notin Hook \cup Jobs /\ Hook \cap Jobs = {}
  /\ MayCrash \subseteq Hook \cup Jobs
ASSUME VariantAssumption ==                           \* ids have an order
  Variant \subseteq Nat /\ IsFiniteSet(Variant)
ASSUME PlanAssumption ==                              \* an empty cart has no quote
  /\ Plan \subseteq Order \X ([Variant -> 0..MaxQty] \ {NoLines}) \X (Coupon \cup {NoCoupon})
  /\ NoCoupon \notin Coupon /\ MaxQty \in Nat
ASSUME EventAssumption ==
  Event \subseteq [id : EventId, order : Order, type : {"paid", "failed"}, exact : BOOLEAN]
ASSUME OrderAssumption == IsFiniteSet(Order) /\ MayExpire \subseteq Order
ASSUME StockAssumption == StockLevel \subseteq Nat /\ InitStock \in [Variant -> Nat]

VARIABLES
  at,       \* [Hook \cup Jobs -> what the session's Go frame remembers]
  due       \* orders whose reservations are past expires_at

vars == <<db, dirty, at, due>>

eventRow(i) == <<"event", i>>
auditRow(o) == <<"audit", o>>    \* the order's audit rows, in commit order

NoOrder == [status |-> "none", item |-> NoLines, coupon |-> NoCoupon]

Row == {orderRow(o) : o \in Order} \cup {resvRow(o) : o \in Order}
         \cup {chargeRow(o) : o \in Order} \cup {auditRow(o) : o \in Order}
         \cup {stockRow(v) : v \in Variant} \cup {couponRow(c) : c \in Coupon}
         \cup {eventRow(i) : i \in EventId}

Empty == [order |-> NoOrder, resv |-> "none", charge |-> "none", audit |-> <<>>,
          coupon |-> 0, event |-> FALSE]

(* The frame of a session: next statement, what the transaction is doing,  *)
(* the order and event at hand, the variants still to update, in order,    *)
(* the orders the tick has left, and whether re-reserving fell short.      *)
Idle == [pc |-> "idle", task |-> "none", order |-> "none", event |-> "none",
         todo |-> <<>>, list |-> {}, short |-> FALSE]

Init ==
  /\ db = [r \in Row |-> IF r[1] = "stock" THEN [available |-> InitStock[r[2]], reserved |-> 0]
                                           ELSE Empty[r[1]]]
  /\ dirty = [p \in Proc |-> NoWrites]
  /\ at = [p \in Hook \cup Jobs |-> Idle]
  /\ due = {}

(* GetOrderByID                                                            *)
Status(p, o) == Read(p, orderRow(o)).status
LinesOf(o)   == {v \in Variant : Item(o)[v] > 0}

(* Moves session p to its next statement.                                  *)
Goto(p, frame) == at' = [at EXCEPT ![p] = frame] /\ UNCHANGED due

(* What the other statements write.                                        *)
RecordTransition(o, from, to) == Only(auditRow(o), Append(db[auditRow(o)], <<from, to>>))

InsertWebhookEvent(e) == Only(eventRow(e.id), TRUE)

SetChargeStatus(o, status) == Only(chargeRow(o), status)

CommitReservedStock(s, q) == IF s.reserved < q THEN s ELSE [s EXCEPT !.reserved = @ - q]

ReleaseReservedStock(s, q) ==
  IF s.reserved < q THEN s ELSE [s EXCEPT !.reserved = @ - q, !.available = @ + q]

MarkAll(p, o, status) == Only(resvRow(o), status)   \* variant: no WHERE status = 'held'

SetReservationStatus(p, o, status) ==
  IF Read(p, resvRow(o)) = "held" THEN Only(resvRow(o), status) ELSE NoWrites

ReleaseCoupon(p, c) ==
  IF Read(p, couponRow(c)) > 0 THEN Only(couponRow(c), Read(p, couponRow(c)) - 1) ELSE NoWrites

-------------------------------------------------------------------------------
(* Apply                                                                   *)

(* INSERT INTO payment_webhook_events ... ON CONFLICT DO NOTHING waits for *)
(* a transaction that inserted the same id, then inserts, or finds the row *)
(* and returns, which changes nothing.                                     *)
Deliver(h, e) ==
  /\ at[h].pc = "idle"
  /\ Unlocked(h, eventRow(e.id))
  /\ ~Read(h, eventRow(e.id))
  /\ Write(h, InsertWebhookEvent(e))
  /\ Goto(h, [Idle EXCEPT !.pc = "lookup", !.event = e, !.order = e.order])

(* GetChargeByProviderID: the charge the event names, or no row.            *)
ChargeFound(h, e) == Read(h, chargeRow(e.order)) # "none"

(* The webhook handles only an event of the order's amount that this       *)
(* status, read without a lock, allows.                                    *)
Concerned(h, e, status) ==
  /\ ChargeFound(h, e) /\ e.exact
  /\ \/ e.type = "failed" /\ status = "pending_payment"
     \/ e.type = "paid" /\ status \in {"pending_payment", "expired"}

TaskFor(e, status) ==
  IF e.type = "failed" THEN "fail" ELSE IF status = "expired" THEN "late" ELSE "pay"

(* The variants of an order are re-reserved in ascending order.            *)
Ascending(S) == {vs \in SetToSeqs(S) : \A i, j \in DOMAIN vs : i < j => vs[i] < vs[j]}

Begun(h, e, task) ==
  \/ /\ task = "late"
     /\ \E todo \in Ascending(LinesOf(e.order)) :
          Goto(h, [at[h] EXCEPT !.task = task, !.pc = "again", !.todo = todo])
  \/ /\ task # "late"
     /\ Goto(h, [at[h] EXCEPT !.task = task, !.pc = "list"])

LookupFailing(h) ==   \* variant: an event with nothing to do is an error
  LET e == at[h].event  status == Status(h, e.order) IN
  /\ at[h].pc = "lookup"
  /\ IF Concerned(h, e, status) THEN NoStatement /\ Begun(h, e, TaskFor(e, status))
                                ELSE Rollback(h) /\ Goto(h, Idle)

(* GetChargeByProviderID, GetOrderByID, the amount check and the switch.   *)
Lookup(h) ==
  LET e == at[h].event  status == Status(h, e.order) IN
  /\ at[h].pc = "lookup"
  /\ IF Concerned(h, e, status) THEN NoStatement /\ Begun(h, e, TaskFor(e, status))
                                ELSE Commit(h) /\ Goto(h, Idle)

(* reReserveSavepoint: ReserveStock and CommitReservedStock for the next   *)
(* line in ascending order; a shortfall rolls back to the savepoint.       *)
Shortfall(s, q) == s.available < q

ReserveAgain(h) ==
  LET v == Head(at[h].todo)  s == Read(h, stockRow(v))  q == Item(at[h].order)[v] IN
  /\ at[h].pc = "again"
  /\ Unlocked(h, stockRow(v))
  /\ IF Shortfall(s, q)
       THEN /\ dirty' = [dirty EXCEPT ![h] =
                           [r \in {x \in DOMAIN @ : x[1] # "stock"} |-> @[r]]]
            /\ UNCHANGED db
            /\ Goto(h, [at[h] EXCEPT !.todo = <<>>, !.short = TRUE, !.pc = "charge"])
       ELSE /\ Write(h, Only(stockRow(v), CommitReservedStock(ReserveStock(s, q), q)))
            /\ Goto(h, [at[h] EXCEPT !.todo = Tail(@),
                          !.pc = IF Len(at[h].todo) = 1 THEN "charge" ELSE "again"])

(* SetChargeStatus, by id, whatever the charge's status.                   *)
SetCharge(h) ==
  /\ at[h].pc = "charge"
  /\ Write(h, SetChargeStatus(at[h].order, IF at[h].task = "fail" THEN "failed" ELSE "paid"))
  /\ Goto(h, [at[h] EXCEPT !.pc = "finish"])

From(p) == IF at[p].task = "late" THEN "expired" ELSE "pending_payment"

To(p) == CASE at[p].task = "pay"    -> "paid"
           [] at[p].task = "fail"   -> "payment_failed"
           [] at[p].task = "expire" -> "expired"
           [] at[p].task = "late"   -> IF at[p].short THEN "paid_awaiting_stock" ELSE "paid"

TransitionUnguarded(p, o) ==   \* variant: no WHERE status = from
  Only(orderRow(o), [Read(p, orderRow(o)) EXCEPT !.status = To(p)])

(* TransitionOrderStatus: UPDATE ... WHERE status = from.  Apply drops the *)
(* number of rows it touched.                                              *)
Transition(p, o) ==
  IF Status(p, o) = From(p)
    THEN Only(orderRow(o), [Read(p, orderRow(o)) EXCEPT !.status = To(p)])
    ELSE NoWrites

Finish(h) ==
  LET o == at[h].order IN
  /\ h \in Hook /\ at[h].pc = "finish"
  /\ Unlocked(h, orderRow(o))
  /\ CommitWith(h, Together(Transition(h, o), RecordTransition(o, From(h), To(h))))
  /\ Goto(h, Idle)

-------------------------------------------------------------------------------
(* commitHeld, releaseHeld and the job's copy of releaseHeld               *)

(* ListReservationsByOrder has no ORDER BY; the rows found held are kept   *)
(* in memory and updated in the order they came.                           *)
HeldReservations(p, o) == IF Read(p, resvRow(o)) = "held" THEN LinesOf(o) ELSE {}

List(p) ==
  LET held == HeldReservations(p, at[p].order) IN
  /\ at[p].pc = "list"
  /\ \E rows \in SetToSeqs(held) : Goto(p, [at[p] EXCEPT !.pc = "stock", !.todo = rows])
  /\ NoStatement

Resolved(s, q, task) ==
  IF task = "pay" THEN CommitReservedStock(s, q) ELSE ReleaseReservedStock(s, q)

ResolveStock(p) ==
  LET v == Head(at[p].todo)  s == Read(p, stockRow(v))  q == Item(at[p].order)[v] IN
  /\ at[p].pc = "stock" /\ at[p].todo # <<>>
  /\ Write(p, Only(stockRow(v), Resolved(s, q, at[p].task)))
  /\ Goto(p, [at[p] EXCEPT !.todo = Tail(@)])

Marked(p) == IF at[p].task = "pay" THEN "committed" ELSE "released"

AfterMarkKeepsCoupon(p) ==   \* variant: a failed payment keeps the redemption
  CASE at[p].task \in {"pay", "fail"} -> "charge"
    [] at[p].task = "expire" /\ Code(at[p].order) # NoCoupon -> "coupon"
    [] at[p].task = "expire" /\ Code(at[p].order) = NoCoupon -> "finish"

AfterMark(p) ==
  CASE at[p].task = "pay" -> "charge"
    [] at[p].task # "pay" /\ Code(at[p].order) # NoCoupon -> "coupon"
    [] at[p].task = "fail" /\ Code(at[p].order) = NoCoupon -> "charge"
    [] at[p].task = "expire" /\ Code(at[p].order) = NoCoupon -> "finish"

MarkReservations(p) ==
  LET o == at[p].order IN
  /\ at[p].pc = "stock" /\ at[p].todo = <<>>
  /\ Unlocked(p, resvRow(o))
  /\ Write(p, SetReservationStatus(p, o, Marked(p)))
  /\ Goto(p, [at[p] EXCEPT !.pc = AfterMark(p)])

GiveBackCoupon(p) ==
  LET c == Code(at[p].order) IN
  /\ at[p].pc = "coupon"
  /\ Unlocked(p, couponRow(c))
  /\ Write(p, ReleaseCoupon(p, c))
  /\ Goto(p, [at[p] EXCEPT !.pc = IF at[p].task = "fail" THEN "charge" ELSE "finish"])

-------------------------------------------------------------------------------
(* RunReleaseExpiredOnce                                                   *)

(* The list is read outside any transaction.                               *)
ListExpiredHeldOrderIDs == {o \in due : db[resvRow(o)] = "held"}

Tick(j) ==
  LET list == ListExpiredHeldOrderIDs IN
  /\ at[j].pc = "idle" /\ list # {}
  /\ Goto(j, [Idle EXCEPT !.pc = "next", !.list = list])
  /\ NoStatement

Unpaid(j, o) == Read(j, chargeRow(o)) # "paid"   \* variant: the guard inverted

(* HasPaidCharge: a paid order is left to the webhook.                     *)
HasPaidCharge(j, o) == Read(j, chargeRow(o)) = "paid"

(* The next order of the tick: HasPaidCharge, or the end of the tick.      *)
NextOrder(j) ==
  /\ at[j].pc = "next"
  /\ NoStatement
  /\ \/ at[j].list = {} /\ Goto(j, Idle)
     \/ \E o \in at[j].list :
          IF HasPaidCharge(j, o)
            THEN Goto(j, [at[j] EXCEPT !.list = @ \ {o}])
            ELSE Goto(j, [at[j] EXCEPT !.list = @ \ {o}, !.order = o,
                            !.pc = "expire", !.task = "expire"])

(* TransitionOrderStatus first, and its row count is obeyed.               *)
ExpireOrder(j) ==
  LET o == at[j].order IN
  /\ at[j].pc = "expire"
  /\ Unlocked(j, orderRow(o))
  /\ IF Status(j, o) = "pending_payment"
       THEN Write(j, Transition(j, o)) /\ Goto(j, [at[j] EXCEPT !.pc = "list"])
       ELSE Rollback(j) /\ Goto(j, [Idle EXCEPT !.pc = "next", !.list = at[j].list])

FinishOrder(j) ==
  /\ j \in Jobs /\ at[j].pc = "finish"
  /\ CommitWith(j, RecordTransition(at[j].order, From(j), To(j)))
  /\ Goto(j, [Idle EXCEPT !.pc = "next", !.list = at[j].list])

-------------------------------------------------------------------------------
(* Waiting, deadlock and failure                                           *)

(* The row whose lock the next statement of p needs, if any.               *)
Wants(p) ==
  LET o == at[p].order IN
  CASE at[p].pc \in {"again", "stock"} /\ at[p].todo # <<>> -> {stockRow(Head(at[p].todo))}
    [] at[p].pc = "stock" /\ at[p].todo = <<>> -> {resvRow(o)}
    [] at[p].pc = "coupon" -> {couponRow(Code(o))}
    [] at[p].pc = "charge" -> {chargeRow(o)}
    [] at[p].pc \in {"expire", "finish"} -> {orderRow(o)}
    [] OTHER -> {}

(* A deadlock or a lost connection rolls the transaction back: the webhook *)
(* answers 500 and the event is not recorded; the job gives up its tick.   *)
Abort(p) ==
  /\ p \in MayCrash \/ Victim(p, [q \in Hook \cup Jobs |-> Wants(q)])
  /\ at[p].pc # "idle"
  /\ Rollback(p)
  /\ Goto(p, Idle)

-------------------------------------------------------------------------------
(* One-step transactions of other sessions                                 *)

(* RedeemCoupon's condition, evaluated on the row ConfirmTx locks.      *)
CouponFree(c) == UsageLimit[c] # NoLimit => db[couponRow(c)] < UsageLimit[c]

NewOrder(o, lines, c) ==
  Together(Only(orderRow(o), [status |-> "pending_payment", item |-> lines, coupon |-> c]),
  Together(Only(resvRow(o), "held"),
  Together(Only(chargeRow(o), "pending"), RecordTransition(o, "none", "pending_payment"))))

Reserved(lines) == [r \in {stockRow(v) : v \in {w \in Variant : lines[w] > 0}} |->
                      ReserveStock(db[r], lines[r[2]])]

RedeemCoupon(c) == [r \in {couponRow(d) : d \in {c} \cap Coupon} |-> db[r] + 1]

ConfirmTx(o, lines, c) ==
  /\ db[orderRow(o)].status = "none"
  /\ \A v \in Variant : db[stockRow(v)].available >= lines[v]
  /\ c # NoCoupon => CouponFree(c)
  /\ CommitWith(Shop, Together(NewOrder(o, lines, c), Together(Reserved(lines), RedeemCoupon(c))))
  /\ UNCHANGED <<at, due>>

SetStock(v, n) ==
  /\ CommitWith(Shop, Only(stockRow(v), [db[stockRow(v)] EXCEPT !.available = n]))
  /\ UNCHANGED <<at, due>>

(* Time passes: the order's reservations are now past expires_at.          *)
ReservationDue(o) ==
  /\ db[resvRow(o)] = "held"
  /\ due' = due \cup {o}
  /\ UNCHANGED <<db, dirty, at>>

-------------------------------------------------------------------------------
HookStep(h) == Lookup(h) \/ ReserveAgain(h) \/ SetCharge(h) \/ Finish(h)
JobStep(j)  == NextOrder(j) \/ ExpireOrder(j) \/ FinishOrder(j)
Shared(p)   == List(p) \/ ResolveStock(p) \/ MarkReservations(p) \/ GiveBackCoupon(p)

Next ==
  \/ \E h \in Hook : \/ \E e \in Event : Deliver(h, e)
                     \/ HookStep(h) \/ Shared(h) \/ Abort(h)
  \/ \E j \in Jobs : Tick(j) \/ JobStep(j) \/ Shared(j) \/ Abort(j)
  \/ \E plan \in Plan : ConfirmTx(plan[1], plan[2], plan[3])
  \/ \E v \in Variant, n \in StockLevel : SetStock(v, n)
  \/ \E o \in MayExpire : ReservationDue(o)

Spec == Init /\ [][Next]_vars

(* A running handler or job is scheduled and in the end granted the lock   *)
(* it waits for (Postgres queues the waiters of a row, so a statement that *)
(* waits when the lock is released gets it); Postgres breaks deadlocks;    *)
(* river ticks; the provider redelivers an event until it is answered 200. *)
FairSpec ==
  /\ Spec
  /\ \A h \in Hook : /\ SF_vars(HookStep(h) \/ Shared(h))
                     /\ SF_vars(Finish(h))
                     /\ WF_vars(Abort(h))
  /\ \A j \in Jobs : SF_vars(JobStep(j) \/ Shared(j)) /\ WF_vars(Abort(j)) /\ WF_vars(Tick(j))
  /\ \A e \in Event : SF_vars(\E h \in Hook : Deliver(h, e))
  /\ \A o \in MayExpire : WF_vars(ReservationDue(o))

-------------------------------------------------------------------------------
(* The committed rows, read as the tables of Settlement.                   *)
S == INSTANCE Settlement WITH
  order     <- [o \in Order |-> db[orderRow(o)].status],
  item      <- [o \in Order |-> db[orderRow(o)].item],
  couponOf  <- [o \in Order |-> db[orderRow(o)].coupon],
  resv      <- [o \in Order |-> db[resvRow(o)]],
  charge    <- [o \in Order |-> db[chargeRow(o)]],
  available <- [v \in Variant |-> db[stockRow(v)].available],
  reserved  <- [v \in Variant |-> db[stockRow(v)].reserved],
  used      <- [c \in Coupon |-> db[couponRow(c)]],
  lapsed    <- {},
  seen      <- {i \in EventId : db[eventRow(i)]},
  audit     <- UNION {{<<o, t[1], t[2]>> : t \in ToSet(db[auditRow(o)])} : o \in Order}

(* Transactions on different orders are serialisable: what the statements  *)
(* of interleaved handlers, retries and job ticks commit is what some      *)
(* one-at-a-time execution of section 5 of the design commits.             *)
ImplementsSettlement == S!Spec

(* C2, "the payment is NEVER dropped".                                     *)
PaymentNeverDropped == S!PaymentNeverDropped

(* Every event the provider keeps delivering is recorded: no deadlock or   *)
(* lock wait starves it.                                                   *)
EveryEventRecorded == \A e \in Event : <>db[eventRow(e.id)]

(* Every created order leaves pending_payment, although the job and the    *)
(* webhook deadlock on it and abort each other.                            *)
EveryOrderResolved == S!EveryOrderResolved
===============================================================================
