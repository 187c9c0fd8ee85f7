------------------------------ MODULE Settlement ------------------------------
(***************************************************************************)
(* What happens to an order once it is placed: confirmation, cancellation, *)
(* refund and expiry, requested by staff, by the attendee, by Stripe's     *)
(* webhook and by the expiry sweep.  A request reads the order without a   *)
(* lock, checks that copy, and only then runs its transaction; refunds     *)
(* call Stripe in between; webhook deliveries are repeated until they are  *)
(* acknowledged and sometimes after.  Server processes may die between any *)
(* two steps, and the database or the broker may fail any of them.  The    *)
(* seat locks are in Checkout.                                             *)
(***************************************************************************)
EXTENDS OrderStore

CONSTANTS
  Workers,             \* server processes that run requests
  SweepInTransaction   \* is expire_pending_orders called inside a transaction?

ASSUME SettlementAssumption == SweepInTransaction \in BOOLEAN

VARIABLES
  worker,    \* the request each worker runs
  charged,   \* Stripe: is the order's PaymentIntent paid?
  refunds,   \* Stripe: Refund objects created for the order
  sent,      \* Stripe: webhook events that exist
  acked,     \* Stripe: webhook events answered with 200
  ledger,    \* ProcessedStripeEvent rows
  starts,    \* history: how often each webhook event got past the ledger
  enqueued,  \* tickets whose asset task was handed to the broker
  hooks_cut, \* history: webhook events whose worker died on them or failed
  tasks_cut  \* history: orders whose worker died or failed publishing their tasks

requestVars == <<worker, enqueued>>
stripeVars == <<charged, refunds, sent, acked>>
hookVars == <<ledger, starts>>
cutVars == <<hooks_cut, tasks_cut>>
vars == <<storeVars, requestVars, stripeVars, hookVars, cutVars>>

(* One PaymentIntent per order (idempotency_key), and of each kind of      *)
(* event one per PaymentIntent: a bound, a second decline does nothing new. *)
StripeEvents == {"succeeded", "payment_failed"} \X Orders
NoEvent == <<"none">>

Steps == {"confirm", "enqueue", "cancel", "refund_stripe", "refund", "lookup"}
Running(o, step, event) == [order |-> o, step |-> step, event |-> event]
Idle == [step |-> "idle"]
Requests == [order : Orders, step : Steps, event : StripeEvents \cup {NoEvent}]

Init ==
  /\ StoreInit
  /\ worker = [w \in Workers |-> Idle]
  /\ charged = [o \in Orders |-> FALSE]
  /\ refunds = [o \in Orders |-> 0]
  /\ sent = {} /\ acked = {} /\ ledger = {}
  /\ starts = [e \in StripeEvents |-> 0]
  /\ enqueued = {}
  /\ hooks_cut = {} /\ tasks_cut = {}

At(w, step) == worker[w] # Idle /\ worker[w].step = step
Handles(w, e) == worker[w] # Idle /\ worker[w].event = e
Become(w, request) == worker' = [worker EXCEPT ![w] = request]

(* The tickets of an order: what dispatch_tasks publishes a task for each. *)
TicketsOf(o) == OrderRows(o, items[o])

(* A request ends, with an answer or by a refusal; stripe_webhook catches  *)
(* the refusal and answers 200.                                            *)
Finish(w) ==
  /\ Become(w, Idle)
  /\ acked' = acked \cup ({worker[w].event} \ {NoEvent})

-----------------------------------------------------------------------------
(* The endpoints: each reads the order and checks that copy.  A request    *)
(* that fails these checks changes nothing.                                *)

Readable(o, allowed) == status[o] \in allowed /\ ~is_deleted[o]
(* Mutant: at its deadline an order counts as expired already. *)
ConfirmableBefore(o) == Readable(o, {"PENDING"}) /\ expires_at[o] > now
Confirmable(o) == Readable(o, {"PENDING"}) /\ ~IsExpired(o)
Cancellable(o) == Readable(o, {s \in Statuses : "CANCELLED" \in Transitions[s]})

Request(w, o, step) ==
  /\ worker[w] = Idle
  /\ Become(w, Running(o, step, NoEvent))
  /\ UNCHANGED <<storeVars, stripeVars, hookVars, enqueued, cutVars>>

BeginConfirm(w, o) == Confirmable(o) /\ Request(w, o, "confirm")
BeginCancel(w, o) == Cancellable(o) /\ Request(w, o, "cancel")
BeginRefund(w, o) ==
  Readable(o, {"CONFIRMED"}) /\ intent[o] /\ Request(w, o, "refund_stripe")

(* The admin site's batch reads all its orders first and then runs one     *)
(* such request after another, whatever became of the one before; an order *)
(* without an intent is refused later.                                     *)
RefundSelected(w, o) == Readable(o, {"CONFIRMED"}) /\ Request(w, o, "refund_stripe")

Begin(w, o) ==
  BeginConfirm(w, o) \/ BeginCancel(w, o) \/ BeginRefund(w, o) \/ RefundSelected(w, o)

(* The webhook first commits its ledger row, in a transaction of its own.  *)
(* Mutant: no unique constraint on the ledger. *)
NewEventUnguarded(w, e) ==
  /\ e \in sent
  /\ worker[w] = Idle
  /\ ledger' = ledger \cup {e}
  /\ starts' = [starts EXCEPT ![e] = @ + 1]
  /\ Become(w, Running(e[2], "lookup", e))
  /\ UNCHANGED <<storeVars, stripeVars, enqueued, cutVars>>

NewEvent(w, e) ==
  /\ e \in sent /\ e \notin ledger
  /\ worker[w] = Idle
  /\ ledger' = ledger \cup {e}
  /\ starts' = [starts EXCEPT ![e] = @ + 1]
  /\ Become(w, Running(e[2], "lookup", e))
  /\ UNCHANGED <<storeVars, stripeVars, enqueued, cutVars>>

(* IntegrityError on that row: answered 200, nothing is done.              *)
(* Mutant: any other error of that statement counts as one, too.           *)
AnyEvent(w, e) ==
  /\ e \in sent
  /\ worker[w] = Idle
  /\ acked' = acked \cup {e}
  /\ UNCHANGED <<storeVars, requestVars, charged, refunds, sent, hookVars, cutVars>>

KnownEvent(w, e) ==
  /\ e \in sent /\ e \in ledger
  /\ worker[w] = Idle
  /\ acked' = acked \cup {e}
  /\ UNCHANGED <<storeVars, requestVars, charged, refunds, sent, hookVars, cutVars>>

Deliver(w, e) == NewEvent(w, e) \/ KnownEvent(w, e)

(* Then it finds the order by its PaymentIntent, and confirm_order or      *)
(* cancel_order checks that copy.                                          *)
HookLookup(w) ==
  /\ At(w, "lookup")
  /\ LET o == worker[w].order
         e == worker[w].event
         found == intent[o] /\ ~is_deleted[o]
     IN \/ /\ found /\ e[1] = "succeeded" /\ Confirmable(o)
           /\ Become(w, Running(o, "confirm", e))
           /\ UNCHANGED acked
        \/ /\ found /\ e[1] = "payment_failed" /\ Cancellable(o)
           /\ Become(w, Running(o, "cancel", e))
           /\ UNCHANGED acked
        \/ /\ \/ ~found
              \/ e[1] = "succeeded" /\ ~Confirmable(o)
              \/ e[1] = "payment_failed" /\ ~Cancellable(o)
           /\ Finish(w)
  /\ UNCHANGED <<storeVars, charged, refunds, sent, ledger, starts, enqueued, cutVars>>

-----------------------------------------------------------------------------
(* The transactions.                                                       *)

(* The locked row is no longer what the copy said: the request fails.      *)
Refused(w, step, allowed) ==
  /\ At(w, step)
  /\ ~Locked(worker[w].order, allowed)
  /\ Finish(w)
  /\ UNCHANGED <<storeVars, charged, refunds, sent, ledger, starts, enqueued, cutVars>>

(* The webhook passes the PaymentIntent's id; staff may or may not.        *)
Confirm(w) ==
  /\ At(w, "confirm")
  /\ \E with_intent \in BOOLEAN :
       /\ worker[w].event # NoEvent => with_intent
       /\ ConfirmTx(worker[w].order, with_intent)
  /\ Become(w, [worker[w] EXCEPT !.step = "enqueue"])
  /\ UNCHANGED <<stripeVars, hookVars, enqueued, cutVars>>

(* transaction.on_commit(dispatch_tasks): after the commit, from this      *)
(* process's memory, one task per ticket.                                  *)
Enqueue(w) ==
  /\ At(w, "enqueue")
  /\ \E r \in TicketsOf(worker[w].order) \ enqueued : enqueued' = enqueued \cup {r}
  /\ UNCHANGED <<storeVars, worker, stripeVars, hookVars, cutVars>>

(* Mutant: the loop ends after its first ticket. *)
DispatchedOne(w) ==
  /\ At(w, "enqueue")
  /\ TicketsOf(worker[w].order) \cap enqueued # {}
  /\ Finish(w)
  /\ UNCHANGED <<storeVars, charged, refunds, sent, ledger, starts, enqueued, cutVars>>

Dispatched(w) ==
  /\ At(w, "enqueue")
  /\ TicketsOf(worker[w].order) \subseteq enqueued
  /\ Finish(w)
  /\ UNCHANGED <<storeVars, charged, refunds, sent, ledger, starts, enqueued, cutVars>>

Cancel(w) ==
  /\ At(w, "cancel")
  /\ CancelTx(worker[w].order)
  /\ Finish(w)
  /\ UNCHANGED <<charged, refunds, sent, ledger, starts, enqueued, cutVars>>

(* Refund.create with the key refund_<order id>: Stripe answers a repeated *)
(* key with the first Refund, and refuses when nothing was paid.  The      *)
(* answer may be lost, and then the request fails with 502.                *)
StripeRefundCount(o) == IF charged[o] /\ refunds[o] = 0 THEN 1 ELSE refunds[o]

RefundAtStripe(w) ==
  /\ At(w, "refund_stripe")
  /\ LET o == worker[w].order IN
       /\ charged[o]
       /\ refunds' = [refunds EXCEPT ![o] = StripeRefundCount(o)]
       /\ \/ Become(w, Running(o, "refund", NoEvent))
          \/ Become(w, Idle)
  /\ UNCHANGED <<storeVars, charged, sent, acked, hookVars, enqueued, cutVars>>

RefundFails(w) ==
  /\ At(w, "refund_stripe")
  /\ Become(w, Idle)
  /\ UNCHANGED <<storeVars, stripeVars, hookVars, enqueued, cutVars>>

Refund(w) ==
  /\ At(w, "refund")
  /\ RefundTx(worker[w].order)
  /\ Finish(w)
  /\ UNCHANGED <<charged, refunds, sent, ledger, starts, enqueued, cutVars>>

Work(w) ==
  \/ HookLookup(w)
  \/ Confirm(w) \/ Refused(w, "confirm", {"PENDING"})
  \/ Enqueue(w) \/ Dispatched(w)
  \/ Cancel(w) \/ Refused(w, "cancel", {"PENDING"})
  \/ RefundAtStripe(w) \/ RefundFails(w)
  \/ Refund(w) \/ Refused(w, "refund", {"CONFIRMED"})

(* What is lost with a request that ends before its work is done: the      *)
(* event it was about to apply, or the tasks it was publishing.            *)
Cut(w) ==
  /\ hooks_cut' = hooks_cut \cup
       (IF At(w, "enqueue") THEN {} ELSE {worker[w].event} \ {NoEvent})
  /\ tasks_cut' = tasks_cut \cup (IF At(w, "enqueue") THEN {worker[w].order} ELSE {})

(* The database fails the lookup or the transaction, or the broker refuses *)
(* a task.  stripe_webhook answers 200 all the same, except for its lookup *)
(* of the order, which is outside its try: that is a 500.                  *)
Fails(w) ==
  /\ worker[w] # Idle
  /\ IF At(w, "lookup") THEN Become(w, Idle) /\ UNCHANGED acked ELSE Finish(w)
  /\ Cut(w)
  /\ UNCHANGED <<storeVars, charged, refunds, sent, hookVars, enqueued>>

Crash(w) ==
  /\ worker[w] # Idle
  /\ Become(w, Idle)
  /\ Cut(w)
  /\ UNCHANGED <<storeVars, stripeVars, hookVars, enqueued>>

-----------------------------------------------------------------------------
(* Everybody else.                                                         *)

(* expire_pending_orders evaluates a select_for_update queryset: outside a *)
(* transaction, as its task calls it, that raises before the first row;    *)
(* for a caller inside one, each row of its loop goes through              *)
(* cancel_order.                                                           *)
(* Mutant: one UPDATE of the status.                                       *)
SweepByUpdate(o) ==
  /\ SweepInTransaction
  /\ IsExpired(o)
  /\ status' = [status EXCEPT ![o] = "CANCELLED"]
  /\ UNCHANGED <<items, expires_at, intent, is_deleted, saleVars, on_sale, now>>
  /\ UNCHANGED <<requestVars, stripeVars, hookVars, cutVars>>

SweepOrder(o) ==
  /\ SweepInTransaction
  /\ IsExpired(o)
  /\ CancelTx(o)
  /\ UNCHANGED <<requestVars, stripeVars, hookVars, cutVars>>

Place(o) ==
  /\ \E q \in Carts : CreateTx(o, q)
  /\ UNCHANGED <<requestVars, stripeVars, hookVars, cutVars>>

Attach(o) ==
  /\ ~intent[o]
  /\ AttachTx(o)
  /\ UNCHANGED <<requestVars, stripeVars, hookVars, cutVars>>

DeleteOrder(o) ==
  SoftDelete(o) /\ UNCHANGED <<requestVars, stripeVars, hookVars, cutVars>>

PassTime == Tick /\ UNCHANGED <<requestVars, stripeVars, hookVars, cutVars>>

(* Stripe: the attendee pays, or a card is declined.  A declined           *)
(* PaymentIntent can still be paid, and nothing here cancels one.          *)
Pay(o) ==
  /\ intent[o] /\ ~charged[o]
  /\ charged' = [charged EXCEPT ![o] = TRUE]
  /\ sent' = sent \cup {<<"succeeded", o>>}
  /\ UNCHANGED <<storeVars, requestVars, refunds, acked, hookVars, cutVars>>

Decline(o) ==
  /\ intent[o] /\ ~charged[o]
  /\ sent' = sent \cup {<<"payment_failed", o>>}
  /\ UNCHANGED <<storeVars, requestVars, charged, refunds, acked, hookVars, cutVars>>

Next ==
  \/ \E w \in Workers :
       \/ \E o \in Orders : Begin(w, o)
       \/ \E e \in StripeEvents : Deliver(w, e)
       \/ Work(w)
       \/ Fails(w)
       \/ Crash(w)
  \/ \E o \in Orders :
       SweepOrder(o) \/ Place(o) \/ Attach(o) \/ DeleteOrder(o) \/ Pay(o) \/ Decline(o)
  \/ PassTime

Spec == Init /\ [][Next]_vars

(* A request that runs keeps running; Stripe repeats what was not answered *)
(* until it meets a free worker.  Nobody is bound to call the sweep inside *)
(* a transaction.                                                          *)
FairSpec ==
  /\ Spec
  /\ \A w \in Workers : WF_vars(Work(w))
  /\ \A e \in StripeEvents :
       SF_vars(e \notin acked /\ \E w \in Workers : Deliver(w, e))

(* The sweep as its docstring has it: called again and again by Beat.      *)
SweptSpec == FairSpec /\ \A o \in Orders : WF_vars(SweepOrder(o))

-----------------------------------------------------------------------------

TypeOK ==
  /\ StoreTypeOK
  /\ worker \in [Workers -> {Idle} \cup Requests]
  /\ charged \in [Orders -> BOOLEAN]
  /\ refunds \in [Orders -> Nat]
  /\ sent \subseteq StripeEvents /\ acked \subseteq StripeEvents
  /\ ledger \subseteq StripeEvents
  /\ starts \in [StripeEvents -> Nat]
  /\ enqueued \subseteq Rows
  /\ hooks_cut \subseteq StripeEvents /\ tasks_cut \subseteq Orders

(* Whatever the requests saw when they began, the tables only ever change  *)
(* by a transaction of OrderStore: inventory is restored exactly once.     *)
ImplementsStore == StoreSpec

(* An order changes status only along the transitions, and a confirmed one *)
(* is never cancelled, however stale the copy a cancellation checked       *)
(* (models.py:25-30, services.py:292-296).                                 *)
StatusMovesForward ==
  [][\A o \in Orders : status'[o] # status[o] =>
       /\ status'[o] \in Transitions[status[o]]
       /\ status[o] = "CONFIRMED" => status'[o] = "REFUNDED"]_vars

(* Stripe gives the money of an order back at most once, although two      *)
(* refund requests may both see it CONFIRMED, die, or be repeated          *)
(* (payment.py:83-84).                                                     *)
RefundedAtMostOnce == \A o \in Orders : refunds[o] <= 1

(* REFUNDED is only ever recorded after Stripe refunded, and Stripe never  *)
(* refunds an order that ends up anything but CONFIRMED or REFUNDED: the   *)
(* manual reconciliation branch never leaves seats with a refunded order   *)
(* that was cancelled (services.py:333-366).                               *)
RefundAgreesWithStripe ==
  \A o \in Orders :
    /\ status[o] = "REFUNDED" => refunds[o] > 0
    /\ refunds[o] > 0 => status[o] \in {"CONFIRMED", "REFUNDED"}

(* A webhook event reaches the order's state machine at most once, however *)
(* often and however concurrently Stripe delivers it: the ledger counts    *)
(* the starts (webhook_views.py:40-48).                                    *)
LedgerCountsStarts ==
  \A e \in StripeEvents : starts[e] = IF e \in ledger THEN 1 ELSE 0

(* A refund request saw the order CONFIRMED, and one that is about to      *)
(* record the refund has Stripe's (services.py:343-353).                   *)
RefundersSawConfirmed ==
  \A w \in Workers :
    /\ At(w, "refund_stripe") \/ At(w, "refund") =>
         status[worker[w].order] \in {"CONFIRMED", "REFUNDED"}
    /\ At(w, "refund") => refunds[worker[w].order] > 0

(* Only webhook deliveries have an event, and only once it is in the       *)
(* ledger.                                                                 *)
LedgerMeansStarted ==
  /\ acked \subseteq ledger
  /\ \A w \in Workers : worker[w] # Idle =>
       /\ worker[w].event \in ledger \cup {NoEvent}
       /\ worker[w].step \in {"refund_stripe", "refund"} => worker[w].event = NoEvent

LedgerInv ==
  /\ TypeOK
  /\ LedgerCountsStarts
  /\ LedgerMeansStarted
  /\ RefundersSawConfirmed
  /\ RefundedAtMostOnce
  /\ RefundAgreesWithStripe

(* What an event, its PaymentIntent and its order have to do with each     *)
(* other, and a worker with them.                                          *)
EventsFit ==
  /\ \A o \in Orders :
       /\ intent[o] => status[o] # "none"
       /\ charged[o] => intent[o]
       /\ <<"succeeded", o>> \in sent <=> charged[o]
       /\ <<"payment_failed", o>> \in sent => intent[o]
  /\ ledger \subseteq sent
  /\ \A w \in Workers : worker[w] # Idle =>
       /\ worker[w].event # NoEvent => worker[w].order = worker[w].event[2]
       /\ At(w, "enqueue") => status[worker[w].order] \in {"CONFIRMED", "REFUNDED"}

Overdue(o) == IsExpired(o) /\ ~is_deleted[o]
Moot(o) == status[o] # "PENDING" \/ Overdue(o) \/ is_deleted[o]

(* The tickets of an order that was confirmed, and no others, are handed   *)
(* to the asset workers, each of them, or a process still has to, or it    *)
(* died or was refused halfway, which nobody repeats (services.py:252-258, *)
(* webhook_views.py:79-85).                                                *)
TicketsHandedOn ==
  /\ \A o \in Orders : status[o] \in {"CONFIRMED", "REFUNDED"} =>
       \/ TicketsOf(o) \subseteq enqueued
       \/ o \in tasks_cut
       \/ \E w \in Workers : At(w, "enqueue") /\ worker[w].order = o
  /\ \A r \in enqueued : /\ status[r[1]] \in {"CONFIRMED", "REFUNDED"}
                         /\ r \in TicketsOf(r[1])

(* The inductive invariant. *)
SettlementInv == LedgerInv /\ EventsFit /\ TicketsHandedOn

(* What an event is to bring about: a paid order is not left PENDING if it *)
(* can still be confirmed, a declined one not at all.                      *)
Settled(e) ==
  IF e[1] = "succeeded" THEN Moot(e[2])
                        ELSE status[e[2]] # "PENDING" \/ is_deleted[e[2]]

(* No event of Stripe's is forgotten, although the ledger row makes every  *)
(* repetition look like a duplicate and errors are answered with 200: it   *)
(* is yet to be taken, a worker is on it, its order has left PENDING, or   *)
(* the one worker that took it died or failed on it                        *)
(* (webhook_views.py:40-85).                                               *)
EventsPursued ==
  \A e \in sent :
    \/ Settled(e)
    \/ e \notin ledger
    \/ e \in hooks_cut
    \/ \E w \in Workers : Handles(w, e)

(* An order past its deadline does not stay PENDING: the sweep cancels it  *)
(* if nothing else closed it (services.py:397-412).                        *)
OverdueOrdersClose == \A o \in Orders : Overdue(o) ~> ~Overdue(o)

(* A paid order does not stay PENDING: the webhook confirms it, unless the *)
(* deadline passes or staff delete it first, or its worker dies or fails.  *)
PaidOrdersSettle ==
  \A o \in Orders :
    charged[o] ~> Moot(o) \/ <<"succeeded", o>> \in hooks_cut

(* Every ticket of a confirmed order is handed to the asset workers, but   *)
(* for a process that dies or is refused by the broker after it committed  *)
(* the confirmation: the hook lives in its memory, and the webhook answers *)
(* 200 to either (services.py:252-258, webhook_views.py:79-85).            *)
ConfirmedOrdersGetTickets ==
  \A o \in Orders :
    (status[o] = "CONFIRMED") ~> (TicketsOf(o) \subseteq enqueued \/ o \in tasks_cut)
=============================================================================
