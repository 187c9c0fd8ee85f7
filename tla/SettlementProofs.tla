--------------------------- MODULE SettlementProofs ---------------------------
(***************************************************************************)
(* Proofs about confirmation, cancellation, refund, webhooks and expiry    *)
(* for any number of server processes, orders and events: they write the   *)
(* order tables only through the transactions of OrderStore, an order's    *)
(* status only moves forward, its money goes back at most once and only    *)
(* when it was confirmed, a webhook event is acted upon at most once, and  *)
(* no payment and no confirmation is forgotten.                            *)
(***************************************************************************)
EXTENDS Settlement, OrderStoreProofs

(* A worker that is at some step runs a request for an order. *)
LEMMA Busy ==
  ASSUME TypeOK, NEW w \in Workers, NEW step, At(w, step)
  PROVE  worker[w] \in Requests /\ worker[w].order \in Orders
BY DEF TypeOK, At, Requests

(* Every step, a crash included, is one of the transactions of OrderStore  *)
(* or leaves the order tables alone.                                       *)
LEMMA SettlementStep ==
  ASSUME TypeOK, [Next]_vars
  PROVE  [StoreNext]_storeVars
<1>1. ASSUME NEW w \in Workers, Work(w) PROVE [StoreNext]_storeVars
  <2>1. CASE Confirm(w)
    <3>1. worker[w].order \in Orders
      BY <2>1, Busy DEF Confirm
    <3> QED BY <2>1, <3>1 DEF Confirm, StoreNext
  <2>2. CASE Cancel(w)
    <3>1. worker[w].order \in Orders
      BY <2>2, Busy DEF Cancel
    <3> QED BY <2>2, <3>1 DEF Cancel, StoreNext
  <2>3. CASE Refund(w)
    <3>1. worker[w].order \in Orders
      BY <2>3, Busy DEF Refund
    <3> QED BY <2>3, <3>1 DEF Refund, StoreNext
  <2>4. CASE \E step, allowed : Refused(w, step, allowed)
    BY <2>4 DEF Refused
  <2>5. CASE \/ HookLookup(w) \/ Enqueue(w) \/ Dispatched(w)
             \/ RefundAtStripe(w) \/ RefundFails(w)
    BY <2>5 DEF HookLookup, Enqueue, Dispatched, RefundAtStripe, RefundFails
  <2> QED BY <1>1, <2>1, <2>2, <2>3, <2>4, <2>5 DEF Work
<1>2. ASSUME NEW w \in Workers,
             \/ \E o \in Orders : Begin(w, o)
             \/ \E e \in StripeEvents : Deliver(w, e)
             \/ Fails(w) \/ Crash(w)
      PROVE  UNCHANGED storeVars
  BY <1>2 DEF Begin, BeginConfirm, BeginCancel, BeginRefund, RefundSelected, Request, Deliver, NewEvent,
              KnownEvent, Fails, Crash
<1>3. ASSUME NEW o \in Orders, SweepOrder(o) \/ Place(o) \/ Attach(o) \/ DeleteOrder(o)
      PROVE  StoreNext
  BY <1>3 DEF SweepOrder, Place, Attach, DeleteOrder, StoreNext
<1>4. ASSUME NEW o \in Orders, Pay(o) \/ Decline(o)
      PROVE  UNCHANGED storeVars
  BY <1>4 DEF Pay, Decline
<1>5. CASE PassTime
  BY <1>5 DEF PassTime, StoreNext
<1>6. CASE UNCHANGED vars
  BY <1>6 DEF vars
<1> QED BY <1>1, <1>2, <1>3, <1>4, <1>5, <1>6 DEF Next

(* No transaction moves an order against Order.can_transition_to, and none *)
(* cancels a confirmed one (models.py:25-30, services.py:293-296).         *)
LEMMA StatusStep ==
  ASSUME StoreTypeOK, [StoreNext]_storeVars, NEW o \in Orders, status'[o] # status[o]
  PROVE  /\ status'[o] \in Transitions[status[o]]
         /\ status[o] = "CONFIRMED" => status'[o] = "REFUNDED"
<1> USE DEF StoreTypeOK, Transitions
<1>1. ASSUME NEW p \in Orders, NEW q \in Carts, CreateTx(p, q)
      PROVE  status[o] = "none" /\ status'[o] = "PENDING"
  BY <1>1 DEF CreateTx
<1>2. ASSUME NEW p \in Orders, NEW with_intent \in BOOLEAN, ConfirmTx(p, with_intent)
      PROVE  status[o] = "PENDING" /\ status'[o] = "CONFIRMED"
  BY <1>2 DEF ConfirmTx, Locked
<1>3. ASSUME NEW p \in Orders, CancelTx(p)
      PROVE  status[o] = "PENDING" /\ status'[o] = "CANCELLED"
  BY <1>3 DEF CancelTx, Locked
<1>4. ASSUME NEW p \in Orders, RefundTx(p)
      PROVE  status[o] = "CONFIRMED" /\ status'[o] = "REFUNDED"
  BY <1>4 DEF RefundTx, Locked
<1>5. ASSUME NEW p \in Orders, AttachTx(p) \/ SoftDelete(p) PROVE FALSE
  BY <1>5 DEF AttachTx, SoftDelete
<1>6. ASSUME (\E t \in Tiers : ToggleSale(t)) \/ Tick \/ UNCHANGED storeVars PROVE FALSE
  BY <1>6 DEF ToggleSale, Tick, storeVars, orderVars
<1> QED BY <1>1, <1>2, <1>3, <1>4, <1>5, <1>6 DEF StoreNext

(* The consequence refunds rely on: a confirmed order only ever becomes a  *)
(* refunded one, and stays it.                                             *)
LEMMA ConfirmedStays ==
  ASSUME TypeOK, [Next]_vars, NEW o \in Orders, status[o] \in {"CONFIRMED", "REFUNDED"}
  PROVE  status'[o] \in {"CONFIRMED", "REFUNDED"}
<1>1. StoreTypeOK /\ [StoreNext]_storeVars
  BY SettlementStep DEF TypeOK
<1> QED BY <1>1, StatusStep DEF Transitions

-----------------------------------------------------------------------------
(* The variables of the requests, of Stripe and of the webhook.            *)

(* Initially no request runs and nothing is charged, sent or recorded.     *)
LEMMA LedgerInit == Init => StoreInv /\ LedgerInv
<1> SUFFICES ASSUME Init PROVE StoreInv /\ LedgerInv
  OBVIOUS
<1> USE DEF Init
<1>1. StoreInv
  BY InitInv
<1>2. TypeOK
  BY <1>1 DEF TypeOK, StoreInv
<1>3. LedgerCountsStarts /\ RefundersSawConfirmed /\ LedgerMeansStarted
  BY DEF LedgerCountsStarts, RefundersSawConfirmed, LedgerMeansStarted, At
<1>4. RefundedAtMostOnce /\ RefundAgreesWithStripe
  BY DEF RefundedAtMostOnce, RefundAgreesWithStripe, StoreInit
<1> QED BY <1>1, <1>2, <1>3, <1>4 DEF LedgerInv

(* A request ends: its worker is free, its event acknowledged. *)
LEMMA FinishType ==
  ASSUME TypeOK, NEW w \in Workers, NEW step, At(w, step), Finish(w)
  PROVE  /\ worker' = [worker EXCEPT ![w] = Idle]
         /\ worker' \in [Workers -> {Idle} \cup Requests]
         /\ acked' \subseteq StripeEvents
<1>1. worker[w].event \in StripeEvents \cup {NoEvent}
  BY Busy DEF Requests
<1> QED BY <1>1 DEF Finish, Become, TypeOK

(* The variables keep their types, through every handler. *)
LEMMA SettlementTypeStep ==
  ASSUME StoreTypeOK', TypeOK, [Next]_vars
  PROVE  TypeOK'
<1> DEFINE RestOK == /\ worker \in [Workers -> {Idle} \cup Requests]
                     /\ charged \in [Orders -> BOOLEAN]
                     /\ refunds \in [Orders -> Nat]
                     /\ sent \subseteq StripeEvents /\ acked \subseteq StripeEvents
                     /\ ledger \subseteq StripeEvents
                     /\ starts \in [StripeEvents -> Nat]
                     /\ enqueued \subseteq Rows
                     /\ hooks_cut \subseteq StripeEvents /\ tasks_cut \subseteq Orders
<1> SUFFICES RestOK'
  BY DEF TypeOK
<1> USE DEF TypeOK
<1>1. ASSUME NEW w \in Workers, NEW o \in Orders,
             Begin(w, o)
      PROVE  RestOK'
  <2>1. PICK step \in Steps : Request(w, o, step)
    BY <1>1 DEF Begin, BeginConfirm, BeginCancel, BeginRefund, RefundSelected, Steps
  <2>2. Running(o, step, NoEvent) \in Requests
    BY DEF Running, Requests
  <2> QED BY <2>1, <2>2 DEF Request, Become, stripeVars, hookVars, cutVars
<1>2. ASSUME NEW w \in Workers, NEW e \in StripeEvents, Deliver(w, e)
      PROVE  RestOK'
  <2>1. CASE NewEvent(w, e)
    <3>1. Running(e[2], "lookup", e) \in Requests
      BY DEF Running, Requests, Steps, StripeEvents
    <3> QED BY <2>1, <3>1 DEF NewEvent, Become, stripeVars, cutVars
  <2>2. CASE KnownEvent(w, e)
    BY <2>2 DEF KnownEvent, requestVars, hookVars, cutVars
  <2> QED BY <1>2, <2>1, <2>2 DEF Deliver
<1>3. ASSUME NEW w \in Workers, HookLookup(w) PROVE RestOK'
  <2>1. At(w, "lookup")
    BY <1>3 DEF HookLookup
  <2>2. CASE Finish(w)
    BY <1>3, <2>1, <2>2, FinishType DEF HookLookup, cutVars
  <2>3. ASSUME NEW step \in Steps,
               Become(w, Running(worker[w].order, step, worker[w].event)),
               UNCHANGED acked
        PROVE  RestOK'
    <3>1. worker[w] \in Requests
      BY <2>1, Busy
    <3>2. Running(worker[w].order, step, worker[w].event) \in Requests
      BY <3>1 DEF Running, Requests
    <3> QED BY <1>3, <2>3, <3>2 DEF HookLookup, Become, cutVars
  <2> QED BY <1>3, <2>2, <2>3 DEF HookLookup, Steps
<1>4. ASSUME NEW w \in Workers, NEW step, NEW allowed, Refused(w, step, allowed)
      PROVE  RestOK'
  BY <1>4, FinishType DEF Refused, cutVars
<1>5. ASSUME NEW w \in Workers, Confirm(w) PROVE RestOK'
  <2>1. worker[w] \in Requests
    BY <1>5, Busy DEF Confirm
  <2>2. [worker[w] EXCEPT !.step = "enqueue"] \in Requests
    BY <2>1 DEF Requests, Steps
  <2> QED BY <1>5, <2>2 DEF Confirm, Become, stripeVars, hookVars, cutVars
<1>6. ASSUME NEW w \in Workers, Dispatched(w) \/ Cancel(w) \/ Refund(w) PROVE RestOK'
  <2>1. PICK step : At(w, step) /\ Finish(w)
    BY <1>6 DEF Dispatched, Cancel, Refund
  <2> QED BY <1>6, <2>1, FinishType DEF Dispatched, Cancel, Refund, cutVars
<1>7. ASSUME NEW w \in Workers, RefundAtStripe(w) PROVE RestOK'
  <2>1. worker[w].order \in Orders
    BY <1>7, Busy DEF RefundAtStripe
  <2>2. Running(worker[w].order, "refund", NoEvent) \in Requests
    BY <2>1 DEF Running, Requests, Steps
  <2>3. worker' \in [Workers -> {Idle} \cup Requests]
    BY <1>7, <2>2 DEF RefundAtStripe, Become
  <2>4. StripeRefundCount(worker[w].order) \in Nat
    BY <2>1 DEF StripeRefundCount
  <2> QED BY <1>7, <2>3, <2>4 DEF RefundAtStripe, hookVars, cutVars
<1>8. ASSUME NEW w \in Workers, Enqueue(w) PROVE RestOK'
  <2>1. TicketsOf(worker[w].order) \subseteq Rows
    BY DEF TicketsOf, OrderRows
  <2> QED BY <1>8, <2>1 DEF Enqueue, stripeVars, hookVars, cutVars
<1>12. ASSUME NEW w \in Workers, RefundFails(w) PROVE RestOK'
  BY <1>12 DEF RefundFails, Become, stripeVars, hookVars, cutVars
<1>13. ASSUME NEW w \in Workers, Fails(w) \/ Crash(w) PROVE RestOK'
  <2>1. /\ worker[w] # Idle /\ UNCHANGED <<charged, refunds, sent, ledger, starts, enqueued>>
        /\ (Become(w, Idle) /\ UNCHANGED acked) \/ Finish(w)
        /\ Cut(w)
    BY <1>13 DEF Fails, Crash, stripeVars, hookVars
  <2>2. At(w, worker[w].step)
    BY <2>1 DEF At
  <2>3. worker[w].order \in Orders /\ worker[w].event \in StripeEvents \cup {NoEvent}
    BY <2>2, Busy DEF Requests
  <2>4. hooks_cut' \subseteq StripeEvents /\ tasks_cut' \subseteq Orders
    BY <2>1, <2>3 DEF Cut
  <2>5. worker' \in [Workers -> {Idle} \cup Requests] /\ acked' \subseteq StripeEvents
    BY <2>1, <2>2, FinishType DEF Become
  <2> QED BY <2>1, <2>4, <2>5
<1>9. ASSUME NEW o \in Orders, SweepOrder(o) \/ Place(o) \/ Attach(o) \/ DeleteOrder(o)
      PROVE  RestOK'
  BY <1>9 DEF SweepOrder, Place, Attach, DeleteOrder, requestVars, stripeVars, hookVars, cutVars
<1>10. ASSUME NEW o \in Orders, Pay(o) \/ Decline(o) PROVE RestOK'
  <2>1. <<"succeeded", o>> \in StripeEvents /\ <<"payment_failed", o>> \in StripeEvents
    BY DEF StripeEvents
  <2>2. CASE Pay(o)
    BY <2>1, <2>2 DEF Pay, requestVars, hookVars, cutVars
  <2>3. CASE Decline(o)
    BY <2>1, <2>3 DEF Decline, requestVars, hookVars, cutVars
  <2> QED BY <1>10, <2>2, <2>3
<1>11. CASE PassTime \/ UNCHANGED vars
  BY <1>11 DEF PassTime, vars, requestVars, stripeVars, hookVars, cutVars
<1> QED BY <1>1, <1>2, <1>3, <1>4, <1>5, <1>6, <1>7, <1>8, <1>9, <1>10, <1>11, <1>12, <1>13
        DEF Next, Work

-----------------------------------------------------------------------------
(* Stripe's refunds, and the requests that ask for them.                   *)

(* Only a refund request that has reached Stripe changes the refunds of an *)
(* order, and it leaves exactly one, whatever was there.                   *)
LEMMA RefundsChange ==
  ASSUME TypeOK, [Next]_vars, NEW o \in Orders, refunds'[o] # refunds[o]
  PROVE  /\ \E w \in Workers : At(w, "refund_stripe") /\ worker[w].order = o
         /\ refunds[o] = 0 /\ refunds'[o] = 1
<1> USE DEF TypeOK
<1>1. ASSUME NEW w \in Workers, RefundAtStripe(w)
      PROVE  /\ At(w, "refund_stripe") /\ worker[w].order = o
             /\ refunds[o] = 0 /\ refunds'[o] = 1
  <2>1. refunds' = [refunds EXCEPT ![worker[w].order] = StripeRefundCount(worker[w].order)]
    BY <1>1 DEF RefundAtStripe
  <2>2. worker[w].order = o /\ refunds'[o] = StripeRefundCount(o)
    BY <2>1
  <2> QED BY <1>1, <2>2 DEF RefundAtStripe, StripeRefundCount
<1>2. ASSUME NEW w \in Workers, Work(w), ~RefundAtStripe(w) PROVE UNCHANGED refunds
  BY <1>2 DEF Work, HookLookup, Confirm, Refused, Enqueue, Dispatched, Cancel, RefundFails,
              Refund, stripeVars
<1>3. ASSUME NEW w \in Workers,
             \/ \E p \in Orders : Begin(w, p)
             \/ \E e \in StripeEvents : Deliver(w, e)
             \/ Fails(w) \/ Crash(w)
      PROVE  UNCHANGED refunds
  BY <1>3 DEF Begin, BeginConfirm, BeginCancel, BeginRefund, RefundSelected, Request, Deliver, NewEvent,
              KnownEvent, Fails, Crash, stripeVars
<1>4. ASSUME NEW p \in Orders, \/ SweepOrder(p) \/ Place(p) \/ Attach(p) \/ DeleteOrder(p)
                               \/ Pay(p) \/ Decline(p)
      PROVE  UNCHANGED refunds
  BY <1>4 DEF SweepOrder, Place, Attach, DeleteOrder, Pay, Decline, stripeVars
<1>5. CASE PassTime \/ UNCHANGED vars
  BY <1>5 DEF PassTime, vars, stripeVars
<1> QED BY <1>1, <1>2, <1>3, <1>4, <1>5 DEF Next

(* Only the transaction of a refund request makes an order REFUNDED. *)
LEMMA RefundedBy ==
  ASSUME TypeOK, [Next]_vars, NEW o \in Orders, status[o] # "REFUNDED",
         status'[o] = "REFUNDED"
  PROVE  \E w \in Workers : At(w, "refund") /\ worker[w].order = o
<1> USE DEF TypeOK, StoreTypeOK
<1>1. ASSUME NEW w \in Workers, Work(w)
      PROVE  At(w, "refund") /\ worker[w].order = o
  <2>1. CASE Confirm(w)
    BY <2>1 DEF Confirm, ConfirmTx
  <2>2. CASE Cancel(w)
    BY <2>2 DEF Cancel, CancelTx
  <2>3. CASE Refund(w)
    BY <2>3 DEF Refund, RefundTx
  <2>4. CASE UNCHANGED status
    BY <2>4
  <2> QED BY <1>1, <2>1, <2>2, <2>3, <2>4
          DEF Work, HookLookup, Refused, Enqueue, Dispatched, RefundAtStripe, RefundFails,
              storeVars, orderVars
<1>2. ASSUME NEW w \in Workers,
             \/ \E p \in Orders : Begin(w, p)
             \/ \E e \in StripeEvents : Deliver(w, e)
             \/ Fails(w) \/ Crash(w)
      PROVE  FALSE
  BY <1>2 DEF Begin, BeginConfirm, BeginCancel, BeginRefund, RefundSelected, Request, Deliver, NewEvent,
              KnownEvent, Fails, Crash, storeVars, orderVars
<1>3. ASSUME NEW p \in Orders, \/ SweepOrder(p) \/ Place(p) \/ Attach(p) \/ DeleteOrder(p)
                               \/ Pay(p) \/ Decline(p)
      PROVE  FALSE
  BY <1>3 DEF SweepOrder, Place, Attach, DeleteOrder, Pay, Decline, CancelTx, CreateTx,
              AttachTx, SoftDelete, storeVars, orderVars
<1>4. CASE PassTime \/ UNCHANGED vars
  BY <1>4 DEF PassTime, Tick, vars, storeVars, orderVars
<1> QED BY <1>1, <1>2, <1>3, <1>4 DEF Next

(* A worker that is about to ask Stripe for a refund, or to record one,    *)
(* was so before, has just read its order CONFIRMED, or has just been      *)
(* answered by Stripe.                                                     *)
LEMMA RefunderCame ==
  ASSUME TypeOK, [Next]_vars, NEW v \in Workers,
         worker'[v] # Idle, worker'[v].step \in {"refund_stripe", "refund"}
  PROVE  /\ worker'[v].order \in Orders
         /\ \/ worker'[v] = worker[v]
            \/ /\ worker'[v].step = "refund_stripe"
               /\ status[worker'[v].order] = "CONFIRMED"
            \/ /\ worker'[v].step = "refund"
               /\ At(v, "refund_stripe") /\ worker[v].order = worker'[v].order
               /\ refunds'[worker'[v].order] > 0
<1> USE DEF TypeOK
<1>1. ASSUME NEW w \in Workers, NEW o \in Orders,
             Begin(w, o), w = v
      PROVE  worker'[v].order = o /\ worker'[v].step = "refund_stripe" /\ status[o] = "CONFIRMED"
  BY <1>1 DEF Begin, BeginConfirm, BeginCancel, BeginRefund, RefundSelected, Readable, Request, Become, Running
<1>2. ASSUME NEW w \in Workers, NEW e \in StripeEvents, Deliver(w, e)
      PROVE  worker'[v] = worker[v]
  BY <1>2 DEF Deliver, NewEvent, KnownEvent, Become, Running, requestVars
<1>3. ASSUME NEW w \in Workers, Work(w), ~RefundAtStripe(w), ~Enqueue(w)
      PROVE  worker'[v] = worker[v]
  <2>1. PICK next : /\ worker' = [worker EXCEPT ![w] = next]
                    /\ \/ next = Idle
                       \/ next.step \in {"confirm", "cancel"}
                       \/ next = [worker[w] EXCEPT !.step = "enqueue"] /\ At(w, "confirm")
    <3>1. CASE HookLookup(w)
      BY <3>1 DEF HookLookup, Finish, Become, Running
    <3>2. CASE Confirm(w)
      BY <3>2 DEF Confirm, Become
    <3> QED BY <1>3, <3>1, <3>2
            DEF Work, Refused, Dispatched, Cancel, Refund, RefundFails, Finish, Become
  <2>2. CASE w # v
    BY <2>1, <2>2
  <2>3. CASE w = v
    <3>1. worker'[v] = next
      BY <2>1, <2>3
    <3>2. CASE next = [worker[w] EXCEPT !.step = "enqueue"] /\ At(w, "confirm")
      <4>1. worker[w] \in Requests
        BY <3>2, Busy
      <4> QED BY <3>1, <3>2, <4>1 DEF Requests
    <3> QED BY <2>1, <3>1, <3>2
  <2> QED BY <2>2, <2>3
<1>4. ASSUME NEW w \in Workers, RefundAtStripe(w), w = v
      PROVE  /\ worker'[v].step = "refund" /\ At(v, "refund_stripe")
             /\ worker'[v].order = worker[v].order /\ worker[v].order \in Orders
             /\ refunds'[worker[v].order] > 0
  <2>1. worker[v].order \in Orders
    BY <1>4, Busy DEF RefundAtStripe
  <2>2. refunds'[worker[v].order] = StripeRefundCount(worker[v].order)
    BY <1>4, <2>1 DEF RefundAtStripe
  <2>3. StripeRefundCount(worker[v].order) > 0
    BY <1>4, <2>1 DEF RefundAtStripe, StripeRefundCount
  <2> QED BY <1>4, <2>1, <2>2, <2>3 DEF RefundAtStripe, Become, Running
<1>5. ASSUME NEW w \in Workers, w # v,
             \/ \E o \in Orders : Begin(w, o)
             \/ RefundAtStripe(w)
      PROVE  worker'[v] = worker[v]
  BY <1>5 DEF Begin, BeginConfirm, BeginCancel, BeginRefund, RefundSelected, Request, RefundAtStripe, Become
<1>6. ASSUME NEW w \in Workers, Fails(w) \/ Crash(w) \/ Enqueue(w)
      PROVE  worker'[v] = worker[v]
  BY <1>6 DEF Fails, Crash, Enqueue, Finish, Become
<1>7. ASSUME NEW o \in Orders, \/ SweepOrder(o) \/ Place(o) \/ Attach(o) \/ DeleteOrder(o)
                               \/ Pay(o) \/ Decline(o)
      PROVE  worker'[v] = worker[v]
  BY <1>7 DEF SweepOrder, Place, Attach, DeleteOrder, Pay, Decline, requestVars
<1>8. ASSUME PassTime \/ UNCHANGED vars PROVE worker'[v] = worker[v]
  BY <1>8 DEF PassTime, vars, requestVars
<1>9. worker'[v] = worker[v] => worker'[v].order \in Orders
  <2>1. worker'[v] = worker[v] => At(v, worker[v].step)
    BY DEF At
  <2> QED BY <2>1, Busy
<1>10. CASE worker'[v] = worker[v]
  BY <1>9, <1>10
<1>11. CASE worker'[v] # worker[v]
  <2>1. PICK w \in Workers :
          \/ \E o \in Orders : Begin(w, o)
          \/ RefundAtStripe(w)
    BY <1>2, <1>3, <1>6, <1>7, <1>8, <1>11 DEF Next
  <2>2. w = v
    BY <1>5, <1>11, <2>1
  <2>3. CASE RefundAtStripe(w)
    BY <1>4, <2>2, <2>3
  <2>4. CASE ~RefundAtStripe(w)
    BY <1>1, <2>1, <2>2, <2>4
  <2> QED BY <2>3, <2>4
<1> QED BY <1>10, <1>11

(* What a worker handles stays in the ledger, and what Stripe is answered. *)
LEMMA LedgerStep ==
  ASSUME TypeOK, LedgerMeansStarted, [Next]_vars
  PROVE  LedgerMeansStarted'
<1> USE DEF TypeOK, LedgerMeansStarted
<1>1. ASSUME NEW w \in Workers, NEW o \in Orders, Begin(w, o) PROVE LedgerMeansStarted'
  BY <1>1 DEF Begin, BeginConfirm, BeginCancel, BeginRefund, RefundSelected, Request, Become,
              Running, stripeVars, hookVars, Idle
<1>2. ASSUME NEW w \in Workers, NEW e \in StripeEvents, NewEvent(w, e)
      PROVE  LedgerMeansStarted'
  BY <1>2 DEF NewEvent, Become, Running, stripeVars, Idle
<1>3. ASSUME NEW w \in Workers, NEW e \in StripeEvents, KnownEvent(w, e)
      PROVE  LedgerMeansStarted'
  BY <1>3 DEF KnownEvent, requestVars, hookVars
<1>4. ASSUME NEW w \in Workers, worker[w] # Idle, UNCHANGED ledger,
             Finish(w) \/ (Become(w, Idle) /\ UNCHANGED acked)
      PROVE  LedgerMeansStarted'
  <2>1. worker' = [worker EXCEPT ![w] = Idle] /\ worker[w].event \in ledger \cup {NoEvent}
    BY <1>4 DEF Finish, Become
  <2>2. acked' \subseteq ledger
    BY <1>4, <2>1 DEF Finish
  <2>3. ASSUME NEW v \in Workers, worker'[v] # Idle
        PROVE  worker'[v] = worker[v]
    BY <2>1, <2>3
  <2> QED BY <1>4, <2>2, <2>3
<1>5. ASSUME NEW w \in Workers, NEW next \in Requests, worker[w] # Idle,
             UNCHANGED <<ledger, acked>>, Become(w, next),
             next.event = worker[w].event,
             next.step \notin {"refund_stripe", "refund"} \/ worker[w].event = NoEvent
      PROVE  LedgerMeansStarted'
  <2>1. next # Idle
    BY DEF Requests, Idle
  <2> QED BY <1>5, <2>1 DEF Become
<1>7. ASSUME NEW w \in Workers, HookLookup(w) PROVE LedgerMeansStarted'
  <2>1. At(w, "lookup") /\ worker[w] # Idle
    BY <1>7 DEF HookLookup, At
  <2>2. CASE Finish(w)
    BY <1>4, <1>7, <2>1, <2>2 DEF HookLookup
  <2>3. ASSUME NEW step \in {"confirm", "cancel"},
               Become(w, Running(worker[w].order, step, worker[w].event)),
               UNCHANGED acked
        PROVE  LedgerMeansStarted'
    <3>1. Running(worker[w].order, step, worker[w].event) \in Requests
      BY <2>1, Busy DEF Running, Requests, Steps
    <3> QED BY <1>5, <1>7, <2>1, <2>3, <3>1 DEF HookLookup, Running
  <2> QED BY <1>7, <2>2, <2>3 DEF HookLookup
<1>8. ASSUME NEW w \in Workers, Confirm(w) PROVE LedgerMeansStarted'
  <2>1. worker[w] \in Requests /\ worker[w] # Idle
    BY <1>8, Busy DEF Confirm, At
  <2>2. [worker[w] EXCEPT !.step = "enqueue"] \in Requests
    BY <2>1 DEF Requests, Steps
  <2> QED BY <1>5, <1>8, <2>1, <2>2 DEF Confirm, Requests, stripeVars, hookVars
<1>9. ASSUME NEW w \in Workers, RefundAtStripe(w) PROVE LedgerMeansStarted'
  <2>1. worker[w] # Idle /\ worker[w].event = NoEvent /\ worker[w].order \in Orders
    BY <1>9, Busy DEF RefundAtStripe, At
  <2>2. Running(worker[w].order, "refund", NoEvent) \in Requests
    BY <2>1 DEF Running, Requests, Steps
  <2> QED BY <1>4, <1>5, <1>9, <2>1, <2>2 DEF RefundAtStripe, Running, hookVars
<1>10. ASSUME NEW w \in Workers, RefundFails(w) \/ Fails(w) \/ Crash(w)
       PROVE  LedgerMeansStarted'
  BY <1>4, <1>10 DEF RefundFails, Fails, Crash, At, stripeVars, hookVars
<1>11. ASSUME NEW w \in Workers, Enqueue(w) PROVE LedgerMeansStarted'
  BY <1>11 DEF Enqueue, stripeVars, hookVars
<1>12. ASSUME NEW w \in Workers,
              \/ Dispatched(w) \/ Cancel(w) \/ Refund(w)
              \/ \E step, allowed : Refused(w, step, allowed)
       PROVE  LedgerMeansStarted'
  BY <1>4, <1>12 DEF Dispatched, Cancel, Refund, Refused, At
<1>13. ASSUME NEW o \in Orders, \/ SweepOrder(o) \/ Place(o) \/ Attach(o) \/ DeleteOrder(o)
                               \/ Pay(o) \/ Decline(o)
       PROVE  LedgerMeansStarted'
  BY <1>13 DEF SweepOrder, Place, Attach, DeleteOrder, Pay, Decline, requestVars, stripeVars,
               hookVars
<1>14. CASE PassTime \/ UNCHANGED vars
  BY <1>14 DEF PassTime, vars, requestVars, stripeVars, hookVars
<1> QED BY <1>1, <1>2, <1>3, <1>7, <1>8, <1>9, <1>10, <1>11, <1>12, <1>13, <1>14
        DEF Next, Work, Deliver

(* The ledger counts the starts of each event, refund requests know their  *)
(* order was confirmed, and Stripe's refunds agree with the orders.        *)
LEMMA LedgerInvStep ==
  ASSUME StoreInv, StoreInv', LedgerInv, [Next]_vars
  PROVE  LedgerInv'
<1> USE DEF LedgerInv
<1>1. TypeOK'
  BY SettlementTypeStep DEF StoreInv
<1>2. LedgerCountsStarts'
  <2> USE DEF TypeOK, LedgerCountsStarts
  <2>1. ASSUME NEW w \in Workers, NEW e \in StripeEvents, Deliver(w, e)
        PROVE  LedgerCountsStarts'
    BY <2>1 DEF Deliver, NewEvent, KnownEvent, hookVars
  <2>2. ASSUME NEW w \in Workers,
               \/ \E o \in Orders : Begin(w, o)
               \/ Work(w) \/ Fails(w) \/ Crash(w)
        PROVE  UNCHANGED <<ledger, starts>>
    BY <2>2 DEF Begin, BeginConfirm, BeginCancel, BeginRefund, RefundSelected, Request, Work,
                HookLookup, Confirm, Refused, Enqueue, Dispatched, Cancel, RefundAtStripe,
                RefundFails, Refund, Fails, Crash, hookVars
  <2>3. ASSUME NEW o \in Orders, \/ SweepOrder(o) \/ Place(o) \/ Attach(o) \/ DeleteOrder(o)
                                 \/ Pay(o) \/ Decline(o)
        PROVE  UNCHANGED <<ledger, starts>>
    BY <2>3 DEF SweepOrder, Place, Attach, DeleteOrder, Pay, Decline, hookVars
  <2>4. CASE PassTime \/ UNCHANGED vars
    BY <2>4 DEF PassTime, vars, hookVars
  <2> QED BY <2>1, <2>2, <2>3, <2>4 DEF Next
<1>3. ASSUME NEW o \in Orders
      PROVE  /\ refunds[o] \in {0, 1} /\ refunds'[o] \in {0, 1}
             /\ refunds[o] > 0 => refunds'[o] > 0
  <2>1. refunds[o] \in {0, 1}
    BY DEF TypeOK, RefundedAtMostOnce
  <2> QED BY <2>1, RefundsChange
<1>4. RefundersSawConfirmed'
  <2> SUFFICES ASSUME NEW v \in Workers, worker'[v] # Idle,
                      worker'[v].step \in {"refund_stripe", "refund"}
               PROVE  /\ status'[worker'[v].order] \in {"CONFIRMED", "REFUNDED"}
                      /\ worker'[v].step = "refund" => refunds'[worker'[v].order] > 0
    BY DEF RefundersSawConfirmed, At
  <2> DEFINE o == worker'[v].order
  <2>1. o \in Orders
    BY RefunderCame
  <2>2. status[o] \in {"CONFIRMED", "REFUNDED"}
    BY RefunderCame DEF RefundersSawConfirmed, At
  <2>3. worker'[v].step = "refund" => refunds'[o] > 0
    BY <1>3, <2>1, RefunderCame DEF RefundersSawConfirmed, At
  <2> QED BY <2>1, <2>2, <2>3, ConfirmedStays
<1>5. RefundedAtMostOnce'
  BY <1>3 DEF RefundedAtMostOnce
<1>6. RefundAgreesWithStripe'
  <2> SUFFICES ASSUME NEW o \in Orders
               PROVE  /\ status'[o] = "REFUNDED" => refunds'[o] > 0
                      /\ refunds'[o] > 0 => status'[o] \in {"CONFIRMED", "REFUNDED"}
    BY DEF RefundAgreesWithStripe
  <2>1. ASSUME status'[o] = "REFUNDED" PROVE refunds'[o] > 0
    <3>1. CASE status[o] = "REFUNDED"
      BY <1>3, <3>1 DEF RefundAgreesWithStripe
    <3>2. CASE status[o] # "REFUNDED"
      BY <1>3, <2>1, <3>2, RefundedBy DEF RefundersSawConfirmed
    <3> QED BY <3>1, <3>2
  <2>2. ASSUME refunds'[o] > 0 PROVE status[o] \in {"CONFIRMED", "REFUNDED"}
    <3>1. CASE refunds[o] > 0
      BY <3>1 DEF RefundAgreesWithStripe
    <3>2. CASE ~(refunds[o] > 0)
      BY <2>2, <3>2, RefundsChange DEF RefundersSawConfirmed
    <3> QED BY <3>1, <3>2
  <2> QED BY <2>1, <2>2, ConfirmedStays
<1>7. LedgerMeansStarted'
  BY LedgerStep
<1> QED BY <1>1, <1>2, <1>4, <1>5, <1>6, <1>7

-----------------------------------------------------------------------------
(* No event and no confirmation is forgotten.                              *)

(* A step of a worker: its work, a failure of it, or its death.            *)
Turn(w) == Work(w) \/ Fails(w) \/ Crash(w)

(* The items of an order that was placed never change. *)
LEMMA ItemsStay ==
  ASSUME [StoreNext]_storeVars, NEW o \in Orders, status[o] # "none"
  PROVE  items'[o] = items[o]
<1>1. ASSUME NEW p \in Orders, NEW q \in Carts, CreateTx(p, q) PROVE items'[o] = items[o]
  BY <1>1 DEF CreateTx
<1>2. ASSUME UNCHANGED items PROVE items'[o] = items[o]
  BY <1>2
<1> QED BY <1>1, <1>2 DEF StoreNext, AttachTx, ConfirmTx, CancelTx, RefundTx, SoftDelete,
           ToggleSale, Tick, storeVars, orderVars

(* An order that needs no confirmation any more never needs one again.     *)
LEMMA MootStays ==
  ASSUME StoreTypeOK, [StoreNext]_storeVars, NEW o \in Orders, status[o] # "none", Moot(o)
  PROVE  Moot(o)'
<1> USE DEF StoreTypeOK
<1>1. CASE status[o] # "PENDING"
  <2>1. status'[o] # "PENDING"
    <3>1. status[o] \in {"CONFIRMED", "CANCELLED", "REFUNDED"}
      BY <1>1 DEF Statuses
    <3>2. status'[o] # status[o] => status'[o] \in Transitions[status[o]]
      BY StatusStep
    <3> QED BY <3>1, <3>2 DEF Transitions
  <2> QED BY <2>1 DEF Moot
<1>2. CASE is_deleted[o]
  <2>1. is_deleted'[o]
    BY <1>2 DEF StoreNext, CreateTx, AttachTx, ConfirmTx, CancelTx, RefundTx, SoftDelete,
       ToggleSale, Tick, storeVars, orderVars
  <2> QED BY <2>1 DEF Moot
<1>3. CASE status[o] = "PENDING" /\ ~is_deleted[o]
  <2>1. expires_at[o] # NoDeadline /\ now > expires_at[o]
    BY <1>3 DEF Moot, Overdue, IsExpired
  <2>2. now \in Nat /\ now' \in Nat /\ now <= now'
    BY DEF StoreNext, CreateTx, AttachTx, ConfirmTx, CancelTx, RefundTx, SoftDelete,
       ToggleSale, Tick, storeVars
  <2>3. status'[o] # "PENDING" \/ expires_at'[o] = expires_at[o]
    <3>1. ASSUME NEW p \in Orders, NEW q \in Carts, CreateTx(p, q) PROVE expires_at'[o] = expires_at[o]
      BY <1>3, <3>1 DEF CreateTx
    <3>2. ASSUME NEW p \in Orders, NEW b \in BOOLEAN, ConfirmTx(p, b)
          PROVE  status'[o] # "PENDING" \/ expires_at'[o] = expires_at[o]
      BY <3>2 DEF ConfirmTx
    <3>3. ASSUME NEW p \in Orders, CancelTx(p)
          PROVE  status'[o] # "PENDING" \/ expires_at'[o] = expires_at[o]
      BY <3>3 DEF CancelTx
    <3>4. ASSUME NEW p \in Orders, AttachTx(p) \/ RefundTx(p) \/ SoftDelete(p)
          PROVE  expires_at'[o] = expires_at[o]
      BY <3>4 DEF AttachTx, RefundTx, SoftDelete
    <3>5. ASSUME (\E t \in Tiers : ToggleSale(t)) \/ Tick \/ UNCHANGED storeVars
          PROVE  expires_at'[o] = expires_at[o]
      BY <3>5 DEF ToggleSale, Tick, storeVars, orderVars
    <3> QED BY <3>1, <3>2, <3>3, <3>4, <3>5 DEF StoreNext
  <2>4. expires_at[o] \in Nat
    BY <2>1
  <2> QED BY <2>1, <2>2, <2>3, <2>4 DEF Moot, Overdue, IsExpired
<1> QED BY <1>1, <1>2, <1>3

(* Nor does what a declined payment was to bring about come undone.        *)
LEMMA SettledStays ==
  ASSUME StoreTypeOK, [StoreNext]_storeVars, NEW e \in StripeEvents, status[e[2]] # "none",
         Settled(e)
  PROVE  Settled(e)'
<1>1. e[2] \in Orders
  BY DEF StripeEvents
<1>2. CASE e[1] = "succeeded"
  <2>1. Moot(e[2])'
    BY <1>1, <1>2, MootStays DEF Settled
  <2> QED BY <1>2, <2>1 DEF Settled
<1>3. CASE status[e[2]] # "PENDING"
  <2>1. status[e[2]] \in {"CONFIRMED", "CANCELLED", "REFUNDED"}
    BY <1>1, <1>3 DEF Statuses, StoreTypeOK
  <2>2. status'[e[2]] # status[e[2]] => status'[e[2]] \in Transitions[status[e[2]]]
    BY <1>1, StatusStep
  <2>3. status'[e[2]] # "PENDING"
    BY <2>1, <2>2 DEF Transitions
  <2> QED BY <2>3 DEF Settled, Moot
<1>4. CASE is_deleted[e[2]]
  <2>1. is_deleted'[e[2]]
    BY <1>1, <1>4 DEF StoreNext, CreateTx, AttachTx, ConfirmTx, CancelTx, RefundTx, SoftDelete,
       ToggleSale, Tick, storeVars, orderVars, StoreTypeOK
  <2> QED BY <2>1 DEF Settled, Moot
<1> QED BY <1>2, <1>3, <1>4 DEF Settled

(* An intent belongs to an order that was placed, and is never taken away. *)
LEMMA IntentStep ==
  ASSUME StoreTypeOK, [StoreNext]_storeVars, NEW o \in Orders,
         intent[o] => status[o] # "none"
  PROVE  /\ intent'[o] => status'[o] # "none"
         /\ intent[o] => intent'[o]
<1> USE DEF StoreTypeOK
<1>1. ASSUME NEW p \in Orders, NEW q \in Carts, CreateTx(p, q)
      PROVE  (intent'[o] => status'[o] # "none") /\ (intent[o] => intent'[o])
  BY <1>1 DEF CreateTx
<1>2. ASSUME NEW p \in Orders, NEW b \in BOOLEAN, ConfirmTx(p, b)
      PROVE  (intent'[o] => status'[o] # "none") /\ (intent[o] => intent'[o])
  BY <1>2 DEF ConfirmTx, Locked
<1>3. ASSUME NEW p \in Orders, CancelTx(p) \/ RefundTx(p)
      PROVE  (intent'[o] => status'[o] # "none") /\ (intent[o] => intent'[o])
  BY <1>3 DEF CancelTx, RefundTx, Locked
<1>4. ASSUME NEW p \in Orders, AttachTx(p) \/ SoftDelete(p)
      PROVE  (intent'[o] => status'[o] # "none") /\ (intent[o] => intent'[o])
  BY <1>4 DEF AttachTx, SoftDelete
<1>5. ASSUME (\E t \in Tiers : ToggleSale(t)) \/ Tick \/ UNCHANGED storeVars
      PROVE  (intent'[o] => status'[o] # "none") /\ (intent[o] => intent'[o])
  BY <1>5 DEF ToggleSale, Tick, storeVars, orderVars
<1> QED BY <1>1, <1>2, <1>3, <1>4, <1>5 DEF StoreNext

(* What a worker's turn leaves alone, and what becomes of its request.     *)
LEMMA WorkerTurn ==
  ASSUME LedgerInv, NEW w \in Workers, Turn(w)
  PROVE  /\ worker[w] # Idle
         /\ \A v \in Workers \ {w} : worker'[v] = worker[v]
         /\ UNCHANGED <<charged, sent, ledger>>
         /\ UNCHANGED enqueued \/ Enqueue(w)
         /\ hooks_cut \subseteq hooks_cut' /\ tasks_cut \subseteq tasks_cut'
         /\ \/ worker'[w] = Idle
            \/ /\ worker'[w] # Idle /\ worker'[w].event = worker[w].event
               /\ worker'[w].order = worker[w].order
               /\ worker'[w].step = "enqueue" => Confirm(w) \/ Enqueue(w)
<1> USE DEF LedgerInv, TypeOK
<1>1. worker[w] # Idle
  BY DEF Turn, Work, Fails, Crash, HookLookup, Confirm, Refused, Enqueue, Dispatched, Cancel,
     RefundAtStripe, RefundFails, Refund, At
<1>2. worker[w] \in Requests /\ worker[w].order \in Orders
      /\ worker[w].event \in StripeEvents \cup {NoEvent}
  BY <1>1 DEF Requests
<1>3. /\ UNCHANGED <<charged, sent, ledger>>
      /\ UNCHANGED enqueued \/ Enqueue(w)
      /\ hooks_cut \subseteq hooks_cut' /\ tasks_cut \subseteq tasks_cut'
  BY DEF Turn, Work, Fails, Crash, Cut, HookLookup, Confirm, Refused, Enqueue, Dispatched, Cancel,
     RefundAtStripe, RefundFails, Refund, stripeVars, hookVars, cutVars
<1>4. ASSUME Become(w, Idle) \/ Finish(w)
      PROVE  worker'[w] = Idle /\ \A v \in Workers \ {w} : worker'[v] = worker[v]
  BY <1>4 DEF Finish, Become
<1>5. ASSUME NEW next \in Requests, Become(w, next)
      PROVE  /\ worker'[w] = next /\ worker'[w] # Idle
             /\ \A v \in Workers \ {w} : worker'[v] = worker[v]
  <2>1. next # Idle
    BY DEF Requests, Idle
  <2> QED BY <1>5, <2>1 DEF Become
<1>6. CASE Confirm(w)
  <2>1. [worker[w] EXCEPT !.step = "enqueue"] \in Requests
    BY <1>2 DEF Requests, Steps
  <2> QED BY <1>1, <1>2, <1>3, <1>5, <1>6, <2>1 DEF Confirm, Requests
<1>7. CASE HookLookup(w)
  <2>1. ASSUME NEW step \in {"confirm", "cancel"}
        PROVE  Running(worker[w].order, step, worker[w].event) \in Requests
    BY <1>2 DEF Running, Requests, Steps
  <2>2. \/ Finish(w)
        \/ \E step \in {"confirm", "cancel"} :
             Become(w, Running(worker[w].order, step, worker[w].event))
    BY <1>7 DEF HookLookup
  <2> QED BY <1>1, <1>3, <1>4, <1>5, <2>1, <2>2 DEF Running
<1>8. CASE RefundAtStripe(w)
  <2>1. Running(worker[w].order, "refund", NoEvent) \in Requests
    BY <1>2 DEF Running, Requests, Steps
  <2>2. worker[w].event = NoEvent
    BY <1>8 DEF RefundAtStripe, LedgerMeansStarted, At
  <2> QED BY <1>1, <1>3, <1>4, <1>5, <1>8, <2>1, <2>2 DEF RefundAtStripe, Running
<1>9. CASE \/ Dispatched(w) \/ Cancel(w) \/ RefundFails(w) \/ Refund(w) \/ Fails(w) \/ Crash(w)
           \/ \E step, allowed : Refused(w, step, allowed)
  <2>1. Become(w, Idle) \/ Finish(w)
    BY <1>9 DEF Dispatched, Cancel, RefundFails, Refund, Fails, Crash, Refused
  <2> QED BY <1>1, <1>3, <1>4, <2>1
<1>10. CASE Enqueue(w)
  BY <1>1, <1>3, <1>10 DEF Enqueue
<1> QED BY <1>6, <1>7, <1>8, <1>9, <1>10 DEF Turn, Work

(* Everybody else's steps.                                                 *)
LEMMA OtherTurn ==
  ASSUME LedgerInv, [Next]_vars, ~\E w \in Workers : Turn(w)
  PROVE  /\ UNCHANGED <<enqueued, cutVars>> /\ sent \subseteq sent'
         /\ \/ worker' = worker /\ ledger' = ledger
            \/ \E w \in Workers :
                 /\ worker[w] = Idle
                 /\ \A v \in Workers \ {w} : worker'[v] = worker[v]
                 /\ UNCHANGED <<charged, sent>>
                 /\ \/ /\ worker'[w].event = NoEvent /\ worker'[w].step # "enqueue"
                       /\ ledger' = ledger
                    \/ \E e \in sent \ ledger :
                         /\ worker'[w] = Running(e[2], "lookup", e)
                         /\ ledger' = ledger \cup {e}
<1> USE DEF LedgerInv, TypeOK
<1>1. ASSUME NEW w \in Workers, NEW o \in Orders, NEW step \in {"confirm", "cancel", "refund_stripe"},
             Request(w, o, step)
      PROVE  /\ UNCHANGED <<enqueued, cutVars, ledger, charged, sent>> /\ worker[w] = Idle
             /\ worker'[w].event = NoEvent /\ worker'[w].step # "enqueue"
             /\ \A v \in Workers \ {w} : worker'[v] = worker[v]
  BY <1>1 DEF Request, Become, Running, stripeVars, hookVars
<1>2. ASSUME NEW w \in Workers, NEW o \in Orders, Begin(w, o)
      PROVE  \E step \in {"confirm", "cancel", "refund_stripe"} : Request(w, o, step)
  BY <1>2 DEF Begin, BeginConfirm, BeginCancel, BeginRefund, RefundSelected
<1>3. CASE \E w \in Workers, o \in Orders : Begin(w, o)
  BY <1>1, <1>2, <1>3
<1>4. ASSUME NEW w \in Workers, NEW e \in StripeEvents, NewEvent(w, e)
      PROVE  /\ UNCHANGED <<enqueued, cutVars, charged, sent>> /\ worker[w] = Idle
             /\ e \in sent \ ledger /\ ledger' = ledger \cup {e}
             /\ worker'[w] = Running(e[2], "lookup", e)
             /\ \A v \in Workers \ {w} : worker'[v] = worker[v]
  BY <1>4 DEF NewEvent, Become, stripeVars
<1>5. CASE \E w \in Workers, e \in StripeEvents : NewEvent(w, e)
  BY <1>4, <1>5
<1>6. CASE \/ \E w \in Workers, e \in StripeEvents : KnownEvent(w, e)
           \/ \E o \in Orders : \/ SweepOrder(o) \/ Place(o) \/ Attach(o) \/ DeleteOrder(o)
                                \/ Pay(o) \/ Decline(o)
           \/ PassTime \/ UNCHANGED vars
  BY <1>6 DEF KnownEvent, SweepOrder, Place, Attach, DeleteOrder, Pay, Decline, PassTime, vars,
     requestVars, stripeVars, hookVars, cutVars
<1> QED BY <1>3, <1>5, <1>6 DEF Next, Deliver, Turn

(* Events, payments, orders and workers keep to each other. *)
LEMMA EventsFitStep ==
  ASSUME LedgerInv, EventsFit, [Next]_vars
  PROVE  EventsFit'
<1> USE DEF LedgerInv
<1>1. StoreTypeOK /\ [StoreNext]_storeVars /\ TypeOK
  BY SettlementStep DEF TypeOK
<1>2. ASSUME NEW o \in Orders
      PROVE  (intent'[o] => status'[o] # "none") /\ (intent[o] => intent'[o])
  BY <1>1, IntentStep DEF EventsFit
<1>3. ASSUME NEW o \in Orders
      PROVE  /\ charged'[o] => intent'[o]
             /\ <<"succeeded", o>> \in sent' <=> charged'[o]
             /\ <<"payment_failed", o>> \in sent' => intent'[o]
  <2>1. CASE UNCHANGED <<charged, sent>>
    BY <1>2, <2>1 DEF EventsFit
  <2>2. ASSUME NEW p \in Orders, Pay(p)
        PROVE  /\ charged'[o] => intent'[o]
               /\ <<"succeeded", o>> \in sent' <=> charged'[o]
               /\ <<"payment_failed", o>> \in sent' => intent'[o]
    BY <1>1, <2>2 DEF Pay, EventsFit, storeVars, orderVars, TypeOK
  <2>3. ASSUME NEW p \in Orders, Decline(p)
        PROVE  /\ charged'[o] => intent'[o]
               /\ <<"succeeded", o>> \in sent' <=> charged'[o]
               /\ <<"payment_failed", o>> \in sent' => intent'[o]
    BY <2>3 DEF Decline, EventsFit, storeVars, orderVars
  <2>4. CASE \E w \in Workers : Turn(w)
    BY <2>1, <2>4, WorkerTurn
  <2>5. CASE \/ \E w \in Workers : \/ \E p \in Orders : Begin(w, p)
                                   \/ \E e \in StripeEvents : Deliver(w, e)
             \/ \E p \in Orders : SweepOrder(p) \/ Place(p) \/ Attach(p) \/ DeleteOrder(p)
             \/ PassTime \/ UNCHANGED vars
    <3>1. UNCHANGED <<charged, sent>>
      BY <2>5 DEF Begin, BeginConfirm, BeginCancel, BeginRefund, RefundSelected, Request,
         Deliver, NewEvent, KnownEvent, SweepOrder, Place, Attach, DeleteOrder, PassTime, vars,
         stripeVars
    <3> QED BY <2>1, <3>1
  <2> QED BY <2>2, <2>3, <2>4, <2>5 DEF Next, Turn
<1>4. ledger' \subseteq sent'
  <2>1. CASE \E w \in Workers : Turn(w)
    BY <2>1, WorkerTurn DEF EventsFit
  <2>2. CASE ~\E w \in Workers : Turn(w)
    BY <2>2, OtherTurn DEF EventsFit
  <2> QED BY <2>1, <2>2
<1>5. ASSUME NEW v \in Workers, worker[v] # Idle, worker'[v] = worker[v]
      PROVE  /\ worker'[v].event # NoEvent => worker'[v].order = worker'[v].event[2]
             /\ worker'[v].step = "enqueue" =>
                  status'[worker'[v].order] \in {"CONFIRMED", "REFUNDED"}
  <2>1. worker[v].order \in Orders
    BY <1>1, <1>5 DEF TypeOK, Requests
  <2>2. worker[v].step = "enqueue" => status[worker[v].order] \in {"CONFIRMED", "REFUNDED"}
    BY <1>5 DEF EventsFit, At
  <2> QED BY <1>1, <1>5, <2>1, <2>2, ConfirmedStays DEF EventsFit
<1>6. ASSUME NEW w \in Workers, Turn(w), worker'[w] # Idle
      PROVE  /\ worker'[w].event # NoEvent => worker'[w].order = worker'[w].event[2]
             /\ worker'[w].step = "enqueue" =>
                  status'[worker'[w].order] \in {"CONFIRMED", "REFUNDED"}
  <2>1. /\ worker[w] # Idle /\ worker'[w].event = worker[w].event
        /\ worker'[w].order = worker[w].order
        /\ worker'[w].step = "enqueue" => Confirm(w) \/ Enqueue(w)
    BY <1>6, WorkerTurn
  <2>2. worker[w].order \in Orders
    BY <1>1, <2>1 DEF TypeOK, Requests
  <2>3. Confirm(w) => status'[worker[w].order] = "CONFIRMED"
    BY <1>1, <2>2 DEF Confirm, ConfirmTx, StoreTypeOK
  <2>4. Enqueue(w) => worker'[w] = worker[w]
    BY DEF Enqueue
  <2>5. CASE Enqueue(w)
    BY <1>5, <2>1, <2>4, <2>5
  <2> QED BY <2>1, <2>3, <2>5 DEF EventsFit
<1>7. ASSUME NEW v \in Workers, worker'[v] # Idle
      PROVE  /\ worker'[v].event # NoEvent => worker'[v].order = worker'[v].event[2]
             /\ worker'[v].step = "enqueue" =>
                  status'[worker'[v].order] \in {"CONFIRMED", "REFUNDED"}
  <2>1. CASE \E w \in Workers : Turn(w)
    <3>1. PICK w \in Workers : Turn(w)
      BY <2>1
    <3>2. CASE v = w
      BY <1>6, <1>7, <3>1, <3>2
    <3>3. CASE v # w
      BY <1>5, <1>7, <3>1, <3>3, WorkerTurn
    <3> QED BY <3>2, <3>3
  <2>2. CASE ~\E w \in Workers : Turn(w)
    <3>1. CASE worker'[v] = worker[v]
      BY <1>5, <1>7, <3>1
    <3>2. CASE worker'[v].event = NoEvent /\ worker'[v].step # "enqueue"
      BY <3>2
    <3>3. CASE \E e \in sent \ ledger : worker'[v] = Running(e[2], "lookup", e)
      BY <3>3 DEF Running
    <3> QED BY <2>2, <3>1, <3>2, <3>3, OtherTurn
  <2> QED BY <2>1, <2>2
<1> QED BY <1>2, <1>3, <1>4, <1>7 DEF EventsFit, At

(* An event Stripe knows of belongs to an order that was placed and has    *)
(* its PaymentIntent.                                                      *)
LEMMA EventsOrder ==
  ASSUME EventsFit, NEW e \in StripeEvents, e \in sent
  PROVE  e[2] \in Orders /\ intent[e[2]] /\ status[e[2]] # "none"
<1>1. e[2] \in Orders /\ (e = <<"succeeded", e[2]>> \/ e = <<"payment_failed", e[2]>>)
  BY DEF StripeEvents
<1>2. intent[e[2]]
  BY <1>1 DEF EventsFit
<1> QED BY <1>1, <1>2 DEF EventsFit

(* The handler of an event ends by itself only when the event is settled.  *)
LEMMA EndedIsSettled ==
  ASSUME LedgerInv, EventsFit, [Next]_vars, NEW w \in Workers, Work(w), worker'[w] = Idle,
         NEW e \in StripeEvents, Handles(w, e)
  PROVE  Settled(e)'
<1> USE DEF LedgerInv, TypeOK
<1>1. /\ worker[w] # Idle /\ worker[w].event = e /\ e # NoEvent
      /\ e[1] \in {"succeeded", "payment_failed"}
  BY DEF Handles, NoEvent, StripeEvents
<1>2. e \in sent /\ worker[w].order = e[2]
  BY <1>1 DEF EventsFit, LedgerMeansStarted
<1>3. e[2] \in Orders /\ intent[e[2]] /\ status[e[2]] # "none"
  BY <1>2, EventsOrder
<1>4. Settled(e) => Settled(e)'
  BY <1>3, SettlementStep, SettledStays
<1>5. CASE HookLookup(w)
  <2>1. \A step : Running(e[2], step, e) # Idle
    BY DEF Running, Idle
  <2>2. \/ is_deleted[e[2]]
        \/ e[1] = "succeeded" /\ ~Confirmable(e[2])
        \/ e[1] = "payment_failed" /\ ~Cancellable(e[2])
    BY <1>1, <1>2, <1>3, <1>5, <2>1 DEF HookLookup, Become
  <2>3. ~Confirmable(e[2]) => Moot(e[2])
    BY DEF Moot, Overdue, Confirmable, Readable
  <2>4. ~Cancellable(e[2]) => status[e[2]] # "PENDING" \/ is_deleted[e[2]]
    BY DEF Cancellable, Readable, Transitions, Statuses
  <2>5. Settled(e)
    BY <1>1, <2>2, <2>3, <2>4 DEF Settled, Moot
  <2> QED BY <1>4, <2>5
<1>6. ~(Confirm(w) \/ Enqueue(w))
  <2>1. ~Enqueue(w)
    BY <1>1 DEF Enqueue
  <2>2. ~Confirm(w)
    BY <1>1 DEF Confirm, Become, Idle, Requests
  <2> QED BY <2>1, <2>2
<1>7. CASE Refused(w, "confirm", {"PENDING"}) \/ Refused(w, "cancel", {"PENDING"})
  <2>1. ~Locked(e[2], {"PENDING"})
    BY <1>2, <1>7 DEF Refused
  <2>2. Settled(e)
    BY <2>1 DEF Settled, Moot, Locked
  <2> QED BY <1>4, <2>2
<1>8. CASE Dispatched(w)
  <2>1. status[e[2]] \in {"CONFIRMED", "REFUNDED"}
    BY <1>1, <1>2, <1>8 DEF Dispatched, EventsFit
  <2>2. Settled(e)
    BY <2>1 DEF Settled, Moot
  <2> QED BY <1>4, <2>2
<1>9. CASE Cancel(w)
  <2>1. status'[e[2]] = "CANCELLED"
    BY <1>2, <1>3, <1>9 DEF Cancel, CancelTx, StoreTypeOK
  <2> QED BY <2>1 DEF Settled, Moot
<1>10. ~(RefundAtStripe(w) \/ RefundFails(w) \/ Refund(w) \/ Refused(w, "refund", {"CONFIRMED"}))
  BY <1>1 DEF RefundAtStripe, RefundFails, Refund, Refused, At, LedgerMeansStarted
<1> QED BY <1>5, <1>6, <1>7, <1>8, <1>9, <1>10 DEF Work

(* No step forgets an event. *)
LEMMA PursuedStep ==
  ASSUME LedgerInv, EventsFit, EventsPursued, [Next]_vars
  PROVE  EventsPursued'
<1> SUFFICES ASSUME NEW e \in sent'
             PROVE  \/ Settled(e)' \/ e \notin ledger' \/ e \in hooks_cut'
                    \/ \E w \in Workers : worker'[w] # Idle /\ worker'[w].event = e
  BY DEF EventsPursued, Handles
<1> USE DEF LedgerInv
<1>1. hooks_cut \subseteq hooks_cut'
  BY WorkerTurn, OtherTurn DEF cutVars
<1>2. CASE e \notin ledger
  <2>1. CASE \E w \in Workers : Turn(w)
    BY <1>2, <2>1, WorkerTurn
  <2>2. CASE ~\E w \in Workers : Turn(w)
    <3>1. CASE ledger' = ledger
      BY <1>2, <3>1
    <3>2. CASE \E d \in sent \ ledger, w \in Workers :
                 ledger' = ledger \cup {d} /\ worker'[w] = Running(d[2], "lookup", d)
      <4>1. PICK d \in sent \ ledger, w \in Workers :
                 ledger' = ledger \cup {d} /\ worker'[w] = Running(d[2], "lookup", d)
        BY <3>2
      <4>2. worker'[w] # Idle /\ worker'[w].event = d
        BY <4>1 DEF Running, Idle
      <4> QED BY <1>2, <4>1, <4>2
    <3> QED BY <2>2, <3>1, <3>2, OtherTurn
  <2> QED BY <2>1, <2>2
<1>3. ASSUME e \in ledger PROVE e \in sent /\ e \in StripeEvents
  BY <1>3 DEF EventsFit, TypeOK
<1>4. ASSUME e \in ledger, Settled(e) PROVE Settled(e)'
  BY <1>3, <1>4, EventsOrder, SettlementStep, SettledStays DEF TypeOK
<1>5. ASSUME e \in ledger, NEW v \in Workers, Handles(v, e)
      PROVE  \/ Settled(e)' \/ e \in hooks_cut'
             \/ worker'[v] # Idle /\ worker'[v].event = e
  <2>1. CASE Work(v)
    <3>1. worker'[v] = Idle => Settled(e)'
      BY <1>3, <1>5, <2>1, EndedIsSettled
    <3> QED BY <1>5, <2>1, <3>1, WorkerTurn DEF Handles, Turn
  <2>2. CASE Fails(v) \/ Crash(v)
    <3>1. CASE At(v, "enqueue")
      <4>1. status[e[2]] \in {"CONFIRMED", "REFUNDED"}
        <5>1. e # NoEvent
          BY <1>3, <1>5 DEF NoEvent, StripeEvents
        <5> QED BY <1>5, <3>1, <5>1 DEF EventsFit, Handles
      <4>2. Settled(e)
        BY <4>1 DEF Settled, Moot
      <4> QED BY <1>4, <1>5, <4>2
    <3>2. CASE ~At(v, "enqueue")
      <4>1. e # NoEvent
        BY <1>3, <1>5 DEF NoEvent, StripeEvents
      <4> QED BY <1>5, <2>2, <3>2, <4>1 DEF Fails, Crash, Cut, Handles
    <3> QED BY <3>1, <3>2
  <2>3. CASE ~Turn(v)
    <3>1. worker'[v] = worker[v]
      BY <1>5, <2>3, WorkerTurn, OtherTurn DEF Handles
    <3> QED BY <1>5, <3>1 DEF Handles
  <2> QED BY <2>1, <2>2, <2>3 DEF Turn
<1>6. CASE e \in ledger
  BY <1>1, <1>3, <1>4, <1>5, <1>6 DEF EventsPursued
<1> QED BY <1>2, <1>6

(* An order becomes confirmed by a worker that goes on to its tasks.       *)
LEMMA ConfirmedBy ==
  ASSUME LedgerInv, [Next]_vars, NEW o \in Orders,
         status[o] \notin {"CONFIRMED", "REFUNDED"}, status'[o] \in {"CONFIRMED", "REFUNDED"}
  PROVE  \E w \in Workers : /\ worker'[w] # Idle /\ worker'[w].step = "enqueue"
                            /\ worker'[w].order = o
<1> USE DEF LedgerInv, TypeOK
<1>1. ASSUME NEW p \in Orders, CancelTx(p) \/ RefundTx(p) \/ (\E q \in Carts : CreateTx(p, q))
             \/ AttachTx(p) \/ SoftDelete(p)
      PROVE  FALSE
  BY <1>1 DEF CancelTx, RefundTx, CreateTx, AttachTx, SoftDelete, Locked, StoreTypeOK
<1>2. ~UNCHANGED storeVars /\ ~Tick
  BY DEF storeVars, orderVars, Tick
<1>3. PICK w \in Workers : Confirm(w)
  <2>1. ASSUME NEW w \in Workers, Work(w) PROVE Confirm(w)
    <3>1. worker[w] # Idle => worker[w].order \in Orders
      BY DEF Requests
    <3> QED BY <1>1, <1>2, <2>1, <3>1 DEF Work, HookLookup, Refused, Cancel, Enqueue, Dispatched,
           RefundAtStripe, RefundFails, Refund, At
  <2>2. ASSUME NEW w \in Workers, \/ Fails(w) \/ Crash(w) \/ \E p \in Orders : Begin(w, p)
                                  \/ \E e \in StripeEvents : Deliver(w, e)
        PROVE  FALSE
    BY <1>2, <2>2 DEF Fails, Crash, Begin, BeginConfirm, BeginCancel, BeginRefund, RefundSelected,
       Request, Deliver, NewEvent, KnownEvent
  <2>3. ASSUME NEW p \in Orders, \/ SweepOrder(p) \/ Place(p) \/ Attach(p) \/ DeleteOrder(p)
                                 \/ Pay(p) \/ Decline(p)
        PROVE  FALSE
    BY <1>1, <1>2, <2>3 DEF SweepOrder, Place, Attach, DeleteOrder, Pay, Decline
  <2>4. ~PassTime /\ ~UNCHANGED vars
    BY <1>2 DEF PassTime, vars
  <2> QED BY <2>1, <2>2, <2>3, <2>4 DEF Next
<1>4. worker[w] # Idle /\ worker[w] \in Requests
  BY <1>3 DEF Confirm, At
<1>5. worker[w].order = o
  BY <1>3, <1>4 DEF Confirm, ConfirmTx, StoreTypeOK, Requests
<1>6. worker'[w] = [worker[w] EXCEPT !.step = "enqueue"]
  BY <1>3 DEF Confirm, Become
<1>7. worker'[w] # Idle /\ worker'[w].step = "enqueue" /\ worker'[w].order = o
  BY <1>4, <1>5, <1>6 DEF Requests, Idle
<1> QED BY <1>7

(* No step forgets a ticket of a confirmed order, or hands on another.     *)
LEMMA HandedOnStep ==
  ASSUME LedgerInv, EventsFit, TicketsHandedOn, [Next]_vars
  PROVE  TicketsHandedOn'
<1> USE DEF LedgerInv, TypeOK
<1>1. tasks_cut \subseteq tasks_cut' /\ enqueued \subseteq enqueued'
  BY WorkerTurn, OtherTurn DEF cutVars, Enqueue
<1>2. ASSUME NEW o \in Orders, status[o] \in {"CONFIRMED", "REFUNDED"}
      PROVE  items'[o] = items[o] /\ status'[o] \in {"CONFIRMED", "REFUNDED"}
  BY <1>2, SettlementStep, ItemsStay, ConfirmedStays
<1>3. ASSUME NEW o \in Orders, status[o] \in {"CONFIRMED", "REFUNDED"},
             NEW v \in Workers, At(v, "enqueue"), worker[v].order = o
      PROVE  \/ TicketsOf(o) \subseteq enqueued' \/ o \in tasks_cut'
             \/ worker'[v] # Idle /\ worker'[v].step = "enqueue" /\ worker'[v].order = o
  <2>1. CASE Work(v)
    <3>1. Enqueue(v) \/ Dispatched(v)
      BY <1>3, <2>1 DEF Work, HookLookup, Confirm, Refused, Cancel, RefundAtStripe, RefundFails,
         Refund, At
    <3> QED BY <1>3, <3>1 DEF Enqueue, Dispatched, At
  <2>2. CASE Fails(v) \/ Crash(v)
    BY <1>3, <2>2 DEF Fails, Crash, Cut
  <2>3. CASE ~Turn(v)
    <3>1. worker'[v] = worker[v]
      BY <1>3, <2>3, WorkerTurn, OtherTurn DEF At
    <3> QED BY <1>3, <3>1 DEF At
  <2> QED BY <2>1, <2>2, <2>3 DEF Turn
<1>4. ASSUME NEW o \in Orders, status'[o] \in {"CONFIRMED", "REFUNDED"}
      PROVE  \/ OrderRows(o, items'[o]) \subseteq enqueued' \/ o \in tasks_cut'
             \/ \E w \in Workers : /\ worker'[w] # Idle /\ worker'[w].step = "enqueue"
                                   /\ worker'[w].order = o
  <2>1. CASE status[o] \in {"CONFIRMED", "REFUNDED"}
    BY <1>1, <1>2, <1>3, <2>1 DEF TicketsHandedOn, TicketsOf
  <2> QED BY <1>4, <2>1, ConfirmedBy
<1>5. ASSUME NEW r \in enqueued'
      PROVE  status'[r[1]] \in {"CONFIRMED", "REFUNDED"} /\ r \in OrderRows(r[1], items'[r[1]])
  <2>1. CASE r \in enqueued
    <3>1. r[1] \in Orders
      BY <2>1 DEF Rows
    <3> QED BY <1>2, <2>1, <3>1 DEF TicketsHandedOn, TicketsOf
  <2>2. CASE r \notin enqueued
    <3>1. PICK w \in Workers : Enqueue(w)
      BY <2>2, WorkerTurn, OtherTurn
    <3>2. r \in TicketsOf(worker[w].order) /\ At(w, "enqueue") /\ UNCHANGED storeVars
      BY <2>2, <3>1 DEF Enqueue
    <3>3. r[1] = worker[w].order /\ status[r[1]] \in {"CONFIRMED", "REFUNDED"}
      BY <3>2 DEF TicketsOf, OrderRows, EventsFit, At
    <3> QED BY <3>2, <3>3 DEF TicketsOf, storeVars, orderVars
  <2> QED BY <2>1, <2>2
<1> QED BY <1>4, <1>5 DEF TicketsHandedOn, TicketsOf, At

-----------------------------------------------------------------------------

(* Initially nothing is paid and nothing confirmed. *)
LEMMA SettlementInit == Init => StoreInv /\ SettlementInv
<1> SUFFICES ASSUME Init PROVE EventsFit /\ TicketsHandedOn
  BY LedgerInit DEF SettlementInv
<1>1. EventsFit
  BY DEF EventsFit, Init, StoreInit, At
<1> QED BY <1>1 DEF TicketsHandedOn, Init, StoreInit

(* The inductive invariant of settlement holds with that of the tables: it *)
(* says, moreover, that the tickets of a confirmed order, and no others,   *)
(* are handed on one by one, but for a process that dies or is refused.    *)
THEOREM SettlementInvariant == Spec => [](StoreInv /\ SettlementInv)
<1>1. StoreInv /\ SettlementInv /\ [Next]_vars => (StoreInv /\ SettlementInv)'
  <2> SUFFICES ASSUME StoreInv, SettlementInv, [Next]_vars
               PROVE  StoreInv' /\ SettlementInv'
    OBVIOUS
  <2> USE DEF SettlementInv
  <2>1. StoreInv'
    BY SettlementStep, StepPreserves DEF LedgerInv
  <2> QED BY <2>1, LedgerInvStep, EventsFitStep, HandedOnStep
<1> QED BY <1>1, SettlementInit, PTL DEF Spec

(* Stale copies, crashes, repeated webhooks and the sweep change the order *)
(* tables only through the transactions of OrderStore.                     *)
THEOREM SettlementImplementsStore == Spec => ImplementsStore
<1>1. Init => StoreInit
  BY DEF Init
<1>2. SettlementInv /\ [Next]_vars => [StoreNext]_storeVars
  BY SettlementStep DEF SettlementInv, LedgerInv
<1> QED BY <1>1, <1>2, SettlementInvariant, PTL DEF Spec, ImplementsStore, StoreSpec

(* So every confirmation, cancellation, refund and expiry leaves the       *)
(* counters equal to the valid tickets, and no tier oversold.              *)
THEOREM SettlementKeepsInventory ==
  Spec => [](NoOversell /\ CountersExact)
<1>1. StoreInv => NoOversell /\ CountersExact
  BY DEF StoreInv, CountersExact
<1> QED BY <1>1, SettlementInvariant, PTL

(* An order's status moves only forward, and a confirmed order is never    *)
(* cancelled, whatever its requests saw when they began.                   *)
THEOREM StatusForward == Spec => StatusMovesForward
<1>1. StoreInv /\ SettlementInv /\ [Next]_vars =>
        [\A o \in Orders : status'[o] # status[o] =>
           /\ status'[o] \in Transitions[status[o]]
           /\ status[o] = "CONFIRMED" => status'[o] = "REFUNDED"]_vars
  BY SettlementStep, StatusStep DEF StoreInv, SettlementInv, LedgerInv
<1> QED BY <1>1, SettlementInvariant, PTL DEF Spec, StatusMovesForward

(* Stripe returns the money of an order at most once.                      *)
THEOREM RefundOnce == Spec => []RefundedAtMostOnce
<1>1. SettlementInv => RefundedAtMostOnce
  BY DEF SettlementInv, LedgerInv
<1> QED BY <1>1, SettlementInvariant, PTL

(* Stripe's refunds and the orders' statuses agree.                        *)
THEOREM RefundsAgree == Spec => []RefundAgreesWithStripe
<1>1. SettlementInv => RefundAgreesWithStripe
  BY DEF SettlementInv, LedgerInv
<1> QED BY <1>1, SettlementInvariant, PTL

(* However often and however concurrently Stripe delivers an event, it     *)
(* reaches the order at most once.                                         *)
THEOREM EventsHandledOnce == Spec => [](\A e \in StripeEvents : starts[e] <= 1)
<1>1. SettlementInv => \A e \in StripeEvents : starts[e] <= 1
  BY DEF SettlementInv, LedgerInv, LedgerCountsStarts
<1> QED BY <1>1, SettlementInvariant, PTL

(* No event is forgotten, although the ledger hides its repetitions and    *)
(* errors are answered 200: it settled its order, or nobody took it yet,   *)
(* or a worker is on it, or the one that took it died or failed on it.     *)
THEOREM EventsAccountedFor == Spec => []EventsPursued
<1>1. Init => EventsPursued
  BY DEF Init, EventsPursued
<1>2. SettlementInv /\ EventsPursued /\ [Next]_vars => EventsPursued'
  BY PursuedStep DEF SettlementInv
<1> QED BY <1>1, <1>2, SettlementInvariant, PTL DEF Spec

(* Nor are the ticket tasks of an order that was confirmed, each of them,  *)
(* unless the process that publishes them dies or the broker refuses one.  *)
THEOREM ConfirmationsAccountedFor == Spec => []TicketsHandedOn
<1>1. SettlementInv => TicketsHandedOn
  BY DEF SettlementInv
<1> QED BY <1>1, SettlementInvariant, PTL
===============================================================================
