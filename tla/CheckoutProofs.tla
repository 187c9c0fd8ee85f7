---------------------------- MODULE CheckoutProofs ----------------------------
(***************************************************************************)
(* Proofs about the checkout endpoint for any number of concurrent         *)
(* requests, attendees, tiers and events: it only ever writes through the  *)
(* transactions of OrderStore, so the theorems about the order tables      *)
(* carry over, its answers are true, and a refused request leaves no seat  *)
(* lock behind.                                                            *)
(***************************************************************************)
EXTENDS Checkout, OrderStoreProofs

(* Every step of the endpoint, a crash and a delay included, is one of the *)
(* transactions of OrderStore or leaves the order tables alone.            *)
LEMMA CheckoutStep ==
  ASSUME RequestMatchesOrder, [Next]_vars
  PROVE  [StoreNext]_storeVars
<1>1. ASSUME NEW o \in Orders, Step(o) PROVE [StoreNext]_storeVars
  <2>1. CASE CheckPending(o) \/ LockRefused(o) \/ OrderRefused(o) \/ IntentCreated(o)
    BY <2>1 DEF CheckPending, LockRefused, OrderRefused, IntentCreated
  <2>2. CASE \E t \in Tiers : AcquireLock(o, t)
    BY <2>2 DEF AcquireLock
  <2>3. CASE CommitOrder(o)
    <3>1. CreateTx(o, cart[o]) /\ cart[o] \in Carts
      BY <2>3 DEF CommitOrder, Goto, RequestMatchesOrder
    <3> QED BY <3>1 DEF StoreNext
  <2>4. CASE AttachIntent(o)
    BY <2>4 DEF AttachIntent, StoreNext
  <2>5. CASE IntentRefused(o)
    BY <2>5 DEF IntentRefused, StoreNext
  <2>6. CASE CompensationRefused(o) \/ Compensated(o)
    BY <2>6 DEF CompensationRefused, Compensated
  <2> QED BY <1>1, <2>1, <2>2, <2>3, <2>4, <2>5, <2>6 DEF Step
<1>2. ASSUME NEW o \in Orders, CloseOrder(o) PROVE StoreNext
  <2>1. CancelTx(o) \/ ConfirmTx(o, FALSE)
    BY <1>2 DEF CloseOrder
  <2> QED BY <2>1 DEF StoreNext
<1>3. ASSUME NEW o \in Orders, DeleteOrder(o) PROVE StoreNext
  BY <1>3 DEF DeleteOrder, StoreNext
<1>4. ASSUME PassTime PROVE StoreNext
  BY <1>4 DEF PassTime, StoreNext
<1>5. ASSUME NEW o \in Orders,
             \/ \E q \in Carts : Validate(o, q)
             \/ Crash(o) \/ ReleaseOrderLocks(o) \/ CloserCrash(o)
      PROVE  UNCHANGED storeVars
  BY <1>5 DEF Validate, Crash, ReleaseOrderLocks, CloserCrash
<1>6. ASSUME NEW e \in Events, CancelEvent(e) PROVE UNCHANGED storeVars
  BY <1>6 DEF CancelEvent
<1>7. CASE UNCHANGED vars
  BY <1>7 DEF vars
<1> QED BY <1>1, <1>2, <1>3, <1>4, <1>5, <1>6, <1>7 DEF Next

-----------------------------------------------------------------------------
(* The inductive invariant of the endpoint.                                *)

(* Giving seat locks back leaves no lock that was not there, and none of   *)
(* the caller's attendee for the tiers it names (cache.py:66-67).          *)
LEMMA FreedLocks ==
  ASSUME NEW o \in Orders, NEW tiers, NEW k \in LockKeys,
         lock \in [LockKeys -> [until : Nat, by : Orders \cup {NoOne}]]
  PROVE  /\ Freed(o, tiers) \in [LockKeys -> [until : Nat, by : Orders \cup {NoOne}]]
         /\ Freed(o, tiers)[k].by \in {lock[k].by, NoOne}
         /\ k[1] = Buyer[o] /\ k[2] \in tiers => Freed(o, tiers)[k].by = NoOne
BY DEF Freed, Unlocked

(* Before the first request nobody holds a lock or has an answer. *)
LEMMA CheckoutInit == Init => StoreInv /\ CheckoutInv
<1> SUFFICES ASSUME Init PROVE StoreInv /\ CheckoutInv
  OBVIOUS
<1>1. StoreInv
  BY InitInv DEF Init
<1>2. TypeOK
  BY <1>1, StoreAssumption DEF Init, TypeOK, StoreInv, Unlocked, NoItems
<1>3. RequestMatchesOrder /\ AnswerIsTrue /\ RefusedLeavesNoLock
  BY DEF Init, StoreInit, RequestMatchesOrder, AnswerIsTrue, RefusedLeavesNoLock
<1>4. LocksAreRemembered
  BY CheckoutAssumption DEF Init, LocksAreRemembered, Unlocked
<1> QED BY <1>1, <1>2, <1>3, <1>4 DEF CheckoutInv

(* What any step does to an order, as far as the answers depend on it: an  *)
(* order comes into being only in its own request's CommitOrder, a         *)
(* cancelled one stays cancelled, and an intent is never taken away.       *)
LEMMA OrderMoves ==
  ASSUME StoreInv, [StoreNext]_storeVars, NEW o \in Orders
  PROVE  /\ status[o] # "none" => status'[o] # "none"
         /\ status[o] = "CANCELLED" => status'[o] = "CANCELLED"
         /\ status[o] \notin {"none", "PENDING"} => status'[o] # "PENDING"
         /\ intent[o] => intent'[o]
<1> USE DEF StoreInv, StoreTypeOK
<1>1. ASSUME NEW p \in Orders,
             \/ \E q \in Carts : CreateTx(p, q)
             \/ AttachTx(p)
             \/ \E with_intent \in BOOLEAN : ConfirmTx(p, with_intent)
             \/ CancelTx(p) \/ RefundTx(p) \/ SoftDelete(p)
      PROVE  /\ status[o] # "none" => status'[o] # "none"
             /\ status[o] = "CANCELLED" => status'[o] = "CANCELLED"
             /\ status[o] \notin {"none", "PENDING"} => status'[o] # "PENDING"
             /\ intent[o] => intent'[o]
  <2>1. CASE \E q \in Carts : CreateTx(p, q)
    BY <2>1 DEF CreateTx
  <2>2. CASE AttachTx(p) \/ SoftDelete(p)
    BY <2>2 DEF AttachTx, SoftDelete
  <2>3. CASE \E with_intent \in BOOLEAN : ConfirmTx(p, with_intent)
    BY <2>3 DEF ConfirmTx, Locked
  <2>4. CASE CancelTx(p) \/ RefundTx(p)
    BY <2>4 DEF CancelTx, RefundTx, Locked
  <2> QED BY <1>1, <2>1, <2>2, <2>3, <2>4
<1>2. CASE (\E t \in Tiers : ToggleSale(t)) \/ Tick \/ UNCHANGED storeVars
  BY <1>2 DEF ToggleSale, Tick, storeVars, orderVars
<1> QED BY <1>1, <1>2 DEF StoreNext

(* A request does not move by another's step, and no other step creates    *)
(* its order.                                                              *)
LEMMA OthersWait ==
  ASSUME StoreInv, TypeOK, [Next]_vars, NEW o \in Orders
  PROVE  \/ (\E q \in Carts : Validate(o, q)) \/ Step(o) \/ Crash(o)
         \/ /\ pc'[o] = pc[o] /\ cart'[o] = cart[o]
            /\ status[o] = "none" => status'[o] = "none"
<1> USE DEF TypeOK, StoreTypeOK
<1>1. ASSUME NEW p \in Orders, p # o, (\E q \in Carts : Validate(p, q)) \/ Crash(p)
      PROVE  pc'[o] = pc[o] /\ cart'[o] = cart[o] /\ UNCHANGED status
  BY <1>1 DEF Validate, Crash, Goto, storeVars, orderVars
<1>2. ASSUME NEW p \in Orders, p # o, Step(p)
      PROVE  /\ pc'[o] = pc[o] /\ cart'[o] = cart[o]
             /\ status[o] = "none" => status'[o] = "none"
  <2>1. CASE CheckPending(p) \/ LockRefused(p) \/ OrderRefused(p) \/ IntentCreated(p)
    BY <1>2, <2>1 DEF CheckPending, LockRefused, OrderRefused, IntentCreated,
                      Goto, storeVars, orderVars
  <2>2. CASE \E t \in Tiers : AcquireLock(p, t)
    BY <1>2, <2>2 DEF AcquireLock, Goto, storeVars, orderVars
  <2>3. CASE CommitOrder(p)
    BY <1>2, <2>3 DEF CommitOrder, Goto, CreateTx
  <2>4. CASE AttachIntent(p)
    BY <1>2, <2>4 DEF AttachIntent, Goto, AttachTx
  <2>5. CASE IntentRefused(p)
    BY <1>2, <2>5 DEF IntentRefused, Goto, CancelTx
  <2>6. CASE CompensationRefused(p) \/ Compensated(p)
    BY <1>2, <2>6 DEF CompensationRefused, Compensated, Goto, storeVars, orderVars
  <2> QED BY <1>2, <2>1, <2>2, <2>3, <2>4, <2>5, <2>6 DEF Step
<1>3. ASSUME NEW p \in Orders, CloseOrder(p)
      PROVE  /\ pc'[o] = pc[o] /\ cart'[o] = cart[o]
             /\ status[o] = "none" => status'[o] = "none"
  BY <1>3 DEF CloseOrder, CancelTx, ConfirmTx, Locked, requestVars
<1>4. ASSUME NEW p \in Orders, ReleaseOrderLocks(p) \/ CloserCrash(p) \/ DeleteOrder(p)
      PROVE  UNCHANGED <<pc, cart, status>>
  BY <1>4 DEF ReleaseOrderLocks, CloserCrash, DeleteOrder, SoftDelete,
              checkoutVars, requestVars, storeVars, orderVars
<1>5. CASE (\E e \in Events : CancelEvent(e)) \/ PassTime \/ UNCHANGED vars
  BY <1>5 DEF CancelEvent, PassTime, Tick, vars, checkoutVars, requestVars, storeVars, orderVars
<1> QED BY <1>1, <1>2, <1>3, <1>4, <1>5 DEF Next

(* Answers stay true, whoever confirms, cancels or deletes the order       *)
(* between the steps of the request.                                       *)
LEMMA AnswersStep ==
  ASSUME StoreInv, CheckoutInv, [Next]_vars
  PROVE  RequestMatchesOrder' /\ AnswerIsTrue'
<1> SUFFICES ASSUME NEW o \in Orders
             PROVE  /\ pc'[o] # "idle" => cart'[o] \in Carts
                    /\ pc'[o] \in {"idle", "validated", "locking"} => status'[o] = "none"
                    /\ pc'[o] \in {"created", "intent"} => status'[o] # "none"
                    /\ pc'[o] = "cancelling" => status'[o] = "CANCELLED"
                    /\ pc'[o] = "201" => status'[o] # "none" /\ intent'[o]
                    /\ pc'[o] = "402" => status'[o] = "CANCELLED"
                    /\ pc'[o] = "409" => status'[o] # "PENDING"
  BY DEF RequestMatchesOrder, AnswerIsTrue, Carts, NoItems
<1> USE DEF CheckoutInv
<1>1. /\ status[o] # "none" => status'[o] # "none"
      /\ status[o] = "CANCELLED" => status'[o] = "CANCELLED"
      /\ status[o] \notin {"none", "PENDING"} => status'[o] # "PENDING"
      /\ intent[o] => intent'[o]
  BY CheckoutStep, OrderMoves
<1>2. /\ pc[o] # "idle" => cart[o] \in Carts
      /\ pc[o] \in {"idle", "validated", "locking"} => status[o] = "none"
      /\ pc[o] \in {"created", "intent"} => status[o] # "none"
      /\ pc[o] = "cancelling" => status[o] = "CANCELLED"
      /\ pc[o] = "201" => status[o] # "none" /\ intent[o]
      /\ pc[o] = "402" => status[o] = "CANCELLED"
      /\ pc[o] = "409" => status[o] # "PENDING"
  BY DEF RequestMatchesOrder, AnswerIsTrue
<1> USE DEF TypeOK
<1>3. ASSUME NEW q \in Carts, Validate(o, q)
      PROVE  pc'[o] = "validated" /\ cart'[o] \in Carts /\ status'[o] = "none"
  BY <1>2, <1>3 DEF Validate, Goto, storeVars, orderVars
<1>4. CASE CheckPending(o)
  BY <1>2, <1>4 DEF CheckPending, Goto, storeVars, orderVars
<1>5. ASSUME NEW t \in Tiers, AcquireLock(o, t)
      PROVE  pc'[o] = "locking" /\ cart'[o] \in Carts /\ status'[o] = "none"
  BY <1>2, <1>5 DEF AcquireLock, Goto, storeVars, orderVars
<1>6. CASE LockRefused(o) \/ OrderRefused(o)
  <2>1. pc'[o] \in {"409", "error"} /\ cart'[o] \in Carts /\ status'[o] = "none"
    BY <1>2, <1>6 DEF LockRefused, OrderRefused, Goto, storeVars, orderVars
  <2> QED BY <2>1
<1>7. CASE CommitOrder(o)
  <2>1. status'[o] = "PENDING"
    BY <1>7 DEF CommitOrder, CreateTx, StoreTypeOK
  <2> QED BY <1>2, <1>7, <2>1 DEF CommitOrder, Goto
<1>8. CASE IntentCreated(o)
  BY <1>1, <1>2, <1>8 DEF IntentCreated, Goto
<1>9. CASE AttachIntent(o)
  <2>1. intent'[o] /\ status[o] # "none"
    BY <1>9 DEF AttachIntent, AttachTx, StoreTypeOK
  <2>2. pc'[o] \in {"201", "error"} /\ cart'[o] \in Carts
    BY <1>2, <1>9 DEF AttachIntent, Goto
  <2> QED BY <1>1, <2>1, <2>2
<1>10. CASE IntentRefused(o)
  <2>1. status'[o] = "CANCELLED"
    BY <1>10 DEF IntentRefused, CancelTx, StoreTypeOK
  <2> QED BY <1>2, <1>10, <2>1 DEF IntentRefused, Goto
<1>11. CASE CompensationRefused(o)
  <2>1. pc'[o] \in {"409", "error"} /\ cart'[o] \in Carts /\ status'[o] = status[o]
    BY <1>2, <1>11 DEF CompensationRefused, Goto, storeVars, orderVars
  <2>2. pc'[o] = "409" => status[o] # "PENDING"
    BY <1>11 DEF CompensationRefused, Goto, Locked
  <2> QED BY <2>1, <2>2
<1>12. CASE Compensated(o)
  BY <1>1, <1>2, <1>12 DEF Compensated, Goto
<1>13. CASE Crash(o)
  BY <1>2, <1>13 DEF Crash, InFlight
<1>14. CASE /\ pc'[o] = pc[o] /\ cart'[o] = cart[o]
            /\ status[o] = "none" => status'[o] = "none"
  BY <1>1, <1>2, <1>14
<1> QED BY OthersWait, <1>3, <1>4, <1>5, <1>6, <1>7, <1>8, <1>9, <1>10, <1>11,
           <1>12, <1>13, <1>14 DEF Step

(* Every seat lock is accounted for by the request that took it, until it  *)
(* is freed or the request dies.                                           *)
LEMMA LocksStep ==
  ASSUME StoreInv, CheckoutInv, [Next]_vars
  PROVE  LocksAreRemembered' /\ RefusedLeavesNoLock'
<1> USE DEF CheckoutInv, TypeOK, LocksAreRemembered, RefusedLeavesNoLock
<1> DEFINE Rest == UNCHANGED <<lock, acquired, cart>>
<1>0. \A o \in Orders : status[o] # "none" => status'[o] # "none"
  BY CheckoutStep, OrderMoves
<1>1. ASSUME NEW p \in Orders, NEW q \in Carts, Validate(p, q)
      PROVE  LocksAreRemembered' /\ RefusedLeavesNoLock'
  BY <1>0, <1>1 DEF Validate, Goto, Asked
<1>2. ASSUME NEW p \in Orders, CheckPending(p)
      PROVE  LocksAreRemembered' /\ RefusedLeavesNoLock'
  BY <1>0, <1>2 DEF CheckPending, Goto, Asked
<1>3. ASSUME NEW p \in Orders, NEW t \in Tiers, AcquireLock(p, t)
      PROVE  LocksAreRemembered' /\ RefusedLeavesNoLock'
  <2>1. key(p, t) \in LockKeys /\ key(p, t)[1] = Buyer[p] /\ key(p, t)[2] = t
    BY CheckoutAssumption DEF key, LockKeys
  <2>2. \A k \in LockKeys : lock'[k].by = IF k = key(p, t) THEN p ELSE lock[k].by
    BY <1>3, <2>1 DEF AcquireLock
  <2>3. /\ \A o \in Orders : pc'[o] = pc[o]
        /\ cart' = cart
        /\ \A o \in Orders : acquired'[o] = IF o = p THEN acquired[o] \cup {t}
                                                     ELSE acquired[o]
        /\ pc[p] = "locking" /\ t \in Asked(p)
    BY <1>3 DEF AcquireLock, Goto, Asked
  <2>4. LocksAreRemembered'
    <3> SUFFICES ASSUME NEW o \in Orders
                 PROVE  /\ acquired'[o] \subseteq Asked(o)'
                        /\ pc'[o] \in {"idle", "validated"} => acquired'[o] = {}
                        /\ \A k \in LockKeys :
                             lock'[k].by = o => k[1] = Buyer[o] /\ k[2] \in acquired'[o]
      OBVIOUS
    <3>1. CASE o = p
      <4>1. acquired'[o] = acquired[o] \cup {t} /\ pc'[o] = "locking"
        BY <2>3, <3>1
      <4>2. acquired'[o] \subseteq Asked(o)'
        BY <2>3, <3>1, <4>1 DEF Asked
      <4>3. ASSUME NEW k \in LockKeys, lock'[k].by = o
            PROVE  k[1] = Buyer[o] /\ k[2] \in acquired'[o]
        <5>1. CASE k = key(p, t)
          BY <2>1, <3>1, <4>1, <5>1
        <5>2. CASE k # key(p, t)
          BY <2>2, <4>1, <4>3, <5>2
        <5> QED BY <5>1, <5>2
      <4> QED BY <4>1, <4>2, <4>3
    <3>2. CASE o # p
      BY <2>2, <2>3, <3>2 DEF Asked
    <3> QED BY <3>1, <3>2
  <2>5. RefusedLeavesNoLock'
    BY <1>0, <2>2, <2>3
  <2> QED BY <2>4, <2>5
<1>4. ASSUME NEW p \in Orders, LockRefused(p) \/ OrderRefused(p) \/ Compensated(p)
      PROVE  LocksAreRemembered' /\ RefusedLeavesNoLock'
  <2>1. PICK tiers \in SUBSET Tiers : lock' = Freed(p, tiers) /\ acquired[p] \subseteq tiers
    BY <1>4 DEF LockRefused, OrderRefused, Compensated, Free, Asked
  <2>2. \A k \in LockKeys : /\ lock'[k].by \in {lock[k].by, NoOne}
                            /\ k[1] = Buyer[p] /\ k[2] \in tiers => lock'[k].by = NoOne
    BY <2>1, FreedLocks
  <2>3. \A k \in LockKeys : lock'[k].by # p
    BY <2>1, <2>2, CheckoutAssumption
  <2>4. /\ UNCHANGED <<acquired, cart>>
        /\ \A o \in Orders : o # p => pc'[o] = pc[o]
        /\ pc'[p] \in {"402", "409", "error"}
    BY <1>4 DEF LockRefused, OrderRefused, Compensated, Goto
  <2>5. \A k \in LockKeys, o \in Orders : lock'[k].by = o => lock[k].by = o
    BY <2>2, CheckoutAssumption
  <2>6. LocksAreRemembered'
    BY <2>4, <2>5 DEF Asked
  <2>7. RefusedLeavesNoLock'
    <3> SUFFICES ASSUME NEW o \in Orders,
                        pc'[o] = "402" \/ (pc'[o] = "409" /\ status'[o] = "none")
                 PROVE  \A k \in LockKeys : lock'[k].by # o
      OBVIOUS
    <3>1. CASE o = p
      BY <2>3, <3>1
    <3>2. CASE o # p
      BY <1>0, <2>4, <2>5, <3>2
    <3> QED BY <3>1, <3>2
  <2> QED BY <2>6, <2>7
<1>5. ASSUME NEW p \in Orders,
             \/ CommitOrder(p) \/ IntentCreated(p) \/ AttachIntent(p)
             \/ IntentRefused(p) \/ CompensationRefused(p) \/ Crash(p)
      PROVE  LocksAreRemembered' /\ RefusedLeavesNoLock'
  <2>1. PICK to \in {"created", "intent", "201", "409", "error", "cancelling", "crashed"} :
          pc' = [pc EXCEPT ![p] = to] /\ (to = "409" => status[p] # "none")
    BY <1>5 DEF CommitOrder, IntentCreated, AttachIntent, IntentRefused,
                CompensationRefused, Crash, Goto, RequestMatchesOrder
  <2>2. Rest
    BY <1>5 DEF CommitOrder, IntentCreated, AttachIntent, IntentRefused,
                CompensationRefused, Crash
  <2> QED BY <1>0, <2>1, <2>2 DEF Asked
<1>6. ASSUME NEW p \in Orders, ReleaseOrderLocks(p)
      PROVE  LocksAreRemembered' /\ RefusedLeavesNoLock'
  <2>1. /\ \A k \in LockKeys : lock'[k].by \in {lock[k].by, NoOne}
        /\ UNCHANGED <<pc, acquired, cart>>
    BY <1>6, FreedLocks DEF ReleaseOrderLocks, Free, requestVars
  <2> QED BY <1>0, <2>1, CheckoutAssumption DEF Asked
<1>7. ASSUME UNCHANGED <<pc, acquired, cart, lock>>
      PROVE  LocksAreRemembered' /\ RefusedLeavesNoLock'
  BY <1>0, <1>7 DEF Asked
<1>8. CASE \E o \in Orders : CloseOrder(o) \/ CloserCrash(o) \/ DeleteOrder(o)
  BY <1>7, <1>8 DEF CloseOrder, CloserCrash, DeleteOrder, checkoutVars, requestVars
<1>9. CASE (\E e \in Events : CancelEvent(e)) \/ PassTime \/ UNCHANGED vars
  BY <1>7, <1>9 DEF CancelEvent, PassTime, vars, checkoutVars, requestVars
<1> QED BY <1>1, <1>2, <1>3, <1>4, <1>5, <1>6, <1>8, <1>9 DEF Next, Step

(* The endpoint's own variables keep their types. *)
LEMMA TypeStep ==
  ASSUME StoreInv, StoreInv', CheckoutInv, [Next]_vars
  PROVE  TypeOK'
<1> USE DEF CheckoutInv, TypeOK
<1>1. StoreTypeOK' /\ now \in Nat
  BY StoreAssumption DEF StoreInv, StoreTypeOK
<1>2. pc' \in [Orders -> InFlight \cup Answered \cup {"idle", "crashed"}]
  BY DEF Next, Step, Validate, CheckPending, AcquireLock, LockRefused, CommitOrder,
         OrderRefused, IntentCreated, AttachIntent, IntentRefused, CompensationRefused,
         Compensated, Crash, CloseOrder, ReleaseOrderLocks, CloserCrash, DeleteOrder,
         CancelEvent, PassTime, vars, checkoutVars, requestVars, Goto, InFlight, Answered
<1>3. cart' \in [Orders -> [Tiers -> 0..MaxPerItem]] /\ acquired' \in [Orders -> SUBSET Tiers]
  <2>1. ASSUME NEW o \in Orders, NEW q \in Carts, Validate(o, q)
        PROVE  cart' \in [Orders -> [Tiers -> 0..MaxPerItem]] /\ UNCHANGED acquired
    <3>1. q \in [Tiers -> 0..MaxPerItem] /\ cart' = [cart EXCEPT ![o] = q]
      BY <2>1 DEF Validate, Carts
    <3> QED BY <2>1, <3>1 DEF Validate
  <2>2. ASSUME NEW o \in Orders, NEW t \in Tiers, AcquireLock(o, t)
        PROVE  UNCHANGED cart /\ acquired' \in [Orders -> SUBSET Tiers]
    <3>1. acquired' = [acquired EXCEPT ![o] = acquired[o] \cup {t}]
      BY <2>2 DEF AcquireLock
    <3> QED BY <2>2, <3>1 DEF AcquireLock
  <2>3. ASSUME NEW o \in Orders,
               \/ CheckPending(o) \/ LockRefused(o) \/ CommitOrder(o) \/ OrderRefused(o)
               \/ IntentCreated(o) \/ AttachIntent(o) \/ IntentRefused(o)
               \/ CompensationRefused(o) \/ Compensated(o) \/ Crash(o)
               \/ CloseOrder(o) \/ ReleaseOrderLocks(o) \/ CloserCrash(o) \/ DeleteOrder(o)
        PROVE  UNCHANGED <<cart, acquired>>
    BY <2>3 DEF CheckPending, LockRefused, CommitOrder, OrderRefused, IntentCreated,
                AttachIntent, IntentRefused, CompensationRefused, Compensated, Crash,
                CloseOrder, ReleaseOrderLocks, CloserCrash, DeleteOrder, checkoutVars,
                requestVars
  <2>4. CASE (\E e \in Events : CancelEvent(e)) \/ PassTime \/ UNCHANGED vars
    BY <2>4 DEF CancelEvent, PassTime, vars, checkoutVars, requestVars
  <2> QED BY <2>1, <2>2, <2>3, <2>4 DEF Next, Step
<1>4. lock' \in [LockKeys -> [until : Nat, by : Orders \cup {NoOne}]]
  <2>1. ASSUME NEW o \in Orders, NEW t \in Tiers, AcquireLock(o, t)
        PROVE  lock' \in [LockKeys -> [until : Nat, by : Orders \cup {NoOne}]]
    <3>1. now + LockTTL \in Nat
      BY <1>1, CheckoutAssumption
    <3>2. [until |-> now + LockTTL, by |-> o] \in [until : Nat, by : Orders \cup {NoOne}]
      BY <3>1
    <3> QED BY <2>1, <3>2 DEF AcquireLock
  <2>2. ASSUME NEW o \in Orders,
               LockRefused(o) \/ OrderRefused(o) \/ Compensated(o) \/ ReleaseOrderLocks(o)
        PROVE  lock' \in [LockKeys -> [until : Nat, by : Orders \cup {NoOne}]]
    BY <2>2 DEF LockRefused, OrderRefused, Compensated, ReleaseOrderLocks, Free, Freed, Unlocked
  <2>3. ASSUME NEW o \in Orders,
               \/ \E q \in Carts : Validate(o, q)
               \/ CheckPending(o) \/ CommitOrder(o) \/ IntentCreated(o) \/ AttachIntent(o)
               \/ IntentRefused(o) \/ CompensationRefused(o) \/ Crash(o)
               \/ CloseOrder(o) \/ CloserCrash(o) \/ DeleteOrder(o)
        PROVE  UNCHANGED lock
    BY <2>3 DEF Validate, CheckPending, CommitOrder, IntentCreated, AttachIntent,
                IntentRefused, CompensationRefused, Crash, CloseOrder, CloserCrash,
                DeleteOrder, checkoutVars
  <2>4. CASE (\E e \in Events : CancelEvent(e)) \/ PassTime \/ UNCHANGED vars
    BY <2>4 DEF CancelEvent, PassTime, vars, checkoutVars, requestVars
  <2> QED BY <2>1, <2>2, <2>3, <2>4 DEF Next, Step
<1>5. closing' \subseteq Orders /\ published' \subseteq Events
  BY DEF Next, Step, Validate, CheckPending, AcquireLock, LockRefused, CommitOrder,
         OrderRefused, IntentCreated, AttachIntent, IntentRefused, CompensationRefused,
         Compensated, Crash, CloseOrder, ReleaseOrderLocks, CloserCrash, DeleteOrder,
         CancelEvent, PassTime, vars, checkoutVars, requestVars
<1>6. lapsed' \subseteq Orders /\ robbed' \subseteq Orders
  <2>1. ASSUME NEW o \in Orders,
               LockRefused(o) \/ OrderRefused(o) \/ Compensated(o) \/ ReleaseOrderLocks(o)
        PROVE  lapsed' \subseteq Orders /\ robbed' \subseteq Orders
    BY <2>1 DEF LockRefused, OrderRefused, Compensated, ReleaseOrderLocks, Free, Robbed
  <2>3. CASE UNCHANGED lossVars
    BY <2>3 DEF lossVars
  <2>4. CASE PassTime
    BY <2>4 DEF PassTime
  <2>5. ASSUME NEW o \in Orders,
               \/ \E q \in Carts : Validate(o, q)
               \/ CheckPending(o) \/ (\E t \in Tiers : AcquireLock(o, t)) \/ CommitOrder(o)
               \/ IntentCreated(o) \/ AttachIntent(o) \/ IntentRefused(o)
               \/ CompensationRefused(o) \/ Crash(o)
               \/ CloseOrder(o) \/ CloserCrash(o) \/ DeleteOrder(o)
        PROVE  UNCHANGED lossVars
    BY <2>5 DEF Validate, CheckPending, AcquireLock, CommitOrder, IntentCreated, AttachIntent,
                IntentRefused, CompensationRefused, Crash, CloseOrder, CloserCrash,
                DeleteOrder, checkoutVars
  <2>6. CASE (\E e \in Events : CancelEvent(e)) \/ UNCHANGED vars
    BY <2>3, <2>6 DEF CancelEvent, vars, checkoutVars
  <2> QED BY <2>1, <2>3, <2>4, <2>5, <2>6 DEF Next, Step
<1> QED BY <1>1, <1>2, <1>3, <1>4, <1>5, <1>6

-----------------------------------------------------------------------------

(* The inductive invariant of the endpoint holds with that of the tables.  *)
THEOREM CheckoutInvariant == Spec => [](StoreInv /\ CheckoutInv)
<1>1. StoreInv /\ CheckoutInv /\ [Next]_vars => (StoreInv /\ CheckoutInv)'
  <2> SUFFICES ASSUME StoreInv, CheckoutInv, [Next]_vars
               PROVE  StoreInv' /\ CheckoutInv'
    OBVIOUS
  <2>1. StoreInv'
    BY CheckoutStep, StepPreserves DEF CheckoutInv
  <2> QED BY <2>1, TypeStep, AnswersStep, LocksStep DEF CheckoutInv
<1> QED BY <1>1, CheckoutInit, PTL DEF Spec

(* Whatever the interleaving, the endpoint writes the order tables only    *)
(* through the transactions of OrderStore.                                 *)
THEOREM CheckoutImplementsStore == Spec => ImplementsStore
<1>1. Init => StoreInit
  BY DEF Init
<1>2. CheckoutInv /\ [Next]_vars => [StoreNext]_storeVars
  BY CheckoutStep DEF CheckoutInv
<1> QED BY <1>1, <1>2, CheckoutInvariant, PTL DEF Spec, ImplementsStore, StoreSpec

(* So concurrent checkouts never oversell a tier, and the counters agree   *)
(* with the tickets.                                                       *)
THEOREM CheckoutNeverOversells ==
  Spec => [](NoOversell /\ CountersExact)
<1>1. StoreInv => NoOversell /\ CountersExact
  BY DEF StoreInv, CountersExact
<1> QED BY <1>1, CheckoutInvariant, PTL

(* 201, 402 and 409 tell the truth about the order, for as long as anybody *)
(* remembers the answer.                                                   *)
THEOREM AnswersAreTrue == Spec => []AnswerIsTrue
<1>1. CheckoutInv => AnswerIsTrue
  BY DEF CheckoutInv
<1> QED BY <1>1, CheckoutInvariant, PTL

(* A checkout that made no order, or cancelled it again, and is answered   *)
(* 409 or 402 holds no seat lock, at whichever tier it failed.             *)
THEOREM RefusalFreesLocks == Spec => []RefusedLeavesNoLock
<1>1. CheckoutInv => RefusedLeavesNoLock
  BY DEF CheckoutInv
<1> QED BY <1>1, CheckoutInvariant, PTL

-----------------------------------------------------------------------------
(* The seat locks.                                                         *)

(* Some sets and keys that the proofs below speak of. *)
LEMMA Keys ==
  ASSUME CheckoutInv, NEW o \in Orders
  PROVE  /\ now \in Nat /\ now + LockTTL \in Nat /\ now + LockTTL > now
         /\ Asked(o) \subseteq Tiers /\ acquired[o] \subseteq Asked(o)
         /\ MayFree(o) \subseteq Asked(o)
         /\ \A t \in Tiers : key(o, t) \in LockKeys /\ lock[key(o, t)].until \in Nat
BY StoreAssumption, CheckoutAssumption
   DEF CheckoutInv, TypeOK, StoreTypeOK, Asked, MayFree, LocksAreRemembered, key, LockKeys

(* Once a lock of the attendee has run out, it is late for all his orders. *)
LEMMA LateStays ==
  ASSUME lapsed \subseteq lapsed'
  PROVE  /\ \A o \in Orders : Late(o) => Late(o)'
         /\ \A o, p \in Orders : o \in lapsed /\ Buyer[p] = Buyer[o] => Late(p)
BY CheckoutAssumption DEF Late, CheckoutInv, TypeOK

(* What a step leaves of an order and its request, when it is not a step   *)
(* of that request or about that order.                                    *)
LEMMA OthersLeave ==
  ASSUME CheckoutInv, NEW o \in Orders, NEW p \in Orders \ {o},
         (\E q \in Carts : Validate(p, q)) \/ Step(p) \/ Crash(p) \/ CloseOrder(p)
         \/ ReleaseOrderLocks(p) \/ CloserCrash(p) \/ DeleteOrder(p)
  PROVE  /\ pc'[o] = pc[o] /\ cart'[o] = cart[o] /\ acquired'[o] = acquired[o] /\ now' = now
         /\ status'[o] = status[o] /\ items'[o] = items[o] /\ expires_at'[o] = expires_at[o]
         /\ is_deleted'[o] = is_deleted[o] /\ (o \in closing' => o \in closing)
<1> USE DEF CheckoutInv, TypeOK, StoreTypeOK, storeVars, orderVars, checkoutVars, requestVars
<1>1. CASE (\E q \in Carts : Validate(p, q)) \/ Crash(p) \/ ReleaseOrderLocks(p)
           \/ CloserCrash(p)
  BY <1>1 DEF Validate, Crash, ReleaseOrderLocks, CloserCrash, Goto
<1>2. CASE DeleteOrder(p)
  BY <1>2 DEF DeleteOrder, SoftDelete
<1>3. CASE CloseOrder(p)
  BY <1>3 DEF CloseOrder, CancelTx, ConfirmTx
<1>4. CASE CheckPending(p) \/ LockRefused(p) \/ OrderRefused(p) \/ IntentCreated(p)
           \/ CompensationRefused(p) \/ Compensated(p) \/ (\E t \in Tiers : AcquireLock(p, t))
  BY <1>4 DEF CheckPending, LockRefused, OrderRefused, IntentCreated, CompensationRefused,
              Compensated, AcquireLock, Goto
<1>5. CASE CommitOrder(p)
  BY <1>5 DEF CommitOrder, CreateTx, Goto
<1>6. CASE AttachIntent(p) \/ IntentRefused(p)
  BY <1>6 DEF AttachIntent, AttachTx, IntentRefused, CancelTx, Goto
<1> QED BY <1>1, <1>2, <1>3, <1>4, <1>5, <1>6 DEF Step

(* What may still be freed grows only by the lock a request takes, an      *)
(* order's items stay the cart, and whoever closes an order comes after    *)
(* its own request's compensation, or instead of it.                       *)
LEMMA MayFreeGrows ==
  ASSUME StoreInv, CheckoutInv, LocksProtect, [Next]_vars, NEW o \in Orders
  PROVE  /\ MayFree(o)' \subseteq MayFree(o) \cup {t \in Tiers : AcquireLock(o, t)}
         /\ status'[o] # "none" => items'[o] = cart'[o]
         /\ o \in closing' => status'[o] \notin {"none", "PENDING"} /\ pc'[o] # "cancelling"
<1> DEFINE Grows ==
      /\ MayFree(o)' \subseteq MayFree(o) \cup {t \in Tiers : AcquireLock(o, t)}
      /\ status'[o] # "none" => items'[o] = cart'[o]
      /\ o \in closing' => status'[o] \notin {"none", "PENDING"} /\ pc'[o] # "cancelling"
<1> SUFFICES Grows
  OBVIOUS
<1> USE DEF StoreTypeOK, storeVars, orderVars, checkoutVars, requestVars
<1>1. /\ status[o] # "none" => items[o] = cart[o]
      /\ o \in closing => status[o] \notin {"none", "PENDING"} /\ pc[o] # "cancelling"
  BY DEF LocksProtect, Protected
<1>2. /\ pc[o] \in {"idle", "validated", "locking"} => status[o] = "none"
      /\ pc[o] \in {"created", "intent"} => status[o] # "none"
      /\ pc[o] = "cancelling" => status[o] = "CANCELLED"
      /\ acquired[o] \subseteq Asked(o)
      /\ pc[o] \in {"idle", "validated"} => acquired[o] = {}
  BY DEF CheckoutInv, RequestMatchesOrder, LocksAreRemembered
<1>3. TypeOK /\ StoreTypeOK
  BY DEF CheckoutInv, TypeOK
<1>4. CASE \E q \in Carts : Validate(o, q)
  <2>1. /\ pc[o] = "idle" /\ pc'[o] = "validated" /\ acquired'[o] = {}
        /\ UNCHANGED <<status, items, closing>>
    BY <1>2, <1>3, <1>4 DEF Validate, Goto, TypeOK
  <2> QED BY <1>1, <1>2, <2>1 DEF MayFree
<1>5. CASE CheckPending(o)
  <2>1. /\ pc[o] = "validated" /\ acquired'[o] = {}
        /\ pc'[o] \in {"409", "locking"}
        /\ UNCHANGED <<status, items, cart, closing>>
    BY <1>2, <1>3, <1>5 DEF CheckPending, Goto, TypeOK
  <2> QED BY <1>1, <1>2, <2>1 DEF MayFree
<1>6. ASSUME NEW t \in Tiers, AcquireLock(o, t) PROVE Grows
  <2>1. /\ pc[o] = "locking" /\ pc'[o] = "locking" /\ acquired'[o] = acquired[o] \cup {t}
        /\ UNCHANGED <<status, items, cart, closing>>
    BY <1>3, <1>6 DEF AcquireLock, Goto, TypeOK
  <2> QED BY <1>1, <1>2, <1>6, <2>1 DEF MayFree, Asked
<1>7. CASE LockRefused(o) \/ OrderRefused(o)
  <2>1. /\ pc[o] = "locking" /\ pc'[o] \in {"409", "error"}
        /\ UNCHANGED <<status, items, cart, closing>>
    BY <1>3, <1>7 DEF LockRefused, OrderRefused, Goto, TypeOK
  <2> QED BY <1>1, <1>2, <2>1 DEF MayFree, Asked
<1>8. CASE CommitOrder(o)
  <2>1. /\ pc[o] = "locking" /\ pc'[o] = "created" /\ acquired[o] = Asked(o)
        /\ status'[o] = "PENDING" /\ items'[o] = cart[o]
        /\ UNCHANGED <<cart, closing>>
    BY <1>3, <1>8 DEF CommitOrder, CreateTx, Goto, TypeOK
  <2> QED BY <1>1, <1>2, <2>1 DEF MayFree, Asked
<1>9. CASE IntentCreated(o) \/ AttachIntent(o) \/ CompensationRefused(o) \/ Crash(o)
  <2>1. /\ pc'[o] \in {"intent", "201", "409", "error", "crashed"}
        /\ UNCHANGED <<status, items, cart, closing>>
    BY <1>3, <1>9 DEF IntentCreated, AttachIntent, AttachTx, CompensationRefused, Crash,
                      Goto, TypeOK
  <2> QED BY <1>1, <1>2, <2>1 DEF MayFree, Asked
<1>10. CASE IntentRefused(o)
  <2>1. /\ pc'[o] = "cancelling" /\ status[o] = "PENDING" /\ status'[o] = "CANCELLED"
        /\ UNCHANGED <<items, cart, closing>>
    BY <1>3, <1>10 DEF IntentRefused, CancelTx, Locked, Goto, TypeOK
  <2> QED BY <1>1, <1>2, <2>1 DEF MayFree, Asked
<1>11. CASE Compensated(o)
  <2>1. /\ pc'[o] = "402" /\ UNCHANGED <<status, items, cart, closing>>
    BY <1>3, <1>11 DEF Compensated, Goto, TypeOK
  <2> QED BY <1>1, <1>2, <2>1 DEF MayFree, Asked
<1>12. CASE CloseOrder(o)
  <2>1. /\ status[o] = "PENDING" /\ status'[o] \in {"CANCELLED", "CONFIRMED"}
        /\ UNCHANGED <<items, cart, pc, acquired>>
    BY <1>3, <1>12 DEF CloseOrder, CancelTx, ConfirmTx, Locked
  <2> QED BY <1>1, <1>2, <2>1 DEF MayFree, Asked
<1>13. CASE ReleaseOrderLocks(o) \/ CloserCrash(o) \/ DeleteOrder(o)
  <2>1. closing' \subseteq closing /\ UNCHANGED <<status, items, cart, pc, acquired>>
    BY <1>13 DEF ReleaseOrderLocks, CloserCrash, DeleteOrder, SoftDelete
  <2> QED BY <1>1, <1>2, <2>1 DEF MayFree, Asked
<1>14. ASSUME NEW p \in Orders \ {o},
              (\E q \in Carts : Validate(p, q)) \/ Step(p) \/ Crash(p) \/ CloseOrder(p)
              \/ ReleaseOrderLocks(p) \/ CloserCrash(p) \/ DeleteOrder(p)
       PROVE  Grows
  <2>1. /\ pc'[o] = pc[o] /\ cart'[o] = cart[o] /\ acquired'[o] = acquired[o]
        /\ status'[o] = status[o] /\ items'[o] = items[o]
        /\ (o \in closing' => o \in closing)
    BY <1>14, OthersLeave
  <2> QED BY <1>1, <2>1 DEF MayFree, Asked
<1>15. CASE (\E e \in Events : CancelEvent(e)) \/ PassTime \/ UNCHANGED vars
  <2>1. UNCHANGED <<status, items, cart, pc, acquired, closing>>
    BY <1>15 DEF CancelEvent, PassTime, Tick, vars
  <2> QED BY <1>1, <2>1 DEF MayFree, Asked
<1> QED BY <1>4, <1>5, <1>6, <1>7, <1>8, <1>9, <1>10, <1>11, <1>12, <1>13, <1>14, <1>15
        DEF Next, Step

(* A request only frees what it may free, and then no more. *)
LEMMA FreesMine ==
  ASSUME StoreInv, CheckoutInv, LocksProtect, NEW p \in Orders,
         LockRefused(p) \/ OrderRefused(p) \/ Compensated(p) \/ ReleaseOrderLocks(p)
  PROVE  /\ \E tiers \in SUBSET MayFree(p) : Free(p, tiers)
         /\ MayFree(p)' = {} /\ now' = now
<1> USE DEF CheckoutInv, TypeOK, StoreTypeOK, storeVars, orderVars, requestVars
<1>1. /\ p \in closing => status[p] \notin {"none", "PENDING"} /\ pc[p] # "cancelling"
      /\ pc[p] = "locking" => status[p] = "none"
      /\ pc[p] = "cancelling" => status[p] = "CANCELLED"
      /\ acquired[p] \subseteq Asked(p)
  BY DEF LocksProtect, Protected, RequestMatchesOrder, LocksAreRemembered
<1>2. CASE LockRefused(p) \/ OrderRefused(p)
  <2>1. /\ pc[p] = "locking" /\ pc'[p] \in {"409", "error"} /\ Free(p, acquired[p])
        /\ UNCHANGED <<storeVars, cart, closing>>
    BY <1>2 DEF LockRefused, OrderRefused, Goto
  <2>2. acquired[p] \in SUBSET MayFree(p)
    BY <1>1, <2>1 DEF MayFree
  <2>3. MayFree(p)' = {}
    BY <1>1, <2>1 DEF MayFree
  <2> QED BY <2>1, <2>2, <2>3
<1>3. CASE Compensated(p)
  <2>1. /\ pc[p] = "cancelling" /\ pc'[p] = "402" /\ Free(p, Asked(p))
        /\ UNCHANGED <<storeVars, cart, closing>>
    BY <1>3 DEF Compensated, Goto
  <2>2. Asked(p) \in SUBSET MayFree(p)
    BY <2>1 DEF MayFree
  <2>3. MayFree(p)' = {}
    BY <1>1, <2>1 DEF MayFree
  <2> QED BY <2>1, <2>2, <2>3
<1>4. CASE ReleaseOrderLocks(p)
  <2>1. /\ p \in closing /\ p \notin closing' /\ Free(p, Asked(p))
        /\ UNCHANGED <<storeVars, pc, cart, acquired>>
    BY <1>4 DEF ReleaseOrderLocks
  <2>2. Asked(p) \in SUBSET MayFree(p)
    BY <2>1 DEF MayFree
  <2>3. MayFree(p)' = {}
    BY <1>1, <2>1 DEF MayFree
  <2> QED BY <2>1, <2>2, <2>3
<1> QED BY <1>2, <1>3, <1>4

(* What becomes of the seat locks in a step: all stay, one is taken that   *)
(* was free, some are freed, or some run out.                              *)
LEMMA LockMoves ==
  ASSUME StoreInv, CheckoutInv, LocksProtect, [Next]_vars
  PROVE  \/ UNCHANGED <<lock, lapsed, robbed, now>>
         \/ \E p \in Orders, t \in Tiers :
              /\ AcquireLock(p, t) /\ ~Taken(key(p, t))
              /\ lock' = [lock EXCEPT ![key(p, t)] = [until |-> now + LockTTL, by |-> p]]
              /\ UNCHANGED <<lapsed, robbed, now>>
         \/ \E p \in Orders : /\ \E tiers \in SUBSET MayFree(p) : Free(p, tiers)
                              /\ MayFree(p)' = {} /\ now' = now
         \/ PassTime
<1> USE DEF storeVars, orderVars, checkoutVars, requestVars, lossVars
<1>1. ASSUME NEW p \in Orders, NEW t \in Tiers, AcquireLock(p, t)
      PROVE  /\ AcquireLock(p, t) /\ ~Taken(key(p, t))
             /\ lock' = [lock EXCEPT ![key(p, t)] = [until |-> now + LockTTL, by |-> p]]
             /\ UNCHANGED <<lapsed, robbed, now>>
  BY <1>1 DEF AcquireLock
<1>2. ASSUME NEW p \in Orders,
             LockRefused(p) \/ OrderRefused(p) \/ Compensated(p) \/ ReleaseOrderLocks(p)
      PROVE  /\ \E tiers \in SUBSET MayFree(p) : Free(p, tiers)
             /\ MayFree(p)' = {} /\ now' = now
  BY <1>2, FreesMine
<1>3. ASSUME NEW p \in Orders,
             \/ \E q \in Carts : Validate(p, q)
             \/ CheckPending(p) \/ CommitOrder(p) \/ IntentCreated(p) \/ AttachIntent(p)
             \/ IntentRefused(p) \/ CompensationRefused(p) \/ Crash(p)
             \/ CloseOrder(p) \/ CloserCrash(p) \/ DeleteOrder(p)
      PROVE  UNCHANGED <<lock, lapsed, robbed, now>>
  <2>1. CASE \/ \E q \in Carts : Validate(p, q)
             \/ CheckPending(p) \/ IntentCreated(p) \/ CompensationRefused(p) \/ Crash(p)
             \/ CloserCrash(p)
    BY <2>1 DEF Validate, CheckPending, IntentCreated, CompensationRefused, Crash, CloserCrash
  <2>2. CASE CommitOrder(p) \/ AttachIntent(p) \/ IntentRefused(p)
    BY <2>2 DEF CommitOrder, CreateTx, AttachIntent, AttachTx, IntentRefused, CancelTx
  <2>3. CASE CloseOrder(p) \/ DeleteOrder(p)
    BY <2>3 DEF CloseOrder, CancelTx, ConfirmTx, DeleteOrder, SoftDelete
  <2> QED BY <1>3, <2>1, <2>2, <2>3
<1>4. CASE (\E e \in Events : CancelEvent(e)) \/ UNCHANGED vars
  BY <1>4 DEF CancelEvent, vars
<1> QED BY <1>1, <1>2, <1>3, <1>4 DEF Next, Step

(* A lock leaves its owner only when it has run out, when another request  *)
(* has freed it, or when the owner has no more locks to free.              *)
LEMMA LockLeaves ==
  ASSUME StoreInv, CheckoutInv, LocksProtect, [Next]_vars,
         NEW o \in Orders, NEW t \in Tiers, lock[key(o, t)].by = o
  PROVE  lock'[key(o, t)].by = o \/ o \in lapsed \/ o \in robbed' \/ MayFree(o)' = {}
<1> DEFINE k == key(o, t)
<1>1. k \in LockKeys /\ lock[k].until \in Nat /\ now \in Nat
  BY Keys
<1>2. lock[k].until <= now => o \in lapsed
  BY <1>1, CheckoutAssumption DEF LocksProtect, LapsesNoted
<1>3. ASSUME NEW p \in Orders, NEW u \in Tiers, ~Taken(key(p, u)),
             lock' = [lock EXCEPT ![key(p, u)] = [until |-> now + LockTTL, by |-> p]]
      PROVE  lock'[k].by = o \/ o \in lapsed
  <2>1. CASE key(p, u) = k
    BY <1>1, <1>2, <1>3, <2>1 DEF Taken
  <2>2. CASE key(p, u) # k
    BY <1>1, <1>3, <2>2 DEF CheckoutInv, TypeOK
  <2> QED BY <2>1, <2>2
<1>4. ASSUME NEW p \in Orders, NEW tiers \in SUBSET Tiers, Free(p, tiers), p # o
      PROVE  lock'[k].by = o \/ o \in lapsed \/ o \in robbed'
  <2>1. lock' = Freed(p, tiers) /\ Robbed(p, tiers) \subseteq robbed'
    BY <1>4 DEF Free
  <2>2. CASE Buyer[o] = Buyer[p] /\ t \in tiers
    <3>1. key(p, t) = k
      BY <2>2 DEF key
    <3>2. CASE Taken(k)
      BY <1>4, <2>1, <2>2, <3>1, <3>2 DEF Robbed
    <3>3. CASE ~Taken(k)
      BY <1>1, <1>2, <3>3 DEF Taken
    <3> QED BY <3>2, <3>3
  <2>3. CASE ~(Buyer[o] = Buyer[p] /\ t \in tiers)
    BY <1>1, <2>1, <2>3 DEF Freed, key
  <2> QED BY <2>2, <2>3
<1>5. \A p \in Orders : MayFree(p) \subseteq Tiers
  BY DEF MayFree, Asked
<1>6. CASE UNCHANGED <<lock, lapsed, robbed, now>> \/ PassTime
  BY <1>6 DEF PassTime
<1> QED BY <1>3, <1>4, <1>5, <1>6, LockMoves

(* The locks that have run out are remembered. *)
LEMMA LapsesStayNoted ==
  ASSUME StoreInv, CheckoutInv, LocksProtect, [Next]_vars
  PROVE  LapsesNoted' /\ lapsed \subseteq lapsed' /\ robbed \subseteq robbed'
<1> USE DEF CheckoutInv, TypeOK, StoreTypeOK
<1>1. now \in Nat /\ LapsesNoted
  BY StoreAssumption DEF LocksProtect
<1>2. CASE UNCHANGED <<lock, lapsed, robbed, now>>
  BY <1>1, <1>2 DEF LapsesNoted
<1>3. ASSUME NEW p \in Orders, NEW t \in Tiers,
             lock' = [lock EXCEPT ![key(p, t)] = [until |-> now + LockTTL, by |-> p]],
             UNCHANGED <<lapsed, robbed, now>>
      PROVE  LapsesNoted' /\ lapsed \subseteq lapsed' /\ robbed \subseteq robbed'
  <2>1. ASSUME NEW k \in LockKeys, lock'[k].by # NoOne, lock'[k].until <= now'
        PROVE  lock'[k].by \in lapsed'
    <3>1. CASE k = key(p, t)
      <4>1. lock'[k].until = now + LockTTL
        BY <1>3, <2>1, <3>1
      <4> QED BY <1>1, <1>3, <2>1, <4>1, CheckoutAssumption
    <3>2. CASE k # key(p, t)
      BY <1>1, <1>3, <2>1, <3>2 DEF LapsesNoted
    <3> QED BY <3>1, <3>2
  <2> QED BY <1>3, <2>1 DEF LapsesNoted
<1>4. ASSUME NEW p \in Orders, NEW tiers, Free(p, tiers), now' = now
      PROVE  LapsesNoted' /\ lapsed \subseteq lapsed' /\ robbed \subseteq robbed'
  BY <1>1, <1>4 DEF Free, Freed, Unlocked, LapsesNoted
<1>5. CASE PassTime
  <2>1. /\ lock' = lock /\ robbed' = robbed /\ lapsed \subseteq lapsed'
        /\ \A o \in Orders, k \in LockKeys :
              lock[k].by = o /\ lock[k].until <= now' => o \in lapsed'
    BY <1>5 DEF PassTime
  <2> QED BY <2>1 DEF LapsesNoted
<1> QED BY <1>2, <1>3, <1>4, <1>5, LockMoves

(* Who frees another request's lock is late, and so is its attendee.       *)
LEMMA RobbedAreLate ==
  ASSUME StoreInv, CheckoutInv, LocksProtect, [Next]_vars, NEW o \in Orders, o \in robbed'
  PROVE  Late(o)'
<1>1. lapsed \subseteq lapsed'
  BY LapsesStayNoted
<1>2. CASE o \in robbed
  BY <1>1, <1>2, LateStays DEF LocksProtect, Protected
<1>3. ASSUME NEW p \in Orders, NEW tiers \in SUBSET MayFree(p), Free(p, tiers), o \notin robbed
      PROVE  Late(o)'
  <2>1. PICK t \in tiers : o # p /\ lock[key(p, t)].by = o
    BY <1>3 DEF Free, Robbed
  <2>2. key(p, t) \in LockKeys /\ key(p, t)[1] = Buyer[p]
    BY CheckoutAssumption, Keys DEF key
  <2>3. Buyer[o] = Buyer[p]
    BY <2>1, <2>2 DEF CheckoutInv, LocksAreRemembered
  <2>4. p \in lapsed \cup robbed
    BY <1>3, <2>1 DEF LocksProtect, Protected
  <2>5. Late(p)
    BY <2>4 DEF LocksProtect, Protected, Late
  <2>6. Late(o)
    BY <2>3, <2>5 DEF Late
  <2> QED BY <1>1, <2>6, LateStays
<1>4. CASE UNCHANGED robbed
  BY <1>2, <1>4
<1> QED BY <1>2, <1>3, <1>4, LockMoves DEF PassTime

(* The locks protect an order, as long as none of them is lost. *)
LEMMA ProtectedStep ==
  ASSUME StoreInv, CheckoutInv, LocksProtect, [Next]_vars
  PROVE  LocksProtect'
<1> SUFFICES ASSUME NEW o \in Orders PROVE Protected(o)'
  BY LapsesStayNoted DEF LocksProtect
<1>1. lapsed \subseteq lapsed' /\ robbed \subseteq robbed'
  BY LapsesStayNoted
<1>2. /\ MayFree(o)' \subseteq MayFree(o) \cup {t \in Tiers : AcquireLock(o, t)}
      /\ status'[o] # "none" => items'[o] = cart'[o]
      /\ o \in closing' => status'[o] \notin {"none", "PENDING"} /\ pc'[o] # "cancelling"
  BY MayFreeGrows
<1>3. ASSUME o \notin lapsed' \cup robbed', NEW t \in MayFree(o)'
      PROVE  lock'[key(o, t)].by = o
  <2>1. CASE t \in MayFree(o)
    <3>1. lock[key(o, t)].by = o /\ t \in Tiers
      BY <1>1, <1>3, <2>1, Keys DEF LocksProtect, Protected
    <3> QED BY <1>1, <1>3, <3>1, LockLeaves
  <2>2. CASE t \in Tiers /\ AcquireLock(o, t)
    <3>1. lock' = [lock EXCEPT ![key(o, t)] = [until |-> now + LockTTL, by |-> o]]
      BY <2>2 DEF AcquireLock
    <3>2. key(o, t) \in LockKeys
      BY <2>2, Keys
    <3> QED BY <3>1, <3>2 DEF CheckoutInv, TypeOK
  <2> QED BY <1>2, <1>3, <2>1, <2>2
<1> QED BY <1>2, <1>3, RobbedAreLate DEF Protected, key

(* An attendee has two orders that hold seats of one tier only if a lock   *)
(* of one of them has run out before its hold, or was freed by a request   *)
(* that came late: for any lifetimes, any delays and any late closes.      *)
THEOREM SeatLocksWork == Spec => []OneHoldPerTier
<1>1. Init => LocksProtect
  BY DEF Init, StoreInit, LocksProtect, Protected, LapsesNoted, MayFree, Unlocked
<1>2. (StoreInv /\ CheckoutInv) /\ LocksProtect /\ [Next]_vars => LocksProtect'
  BY ProtectedStep
<1>3. ASSUME CheckoutInv, LocksProtect PROVE OneHoldPerTier
  <2> SUFFICES ASSUME NEW o \in Orders, NEW p \in Orders, o # p, Buyer[o] = Buyer[p],
                      HoldsSeats(o), HoldsSeats(p), NEW t \in Tiers,
                      items[o][t] > 0, items[p][t] > 0,
                      ~LockLost(o), ~LockLost(p)
               PROVE  FALSE
    BY DEF OneHoldPerTier
  <2>1. ASSUME NEW x \in Orders, HoldsSeats(x), items[x][t] > 0, ~LockLost(x)
        PROVE  lock[key(x, t)].by = x
    <3>1. Protected(x) /\ status[x] = "PENDING"
      BY <1>3, <2>1 DEF LocksProtect, HoldsSeats
    <3>2. x \notin lapsed \cup robbed
      BY <2>1, <3>1 DEF LockLost, Protected
    <3>3. t \in MayFree(x)
      BY <2>1, <3>1 DEF Protected, MayFree, Asked
    <3> QED BY <3>1, <3>2, <3>3 DEF Protected
  <2>2. key(o, t) = key(p, t)
    BY DEF key
  <2> QED BY <2>1, <2>2
<1> QED BY <1>1, <1>2, <1>3, CheckoutInvariant, PTL DEF Spec

-----------------------------------------------------------------------------
(* How far a request is from its answer.                                   *)

(* The locks a request lacks are counted. *)
LEMMA LocksCounted ==
  /\ \A S \in SUBSET Tiers : Cardinality(S) \in Nat /\ Cardinality(S) <= Cardinality(Tiers)
  /\ \A S \in SUBSET Tiers : \A t \in S : Cardinality(S \ {t}) = Cardinality(S) - 1
BY StoreAssumption, FS_Subset, FS_CardinalityType, FS_RemoveElement

(* Each step of a request, and its death, brings it nearer to its end. *)
LEMMA StepIsNearer ==
  ASSUME CheckoutInv, NEW o \in Orders, Step(o) \/ Crash(o)
  PROVE  StepsLeft(o)' < StepsLeft(o)
<1> USE DEF CheckoutInv, TypeOK
<1> DEFINE missing == Asked(o) \ acquired[o]
<1>1. /\ missing \in SUBSET Tiers
      /\ Cardinality(missing) \in Nat /\ Cardinality(missing) <= Cardinality(Tiers)
      /\ Cardinality(Tiers) \in Nat
  BY LocksCounted DEF Asked
<1>2. CASE CheckPending(o)
  <2>1. StepsLeft(o) = Cardinality(Tiers) + 4
    BY <1>2 DEF CheckPending, Goto, StepsLeft
  <2>2. pc'[o] = "409" \/ (pc'[o] = "locking" /\ Asked(o)' \ acquired'[o] = missing)
    BY <1>2 DEF CheckPending, Goto, Asked
  <2>3. StepsLeft(o)' \in {0, Cardinality(missing) + 3}
    BY <2>2 DEF StepsLeft
  <2> QED BY <1>1, <2>1, <2>3
<1>3. ASSUME NEW t \in Tiers, AcquireLock(o, t) PROVE StepsLeft(o)' < StepsLeft(o)
  <2>1. t \in missing /\ pc[o] = "locking" /\ pc'[o] = "locking"
    BY <1>3 DEF AcquireLock, Goto
  <2>2. Asked(o)' \ acquired'[o] = missing \ {t}
    BY <1>3 DEF AcquireLock, Asked
  <2>3. Cardinality(missing \ {t}) = Cardinality(missing) - 1
    BY <1>1, <2>1, LocksCounted
  <2>4. StepsLeft(o) = Cardinality(missing) + 3
    BY <2>1 DEF StepsLeft
  <2>5. StepsLeft(o)' = Cardinality(missing \ {t}) + 3
    BY <2>1, <2>2 DEF StepsLeft
  <2> QED BY <1>1, <2>3, <2>4, <2>5
<1>4. CASE LockRefused(o) \/ OrderRefused(o) \/ CommitOrder(o)
  <2>1. StepsLeft(o) = Cardinality(missing) + 3
    BY <1>4 DEF LockRefused, OrderRefused, CommitOrder, Goto, StepsLeft
  <2>2. StepsLeft(o)' \in {0, 2}
    BY <1>4 DEF LockRefused, OrderRefused, CommitOrder, Goto, StepsLeft
  <2> QED BY <1>1, <2>1, <2>2
<1>5. CASE IntentCreated(o) \/ IntentRefused(o) \/ CompensationRefused(o)
  BY <1>5 DEF IntentCreated, IntentRefused, CompensationRefused, Goto, StepsLeft
<1>6. CASE AttachIntent(o) \/ Compensated(o)
  BY <1>6 DEF AttachIntent, Compensated, Goto, StepsLeft
<1>7. CASE Crash(o)
  <2>1. StepsLeft(o) \in Nat \ {0}
    BY <1>1, <1>7 DEF Crash, InFlight, StepsLeft
  <2>2. StepsLeft(o)' = 0
    BY <1>7 DEF Crash, StepsLeft
  <2> QED BY <2>1, <2>2
<1> QED BY <1>2, <1>3, <1>4, <1>5, <1>6, <1>7 DEF Step

(* A request only goes forward: whatever others do to the locks, to the    *)
(* tables or to the order it has created, it has one step less after each  *)
(* of its own and as many as before after theirs.                          *)
THEOREM CheckoutGoesForward == Spec => StepsRunOut
<1> DEFINE Forward == \A o \in Orders : pc[o] \in InFlight =>
             \/ StepsLeft(o)' < StepsLeft(o)
             \/ UNCHANGED <<pc[o], cart[o], acquired[o]>>
<1>1. (StoreInv /\ CheckoutInv) /\ [Next]_vars => [Forward]_vars
  <2> SUFFICES ASSUME CheckoutInv, Next, NEW o \in Orders, pc[o] \in InFlight
               PROVE  \/ StepsLeft(o)' < StepsLeft(o)
                      \/ UNCHANGED <<pc[o], cart[o], acquired[o]>>
    OBVIOUS
  <2>1. CASE Step(o) \/ Crash(o)
    BY <2>1, StepIsNearer
  <2>2. ~\E q \in Carts : Validate(o, q)
    BY DEF Validate, Goto, InFlight
  <2>3. CASE CloseOrder(o) \/ ReleaseOrderLocks(o) \/ CloserCrash(o) \/ DeleteOrder(o)
    BY <2>3 DEF CloseOrder, ReleaseOrderLocks, CloserCrash, DeleteOrder, checkoutVars,
                requestVars
  <2>4. ASSUME NEW p \in Orders \ {o},
               (\E q \in Carts : Validate(p, q)) \/ Step(p) \/ Crash(p) \/ CloseOrder(p)
               \/ ReleaseOrderLocks(p) \/ CloserCrash(p) \/ DeleteOrder(p)
        PROVE  UNCHANGED <<pc[o], cart[o], acquired[o]>>
    BY <2>4, OthersLeave
  <2>5. CASE PassTime \/ \E e \in Events : CancelEvent(e)
    BY <2>5 DEF PassTime, CancelEvent, checkoutVars, requestVars
  <2> QED BY <2>1, <2>2, <2>3, <2>4, <2>5 DEF Next
<1> QED BY <1>1, CheckoutInvariant, PTL DEF Spec, StepsRunOut
===============================================================================
