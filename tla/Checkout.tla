------------------------------- MODULE Checkout -------------------------------
(***************************************************************************)
(* POST /api/v1/orders/: concurrent checkout requests, the Redis seat      *)
(* locks they take, the order transaction, the Stripe PaymentIntent and    *)
(* the compensation when Stripe refuses.  A request runs without any lock  *)
(* between its steps, may be arbitrarily slow, and may die at any of them. *)
(* Requests that cancel or confirm an order are reduced to their           *)
(* transaction and their release of the seat locks; Settlement has them    *)
(* in full.                                                                *)
(***************************************************************************)
EXTENDS OrderStore

CONSTANTS
  Attendees,
  Buyer,        \* [Orders -> Attendees]: request.user of each checkout
  LockTTL,      \* SEAT_LOCK_TTL, in clock ticks
  NoOne         \* nobody took this seat lock

ASSUME CheckoutAssumption ==
  /\ Buyer \in [Orders -> Attendees]
  /\ LockTTL \in Nat \ {0}
  /\ NoOne \notin Orders

VARIABLES
  pc,         \* where each checkout request is, or the answer it got
  cart,       \* the items it asks for
  acquired,   \* the tiers whose seat lock it has taken
  lock,       \* the seat locks: until when, and (history) which request took it
  closing,    \* orders closed or confirmed by a request yet to free their locks
  published,  \* events whose status is PUBLISHED
  lapsed,     \* history: requests a lock of which has run out
  robbed      \* history: requests a live lock of which another one has freed

requestVars == <<pc, cart, acquired>>
lossVars == <<lapsed, robbed>>
checkoutVars == <<requestVars, lock, closing, published, lossVars>>
vars == <<storeVars, checkoutVars>>

InFlight == {"validated", "locking", "created", "intent", "cancelling"}
Answered == {"201", "402", "409", "error"}
LockKeys == Attendees \X Tiers      \* seat_lock_key(tier, user)
Unlocked == [until |-> 0, by |-> NoOne]

key(o, t) == <<Buyer[o], t>>
Taken(k) == lock[k].until > now
Asked(o) == {t \in Tiers : cart[o][t] > 0}

(* cache.delete of the keys of some tiers, whoever set them.               *)
Freed(o, tiers) ==
  [k \in LockKeys |-> IF k[1] = Buyer[o] /\ k[2] \in tiers THEN Unlocked
                                                           ELSE lock[k]]
Robbed(o, tiers) ==
  {p \in Orders \ {o} : \E t \in tiers : Taken(key(o, t)) /\ lock[key(o, t)].by = p}
Free(o, tiers) ==
  /\ lock' = Freed(o, tiers)
  /\ robbed' = robbed \cup Robbed(o, tiers)
  /\ UNCHANGED lapsed

Init ==
  /\ StoreInit
  /\ pc = [o \in Orders |-> "idle"]
  /\ cart = [o \in Orders |-> NoItems]
  /\ acquired = [o \in Orders |-> {}]
  /\ lock = [k \in LockKeys |-> Unlocked]
  /\ closing = {}
  /\ published = Events
  /\ lapsed = {} /\ robbed = {}

Goto(o, from, to) ==
  /\ pc[o] = from
  /\ pc' = [pc EXCEPT ![o] = to]

-----------------------------------------------------------------------------
(* The steps of a request.                                                 *)

(* OrderCreateSerializer: the event is read, and must be published, here   *)
(* and nowhere later.                                                      *)
Validate(o, q) ==
  /\ Goto(o, "idle", "validated")
  /\ OrderEvent[o] \in published
  /\ cart' = [cart EXCEPT ![o] = q]
  /\ UNCHANGED <<storeVars, acquired, lock, closing, published, lossVars>>

(* check_existing_pending_order: a read, with no lock on what it reads.    *)
PendingExists(o) ==
  \E p \in Orders :
    Buyer[p] = Buyer[o] /\ OrderEvent[p] = OrderEvent[o] /\ HoldsSeats(p)

CheckPending(o) ==
  /\ Goto(o, "validated", IF PendingExists(o) THEN "409" ELSE "locking")
  /\ UNCHANGED <<storeVars, cart, acquired, lock, closing, published, lossVars>>

(* _acquire_order_seat_locks, one cache.add at a time.                     *)
(* Mutant: cache.set for cache.add. *)
OverwriteLock(o, t) ==
  /\ Goto(o, "locking", "locking")
  /\ t \in Asked(o) \ acquired[o]
  /\ acquired' = [acquired EXCEPT ![o] = @ \cup {t}]
  /\ lock' = [lock EXCEPT ![key(o, t)] = [until |-> now + LockTTL, by |-> o]]
  /\ UNCHANGED <<storeVars, cart, closing, published, lossVars>>

AcquireLock(o, t) ==
  /\ Goto(o, "locking", "locking")
  /\ t \in Asked(o) \ acquired[o]
  /\ ~Taken(key(o, t))
  /\ acquired' = [acquired EXCEPT ![o] = @ \cup {t}]
  /\ lock' = [lock EXCEPT ![key(o, t)] = [until |-> now + LockTTL, by |-> o]]
  /\ UNCHANGED <<storeVars, cart, closing, published, lossVars>>

(* A lock is taken already: give back those this request got, and refuse.  *)
(* Mutants: keep the locks already taken; wait for the lock.               *)
LockRefusedKeepingLocks(o) ==
  /\ Goto(o, "locking", "409")
  /\ \E t \in Asked(o) \ acquired[o] : Taken(key(o, t))
  /\ UNCHANGED <<storeVars, cart, acquired, lock, closing, published, lossVars>>
LockAwaited(o) ==
  /\ \E t \in Asked(o) \ acquired[o] : Taken(key(o, t))
  /\ UNCHANGED vars

LockRefused(o) ==
  /\ Goto(o, "locking", "409")
  /\ \E t \in Asked(o) \ acquired[o] : Taken(key(o, t))
  /\ Free(o, acquired[o])
  /\ UNCHANGED <<storeVars, cart, acquired, closing, published>>

CommitOrder(o) ==
  /\ Goto(o, "locking", "created")
  /\ acquired[o] = Asked(o)
  /\ CreateTx(o, cart[o])
  /\ UNCHANGED <<cart, acquired, lock, closing, published, lossVars>>

(* Any exception inside the transaction: a tier that is not valid, or a    *)
(* database error, which no handler turns into an answer.                  *)
OrderRefused(o) ==
  /\ acquired[o] = Asked(o)
  /\ \/ ~TiersValid(o, cart[o]) /\ Goto(o, "locking", "409")
     \/ Goto(o, "locking", "error")
  /\ Free(o, acquired[o])
  /\ UNCHANGED <<storeVars, cart, acquired, closing, published>>

(* payment.create_payment_intent, outside any transaction. *)
IntentCreated(o) ==
  /\ Goto(o, "created", "intent")
  /\ UNCHANGED <<storeVars, cart, acquired, lock, closing, published, lossVars>>

AttachIntent(o) ==
  /\ Goto(o, "intent", IF is_deleted[o] THEN "error" ELSE "201")
  /\ AttachTx(o)
  /\ UNCHANGED <<cart, acquired, lock, closing, published, lossVars>>

(* PaymentFailedError: cancel_order, whose check of the order in memory    *)
(* always passes, then its release of the seat locks, then the 402.        *)
(* Mutant: a plain update of the status. *)
IntentRefusedByUpdate(o) ==
  /\ Goto(o, "created", "cancelling")
  /\ status' = [status EXCEPT ![o] = "CANCELLED"]
  /\ UNCHANGED <<items, expires_at, intent, is_deleted, saleVars, on_sale, now>>
  /\ UNCHANGED <<cart, acquired, lock, closing, published, lossVars>>

IntentRefused(o) ==
  /\ Goto(o, "created", "cancelling")
  /\ CancelTx(o)
  /\ UNCHANGED <<cart, acquired, lock, closing, published, lossVars>>

(* Somebody else confirmed or cancelled the order meanwhile: cancel_order  *)
(* raises a 409 in the handler of the PaymentFailedError (exceptions.py),  *)
(* and frees no lock.  A deleted order it does not find at all.            *)
(* Mutant: the failed cancellation is swallowed and 402 answered. *)
CompensationIgnored(o) ==
  /\ Goto(o, "created", "402")
  /\ ~Locked(o, {"PENDING"})
  /\ UNCHANGED <<storeVars, cart, acquired, lock, closing, published, lossVars>>

CompensationRefused(o) ==
  /\ Goto(o, "created", IF is_deleted[o] THEN "error" ELSE "409")
  /\ ~Locked(o, {"PENDING"})
  /\ UNCHANGED <<storeVars, cart, acquired, lock, closing, published, lossVars>>

Compensated(o) ==
  /\ Goto(o, "cancelling", "402")
  /\ Free(o, Asked(o))
  /\ UNCHANGED <<storeVars, cart, acquired, closing, published>>

Crash(o) ==
  /\ pc[o] \in InFlight
  /\ pc' = [pc EXCEPT ![o] = "crashed"]
  /\ UNCHANGED <<storeVars, cart, acquired, lock, closing, published, lossVars>>

Step(o) ==
  \/ CheckPending(o)
  \/ \E t \in Tiers : AcquireLock(o, t)
  \/ LockRefused(o)
  \/ CommitOrder(o)
  \/ OrderRefused(o)
  \/ IntentCreated(o)
  \/ AttachIntent(o)
  \/ IntentRefused(o)
  \/ CompensationRefused(o)
  \/ Compensated(o)

-----------------------------------------------------------------------------
(* Everybody else.                                                         *)

(* Another request confirms or cancels the order, before its deadline or   *)
(* after it: its transaction ...                                           *)
CloseOrder(o) ==
  /\ CancelTx(o) \/ ConfirmTx(o, FALSE)
  /\ closing' = closing \cup {o}
  /\ UNCHANGED <<requestVars, lock, published, lossVars>>

(* ... then _release_order_seat_locks, ...                                 *)
ReleaseOrderLocks(o) ==
  /\ o \in closing
  /\ closing' = closing \ {o}
  /\ Free(o, Asked(o))
  /\ UNCHANGED <<storeVars, requestVars, published>>

(* ... unless it dies in between.                                          *)
CloserCrash(o) ==
  /\ o \in closing
  /\ closing' = closing \ {o}
  /\ UNCHANGED <<storeVars, requestVars, lock, published, lossVars>>

DeleteOrder(o) == SoftDelete(o) /\ UNCHANGED checkoutVars

(* events.services.cancel_event: orders are left alone. *)
CancelEvent(e) ==
  /\ e \in published
  /\ published' = published \ {e}
  /\ UNCHANGED <<storeVars, requestVars, lock, closing, lossVars>>

(* Time passes for everybody, requests between two steps included.         *)
PassTime ==
  /\ Tick
  /\ lapsed' = lapsed \cup
       {o \in Orders : \E k \in LockKeys : lock[k].by = o /\ lock[k].until <= now'}
  /\ UNCHANGED <<requestVars, lock, closing, published, robbed>>

Next ==
  \/ \E o \in Orders :
       \/ \E q \in Carts : Validate(o, q)
       \/ Step(o)
       \/ Crash(o)
       \/ CloseOrder(o)
       \/ ReleaseOrderLocks(o)
       \/ CloserCrash(o)
       \/ DeleteOrder(o)
  \/ \E e \in Events : CancelEvent(e)
  \/ PassTime

Spec == Init /\ [][Next]_vars

(* A running request keeps running: gunicorn gives its thread the CPU.     *)
(* Each of its steps changes requestVars.                                  *)
FairSpec == Spec /\ \A o \in Orders : WF_requestVars(Step(o))

-----------------------------------------------------------------------------

TypeOK ==
  /\ StoreTypeOK
  /\ pc \in [Orders -> InFlight \cup Answered \cup {"idle", "crashed"}]
  /\ cart \in [Orders -> [Tiers -> 0..MaxPerItem]]
  /\ acquired \in [Orders -> SUBSET Tiers]
  /\ lock \in [LockKeys -> [until : Nat, by : Orders \cup {NoOne}]]
  /\ closing \subseteq Orders
  /\ published \subseteq Events
  /\ lapsed \subseteq Orders /\ robbed \subseteq Orders

(* Every step of the endpoint is a transaction of OrderStore or leaves the *)
(* tables alone, whatever the interleaving: nothing is written outside a   *)
(* transaction that preserves the inventory.                               *)
ImplementsStore == StoreSpec

(* The answer tells the truth about the order: 201 only for an order that  *)
(* exists and that a webhook can find by its intent, 402 only once the     *)
(* order is cancelled and its seats are back, and 409 never for an order   *)
(* that is left waiting for a payment: none was made, or, when Stripe      *)
(* refused, somebody else had confirmed or closed it (views.py:93-140).    *)
AnswerIsTrue ==
  \A o \in Orders :
    /\ pc[o] = "201" => status[o] # "none" /\ intent[o]
    /\ pc[o] = "402" => status[o] = "CANCELLED"
    /\ pc[o] = "409" => status[o] # "PENDING"

(* A request that is refused leaves none of its seat locks behind, however *)
(* many it had taken when it failed (services.py:162-164, 443-453), unless *)
(* its order was made and closed by somebody else, who frees them.         *)
RefusedLeavesNoLock ==
  \A o \in Orders :
    pc[o] = "402" \/ (pc[o] = "409" /\ status[o] = "none") =>
      \A k \in LockKeys : lock[k].by # o

(* The inductive invariant: where a request is tells what its order is,    *)
(* and a seat lock is for a tier that the request which took it remembers  *)
(* (services.py:444-453).                                                  *)
RequestMatchesOrder ==
  \A o \in Orders :
    /\ pc[o] # "idle" => cart[o] \in Carts
    /\ pc[o] \in {"idle", "validated", "locking"} => status[o] = "none"
    /\ pc[o] \in {"created", "intent"} => status[o] # "none"
    /\ pc[o] = "cancelling" => status[o] = "CANCELLED"

LocksAreRemembered ==
  \A o \in Orders :
    /\ acquired[o] \subseteq Asked(o)
    /\ pc[o] \in {"idle", "validated"} => acquired[o] = {}
    /\ \A k \in LockKeys : lock[k].by = o => k[1] = Buyer[o] /\ k[2] \in acquired[o]

CheckoutInv ==
  /\ TypeOK
  /\ RequestMatchesOrder
  /\ LocksAreRemembered
  /\ AnswerIsTrue
  /\ RefusedLeavesNoLock

(* How an order may lose a lock: it runs out before the hold does, as it   *)
(* was taken before the order was committed, or another request of the     *)
(* attendee frees it, which only happens once some lock has run out.       *)
Late(o) == \E p \in lapsed : Buyer[p] = Buyer[o]
LockLost(o) == o \in lapsed \/ (o \in robbed /\ Late(o))

(* What the seat locks are for: an attendee has two orders that hold seats *)
(* of the same tier only if the lock of one of them was lost, to its short *)
(* life or to a late release (services.py:443-453, cache.py:57-67).        *)
OneHoldPerTier ==
  \A o, p \in Orders :
    /\ o # p /\ Buyer[o] = Buyer[p]
    /\ HoldsSeats(o) /\ HoldsSeats(p)
    /\ \E t \in Tiers : items[o][t] > 0 /\ items[p][t] > 0
    => LockLost(o) \/ LockLost(p)

(* Why it holds: who may still free a lock owns it, or has lost it in one  *)
(* of these ways (services.py:443-453).                                    *)
MayFree(o) ==
  {t \in Asked(o) : \/ pc[o] = "locking" /\ t \in acquired[o]
                    \/ status[o] = "PENDING" \/ o \in closing \/ pc[o] = "cancelling"}
Protected(o) ==
  /\ status[o] # "none" => items[o] = cart[o]
  /\ o \in closing => status[o] \notin {"none", "PENDING"} /\ pc[o] # "cancelling"
  /\ o \notin lapsed \cup robbed => \A t \in MayFree(o) : lock[key(o, t)].by = o
  /\ o \in robbed => Late(o)
LapsesNoted ==
  \A k \in LockKeys : lock[k].by # NoOne /\ lock[k].until <= now => lock[k].by \in lapsed
LocksProtect == LapsesNoted /\ \A o \in Orders : Protected(o)

(* How many steps, at most, a request still has before it is answered: one *)
(* for every lock it lacks, and the commit, the PaymentIntent, its record. *)
StepsLeft(o) ==
  CASE pc[o] = "validated" -> Cardinality(Tiers) + 4
    [] pc[o] = "locking" -> Cardinality(Asked(o) \ acquired[o]) + 3
    [] pc[o] = "created" -> 2
    [] pc[o] \in {"intent", "cancelling"} -> 1
    [] OTHER -> 0

(* A request only goes forward: nothing that others do to the locks, the   *)
(* tables or its own order sends it back (views.py:93-140).                *)
StepsRunOut ==
  [][\A o \in Orders : pc[o] \in InFlight =>
       \/ StepsLeft(o)' < StepsLeft(o)
       \/ UNCHANGED <<pc[o], cart[o], acquired[o]>>]_vars

(* No checkout waits for another: a request in flight is answered or dies, *)
(* even when others died holding the locks it needs.                       *)
CheckoutEnds ==
  \A o \in Orders : (pc[o] \in InFlight) ~> (pc[o] \notin InFlight)
=============================================================================
