------------------------------- MODULE RowLocks -------------------------------
(***************************************************************************)
(* The transactions of OrderStore, statement by statement.  PostgreSQL     *)
(* runs them at READ COMMITTED: a SELECT FOR UPDATE or an UPDATE waits for *)
(* the row's lock and then works on the row as last committed; what a      *)
(* transaction has written is seen by others when it commits, and its      *)
(* locks are held until then.  Tiers are locked in whatever order the      *)
(* query returns them, the event row last; the event form of the admin     *)
(* site goes the other way round.  A transaction may fail at any time, and *)
(* the database fails one of those that wait for each other.               *)
(*                                                                         *)
(* The clock stands still, so that a tier is on sale while it is active.   *)
(* What a request checks before its transaction is in Settlement.  Staff   *)
(* load the rows they save, counters and all, before they lock them: what  *)
(* else may be in such a copy is in EventStaff.  No order is deleted: that *)
(* is one UPDATE of a flag.                                                *)
(***************************************************************************)
EXTENDS OrderStore

CONSTANTS
  Requests,   \* requests and tasks, each with its database connection
  Staffers,   \* those that staff may use too
  StaffTiers, \* the tiers that staff save
  SaveAgain,  \* bound: do staff go on after they saved over newer counters?
  Intents,    \* may a confirmation bring the payment intent: part of BOOLEAN
  NoOne       \* nobody holds this lock, or the job is on no order

ASSUME RowLocksAssumption == 
  /\ NoOne \notin Requests /\ NoOne \notin Orders
  /\ IsFiniteSet(Requests)
  /\ Staffers \subseteq Requests /\ StaffTiers \subseteq Tiers
  /\ SaveAgain \in BOOLEAN
  /\ Intents \subseteq BOOLEAN

VARIABLES
  job,     \* what each request's transaction is about
  want,    \* the row whose lock its current statement needs
  todo,    \* the tiers it locks after that one
  new,     \* per tier, what it has read from or will write to quantity_sold
  total,   \* what it will write to tickets_sold
  owner,   \* who holds the lock of each row
  overwritten \* history: has a copy of staff's been saved over newer counters?

txVars == <<job, want, todo, new, total, owner>>
vars == <<storeVars, txVars, overwritten>>

OrderRow(o) == <<"order", o>>
TierRow(t) == <<"tier", t>>
EventRow(e) == <<"event", e>>
Lockable == ({"order"} \X Orders) \cup ({"tier"} \X Tiers) \cup ({"event"} \X Events)
Nothing == <<"nothing">>

(* Close jobs give inventory back; staff jobs are on no order. *)
CloseKinds == {"cancel", "refund"}
OrderKinds == {"create", "confirm"} \cup CloseKinds
StaffKinds == {"edit", "form"}
Jobs == [kind : OrderKinds \cup StaffKinds, order : Orders \cup {NoOne},
         cart : [Tiers -> 0..MaxPerItem]]
Idle == [kind |-> "none"]

(* The statuses in which each transaction finds its order still fit. *)
Fit == [ confirm |-> {"PENDING"}, cancel |-> {"PENDING"}, refund |-> {"CONFIRMED"} ]

Zeros == [t \in Tiers |-> 0]

Init ==
  /\ StoreInit
  /\ job = [x \in Requests |-> Idle]
  /\ want = [x \in Requests |-> Nothing]
  /\ todo = [x \in Requests |-> {}]
  /\ new = [x \in Requests |-> Zeros]
  /\ total = [x \in Requests |-> 0]
  /\ owner = [r \in Lockable |-> NoOne]
  /\ overwritten = FALSE

-----------------------------------------------------------------------------
(* Locks.                                                                  *)

Is(x, kinds) == job[x].kind \in kinds
Owns(x, r) == owner[r] = x
Held(x) == {r \in Lockable : owner[r] = x}
EventOfJob(x) == EventRow(OrderEvent[job[x].order])

Granted(x) ==
  /\ want[x] # Nothing
  /\ owner[want[x]] = NoOne
  /\ owner' = [owner EXCEPT ![want[x]] = x]

(* Mutant: an early return leaves the transaction open. *)
EndHoldingLocks(x) ==
  /\ job' = [job EXCEPT ![x] = Idle]
  /\ want' = [want EXCEPT ![x] = Nothing]
  /\ todo' = [todo EXCEPT ![x] = {}]
  /\ new' = [new EXCEPT ![x] = Zeros]
  /\ total' = [total EXCEPT ![x] = 0]
  /\ UNCHANGED owner

(* The end of a transaction gives all of its locks back. *)
End(x) ==
  /\ job' = [job EXCEPT ![x] = Idle]
  /\ want' = [want EXCEPT ![x] = Nothing]
  /\ todo' = [todo EXCEPT ![x] = {}]
  /\ new' = [new EXCEPT ![x] = Zeros]
  /\ total' = [total EXCEPT ![x] = 0]
  /\ owner' = [r \in Lockable |-> IF owner[r] = x THEN NoOne ELSE owner[r]]

(* An exception, a lost connection or a deadlock: nothing was written. *)
Abort(x) ==
  /\ job[x] # Idle
  /\ End(x)
  /\ UNCHANGED <<storeVars, overwritten>>

(* The next tier, in any order, or else the row that follows the tiers. *)
NextTier(x, tiers, last) ==
  \/ /\ tiers = {}
     /\ want' = [want EXCEPT ![x] = last]
     /\ todo' = [todo EXCEPT ![x] = {}]
  \/ \E t \in tiers :
       /\ want' = [want EXCEPT ![x] = TierRow(t)]
       /\ todo' = [todo EXCEPT ![x] = tiers \ {t}]

-----------------------------------------------------------------------------
(* The first statement.                                                    *)

Begin(x, kind, o, cart) ==
  /\ job[x] = Idle
  /\ job' = [job EXCEPT ![x] = [kind |-> kind, order |-> o, cart |-> cart]]
  /\ UNCHANGED <<storeVars, owner, overwritten>>

BeginCreate(x, o, q) ==
  /\ status[o] = "none"
  /\ \A y \in Requests : job[y] # Idle => job[y].order # o
  /\ Begin(x, "create", o, q)
  /\ NextTier(x, {t \in Tiers : q[t] > 0}, Nothing)
  /\ UNCHANGED <<new, total>>

BeginOnOrder(x, kind, o) ==
  /\ status[o] # "none"
  /\ Begin(x, kind, o, NoItems)
  /\ want' = [want EXCEPT ![x] = OrderRow(o)]
  /\ UNCHANGED <<todo, new, total>>

(* Staff's requests load the rows they are going to save with a plain      *)
(* SELECT, all in one step here.                                           *)
Copies(x, tiers) ==
  new' = [new EXCEPT ![x] = [t \in Tiers |-> IF t \in tiers THEN quantity_sold[t] ELSE 0]]

StaffAtWork(x) == x \in Staffers /\ (overwritten => SaveAgain)

(* PATCH of a tier: one UPDATE. *)
BeginEdit(x, t) ==
  /\ StaffAtWork(x)
  /\ Begin(x, "edit", NoOne, NoItems)
  /\ Copies(x, {t})
  /\ want' = [want EXCEPT ![x] = TierRow(t)]
  /\ UNCHANGED <<todo, total>>

(* The admin site saves the event and then the tiers of its inline forms   *)
(* that changed; with none, this is also an event's PATCH, publication or  *)
(* cancellation.                                                           *)
BeginForm(x, e, tiers) ==
  /\ StaffAtWork(x)
  /\ Begin(x, "form", NoOne, NoItems)
  /\ Copies(x, tiers)
  /\ total' = [total EXCEPT ![x] = tickets_sold[e]]
  /\ want' = [want EXCEPT ![x] = EventRow(e)]
  /\ todo' = [todo EXCEPT ![x] = tiers]

-----------------------------------------------------------------------------
(* Each lock with the statement that needed it.                            *)

(* Mutant: the event's counter is updated before the tiers.                *)
LockOrderThenEvent(x) ==
  LET o == job[x].order IN
  /\ want[x] \in {"order"} \X Orders
  /\ Locked(o, Fit[job[x].kind])
  /\ Granted(x)
  /\ IF Is(x, CloseKinds)
     THEN /\ job' = [job EXCEPT ![x].cart = items[o]]
          /\ want' = [want EXCEPT ![x] = EventOfJob(x)]
          /\ todo' = [todo EXCEPT ![x] = {t \in Tiers : items[o][t] > 0}]
     ELSE NextTier(x, {}, Nothing) /\ UNCHANGED job
  /\ UNCHANGED <<new, total, storeVars, overwritten>>

(* Order.objects.select_for_update().get(), and the check of that row.     *)
LockOrder(x) ==
  LET o == job[x].order IN
  /\ want[x] \in {"order"} \X Orders
  /\ \/ /\ Locked(o, Fit[job[x].kind])
        /\ Granted(x)
        /\ IF Is(x, CloseKinds)
           THEN /\ job' = [job EXCEPT ![x].cart = items[o]]
                /\ NextTier(x, {t \in Tiers : items[o][t] > 0}, EventOfJob(x))
           ELSE NextTier(x, {}, Nothing) /\ UNCHANGED job
        /\ UNCHANGED <<new, total>>
     \/ /\ ~Locked(o, Fit[job[x].kind])
        /\ owner[want[x]] = NoOne
        /\ End(x)
  /\ UNCHANGED <<storeVars, overwritten>>

(* Mutant: a plain SELECT. *)
ReadTier(x, t) ==
  /\ want[x] = TierRow(t)
  /\ Is(x, {"create"})
  /\ new' = [new EXCEPT ![x][t] = quantity_sold[t]]
  /\ NextTier(x, todo[x], Nothing)
  /\ UNCHANGED <<storeVars, job, total, owner, overwritten>>

(* create_order's select_for_update of a tier reads its counter.           *)
LockTier(x, t) ==
  /\ want[x] = TierRow(t)
  /\ Is(x, {"create"})
  /\ Granted(x)
  /\ new' = [new EXCEPT ![x][t] = quantity_sold[t]]
  /\ NextTier(x, todo[x], Nothing)
  /\ UNCHANGED <<storeVars, job, total, overwritten>>

(* _validate_tiers on those copies, the inserts, and the UPDATE of each    *)
(* tier, whose lock it holds already; else the transaction fails.          *)
CopiesValid(x) ==
  LET q == job[x].cart IN
  \A t \in Tiers : q[t] > 0 =>
    /\ EventOf[t] = OrderEvent[job[x].order]
    /\ t \in on_sale
    /\ new[x][t] + q[t] <= Quantity[t]

Validate(x) ==
  /\ Is(x, {"create"})
  /\ want[x] = Nothing
  /\ owner[EventOfJob(x)] # x
  /\ \/ /\ CopiesValid(x)
        /\ new' = [new EXCEPT ![x] = [t \in Tiers |->
             IF job[x].cart[t] > 0 THEN quantity_sold[t] + job[x].cart[t] ELSE 0]]
        /\ want' = [want EXCEPT ![x] = EventOfJob(x)]
        /\ UNCHANGED <<job, todo, total, owner>>
     \/ ~CopiesValid(x) /\ End(x)
  /\ UNCHANGED <<storeVars, overwritten>>

(* The UPDATE of a tier in cancel_order and refund_order; a counter below  *)
(* zero violates its CHECK.                                                *)
RestoreTier(x, t) ==
  LET q == job[x].cart[t] IN
  /\ want[x] = TierRow(t)
  /\ Is(x, CloseKinds)
  /\ \/ /\ q <= quantity_sold[t]
        /\ Granted(x)
        /\ new' = [new EXCEPT ![x][t] = quantity_sold[t] - q]
        /\ NextTier(x, todo[x], EventOfJob(x))
        /\ UNCHANGED <<job, total>>
     \/ q > quantity_sold[t] /\ owner[TierRow(t)] = NoOne /\ End(x)
  /\ UNCHANGED <<storeVars, overwritten>>

SaveTier(x, t) ==
  /\ want[x] = TierRow(t)
  /\ Is(x, StaffKinds)
  /\ Granted(x)
  /\ NextTier(x, todo[x], Nothing)
  /\ UNCHANGED <<storeVars, job, new, total, overwritten>>

(* The UPDATE of the event's counter comes last; the admin form begins with *)
(* its event.                                                               *)
UpdateEvent(x) ==
  LET o == job[x].order
      e == OrderEvent[o]
      n == TicketCount(o, job[x].cart)
  IN
  /\ Is(x, {"create"} \cup CloseKinds)
  /\ want[x] = EventRow(e)
  /\ \/ /\ Is(x, {"create"}) \/ n <= tickets_sold[e]
        /\ Granted(x)
        /\ total' = [total EXCEPT ![x] =
             IF Is(x, {"create"}) THEN tickets_sold[e] + n ELSE tickets_sold[e] - n]
        /\ NextTier(x, todo[x], Nothing)
        /\ UNCHANGED <<job, new>>
     \/ /\ Is(x, CloseKinds) /\ n > tickets_sold[e]
        /\ owner[EventRow(e)] = NoOne
        /\ End(x)
  /\ UNCHANGED <<storeVars, overwritten>>

SaveEvent(x) ==
  /\ Is(x, {"form"})
  /\ want[x] \in {"event"} \X Events
  /\ Granted(x)
  /\ NextTier(x, todo[x], Nothing)
  /\ UNCHANGED <<storeVars, job, new, total, overwritten>>

-----------------------------------------------------------------------------
(* COMMIT.                                                                 *)

Written(x) == [t \in Tiers |-> IF job[x].cart[t] > 0 THEN new[x][t] ELSE quantity_sold[t]]

Ready(x) ==
  /\ job[x] # Idle
  /\ want[x] = Nothing
  /\ Is(x, {"create"} \cup CloseKinds) => owner[EventOfJob(x)] = x

CommitCreate(x) ==
  LET o == job[x].order
      q == job[x].cart
  IN
  /\ Is(x, {"create"})
  /\ status' = [status EXCEPT ![o] = "PENDING"]
  /\ items' = [items EXCEPT ![o] = q]
  /\ expires_at' = [expires_at EXCEPT ![o] = now + HoldTime]
  /\ ticket' = [r \in Rows |-> IF r \in OrderRows(o, q) THEN "VALID" ELSE ticket[r]]
  /\ quantity_sold' = Written(x)
  /\ tickets_sold' = [tickets_sold EXCEPT ![OrderEvent[o]] = total[x]]
  /\ UNCHANGED <<intent, is_deleted, on_sale, now, overwritten>>

CommitClose(x, kind, closed) ==
  LET o == job[x].order IN
  /\ Is(x, {kind})
  /\ status' = [status EXCEPT ![o] = closed]
  /\ expires_at' = [expires_at EXCEPT ![o] = IF kind = "cancel" THEN NoDeadline ELSE @]
  /\ ticket' = [r \in Rows |-> IF r[1] = o /\ ticket[r] = "VALID" THEN "CANCELLED" ELSE ticket[r]]
  /\ quantity_sold' = Written(x)
  /\ tickets_sold' = [tickets_sold EXCEPT ![OrderEvent[o]] = total[x]]
  /\ UNCHANGED <<items, intent, is_deleted, on_sale, now, overwritten>>

CommitConfirm(x) ==
  LET o == job[x].order IN
  /\ Is(x, {"confirm"})
  /\ status' = [status EXCEPT ![o] = "CONFIRMED"]
  /\ expires_at' = [expires_at EXCEPT ![o] = NoDeadline]
  /\ \E with_intent \in Intents : intent' = [intent EXCEPT ![o] = @ \/ with_intent]
  /\ UNCHANGED <<items, is_deleted, saleVars, on_sale, now, overwritten>>

(* Every column of a saved row is written, the counter as it was loaded;   *)
(* only an event's publication or cancellation saves without the counter.  *)
SavedTiers(x) == {t \in Tiers : Owns(x, TierRow(t))}
SavedEvents(x) == {e \in Events : Owns(x, EventRow(e))}

WriteCopies(x) ==
  /\ quantity_sold' =
       [t \in Tiers |-> IF t \in SavedTiers(x) THEN new[x][t] ELSE quantity_sold[t]]
  /\ \/ tickets_sold' =
            [e \in Events |-> IF e \in SavedEvents(x) THEN total[x] ELSE tickets_sold[e]]
     \/ SavedTiers(x) = {} /\ UNCHANGED tickets_sold

(* Staff change is_active of at most one of the tiers they save. *)
CommitStaff(x) ==
  /\ Is(x, StaffKinds)
  /\ WriteCopies(x)
  /\ \/ UNCHANGED on_sale
     \/ \E t \in Tiers :
          /\ t \in SavedTiers(x)
          /\ on_sale' = IF t \in on_sale THEN on_sale \ {t} ELSE on_sale \cup {t}
  /\ UNCHANGED <<orderVars, ticket, now>>
  /\ overwritten' = (overwritten \/ saleVars' # saleVars)

Commit(x) ==
  /\ Ready(x)
  /\ \/ CommitCreate(x) \/ CommitConfirm(x) \/ CommitStaff(x)
     \/ CommitClose(x, "cancel", "CANCELLED") \/ CommitClose(x, "refund", "REFUNDED")
  /\ End(x)

-----------------------------------------------------------------------------

Move(x) ==
  \/ LockOrder(x) \/ Validate(x) \/ UpdateEvent(x) \/ SaveEvent(x) \/ Commit(x)
  \/ \E t \in Tiers : LockTier(x, t) \/ RestoreTier(x, t) \/ SaveTier(x, t)

Next ==
  \E x \in Requests :
    \/ \E o \in Orders :
         \/ \E q \in Carts : BeginCreate(x, o, q)
         \/ \E kind \in OrderKinds \ {"create"} : BeginOnOrder(x, kind, o)
    \/ \E t \in StaffTiers : BeginEdit(x, t)
    \/ \E e \in Events, tiers \in SUBSET StaffTiers :
         (\A t \in tiers : EventOf[t] = e) /\ BeginForm(x, e, tiers)
    \/ Move(x)
    \/ Abort(x)

Spec == Init /\ [][Next]_vars

(* Who waits for whom, and who waits for himself in the end. *)
WaitsFor(x, y) == want[x] # Nothing /\ owner[want[x]] = y /\ y # x
Circle(C) ==
  /\ C # {}
  /\ \A x \in C : (\E y \in C : WaitsFor(x, y)) /\ (\E y \in C : WaitsFor(y, x))
InCircle(x) == \E C \in SUBSET Requests : x \in C /\ Circle(C)

(* A lock's queue is first come, first served, so that no transaction is   *)
(* passed over for ever; deadlock_timeout finds every circle.              *)
FairSpec ==
  /\ Spec
  /\ \A x \in Requests : SF_vars(Move(x))
  /\ WF_vars(\E x \in Requests : InCircle(x) /\ Abort(x))

-----------------------------------------------------------------------------

TypeOK ==
  /\ StoreTypeOK
  /\ job \in [Requests -> Jobs \cup {Idle}]
  /\ want \in [Requests -> Lockable \cup {Nothing}]
  /\ todo \in [Requests -> SUBSET Tiers]
  /\ new \in [Requests -> [Tiers -> Int]]
  /\ total \in [Requests -> Int]
  /\ owner \in [Lockable -> Requests \cup {NoOne}]
  /\ overwritten \in BOOLEAN

(* Staff's copy of a counter is not what the row has any more: somebody    *)
(* committed to it since they loaded it.                                   *)
Overwrites(x) ==
  \/ \E t \in SavedTiers(x) : new[x][t] # quantity_sold[t]
  \/ \E e \in SavedEvents(x) : total[x] # tickets_sold[e]

(* The tiers a request has locked and read or updated. *)
Done(x) == {t \in Tiers : job[x].cart[t] > 0 /\ t \notin todo[x] /\ want[x] # TierRow(t)}

(* Checkout has added its items to the counters of the tiers it holds. *)
CopiesSaved(x) ==
  \A t \in Tiers : job[x].cart[t] > 0 =>
    Owns(x, TierRow(t)) /\ new[x][t] = quantity_sold[t] + job[x].cart[t]

(* What a running transaction can rely on, although it looks at each row   *)
(* once: the order it creates has no row and no other creator; its copies  *)
(* of the counters are those of the rows, or differ by its own items.      *)
CreateInv(x) ==
  LET o == job[x].order
      q == job[x].cart
  IN
  /\ o \in Orders /\ q \in Carts
  /\ status[o] = "none"
  /\ \A y \in Requests \ {x} : job[y] # Idle => job[y].order # o
  /\ want[x] \in {TierRow(t) : t \in {u \in Tiers : q[u] > 0}} \cup {Nothing, EventOfJob(x)}
  /\ \A t \in todo[x] : q[t] > 0
  /\ want[x] = EventOfJob(x) \/ Owns(x, EventOfJob(x)) =>
       /\ CopiesSaved(x)
       /\ TiersValid(o, q)
  /\ want[x] = Nothing \/ want[x] = EventOfJob(x) => todo[x] = {}
  /\ \A t \in Done(x) : Owns(x, TierRow(t))
  /\ ~Owns(x, EventOfJob(x)) /\ want[x] # EventOfJob(x) =>
       \A t \in Done(x) : new[x][t] = quantity_sold[t]
  /\ Owns(x, EventOfJob(x)) =>
       /\ want[x] = Nothing
       /\ total[x] = tickets_sold[OrderEvent[o]] + TicketCount(o, q)

CloseInv(x) ==
  LET o == job[x].order
      q == job[x].cart
      e == OrderEvent[o]
  IN
  /\ o \in Orders
  /\ Owns(x, OrderRow(o)) =>
       /\ Locked(o, Fit[job[x].kind])
       /\ q = items[o]
       /\ want[x] \in {TierRow(t) : t \in {u \in Tiers : q[u] > 0}} \cup {Nothing, EventRow(e)}
       /\ \A t \in todo[x] : q[t] > 0
       /\ want[x] = Nothing \/ want[x] = EventRow(e) => todo[x] = {}
       /\ \A t \in Done(x) :
            /\ Owns(x, TierRow(t))
            /\ q[t] <= quantity_sold[t]
            /\ new[x][t] = quantity_sold[t] - q[t]
       /\ want[x] = Nothing <=> Owns(x, EventRow(e))
       /\ Owns(x, EventRow(e)) =>
            /\ TicketCount(o, q) <= tickets_sold[e]
            /\ total[x] = tickets_sold[e] - TicketCount(o, q)

ConfirmInv(x) ==
  LET o == job[x].order IN
  /\ o \in Orders
  /\ Owns(x, OrderRow(o)) => Locked(o, {"PENDING"}) /\ want[x] = Nothing

(* A request that waits for its order's row has no lock yet. *)
FirstLock(x) ==
  want[x] \in {"order"} \X Orders \/ job[x] = Idle => Held(x) = {}

(* Staff never lock an order, and the event only in a form; their copies   *)
(* are of counters that were committed.                                    *)
StaffInv(x) ==
  /\ new[x] \in [Tiers -> Nat]
  /\ Is(x, {"form"}) => total[x] \in Nat
  /\ want[x] \notin {"order"} \X Orders
  /\ Is(x, {"edit"}) => want[x] \notin {"event"} \X Events

(* A service locks no event but its order's. *)
OneEvent(x) ==
  \A e \in Events : Owns(x, EventRow(e)) =>
    \/ Is(x, {"form"})
    \/ Is(x, {"create"} \cup CloseKinds) /\ EventRow(e) = EventOfJob(x)

RequestInv(x) ==
  /\ FirstLock(x)
  /\ OneEvent(x)
  /\ job[x] = Idle => want[x] = Nothing
  /\ Is(x, {"create"}) => CreateInv(x)
  /\ Is(x, CloseKinds) => CloseInv(x)
  /\ Is(x, {"confirm"}) => ConfirmInv(x)
  /\ Is(x, StaffKinds) => StaffInv(x)
  /\ Is(x, CloseKinds \cup {"confirm"}) =>
       Owns(x, OrderRow(job[x].order)) \/ want[x] = OrderRow(job[x].order)

(* The inductive invariant: a stale copy of staff's breaks the tables, but *)
(* not what the transactions rely on under their locks.                    *)
RowLocksInv ==
  /\ TypeOK
  /\ \A x \in Requests : RequestInv(x)
  /\ ~overwritten => StoreInv

(* Tiers are locked for the tickets of a cart, or by staff; the one UPDATE  *)
(* of an edit waits with nothing in its hands.                             *)
CartLocks(x) ==
  /\ job[x] = Idle \/ Is(x, {"edit"}) => todo[x] = {}
  /\ Is(x, {"edit"}) => want[x] = Nothing \/ Held(x) = {}
  /\ \A t \in Tiers :
       Owns(x, TierRow(t)) \/ want[x] = TierRow(t) \/ t \in todo[x] =>
         \/ Is(x, StaffKinds)
         \/ Is(x, {"create"} \cup CloseKinds) /\ job[x].cart[t] > 0

LocksFitCart == \A x \in Requests : CartLocks(x)

(* Transactions that wait for each other each hold the row of one tier of  *)
(* their cart and wait for another's, because checkout, cancel and refund  *)
(* lock the tiers in an order of their own each (services.py:107, 299,     *)
(* 370), or one of them is a form of the admin site that locked its event  *)
(* first: neither orders of a single tier, nor an organizer's edit, nor    *)
(* the event row and the order row are part of a deadlock.                 *)
DeadlocksOnlyOverTiers ==
  \A C \in SUBSET Requests : Circle(C) =>
    \/ \E x \in C : Is(x, {"form"})
    \/ \A x \in C : \E t, u \in Tiers :
         /\ t # u /\ Owns(x, TierRow(t)) /\ want[x] = TierRow(u)
         /\ Is(x, {"create"} \cup CloseKinds) /\ job[x].cart[t] > 0 /\ job[x].cart[u] > 0

(* How many statements, at most, a transaction still has before it ends:   *)
(* at least one for every tier, and its last ones.                         *)
StepsLeft(x) ==
  IF job[x] = Idle THEN 0
  ELSE IF want[x] \in {"order"} \X Orders THEN Cardinality(Tiers) + 4
  ELSE IF want[x] \in {"tier"} \X Tiers \/ (want[x] # Nothing /\ Is(x, {"form"}))
       THEN Cardinality(todo[x]) + 4
  ELSE IF want[x] # Nothing THEN 2
  ELSE IF Is(x, {"create"}) /\ ~Owns(x, EventOfJob(x)) THEN 3
  ELSE 1

(* A transaction only goes forward, whatever the others do meanwhile: each *)
(* of its statements brings it nearer to its end, and no step of another   *)
(* request costs it one.                                                   *)
StatementsRunOut ==
  [][\A x \in Requests : job[x] # Idle =>
       \/ StepsLeft(x)' < StepsLeft(x)
       \/ UNCHANGED <<job[x], want[x], todo[x], new[x], total[x], Held(x)>>]_vars

(* Every transaction ends, by its commit, by an error or as the one the    *)
(* database fails to break a deadlock: no request is stuck behind rows     *)
(* that nobody gives back.                                                 *)
TransactionsEnd == \A x \in Requests : job[x] # Idle ~> job[x] = Idle

(* Statement by statement under these locks, every commit has the effect   *)
(* of one transaction of OrderStore, which takes one step: a counter that  *)
(* is read, checked and written in separate statements loses no update,    *)
(* and an order's status is not changed by two of them.  The one exception *)
(* is a commit of staff's that saves a copy of a counter over a newer one, *)
(* and no order with it (services.py:107, 299; events/services.py:51, 108).*)
CommitsFollowStore ==
  [][ \/ StoreNext
      \/ \E x \in Requests : /\ Is(x, StaffKinds) /\ Overwrites(x)
                             /\ job'[x] = Idle
                             /\ UNCHANGED <<orderVars, ticket>> ]_storeVars
===============================================================================
