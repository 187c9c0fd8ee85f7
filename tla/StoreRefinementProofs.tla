------------------------ MODULE StoreRefinementProofs ------------------------
(***************************************************************************)
(* Proofs that the tables follow OrderStore in the two modules that look   *)
(* closer at how they are written, for any number of connections, orders,  *)
(* tiers, events and staff:                                                *)
(*   RowLocks    every transaction, statement by statement, has the effect *)
(*               of OrderStore's single step, but for saves of staff over  *)
(*               newer counters; and who can be in a deadlock              *)
(*   EventStaff  which saves of whole rows break the tables, and move an   *)
(*               event back                                                *)
(***************************************************************************)
EXTENDS RowLocks, EventStaff, OrderStoreProofs

-----------------------------------------------------------------------------
(* Names of rows, and kinds of jobs.                                       *)

(* Every row of the three tables has a lock, and every lock is of one. *)
LEMMA RowNames ==
  /\ \A o \in Orders : OrderRow(o) \in Lockable /\ OrderRow(o) \in {"order"} \X Orders
  /\ \A t \in Tiers : TierRow(t) \in Lockable /\ TierRow(t) \in {"tier"} \X Tiers
  /\ \A e \in Events : EventRow(e) \in Lockable /\ EventRow(e) \in {"event"} \X Events
  /\ \A r \in {"order"} \X Orders : \E o \in Orders : r = OrderRow(o)
  /\ \A r \in {"tier"} \X Tiers : \E t \in Tiers : r = TierRow(t)
  /\ \A r \in {"event"} \X Events : \E e \in Events : r = EventRow(e)
BY DEF OrderRow, TierRow, EventRow, Lockable

(* No name is of two rows. *)
LEMMA RowsDiffer ==
  /\ \A o, t : OrderRow(o) # TierRow(t)
  /\ \A o, e : OrderRow(o) # EventRow(e)
  /\ \A t, e : TierRow(t) # EventRow(e)
  /\ \A o, p : OrderRow(o) = OrderRow(p) => o = p
  /\ \A t, u : TierRow(t) = TierRow(u) => t = u
  /\ \A d, e : EventRow(d) = EventRow(e) => d = e
BY DEF OrderRow, TierRow, EventRow

(* A lock is of one kind, and waiting for nothing is not waiting for one. *)
LEMMA RowKinds ==
  /\ \A r \in {"order"} \X Orders :
       r # Nothing /\ r \notin {"tier"} \X Tiers /\ r \notin {"event"} \X Events
  /\ \A r \in {"tier"} \X Tiers : r # Nothing /\ r \notin {"event"} \X Events
  /\ \A r \in {"event"} \X Events : r # Nothing
  /\ Nothing \notin Lockable
  /\ \A r \in Lockable :
       r \in {"order"} \X Orders \/ r \in {"tier"} \X Tiers \/ r \in {"event"} \X Events
BY DEF Nothing, Lockable

(* A running transaction has a kind, an order or none, and a cart. *)
LEMMA JobType ==
  ASSUME TypeOK, NEW x \in Requests
  PROVE  /\ job[x] = Idle => job[x].kind = "none"
         /\ job[x].kind # "none" => job[x] # Idle
         /\ job[x] # Idle =>
              /\ job[x].kind \in OrderKinds \cup StaffKinds
              /\ job[x].order \in Orders \cup {NoOne}
              /\ job[x].cart \in [Tiers -> 0..MaxPerItem]
BY DEF TypeOK, Idle, Jobs

(* A transaction keeps the tables' types, whatever staff's saves have done *)
(* to the counters.                                                        *)
LEMMA OrdersKeepTypes ==
  ASSUME StoreTypeOK, NEW o \in Orders,
         \/ \E q \in Carts : CreateTx(o, q)
         \/ \E with_intent \in BOOLEAN : ConfirmTx(o, with_intent)
         \/ CancelTx(o) \/ RefundTx(o)
  PROVE  StoreTypeOK'
<1>1. \A q \in [Tiers -> 0..MaxPerItem] : TicketCount(o, q) \in Nat
  <2> SUFFICES ASSUME NEW q \in [Tiers -> 0..MaxPerItem] PROVE TicketCount(o, q) \in Nat
    OBVIOUS
  <2>1. IsFiniteSet(OrderRows(o, q))
    BY RowsFinite, FS_Subset DEF OrderRows
  <2> QED BY <2>1, FS_CardinalityType DEF TicketCount
<1>2. RestoreInventory(o) =>
        /\ quantity_sold' \in [Tiers -> Nat]
        /\ tickets_sold' \in [Events -> Nat]
        /\ ticket' \in [Rows -> {"none", "VALID", "CANCELLED"}]
  <2> SUFFICES ASSUME RestoreInventory(o)
               PROVE  /\ quantity_sold' \in [Tiers -> Nat]
                      /\ tickets_sold' \in [Events -> Nat]
                      /\ ticket' \in [Rows -> {"none", "VALID", "CANCELLED"}]
    OBVIOUS
  <2>1. \A t \in Tiers : items[o][t] \in Nat /\ items[o][t] <= quantity_sold[t]
    BY StoreAssumption DEF RestoreInventory, CanRestore, StoreTypeOK
  <2>2. quantity_sold' \in [Tiers -> Nat]
    BY <2>1 DEF RestoreInventory, StoreTypeOK
  <2>3. /\ TicketCount(o, items[o]) \in Nat
        /\ TicketCount(o, items[o]) <= tickets_sold[OrderEvent[o]]
    BY <1>1 DEF RestoreInventory, CanRestore, StoreTypeOK
  <2>4. tickets_sold' \in [Events -> Nat]
    BY <2>3, StoreAssumption DEF RestoreInventory, StoreTypeOK
  <2>5. ticket' \in [Rows -> {"none", "VALID", "CANCELLED"}]
    BY DEF RestoreInventory, StoreTypeOK
  <2> QED BY <2>2, <2>4, <2>5
<1>3. CASE \E q \in Carts : CreateTx(o, q)
  <2>1. PICK q \in Carts : CreateTx(o, q)
    BY <1>3
  <2>2. q \in [Tiers -> 0..MaxPerItem] /\ TicketCount(o, q) \in Nat
    BY <1>1 DEF Carts
  <2>3. /\ status' \in [Orders -> Statuses]
        /\ items' \in [Orders -> [Tiers -> 0..MaxPerItem]]
    BY <2>1, <2>2 DEF CreateTx, StoreTypeOK, Statuses
  <2>4. expires_at' \in [Orders -> Nat \cup {NoDeadline}]
    BY <2>1, StoreAssumption DEF CreateTx, StoreTypeOK
  <2>5. ticket' \in [Rows -> {"none", "VALID", "CANCELLED"}]
    BY <2>1 DEF CreateTx, StoreTypeOK
  <2>6. quantity_sold' \in [Tiers -> Nat]
    <3>1. \A t \in Tiers : quantity_sold[t] \in Nat /\ q[t] \in Nat
      BY <2>2, StoreAssumption DEF StoreTypeOK
    <3> QED BY <2>1, <3>1 DEF CreateTx
  <2>7. tickets_sold' \in [Events -> Nat]
    <3>1. \A e \in Events : tickets_sold[e] + TicketCount(o, q) \in Nat
      BY <2>2 DEF StoreTypeOK
    <3> QED BY <2>1, <3>1 DEF CreateTx, StoreTypeOK
  <2> QED BY <2>1, <2>3, <2>4, <2>5, <2>6, <2>7 DEF CreateTx, StoreTypeOK
<1>4. CASE \E with_intent \in BOOLEAN : ConfirmTx(o, with_intent)
  BY <1>4 DEF ConfirmTx, StoreTypeOK, saleVars, Statuses
<1>5. CASE CancelTx(o)
  BY <1>2, <1>5 DEF CancelTx, StoreTypeOK, Statuses
<1>6. CASE RefundTx(o)
  BY <1>2, <1>6 DEF RefundTx, StoreTypeOK, Statuses
<1> QED BY <1>3, <1>4, <1>5, <1>6

(* So does every other step of OrderStore. *)
LEMMA StoreKeepsTypes ==
  ASSUME StoreTypeOK, [StoreNext]_storeVars
  PROVE  StoreTypeOK'
<1>1. ASSUME NEW o \in Orders, AttachTx(o) \/ SoftDelete(o) PROVE StoreTypeOK'
  BY <1>1 DEF AttachTx, SoftDelete, StoreTypeOK, saleVars
<1>2. ASSUME NEW t \in Tiers, ToggleSale(t) PROVE StoreTypeOK'
  BY <1>2 DEF ToggleSale, StoreTypeOK, orderVars, saleVars
<1>3. CASE Tick
  BY <1>3, StoreAssumption DEF Tick, StoreTypeOK, orderVars, saleVars
<1>4. CASE UNCHANGED storeVars
  BY <1>4 DEF storeVars, StoreTypeOK, orderVars, saleVars
<1> QED BY <1>1, <1>2, <1>3, <1>4, OrdersKeepTypes DEF StoreNext

-----------------------------------------------------------------------------
(* What a step of one request leaves to the others.                        *)

(* The other requests keep their variables and their locks. *)
OthersKept(x) ==
  \A y \in Requests \ {x} :
    /\ job'[y] = job[y] /\ want'[y] = want[y] /\ todo'[y] = todo[y]
    /\ new'[y] = new[y] /\ total'[y] = total[y]
    /\ \A r \in Lockable : Owns(y, r)' <=> Owns(y, r)

(* Only rows whose locks x holds, or the new rows of its order, change.    *)
RowsKept(x) ==
  /\ \A o \in Orders :
       \/ job[x] # Idle /\ job[x].order = o /\ (Is(x, {"create"}) \/ Owns(x, OrderRow(o)))
       \/ status'[o] = status[o] /\ items'[o] = items[o]
  /\ is_deleted' = is_deleted
  /\ \A t \in Tiers :
       \/ Owns(x, TierRow(t))
       \/ quantity_sold'[t] = quantity_sold[t] /\ (t \in on_sale' <=> t \in on_sale)
  /\ \A e \in Events : Owns(x, EventRow(e)) \/ tickets_sold'[e] = tickets_sold[e]

(* Then what another request relies on stays true: the rows it looked at   *)
(* are locked by it, and nobody else creates its order.                    *)
LEMMA OthersKeepInv ==
  ASSUME TypeOK, NEW x \in Requests, NEW y \in Requests, y # x,
         RequestInv(x), RequestInv(y), OthersKept(x), RowsKept(x),
         Is(y, {"create"}) /\ job'[x] # Idle => job'[x].order # job[y].order
  PROVE  RequestInv(y)'
<1> DEFINE o == job[y].order
           q == job[y].cart
<1>1. /\ job'[y] = job[y] /\ want'[y] = want[y] /\ todo'[y] = todo[y]
      /\ new'[y] = new[y] /\ total'[y] = total[y]
      /\ \A r \in Lockable : Owns(y, r)' <=> Owns(y, r)
  BY DEF OthersKept
<1>2. Held(y)' = Held(y)
  BY <1>1 DEF Held, Owns
<1>3. EventOfJob(y)' = EventOfJob(y) /\ Done(y)' = Done(y)
  BY <1>1 DEF EventOfJob, Done
<1>4. ASSUME NEW t \in Tiers, Owns(y, TierRow(t))
      PROVE  /\ Owns(y, TierRow(t))'
             /\ quantity_sold'[t] = quantity_sold[t]
             /\ t \in on_sale' <=> t \in on_sale
  <2>1. TierRow(t) \in Lockable /\ ~Owns(x, TierRow(t))
    BY <1>4, RowNames DEF Owns
  <2> QED BY <1>1, <1>4, <2>1 DEF RowsKept
<1>5. ASSUME NEW e \in Events, Owns(y, EventRow(e))
      PROVE  tickets_sold'[e] = tickets_sold[e]
  <2>1. ~Owns(x, EventRow(e))
    BY <1>5 DEF Owns
  <2> QED BY <2>1 DEF RowsKept
<1>6. /\ \A p \in Orders : OrderRow(p) \in Lockable
      /\ \A t \in Tiers : TierRow(t) \in Lockable
      /\ \A e \in Events : EventRow(e) \in Lockable
  BY RowNames
<1>13. ASSUME job[y] # Idle, o \in Orders, Owns(y, OrderRow(o))
       PROVE  status'[o] = status[o] /\ items'[o] = items[o]
  <2>1. ~Owns(x, OrderRow(o))
    BY <1>13 DEF Owns
  <2>2. Is(x, {"create"}) => job[x].order # o
    BY <1>13 DEF RequestInv, CreateInv
  <2> QED BY <1>13, <2>1, <2>2 DEF RowsKept
<1>7. FirstLock(y)' /\ OneEvent(y)' /\ (job'[y] = Idle => want'[y] = Nothing)
  BY <1>1, <1>2, <1>3, <1>6 DEF RequestInv, FirstLock, OneEvent, Is
<1>8. ASSUME Is(y, {"create"}) PROVE CreateInv(y)'
  <2>1. CreateInv(y) /\ job[y] # Idle
    BY <1>8, JobType DEF RequestInv, Is
  <2> USE <2>1 DEF CreateInv
  <2>2. o \in Orders /\ q \in Carts /\ status'[o] = "none"
    BY <1>8 DEF RowsKept
  <2>3. \A z \in Requests \ {y} : job'[z] # Idle => job'[z].order # o
    BY <1>8 DEF OthersKept
  <2>4. OrderEvent[o] \in Events /\ EventOfJob(y) = EventRow(OrderEvent[o])
    BY StoreAssumption DEF EventOfJob
  <2>5. Owns(y, EventOfJob(y))' <=> Owns(y, EventOfJob(y))
    BY <1>1, <1>3, <1>6, <2>4
  <2>6. ASSUME want[y] = EventOfJob(y) \/ Owns(y, EventOfJob(y))
        PROVE  CopiesSaved(y)' /\ TiersValid(o, q)'
    <3>1. CopiesSaved(y) /\ TiersValid(o, q)
      BY <2>6
    <3>2. \A t \in Tiers : q[t] > 0 => Owns(y, TierRow(t))
      BY <3>1 DEF CopiesSaved
    <3>3. CopiesSaved(y)'
      BY <1>1, <1>4, <3>1, <3>2 DEF CopiesSaved
    <3>4. TiersValid(o, q)'
      BY <1>1, <1>4, <3>1, <3>2 DEF TiersValid, available_quantity
    <3> QED BY <3>3, <3>4
  <2>7. \A t \in Done(y) :
          /\ Owns(y, TierRow(t))'
          /\ ~Owns(y, EventOfJob(y)) /\ want[y] # EventOfJob(y) => new'[y][t] = quantity_sold'[t]
    BY <1>1, <1>4 DEF Done
  <2>8. Owns(y, EventOfJob(y)) =>
          total'[y] = tickets_sold'[OrderEvent[o]] + TicketCount(o, q)
    BY <1>1, <1>5, <2>4
  <2>9. TicketCount(o, q)' = TicketCount(o, q)
    BY <1>1 DEF TicketCount, OrderRows
  <2> QED BY <1>1, <1>3, <2>1, <2>2, <2>3, <2>5, <2>6, <2>7, <2>8, <2>9
<1>9. ASSUME Is(y, CloseKinds) PROVE CloseInv(y)'
  <2>1. CloseInv(y) /\ job[y] # Idle
    BY <1>9, JobType DEF RequestInv, Is, CloseKinds
  <2> USE <2>1 DEF CloseInv
  <2>2. o \in Orders /\ OrderEvent[o] \in Events
    BY StoreAssumption
  <2>3. CASE ~Owns(y, OrderRow(o))
    BY <1>1, <1>6, <2>2, <2>3
  <2>4. CASE Owns(y, OrderRow(o))
    <3>1. Locked(o, Fit[job[y].kind])' /\ items'[o] = items[o]
      BY <1>1, <1>13, <2>2, <2>4 DEF Locked, RowsKept
    <3>2. \A t \in Done(y) : /\ Owns(y, TierRow(t))'
                             /\ quantity_sold'[t] = quantity_sold[t]
      BY <1>4, <2>4 DEF Done
    <3>3. /\ Owns(y, EventRow(OrderEvent[o]))' <=> Owns(y, EventRow(OrderEvent[o]))
          /\ Owns(y, EventRow(OrderEvent[o])) =>
               tickets_sold'[OrderEvent[o]] = tickets_sold[OrderEvent[o]]
      BY <1>1, <1>5, <1>6, <2>2
    <3>4. TicketCount(o, q)' = TicketCount(o, q)
      BY <1>1 DEF TicketCount, OrderRows
    <3> QED BY <1>1, <1>3, <2>2, <2>4, <3>1, <3>2, <3>3, <3>4
  <2> QED BY <2>3, <2>4
<1>10. ASSUME Is(y, {"confirm"}) PROVE ConfirmInv(y)'
  <2>1. ConfirmInv(y) /\ job[y] # Idle
    BY <1>10, JobType DEF RequestInv, Is
  <2> QED BY <1>1, <1>6, <1>13, <2>1 DEF ConfirmInv, Locked, RowsKept
<1>11. ASSUME Is(y, StaffKinds) PROVE StaffInv(y)'
  BY <1>1, <1>11 DEF RequestInv, StaffInv, Is
<1>12. Is(y, CloseKinds \cup {"confirm"})' =>
         Owns(y, OrderRow(job[y].order))' \/ (want[y] = OrderRow(job[y].order))'
  <2> SUFFICES ASSUME Is(y, CloseKinds \cup {"confirm"})
               PROVE  Owns(y, OrderRow(o))' \/ want'[y] = OrderRow(o)
    BY <1>1 DEF Is
  <2>1. o \in Orders
    BY DEF RequestInv, CloseInv, ConfirmInv, Is
  <2> QED BY <1>1, <1>6, <2>1 DEF RequestInv
<1> QED BY <1>1, <1>7, <1>8, <1>9, <1>10, <1>11, <1>12 DEF RequestInv, Is

-----------------------------------------------------------------------------
(* The statements.                                                         *)

(* No statement before COMMIT changes what others can read.                *)
LEMMA NothingWritten ==
  ASSUME TypeOK, NEW x \in Requests, UNCHANGED <<storeVars, overwritten>>
  PROVE  StoreTypeOK' /\ overwritten' \in BOOLEAN /\ RowsKept(x)
BY DEF TypeOK, StoreTypeOK, RowsKept, storeVars, orderVars, saleVars

(* A granted lock was free, and nobody else's locks change. *)
LEMMA GrantedLock ==
  ASSUME TypeOK, NEW x \in Requests, Granted(x)
  PROVE  /\ owner' \in [Lockable -> Requests \cup {NoOne}]
         /\ want[x] \in Lockable
         /\ \A y \in Requests \ {x}, r \in Lockable : Owns(y, r)' <=> Owns(y, r)
         /\ \A r \in Lockable : Owns(x, r)' <=> Owns(x, r) \/ r = want[x]
         /\ ~Owns(x, want[x])
BY RowLocksAssumption DEF TypeOK, Granted, Owns

(* Going on to the next of these tiers, or past the last one: of those     *)
(* tiers, all but the one it waits for are still to do.                    *)
MovedOn(x, tiers, last) ==
  /\ want' \in [Requests -> Lockable \cup {Nothing}]
  /\ todo' \in [Requests -> SUBSET Tiers]
  /\ \A y \in Requests \ {x} : want'[y] = want[y] /\ todo'[y] = todo[y]
  /\ todo'[x] \subseteq tiers
  /\ want'[x] = last \/ \E t \in tiers : want'[x] = TierRow(t)
  /\ want'[x] = last <=> tiers = {}
  /\ want'[x] = last => todo'[x] = {}
  /\ \A t \in tiers : t \in todo'[x] \/ want'[x] = TierRow(t)

(* NextTier does that, in whatever order it takes the tiers. *)
LEMMA NextTierMoves ==
  ASSUME TypeOK, NEW x \in Requests, NEW tiers \in SUBSET Tiers,
         NEW last \in Lockable \cup {Nothing}, \A t \in Tiers : last # TierRow(t),
         NextTier(x, tiers, last)
  PROVE  MovedOn(x, tiers, last)
<1>1. \A t \in Tiers : TierRow(t) \in Lockable
  BY RowNames
<1>2. CASE /\ tiers = {}
           /\ want' = [want EXCEPT ![x] = last]
           /\ todo' = [todo EXCEPT ![x] = {}]
  BY <1>2 DEF TypeOK, MovedOn
<1>3. ASSUME NEW t \in tiers,
             want' = [want EXCEPT ![x] = TierRow(t)],
             todo' = [todo EXCEPT ![x] = tiers \ {t}]
      PROVE  /\ want' \in [Requests -> Lockable \cup {Nothing}]
             /\ todo' \in [Requests -> SUBSET Tiers]
             /\ \A y \in Requests \ {x} : want'[y] = want[y] /\ todo'[y] = todo[y]
             /\ want'[x] = TierRow(t) /\ todo'[x] = tiers \ {t}
  BY <1>1, <1>3 DEF TypeOK
<1> QED BY <1>2, <1>3 DEF NextTier, MovedOn

(* The end of a transaction, however it comes, leaves no trace of it. *)
LEMMA EndKeepsInv ==
  ASSUME TypeOK, NEW x \in Requests, End(x), StoreTypeOK',
         overwritten' \in BOOLEAN, RequestInv(x)
  PROVE  TypeOK' /\ OthersKept(x) /\ RequestInv(x)' /\ job'[x] = Idle
<1>1. TypeOK'
  BY RowLocksAssumption, StoreAssumption DEF TypeOK, End, Zeros
<1>2. OthersKept(x)
  BY RowLocksAssumption DEF OthersKept, TypeOK, End, Owns
<1>3. job'[x] = Idle /\ want'[x] = Nothing
  BY DEF End, TypeOK
<1>4. \A r \in Lockable : owner'[r] # x
  BY RowLocksAssumption DEF End
<1>5. FirstLock(x)' /\ OneEvent(x)'
  BY <1>4, RowNames DEF FirstLock, Held, OneEvent, Owns
<1>6. job'[x].kind = "none"
  BY <1>3 DEF Idle
<1> QED BY <1>1, <1>2, <1>3, <1>5, <1>6
        DEF RequestInv, Is, CloseKinds, StaffKinds

(* Only one running transaction creates an order. *)
LEMMA CreatorAlone ==
  ASSUME NEW x \in Requests, NEW y \in Requests, y # x,
         RequestInv(y), Is(y, {"create"}), job[x] # Idle
  PROVE  job[x].order # job[y].order
BY DEF RequestInv, CreateInv

(* What every statement of a running transaction achieves. *)
Kept(x) ==
  /\ TypeOK' /\ OthersKept(x) /\ RowsKept(x) /\ RequestInv(x)'
  /\ job'[x] # Idle => job[x] # Idle /\ job'[x].order = job[x].order

(* An error in a statement: the transaction ends, nothing was written. *)
LEMMA FailureKeeps ==
  ASSUME TypeOK, NEW x \in Requests, RequestInv(x), End(x),
         UNCHANGED <<storeVars, overwritten>>
  PROVE  Kept(x)
BY NothingWritten, EndKeepsInv DEF Kept

(* The lock of the order's row: the copies that the close will save are of *)
(* the locked row, and it holds no other lock yet.                         *)
LEMMA LockOrderKeeps ==
  ASSUME TypeOK, NEW x \in Requests, RequestInv(x), LockOrder(x)
  PROVE  Kept(x)
<1> DEFINE o == job[x].order
           e == OrderEvent[o]
<1>1. CASE End(x) /\ UNCHANGED <<storeVars, overwritten>>
  BY <1>1, FailureKeeps
<1>2. ASSUME Locked(o, Fit[job[x].kind]), Granted(x), want[x] \in {"order"} \X Orders,
             UNCHANGED <<new, total, storeVars, overwritten>>,
             IF Is(x, CloseKinds)
             THEN /\ job' = [job EXCEPT ![x].cart = items[o]]
                  /\ NextTier(x, {t \in Tiers : items[o][t] > 0}, EventOfJob(x))
             ELSE NextTier(x, {}, Nothing) /\ UNCHANGED job
      PROVE  Kept(x)
  <2>1. job[x] # Idle /\ (Is(x, CloseKinds) \/ Is(x, {"confirm"}))
    <3>1. job[x] # Idle
      BY <1>2, RowKinds DEF RequestInv
    <3>2. ~Is(x, StaffKinds)
      BY <1>2 DEF RequestInv, StaffInv
    <3>3. ~Is(x, {"create"})
      <4> SUFFICES ASSUME CreateInv(x) PROVE FALSE
        BY DEF RequestInv
      <4>1. OrderEvent[o] \in Events
        BY StoreAssumption DEF CreateInv
      <4> QED BY <1>2, <4>1, RowNames, RowKinds DEF CreateInv, EventOfJob
    <3> QED BY <3>1, <3>2, <3>3, JobType DEF Is, OrderKinds
  <2>2. o \in Orders /\ e \in Events /\ want[x] = OrderRow(o)
    <3>1. o \in Orders
      BY <2>1 DEF RequestInv, CloseInv, ConfirmInv
    <3>2. ~Owns(x, OrderRow(o))
      BY <1>2, <3>1, RowNames DEF RequestInv, FirstLock, Held, Owns
    <3> QED BY <2>1, <3>1, <3>2, StoreAssumption DEF RequestInv, Is
  <2>3. Held(x) = {}
    BY <1>2 DEF RequestInv, FirstLock
  <2>4. owner'[OrderRow(o)] = x /\ \A r \in Lockable : r # OrderRow(o) => owner'[r] # x
    BY <1>2, <2>2, <2>3, GrantedLock DEF Held, Owns
  <2>5. StoreTypeOK' /\ overwritten' \in BOOLEAN /\ RowsKept(x)
    BY <1>2, NothingWritten
  <2>6. owner' \in [Lockable -> Requests \cup {NoOne}]
    BY <1>2, GrantedLock
  <2>7. \A y \in Requests \ {x}, r \in Lockable : Owns(y, r)' <=> Owns(y, r)
    BY <1>2, GrantedLock
  <2>8. CASE Is(x, CloseKinds)
    <3> DEFINE q == items[o]
               tiers == {t \in Tiers : q[t] > 0}
    <3>1. /\ job' = [job EXCEPT ![x].cart = q]
          /\ NextTier(x, tiers, EventRow(e))
      BY <1>2, <2>8 DEF EventOfJob
    <3>2. /\ job' \in [Requests -> Jobs \cup {Idle}]
          /\ job'[x].kind = job[x].kind /\ job'[x].order = o /\ job'[x].cart = q
          /\ job'[x] # Idle
          /\ \A y \in Requests \ {x} : job'[y] = job[y]
      <4>1. q \in [Tiers -> 0..MaxPerItem]
        BY <2>2 DEF TypeOK, StoreTypeOK
      <4>2. job[x] \in Jobs /\ [job[x] EXCEPT !.cart = q] \in Jobs
        BY <2>1, <4>1 DEF TypeOK, Jobs
      <4>3. job' = [job EXCEPT ![x] = [job[x] EXCEPT !.cart = q]]
        BY <3>1
      <4>4. job'[x] \in Jobs /\ job'[x].kind = job[x].kind
        BY <4>2, <4>3 DEF TypeOK, Jobs
      <4>5. job'[x] # Idle
        BY <4>4 DEF Jobs, Idle, OrderKinds, StaffKinds, CloseKinds
      <4> QED BY <4>2, <4>3, <4>4, <4>5 DEF TypeOK, Jobs
    <3>3. MovedOn(x, tiers, EventRow(e))
      <4>1. EventRow(e) \in Lockable \cup {Nothing} /\ \A t \in Tiers : EventRow(e) # TierRow(t)
        BY <2>2, RowNames, RowsDiffer
      <4>2. tiers \in SUBSET Tiers
        OBVIOUS
      <4> HIDE DEF tiers, e
      <4> QED BY <3>1, <4>1, <4>2, NextTierMoves
    <3>4. TypeOK' /\ OthersKept(x)
      BY <1>2, <2>5, <2>6, <2>7, <3>2, <3>3 DEF MovedOn, TypeOK, OthersKept
    <3>5. want'[x] # Nothing /\ want'[x] \notin {"order"} \X Orders
      BY <2>2, <3>3, RowNames, RowKinds DEF MovedOn
    <3>6. CloseInv(x)'
      <4>1. Locked(o, Fit[job[x].kind])'
        BY <1>2, <3>2 DEF Locked, storeVars, orderVars
      <4>2. items' = items
        BY <1>2 DEF storeVars, orderVars
      <4>3. Done(x)' = {}
        BY <3>2, <3>3 DEF MovedOn, Done
      <4>4. owner'[EventRow(e)] # x
        BY <2>2, <2>4, RowNames, RowsDiffer
      <4> QED BY <2>2, <3>2, <3>3, <3>5, <4>1, <4>2, <4>3, <4>4 DEF MovedOn, CloseInv, Owns
    <3>7. FirstLock(x)' /\ OneEvent(x)'
      BY <2>4, <3>2, <3>5, RowNames, RowsDiffer DEF FirstLock, OneEvent, Owns
    <3>8. Owns(x, OrderRow(job[x].order))'
      BY <2>4, <3>2 DEF Owns
    <3> QED BY <2>1, <2>5, <2>8, <3>2, <3>4, <3>6, <3>7, <3>8
            DEF Kept, RequestInv, Is, CloseKinds, StaffKinds
  <2>9. CASE Is(x, {"confirm"})
    <3>1. job' = job /\ NextTier(x, {}, Nothing)
      BY <1>2, <2>9 DEF Is, CloseKinds
    <3>2. /\ want' = [want EXCEPT ![x] = Nothing]
          /\ todo' = [todo EXCEPT ![x] = {}]
      BY <3>1 DEF NextTier
    <3>3. TypeOK' /\ OthersKept(x)
      BY <1>2, <2>5, <2>6, <2>7, <3>1, <3>2 DEF TypeOK, OthersKept
    <3>4. want'[x] = Nothing
      BY <3>2 DEF TypeOK
    <3>5. ConfirmInv(x)'
      BY <1>2, <2>2, <2>9, <3>1, <3>4
         DEF ConfirmInv, Locked, Is, Fit, storeVars, orderVars
    <3>6. FirstLock(x)' /\ OneEvent(x)'
      BY <2>1, <2>2, <2>4, <3>1, <3>4, RowNames, RowsDiffer, RowKinds
         DEF FirstLock, OneEvent, Owns
    <3>7. Owns(x, OrderRow(job[x].order))'
      BY <2>4, <3>1 DEF Owns
    <3> QED BY <2>1, <2>5, <2>9, <3>1, <3>3, <3>4, <3>5, <3>6, <3>7
            DEF Kept, RequestInv, Is, CloseKinds, StaffKinds
  <2> QED BY <2>1, <2>8, <2>9
<1> QED BY <1>1, <1>2 DEF LockOrder

(* create_order's lock of a tier reads the counter as last committed.      *)
LEMMA LockTierKeeps ==
  ASSUME TypeOK, NEW x \in Requests, RequestInv(x), NEW t \in Tiers, LockTier(x, t)
  PROVE  Kept(x)
<1> DEFINE o == job[x].order
           q == job[x].cart
           e == OrderEvent[o]
<1>1. CreateInv(x) /\ job[x] # Idle
  BY JobType DEF RequestInv, LockTier, Is
<1>2. o \in Orders /\ e \in Events /\ EventOfJob(x) = EventRow(e)
  BY <1>1, StoreAssumption DEF CreateInv, EventOfJob
<1>3. want[x] = TierRow(t) /\ q[t] > 0 /\ q \in [Tiers -> 0..MaxPerItem]
  BY <1>1, <1>2, RowsDiffer, RowKinds, RowNames DEF CreateInv, LockTier, Carts
<1>4. UNCHANGED <<storeVars, job, total, overwritten>> /\ new' = [new EXCEPT ![x][t] = quantity_sold[t]]
  BY DEF LockTier
<1>5. StoreTypeOK' /\ overwritten' \in BOOLEAN /\ RowsKept(x)
  BY <1>4, NothingWritten
<1>6. MovedOn(x, todo[x], Nothing)
  <2>1. todo[x] \in SUBSET Tiers /\ \A u \in Tiers : Nothing # TierRow(u)
    BY RowNames, RowKinds DEF TypeOK
  <2>2. NextTier(x, todo[x], Nothing)
    BY DEF LockTier
  <2> QED BY <2>1, <2>2, NextTierMoves
<1>7. /\ owner' \in [Lockable -> Requests \cup {NoOne}]
      /\ \A y \in Requests \ {x}, r \in Lockable : Owns(y, r)' <=> Owns(y, r)
      /\ \A r \in Lockable : Owns(x, r)' <=> Owns(x, r) \/ r = TierRow(t)
  BY <1>3, GrantedLock DEF LockTier
<1>8. new' \in [Requests -> [Tiers -> Int]]
  BY <1>4, <1>5 DEF TypeOK, StoreTypeOK
<1>9. TypeOK' /\ OthersKept(x)
  BY <1>4, <1>5, <1>6, <1>7, <1>8 DEF MovedOn, TypeOK, OthersKept
<1>10. /\ ~Owns(x, EventRow(e)) /\ want[x] # EventRow(e)
       /\ want'[x] # EventRow(e) /\ ~Owns(x, EventRow(e))'
  <2>1. want[x] # EventRow(e) /\ want'[x] # EventRow(e)
    BY <1>2, <1>3, <1>6, RowNames, RowKinds, RowsDiffer DEF MovedOn
  <2>2. ~Owns(x, EventRow(e))
    BY <1>1, <1>2, <1>3, RowNames, RowKinds DEF CreateInv
  <2> QED BY <1>2, <1>4, <1>7, <2>1, <2>2, RowNames, RowsDiffer
<1>11. CreateInv(x)'
  <2> USE <1>1 DEF CreateInv
  <2>1. job'[x] = job[x] /\ EventOfJob(x)' = EventOfJob(x)
    BY <1>4 DEF EventOfJob
  <2>2. Done(x)' \subseteq Done(x) \cup {t}
    BY <1>3, <1>4, <1>6, RowsDiffer DEF MovedOn, Done
  <2>3. ASSUME NEW u \in Done(x)'
        PROVE  Owns(x, TierRow(u))' /\ new'[x][u] = quantity_sold'[u]
    <3>1. u \in Tiers /\ (u \in Done(x) \/ u = t)
      BY <2>2 DEF Done
    <3>2. Owns(x, TierRow(u))'
      BY <1>7, <3>1, RowNames
    <3>3. u \in Done(x) => new[x][u] = quantity_sold[u]
      BY <1>1, <1>2, <1>10
    <3>4. new'[x][u] = IF u = t THEN quantity_sold[t] ELSE new[x][u]
      BY <1>4, <3>1 DEF TypeOK
    <3> QED BY <1>4, <3>1, <3>2, <3>3, <3>4 DEF storeVars, saleVars
  <2>4. status'[o] = "none"
    BY <1>4 DEF storeVars, orderVars
  <2>5. \A y \in Requests \ {x} : job'[y] # Idle => job'[y].order # o
    BY <1>4
  <2>6. \A u \in todo[x] : q[u] > 0 /\ u \in Tiers
    BY DEF TypeOK
  <2>7. want'[x] \in {TierRow(u) : u \in {v \in Tiers : q[v] > 0}} \cup {Nothing, EventRow(e)}
    BY <1>6, <2>6 DEF MovedOn
  <2> QED BY <1>1, <1>2, <1>4, <1>6, <1>10, <2>1, <2>3, <2>4, <2>5, <2>6, <2>7 DEF MovedOn
<1>12. FirstLock(x)' /\ OneEvent(x)'
  <2>1. FirstLock(x)'
    <3>1. want'[x] \notin {"order"} \X Orders
      BY <1>6, RowNames, RowKinds DEF MovedOn, TypeOK
    <3> QED BY <1>1, <1>4, <3>1 DEF FirstLock
  <2>2. OneEvent(x)'
    BY <1>4, <1>7, RowNames, RowsDiffer
       DEF RequestInv, OneEvent, EventOfJob, Is
  <2> QED BY <2>1, <2>2
<1> QED BY <1>1, <1>4, <1>5, <1>9, <1>11, <1>12, JobType
        DEF Kept, RequestInv, LockTier, Is, CloseKinds, StaffKinds

(* A close takes its items off the counter of a tier it has just locked.   *)
LEMMA RestoreTierKeeps ==
  ASSUME TypeOK, NEW x \in Requests, RequestInv(x), NEW t \in Tiers, RestoreTier(x, t)
  PROVE  Kept(x)
<1> DEFINE o == job[x].order
           q == job[x].cart
           e == OrderEvent[o]
<1>1. CASE End(x) /\ UNCHANGED <<storeVars, overwritten>>
  BY <1>1, FailureKeeps
<1>2. ASSUME q[t] <= quantity_sold[t], Granted(x), Is(x, CloseKinds), want[x] = TierRow(t),
             new' = [new EXCEPT ![x][t] = quantity_sold[t] - q[t]],
             NextTier(x, todo[x], EventOfJob(x)),
             UNCHANGED <<job, total, storeVars, overwritten>>
      PROVE  Kept(x)
  <2>1. job[x] # Idle /\ CloseInv(x) /\ o \in Orders /\ e \in Events
    BY <1>2, JobType, StoreAssumption DEF RequestInv, CloseInv, Is, CloseKinds
  <2>2. EventOfJob(x) = EventRow(e) /\ q \in [Tiers -> 0..MaxPerItem] /\ MaxPerItem \in Nat
    BY <2>1, JobType, StoreAssumption DEF EventOfJob
  <2>3. Owns(x, OrderRow(o))
    BY <1>2, <2>1, RowsDiffer DEF RequestInv, Is
  <2>4. q[t] > 0 /\ ~Owns(x, EventRow(e)) /\ \A u \in todo[x] : q[u] > 0
    BY <1>2, <2>1, <2>3, RowNames, RowsDiffer, RowKinds DEF CloseInv
  <2>5. StoreTypeOK' /\ overwritten' \in BOOLEAN /\ RowsKept(x)
    BY <1>2, NothingWritten
  <2>6. MovedOn(x, todo[x], EventRow(e))
    <3>1. todo[x] \in SUBSET Tiers
      BY DEF TypeOK
    <3>2. EventRow(e) \in Lockable \cup {Nothing} /\ \A u \in Tiers : EventRow(e) # TierRow(u)
      BY <2>1, RowNames, RowsDiffer
    <3>3. NextTier(x, todo[x], EventRow(e))
      BY <1>2, <2>2
    <3> HIDE DEF e
    <3> QED BY <3>1, <3>2, <3>3, NextTierMoves
  <2>7. /\ owner' \in [Lockable -> Requests \cup {NoOne}]
        /\ \A y \in Requests \ {x}, r \in Lockable : Owns(y, r)' <=> Owns(y, r)
        /\ \A r \in Lockable : Owns(x, r)' <=> Owns(x, r) \/ r = TierRow(t)
    BY <1>2, GrantedLock
  <2>8. new' \in [Requests -> [Tiers -> Int]] /\ \A y \in Requests \ {x} : new'[y] = new[y]
    BY <1>2, <2>2 DEF TypeOK, StoreTypeOK
  <2>9. TypeOK' /\ OthersKept(x)
    BY <1>2, <2>5, <2>6, <2>7, <2>8 DEF MovedOn, TypeOK, OthersKept
  <2>10. want'[x] # Nothing /\ want'[x] \notin {"order"} \X Orders
    BY <2>1, <2>6, RowNames, RowKinds DEF MovedOn, TypeOK
  <2>11. /\ ~Owns(x, EventRow(e))'
         /\ Owns(x, OrderRow(o))'
    BY <1>2, <2>1, <2>3, <2>4, <2>7, RowNames, RowsDiffer
  <2>12. CloseInv(x)'
    <3> USE <2>1 DEF CloseInv
    <3>1. Locked(o, Fit[job[x].kind])' /\ q = items'[o]
      BY <1>2, <2>3 DEF Locked, storeVars, orderVars
    <3>2. Done(x)' \subseteq Done(x) \cup {t}
      BY <1>2, <2>6, RowsDiffer DEF MovedOn, Done
    <3>3. ASSUME NEW u \in Done(x)'
          PROVE  /\ Owns(x, TierRow(u))'
                 /\ q[u] <= quantity_sold'[u]
                 /\ new'[x][u] = quantity_sold'[u] - q[u]
      <4>1. u \in Tiers /\ (u \in Done(x) \/ u = t)
        BY <3>2 DEF Done
      <4>2. Owns(x, TierRow(u))'
        BY <2>3, <2>7, <4>1, RowNames
      <4>3. u \in Done(x) => q[u] <= quantity_sold[u] /\ new[x][u] = quantity_sold[u] - q[u]
        BY <2>3
      <4>4. new'[x][u] = IF u = t THEN quantity_sold[t] - q[t] ELSE new[x][u]
        BY <1>2, <4>1 DEF TypeOK
      <4> QED BY <1>2, <4>1, <4>2, <4>3, <4>4 DEF storeVars, saleVars
    <3>4. want'[x] \in {TierRow(u) : u \in {v \in Tiers : q[v] > 0}} \cup {Nothing, EventRow(e)}
      BY <2>4, <2>6 DEF MovedOn, TypeOK
    <3> QED BY <1>2, <2>4, <2>6, <2>10, <2>11, <3>1, <3>3, <3>4 DEF MovedOn
  <2>13. FirstLock(x)' /\ OneEvent(x)'
    <3>1. FirstLock(x)'
      BY <1>2, <2>1, <2>10 DEF FirstLock
    <3>2. OneEvent(x)'
      BY <1>2, <2>7, RowNames, RowsDiffer DEF RequestInv, OneEvent, EventOfJob, Is
    <3> QED BY <3>1, <3>2
  <2> QED BY <1>2, <2>1, <2>5, <2>9, <2>11, <2>12, <2>13
          DEF Kept, RequestInv, Is, CloseKinds, StaffKinds
<1> QED BY <1>1, <1>2 DEF RestoreTier

(* Staff's lock of a tier. *)
LEMMA SaveTierKeeps ==
  ASSUME TypeOK, NEW x \in Requests, RequestInv(x), NEW t \in Tiers, SaveTier(x, t)
  PROVE  Kept(x)
<1>1. Granted(x) /\ NextTier(x, todo[x], Nothing) /\ UNCHANGED <<storeVars, job, new, total, overwritten>>
  BY DEF SaveTier
<1>2. job[x] # Idle /\ want[x] = TierRow(t)
  BY RowNames, RowKinds DEF RequestInv, SaveTier
<1>3. StoreTypeOK' /\ overwritten' \in BOOLEAN /\ RowsKept(x)
  BY <1>1, NothingWritten
<1>4. todo[x] \in SUBSET Tiers /\ \A u \in Tiers : Nothing # TierRow(u)
  BY RowNames, RowKinds DEF TypeOK
<1>5. MovedOn(x, todo[x], Nothing)
  BY <1>1, <1>4, NextTierMoves
<1>6. /\ owner' \in [Lockable -> Requests \cup {NoOne}]
      /\ \A y \in Requests \ {x}, r \in Lockable : Owns(y, r)' <=> Owns(y, r)
      /\ \A r \in Lockable : Owns(x, r)' <=> Owns(x, r) \/ r = TierRow(t)
  BY <1>1, <1>2, GrantedLock
<1>7. TypeOK' /\ OthersKept(x)
  BY <1>1, <1>3, <1>5, <1>6 DEF MovedOn, TypeOK, OthersKept
<1>8. want'[x] \notin {"order"} \X Orders /\ want'[x] \notin {"event"} \X Events
  BY <1>4, <1>5, RowNames, RowKinds DEF MovedOn
<1>9. FirstLock(x)' /\ StaffInv(x)'
  BY <1>1, <1>2, <1>8 DEF FirstLock, StaffInv, RequestInv, SaveTier, Is
<1>10. OneEvent(x)'
  BY <1>1, <1>6, RowNames, RowsDiffer DEF RequestInv, OneEvent, EventOfJob, Is
<1> QED BY <1>1, <1>2, <1>3, <1>7, <1>9, <1>10
        DEF Kept, RequestInv, SaveTier, Is, CloseKinds, StaffKinds

(* A form's lock of its event. *)
LEMMA SaveEventKeeps ==
  ASSUME TypeOK, NEW x \in Requests, RequestInv(x), SaveEvent(x)
  PROVE  Kept(x)
<1>1. Granted(x) /\ NextTier(x, todo[x], Nothing) /\ UNCHANGED <<storeVars, job, new, total, overwritten>>
  BY DEF SaveEvent
<1>2. job[x] # Idle /\ want[x] \in {"event"} \X Events
  BY RowKinds DEF RequestInv, SaveEvent
<1>3. StoreTypeOK' /\ overwritten' \in BOOLEAN /\ RowsKept(x)
  BY <1>1, NothingWritten
<1>4. todo[x] \in SUBSET Tiers /\ \A u \in Tiers : Nothing # TierRow(u)
  BY RowNames, RowKinds DEF TypeOK
<1>5. MovedOn(x, todo[x], Nothing)
  BY <1>1, <1>4, NextTierMoves
<1>6. /\ owner' \in [Lockable -> Requests \cup {NoOne}]
      /\ \A y \in Requests \ {x}, r \in Lockable : Owns(y, r)' <=> Owns(y, r)
  BY <1>1, GrantedLock
<1>7. TypeOK' /\ OthersKept(x)
  BY <1>1, <1>3, <1>5, <1>6 DEF MovedOn, TypeOK, OthersKept
<1>8. want'[x] \notin {"order"} \X Orders /\ want'[x] \notin {"event"} \X Events
  BY <1>4, <1>5, RowNames, RowKinds DEF MovedOn
<1>9. FirstLock(x)' /\ StaffInv(x)' /\ OneEvent(x)'
  BY <1>1, <1>2, <1>8 DEF FirstLock, StaffInv, OneEvent, SaveEvent, RequestInv, Is, StaffKinds
<1> QED BY <1>1, <1>2, <1>3, <1>7, <1>9
        DEF Kept, RequestInv, SaveEvent, Is, CloseKinds, StaffKinds

(* The event's counter, after all the tiers: what the COMMIT will write to *)
(* it is the count of the order's tickets off the row as it is now.        *)
LEMMA UpdateEventKeeps ==
  ASSUME TypeOK, NEW x \in Requests, RequestInv(x), UpdateEvent(x)
  PROVE  Kept(x)
<1> DEFINE o == job[x].order
           q == job[x].cart
           e == OrderEvent[o]
           n == TicketCount(o, q)
<1>1. CASE End(x) /\ UNCHANGED <<storeVars, overwritten>>
  BY <1>1, FailureKeeps
<1>2. ASSUME Is(x, {"create"}) \/ Is(x, CloseKinds),
             Is(x, {"create"}) \/ n <= tickets_sold[e],
             Granted(x), want[x] = EventRow(e),
             total' = [total EXCEPT ![x] =
               IF Is(x, {"create"}) THEN tickets_sold[e] + n ELSE tickets_sold[e] - n],
             NextTier(x, todo[x], Nothing),
             UNCHANGED <<job, new, storeVars, overwritten>>
      PROVE  Kept(x)
  <2>1. job[x] # Idle /\ o \in Orders /\ e \in Events /\ EventOfJob(x) = EventRow(e)
    BY <1>2, JobType, StoreAssumption
       DEF RequestInv, CreateInv, CloseInv, EventOfJob, Is, CloseKinds
  <2>2. Is(x, CloseKinds) => Owns(x, OrderRow(o))
    BY <1>2, <2>1, RowsDiffer DEF RequestInv, Is
  <2>3. todo[x] = {}
    BY <1>2, <2>1, <2>2 DEF RequestInv, CreateInv, CloseInv
  <2>4. /\ want' = [want EXCEPT ![x] = Nothing]
        /\ todo' = [todo EXCEPT ![x] = {}]
    BY <1>2, <2>3 DEF NextTier
  <2>5. want'[x] = Nothing /\ todo'[x] = {}
    BY <2>4 DEF TypeOK
  <2>6. StoreTypeOK' /\ overwritten' \in BOOLEAN /\ RowsKept(x)
    BY <1>2, NothingWritten
  <2>7. n \in Nat /\ tickets_sold[e] \in Nat
    BY <2>1, RowCount DEF TicketCount, OrderRows, TypeOK, StoreTypeOK
  <2>8. /\ total' \in [Requests -> Int]
        /\ \A y \in Requests \ {x} : total'[y] = total[y]
        /\ total'[x] = IF Is(x, {"create"}) THEN tickets_sold[e] + n ELSE tickets_sold[e] - n
    <3> HIDE DEF n, e
    <3> QED BY <1>2, <2>7 DEF TypeOK
  <2>9. /\ owner' \in [Lockable -> Requests \cup {NoOne}]
        /\ \A y \in Requests \ {x}, r \in Lockable : Owns(y, r)' <=> Owns(y, r)
        /\ \A r \in Lockable : Owns(x, r)' <=> Owns(x, r) \/ r = EventRow(e)
    BY <1>2, GrantedLock
  <2>10. TypeOK' /\ OthersKept(x)
    BY <1>2, <2>4, <2>6, <2>8, <2>9 DEF TypeOK, OthersKept
  <2>11. /\ Owns(x, EventRow(e))'
         /\ \A t \in Tiers : Owns(x, TierRow(t))' <=> Owns(x, TierRow(t))
         /\ \A p \in Orders : Owns(x, OrderRow(p))' <=> Owns(x, OrderRow(p))
    BY <1>2, <2>1, <2>9, RowNames, RowsDiffer
  <2>12. Done(x)' = Done(x)
    BY <1>2, <2>3, <2>5, RowNames, RowKinds, RowsDiffer DEF Done
  <2>13. (TicketCount(job[x].order, job[x].cart))' = n
    BY <1>2 DEF TicketCount, OrderRows
  <2>14. UNCHANGED <<status, items, is_deleted, quantity_sold, tickets_sold, on_sale>>
    BY <1>2 DEF storeVars, orderVars, saleVars
  <2>15. ASSUME Is(x, {"create"}) PROVE CreateInv(x)'
    <3> USE DEF CreateInv
    <3>1. CreateInv(x)
      BY <2>15 DEF RequestInv
    <3>2. CopiesSaved(x)'
      BY <1>2, <2>1, <2>11, <2>14, <3>1 DEF CopiesSaved
    <3>3. TiersValid(job[x].order, job[x].cart)'
      BY <1>2, <2>1, <2>14, <3>1 DEF TiersValid, available_quantity
    <3>4. \A t \in Done(x)' : Owns(x, TierRow(t))'
      BY <2>11, <2>12, <3>1 DEF Done
    <3>5. EventOfJob(x)' = EventRow(e)
      BY <1>2, <2>1 DEF EventOfJob
    <3>6. total'[x] = tickets_sold[e] + n
      BY <2>8, <2>15
    <3> HIDE DEF n
    <3> QED BY <1>2, <2>1, <2>5, <2>11, <2>13, <2>14, <3>1, <3>2, <3>3, <3>4, <3>5, <3>6
  <2>16. ASSUME Is(x, CloseKinds) PROVE CloseInv(x)'
    <3> USE DEF CloseInv
    <3>1. CloseInv(x) /\ Owns(x, OrderRow(o))
      BY <2>2, <2>16 DEF RequestInv
    <3>2. ~Is(x, {"create"})
      BY <2>16 DEF Is, CloseKinds
    <3>3. n <= tickets_sold[e] /\ total'[x] = tickets_sold[e] - n
      BY <1>2, <2>8, <3>2
    <3>4. Locked(o, Fit[job[x].kind])'
      BY <1>2, <2>14, <3>1 DEF Locked
    <3>5. \A t \in Done(x)' :
            /\ Owns(x, TierRow(t))'
            /\ q[t] <= quantity_sold[t]
            /\ new[x][t] = quantity_sold[t] - q[t]
      BY <2>11, <2>12, <3>1 DEF Done
    <3> HIDE DEF n
    <3> QED BY <1>2, <2>1, <2>5, <2>11, <2>13, <2>14, <3>1, <3>3, <3>4, <3>5
  <2>17. FirstLock(x)' /\ OneEvent(x)'
    <3>1. FirstLock(x)'
      BY <1>2, <2>1, <2>5, RowKinds DEF FirstLock
    <3>2. OneEvent(x)'
      BY <1>2, <2>1, <2>9, RowNames, RowsDiffer DEF RequestInv, OneEvent, EventOfJob, Is
    <3> QED BY <3>1, <3>2
  <2> QED BY <1>2, <2>1, <2>2, <2>6, <2>10, <2>11, <2>15, <2>16, <2>17
          DEF Kept, RequestInv, Is, CloseKinds, StaffKinds
<1> QED BY <1>1, <1>2 DEF UpdateEvent, Is

(* _validate_tiers on the copies is a check of the rows, which are locked. *)
LEMMA ValidateKeeps ==
  ASSUME TypeOK, NEW x \in Requests, RequestInv(x), Validate(x)
  PROVE  Kept(x)
<1> DEFINE o == job[x].order
           q == job[x].cart
           e == OrderEvent[o]
<1>1. CASE End(x) /\ UNCHANGED <<storeVars, overwritten>>
  BY <1>1, FailureKeeps
<1>2. ASSUME Is(x, {"create"}), want[x] = Nothing, owner[EventOfJob(x)] # x, CopiesValid(x),
             new' = [new EXCEPT ![x] = [t \in Tiers |->
               IF q[t] > 0 THEN quantity_sold[t] + q[t] ELSE 0]],
             want' = [want EXCEPT ![x] = EventOfJob(x)],
             UNCHANGED <<job, todo, total, owner, storeVars, overwritten>>
      PROVE  Kept(x)
  <2> USE DEF CreateInv
  <2>1. job[x] # Idle /\ CreateInv(x) /\ o \in Orders /\ e \in Events
    BY <1>2, JobType, StoreAssumption DEF RequestInv, Is
  <2>2. EventOfJob(x) = EventRow(e) /\ q \in [Tiers -> 0..MaxPerItem] /\ MaxPerItem \in Nat
    BY <2>1, StoreAssumption DEF EventOfJob, Carts
  <2>3. todo[x] = {} /\ Done(x) = {t \in Tiers : q[t] > 0}
    BY <1>2, <2>1, RowNames, RowKinds DEF Done
  <2>4. want[x] # EventOfJob(x) /\ ~Owns(x, EventOfJob(x))
    BY <1>2, <2>1, <2>2, RowNames, RowKinds DEF Owns
  <2>5. \A t \in Tiers : q[t] > 0 =>
          Owns(x, TierRow(t)) /\ new[x][t] = quantity_sold[t]
    BY <2>1, <2>3, <2>4
  <2>6. TiersValid(o, q)
    <3> SUFFICES ASSUME NEW t \in Tiers, q[t] > 0
                 PROVE  /\ EventOf[t] = e /\ t \in on_sale
                        /\ q[t] <= available_quantity(t)
      BY DEF TiersValid
    <3>1. EventOf[t] = e /\ t \in on_sale /\ quantity_sold[t] + q[t] <= Quantity[t]
      BY <1>2, <2>5 DEF CopiesValid
    <3>2. quantity_sold[t] \in Nat /\ Quantity[t] \in Nat /\ q[t] \in Nat
      BY <2>2, StoreAssumption DEF TypeOK, StoreTypeOK
    <3> QED BY <3>1, <3>2 DEF available_quantity
  <2>7. StoreTypeOK' /\ overwritten' \in BOOLEAN /\ RowsKept(x)
    BY <1>2, NothingWritten
  <2>8. /\ new' \in [Requests -> [Tiers -> Int]]
        /\ \A y \in Requests \ {x} : new'[y] = new[y]
        /\ \A t \in Tiers : q[t] > 0 => new'[x][t] = quantity_sold[t] + q[t]
    <3>1. [t \in Tiers |-> IF q[t] > 0 THEN quantity_sold[t] + q[t] ELSE 0] \in [Tiers -> Int]
      BY <2>2 DEF TypeOK, StoreTypeOK
    <3> QED BY <1>2, <3>1 DEF TypeOK
  <2>9. /\ want' \in [Requests -> Lockable \cup {Nothing}]
        /\ want'[x] = EventRow(e)
        /\ \A y \in Requests \ {x} : want'[y] = want[y]
    BY <1>2, <2>1, <2>2, RowNames DEF TypeOK
  <2>10. TypeOK' /\ OthersKept(x)
    BY <1>2, <2>7, <2>8, <2>9 DEF TypeOK, OthersKept, Owns
  <2>11. UNCHANGED <<status, items, is_deleted, quantity_sold, tickets_sold, on_sale>>
    BY <1>2 DEF storeVars, orderVars, saleVars
  <2>12. CreateInv(x)'
    <3>1. CopiesSaved(x)'
      BY <1>2, <2>5, <2>8, <2>11 DEF CopiesSaved, Owns
    <3>2. TiersValid(job[x].order, job[x].cart)'
      BY <1>2, <2>6, <2>11 DEF TiersValid, available_quantity
    <3>3. \A t \in Done(x)' : Owns(x, TierRow(t))'
      BY <1>2, <2>5 DEF Done, Owns
    <3>4. EventOfJob(x)' = EventRow(e) /\ ~Owns(x, EventRow(e)) /\ ~(owner'[EventRow(e)] = x)
      BY <1>2, <2>2, <2>4 DEF EventOfJob, Owns
    <3> QED BY <1>2, <2>1, <2>3, <2>9, <2>11, <3>1, <3>2, <3>3, <3>4 DEF Owns
  <2>13. FirstLock(x)' /\ OneEvent(x)'
    <3>1. FirstLock(x)'
      BY <1>2, <2>1, <2>9, RowNames, RowKinds DEF FirstLock
    <3>2. OneEvent(x)'
      BY <1>2 DEF RequestInv, OneEvent, EventOfJob, Is, Owns
    <3> QED BY <3>1, <3>2
  <2> QED BY <1>2, <2>1, <2>7, <2>10, <2>12, <2>13
          DEF Kept, RequestInv, Is, CloseKinds, StaffKinds
<1> QED BY <1>1, <1>2 DEF Validate

-----------------------------------------------------------------------------
(* The first statement of a transaction.                                   *)

(* What Begin leaves of an idle request: no locks, nothing written.        *)
LEMMA BeginStarts ==
  ASSUME TypeOK, NEW x \in Requests, RequestInv(x),
         NEW kind \in OrderKinds \cup StaffKinds, NEW o \in Orders \cup {NoOne},
         NEW cart \in [Tiers -> 0..MaxPerItem], Begin(x, kind, o, cart)
  PROVE  /\ job' \in [Requests -> Jobs \cup {Idle}]
         /\ job'[x] = [kind |-> kind, order |-> o, cart |-> cart] /\ job'[x] # Idle
         /\ \A y \in Requests \ {x} : job'[y] = job[y]
         /\ \A y \in Requests, r \in Lockable : Owns(y, r)' <=> Owns(y, r)
         /\ \A r \in Lockable : owner'[r] # x
         /\ UNCHANGED <<storeVars, owner, overwritten>>
<1>1. [kind |-> kind, order |-> o, cart |-> cart] \in Jobs
  BY DEF Jobs
<1>2. [kind |-> kind, order |-> o, cart |-> cart] # Idle
  <2>1. kind # "none"
    BY DEF OrderKinds, StaffKinds, CloseKinds
  <2> QED BY <2>1 DEF Idle
<1>3. UNCHANGED <<storeVars, owner, overwritten>>
  BY DEF Begin
<1>4. \A r \in Lockable : owner[r] # x
  BY DEF Begin, RequestInv, FirstLock, Held
<1> QED BY <1>1, <1>2, <1>3, <1>4 DEF Begin, TypeOK, Owns

(* checkout: the order is new, and no running request creates it.          *)
LEMMA BeginCreateKeeps ==
  ASSUME TypeOK, NEW x \in Requests, RequestInv(x), NEW o \in Orders, NEW q \in Carts,
         BeginCreate(x, o, q)
  PROVE  TypeOK' /\ OthersKept(x) /\ RowsKept(x) /\ RequestInv(x)' /\ job'[x].order = o
<1> DEFINE tiers == {t \in Tiers : q[t] > 0}
<1>1. q \in [Tiers -> 0..MaxPerItem]
  BY DEF Carts
<1>2. /\ job' \in [Requests -> Jobs \cup {Idle}]
      /\ job'[x] = [kind |-> "create", order |-> o, cart |-> q] /\ job'[x] # Idle
      /\ \A y \in Requests \ {x} : job'[y] = job[y]
      /\ \A y \in Requests, r \in Lockable : Owns(y, r)' <=> Owns(y, r)
      /\ \A r \in Lockable : owner'[r] # x
      /\ UNCHANGED <<storeVars, owner, overwritten>>
  <2>1. "create" \in OrderKinds \cup StaffKinds /\ o \in Orders \cup {NoOne}
    BY DEF OrderKinds
  <2>2. Begin(x, "create", o, q)
    BY DEF BeginCreate
  <2> QED BY <1>1, <2>1, <2>2, BeginStarts
<1>3. MovedOn(x, tiers, Nothing)
  <2>1. Nothing \in Lockable \cup {Nothing} /\ \A t \in Tiers : Nothing # TierRow(t)
    BY RowNames, RowKinds
  <2>2. NextTier(x, tiers, Nothing) /\ tiers \in SUBSET Tiers
    BY DEF BeginCreate
  <2> HIDE DEF tiers
  <2> QED BY <2>1, <2>2, NextTierMoves
<1>4. StoreTypeOK' /\ overwritten' \in BOOLEAN /\ RowsKept(x)
  BY <1>2, NothingWritten
<1>5. TypeOK' /\ OthersKept(x)
  BY <1>2, <1>3, <1>4 DEF BeginCreate, MovedOn, TypeOK, OthersKept
<1>6. CreateInv(x)'
  <2>1. status'[o] = "none" /\ \A y \in Requests \ {x} : job'[y] # Idle => job'[y].order # o
    BY <1>2 DEF BeginCreate, storeVars, orderVars
  <2>2. Done(x)' = {}
    BY <1>2, <1>3 DEF MovedOn, Done
  <2>3. EventOfJob(x)' = EventRow(OrderEvent[o]) /\ EventRow(OrderEvent[o]) \in Lockable
    BY <1>2, RowNames, StoreAssumption DEF EventOfJob
  <2>4. want'[x] # EventRow(OrderEvent[o])
    BY <1>3, RowsDiffer, RowNames, RowKinds, <2>3 DEF MovedOn
  <2> QED BY <1>2, <1>3, <2>1, <2>2, <2>3, <2>4, RowNames, RowKinds
          DEF CreateInv, MovedOn, Owns
<1>7. FirstLock(x)' /\ OneEvent(x)'
  BY <1>2, RowNames DEF FirstLock, Held, OneEvent, Owns
<1> QED BY <1>2, <1>4, <1>5, <1>6, <1>7 DEF RequestInv, Is, CloseKinds, StaffKinds

(* Confirmation, cancellation and refund first ask for their order's row.  *)
LEMMA BeginOnOrderKeeps ==
  ASSUME TypeOK, NEW x \in Requests, RequestInv(x), NEW o \in Orders,
         NEW kind \in OrderKinds \ {"create"}, BeginOnOrder(x, kind, o)
  PROVE  TypeOK' /\ OthersKept(x) /\ RowsKept(x) /\ RequestInv(x)' /\ job'[x].order = o
<1>1. /\ job' \in [Requests -> Jobs \cup {Idle}]
      /\ job'[x] = [kind |-> kind, order |-> o, cart |-> NoItems] /\ job'[x] # Idle
      /\ \A y \in Requests \ {x} : job'[y] = job[y]
      /\ \A y \in Requests, r \in Lockable : Owns(y, r)' <=> Owns(y, r)
      /\ \A r \in Lockable : owner'[r] # x
      /\ UNCHANGED <<storeVars, owner, overwritten>>
  <2>1. kind \in OrderKinds \cup StaffKinds /\ o \in Orders \cup {NoOne}
    OBVIOUS
  <2>2. NoItems \in [Tiers -> 0..MaxPerItem]
    BY StoreAssumption DEF NoItems
  <2>3. Begin(x, kind, o, NoItems)
    BY DEF BeginOnOrder
  <2> QED BY <2>1, <2>2, <2>3, BeginStarts
<1>2. StoreTypeOK' /\ overwritten' \in BOOLEAN /\ RowsKept(x)
  BY <1>1, NothingWritten
<1>3. /\ want' = [want EXCEPT ![x] = OrderRow(o)] /\ UNCHANGED <<todo, new, total>>
      /\ want'[x] = OrderRow(o) /\ OrderRow(o) \in Lockable
  BY RowNames DEF BeginOnOrder, TypeOK
<1>4. TypeOK' /\ OthersKept(x)
  BY <1>1, <1>2, <1>3 DEF TypeOK, OthersKept
<1>5. kind \in CloseKinds \cup {"confirm"}
  BY DEF OrderKinds
<1>6. CloseInv(x)' /\ ConfirmInv(x)'
  BY <1>1, <1>3 DEF CloseInv, ConfirmInv, Owns
<1>7. FirstLock(x)' /\ OneEvent(x)'
  BY <1>1, RowNames DEF FirstLock, Held, OneEvent, Owns
<1> QED BY <1>1, <1>2, <1>3, <1>4, <1>5, <1>6, <1>7
        DEF RequestInv, Is, CloseKinds, StaffKinds

(* Staff first ask for a tier, or for the event of a form.                 *)
LEMMA BeginStaffKeeps ==
  ASSUME TypeOK, NEW x \in Requests, RequestInv(x),
         \/ \E t \in StaffTiers : BeginEdit(x, t)
         \/ \E e \in Events, tiers \in SUBSET StaffTiers : BeginForm(x, e, tiers)
  PROVE  TypeOK' /\ OthersKept(x) /\ RowsKept(x) /\ RequestInv(x)' /\ job'[x].order = NoOne
<1>1. PICK kind \in StaffKinds : Begin(x, kind, NoOne, NoItems) /\ kind =
        (IF \E t \in StaffTiers : BeginEdit(x, t) THEN "edit" ELSE "form")
  BY DEF BeginEdit, BeginForm, StaffKinds
<1>2. /\ job' \in [Requests -> Jobs \cup {Idle}]
      /\ job'[x] = [kind |-> kind, order |-> NoOne, cart |-> NoItems] /\ job'[x] # Idle
      /\ \A y \in Requests \ {x} : job'[y] = job[y]
      /\ \A y \in Requests, r \in Lockable : Owns(y, r)' <=> Owns(y, r)
      /\ \A r \in Lockable : owner'[r] # x
      /\ UNCHANGED <<storeVars, owner, overwritten>>
  <2>1. kind \in OrderKinds \cup StaffKinds /\ NoOne \in Orders \cup {NoOne}
    OBVIOUS
  <2>2. NoItems \in [Tiers -> 0..MaxPerItem]
    BY StoreAssumption DEF NoItems
  <2> QED BY <1>1, <2>1, <2>2, BeginStarts
<1>3. StoreTypeOK' /\ overwritten' \in BOOLEAN /\ RowsKept(x)
  BY <1>2, NothingWritten
<1>4. /\ want' \in [Requests -> Lockable \cup {Nothing}]
      /\ todo' \in [Requests -> SUBSET Tiers]
      /\ \A y \in Requests \ {x} : want'[y] = want[y] /\ todo'[y] = todo[y]
      /\ want'[x] \notin {"order"} \X Orders
      /\ kind = "edit" => want'[x] \notin {"event"} \X Events
  <2>1. ASSUME NEW t \in StaffTiers, BeginEdit(x, t)
        PROVE  /\ want' \in [Requests -> Lockable \cup {Nothing}]
               /\ todo' = todo
               /\ \A y \in Requests \ {x} : want'[y] = want[y]
               /\ want'[x] \in {"tier"} \X Tiers
    BY <2>1, RowNames, RowLocksAssumption DEF BeginEdit, TypeOK
  <2>2. ASSUME NEW e \in Events, NEW tiers \in SUBSET StaffTiers, BeginForm(x, e, tiers)
        PROVE  /\ want' \in [Requests -> Lockable \cup {Nothing}]
               /\ todo' \in [Requests -> SUBSET Tiers]
               /\ \A y \in Requests \ {x} : want'[y] = want[y] /\ todo'[y] = todo[y]
               /\ want'[x] \in {"event"} \X Events
    BY <2>2, RowNames, RowLocksAssumption DEF BeginForm, TypeOK
  <2> QED BY <1>1, <2>1, <2>2, RowKinds DEF TypeOK
<1>8. ASSUME NEW tiers \in SUBSET Tiers, Copies(x, tiers)
      PROVE  /\ new' \in [Requests -> [Tiers -> Int]]
             /\ new'[x] \in [Tiers -> Nat]
             /\ \A y \in Requests \ {x} : new'[y] = new[y]
  <2>1. [t \in Tiers |-> IF t \in tiers THEN quantity_sold[t] ELSE 0] \in [Tiers -> Nat]
    BY DEF TypeOK, StoreTypeOK
  <2>2. \A f \in [Tiers -> Nat] : f \in [Tiers -> Int]
    OBVIOUS
  <2> QED BY <1>8, <2>1, <2>2 DEF Copies, TypeOK
<1>9. /\ new' \in [Requests -> [Tiers -> Int]]
      /\ new'[x] \in [Tiers -> Nat]
      /\ \A y \in Requests \ {x} : new'[y] = new[y]
  <2>1. \A t \in StaffTiers : {t} \in SUBSET Tiers
    BY RowLocksAssumption
  <2>2. \A tiers \in SUBSET StaffTiers : tiers \in SUBSET Tiers
    BY RowLocksAssumption
  <2> QED BY <1>8, <2>1, <2>2 DEF BeginEdit, BeginForm
<1>10. /\ total' \in [Requests -> Int]
       /\ kind = "form" => total'[x] \in Nat
       /\ \A y \in Requests \ {x} : total'[y] = total[y]
  <2>1. ASSUME NEW t \in StaffTiers, BeginEdit(x, t) PROVE total' = total /\ kind = "edit"
    BY <1>1, <2>1 DEF BeginEdit
  <2>2. ASSUME NEW e \in Events, NEW tiers \in SUBSET StaffTiers, BeginForm(x, e, tiers)
        PROVE  /\ total' \in [Requests -> Int]
               /\ total'[x] \in Nat
               /\ \A y \in Requests \ {x} : total'[y] = total[y]
    BY <2>2 DEF BeginForm, TypeOK, StoreTypeOK
  <2> QED BY <2>1, <2>2 DEF TypeOK
<1>5. TypeOK' /\ OthersKept(x)
  BY <1>2, <1>3, <1>4, <1>9, <1>10 DEF TypeOK, OthersKept
<1>6. StaffInv(x)'
  BY <1>2, <1>4, <1>9, <1>10 DEF StaffInv, Is
<1>7. FirstLock(x)' /\ OneEvent(x)'
  BY <1>2, RowNames DEF FirstLock, Held, OneEvent, Owns
<1> QED BY <1>2, <1>3, <1>5, <1>6, <1>7 DEF RequestInv, Is, CloseKinds, StaffKinds

-----------------------------------------------------------------------------
(* COMMIT.                                                                 *)

(* A checkout that commits does what create_order's transaction does in    *)
(* one step: the counters it writes are those of the rows plus its items.  *)
LEMMA CommitCreateIsTx ==
  ASSUME TypeOK, NEW x \in Requests, RequestInv(x), Ready(x), CommitCreate(x)
  PROVE  /\ job[x].order \in Orders /\ job[x].cart \in Carts
         /\ CreateTx(job[x].order, job[x].cart)
         /\ RowsKept(x)
<1> DEFINE o == job[x].order
           q == job[x].cart
           e == OrderEvent[o]
<1> USE DEF CreateInv
<1>1. CreateInv(x) /\ job[x] # Idle /\ o \in Orders /\ q \in Carts /\ e \in Events
  BY StoreAssumption DEF RequestInv, CommitCreate, Ready
<1>2. Owns(x, EventRow(e)) /\ EventOfJob(x) = EventRow(e)
  BY <1>1 DEF Ready, CommitCreate, Is, Owns, EventOfJob
<1>3. CopiesSaved(x) /\ TiersValid(o, q) /\ total[x] = tickets_sold[e] + TicketCount(o, q)
  BY <1>1, <1>2
<1>4. q \in [Tiers -> 0..MaxPerItem] /\ MaxPerItem \in Nat
  BY <1>1, StoreAssumption DEF Carts
<1>5. \A t \in Tiers : Written(x)[t] = quantity_sold[t] + q[t]
  BY <1>3, <1>4 DEF Written, CopiesSaved, TypeOK, StoreTypeOK
<1>6. Written(x) = [t \in Tiers |-> quantity_sold[t] + q[t]]
  BY <1>5 DEF Written
<1>7. CreateTx(o, q)
  BY <1>1, <1>3, <1>6 DEF CreateTx, CommitCreate
<1>8. RowsKept(x)
  <2>1. \A p \in Orders : p = o \/ (status'[p] = status[p] /\ items'[p] = items[p])
    <3>1. /\ status \in [Orders -> Statuses]
          /\ items \in [Orders -> [Tiers -> 0..MaxPerItem]]
      BY DEF TypeOK, StoreTypeOK
    <3>2. /\ status' = [status EXCEPT ![o] = "PENDING"]
          /\ items' = [items EXCEPT ![o] = q]
      BY DEF CommitCreate
    <3> QED BY <3>1, <3>2
  <2>2. Is(x, {"create"}) /\ is_deleted' = is_deleted /\ on_sale' = on_sale
    BY DEF CommitCreate
  <2>3. \A t \in Tiers : Owns(x, TierRow(t)) \/ quantity_sold'[t] = quantity_sold[t]
    BY <1>3 DEF CommitCreate, Written, CopiesSaved
  <2>4. \A d \in Events : d = e \/ tickets_sold'[d] = tickets_sold[d]
    BY DEF CommitCreate, TypeOK, StoreTypeOK
  <2> QED BY <1>1, <1>2, <2>1, <2>2, <2>3, <2>4 DEF RowsKept
<1> QED BY <1>1, <1>7, <1>8

(* What a close that is about to commit knows of its order and counters.   *)
LEMMA CloseReady ==
  ASSUME TypeOK, NEW x \in Requests, RequestInv(x), Ready(x), Is(x, CloseKinds)
  PROVE  LET o == job[x].order IN
         /\ job[x] # Idle /\ o \in Orders
         /\ Owns(x, OrderRow(o)) /\ Owns(x, EventRow(OrderEvent[o]))
         /\ Locked(o, Fit[job[x].kind])
         /\ job[x].cart = items[o]
         /\ CanRestore(o)
         /\ Written(x) = [t \in Tiers |-> quantity_sold[t] - items[o][t]]
         /\ \A t \in Tiers : Owns(x, TierRow(t)) \/ Written(x)[t] = quantity_sold[t]
         /\ total[x] = tickets_sold[OrderEvent[o]] - TicketCount(o, items[o])
<1> DEFINE o == job[x].order
           q == job[x].cart
           e == OrderEvent[o]
<1> USE DEF CloseInv
<1>1. CloseInv(x) /\ job[x] # Idle /\ o \in Orders /\ e \in Events /\ want[x] = Nothing
  BY StoreAssumption DEF RequestInv, Ready
<1>2. Owns(x, OrderRow(o)) /\ Owns(x, EventRow(e))
  <2>1. OrderRow(o) # Nothing
    BY <1>1, RowNames, RowKinds
  <2> QED BY <1>1, <2>1 DEF RequestInv, Ready, Is, EventOfJob, Owns
<1>3. q = items[o] /\ q \in [Tiers -> 0..MaxPerItem] /\ MaxPerItem \in Nat
  BY <1>1, <1>2, StoreAssumption DEF TypeOK, StoreTypeOK
<1>4. \A t \in Tiers : q[t] > 0 => t \in Done(x)
  BY <1>1, <1>2, RowNames, RowKinds DEF Done
<1>5. \A t \in Tiers : q[t] > 0 =>
        /\ Owns(x, TierRow(t))
        /\ q[t] <= quantity_sold[t]
        /\ new[x][t] = quantity_sold[t] - q[t]
  BY <1>1, <1>2, <1>4
<1>6. CanRestore(o)
  BY <1>1, <1>2, <1>3, <1>5 DEF CanRestore, TypeOK, StoreTypeOK
<1>7. \A t \in Tiers : Written(x)[t] = quantity_sold[t] - q[t]
  BY <1>3, <1>5 DEF Written, TypeOK, StoreTypeOK
<1>8. Written(x) = [t \in Tiers |-> quantity_sold[t] - q[t]]
  BY <1>7 DEF Written
<1>9. \A t \in Tiers : Owns(x, TierRow(t)) \/ Written(x)[t] = quantity_sold[t]
  BY <1>5 DEF Written
<1> QED BY <1>1, <1>2, <1>3, <1>6, <1>8, <1>9

(* A close that commits is cancel_order's or refund_order's transaction.   *)
LEMMA CommitCloseIsTx ==
  ASSUME TypeOK, NEW x \in Requests, RequestInv(x), Ready(x),
         CommitClose(x, "cancel", "CANCELLED") \/ CommitClose(x, "refund", "REFUNDED")
  PROVE  /\ job[x].order \in Orders
         /\ CancelTx(job[x].order) \/ RefundTx(job[x].order)
         /\ RowsKept(x)
<1> DEFINE o == job[x].order
           e == OrderEvent[o]
<1>1. Is(x, CloseKinds)
  BY DEF CommitClose, Is, CloseKinds
<1>2. /\ job[x] # Idle /\ o \in Orders
      /\ Owns(x, OrderRow(o)) /\ Owns(x, EventRow(e))
      /\ Locked(o, Fit[job[x].kind])
      /\ CanRestore(o)
      /\ Written(x) = [t \in Tiers |-> quantity_sold[t] - items[o][t]]
      /\ \A t \in Tiers : Owns(x, TierRow(t)) \/ Written(x)[t] = quantity_sold[t]
      /\ total[x] = tickets_sold[e] - TicketCount(o, items[o])
  BY <1>1, CloseReady
<1>3. RestoreInventory(o)
  BY <1>2 DEF CommitClose, RestoreInventory
<1>4. ASSUME CommitClose(x, "cancel", "CANCELLED") PROVE CancelTx(o)
  <2>1. Locked(o, {"PENDING"})
    <3>1. job[x].kind = "cancel"
      BY <1>4 DEF CommitClose, Is
    <3>2. Fit["cancel"] = {"PENDING"}
      BY DEF Fit
    <3> QED BY <1>2, <3>1, <3>2
  <2> QED BY <1>3, <1>4, <2>1 DEF CommitClose, CancelTx
<1>5. ASSUME CommitClose(x, "refund", "REFUNDED") PROVE RefundTx(o)
  <2>1. Locked(o, {"CONFIRMED"})
    <3>1. job[x].kind = "refund"
      BY <1>5 DEF CommitClose, Is
    <3>2. Fit["refund"] = {"CONFIRMED"}
      BY DEF Fit
    <3> QED BY <1>2, <3>1, <3>2
  <2>2. expires_at' = expires_at
    BY <1>2, <1>5 DEF CommitClose, TypeOK, StoreTypeOK
  <2> QED BY <1>3, <1>5, <2>1, <2>2 DEF CommitClose, RefundTx
<1>6. RowsKept(x)
  <2>1. \A p \in Orders : p = o \/ (status'[p] = status[p] /\ items'[p] = items[p])
    BY DEF CommitClose, TypeOK, StoreTypeOK
  <2>2. is_deleted' = is_deleted /\ on_sale' = on_sale /\ quantity_sold' = Written(x)
    BY DEF CommitClose
  <2>3. \A d \in Events : d = e \/ tickets_sold'[d] = tickets_sold[d]
    BY DEF CommitClose, TypeOK, StoreTypeOK
  <2> QED BY <1>2, <2>1, <2>2, <2>3 DEF RowsKept
<1> QED BY <1>2, <1>4, <1>5, <1>6

(* A confirmation that commits is confirm_order's transaction.             *)
LEMMA CommitConfirmIsTx ==
  ASSUME TypeOK, NEW x \in Requests, RequestInv(x), Ready(x), CommitConfirm(x)
  PROVE  /\ job[x].order \in Orders
         /\ \E with_intent \in BOOLEAN : ConfirmTx(job[x].order, with_intent)
         /\ RowsKept(x)
<1> DEFINE o == job[x].order
<1>1. ConfirmInv(x) /\ o \in Orders /\ job[x] # Idle /\ want[x] = Nothing
  BY DEF RequestInv, CommitConfirm, ConfirmInv, Ready
<1>2. Owns(x, OrderRow(o)) /\ Locked(o, {"PENDING"})
  <2>1. OrderRow(o) # Nothing
    BY <1>1, RowNames, RowKinds
  <2> QED BY <1>1, <2>1 DEF RequestInv, CommitConfirm, ConfirmInv, Is
<1>3. \E with_intent \in BOOLEAN : ConfirmTx(o, with_intent)
  BY <1>2, RowLocksAssumption DEF CommitConfirm, ConfirmTx
<1>4. \A p \in Orders : p = o \/ (status'[p] = status[p] /\ items'[p] = items[p])
  BY DEF CommitConfirm, TypeOK, StoreTypeOK
<1>5. RowsKept(x)
  BY <1>1, <1>2, <1>4 DEF RowsKept, CommitConfirm, saleVars
<1> QED BY <1>1, <1>3, <1>5

(* A save of staff that commits writes rows that it locked, each with the  *)
(* counter in its copy: if those are the rows' own still, the commit takes *)
(* at most one tier on or off sale.                                        *)
LEMMA CommitStaffSaves ==
  ASSUME TypeOK, NEW x \in Requests, RequestInv(x), job[x] # Idle, CommitStaff(x)
  PROVE  /\ StoreTypeOK' /\ overwritten' \in BOOLEAN /\ RowsKept(x)
         /\ \/ Overwrites(x)
            \/ (\E t \in Tiers : ToggleSale(t)) \/ UNCHANGED storeVars
         /\ \/ overwritten'
            \/ (\E t \in Tiers : ToggleSale(t)) \/ UNCHANGED storeVars
         /\ UNCHANGED <<orderVars, ticket>>
         /\ ~overwritten' => ~overwritten
<1>1. /\ new[x] \in [Tiers -> Nat]
      /\ \A e \in SavedEvents(x) : total[x] \in Nat
      /\ Is(x, StaffKinds)
  BY DEF RequestInv, StaffInv, OneEvent, SavedEvents, CommitStaff, Is, StaffKinds, CloseKinds
<1>2. UNCHANGED <<orderVars, ticket, now>>
  BY DEF CommitStaff
<1>3. /\ quantity_sold' \in [Tiers -> Nat]
      /\ \A t \in Tiers : t \in SavedTiers(x) \/ quantity_sold'[t] = quantity_sold[t]
  BY <1>1 DEF CommitStaff, WriteCopies, TypeOK, StoreTypeOK
<1>4. /\ tickets_sold' \in [Events -> Nat]
      /\ \A e \in Events : e \in SavedEvents(x) \/ tickets_sold'[e] = tickets_sold[e]
  BY <1>1 DEF CommitStaff, WriteCopies, TypeOK, StoreTypeOK
<1>5. \/ UNCHANGED on_sale
      \/ \E t \in SavedTiers(x) :
           on_sale' = IF t \in on_sale THEN on_sale \ {t} ELSE on_sale \cup {t}
  BY DEF CommitStaff
<1>6. SavedTiers(x) \subseteq Tiers
  BY DEF SavedTiers
<1>7. StoreTypeOK'
  <2>1. on_sale' \subseteq Tiers
    BY <1>5, <1>6 DEF TypeOK, StoreTypeOK
  <2> QED BY <1>2, <1>3, <1>4, <2>1 DEF TypeOK, StoreTypeOK, orderVars
<1>8. RowsKept(x)
  <2>1. \A t \in Tiers : t \in SavedTiers(x) \/ (t \in on_sale' <=> t \in on_sale)
    BY <1>5
  <2> QED BY <1>2, <1>3, <1>4, <2>1 DEF RowsKept, SavedTiers, SavedEvents, orderVars
<1>9. UNCHANGED saleVars => (\E t \in Tiers : ToggleSale(t)) \/ UNCHANGED storeVars
  <2> SUFFICES ASSUME UNCHANGED saleVars
               PROVE  (\E t \in Tiers : ToggleSale(t)) \/ UNCHANGED storeVars
    OBVIOUS
  <2>1. CASE UNCHANGED on_sale
    BY <1>2, <2>1 DEF storeVars
  <2>2. ASSUME NEW t \in SavedTiers(x),
               on_sale' = IF t \in on_sale THEN on_sale \ {t} ELSE on_sale \cup {t}
        PROVE  t \in Tiers /\ ToggleSale(t)
    BY <1>2, <1>6, <2>2 DEF ToggleSale
  <2> QED BY <1>5, <2>1, <2>2
<1>10. ~Overwrites(x) => UNCHANGED saleVars
  <2> SUFFICES ASSUME ~Overwrites(x) PROVE UNCHANGED saleVars
    OBVIOUS
  <2>1. \A t \in Tiers : quantity_sold'[t] = quantity_sold[t]
    BY DEF Overwrites, CommitStaff, WriteCopies
  <2>2. \A e \in Events : tickets_sold'[e] = tickets_sold[e]
    BY DEF Overwrites, CommitStaff, WriteCopies
  <2>3. UNCHANGED <<quantity_sold, tickets_sold>>
    BY <1>3, <1>4, <2>1, <2>2 DEF TypeOK, StoreTypeOK
  <2> QED BY <1>2, <2>3 DEF saleVars
<1>11. overwritten' = (overwritten \/ saleVars' # saleVars)
  BY DEF CommitStaff
<1>12. overwritten' \in BOOLEAN /\ (~overwritten' => ~overwritten /\ UNCHANGED saleVars)
  BY <1>11 DEF TypeOK
<1> QED BY <1>2, <1>7, <1>8, <1>9, <1>10, <1>12

(* What a step may do to the tables: a step of OrderStore, or a commit of  *)
(* staff's that overwrites.                                                *)
StoreOrOverwrite ==
  \/ StoreNext
  \/ \E x \in Requests : /\ Is(x, StaffKinds) /\ Overwrites(x)
                         /\ job'[x] = Idle
                         /\ UNCHANGED <<orderVars, ticket>>

(* And its history: while nothing was overwritten, only OrderStore's.      *)
StoreStep ==
  /\ [StoreOrOverwrite]_storeVars
  /\ ~overwritten' => ~overwritten /\ [StoreNext]_storeVars

(* The step of OrderStore that a COMMIT is, or the overwriting, and what   *)
(* it leaves of the other transactions.                                    *)
LEMMA CommitKeeps ==
  ASSUME TypeOK, NEW x \in Requests, RequestInv(x), Commit(x)
  PROVE  StoreStep /\ Kept(x)
<1>1. End(x) /\ job[x] # Idle /\ job'[x] = Idle
  BY DEF Commit, Ready, End, TypeOK
<1>2. CASE CommitStaff(x)
  <2>1. Is(x, StaffKinds)
    BY <1>2 DEF CommitStaff
  <2>2. [StoreOrOverwrite]_storeVars
    BY <1>1, <1>2, <2>1, CommitStaffSaves DEF StoreOrOverwrite, StoreNext
  <2>3. ~overwritten' => ~overwritten /\ [StoreNext]_storeVars
    BY <1>1, <1>2, CommitStaffSaves DEF StoreNext
  <2>4. StoreTypeOK' /\ overwritten' \in BOOLEAN /\ RowsKept(x)
    BY <1>1, <1>2, CommitStaffSaves
  <2> QED BY <1>1, <2>2, <2>3, <2>4, EndKeepsInv DEF Kept, StoreStep
<1>3. CASE ~CommitStaff(x)
  <2>1. StoreNext /\ RowsKept(x) /\ UNCHANGED overwritten
    <3>1. CASE CommitCreate(x)
      BY <3>1, CommitCreateIsTx DEF Commit, StoreNext, CommitCreate
    <3>2. CASE CommitConfirm(x)
      BY <3>2, CommitConfirmIsTx DEF Commit, StoreNext, CommitConfirm
    <3>3. CASE CommitClose(x, "cancel", "CANCELLED") \/ CommitClose(x, "refund", "REFUNDED")
      BY <3>3, CommitCloseIsTx DEF Commit, StoreNext, CommitClose
    <3> QED BY <1>3, <3>1, <3>2, <3>3 DEF Commit
  <2>2. StoreTypeOK' /\ overwritten' \in BOOLEAN
    BY <2>1, StoreKeepsTypes DEF TypeOK
  <2> QED BY <1>1, <2>1, <2>2, EndKeepsInv DEF Kept, StoreStep, StoreOrOverwrite
<1> QED BY <1>2, <1>3

-----------------------------------------------------------------------------
(* The statements implement the tables.                                    *)

(* A statement before COMMIT, or a failure, is no step of the tables.      *)
LEMMA NoStoreStep ==
  ASSUME UNCHANGED <<storeVars, overwritten>>
  PROVE  StoreStep
BY DEF StoreStep

(* A step of one request is a step of OrderStore, an overwriting of staff's *)
(* or neither, and keeps what every request relies on.                     *)
LEMMA RequestStep ==
  ASSUME TypeOK, \A y \in Requests : RequestInv(y), NEW x \in Requests,
         \/ \E o \in Orders : \E q \in Carts : BeginCreate(x, o, q)
         \/ \E o \in Orders : \E kind \in OrderKinds \ {"create"} : BeginOnOrder(x, kind, o)
         \/ \E t \in StaffTiers : BeginEdit(x, t)
         \/ \E e \in Events, tiers \in SUBSET StaffTiers : BeginForm(x, e, tiers)
         \/ Move(x)
         \/ Abort(x)
  PROVE  StoreStep /\ TypeOK' /\ \A y \in Requests : RequestInv(y)'
<1> DEFINE Inv == TypeOK' /\ \A y \in Requests : RequestInv(y)'
<1>1. ASSUME NEW o \in Orders \cup {NoOne},
             TypeOK', OthersKept(x), RowsKept(x), RequestInv(x)', job'[x].order = o,
             \A y \in Requests \ {x} : Is(y, {"create"}) => job[y].order # o
      PROVE  Inv
  BY <1>1, OthersKeepInv
<1>2. ASSUME Kept(x) PROVE Inv
  BY <1>2, OthersKeepInv, CreatorAlone DEF Kept
<1> HIDE DEF Inv
<1>3. ASSUME NEW o \in Orders, NEW q \in Carts, BeginCreate(x, o, q)
      PROVE  Inv /\ UNCHANGED <<storeVars, overwritten>>
  <2>1. \A y \in Requests \ {x} : Is(y, {"create"}) => job[y].order # o
    BY <1>3, JobType DEF BeginCreate, Is
  <2> QED BY <1>1, <1>3, <2>1, BeginCreateKeeps DEF BeginCreate, Begin
<1>4. ASSUME NEW o \in Orders, NEW kind \in OrderKinds \ {"create"}, BeginOnOrder(x, kind, o)
      PROVE  Inv /\ UNCHANGED <<storeVars, overwritten>>
  <2>1. \A y \in Requests \ {x} : Is(y, {"create"}) => job[y].order # o
    BY <1>4 DEF BeginOnOrder, RequestInv, CreateInv
  <2> QED BY <1>1, <1>4, <2>1, BeginOnOrderKeeps DEF BeginOnOrder, Begin
<1>5. CASE \/ \E t \in StaffTiers : BeginEdit(x, t)
           \/ \E e \in Events, tiers \in SUBSET StaffTiers : BeginForm(x, e, tiers)
  <2>1. \A y \in Requests \ {x} : Is(y, {"create"}) => job[y].order # NoOne
    BY RowLocksAssumption DEF RequestInv, CreateInv
  <2>2. Inv
    BY <1>1, <1>5, <2>1, BeginStaffKeeps
  <2>3. UNCHANGED <<storeVars, overwritten>>
    BY <1>5 DEF BeginEdit, BeginForm, Begin
  <2> QED BY <2>2, <2>3, NoStoreStep DEF Inv
<1>6. CASE LockOrder(x) \/ Validate(x) \/ UpdateEvent(x) \/ SaveEvent(x)
  <2>1. UNCHANGED <<storeVars, overwritten>>
    BY <1>6 DEF LockOrder, Validate, UpdateEvent, SaveEvent
  <2>2. Inv
    BY <1>2, <1>6, LockOrderKeeps, ValidateKeeps, UpdateEventKeeps, SaveEventKeeps
  <2> QED BY <2>1, <2>2, NoStoreStep DEF Inv
<1>7. CASE \E t \in Tiers : LockTier(x, t) \/ RestoreTier(x, t) \/ SaveTier(x, t)
  <2>1. UNCHANGED <<storeVars, overwritten>>
    BY <1>7 DEF LockTier, RestoreTier, SaveTier
  <2>2. Inv
    BY <1>2, <1>7, LockTierKeeps, RestoreTierKeeps, SaveTierKeeps
  <2> QED BY <2>1, <2>2, NoStoreStep DEF Inv
<1>8. CASE Commit(x)
  BY <1>2, <1>8, CommitKeeps DEF Inv
<1>9. CASE Abort(x)
  <2>1. Inv /\ UNCHANGED <<storeVars, overwritten>>
    BY <1>2, <1>9, FailureKeeps DEF Abort
  <2> QED BY <2>1, NoStoreStep DEF Inv
<1>10. CASE \/ \E o \in Orders : \E q \in Carts : BeginCreate(x, o, q)
            \/ \E o \in Orders : \E kind \in OrderKinds \ {"create"} : BeginOnOrder(x, kind, o)
  <2>1. Inv /\ UNCHANGED <<storeVars, overwritten>>
    BY <1>3, <1>4, <1>10
  <2> QED BY <2>1, NoStoreStep DEF Inv
<1> QED BY <1>5, <1>6, <1>7, <1>8, <1>9, <1>10 DEF Move

(* Idle connections and free rows rely on nothing. *)
LEMMA RowLocksInit == Init => RowLocksInv
<1> SUFFICES ASSUME Init PROVE RowLocksInv
  OBVIOUS
<1>1. TypeOK /\ StoreInv
  <2>1. StoreInv /\ StoreTypeOK
    BY InitInv DEF Init, StoreInv
  <2>2. overwritten \in BOOLEAN
    BY DEF Init
  <2>3. /\ job \in [Requests -> Jobs \cup {Idle}]
        /\ want \in [Requests -> Lockable \cup {Nothing}]
        /\ todo \in [Requests -> SUBSET Tiers]
        /\ new \in [Requests -> [Tiers -> Int]]
        /\ total \in [Requests -> Int]
        /\ owner \in [Lockable -> Requests \cup {NoOne}]
    BY DEF Init, Zeros
  <2> QED BY <2>1, <2>2, <2>3 DEF TypeOK
<1>2. ASSUME NEW x \in Requests PROVE RequestInv(x)
  <2>1. job[x] = Idle /\ want[x] = Nothing /\ job[x].kind = "none"
    BY <1>2 DEF Init, Idle
  <2>2. \A r \in Lockable : owner[r] # x
    BY RowLocksAssumption DEF Init
  <2>3. FirstLock(x) /\ OneEvent(x)
    BY <2>2, RowNames DEF FirstLock, Held, OneEvent, Owns
  <2> QED BY <2>1, <2>3 DEF RequestInv, Is, CloseKinds, StaffKinds
<1> QED BY <1>1, <1>2 DEF RowLocksInv

(* Every step of the statements is a step of OrderStore, an overwriting or *)
(* changes none of its tables; and the invariant is inductive.             *)
LEMMA RowLocksStep ==
  ASSUME RowLocksInv, [Next]_vars
  PROVE  StoreStep /\ RowLocksInv'
<1>1. TypeOK /\ (\A x \in Requests : RequestInv(x)) /\ (~overwritten => StoreInv)
  BY DEF RowLocksInv
<1>2. StoreStep /\ TypeOK' /\ \A x \in Requests : RequestInv(x)'
  <2>1. CASE Next
    BY <1>1, <2>1, RequestStep DEF Next
  <2>2. CASE UNCHANGED vars
    <3>1. UNCHANGED <<storeVars, overwritten>> /\ UNCHANGED txVars
      BY <2>2 DEF vars
    <3>2. TypeOK'
      BY <1>1, <3>1 DEF TypeOK, StoreTypeOK, storeVars, orderVars, saleVars, txVars
    <3>3. ASSUME NEW x \in Requests PROVE RequestInv(x)'
      <4>1. UNCHANGED <<status, items, is_deleted, quantity_sold, tickets_sold, on_sale>>
        BY <3>1 DEF storeVars, orderVars, saleVars
      <4>2. UNCHANGED <<job, want, todo, new, total, owner>>
        BY <3>1 DEF txVars
      <4>3. RequestInv(x)
        BY <1>1
      <4> QED BY <4>1, <4>2, <4>3
              DEF RequestInv, FirstLock, OneEvent, CreateInv, CloseInv, ConfirmInv, StaffInv,
                  Held, Owns, Is, EventOfJob, Done, CopiesSaved, TiersValid,
                  available_quantity, TicketCount, OrderRows, Locked
    <3> QED BY <3>1, <3>2, <3>3, NoStoreStep
  <2> QED BY <2>1, <2>2
<1>3. ~overwritten' => StoreInv'
  BY <1>1, <1>2, StepPreserves DEF StoreStep
<1> QED BY <1>2, <1>3 DEF RowLocksInv

(* What each running transaction relies on, between its statements and     *)
(* whatever the others lock, write, commit or fail in the meantime.        *)
THEOREM RowLocksInvariant == Spec => []RowLocksInv
<1>1. Init => RowLocksInv
  BY RowLocksInit
<1>2. RowLocksInv /\ [Next]_vars => RowLocksInv'
  BY RowLocksStep
<1> QED BY <1>1, <1>2, PTL DEF Spec

(* Statement by statement, with any number of connections, tiers and       *)
(* orders, every commit has the effect of one transaction of OrderStore,   *)
(* next to staff who save any rows at any time: the one exception is a     *)
(* save of a counter that somebody changed since staff loaded it.          *)
THEOREM StatementsFollowStore == Spec => CommitsFollowStore
<1>1. RowLocksInv /\ [Next]_vars => [StoreOrOverwrite]_storeVars
  BY RowLocksStep DEF StoreStep
<1> QED BY <1>1, RowLocksInvariant, PTL DEF Spec, CommitsFollowStore, StoreOrOverwrite

(* So until staff have saved a copy over a newer counter, no tier is       *)
(* oversold and the counters count the tickets, whatever statements        *)
(* interleave under these locks.                                           *)
THEOREM StatementsNeverOversell ==
  Spec => [](~overwritten => NoOversell /\ CountersExact)
<1>1. RowLocksInv => (~overwritten => NoOversell /\ CountersExact)
  BY DEF RowLocksInv, StoreInv, CountersExact
<1> QED BY <1>1, RowLocksInvariant, PTL

(* Without a form of the admin site among them, transactions that wait for *)
(* each other wait for tiers only: who waits for its order's row has no    *)
(* lock, and a service that holds an event's row waits for nothing.        *)
LEMMA CirclesOverTiers ==
  ASSUME RowLocksInv, NEW C \in SUBSET Requests, Circle(C), ~\E x \in C : Is(x, {"form"})
  PROVE  \A x \in C : want[x] \in {"tier"} \X Tiers
<1> USE DEF RowLocksInv
<1> SUFFICES ASSUME NEW x \in C, want[x] \notin {"tier"} \X Tiers PROVE FALSE
  OBVIOUS
<1>1. \A z \in C : /\ z \in Requests /\ RequestInv(z) /\ want[z] # Nothing
                   /\ \E r \in Lockable : Owns(z, r)
  BY DEF Circle, WaitsFor, TypeOK, Owns
<1>2. \A z \in C : want[z] \notin {"order"} \X Orders /\ job[z] # Idle
  BY <1>1 DEF RequestInv, FirstLock, Held, Owns
<1>3. want[x] \in {"event"} \X Events
  BY <1>1, <1>2, RowKinds DEF TypeOK
<1>4. PICK z \in C : owner[want[x]] = z
  BY DEF Circle, WaitsFor
<1>5. PICK e \in Events : want[x] = EventRow(e)
  BY <1>3, RowNames
<1>6. Is(z, {"create"} \cup CloseKinds) /\ Owns(z, EventOfJob(z))
  BY <1>1, <1>4, <1>5 DEF RequestInv, OneEvent, Owns
<1>7. want[z] = Nothing
  <2>1. CASE Is(z, {"create"})
    BY <1>1, <1>6, <2>1 DEF RequestInv, CreateInv
  <2>2. CASE Is(z, CloseKinds)
    <3>1. CloseInv(z) /\ job[z].order \in Orders
      BY <1>1, <2>2 DEF RequestInv, CloseInv
    <3>2. Owns(z, OrderRow(job[z].order))
      BY <1>1, <1>2, <2>2, <3>1, RowNames DEF RequestInv, Is
    <3> QED BY <1>6, <3>1, <3>2 DEF CloseInv, EventOfJob
  <2> QED BY <1>6, <2>1, <2>2 DEF Is
<1> QED BY <1>1, <1>7

-----------------------------------------------------------------------------
(* Whose tiers a transaction locks.                                        *)

(* The steps of one request leave the locks of the others alone. *)
LEMMA OthersKeepCarts ==
  ASSUME NEW x \in Requests, NEW y \in Requests \ {x}, OthersKept(x), CartLocks(y)
  PROVE  CartLocks(y)'
<1>1. \A t \in Tiers : TierRow(t) \in Lockable
  BY RowNames
<1>2. /\ job'[y] = job[y] /\ want'[y] = want[y] /\ todo'[y] = todo[y]
      /\ \A r \in Lockable : Owns(y, r)' <=> Owns(y, r)
  BY DEF OthersKept
<1>3. Held(y)' = Held(y)
  BY <1>2 DEF Held, Owns
<1> QED BY <1>1, <1>2, <1>3 DEF CartLocks, Is

(* A transaction that ended has no lock and waits for none. *)
LEMMA EndFitsCart ==
  ASSUME TypeOK, NEW x \in Requests, End(x)
  PROVE  CartLocks(x)'
<1>1. job'[x] = Idle /\ want'[x] = Nothing /\ todo'[x] = {} /\ job'[x].kind = "none"
  BY DEF End, TypeOK, Idle
<1>2. \A t \in Tiers : TierRow(t) \in Lockable /\ Nothing # TierRow(t)
  BY RowNames, RowKinds
<1>3. \A t \in Tiers : owner'[TierRow(t)] # x
  BY <1>2, RowLocksAssumption DEF End
<1> QED BY <1>1, <1>2, <1>3 DEF CartLocks, Is, Owns

(* Having locked the row it waited for, a transaction goes on to the next  *)
(* of its tiers, or past the last one.                                     *)
LEMMA NextFitsCart ==
  ASSUME TypeOK, NEW x \in Requests, CartLocks(x), Granted(x), job'[x] = job[x],
         NEW last \in Lockable \cup {Nothing}, \A t \in Tiers : last # TierRow(t),
         Is(x, {"edit"}) => last = Nothing,
         NextTier(x, todo[x], last)
  PROVE  CartLocks(x)'
<1>1. MovedOn(x, todo[x], last)
  BY NextTierMoves DEF TypeOK
<1>2. \A t \in Tiers : TierRow(t) \in Lockable
  BY RowNames
<1>3. \A t \in Tiers : Owns(x, TierRow(t))' <=> Owns(x, TierRow(t)) \/ TierRow(t) = want[x]
  BY <1>2, GrantedLock
<1>4. todo'[x] \subseteq todo[x]
  BY <1>1 DEF MovedOn
<1>5. \A t \in Tiers : want'[x] = TierRow(t) => t \in todo[x]
  <2>1. \A t, u : TierRow(t) = TierRow(u) => t = u
    BY RowsDiffer
  <2> QED BY <1>1, <2>1 DEF MovedOn
<1>6. Is(x, {"edit"}) => want'[x] = Nothing
  BY <1>1 DEF MovedOn, CartLocks
<1> QED BY <1>3, <1>4, <1>5, <1>6 DEF CartLocks, Is

(* A close reads its cart under the lock of its order, its first one. *)
LEMMA LockOrderFitsCart ==
  ASSUME TypeOK, NEW x \in Requests, RequestInv(x), LockOrder(x)
  PROVE  CartLocks(x)'
<1> DEFINE o == job[x].order
           tiers == {t \in Tiers : items[o][t] > 0}
<1>1. CASE End(x)
  BY <1>1, EndFitsCart
<1>2. ASSUME Granted(x), want[x] \in {"order"} \X Orders,
             IF Is(x, CloseKinds)
             THEN /\ job' = [job EXCEPT ![x].cart = items[o]]
                  /\ NextTier(x, tiers, EventOfJob(x))
             ELSE NextTier(x, {}, Nothing) /\ UNCHANGED job
      PROVE  CartLocks(x)'
  <2>1. job[x] # Idle /\ Held(x) = {}
    BY <1>2, RowKinds DEF RequestInv, FirstLock
  <2>2. ~Is(x, {"edit"})
    BY <1>2 DEF RequestInv, StaffInv, Is, StaffKinds
  <2>3. \A t \in Tiers : TierRow(t) \in Lockable /\ TierRow(t) # want[x] /\ TierRow(t) # Nothing
    BY <1>2, RowNames, RowKinds
  <2>4. \A t \in Tiers : ~Owns(x, TierRow(t))'
    BY <1>2, <2>1, <2>3, GrantedLock DEF Held, Owns
  <2>5. CASE Is(x, CloseKinds)
    <3>1. job[x] \in Jobs /\ job'[x] = [job[x] EXCEPT !.cart = items[o]]
      BY <1>2, <2>1, <2>5 DEF TypeOK
    <3>2. job'[x].kind = job[x].kind /\ job'[x].cart = items[o] /\ job'[x] # Idle
      BY <2>5, <3>1 DEF Jobs, Is, Idle, CloseKinds
    <3>3. OrderEvent[o] \in Events
      BY <2>5, StoreAssumption DEF RequestInv, CloseInv
    <3>4. EventOfJob(x) \in Lockable /\ \A t \in Tiers : EventOfJob(x) # TierRow(t)
      BY <3>3, RowNames, RowsDiffer DEF EventOfJob
    <3>5. MovedOn(x, tiers, EventOfJob(x))
      BY <1>2, <2>5, <3>4, NextTierMoves
    <3>6. \A t \in Tiers : want'[x] = TierRow(t) \/ t \in todo'[x] => items[o][t] > 0
      <4>1. \A t, u : TierRow(t) = TierRow(u) => t = u
        BY RowsDiffer
      <4> QED BY <3>4, <3>5, <4>1 DEF MovedOn
    <3> QED BY <2>2, <2>4, <2>5, <3>2, <3>6 DEF CartLocks, Is, CloseKinds
  <2>6. CASE ~Is(x, CloseKinds)
    <3>1. MovedOn(x, {}, Nothing) /\ job'[x] = job[x]
      BY <1>2, <2>3, <2>6, NextTierMoves
    <3>2. want'[x] = Nothing /\ todo'[x] = {}
      BY <3>1 DEF MovedOn
    <3> QED BY <2>2, <2>3, <2>4, <3>1, <3>2 DEF CartLocks, Is
  <2> QED BY <2>5, <2>6
<1> QED BY <1>1, <1>2 DEF LockOrder

(* A transaction begins without locks, and todo was left empty. *)
LEMMA BeginFitsCart ==
  ASSUME TypeOK, NEW x \in Requests, RequestInv(x), CartLocks(x),
         \/ \E o \in Orders : \E q \in Carts : BeginCreate(x, o, q)
         \/ \E o \in Orders : \E kind \in OrderKinds \ {"create"} : BeginOnOrder(x, kind, o)
         \/ \E t \in StaffTiers : BeginEdit(x, t)
         \/ \E e \in Events, tiers \in SUBSET StaffTiers : BeginForm(x, e, tiers)
  PROVE  CartLocks(x)'
<1>1. ASSUME NEW kind \in OrderKinds \cup StaffKinds, NEW o \in Orders \cup {NoOne},
             NEW cart \in [Tiers -> 0..MaxPerItem], Begin(x, kind, o, cart)
      PROVE  /\ job'[x] # Idle /\ job'[x].kind = kind /\ job'[x].cart = cart
             /\ Held(x)' = {} /\ \A t \in Tiers : ~Owns(x, TierRow(t))'
             /\ todo[x] = {}
  <2>1. /\ job'[x] = [kind |-> kind, order |-> o, cart |-> cart] /\ job'[x] # Idle
        /\ \A r \in Lockable : owner'[r] # x
    BY <1>1, BeginStarts
  <2>2. todo[x] = {}
    BY <1>1 DEF Begin, CartLocks
  <2> QED BY <2>1, <2>2, RowNames DEF Held, Owns
<1>2. NoItems \in [Tiers -> 0..MaxPerItem]
  BY StoreAssumption DEF NoItems
<1>3. \A t \in Tiers : TierRow(t) # Nothing
  BY RowNames, RowKinds
<1>4. ASSUME NEW o \in Orders, NEW q \in Carts, BeginCreate(x, o, q) PROVE CartLocks(x)'
  <2> DEFINE tiers == {t \in Tiers : q[t] > 0}
  <2>1. q \in [Tiers -> 0..MaxPerItem] /\ Begin(x, "create", o, q) /\ NextTier(x, tiers, Nothing)
    BY <1>4 DEF BeginCreate, Carts
  <2>2. /\ job'[x] # Idle /\ job'[x].kind = "create" /\ job'[x].cart = q
        /\ \A t \in Tiers : ~Owns(x, TierRow(t))'
    BY <1>1, <2>1 DEF OrderKinds
  <2>3. MovedOn(x, tiers, Nothing)
    BY <1>3, <2>1, NextTierMoves
  <2>4. \A t \in Tiers : want'[x] = TierRow(t) \/ t \in todo'[x] => q[t] > 0
    <3>1. \A t, u : TierRow(t) = TierRow(u) => t = u
      BY RowsDiffer
    <3> QED BY <1>3, <2>3, <3>1 DEF MovedOn
  <2> QED BY <2>2, <2>4 DEF CartLocks, Is
<1>5. ASSUME NEW o \in Orders, NEW kind \in OrderKinds \ {"create"}, BeginOnOrder(x, kind, o)
      PROVE  CartLocks(x)'
  <2>1. /\ job'[x] # Idle /\ job'[x].kind = kind
        /\ \A t \in Tiers : ~Owns(x, TierRow(t))'
        /\ todo[x] = {}
    BY <1>1, <1>2, <1>5 DEF BeginOnOrder
  <2>2. want'[x] = OrderRow(o) /\ todo'[x] = {}
    BY <1>5, <2>1 DEF BeginOnOrder, TypeOK
  <2>3. kind # "edit" /\ \A t \in Tiers : OrderRow(o) # TierRow(t)
    BY RowsDiffer DEF OrderKinds, CloseKinds
  <2> QED BY <2>1, <2>2, <2>3 DEF CartLocks, Is
<1>6. ASSUME NEW t \in StaffTiers, BeginEdit(x, t) PROVE CartLocks(x)'
  <2>1. job'[x] # Idle /\ job'[x].kind = "edit" /\ Held(x)' = {} /\ todo[x] = {}
    BY <1>1, <1>2, <1>6 DEF BeginEdit, StaffKinds
  <2>2. todo'[x] = {}
    BY <1>6, <2>1 DEF BeginEdit
  <2> QED BY <2>1, <2>2 DEF CartLocks, Is, StaffKinds
<1>7. ASSUME NEW e \in Events, NEW tiers \in SUBSET StaffTiers, BeginForm(x, e, tiers)
      PROVE  CartLocks(x)'
  <2>1. job'[x] # Idle /\ job'[x].kind = "form"
    BY <1>1, <1>2, <1>7 DEF BeginForm, StaffKinds
  <2> QED BY <2>1 DEF CartLocks, Is, StaffKinds
<1> QED BY <1>4, <1>5, <1>6, <1>7

(* The other statements lock what the cart or the staff asked for. *)
LEMMA MoveFitsCart ==
  ASSUME TypeOK, NEW x \in Requests, RequestInv(x), CartLocks(x), Move(x) \/ Abort(x)
  PROVE  CartLocks(x)'
<1>1. /\ \A t \in Tiers : Nothing # TierRow(t)
      /\ Is(x, {"create"} \cup CloseKinds) =>
           /\ EventOfJob(x) \in Lockable
           /\ \A t \in Tiers : EventOfJob(x) # TierRow(t)
           /\ ~Is(x, {"edit"})
  <2>1. Is(x, {"create"} \cup CloseKinds) => OrderEvent[job[x].order] \in Events
    BY StoreAssumption DEF RequestInv, CreateInv, CloseInv, Is
  <2>2. Is(x, {"create"} \cup CloseKinds) => ~Is(x, {"edit"})
    BY DEF Is, CloseKinds
  <2> QED BY <2>1, <2>2, RowNames, RowKinds, RowsDiffer DEF EventOfJob
<1>2. CASE End(x)
  BY <1>2, EndFitsCart
<1>3. CASE LockOrder(x)
  BY <1>3, LockOrderFitsCart
<1>4. ASSUME Validate(x), ~End(x) PROVE CartLocks(x)'
  <2>1. /\ Is(x, {"create"})
        /\ want' = [want EXCEPT ![x] = EventOfJob(x)]
        /\ UNCHANGED <<job, todo, owner>>
    BY <1>4 DEF Validate
  <2>2. want'[x] = EventOfJob(x) /\ ~Is(x, {"edit"})
    BY <2>1 DEF TypeOK, Is
  <2>3. \A t \in Tiers : want'[x] # TierRow(t)
    BY <1>1, <2>1, <2>2 DEF Is
  <2> QED BY <2>1, <2>2, <2>3 DEF CartLocks, Is, Owns
<1>5. ASSUME UpdateEvent(x), ~End(x) PROVE CartLocks(x)'
  BY <1>1, <1>5, NextFitsCart DEF UpdateEvent
<1>6. ASSUME SaveEvent(x) PROVE CartLocks(x)'
  BY <1>1, <1>6, NextFitsCart DEF SaveEvent
<1>7. ASSUME NEW t \in Tiers, LockTier(x, t) PROVE CartLocks(x)'
  BY <1>1, <1>7, NextFitsCart DEF LockTier
<1>8. ASSUME NEW t \in Tiers, RestoreTier(x, t), ~End(x) PROVE CartLocks(x)'
  <2>1. Is(x, {"create"} \cup CloseKinds)
    BY <1>8 DEF RestoreTier, Is
  <2> QED BY <1>1, <1>8, <2>1, NextFitsCart DEF RestoreTier
<1>9. ASSUME NEW t \in Tiers, SaveTier(x, t) PROVE CartLocks(x)'
  BY <1>1, <1>9, NextFitsCart DEF SaveTier
<1> QED BY <1>2, <1>3, <1>4, <1>5, <1>6, <1>7, <1>8, <1>9 DEF Move, Commit, Abort

(* Every step of the system keeps to the carts. *)
LEMMA CartsStep ==
  ASSUME RowLocksInv, LocksFitCart, [Next]_vars
  PROVE  LocksFitCart'
<1> USE DEF RowLocksInv, LocksFitCart
<1>1. ASSUME NEW x \in Requests, OthersKept(x), CartLocks(x)' PROVE LocksFitCart'
  BY <1>1, OthersKeepCarts
<1>2. ASSUME NEW x \in Requests,
             \/ \E o \in Orders : \E q \in Carts : BeginCreate(x, o, q)
             \/ \E o \in Orders : \E kind \in OrderKinds \ {"create"} : BeginOnOrder(x, kind, o)
             \/ \E t \in StaffTiers : BeginEdit(x, t)
             \/ \E e \in Events, tiers \in SUBSET StaffTiers : BeginForm(x, e, tiers)
      PROVE  LocksFitCart'
  <2>1. OthersKept(x)
    BY <1>2, BeginCreateKeeps, BeginOnOrderKeeps, BeginStaffKeeps
  <2> QED BY <1>1, <1>2, <2>1, BeginFitsCart
<1>3. ASSUME NEW x \in Requests, Move(x) \/ Abort(x) PROVE LocksFitCart'
  <2>1. Kept(x)
    BY <1>3, LockOrderKeeps, ValidateKeeps, UpdateEventKeeps, SaveEventKeeps, LockTierKeeps,
       RestoreTierKeeps, SaveTierKeeps, CommitKeeps, FailureKeeps DEF Move, Abort
  <2> QED BY <1>1, <1>3, <2>1, MoveFitsCart DEF Kept
<1>4. CASE UNCHANGED vars
  BY <1>4 DEF vars, txVars, CartLocks, Is, Owns, Held
<1> QED BY <1>2, <1>3, <1>4 DEF Next

(* No transaction locks a tier that is not of its cart or of its form. *)
THEOREM LocksFitCarts == Spec => []LocksFitCart
<1>1. Init => LocksFitCart
  <2> SUFFICES ASSUME Init, NEW x \in Requests PROVE CartLocks(x)
    BY DEF LocksFitCart
  <2>1. job[x] = Idle /\ want[x] = Nothing /\ todo[x] = {} /\ job[x].kind = "none"
    BY DEF Init, Idle
  <2>2. \A t \in Tiers : TierRow(t) \in Lockable /\ Nothing # TierRow(t)
    BY RowNames, RowKinds
  <2>3. \A t \in Tiers : ~Owns(x, TierRow(t))
    BY <2>2, RowLocksAssumption DEF Init, Owns
  <2> QED BY <2>1, <2>2, <2>3 DEF CartLocks, Is
<1>2. RowLocksInv /\ LocksFitCart /\ [Next]_vars => LocksFitCart'
  BY CartsStep
<1> QED BY <1>1, <1>2, RowLocksInvariant, PTL DEF Spec

(* So the services deadlock only over tiers, each with a cart of at least  *)
(* two: orders of a single tier and the organizers' edits never do, and    *)
(* the event row and the order row are never part of it.                   *)
THEOREM OnlyTiersDeadlock == Spec => []DeadlocksOnlyOverTiers
<1>1. RowLocksInv /\ LocksFitCart => DeadlocksOnlyOverTiers
  <2> SUFFICES ASSUME RowLocksInv, LocksFitCart, NEW C \in SUBSET Requests, Circle(C),
                      ~\E x \in C : Is(x, {"form"}), NEW x \in C
               PROVE  \E t, u \in Tiers :
                        /\ t # u /\ Owns(x, TierRow(t)) /\ want[x] = TierRow(u)
                        /\ Is(x, {"create"} \cup CloseKinds)
                        /\ job[x].cart[t] > 0 /\ job[x].cart[u] > 0
    BY DEF DeadlocksOnlyOverTiers
  <2>1. \A z \in C : want[z] \in {"tier"} \X Tiers
    BY CirclesOverTiers
  <2>2. PICK y \in C : WaitsFor(y, x)
    BY DEF Circle
  <2>3. PICK t \in Tiers : want[y] = TierRow(t)
    BY <2>1, RowNames
  <2>4. PICK u \in Tiers : want[x] = TierRow(u)
    BY <2>1, RowNames
  <2>5. Owns(x, TierRow(t)) /\ ~Owns(x, TierRow(u))
    BY <2>2, <2>3, <2>4 DEF WaitsFor, Circle, Owns
  <2>6. CartLocks(x)
    BY DEF LocksFitCart
  <2>7. ~Is(x, {"edit"})
    <3>1. TierRow(t) \in Held(x) /\ want[x] # Nothing
      BY <2>4, <2>5, RowNames, RowKinds DEF Held, Owns
    <3> QED BY <2>6, <3>1 DEF CartLocks
  <2>8. ~Is(x, StaffKinds)
    BY <2>7 DEF Is, StaffKinds
  <2>9. /\ Is(x, {"create"} \cup CloseKinds)
        /\ job[x].cart[t] > 0 /\ job[x].cart[u] > 0
    BY <2>4, <2>5, <2>6, <2>8 DEF CartLocks
  <2> QED BY <2>4, <2>5, <2>9
<1> QED BY <1>1, RowLocksInvariant, LocksFitCarts, PTL

-----------------------------------------------------------------------------
(* How far a transaction is from its end.                                  *)

(* The tiers still to do are counted. *)
LEMMA TiersCounted ==
  /\ \A S \in SUBSET Tiers : Cardinality(S) \in Nat
  /\ \A S \in SUBSET Tiers : Cardinality(S) <= Cardinality(Tiers)
  /\ \A S \in SUBSET Tiers : \A t \in S : Cardinality(S \ {t}) = Cardinality(S) - 1
BY StoreAssumption, FS_Subset, FS_CardinalityType, FS_RemoveElement

(* Going on to the next tier leaves one less, or none. *)
LEMMA NextTierCounts ==
  ASSUME TypeOK, NEW x \in Requests, NEW tiers \in SUBSET Tiers,
         NEW last \in Lockable \cup {Nothing}, NextTier(x, tiers, last)
  PROVE  \/ want'[x] = last /\ todo'[x] = {}
         \/ /\ want'[x] \in {"tier"} \X Tiers
            /\ Cardinality(todo'[x]) = Cardinality(tiers) - 1
<1>1. ASSUME NEW t \in tiers,
             want' = [want EXCEPT ![x] = TierRow(t)],
             todo' = [todo EXCEPT ![x] = tiers \ {t}]
      PROVE  /\ want'[x] = TierRow(t) /\ TierRow(t) \in {"tier"} \X Tiers
             /\ todo'[x] = tiers \ {t}
             /\ Cardinality(tiers \ {t}) = Cardinality(tiers) - 1
  BY <1>1, TiersCounted, RowNames DEF TypeOK
<1>2. CASE /\ tiers = {}
           /\ want' = [want EXCEPT ![x] = last]
           /\ todo' = [todo EXCEPT ![x] = {}]
  BY <1>2 DEF TypeOK
<1> QED BY <1>1, <1>2 DEF NextTier

(* What StepsLeft is for each row that a transaction may wait for. *)
LEMMA StepsBounds ==
  ASSUME TypeOK, NEW x \in Requests, job[x] # Idle
  PROVE  /\ StepsLeft(x) \in Nat \ {0}
         /\ want[x] \in {"order"} \X Orders => StepsLeft(x) = Cardinality(Tiers) + 4
         /\ want[x] \in {"tier"} \X Tiers => StepsLeft(x) = Cardinality(todo[x]) + 4
         /\ want[x] \in {"event"} \X Events /\ Is(x, {"form"}) =>
              StepsLeft(x) = Cardinality(todo[x]) + 4
         /\ want[x] \in {"event"} \X Events /\ ~Is(x, {"form"}) => StepsLeft(x) = 2
<1>1. Cardinality(Tiers) \in Nat /\ Cardinality(todo[x]) \in Nat
  BY TiersCounted DEF TypeOK
<1>2. /\ \A r \in {"order"} \X Orders : r # Nothing /\ r \notin {"tier"} \X Tiers
      /\ \A r \in {"event"} \X Events :
           r # Nothing /\ r \notin {"tier"} \X Tiers /\ r \notin {"order"} \X Orders
      /\ \A r \in {"tier"} \X Tiers : r # Nothing /\ r \notin {"order"} \X Orders
  BY RowKinds
<1> QED BY <1>1, <1>2 DEF StepsLeft

(* The end is the last step. *)
LEMMA EndIsLast ==
  ASSUME TypeOK, NEW x \in Requests, job[x] # Idle, job'[x] = Idle
  PROVE  StepsLeft(x)' < StepsLeft(x)
<1>1. StepsLeft(x)' = 0
  BY DEF StepsLeft
<1> QED BY <1>1, StepsBounds

(* A transaction that has locked the row it waited for, and goes on from   *)
(* these tiers to that row.                                                *)
LEMMA GrantedIsNearer ==
  ASSUME TypeOK, NEW x \in Requests, job[x] # Idle, job'[x] # Idle,
         job'[x].kind = job[x].kind,
         NEW tiers \in SUBSET Tiers, NEW last \in {"event"} \X Events \cup {Nothing},
         NextTier(x, tiers, last),
         StepsLeft(x) >= Cardinality(tiers) + 4
           \/ (last = Nothing /\ tiers = {} /\ StepsLeft(x) = 2
                 /\ (Is(x, {"create"}) => Owns(x, EventOfJob(x))')),
         last # Nothing => ~Is(x, {"form"})
  PROVE  StepsLeft(x)' < StepsLeft(x)
<1>1. /\ last \in Lockable \cup {Nothing}
      /\ \A r \in {"event"} \X Events :
           r # Nothing /\ r \notin {"tier"} \X Tiers /\ r \notin {"order"} \X Orders
      /\ \A r \in {"tier"} \X Tiers : r # Nothing /\ r \notin {"order"} \X Orders
      /\ Nothing \notin {"tier"} \X Tiers /\ Nothing \notin {"order"} \X Orders
  BY RowKinds DEF Lockable
<1>2. Cardinality(tiers) \in Nat /\ StepsLeft(x) \in Nat
  BY TiersCounted, StepsBounds
<1>3. CASE want'[x] \in {"tier"} \X Tiers /\ Cardinality(todo'[x]) = Cardinality(tiers) - 1
  <2>1. StepsLeft(x)' = Cardinality(tiers) + 3
    BY <1>1, <1>2, <1>3 DEF StepsLeft
  <2>2. tiers # {}
    BY <1>3, <1>1 DEF NextTier, TypeOK
  <2> QED BY <1>2, <2>1, <2>2
<1>4. CASE want'[x] = last /\ last # Nothing
  <2>1. StepsLeft(x)' = 2
    BY <1>1, <1>4 DEF StepsLeft, Is
  <2> QED BY <1>2, <1>4, <2>1
<1>5. CASE want'[x] = Nothing /\ last = Nothing
  <2>1. StepsLeft(x)' \in {1, 3}
    BY <1>1, <1>5 DEF StepsLeft
  <2>2. Is(x, {"create"}) /\ Owns(x, EventOfJob(x))' => StepsLeft(x)' = 1
    BY <1>1, <1>5 DEF StepsLeft, Is
  <2>3. ~Is(x, {"create"}) => StepsLeft(x)' = 1
    BY <1>1, <1>5 DEF StepsLeft, Is
  <2> QED BY <1>2, <2>1, <2>2, <2>3
<1> QED BY <1>1, <1>3, <1>4, <1>5, NextTierCounts

(* Each statement, and the COMMIT, brings the transaction nearer to its    *)
(* end.                                                                    *)
LEMMA MoveIsNearer ==
  ASSUME TypeOK, NEW x \in Requests, RequestInv(x), Move(x) \/ Abort(x)
  PROVE  job[x] # Idle /\ StepsLeft(x)' < StepsLeft(x)
<1> DEFINE o == job[x].order
<1>1. job[x] # Idle
  BY JobType, RowNames, RowKinds
     DEF Move, LockOrder, Validate, UpdateEvent, SaveEvent, LockTier, RestoreTier, SaveTier,
         Commit, Ready, Abort, RequestInv, Is, CloseKinds, StaffKinds
<1>2. CASE End(x)
  <2>1. job'[x] = Idle
    BY <1>2 DEF End, TypeOK
  <2> QED BY <1>1, <2>1, EndIsLast
<1>3. /\ Is(x, {"create"} \cup CloseKinds) => ~Is(x, {"form"}) /\ o \in Orders
      /\ Is(x, {"create"} \cup CloseKinds) => EventOfJob(x) \in {"event"} \X Events
  <2>1. Is(x, {"create"} \cup CloseKinds) => ~Is(x, {"form"})
    BY DEF Is, CloseKinds
  <2>2. Is(x, {"create"} \cup CloseKinds) => o \in Orders
    BY DEF RequestInv, CreateInv, CloseInv, Is
  <2> QED BY <2>1, <2>2, StoreAssumption, RowNames DEF EventOfJob
<1>4. todo[x] \in SUBSET Tiers /\ Cardinality(todo[x]) \in Nat
  BY TiersCounted DEF TypeOK
<1>5. ASSUME LockOrder(x), ~End(x) PROVE StepsLeft(x)' < StepsLeft(x)
  <2>1. StepsLeft(x) = Cardinality(Tiers) + 4
    BY <1>1, <1>5, StepsBounds DEF LockOrder
  <2>2. ASSUME NEW tiers \in SUBSET Tiers PROVE StepsLeft(x) >= Cardinality(tiers) + 4
    BY <2>1, TiersCounted
  <2>3. CASE Is(x, CloseKinds)
    <3> DEFINE tiers == {t \in Tiers : items[o][t] > 0}
    <3>1. /\ job' = [job EXCEPT ![x].cart = items[o]]
          /\ NextTier(x, tiers, EventOfJob(x))
      BY <1>5, <2>3 DEF LockOrder
    <3>2. job[x] \in Jobs /\ job'[x] = [job[x] EXCEPT !.cart = items[o]]
      BY <1>1, <3>1 DEF TypeOK
    <3>3. job'[x].kind = job[x].kind /\ job'[x] # Idle
      BY <2>3, <3>2 DEF Jobs, Is, Idle, CloseKinds
    <3>4. ~Is(x, {"form"}) /\ EventOfJob(x) \in {"event"} \X Events
      BY <1>3, <2>3 DEF Is
    <3>5. tiers \in SUBSET Tiers /\ StepsLeft(x) >= Cardinality(tiers) + 4
      BY <2>2
    <3> QED BY <1>1, <3>1, <3>3, <3>4, <3>5, GrantedIsNearer
  <2>4. CASE ~Is(x, CloseKinds)
    <3>1. NextTier(x, {}, Nothing) /\ UNCHANGED job
      BY <1>5, <2>4 DEF LockOrder
    <3>2. StepsLeft(x) >= Cardinality({}) + 4
      BY <2>2
    <3> QED BY <1>1, <3>1, <3>2, GrantedIsNearer
  <2> QED BY <2>3, <2>4
<1>6. ASSUME Validate(x), ~End(x) PROVE StepsLeft(x)' < StepsLeft(x)
  <2>1. /\ Is(x, {"create"}) /\ want[x] = Nothing /\ ~Owns(x, EventOfJob(x))
        /\ want'[x] = EventOfJob(x) /\ UNCHANGED job
    BY <1>6 DEF Validate, TypeOK, Owns
  <2>2. EventOfJob(x) \in {"event"} \X Events /\ ~Is(x, {"form"})
    BY <1>3, <2>1 DEF Is
  <2>3. StepsLeft(x) = 3
    BY <1>1, <2>1, RowKinds DEF StepsLeft, Lockable
  <2>4. StepsLeft(x)' = 2
    BY <1>1, <2>1, <2>2, RowKinds DEF StepsLeft, Is
  <2> QED BY <2>3, <2>4
<1>7. ASSUME UpdateEvent(x), ~End(x) PROVE StepsLeft(x)' < StepsLeft(x)
  <2>1. /\ Is(x, {"create"} \cup CloseKinds) /\ want[x] = EventOfJob(x)
        /\ Granted(x) /\ NextTier(x, todo[x], Nothing) /\ UNCHANGED job
    BY <1>7 DEF UpdateEvent, EventOfJob
  <2>2. StepsLeft(x) = 2
    BY <1>1, <1>3, <2>1, StepsBounds
  <2>3. todo[x] = {}
    <3>1. CASE Is(x, {"create"})
      BY <2>1, <3>1 DEF RequestInv, CreateInv
    <3>2. CASE Is(x, CloseKinds)
      <4>1. want[x] # OrderRow(o)
        BY <2>1, RowsDiffer DEF EventOfJob
      <4>2. Owns(x, OrderRow(o)) /\ CloseInv(x)
        BY <3>2, <4>1 DEF RequestInv, Is
      <4> QED BY <2>1, <4>2 DEF CloseInv, EventOfJob
    <3> QED BY <2>1, <3>1, <3>2 DEF Is
  <2>4. Owns(x, EventOfJob(x))'
    BY <2>1, <1>3, GrantedLock DEF EventOfJob, Owns, Lockable
  <2> QED BY <1>1, <1>3, <2>1, <2>2, <2>3, <2>4, GrantedIsNearer
<1>8. ASSUME SaveEvent(x) PROVE StepsLeft(x)' < StepsLeft(x)
  <2>1. StepsLeft(x) = Cardinality(todo[x]) + 4
    BY <1>1, <1>8, StepsBounds DEF SaveEvent
  <2> QED BY <1>1, <1>4, <1>8, <2>1, GrantedIsNearer DEF SaveEvent
<1>9. ASSUME NEW t \in Tiers, want[x] = TierRow(t), UNCHANGED job,
             NEW last \in {"event"} \X Events \cup {Nothing}, NextTier(x, todo[x], last),
             last # Nothing => ~Is(x, {"form"})
      PROVE  StepsLeft(x)' < StepsLeft(x)
  <2>1. StepsLeft(x) = Cardinality(todo[x]) + 4
    BY <1>1, <1>9, RowNames, StepsBounds
  <2> QED BY <1>1, <1>4, <1>9, <2>1, GrantedIsNearer
<1>10. ASSUME NEW t \in Tiers, LockTier(x, t) \/ SaveTier(x, t)
       PROVE  StepsLeft(x)' < StepsLeft(x)
  BY <1>9, <1>10 DEF LockTier, SaveTier
<1>11. ASSUME NEW t \in Tiers, RestoreTier(x, t), ~End(x) PROVE StepsLeft(x)' < StepsLeft(x)
  <2>1. /\ Is(x, CloseKinds) /\ want[x] = TierRow(t) /\ UNCHANGED job
        /\ NextTier(x, todo[x], EventOfJob(x))
    BY <1>11 DEF RestoreTier
  <2>2. EventOfJob(x) \in {"event"} \X Events /\ ~Is(x, {"form"})
    BY <1>3, <2>1 DEF Is
  <2> QED BY <1>9, <2>1, <2>2
<1> QED BY <1>1, <1>2, <1>5, <1>6, <1>7, <1>8, <1>10, <1>11 DEF Move, Commit, Abort

(* A transaction only goes forward: each of its statements brings it       *)
(* nearer to its end, and nothing that others do costs it one or changes   *)
(* what it has read or locked.                                             *)
THEOREM TransactionsGoForward == Spec => StatementsRunOut
<1> DEFINE Forward == \A x \in Requests : job[x] # Idle =>
             \/ StepsLeft(x)' < StepsLeft(x)
             \/ UNCHANGED <<job[x], want[x], todo[x], new[x], total[x], Held(x)>>
<1>1. ASSUME NEW x \in Requests, OthersKept(x),
             job[x] = Idle \/ StepsLeft(x)' < StepsLeft(x)
      PROVE  Forward
  <2>1. ASSUME NEW y \in Requests \ {x}
        PROVE  UNCHANGED <<job[y], want[y], todo[y], new[y], total[y], Held(y)>>
    <3>1. Held(y)' = Held(y)
      BY <1>1 DEF Held, Owns, OthersKept
    <3> QED BY <1>1, <3>1 DEF OthersKept
  <2> QED BY <1>1, <2>1
<1>2. RowLocksInv /\ [Next]_vars => [Forward]_vars
  <2> SUFFICES ASSUME RowLocksInv, [Next]_vars PROVE [Forward]_vars
    OBVIOUS
  <2> USE DEF RowLocksInv
  <2>1. ASSUME NEW x \in Requests,
               \/ \E o \in Orders : \E q \in Carts : BeginCreate(x, o, q)
               \/ \E o \in Orders : \E kind \in OrderKinds \ {"create"} : BeginOnOrder(x, kind, o)
               \/ \E t \in StaffTiers : BeginEdit(x, t)
               \/ \E e \in Events, tiers \in SUBSET StaffTiers : BeginForm(x, e, tiers)
        PROVE  Forward
    <3>1. OthersKept(x)
      BY <2>1, BeginCreateKeeps, BeginOnOrderKeeps, BeginStaffKeeps
    <3>2. job[x] = Idle
      BY <2>1 DEF BeginCreate, BeginOnOrder, BeginEdit, BeginForm, Begin
    <3> QED BY <1>1, <3>1, <3>2
  <2>2. ASSUME NEW x \in Requests, Move(x) \/ Abort(x) PROVE Forward
    <3>1. OthersKept(x)
      BY <2>2, LockOrderKeeps, ValidateKeeps, UpdateEventKeeps, SaveEventKeeps, LockTierKeeps,
         RestoreTierKeeps, SaveTierKeeps, CommitKeeps, FailureKeeps DEF Move, Abort, Kept
    <3> QED BY <1>1, <2>2, <3>1, MoveIsNearer
  <2> QED BY <2>1, <2>2 DEF Next
<1> QED BY <1>2, RowLocksInvariant, PTL DEF Spec, StatementsRunOut

-----------------------------------------------------------------------------
(* The requests of organizers and admins.                                  *)

(* What a request is doing says what its copy is of. *)
LEMMA CopyKinds ==
  ASSUME StaffTypeOK, NEW s \in Staff
  PROVE  /\ Doing(s, {"save tier"}) => staff[s] \in TierCopies
         /\ Doing(s, {"edit event"}) \/ Doing(s, {"event form"})
              \/ Doing(s, {"publish"}) \/ Doing(s, {"cancel"}) => staff[s] \in EventCopies
         /\ Doing(s, {"order form"}) => staff[s] \in OrderCopies
         /\ Doing(s, {"ticket form"}) => staff[s] \in TicketCopies
         /\ NoEdit.doing = "nothing"
<1>1. NoEdit.doing = "nothing"
  BY DEF NoEdit
<1>2. \A copy \in TierCopies : copy.doing = "save tier"
  BY DEF TierCopies
<1>3. \A copy \in EventCopies : copy.doing \in {"edit event", "event form", "publish", "cancel"}
  BY DEF EventCopies, EventEdits
<1>4. \A copy \in OrderCopies : copy.doing = "order form"
  BY DEF OrderCopies
<1>5. \A copy \in TicketCopies : copy.doing = "ticket form"
  BY DEF TicketCopies
<1>6. staff[s] \in {NoEdit} \cup TierCopies \cup EventCopies \cup OrderCopies \cup TicketCopies
  BY DEF StaffTypeOK, StaffCopies
<1> QED BY <1>1, <1>2, <1>3, <1>4, <1>5, <1>6 DEF Doing

(* A new copy has its row's type, and a status that was checked fits. *)
LEMMA CopyTypes ==
  ASSUME StaffTypeOK
  PROVE  /\ \A t \in Tiers :
              [doing |-> "save tier", tier |-> t, sold |-> quantity_sold[t]] \in TierCopies
         /\ \A e \in Events, doing \in EventEdits : EventCopy(e, doing) \in EventCopies
         /\ \A o \in Orders : status[o] # "none" =>
              [doing |-> "order form", order |-> o, status |-> status[o],
               expires_at |-> expires_at[o], intent |-> intent[o]] \in OrderCopies
         /\ \A r \in Rows : ticket[r] # "none" =>
              [doing |-> "ticket form", row |-> r, status |-> ticket[r]] \in TicketCopies
<1>1. StoreTypeOK /\ event_status \in [Events -> EventStatuses]
      /\ total_capacity \in [Events -> Capacities]
  BY DEF StaffTypeOK
<1> QED BY <1>1 DEF StoreTypeOK, TierCopies, EventCopies, OrderCopies, TicketCopies, EventCopy

(* What the types and the checks of the copies say between two steps. *)
CopiesGood == StaffTypeOK /\ \A s \in Staff : CopyChecked(s)

(* While no copy was saved over a newer row, a step is one of OrderStore's. *)
Unclobbered == ~clobbered' => ~clobbered /\ [StoreNext]_storeVars

(* Taking a copy changes no row. *)
LEMMA LoadKeeps ==
  ASSUME CopiesGood, NEW s \in Staff, NEW copy \in StaffCopies, Load(s, copy),
         copy.doing = "publish" => "PUBLISHED" \in EventTransitions[copy.status],
         copy.doing = "cancel" => "CANCELLED" \in EventTransitions[copy.status]
  PROVE  CopiesGood' /\ Unclobbered
<1>1. /\ staff' = [staff EXCEPT ![s] = copy]
      /\ UNCHANGED <<storeVars, event_status, total_capacity, clobbered>>
  BY DEF Load
<1>2. StoreTypeOK'
  BY <1>1, StoreKeepsTypes DEF CopiesGood, StaffTypeOK
<1>3. StaffTypeOK'
  BY <1>1, <1>2 DEF CopiesGood, StaffTypeOK
<1>4. \A u \in Staff : CopyChecked(u)'
  BY <1>1 DEF CopiesGood, StaffTypeOK, CopyChecked, Doing
<1> QED BY <1>1, <1>3, <1>4 DEF CopiesGood, Unclobbered

(* Whoever has saved has nothing to save, and what the save overtook is    *)
(* remembered.                                                             *)
LEMMA SavedKeeps ==
  ASSUME CopiesGood, NEW s \in Staff, NEW doings, Saved(s, doings),
         StoreTypeOK', event_status' \in [Events -> EventStatuses],
         total_capacity' \in [Events -> Capacities],
         ~Overtaken(s) => [StoreNext]_storeVars
  PROVE  CopiesGood' /\ Unclobbered
<1>1. staff' = [staff EXCEPT ![s] = NoEdit] /\ clobbered' = (clobbered \/ Overtaken(s))
  BY DEF Saved
<1>2. clobbered \in BOOLEAN /\ Overtaken(s) \in BOOLEAN
  BY DEF CopiesGood, StaffTypeOK, Overtaken, Doing
<1>3. clobbered' \in BOOLEAN /\ (~clobbered' => ~clobbered /\ ~Overtaken(s))
  BY <1>1, <1>2
<1>4. staff' \in [Staff -> StaffCopies]
  BY <1>1 DEF CopiesGood, StaffTypeOK, StaffCopies
<1>5. \A u \in Staff : CopyChecked(u)'
  BY <1>1, CopyKinds DEF CopiesGood, StaffTypeOK, CopyChecked, Doing, NoEdit
<1> QED BY <1>3, <1>4, <1>5 DEF CopiesGood, StaffTypeOK, Unclobbered

(* A tier's whole row: with the counter as it is, it is only put on or off *)
(* sale.                                                                   *)
LEMMA SaveTierCopyKeeps ==
  ASSUME CopiesGood, NEW s \in Staff, SaveTierCopy(s)
  PROVE  CopiesGood' /\ Unclobbered
<1> DEFINE t == staff[s].tier
<1>1. StaffTypeOK /\ Doing(s, {"save tier"}) /\ Saved(s, {"save tier"})
  BY DEF CopiesGood, SaveTierCopy, Saved
<1>2. t \in Tiers /\ staff[s].sold \in Nat
  BY <1>1, CopyKinds DEF TierCopies
<1>3. /\ quantity_sold' = [quantity_sold EXCEPT ![t] = staff[s].sold]
      /\ on_sale' \in {on_sale \cup {t}, on_sale \ {t}}
      /\ UNCHANGED <<orderVars, ticket, tickets_sold, now, event_status, total_capacity>>
  BY DEF SaveTierCopy
<1>4. StoreTypeOK'
  BY <1>1, <1>2, <1>3 DEF StaffTypeOK, StoreTypeOK, orderVars
<1>5. ~Overtaken(s) => [StoreNext]_storeVars
  <2> SUFFICES ASSUME ~Overtaken(s) PROVE [StoreNext]_storeVars
    OBVIOUS
  <2>1. staff[s].sold = quantity_sold[t]
    BY <1>1 DEF Overtaken
  <2>2. UNCHANGED quantity_sold
    BY <1>1, <1>2, <1>3, <2>1 DEF StaffTypeOK, StoreTypeOK
  <2>3. UNCHANGED on_sale \/ ToggleSale(t)
    BY <1>3, <2>2 DEF ToggleSale, saleVars
  <2> QED BY <1>2, <1>3, <2>2, <2>3 DEF StoreNext, storeVars, saleVars
<1> QED BY <1>1, <1>3, <1>4, <1>5, SavedKeeps DEF StaffTypeOK

(* An event's whole row: its counter is the only column of the tables. *)
LEMMA SaveEventRowKeeps ==
  ASSUME CopiesGood, NEW s \in Staff, NEW doings \in {{"edit event"}, {"event form"}},
         Saved(s, doings),
         NEW chosen \in EventStatuses, NEW c \in Capacities, SaveEventRow(s, chosen, c)
  PROVE  CopiesGood' /\ Unclobbered
<1> DEFINE e == staff[s].event
<1>1. StaffTypeOK /\ (Doing(s, {"edit event"}) \/ Doing(s, {"event form"}))
  BY DEF CopiesGood, Saved
<1>2. e \in Events /\ staff[s].sold \in Nat
  BY <1>1, CopyKinds DEF EventCopies
<1>3. /\ tickets_sold' = [tickets_sold EXCEPT ![e] = staff[s].sold]
      /\ event_status' = [event_status EXCEPT ![e] = chosen]
      /\ total_capacity' = [total_capacity EXCEPT ![e] = c]
      /\ UNCHANGED <<orderVars, ticket, quantity_sold, on_sale, now>>
  BY DEF SaveEventRow
<1>4. /\ event_status' \in [Events -> EventStatuses]
      /\ total_capacity' \in [Events -> Capacities]
  BY <1>1, <1>3 DEF StaffTypeOK
<1>5. StoreTypeOK'
  BY <1>1, <1>2, <1>3 DEF StaffTypeOK, StoreTypeOK, orderVars
<1>6. ~Overtaken(s) => [StoreNext]_storeVars
  <2> SUFFICES ASSUME ~Overtaken(s) PROVE UNCHANGED storeVars
    OBVIOUS
  <2>1. staff[s].sold = tickets_sold[e]
    BY <1>1 DEF Overtaken, Doing
  <2>2. UNCHANGED tickets_sold
    BY <1>1, <1>2, <1>3, <2>1 DEF StaffTypeOK, StoreTypeOK
  <2> QED BY <1>3, <2>2 DEF storeVars, saleVars
<1> QED BY <1>4, <1>5, <1>6, SavedKeeps

(* publish_event and cancel_event write nothing else than the status. *)
LEMMA SaveStatusKeeps ==
  ASSUME CopiesGood, NEW s \in Staff, NEW doing, NEW new_status \in EventStatuses,
         SaveStatus(s, doing, new_status)
  PROVE  CopiesGood' /\ Unclobbered
<1>1. Saved(s, {doing}) /\ StaffTypeOK
  BY DEF SaveStatus, CopiesGood
<1>2. /\ event_status' \in [Events -> EventStatuses]
      /\ total_capacity' \in [Events -> Capacities]
      /\ UNCHANGED storeVars
  BY <1>1 DEF SaveStatus, StaffTypeOK
<1>3. StoreTypeOK'
  BY <1>1, <1>2, StoreKeepsTypes DEF StaffTypeOK
<1> QED BY <1>1, <1>2, <1>3, SavedKeeps

(* The form of an order: with the row as it is, it is deleted or not. *)
LEMMA SaveOrderFormKeeps ==
  ASSUME CopiesGood, NEW s \in Staff, SaveOrderForm(s)
  PROVE  CopiesGood' /\ Unclobbered
<1> DEFINE copy == staff[s]
           o == staff[s].order
<1>1. StaffTypeOK /\ Doing(s, {"order form"}) /\ Saved(s, {"order form"})
  BY DEF CopiesGood, SaveOrderForm, Saved
<1>2. /\ o \in Orders /\ copy.status \in Statuses \ {"none"}
      /\ copy.expires_at \in Nat \cup {NoDeadline} /\ copy.intent \in BOOLEAN
  BY <1>1, CopyKinds DEF OrderCopies
<1>3. /\ status' = [status EXCEPT ![o] = copy.status]
      /\ expires_at' = [expires_at EXCEPT ![o] = copy.expires_at]
      /\ intent' = [intent EXCEPT ![o] = copy.intent]
      /\ UNCHANGED <<items, saleVars, on_sale, now, event_status, total_capacity>>
  BY DEF SaveOrderForm
<1>4. PICK deleted \in BOOLEAN : is_deleted' = [is_deleted EXCEPT ![o] = deleted]
  BY DEF SaveOrderForm
<1>5. StoreTypeOK'
  <2>1. status' \in [Orders -> Statuses] /\ expires_at' \in [Orders -> Nat \cup {NoDeadline}]
    BY <1>1, <1>2, <1>3 DEF StaffTypeOK, StoreTypeOK
  <2>2. intent' \in [Orders -> BOOLEAN]
    BY <1>1, <1>2, <1>3 DEF StaffTypeOK, StoreTypeOK
  <2>3. is_deleted' \in [Orders -> BOOLEAN]
    BY <1>1, <1>4 DEF StaffTypeOK, StoreTypeOK
  <2> QED BY <1>1, <1>3, <2>1, <2>2, <2>3 DEF StaffTypeOK, StoreTypeOK, saleVars
<1>6. ~Overtaken(s) => [StoreNext]_storeVars
  <2> SUFFICES ASSUME ~Overtaken(s) PROVE [StoreNext]_storeVars
    OBVIOUS
  <2>1. /\ ~is_deleted[o] /\ copy.status = status[o]
        /\ copy.expires_at = expires_at[o] /\ copy.intent = intent[o]
    BY <1>1 DEF Overtaken
  <2>2. UNCHANGED <<status, expires_at>>
    BY <1>1, <1>3, <2>1 DEF StaffTypeOK, StoreTypeOK
  <2>3. UNCHANGED intent
    BY <1>1, <1>3, <2>1 DEF StaffTypeOK, StoreTypeOK
  <2>4. CASE deleted = TRUE
    <3>1. SoftDelete(o)
      BY <1>2, <1>3, <1>4, <2>1, <2>2, <2>3, <2>4 DEF SoftDelete
    <3> QED BY <1>2, <3>1 DEF StoreNext
  <2>5. CASE deleted = FALSE
    <3>1. is_deleted[o] = FALSE
      BY <1>1, <1>2, <2>1 DEF StaffTypeOK, StoreTypeOK
    <3>2. UNCHANGED is_deleted
      BY <1>1, <1>4, <2>5, <3>1 DEF StaffTypeOK, StoreTypeOK
    <3> QED BY <1>3, <2>2, <2>3, <3>2 DEF storeVars, orderVars
  <2> QED BY <2>4, <2>5
<1> QED BY <1>1, <1>3, <1>5, <1>6, SavedKeeps DEF StaffTypeOK

(* The form of a ticket, likewise. *)
LEMMA SaveTicketFormKeeps ==
  ASSUME CopiesGood, NEW s \in Staff, SaveTicketForm(s)
  PROVE  CopiesGood' /\ Unclobbered
<1> DEFINE r == staff[s].row
<1>1. StaffTypeOK /\ Doing(s, {"ticket form"}) /\ Saved(s, {"ticket form"})
  BY DEF CopiesGood, SaveTicketForm, Saved
<1>2. r \in Rows /\ staff[s].status \in {"VALID", "CANCELLED"}
  BY <1>1, CopyKinds DEF TicketCopies
<1>3. /\ ticket' = [ticket EXCEPT ![r] = staff[s].status]
      /\ UNCHANGED <<orderVars, quantity_sold, tickets_sold, on_sale, now,
                     event_status, total_capacity>>
  BY DEF SaveTicketForm
<1>4. StoreTypeOK'
  BY <1>1, <1>2, <1>3 DEF StaffTypeOK, StoreTypeOK, orderVars
<1>5. ~Overtaken(s) => UNCHANGED storeVars
  <2> SUFFICES ASSUME ~Overtaken(s) PROVE UNCHANGED storeVars
    OBVIOUS
  <2>1. staff[s].status = ticket[r]
    BY <1>1 DEF Overtaken
  <2>2. UNCHANGED ticket
    BY <1>1, <1>3, <2>1 DEF StaffTypeOK, StoreTypeOK
  <2> QED BY <1>3, <2>2 DEF storeVars, saleVars
<1> QED BY <1>1, <1>3, <1>4, <1>5, SavedKeeps DEF StaffTypeOK

(* One step of the staff's, or of an order's. *)
LEMMA StaffStep ==
  ASSUME CopiesGood, [StaffNext]_staffVars
  PROVE  CopiesGood' /\ Unclobbered
<1>1. StaffTypeOK
  BY DEF CopiesGood
<1>2. ASSUME NEW s \in Staff, NEW t \in Tiers, LoadTier(s, t)
      PROVE  CopiesGood' /\ Unclobbered
  BY <1>1, <1>2, CopyTypes, LoadKeeps DEF LoadTier, StaffCopies
<1>3. ASSUME NEW s \in Staff, NEW e \in Events,
             LoadEvent(s, e) \/ BeginPublish(s, e) \/ BeginCancel(s, e)
      PROVE  CopiesGood' /\ Unclobbered
  <2>1. PICK doing \in EventEdits :
          /\ Load(s, EventCopy(e, doing))
          /\ doing = "publish" => "PUBLISHED" \in EventTransitions[event_status[e]]
          /\ doing = "cancel" => "CANCELLED" \in EventTransitions[event_status[e]]
    BY <1>3 DEF LoadEvent, BeginPublish, BeginCancel, EventEdits
  <2>2. EventCopy(e, doing) \in StaffCopies
    BY <1>1, CopyTypes DEF StaffCopies
  <2>3. EventCopy(e, doing).doing = doing /\ EventCopy(e, doing).status = event_status[e]
    BY DEF EventCopy
  <2> HIDE DEF CopiesGood
  <2> QED BY <2>1, <2>2, <2>3, LoadKeeps
<1>4. ASSUME NEW s \in Staff, NEW o \in Orders, LoadOrder(s, o)
      PROVE  CopiesGood' /\ Unclobbered
  BY <1>1, <1>4, CopyTypes, LoadKeeps DEF LoadOrder, StaffCopies
<1>5. ASSUME NEW s \in Staff, NEW r \in Rows, LoadTicket(s, r)
      PROVE  CopiesGood' /\ Unclobbered
  BY <1>1, <1>5, CopyTypes, LoadKeeps DEF LoadTicket, StaffCopies
<1>6. ASSUME NEW s \in Staff, SaveEventCopy(s) PROVE CopiesGood' /\ Unclobbered
  <2>1. staff[s] \in EventCopies
    BY <1>1, <1>6, CopyKinds DEF SaveEventCopy, Saved
  <2>2. staff[s].status \in EventStatuses /\ staff[s].capacity \in Capacities
    BY <2>1 DEF EventCopies
  <2>3. PICK c \in Capacities : SaveEventRow(s, staff[s].status, c)
    BY <1>6, <2>2 DEF SaveEventCopy
  <2> QED BY <1>6, <2>2, <2>3, SaveEventRowKeeps DEF SaveEventCopy
<1>7. ASSUME NEW s \in Staff, SaveEventForm(s) PROVE CopiesGood' /\ Unclobbered
  BY <1>7, SaveEventRowKeeps DEF SaveEventForm
<1>8. "PUBLISHED" \in EventStatuses /\ "CANCELLED" \in EventStatuses
  BY DEF EventStatuses
<1>9. ASSUME NEW o \in Orders, PlaceOrder(o) \/ SettleOrder(o)
      PROVE  CopiesGood' /\ Unclobbered
  <2>1. UNCHANGED eventVars
    BY <1>9 DEF PlaceOrder, SettleOrder
  <2>2. StoreNext
    BY <1>9 DEF PlaceOrder, SettleOrder, StoreNext
  <2>3. StoreTypeOK'
    BY <1>1, <2>2, StoreKeepsTypes DEF StaffTypeOK
  <2>4. CopiesGood'
    BY <2>1, <2>3 DEF CopiesGood, StaffTypeOK, eventVars, CopyChecked, Doing
  <2> QED BY <2>1, <2>2, <2>4 DEF Unclobbered, eventVars
<1>10. CASE UNCHANGED staffVars
  <2>1. UNCHANGED <<storeVars, eventVars>>
    BY <1>10 DEF staffVars
  <2>2. StoreTypeOK'
    BY <1>1, <2>1, StoreKeepsTypes DEF StaffTypeOK
  <2>3. CopiesGood'
    BY <2>1, <2>2 DEF CopiesGood, StaffTypeOK, eventVars, CopyChecked, Doing
  <2> QED BY <2>1, <2>3 DEF Unclobbered, eventVars
<1> QED BY <1>2, <1>3, <1>4, <1>5, <1>6, <1>7, <1>8, <1>9, <1>10, SaveTierCopyKeeps,
           SaveStatusKeeps, SaveOrderFormKeeps, SaveTicketFormKeeps DEF StaffNext

(* However many organizers and admins work at once, and whatever commits   *)
(* between their loads and saves, the tables are as the orders leave them  *)
(* until one saves over a row that an order has changed.                   *)
THEOREM TablesHold == StaffSpec => []TablesHoldUntilClobbered
<1>1. StaffInit => TablesHoldUntilClobbered
  <2> SUFFICES ASSUME StaffInit PROVE TablesHoldUntilClobbered
    OBVIOUS
  <2>1. StoreInv /\ StoreTypeOK
    BY InitInv DEF StaffInit, StoreInv
  <2>2. StaffTypeOK
    BY <2>1 DEF StaffInit, StaffTypeOK, StaffCopies, EventStatuses
  <2>3. \A s \in Staff : CopyChecked(s)
    BY DEF StaffInit, CopyChecked, Doing, NoEdit
  <2> QED BY <2>1, <2>2, <2>3 DEF TablesHoldUntilClobbered
<1>2. TablesHoldUntilClobbered /\ [StaffNext]_staffVars => TablesHoldUntilClobbered'
  BY StaffStep, StepPreserves DEF TablesHoldUntilClobbered, CopiesGood, Unclobbered
<1> QED BY <1>1, <1>2, PTL DEF StaffSpec

(* So it takes such a save to oversell a tier or to leave a counter wrong, *)
(* as the run staff_oversell shows it can.                                 *)
THEOREM StaffNeverOversell ==
  StaffSpec => [](~clobbered => NoOversell /\ CountersExact)
<1>1. TablesHoldUntilClobbered => (~clobbered => NoOversell /\ CountersExact)
  BY DEF TablesHoldUntilClobbered, StoreInv, CountersExact
<1> QED BY <1>1, TablesHold, PTL

-----------------------------------------------------------------------------
(* The status of events.                                                   *)

(* Only a save of an event's row or status writes a status, and only of    *)
(* its own event.                                                          *)
LEMMA StatusStep ==
  ASSUME CopiesGood, [StaffNext]_staffVars, NEW e \in Events,
         event_status'[e] # event_status[e]
  PROVE  \/ event_status'[e] \in EventTransitions[event_status[e]]
         \/ \E s \in Staff :
              /\ Doing(s, EventEdits) /\ staff[s].event = e /\ staff'[s] = NoEdit
              /\ Doing(s, {"event form"}) \/ StatusOvertaken(s)
<1> DEFINE Way == \/ event_status'[e] \in EventTransitions[event_status[e]]
                  \/ \E s \in Staff :
                       /\ Doing(s, EventEdits) /\ staff[s].event = e /\ staff'[s] = NoEdit
                       /\ Doing(s, {"event form"}) \/ StatusOvertaken(s)
<1>1. StaffTypeOK
  BY DEF CopiesGood
<1>2. ASSUME NEW s \in Staff, NEW doing \in EventEdits, Saved(s, {doing})
      PROVE  Doing(s, EventEdits) /\ staff'[s] = NoEdit /\ staff[s].doing = doing
  BY <1>1, <1>2 DEF Saved, Doing, StaffTypeOK
<1>3. ASSUME NEW s \in Staff, NEW chosen, event_status' = [event_status EXCEPT ![staff[s].event] = chosen]
      PROVE  staff[s].event = e /\ event_status'[e] = chosen
  BY <1>1, <1>3 DEF StaffTypeOK
<1>4. ASSUME NEW s \in Staff, SaveEventCopy(s) PROVE Way
  <2>1. event_status' = [event_status EXCEPT ![staff[s].event] = staff[s].status]
    BY <1>4 DEF SaveEventCopy, SaveEventRow
  <2>2. staff[s].event = e /\ StatusOvertaken(s)
    BY <1>3, <2>1 DEF StatusOvertaken
  <2> QED BY <1>2, <1>4, <2>2 DEF SaveEventCopy, EventEdits
<1>5. ASSUME NEW s \in Staff, SaveEventForm(s) PROVE Way
  <2>1. staff[s].event = e
    BY <1>3, <1>5 DEF SaveEventForm, SaveEventRow
  <2> QED BY <1>2, <1>5, <2>1 DEF SaveEventForm, EventEdits, Doing
<1>6. ASSUME NEW s \in Staff, NEW doing \in {"publish", "cancel"}, NEW new_status,
             doing = "publish" => new_status = "PUBLISHED",
             doing = "cancel" => new_status = "CANCELLED",
             SaveStatus(s, doing, new_status)
      PROVE  Way
  <2>1. Saved(s, {doing}) /\ staff[s].event = e /\ event_status'[e] = new_status
    BY <1>3, <1>6 DEF SaveStatus
  <2>2. Doing(s, EventEdits) /\ staff'[s] = NoEdit /\ staff[s].doing = doing
    BY <1>2, <2>1 DEF EventEdits
  <2>3. new_status \in EventTransitions[staff[s].status]
    BY <1>6, <2>2 DEF CopiesGood, CopyChecked, Doing
  <2>4. CASE staff[s].status = event_status[e]
    BY <2>1, <2>3, <2>4
  <2>5. CASE staff[s].status # event_status[e]
    BY <2>1, <2>2, <2>5 DEF StatusOvertaken
  <2> QED BY <2>4, <2>5
<1>7. UNCHANGED event_status => Way
  OBVIOUS
<1> HIDE DEF Way
<1>8. ASSUME NEW o \in Orders, PlaceOrder(o) \/ SettleOrder(o) PROVE Way
  BY <1>7, <1>8 DEF PlaceOrder, SettleOrder, eventVars
<1>9. UNCHANGED staffVars => Way
  BY <1>7 DEF staffVars, eventVars
<1>10. ASSUME NEW s \in Staff,
              \/ \E t \in Tiers : LoadTier(s, t)
              \/ \E d \in Events : LoadEvent(s, d) \/ BeginPublish(s, d) \/ BeginCancel(s, d)
              \/ \E o \in Orders : LoadOrder(s, o)
              \/ \E r \in Rows : LoadTicket(s, r)
              \/ SaveTierCopy(s) \/ SaveOrderForm(s) \/ SaveTicketForm(s)
       PROVE  Way
  BY <1>7, <1>10 DEF LoadTier, LoadEvent, BeginPublish, BeginCancel, LoadOrder, LoadTicket, Load,
                     SaveTierCopy, SaveOrderForm, SaveTicketForm
<1>11. ASSUME NEW s \in Staff,
              SaveStatus(s, "publish", "PUBLISHED") \/ SaveStatus(s, "cancel", "CANCELLED")
       PROVE  Way
  <2>1. "publish" # "cancel"
    OBVIOUS
  <2>2. CASE SaveStatus(s, "publish", "PUBLISHED")
    BY <1>6, <2>1, <2>2
  <2>3. CASE SaveStatus(s, "cancel", "CANCELLED")
    BY <1>6, <2>1, <2>3
  <2> QED BY <1>11, <2>2, <2>3
<1>12. Way
  <2>1. CASE \E o \in Orders : PlaceOrder(o) \/ SettleOrder(o)
    BY <1>8, <2>1
  <2>2. ASSUME NEW s \in Staff,
               \/ \E t \in Tiers : LoadTier(s, t)
               \/ SaveTierCopy(s)
               \/ \E d \in Events : LoadEvent(s, d) \/ BeginPublish(s, d) \/ BeginCancel(s, d)
               \/ SaveEventCopy(s) \/ SaveEventForm(s)
               \/ SaveStatus(s, "publish", "PUBLISHED")
               \/ SaveStatus(s, "cancel", "CANCELLED")
               \/ \E o \in Orders : LoadOrder(s, o)
               \/ SaveOrderForm(s)
               \/ \E r \in Rows : LoadTicket(s, r)
               \/ SaveTicketForm(s)
        PROVE  Way
    BY <1>4, <1>5, <1>10, <1>11, <2>2
  <2>3. CASE StaffNext
    BY <2>1, <2>2, <2>3, Zenon DEF StaffNext
  <2>4. StaffNext \/ UNCHANGED staffVars
    OBVIOUS
  <2>5. CASE UNCHANGED staffVars
    BY <1>9, <2>5
  <2> QED BY <2>3, <2>4, <2>5
<1> QED BY <1>12 DEF Way

(* With any number of organizers and admins at once, an event leaves the   *)
(* way of EVENT_STATUS_TRANSITIONS only in the two cases.                  *)
THEOREM EventsMoveForward == StaffSpec => EventMovesForward
<1>1. TablesHoldUntilClobbered /\ [StaffNext]_staffVars =>
        \A e \in Events : event_status'[e] # event_status[e] =>
          \/ event_status'[e] \in EventTransitions[event_status[e]]
          \/ \E s \in Staff :
               /\ Doing(s, EventEdits) /\ staff[s].event = e /\ staff'[s] = NoEdit
               /\ Doing(s, {"event form"}) \/ StatusOvertaken(s)
  BY StatusStep DEF TablesHoldUntilClobbered, CopiesGood
<1> QED BY <1>1, TablesHold, PTL DEF StaffSpec, EventMovesForward
===============================================================================
