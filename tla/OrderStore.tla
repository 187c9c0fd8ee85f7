------------------------------ MODULE OrderStore ------------------------------
(***************************************************************************)
(* The order tables of EventHive and the database transactions of          *)
(* apps/orders/services.py that write them.  Each action is one            *)
(* transaction.atomic() block (or one autocommitted UPDATE): the row locks *)
(* it takes make it atomic.  What a request does before and after its      *)
(* transaction, on data it read without a lock, is modelled in Checkout    *)
(* and Settlement, which are built from these actions.                     *)
(*                                                                         *)
(* An order is named by the checkout request that may create it, so its    *)
(* event is known from the start.  Prices, currency and references are     *)
(* left out.                                                               *)
(***************************************************************************)
EXTENDS Integers, FiniteSets

CONSTANTS
  Orders,       \* the checkout requests, and the orders they create
  Tiers,        \* TicketTier rows
  Events,       \* Event rows
  EventOf,      \* [Tiers -> Events]: tier.event
  OrderEvent,   \* [Orders -> Events]: the event a request names
  Quantity,     \* [Tiers -> Nat]: tier.quantity
  MaxPerItem,   \* most tickets of a tier per order (20 in the serializer)
  HoldTime,     \* ORDER_EXPIRY_MINUTES, in clock ticks
  MaxTime       \* bound on the clock

ASSUME StoreAssumption ==
  /\ IsFiniteSet(Orders) /\ IsFiniteSet(Tiers)
  /\ EventOf \in [Tiers -> Events]
  /\ OrderEvent \in [Orders -> Events]
  /\ Quantity \in [Tiers -> Nat]
  /\ MaxPerItem \in Nat \ {0}
  /\ HoldTime \in Nat
  /\ MaxTime \in Nat

VARIABLES
  status,         \* Order.status, "none" until the order is created
  items,          \* OrderItem.quantity per tier, 0 where there is no item
  expires_at,     \* Order.expires_at, or NoDeadline
  intent,         \* is Order.stripe_payment_intent_id set?
  is_deleted,     \* Order.is_deleted
  ticket,         \* Ticket.status per ticket row, "none" where there is no row
  quantity_sold,  \* TicketTier.quantity_sold
  tickets_sold,   \* Event.tickets_sold
  on_sale,        \* tiers that are active, not deleted and in their sale window
  now             \* the clock

orderVars == <<status, items, expires_at, intent, is_deleted>>
saleVars == <<ticket, quantity_sold, tickets_sold>>
storeVars == <<orderVars, saleVars, on_sale, now>>

NoDeadline == -1
Statuses == {"none", "PENDING", "CONFIRMED", "CANCELLED", "REFUNDED"}
Live == {"PENDING", "CONFIRMED"}

(* Order.can_transition_to: the statuses each status may change to. *)
Transitions == [ none      |-> {"PENDING"},
                 PENDING   |-> {"CONFIRMED", "CANCELLED"},
                 CONFIRMED |-> {"REFUNDED", "CANCELLED"},
                 CANCELLED |-> {},
                 REFUNDED  |-> {} ]

(* Carts the serializer lets through: at least one item, quantity 1..Max. *)
NoItems == [t \in Tiers |-> 0]
Carts == [Tiers -> 0..MaxPerItem] \ {NoItems}

(* Ticket rows are named by their order, their tier and their position in  *)
(* the order item's bulk_create.                                           *)
Rows == Orders \X Tiers \X (1..MaxPerItem)
RowsOf(o, t, n) == {o} \X {t} \X (1..n)
OrderRows(o, q) == {r \in Rows : r[1] = o /\ r[3] <= q[r[2]]}
ValidRows(t) == {r \in Rows : r[2] = t /\ ticket[r] = "VALID"}
ValidEventRows(e) == {r \in Rows : EventOf[r[2]] = e /\ ticket[r] = "VALID"}

(* The sum of a cart's quantities, counted as the ticket rows it makes.    *)
TicketCount(o, q) == Cardinality(OrderRows(o, q))

-----------------------------------------------------------------------------

StoreInit ==
  /\ status = [o \in Orders |-> "none"]
  /\ items = [o \in Orders |-> NoItems]
  /\ expires_at = [o \in Orders |-> NoDeadline]
  /\ intent = [o \in Orders |-> FALSE]
  /\ is_deleted = [o \in Orders |-> FALSE]
  /\ ticket = [r \in Rows |-> "none"]
  /\ quantity_sold = [t \in Tiers |-> 0]
  /\ tickets_sold = [e \in Events |-> 0]
  /\ on_sale = Tiers
  /\ now = 0

(* Order.is_expired, and the filter of the expiry sweep: both are strict,  *)
(* so at the deadline itself an order is neither pending for a new         *)
(* checkout (expires_at > now) nor expired.                                *)
IsExpired(o) ==
  status[o] = "PENDING" /\ expires_at[o] # NoDeadline /\ now > expires_at[o]
HoldsSeats(o) ==
  status[o] = "PENDING" /\ expires_at[o] > now /\ ~is_deleted[o]

-----------------------------------------------------------------------------
(* create_order's transaction.                                             *)

available_quantity(t) == IF quantity_sold[t] <= Quantity[t]
                         THEN Quantity[t] - quantity_sold[t]
                         ELSE 0

(* Mutant: the quantity is not compared.                                   *)
TiersValidIfAnyLeft(o, q) ==
  \A t \in Tiers : q[t] > 0 =>
    EventOf[t] = OrderEvent[o] /\ t \in on_sale /\ available_quantity(t) > 0

(* _validate_tiers: every tier asked for is of the event, on sale, and has *)
(* the tickets.                                                            *)
TiersValid(o, q) ==
  \A t \in Tiers : q[t] > 0 =>
    /\ EventOf[t] = OrderEvent[o]
    /\ t \in on_sale
    /\ q[t] <= available_quantity(t)

CreateTx(o, q) ==
  /\ status[o] = "none"
  /\ TiersValid(o, q)
  /\ status' = [status EXCEPT ![o] = "PENDING"]
  /\ items' = [items EXCEPT ![o] = q]
  /\ expires_at' = [expires_at EXCEPT ![o] = now + HoldTime]
  /\ ticket' = [r \in Rows |-> IF r \in OrderRows(o, q) THEN "VALID"
                                                        ELSE ticket[r]]
  /\ quantity_sold' = [t \in Tiers |-> quantity_sold[t] + q[t]]
  /\ tickets_sold' =
       [tickets_sold EXCEPT ![OrderEvent[o]] = @ + TicketCount(o, q)]
  /\ UNCHANGED <<intent, is_deleted, on_sale, now>>

(* attach_payment_intent: an autocommitted UPDATE of one column.           *)
AttachTx(o) ==
  /\ status[o] # "none"
  /\ intent' = [intent EXCEPT ![o] = TRUE]
  /\ UNCHANGED <<status, items, expires_at, is_deleted, saleVars, on_sale, now>>

-----------------------------------------------------------------------------
(* The transactions that close or confirm an order.  Each re-reads the row *)
(* with select_for_update, through a manager that hides deleted orders.    *)

(* Mutant: the locked row's status is not checked again. *)
LockedUnchecked(o, allowed) == ~is_deleted[o] /\ status[o] # "none"

Locked(o, allowed) == ~is_deleted[o] /\ status[o] \in allowed

ConfirmTx(o, with_intent) ==
  /\ Locked(o, {"PENDING"})
  /\ status' = [status EXCEPT ![o] = "CONFIRMED"]
  /\ expires_at' = [expires_at EXCEPT ![o] = NoDeadline]
  /\ intent' = [intent EXCEPT ![o] = @ \/ with_intent]
  /\ UNCHANGED <<items, is_deleted, saleVars, on_sale, now>>

(* Both counters are PositiveIntegerFields: a decrement below zero fails   *)
(* the whole transaction.                                                  *)
CanRestore(o) ==
  /\ \A t \in Tiers : items[o][t] <= quantity_sold[t]
  /\ TicketCount(o, items[o]) <= tickets_sold[OrderEvent[o]]

(* Mutant: the tiers get everything back twice.                            *)
RestoreTwice(o) ==
  /\ CanRestore(o)
  /\ quantity_sold' = [t \in Tiers |-> quantity_sold[t] - 2 * items[o][t]]
  /\ UNCHANGED <<tickets_sold, ticket>>

RestoreInventory(o) ==
  /\ CanRestore(o)
  /\ quantity_sold' = [t \in Tiers |-> quantity_sold[t] - items[o][t]]
  /\ tickets_sold' =
       [tickets_sold EXCEPT ![OrderEvent[o]] = @ - TicketCount(o, items[o])]
  /\ ticket' = [r \in Rows |-> IF r[1] = o /\ ticket[r] = "VALID"
                               THEN "CANCELLED" ELSE ticket[r]]

CancelTx(o) ==
  /\ Locked(o, {"PENDING"})
  /\ RestoreInventory(o)
  /\ status' = [status EXCEPT ![o] = "CANCELLED"]
  /\ expires_at' = [expires_at EXCEPT ![o] = NoDeadline]
  /\ UNCHANGED <<items, intent, is_deleted, on_sale, now>>

RefundTx(o) ==
  /\ Locked(o, {"CONFIRMED"})
  /\ RestoreInventory(o)
  /\ status' = [status EXCEPT ![o] = "REFUNDED"]
  /\ UNCHANGED <<items, expires_at, intent, is_deleted, on_sale, now>>

-----------------------------------------------------------------------------
(* Writes from outside the services.                                       *)

(* The admin's soft_delete_orders: the flag only, nothing is restored.     *)
(* Its form of an order saves the whole row as loaded: see EventStaff.     *)
SoftDelete(o) ==
  /\ status[o] # "none" /\ ~is_deleted[o]
  /\ is_deleted' = [is_deleted EXCEPT ![o] = TRUE]
  /\ UNCHANGED <<status, items, expires_at, intent, saleVars, on_sale, now>>

(* A tier's sale window opens or closes, or staff change is_active: what   *)
(* else their save of the row writes is in EventStaff.                     *)
ToggleSale(t) ==
  /\ on_sale' = IF t \in on_sale THEN on_sale \ {t} ELSE on_sale \cup {t}
  /\ UNCHANGED <<orderVars, saleVars, now>>

Tick ==
  /\ now < MaxTime
  /\ now' = now + 1
  /\ UNCHANGED <<orderVars, saleVars, on_sale>>

StoreNext ==
  \/ \E o \in Orders :
       \/ \E q \in Carts : CreateTx(o, q)
       \/ AttachTx(o)
       \/ \E with_intent \in BOOLEAN : ConfirmTx(o, with_intent)
       \/ CancelTx(o)
       \/ RefundTx(o)
       \/ SoftDelete(o)
  \/ \E t \in Tiers : ToggleSale(t)
  \/ Tick

StoreSpec == StoreInit /\ [][StoreNext]_storeVars

-----------------------------------------------------------------------------

StoreTypeOK ==
  /\ status \in [Orders -> Statuses]
  /\ items \in [Orders -> [Tiers -> 0..MaxPerItem]]
  /\ expires_at \in [Orders -> Nat \cup {NoDeadline}]
  /\ intent \in [Orders -> BOOLEAN]
  /\ is_deleted \in [Orders -> BOOLEAN]
  /\ ticket \in [Rows -> {"none", "VALID", "CANCELLED"}]
  /\ quantity_sold \in [Tiers -> Nat]
  /\ tickets_sold \in [Events -> Nat]
  /\ on_sale \subseteq Tiers
  /\ now \in 0..MaxTime

(* Ticket rows follow their order: they exist exactly for the quantities   *)
(* of its items, are valid while it is PENDING or CONFIRMED, and are       *)
(* cancelled with it.  Checkout, cancel and refund write the two tables in *)
(* separate statements (services.py:138, 311, 381).                        *)
TicketsFollowOrder ==
  \A r \in Rows :
    ticket[r] = IF r[3] > items[r[1]][r[2]] THEN "none"
                ELSE IF status[r[1]] \in Live THEN "VALID"
                ELSE "CANCELLED"

(* An order only has items of its own event's tiers: it is the event whose *)
(* counter its close decrements (services.py:186, 306).                    *)
ItemsOfEvent ==
  \A o \in Orders, t \in Tiers : items[o][t] > 0 => EventOf[t] = OrderEvent[o]

(* TicketTier.quantity_sold, kept by F() increments and decrements of item *)
(* quantities, is the number of valid ticket rows of the tier: no close of *)
(* an order restores inventory twice, or not at all.                       *)
SoldCountsValidTickets ==
  \A t \in Tiers : quantity_sold[t] = Cardinality(ValidRows(t))

(* Event.tickets_sold is the number of valid tickets of the event's tiers, *)
(* although it is kept per order and the tiers by another UPDATE.          *)
EventSoldCountsValidTickets ==
  \A e \in Events : tickets_sold[e] = Cardinality(ValidEventRows(e))

CountersExact == SoldCountsValidTickets /\ EventSoldCountsValidTickets

(* No tier is oversold: what checkout validated under the tier's row lock  *)
(* still holds after every later write.                                    *)
NoOversell ==
  \A t \in Tiers : Cardinality(ValidRows(t)) <= Quantity[t]

(* A live order can always be cancelled or refunded: the decrement never   *)
(* trips over the non-negative CHECK of a counter.                         *)
CloseNeverBlocked ==
  \A o \in Orders : status[o] \in Live => CanRestore(o)

(* The inductive invariant of the tables. *)
StoreInv ==
  /\ StoreTypeOK
  /\ TicketsFollowOrder
  /\ ItemsOfEvent
  /\ \A o \in Orders : status[o] = "none" => items[o] = NoItems
  /\ SoldCountsValidTickets
  /\ EventSoldCountsValidTickets
  /\ NoOversell

-----------------------------------------------------------------------------
(* The tables implement TicketInventory: the stock of a tier is what its   *)
(* counter leaves, and a cancelled or refunded order is a returned one.    *)

phaseOf == [ none |-> "new", PENDING |-> "reserved", CONFIRMED |-> "sold",
             CANCELLED |-> "returned", REFUNDED |-> "returned" ]

Inventory == INSTANCE TicketInventory WITH
  Stock <- Quantity,
  phase <- [o \in Orders |-> phaseOf[status[o]]],
  hold <- items,
  free <- [t \in Tiers |-> Quantity[t] - quantity_sold[t]]

(* Every behaviour of the order tables is one of the abstract inventory.   *)
ImplementsInventory == Inventory!Spec
=============================================================================
