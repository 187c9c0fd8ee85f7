------------------------------ MODULE EventStaff ------------------------------
(***************************************************************************)
(* Staff at work on the rows that the orders move: organizers edit a tier  *)
(* or an event, publish it and cancel it; the admin site's forms save a    *)
(* tier, an event, an order or a ticket.  Every such request loads a row,  *)
(* validates that copy without a lock, and saves: publishing and           *)
(* cancelling only the status, all others every column of the copy, also   *)
(* the columns that their form does not show or shows as read-only.        *)
(*                                                                         *)
(* The sale windows are open throughout, so that on_sale is is_active.     *)
(* TicketTier.quantity is never edited (it is a constant of OrderStore).   *)
(***************************************************************************)
EXTENDS OrderStore

CONSTANTS
  Staff,          \* requests of organizers and admins that may be under way
  Capacities,     \* values of total_capacity they choose
  WorkOn          \* bound: do they load more rows after a clobbering save?

ASSUME StaffAssumption == Capacities \subseteq Nat /\ WorkOn \in BOOLEAN

VARIABLES
  event_status,   \* Event.status
  total_capacity, \* Event.total_capacity
  staff,          \* what each of those requests is about to save
  clobbered       \* history: has a column that had changed been written back?

eventVars == <<event_status, total_capacity, staff, clobbered>>
staffVars == <<storeVars, eventVars>>

EventStatuses == {"DRAFT", "PUBLISHED", "CANCELLED", "COMPLETED"}
EventTransitions == [ DRAFT     |-> {"PUBLISHED", "CANCELLED"},
                      PUBLISHED |-> {"CANCELLED", "COMPLETED"},
                      CANCELLED |-> {},
                      COMPLETED |-> {} ]

NoEdit == [doing |-> "nothing"]
EventEdits == {"edit event", "event form", "publish", "cancel"}
TierCopies == [doing : {"save tier"}, tier : Tiers, sold : Nat]
EventCopies == [doing : EventEdits, event : Events,
                status : EventStatuses, sold : Nat, capacity : Capacities]
OrderCopies == [doing : {"order form"}, order : Orders, status : Statuses \ {"none"},
                expires_at : Nat \cup {NoDeadline}, intent : BOOLEAN]
TicketCopies == [doing : {"ticket form"}, row : Rows, status : {"VALID", "CANCELLED"}]
StaffCopies == {NoEdit} \cup TierCopies \cup EventCopies \cup OrderCopies \cup TicketCopies

StaffInit ==
  /\ StoreInit
  /\ event_status = [e \in Events |-> "DRAFT"]
  /\ total_capacity \in [Events -> Capacities]
  /\ staff = [s \in Staff |-> NoEdit]
  /\ clobbered = FALSE

Load(s, copy) ==
  /\ staff[s] = NoEdit /\ (clobbered => WorkOn)
  /\ staff' = [staff EXCEPT ![s] = copy]
  /\ UNCHANGED <<storeVars, event_status, total_capacity, clobbered>>

Doing(s, doings) == staff[s].doing \in doings

(* A column of the orders' in the copy is not the row's any more. *)
Overtaken(s) ==
  LET copy == staff[s] IN
  \/ Doing(s, {"save tier"}) /\ copy.sold # quantity_sold[copy.tier]
  \/ Doing(s, {"edit event", "event form"}) /\ copy.sold # tickets_sold[copy.event]
  \/ /\ Doing(s, {"order form"})
     /\ \/ is_deleted[copy.order]
        \/ copy.status # status[copy.order]
        \/ copy.expires_at # expires_at[copy.order]
        \/ copy.intent # intent[copy.order]
  \/ Doing(s, {"ticket form"}) /\ copy.status # ticket[copy.row]

Saved(s, doings) ==
  /\ Doing(s, doings)
  /\ staff' = [staff EXCEPT ![s] = NoEdit]
  /\ clobbered' = (clobbered \/ Overtaken(s))

EventCopy(e, doing) ==
  [doing |-> doing, event |-> e, status |-> event_status[e],
   sold |-> tickets_sold[e], capacity |-> total_capacity[e]]

-----------------------------------------------------------------------------
(* PATCH of a tier, the admin's form of a tier and the tiers in its form   *)
(* of an event: the whole row as loaded, but for is_active.                *)

LoadTier(s, t) ==
  Load(s, [doing |-> "save tier", tier |-> t, sold |-> quantity_sold[t]])

SaveTierCopy(s) ==
  /\ Saved(s, {"save tier"})
  /\ quantity_sold' = [quantity_sold EXCEPT ![staff[s].tier] = staff[s].sold]
  /\ on_sale' \in {on_sale \cup {staff[s].tier}, on_sale \ {staff[s].tier}}
  /\ UNCHANGED <<orderVars, ticket, tickets_sold, now, event_status, total_capacity>>

-----------------------------------------------------------------------------
(* PATCH of an event and the admin's form of one: the counter is written   *)
(* as loaded.                                                              *)

LoadEvent(s, e) ==
  \E doing \in {"edit event", "event form"} : Load(s, EventCopy(e, doing))

SaveEventRow(s, chosen, capacity) ==
  LET e == staff[s].event IN
  /\ tickets_sold' = [tickets_sold EXCEPT ![e] = staff[s].sold]
  /\ event_status' = [event_status EXCEPT ![e] = chosen]
  /\ total_capacity' = [total_capacity EXCEPT ![e] = capacity]
  /\ UNCHANGED <<orderVars, ticket, quantity_sold, on_sale, now>>

(* EventUpdateSerializer has no status, and a new capacity is not below    *)
(* what the copy sold.                                                     *)
SaveEventCopy(s) ==
  /\ Saved(s, {"edit event"})
  /\ \E c \in {k \in Capacities : k >= staff[s].sold} \cup {staff[s].capacity} :
       SaveEventRow(s, staff[s].status, c)

(* EventAdmin's form has both, and checks neither. *)
SaveEventForm(s) ==
  /\ Saved(s, {"event form"})
  /\ \E chosen \in EventStatuses, c \in Capacities : SaveEventRow(s, chosen, c)

-----------------------------------------------------------------------------
(* publish_event and cancel_event: the checks are made on the copy, the    *)
(* save has update_fields.                                                 *)

(* Mutant: the transition is not checked. *)
BeginPublishUnchecked(s, e) ==
  /\ \E t \in on_sale : EventOf[t] = e
  /\ Load(s, EventCopy(e, "publish"))

BeginPublish(s, e) ==
  /\ "PUBLISHED" \in EventTransitions[event_status[e]]
  /\ \E t \in on_sale : EventOf[t] = e
  /\ Load(s, EventCopy(e, "publish"))

BeginCancel(s, e) ==
  /\ "CANCELLED" \in EventTransitions[event_status[e]]
  /\ Load(s, EventCopy(e, "cancel"))

(* Mutant: the save has no update_fields. *)
SaveStatusFullRow(s, doing, new_status) ==
  /\ Saved(s, {doing})
  /\ SaveEventRow(s, new_status, staff[s].capacity)

SaveStatus(s, doing, new_status) ==
  /\ Saved(s, {doing})
  /\ event_status' = [event_status EXCEPT ![staff[s].event] = new_status]
  /\ UNCHANGED <<storeVars, total_capacity>>

-----------------------------------------------------------------------------
(* The admin's forms of orders and tickets.  All that the forms let one    *)
(* edit is is_deleted; a deleted order has no form.                        *)

LoadOrder(s, o) ==
  /\ status[o] # "none" /\ ~is_deleted[o]
  /\ Load(s, [doing |-> "order form", order |-> o, status |-> status[o],
              expires_at |-> expires_at[o], intent |-> intent[o]])

SaveOrderForm(s) ==
  LET copy == staff[s] IN
  /\ Saved(s, {"order form"})
  /\ status' = [status EXCEPT ![copy.order] = copy.status]
  /\ expires_at' = [expires_at EXCEPT ![copy.order] = copy.expires_at]
  /\ intent' = [intent EXCEPT ![copy.order] = copy.intent]
  /\ \E deleted \in BOOLEAN : is_deleted' = [is_deleted EXCEPT ![copy.order] = deleted]
  /\ UNCHANGED <<items, saleVars, on_sale, now, event_status, total_capacity>>

LoadTicket(s, r) ==
  /\ ticket[r] # "none"
  /\ Load(s, [doing |-> "ticket form", row |-> r, status |-> ticket[r]])

SaveTicketForm(s) ==
  /\ Saved(s, {"ticket form"})
  /\ ticket' = [ticket EXCEPT ![staff[s].row] = staff[s].status]
  /\ UNCHANGED <<orderVars, quantity_sold, tickets_sold, on_sale, now,
                 event_status, total_capacity>>

-----------------------------------------------------------------------------
(* The orders, with their requests reduced to their transactions.          *)

PlaceOrder(o) ==
  /\ event_status[OrderEvent[o]] = "PUBLISHED"
  /\ \E q \in Carts : CreateTx(o, q)
  /\ UNCHANGED eventVars

SettleOrder(o) ==
  /\ ConfirmTx(o, FALSE) \/ CancelTx(o) \/ RefundTx(o) \/ AttachTx(o) \/ SoftDelete(o)
  /\ UNCHANGED eventVars

StaffNext ==
  \/ \E s \in Staff :
       \/ \E t \in Tiers : LoadTier(s, t)
       \/ SaveTierCopy(s)
       \/ \E e \in Events :
            LoadEvent(s, e) \/ BeginPublish(s, e) \/ BeginCancel(s, e)
       \/ SaveEventCopy(s)
       \/ SaveEventForm(s)
       \/ SaveStatus(s, "publish", "PUBLISHED")
       \/ SaveStatus(s, "cancel", "CANCELLED")
       \/ \E o \in Orders : LoadOrder(s, o)
       \/ SaveOrderForm(s)
       \/ \E r \in Rows : LoadTicket(s, r)
       \/ SaveTicketForm(s)
  \/ \E o \in Orders : PlaceOrder(o) \/ SettleOrder(o)

StaffSpec == StaffInit /\ [][StaffNext]_staffVars

-----------------------------------------------------------------------------

StaffTypeOK ==
  /\ StoreTypeOK
  /\ event_status \in [Events -> EventStatuses]
  /\ total_capacity \in [Events -> Capacities]
  /\ staff \in [Staff -> StaffCopies]
  /\ clobbered \in BOOLEAN

(* Whoever publishes or cancels has seen a status that allows it. *)
CopyChecked(s) ==
  /\ Doing(s, {"publish"}) => "PUBLISHED" \in EventTransitions[staff[s].status]
  /\ Doing(s, {"cancel"}) => "CANCELLED" \in EventTransitions[staff[s].status]

(* The tables are as the orders' transactions leave them, whatever staff   *)
(* load, save and publish in between and however many at once, until one   *)
(* of them saves a copy over a row that an order has changed since it was  *)
(* loaded: staff write no counter, no order and no ticket otherwise        *)
(* (events/services.py:51, 78, 90, 108; orders/admin.py:27).               *)
TablesHoldUntilClobbered ==
  /\ StaffTypeOK
  /\ \A s \in Staff : CopyChecked(s)
  /\ ~clobbered => StoreInv

(* The status in the copy is not the event's any more. *)
StatusOvertaken(s) == staff[s].status # event_status[staff[s].event]

(* An event leaves the way of EVENT_STATUS_TRANSITIONS, a cancelled or     *)
(* completed one for sale again say, by the choice of an admin in the      *)
(* event's form, or when an organizer saves over a status that somebody    *)
(* else set since it was loaded: never otherwise (events/models.py:13-18,  *)
(* events/services.py:58, 85, events/admin.py:36).                         *)
EventMovesForward ==
  [][\A e \in Events : event_status'[e] # event_status[e] =>
       \/ event_status'[e] \in EventTransitions[event_status[e]]
       \/ \E s \in Staff :
            /\ Doing(s, EventEdits) /\ staff[s].event = e /\ staff'[s] = NoEdit
            /\ Doing(s, {"event form"}) \/ StatusOvertaken(s)]_staffVars
=============================================================================
