--------------------------- MODULE TicketInventory ---------------------------
(***************************************************************************)
(* What the ordering side of EventHive promises about tickets, with no     *)
(* tables, counters, clocks or requests in it.  Each tier has a stock of   *)
(* free tickets.  An order takes what it asks for out of the stock in one  *)
(* step, is then either sold or given back, and what a sold order took is  *)
(* given back at most once, by a refund.                                   *)
(***************************************************************************)
EXTENDS Integers

CONSTANTS
  Orders,      \* the orders that may ever be placed
  Tiers,       \* the ticket tiers
  Stock,       \* [Tiers -> Nat]: tickets of each tier that exist
  MaxPerItem   \* the most tickets of one tier an order may ask for

VARIABLES
  phase,       \* [Orders -> {"new", "reserved", "sold", "returned"}]
  hold,        \* [Orders -> [Tiers -> 0..MaxPerItem]]: what an order took
  free         \* [Tiers -> Nat]: tickets nobody holds

vars == <<phase, hold, free>>

Phases == {"new", "reserved", "sold", "returned"}
Nothing == [t \in Tiers |-> 0]

Init ==
  /\ phase = [o \in Orders |-> "new"]
  /\ hold = [o \in Orders |-> Nothing]
  /\ free = Stock

(* An order takes q out of the stock, all of it or nothing. *)
Reserve(o, q) ==
  /\ phase[o] = "new"
  /\ \A t \in Tiers : q[t] <= free[t]
  /\ phase' = [phase EXCEPT ![o] = "reserved"]
  /\ hold' = [hold EXCEPT ![o] = q]
  /\ free' = [t \in Tiers |-> free[t] - q[t]]

Sell(o) ==
  /\ phase[o] = "reserved"
  /\ phase' = [phase EXCEPT ![o] = "sold"]
  /\ UNCHANGED <<hold, free>>

(* What the order took goes back to the stock, and the order is closed. *)
GiveBack(o) ==
  /\ phase[o] \in {"reserved", "sold"}
  /\ phase' = [phase EXCEPT ![o] = "returned"]
  /\ free' = [t \in Tiers |-> free[t] + hold[o][t]]
  /\ UNCHANGED hold

Next ==
  \E o \in Orders :
    \/ \E q \in [Tiers -> 0..MaxPerItem] : Reserve(o, q)
    \/ Sell(o)
    \/ GiveBack(o)

Spec == Init /\ [][Next]_vars
=============================================================================
