------------------------------ MODULE MCCheckout ------------------------------
(* Two checkouts of one attendee at one event with two tiers. *)
EXTENDS Checkout, TLC

CONSTANTS o1, o2, t1, t2, e1, a1

MCPair == {o1, o2}
MCTiers == {t1, t2}
MCEvents == {e1}
MCAttendees == {a1}
MCEventOf == [t \in Tiers |-> e1]
MCOrderEvent == [o \in Orders |-> e1]
MCBuyer == [o \in Orders |-> a1]
MCQuantity == [t \in Tiers |-> IF t = t1 THEN 2 ELSE 1]
=============================================================================
