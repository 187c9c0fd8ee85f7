--------------------------- MODULE MCTicketDelivery ---------------------------
(* One order of one ticket, one worker. *)
EXTENDS TicketDelivery, TLC

CONSTANTS o1, t1, e1, r1

MCOrders == {o1}
MCTiers == {t1}
MCEvents == {e1}
MCEventOf == [t \in Tiers |-> e1]
MCOrderEvent == [o \in Orders |-> e1]
MCQuantity == [t \in Tiers |-> 1]
MCRunners == {r1}
=============================================================================
