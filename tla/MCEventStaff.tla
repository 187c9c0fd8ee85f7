----------------------------- MODULE MCEventStaff -----------------------------
(* One event with a tier of one or two tickets, two orders, one or two of  *)
(* the staff.                                                              *)
EXTENDS EventStaff, TLC

CONSTANTS o1, o2, t1, e1, s1, s2

MCOrders == {o1, o2}
MCTiers == {t1}
MCEvents == {e1}
MCOneStaff == {s1}
MCTwoStaff == {s1, s2}
MCEventOf == [t \in Tiers |-> e1]
MCOrderEvent == [o \in Orders |-> e1]
MCQuantity == [t \in Tiers |-> 2]
MCScarce == [t \in Tiers |-> 1]

(* Orders and staff are alike, and no property is of a single one. *)
MCSymmetry == Permutations(MCOrders) \cup Permutations(MCTwoStaff)
=============================================================================
