------------------------------ MODULE MCRowLocks ------------------------------
(* Two orders of one event with a tier of one ticket and one of two, two   *)
(* database connections; staff have the use of one.                        *)
EXTENDS RowLocks, TLC

CONSTANTS o1, o2, t1, t2, e1, x1, x2

MCOrders == {o1, o2}
MCTiers == {t1, t2}
MCEvents == {e1}
MCRequests == {x1, x2}
MCEventOf == [t \in Tiers |-> e1]
MCOrderEvent == [o \in Orders |-> e1]
MCQuantity == [t \in Tiers |-> IF t = t1 THEN 1 ELSE 2]
MCIntents == {TRUE}
MCStaffers == {x1}
MCStaffTiers == {t1}
===============================================================================
