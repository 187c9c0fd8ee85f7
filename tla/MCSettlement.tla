----------------------------- MODULE MCSettlement -----------------------------
(* One order of one tier, two workers. *)
EXTENDS Settlement, TLC

CONSTANTS o1, t1, e1, w1, w2

MCOne == {o1}
MCPair == {w1, w2}
MCTiers == {t1}
MCEvents == {e1}
MCEventOf == [t \in Tiers |-> e1]
MCOrderEvent == [o \in Orders |-> e1]
MCQuantity == [t \in Tiers |-> 2]
=============================================================================
