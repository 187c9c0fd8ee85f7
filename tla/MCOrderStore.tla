----------------------------- MODULE MCOrderStore -----------------------------
(* Two orders for one event with two tiers; the third tier belongs to      *)
(* another event, so that a cart can name a tier it must not.              *)
EXTENDS OrderStore, TLC

CONSTANTS o1, o2, t1, t2, t3, e1, e2

MCOrders == {o1, o2}
MCTiers == {t1, t2, t3}
MCEvents == {e1, e2}
MCEventOf == t1 :> e1 @@ t2 :> e1 @@ t3 :> e2
MCOrderEvent == o1 :> e1 @@ o2 :> e1
MCQuantity == t1 :> 3 @@ t2 :> 1 @@ t3 :> 2
=============================================================================
