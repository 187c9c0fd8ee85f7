--------------------------- MODULE OrderStoreProofs ---------------------------
(***************************************************************************)
(* Proofs about the order tables for any number of orders, tiers, events   *)
(* and tickets: the inductive invariant StoreInv, the inventory invariants *)
(* it contains, and that the tables implement TicketInventory.             *)
(***************************************************************************)
EXTENDS OrderStore, FiniteSetTheorems, FunctionTheorems, TLAPS

-----------------------------------------------------------------------------
(* Counting ticket rows.                                                   *)

(* There are finitely many possible ticket rows: the counting lemmas below *)
(* (Cardinality of subsets of Rows) apply to them.                         *)
LEMMA RowsFinite == IsFiniteSet(Rows)
<1> DEFINE S == (Orders \X Tiers) \X (1..MaxPerItem)
           f == [p \in S |-> <<p[1][1], p[1][2], p[2]>>]
<1>1. IsFiniteSet(S)
  <2>1. IsFiniteSet(Orders \X Tiers)
    BY StoreAssumption, FS_Product
  <2>2. IsFiniteSet(1..MaxPerItem)
    BY StoreAssumption, FS_Interval
  <2> QED BY <2>1, <2>2, FS_Product
<1>2. f \in Surjection(S, Rows)
  <2>1. f \in [S -> Rows]
    BY DEF Rows
  <2>2. ASSUME NEW r \in Rows PROVE \E p \in S : f[p] = r
    <3>1. <<<<r[1], r[2]>>, r[3]>> \in S /\ f[<<<<r[1], r[2]>>, r[3]>>] = r
      BY DEF Rows
    <3> QED BY <3>1
  <2> QED BY <2>1, <2>2, Fun_IsSurj
<1> QED BY <1>1, <1>2, FS_Surjection

(* An order item of quantity n has exactly n ticket rows, which is what    *)
(* bulk_create inserts (services.py:138-150).                              *)
LEMMA RowsOfCount ==
  ASSUME NEW o \in Orders, NEW t \in Tiers, NEW n \in 0..MaxPerItem
  PROVE  /\ RowsOf(o, t, n) \subseteq Rows
         /\ IsFiniteSet(RowsOf(o, t, n))
         /\ Cardinality(RowsOf(o, t, n)) = n
<1> DEFINE f == [i \in 1..n |-> <<o, t, i>>]
<1> n \in Nat /\ n <= MaxPerItem
  BY StoreAssumption
<1>1. RowsOf(o, t, n) \subseteq Rows
  BY StoreAssumption DEF RowsOf, Rows
<1>2. f \in [1..n -> RowsOf(o, t, n)] /\ \A a, b \in 1..n : f[a] = f[b] => a = b
  BY DEF RowsOf
<1>3. ASSUME NEW r \in RowsOf(o, t, n) PROVE \E i \in 1..n : f[i] = r
  <2>1. r[3] \in 1..n /\ f[r[3]] = r
    BY DEF RowsOf
  <2> QED BY <2>1
<1>4. f \in Bijection(1..n, RowsOf(o, t, n))
  BY <1>2, <1>3, Fun_IsBij
<1>5. ExistsBijection(1..n, RowsOf(o, t, n))
  BY <1>4, Fun_ExistsBij
<1> QED BY <1>1, <1>5, FS_CountingElements, RowsFinite, FS_Subset

(* Adding rows that were not there adds up the counts. *)
LEMMA DisjointCount ==
  ASSUME NEW A \in SUBSET Rows, NEW B \in SUBSET Rows, A \cap B = {}
  PROVE  Cardinality(A \cup B) = Cardinality(A) + Cardinality(B)
<1>1. IsFiniteSet(A) /\ IsFiniteSet(B)
  BY RowsFinite, FS_Subset
<1>2. Cardinality(A) \in Nat /\ Cardinality(B) \in Nat
  BY <1>1, FS_CardinalityType
<1> QED BY <1>1, <1>2, FS_Union, FS_EmptySet

(* Every set of ticket rows has a count. *)
LEMMA RowCount ==
  ASSUME NEW A \in SUBSET Rows
  PROVE  Cardinality(A) \in Nat
BY RowsFinite, FS_Subset, FS_CardinalityType

-----------------------------------------------------------------------------
(* The inductive invariant.                                                *)

(* The empty tables satisfy the inductive invariant. *)
LEMMA InitInv == StoreInit => StoreInv
<1> SUFFICES ASSUME StoreInit PROVE StoreInv
  OBVIOUS
<1> USE DEF StoreInit
<1>1. StoreTypeOK
  BY StoreAssumption DEF StoreTypeOK, NoItems, NoDeadline, Statuses, Rows
<1>2. TicketsFollowOrder
  BY StoreAssumption DEF TicketsFollowOrder, NoItems, Rows
<1>3. ItemsOfEvent /\ \A o \in Orders : status[o] = "none" => items[o] = NoItems
  BY DEF ItemsOfEvent, NoItems
<1>4. \A t \in Tiers : Cardinality(ValidRows(t)) = 0
  <2>1. \A t \in Tiers : ValidRows(t) = {}
    BY DEF ValidRows
  <2> QED BY <2>1, FS_EmptySet
<1>5. \A e \in Events : Cardinality(ValidEventRows(e)) = 0
  <2>1. \A e \in Events : ValidEventRows(e) = {}
    BY DEF ValidEventRows
  <2> QED BY <2>1, FS_EmptySet
<1>6. SoldCountsValidTickets /\ EventSoldCountsValidTickets /\ NoOversell
  BY <1>4, <1>5, StoreAssumption
     DEF SoldCountsValidTickets, EventSoldCountsValidTickets, NoOversell
<1> QED BY <1>1, <1>2, <1>3, <1>6 DEF StoreInv

(* Creating an order adds to each counter the rows it inserts, after the   *)
(* tiers were validated under their row locks (services.py:104-161).       *)
LEMMA CreatePreserves ==
  ASSUME StoreInv, NEW o \in Orders, NEW q \in Carts, CreateTx(o, q)
  PROVE  StoreInv'
<1> USE DEF StoreInv
<1>1. q \in [Tiers -> 0..MaxPerItem] /\ MaxPerItem \in Nat
  BY StoreAssumption DEF Carts
<1>2. OrderRows(o, q) \subseteq Rows /\ TicketCount(o, q) \in Nat
  BY RowCount DEF OrderRows, TicketCount
<1>3. StoreTypeOK'
  <2>1. status' \in [Orders -> Statuses]
    BY DEF StoreTypeOK, CreateTx, Statuses
  <2>2. items' \in [Orders -> [Tiers -> 0..MaxPerItem]]
    BY <1>1 DEF StoreTypeOK, CreateTx
  <2>3. expires_at' \in [Orders -> Nat \cup {NoDeadline}]
    BY StoreAssumption DEF StoreTypeOK, CreateTx
  <2>4. ticket' \in [Rows -> {"none", "VALID", "CANCELLED"}]
    BY DEF StoreTypeOK, CreateTx
  <2>5. quantity_sold' \in [Tiers -> Nat]
    BY <1>1 DEF StoreTypeOK, CreateTx
  <2>6. tickets_sold' \in [Events -> Nat]
    <3>1. OrderEvent[o] \in Events
      BY StoreAssumption
    <3>2. tickets_sold[OrderEvent[o]] + TicketCount(o, q) \in Nat
      BY <1>2, <3>1 DEF StoreTypeOK
    <3> QED BY <3>1, <3>2 DEF StoreTypeOK, CreateTx
  <2> QED BY <2>1, <2>2, <2>3, <2>4, <2>5, <2>6 DEF StoreTypeOK, CreateTx
<1>4. TicketsFollowOrder'
  <2> SUFFICES ASSUME NEW r \in Rows
               PROVE  ticket'[r] = IF r[3] > items'[r[1]][r[2]] THEN "none"
                                   ELSE IF status'[r[1]] \in Live THEN "VALID"
                                   ELSE "CANCELLED"
    BY DEF TicketsFollowOrder
  <2>1. r[1] \in Orders /\ r[2] \in Tiers /\ r[3] \in 1..MaxPerItem
    BY DEF Rows
  <2>2. CASE r[1] = o
    <3>1. items'[r[1]][r[2]] = q[r[2]] /\ status'[r[1]] = "PENDING"
      BY <2>2 DEF CreateTx, StoreTypeOK
    <3>2. ticket[r] = "none"
      BY <2>1, <2>2 DEF TicketsFollowOrder, CreateTx, NoItems
    <3> QED BY <1>1, <2>1, <2>2, <3>1, <3>2 DEF CreateTx, OrderRows, Live
  <2>3. CASE r[1] # o
    <3>1. items'[r[1]] = items[r[1]] /\ status'[r[1]] = status[r[1]]
      BY <2>1, <2>3 DEF CreateTx, StoreTypeOK
    <3>2. ticket'[r] = ticket[r]
      BY <2>3 DEF CreateTx, OrderRows
    <3> QED BY <3>1, <3>2 DEF TicketsFollowOrder
  <2> QED BY <2>2, <2>3
<1>5. ItemsOfEvent'
  BY <1>1 DEF ItemsOfEvent, CreateTx, TiersValid, StoreTypeOK
<1>6. \A p \in Orders : status'[p] = "none" => items'[p] = NoItems
  BY DEF CreateTx, StoreTypeOK
<1>7. ASSUME NEW r \in OrderRows(o, q) PROVE ticket[r] # "VALID"
  BY StoreAssumption
     DEF OrderRows, TicketsFollowOrder, CreateTx, Live, Rows
<1>8. ASSUME NEW t \in Tiers
      PROVE  Cardinality(ValidRows(t))' = Cardinality(ValidRows(t)) + q[t]
  <2> DEFINE A == ValidRows(t)
             B == RowsOf(o, t, q[t])
  <2>1. B = {r \in OrderRows(o, q) : r[2] = t}
    BY <1>1 DEF RowsOf, OrderRows, Rows
  <2>2. ValidRows(t)' = A \cup B
    BY <2>1, <1>2 DEF ValidRows, CreateTx
  <2>3. A \cap B = {}
    BY <2>1, <1>7 DEF ValidRows
  <2>4. A \in SUBSET Rows /\ B \in SUBSET Rows /\ Cardinality(B) = q[t]
    BY <1>1, RowsOfCount DEF ValidRows
  <2> QED BY <2>2, <2>3, <2>4, DisjointCount
<1>9. SoldCountsValidTickets' /\ NoOversell'
  <2> SUFFICES ASSUME NEW t \in Tiers
               PROVE  /\ quantity_sold'[t] = Cardinality(ValidRows(t))'
                      /\ Cardinality(ValidRows(t))' <= Quantity[t]
    BY DEF SoldCountsValidTickets, NoOversell
  <2>1. quantity_sold'[t] = quantity_sold[t] + q[t]
    BY DEF CreateTx
  <2>2. quantity_sold[t] = Cardinality(ValidRows(t)) /\ quantity_sold[t] <= Quantity[t]
    BY DEF SoldCountsValidTickets, NoOversell
  <2>3. q[t] <= Quantity[t] - quantity_sold[t]
    BY <1>1, <2>2, StoreAssumption
       DEF CreateTx, TiersValid, available_quantity, StoreTypeOK
  <2> QED BY <1>1, <1>8, <2>1, <2>2, <2>3, StoreAssumption DEF StoreTypeOK
<1>10. EventSoldCountsValidTickets'
  <2> SUFFICES ASSUME NEW e \in Events
               PROVE  tickets_sold'[e] = Cardinality(ValidEventRows(e))'
    BY DEF EventSoldCountsValidTickets
  <2>1. ASSUME NEW r \in OrderRows(o, q) PROVE EventOf[r[2]] = OrderEvent[o]
    BY <1>1 DEF OrderRows, Rows, CreateTx, TiersValid
  <2>2. CASE e = OrderEvent[o]
    <3> DEFINE A == ValidEventRows(e)
               B == OrderRows(o, q)
    <3>1. ValidEventRows(e)' = A \cup B
      BY <1>2, <2>1, <2>2 DEF ValidEventRows, CreateTx
    <3>2. A \cap B = {}
      BY <1>7 DEF ValidEventRows
    <3>3. A \in SUBSET Rows /\ B \in SUBSET Rows
      BY <1>2 DEF ValidEventRows
    <3>4. Cardinality(ValidEventRows(e))' = Cardinality(A) + TicketCount(o, q)
      BY <3>1, <3>2, <3>3, DisjointCount DEF TicketCount
    <3>5. tickets_sold'[e] = tickets_sold[e] + TicketCount(o, q)
      BY <2>2 DEF CreateTx, StoreTypeOK
    <3> QED BY <3>4, <3>5 DEF EventSoldCountsValidTickets
  <2>3. CASE e # OrderEvent[o]
    <3>1. ValidEventRows(e)' = ValidEventRows(e)
      BY <1>2, <2>1, <2>3 DEF ValidEventRows, CreateTx
    <3>2. tickets_sold'[e] = tickets_sold[e]
      BY <2>3 DEF CreateTx, StoreTypeOK
    <3> QED BY <3>1, <3>2 DEF EventSoldCountsValidTickets
  <2> QED BY <2>2, <2>3
<1> QED BY <1>3, <1>4, <1>5, <1>6, <1>9, <1>10

(* The rows a live order holds are among those its tiers and its event     *)
(* count, so its quantities can be taken off both counters again: what     *)
(* cancel_order and refund_order decrement was there.                      *)
LEMMA HeldRows ==
  ASSUME StoreInv, NEW o \in Orders, status[o] \in Live
  PROVE  /\ \A t \in Tiers : RowsOf(o, t, items[o][t]) \subseteq ValidRows(t)
         /\ OrderRows(o, items[o]) \subseteq ValidEventRows(OrderEvent[o])
<1> USE DEF StoreInv
<1>1. ASSUME NEW r \in OrderRows(o, items[o]) PROVE ticket[r] = "VALID"
  <2>1. r \in Rows /\ r[1] = o /\ ~(r[3] > items[o][r[2]])
    BY StoreAssumption DEF OrderRows, StoreTypeOK, Rows
  <2> QED BY <2>1 DEF TicketsFollowOrder
<1>2. ASSUME NEW t \in Tiers
      PROVE  RowsOf(o, t, items[o][t]) \subseteq ValidRows(t)
  <2>1. items[o][t] \in 0..MaxPerItem
    BY DEF StoreTypeOK
  <2>2. RowsOf(o, t, items[o][t]) \subseteq Rows
    BY <2>1, RowsOfCount
  <2>3. \A r \in RowsOf(o, t, items[o][t]) : r[2] = t /\ r \in OrderRows(o, items[o])
    BY <2>1, <2>2 DEF RowsOf, OrderRows
  <2> QED BY <1>1, <2>2, <2>3 DEF ValidRows
<1>3. ASSUME NEW r \in OrderRows(o, items[o]) PROVE EventOf[r[2]] = OrderEvent[o]
  <2>1. r[2] \in Tiers /\ r[3] \in 1..MaxPerItem /\ r[3] <= items[o][r[2]]
    BY DEF OrderRows, Rows
  <2>2. items[o][r[2]] \in 0..MaxPerItem
    BY <2>1 DEF StoreTypeOK
  <2> QED BY <2>1, <2>2, StoreAssumption DEF ItemsOfEvent
<1> QED BY <1>1, <1>2, <1>3 DEF ValidEventRows, OrderRows

(* A live order can always be closed: neither counter would go negative. *)
LEMMA LiveCanRestore == StoreInv => CloseNeverBlocked
<1> SUFFICES ASSUME StoreInv, NEW o \in Orders, status[o] \in Live
             PROVE  CanRestore(o)
  BY DEF CloseNeverBlocked
<1> USE DEF StoreInv
<1>1. ASSUME NEW t \in Tiers PROVE items[o][t] <= quantity_sold[t]
  <2>1. RowsOf(o, t, items[o][t]) \subseteq ValidRows(t)
    BY HeldRows
  <2>2. items[o][t] = Cardinality(RowsOf(o, t, items[o][t]))
    BY RowsOfCount DEF StoreTypeOK
  <2>3. IsFiniteSet(ValidRows(t))
    BY RowsFinite, FS_Subset DEF ValidRows
  <2>4. Cardinality(RowsOf(o, t, items[o][t])) <= Cardinality(ValidRows(t))
    BY <2>1, <2>3, FS_Subset
  <2> QED BY <2>2, <2>4 DEF SoldCountsValidTickets
<1>2. TicketCount(o, items[o]) <= tickets_sold[OrderEvent[o]]
  <2>1. OrderRows(o, items[o]) \subseteq ValidEventRows(OrderEvent[o])
    BY HeldRows
  <2>2. IsFiniteSet(ValidEventRows(OrderEvent[o]))
    BY RowsFinite, FS_Subset DEF ValidEventRows
  <2>3. TicketCount(o, items[o]) <= Cardinality(ValidEventRows(OrderEvent[o]))
    BY <2>1, <2>2, FS_Subset DEF TicketCount
  <2>4. OrderEvent[o] \in Events
    BY StoreAssumption
  <2> QED BY <2>3, <2>4 DEF EventSoldCountsValidTickets
<1> QED BY <1>1, <1>2 DEF CanRestore

(* Closing a live order takes off each counter exactly the rows it         *)
(* cancels: what cancel_order and refund_order have in common.             *)
LEMMA RestorePreserves ==
  ASSUME StoreInv, NEW o \in Orders, status[o] \in Live, RestoreInventory(o),
         NEW s \in {"CANCELLED", "REFUNDED"},
         status' = [status EXCEPT ![o] = s], UNCHANGED items
  PROVE  /\ quantity_sold' \in [Tiers -> Nat] /\ tickets_sold' \in [Events -> Nat]
         /\ ticket' \in [Rows -> {"none", "VALID", "CANCELLED"}]
         /\ TicketsFollowOrder' /\ ItemsOfEvent'
         /\ \A p \in Orders : status'[p] = "none" => items'[p] = NoItems
         /\ SoldCountsValidTickets' /\ EventSoldCountsValidTickets' /\ NoOversell'
<1> USE DEF StoreInv
<1>1. OrderRows(o, items[o]) \subseteq Rows /\ TicketCount(o, items[o]) \in Nat
  BY RowCount DEF OrderRows, TicketCount
<1>2. CanRestore(o) /\ OrderEvent[o] \in Events
  BY StoreAssumption DEF RestoreInventory
<1>3. quantity_sold' \in [Tiers -> Nat]
  BY <1>2, StoreAssumption DEF RestoreInventory, CanRestore, StoreTypeOK
<1>4. tickets_sold' \in [Events -> Nat]
  BY <1>1, <1>2 DEF RestoreInventory, CanRestore, StoreTypeOK
<1>5. ticket' \in [Rows -> {"none", "VALID", "CANCELLED"}]
  BY DEF RestoreInventory, StoreTypeOK
<1>6. TicketsFollowOrder'
  <2> SUFFICES ASSUME NEW r \in Rows
               PROVE  ticket'[r] = IF r[3] > items[r[1]][r[2]] THEN "none"
                                   ELSE IF status'[r[1]] \in Live THEN "VALID"
                                   ELSE "CANCELLED"
    BY DEF TicketsFollowOrder
  <2>1. r[1] \in Orders
    BY DEF Rows
  <2>2. CASE r[1] = o
    <3>1. status'[r[1]] \notin Live /\ status[r[1]] \in Live
      BY <2>2 DEF Live, StoreTypeOK
    <3> QED BY <2>2, <3>1 DEF RestoreInventory, TicketsFollowOrder
  <2>3. CASE r[1] # o
    <3>1. status'[r[1]] = status[r[1]] /\ ticket'[r] = ticket[r]
      BY <2>1, <2>3 DEF RestoreInventory, StoreTypeOK
    <3> QED BY <3>1 DEF TicketsFollowOrder
  <2> QED BY <2>2, <2>3
<1>7. ItemsOfEvent' /\ \A p \in Orders : status'[p] = "none" => items'[p] = NoItems
  BY DEF ItemsOfEvent, StoreTypeOK
<1>8. ASSUME NEW r \in Rows
      PROVE  ticket'[r] = "VALID" <=> ticket[r] = "VALID" /\ r \notin OrderRows(o, items[o])
  <2>1. ticket[r] = "VALID" => ~(r[3] > items[r[1]][r[2]])
    BY DEF TicketsFollowOrder
  <2>2. r[1] = o => (ticket[r] = "VALID" => r[3] <= items[o][r[2]])
    BY <2>1, StoreAssumption DEF Rows, StoreTypeOK
  <2> QED BY <2>2 DEF RestoreInventory, OrderRows
<1>9. ASSUME NEW t \in Tiers
      PROVE  Cardinality(ValidRows(t)) = Cardinality(ValidRows(t))' + items[o][t]
  <2> DEFINE A == ValidRows(t)'
             B == RowsOf(o, t, items[o][t])
  <2>1. items[o][t] \in 0..MaxPerItem /\ MaxPerItem \in Nat
    BY StoreAssumption DEF StoreTypeOK
  <2>2. B \subseteq Rows /\ Cardinality(B) = items[o][t]
    BY <2>1, RowsOfCount
  <2>3. B = {r \in OrderRows(o, items[o]) : r[2] = t}
    BY <2>1 DEF RowsOf, OrderRows, Rows
  <2>4. B \subseteq ValidRows(t)
    BY HeldRows
  <2>5. ValidRows(t) = A \cup B /\ A \cap B = {}
    BY <1>8, <2>2, <2>3, <2>4 DEF ValidRows
  <2>6. A \subseteq Rows
    BY DEF ValidRows
  <2> QED BY <2>2, <2>5, <2>6, DisjointCount
<1>10. SoldCountsValidTickets' /\ NoOversell'
  <2> SUFFICES ASSUME NEW t \in Tiers
               PROVE  /\ quantity_sold'[t] = Cardinality(ValidRows(t))'
                      /\ Cardinality(ValidRows(t))' <= Quantity[t]
    BY DEF SoldCountsValidTickets, NoOversell
  <2>1. Cardinality(ValidRows(t))' \in Nat
    <3>1. (ValidRows(t))' \in SUBSET Rows
      BY DEF ValidRows
    <3> QED BY <3>1, RowCount
  <2>2. quantity_sold[t] = Cardinality(ValidRows(t)) /\ quantity_sold[t] <= Quantity[t]
    BY DEF SoldCountsValidTickets, NoOversell
  <2>3. quantity_sold'[t] = quantity_sold[t] - items[o][t]
    BY DEF RestoreInventory
  <2>4. items[o][t] \in Nat /\ Quantity[t] \in Nat
    BY StoreAssumption DEF StoreTypeOK
  <2> QED BY <1>9, <2>1, <2>2, <2>3, <2>4
<1>11. EventSoldCountsValidTickets'
  <2> SUFFICES ASSUME NEW e \in Events
               PROVE  tickets_sold'[e] = Cardinality(ValidEventRows(e))'
    BY DEF EventSoldCountsValidTickets
  <2> DEFINE A == ValidEventRows(e)'
             B == OrderRows(o, items[o])
  <2>1. A \in SUBSET Rows
    BY DEF ValidEventRows
  <2>2. B \subseteq ValidEventRows(OrderEvent[o])
    BY HeldRows
  <2>3. CASE e = OrderEvent[o]
    <3>1. ValidEventRows(e) = A \cup B /\ A \cap B = {}
      BY <1>1, <1>8, <2>2, <2>3 DEF ValidEventRows
    <3>2. Cardinality(ValidEventRows(e)) = Cardinality(A) + TicketCount(o, items[o])
      BY <1>1, <2>1, <3>1, DisjointCount DEF TicketCount
    <3>3. tickets_sold'[e] = tickets_sold[e] - TicketCount(o, items[o])
      BY <2>3 DEF RestoreInventory, StoreTypeOK
    <3>4. Cardinality(A) \in Nat
      BY <2>1, RowCount
    <3> QED BY <1>1, <3>2, <3>3, <3>4 DEF EventSoldCountsValidTickets
  <2>4. CASE e # OrderEvent[o]
    <3>1. ValidEventRows(e)' = ValidEventRows(e)
      BY <1>8, <2>2, <2>4 DEF ValidEventRows
    <3>2. tickets_sold'[e] = tickets_sold[e]
      BY <2>4 DEF RestoreInventory, StoreTypeOK
    <3> QED BY <3>1, <3>2 DEF EventSoldCountsValidTickets
  <2> QED BY <2>3, <2>4
<1> QED BY <1>3, <1>4, <1>5, <1>6, <1>7, <1>10, <1>11

(* A write that leaves items and the sale tables alone and does not move   *)
(* an order in or out of PENDING and CONFIRMED keeps the invariant.        *)
LEMMA SaleUntouched ==
  ASSUME StoreInv, StoreTypeOK', UNCHANGED <<items, saleVars>>,
         \A p \in Orders : /\ status'[p] \in Live <=> status[p] \in Live
                           /\ status'[p] = "none" => status[p] = "none"
  PROVE  StoreInv'
<1> USE DEF StoreInv, saleVars
<1>1. TicketsFollowOrder' /\ ItemsOfEvent'
  BY DEF TicketsFollowOrder, ItemsOfEvent, Rows
<1>2. \A p \in Orders : status'[p] = "none" => items'[p] = NoItems
  OBVIOUS
<1>3. /\ \A t \in Tiers : ValidRows(t)' = ValidRows(t)
      /\ \A e \in Events : ValidEventRows(e)' = ValidEventRows(e)
  BY DEF ValidRows, ValidEventRows
<1>4. SoldCountsValidTickets' /\ EventSoldCountsValidTickets' /\ NoOversell'
  BY <1>3
     DEF SoldCountsValidTickets, EventSoldCountsValidTickets, NoOversell
<1> QED BY <1>1, <1>2, <1>4

(* Confirming, cancelling or refunding an order keeps the invariant. *)
LEMMA OrderMovePreserves ==
  ASSUME StoreInv, NEW o \in Orders,
         \/ \E with_intent \in BOOLEAN : ConfirmTx(o, with_intent)
         \/ CancelTx(o)
         \/ RefundTx(o)
  PROVE  StoreInv'
<1> USE DEF StoreInv
<1>1. ASSUME NEW with_intent \in BOOLEAN, ConfirmTx(o, with_intent) PROVE StoreInv'
  <2>1. StoreTypeOK'
    BY <1>1 DEF ConfirmTx, StoreTypeOK, Statuses, saleVars
  <2>2. \A p \in Orders : /\ status'[p] \in Live <=> status[p] \in Live
                          /\ status'[p] = "none" => status[p] = "none"
    BY <1>1 DEF ConfirmTx, Locked, Live, StoreTypeOK
  <2> QED BY <1>1, <2>1, <2>2, SaleUntouched DEF ConfirmTx
<1>2. ASSUME CancelTx(o) PROVE StoreInv'
  <2>1. status[o] \in Live /\ status' = [status EXCEPT ![o] = "CANCELLED"]
    BY <1>2 DEF CancelTx, Locked, Live
  <2>2. RestoreInventory(o) /\ UNCHANGED items
    BY <1>2 DEF CancelTx
  <2>3. /\ quantity_sold' \in [Tiers -> Nat] /\ tickets_sold' \in [Events -> Nat]
        /\ ticket' \in [Rows -> {"none", "VALID", "CANCELLED"}]
        /\ TicketsFollowOrder' /\ ItemsOfEvent'
        /\ \A p \in Orders : status'[p] = "none" => items'[p] = NoItems
        /\ SoldCountsValidTickets' /\ EventSoldCountsValidTickets' /\ NoOversell'
    BY <2>1, <2>2, RestorePreserves
  <2>4. StoreTypeOK'
    BY <1>2, <2>3 DEF CancelTx, StoreTypeOK, Statuses
  <2> QED BY <2>3, <2>4
<1>3. ASSUME RefundTx(o) PROVE StoreInv'
  <2>1. status[o] \in Live /\ status' = [status EXCEPT ![o] = "REFUNDED"]
    BY <1>3 DEF RefundTx, Locked, Live
  <2>2. RestoreInventory(o) /\ UNCHANGED items
    BY <1>3 DEF RefundTx
  <2>3. /\ quantity_sold' \in [Tiers -> Nat] /\ tickets_sold' \in [Events -> Nat]
        /\ ticket' \in [Rows -> {"none", "VALID", "CANCELLED"}]
        /\ TicketsFollowOrder' /\ ItemsOfEvent'
        /\ \A p \in Orders : status'[p] = "none" => items'[p] = NoItems
        /\ SoldCountsValidTickets' /\ EventSoldCountsValidTickets' /\ NoOversell'
    BY <2>1, <2>2, RestorePreserves
  <2>4. StoreTypeOK'
    BY <1>3, <2>3 DEF RefundTx, StoreTypeOK, Statuses
  <2> QED BY <2>3, <2>4
<1> QED BY <1>1, <1>2, <1>3

(* Every transaction, and every write from outside the services, keeps the *)
(* inductive invariant.                                                    *)
LEMMA StepPreserves == StoreInv /\ [StoreNext]_storeVars => StoreInv'
<1> SUFFICES ASSUME StoreInv, [StoreNext]_storeVars PROVE StoreInv'
  OBVIOUS
<1> USE DEF StoreInv
<1>1. ASSUME NEW o \in Orders, NEW q \in Carts, CreateTx(o, q) PROVE StoreInv'
  BY <1>1, CreatePreserves
<1>2. ASSUME NEW o \in Orders, AttachTx(o) PROVE StoreInv'
  <2>1. StoreTypeOK'
    BY <1>2 DEF AttachTx, StoreTypeOK, saleVars
  <2> QED BY <1>2, <2>1, SaleUntouched DEF AttachTx
<1>3. ASSUME NEW o \in Orders,
             (\E with_intent \in BOOLEAN : ConfirmTx(o, with_intent))
               \/ CancelTx(o) \/ RefundTx(o)
      PROVE  StoreInv'
  BY <1>3, OrderMovePreserves
<1>4. ASSUME NEW o \in Orders, SoftDelete(o) PROVE StoreInv'
  <2>1. StoreTypeOK'
    BY <1>4 DEF SoftDelete, StoreTypeOK, saleVars
  <2> QED BY <1>4, <2>1, SaleUntouched DEF SoftDelete
<1>5. ASSUME NEW t \in Tiers, ToggleSale(t) PROVE StoreInv'
  <2>1. StoreTypeOK'
    BY <1>5 DEF ToggleSale, StoreTypeOK, orderVars, saleVars
  <2> QED BY <1>5, <2>1, SaleUntouched DEF ToggleSale, orderVars
<1>6. ASSUME Tick PROVE StoreInv'
  <2>1. StoreTypeOK'
    BY <1>6, StoreAssumption DEF Tick, StoreTypeOK, orderVars, saleVars
  <2> QED BY <1>6, <2>1, SaleUntouched DEF Tick, orderVars
<1>7. ASSUME UNCHANGED storeVars PROVE StoreInv'
  <2>1. StoreTypeOK'
    BY <1>7 DEF storeVars, StoreTypeOK, orderVars, saleVars
  <2> QED BY <1>7, <2>1, SaleUntouched DEF storeVars, orderVars
<1> QED BY <1>1, <1>2, <1>3, <1>4, <1>5, <1>6, <1>7 DEF StoreNext

(* StoreInv holds in every state of the order tables, whatever requests,   *)
(* webhooks, tasks and admin actions do in between.                        *)
THEOREM StoreInvariant == StoreSpec => []StoreInv
BY InitInv, StepPreserves, PTL DEF StoreSpec

(* Type correctness: in particular both counters stay non-negative, as     *)
(* their PositiveIntegerField demands.                                     *)
THEOREM TypeCorrect == StoreSpec => []StoreTypeOK
<1>1. StoreInv => StoreTypeOK
  BY DEF StoreInv
<1> QED BY <1>1, StoreInvariant, PTL

(* No tier is ever oversold, however many requests check out at once.      *)
THEOREM NeverOversold == StoreSpec => []NoOversell
<1>1. StoreInv => NoOversell
  BY DEF StoreInv
<1> QED BY <1>1, StoreInvariant, PTL

(* The two denormalised counters always agree with the ticket rows.        *)
THEOREM CountersAgree ==
  StoreSpec => []CountersExact
<1>1. StoreInv => CountersExact
  BY DEF StoreInv, CountersExact
<1> QED BY <1>1, StoreInvariant, PTL

(* Ticket rows always follow the status of their order. *)
THEOREM TicketsAgree == StoreSpec => []TicketsFollowOrder
<1>1. StoreInv => TicketsFollowOrder
  BY DEF StoreInv
<1> QED BY <1>1, StoreInvariant, PTL

(* Cancelling or refunding a live order never fails on a counter's CHECK.  *)
THEOREM CloseAlwaysPossible == StoreSpec => []CloseNeverBlocked
BY LiveCanRestore, StoreInvariant, PTL

-----------------------------------------------------------------------------
(* The refinement of TicketInventory.                                      *)

(* The empty tables are the untouched stock. *)
LEMMA InventoryInit == StoreInit => Inventory!Init
BY StoreAssumption
   DEF StoreInit, Inventory!Init, Inventory!Nothing, NoItems, phaseOf

(* Each transaction is a step of the inventory or leaves it alone:         *)
(* checkout reserves, confirmation sells, cancel and refund give back.     *)
LEMMA InventoryStep ==
  ASSUME StoreInv, StoreInv', [StoreNext]_storeVars
  PROVE  [Inventory!Next]_(Inventory!vars)
<1> USE DEF StoreInv
<1> DEFINE phase == [o \in Orders |-> phaseOf[status[o]]]
           free == [t \in Tiers |-> Quantity[t] - quantity_sold[t]]
<1>1. ASSUME NEW o \in Orders, NEW q \in Carts, CreateTx(o, q)
      PROVE  Inventory!Reserve(o, q) /\ q \in [Tiers -> 0..MaxPerItem]
  <2>1. q \in [Tiers -> 0..MaxPerItem] /\ MaxPerItem \in Nat
    BY StoreAssumption DEF Carts
  <2>2. phase[o] = "new"
    BY <1>1 DEF CreateTx, phaseOf
  <2>3. ASSUME NEW t \in Tiers PROVE q[t] <= free[t]
    <3>1. quantity_sold[t] \in Nat /\ quantity_sold[t] <= Quantity[t]
      BY DEF StoreTypeOK, SoldCountsValidTickets, NoOversell
    <3> QED BY <1>1, <2>1, <3>1, StoreAssumption
            DEF CreateTx, TiersValid, available_quantity
  <2>4. phase' = [phase EXCEPT ![o] = "reserved"]
    BY <1>1 DEF CreateTx, phaseOf, StoreTypeOK
  <2>5. free' = [t \in Tiers |-> free[t] - q[t]]
    BY <1>1, <2>1, StoreAssumption DEF CreateTx, StoreTypeOK
  <2> QED BY <1>1, <2>1, <2>2, <2>3, <2>4, <2>5 DEF CreateTx, Inventory!Reserve
<1>2. ASSUME NEW o \in Orders, NEW with_intent \in BOOLEAN, ConfirmTx(o, with_intent)
      PROVE  Inventory!Sell(o)
  <2>1. status[o] = "PENDING" /\ status' = [status EXCEPT ![o] = "CONFIRMED"]
    BY <1>2 DEF ConfirmTx, Locked
  <2>2. phase[o] = "reserved"
    BY <2>1 DEF phaseOf
  <2>3. phase' = [phase EXCEPT ![o] = "sold"]
    BY <2>1 DEF phaseOf, StoreTypeOK
  <2> QED BY <1>2, <2>2, <2>3 DEF ConfirmTx, saleVars, Inventory!Sell
<1>3. ASSUME NEW o \in Orders, CancelTx(o) \/ RefundTx(o)
      PROVE  Inventory!GiveBack(o)
  <2>1. PICK s \in {"CANCELLED", "REFUNDED"} : status' = [status EXCEPT ![o] = s]
    BY <1>3 DEF CancelTx, RefundTx
  <2>2. status[o] \in Live
    BY <1>3 DEF CancelTx, RefundTx, Locked, Live
  <2>3. phase[o] \in {"reserved", "sold"}
    BY <2>2 DEF phaseOf, Live
  <2>4. phase' = [phase EXCEPT ![o] = "returned"]
    <3>1. phaseOf[s] = "returned"
      BY DEF phaseOf
    <3>2. \A p \in Orders : phaseOf[status'[p]] = IF p = o THEN "returned" ELSE phase[p]
      BY <2>1, <3>1 DEF StoreTypeOK
    <3> QED BY <3>2
  <2>5. RestoreInventory(o) /\ UNCHANGED items
    BY <1>3 DEF CancelTx, RefundTx
  <2>6. free' = [t \in Tiers |-> free[t] + items[o][t]]
    BY <2>5, StoreAssumption DEF RestoreInventory, StoreTypeOK
  <2> QED BY <2>3, <2>4, <2>5, <2>6 DEF Inventory!GiveBack
<1>4. ASSUME UNCHANGED <<status, items, quantity_sold>>
      PROVE  UNCHANGED Inventory!vars
  BY <1>4 DEF Inventory!vars
<1>5. CASE \E o \in Orders : AttachTx(o) \/ SoftDelete(o)
  BY <1>4, <1>5 DEF AttachTx, SoftDelete, saleVars
<1>6. CASE (\E t \in Tiers : ToggleSale(t)) \/ Tick \/ UNCHANGED storeVars
  BY <1>4, <1>6 DEF ToggleSale, Tick, storeVars, orderVars, saleVars
<1> QED BY <1>1, <1>2, <1>3, <1>5, <1>6 DEF StoreNext, Inventory!Next

(* The order tables implement the ticket inventory. *)
THEOREM Implements == StoreSpec => ImplementsInventory
BY InventoryInit, InventoryStep, StoreInvariant, PTL
   DEF StoreSpec, ImplementsInventory, Inventory!Spec
=============================================================================
