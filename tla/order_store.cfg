\* The order tables and their transactions.
SPECIFICATION StoreSpec
CONSTANTS
  o1 = o1
  o2 = o2
  t1 = t1
  t2 = t2
  t3 = t3
  e1 = e1
  e2 = e2
  Orders <- MCOrders
  Tiers <- MCTiers
  Events <- MCEvents
  EventOf <- MCEventOf
  OrderEvent <- MCOrderEvent
  Quantity <- MCQuantity
  MaxPerItem = 2
  HoldTime = 1
  MaxTime = 2
INVARIANTS
  StoreInv
  NoOversell
  CloseNeverBlocked
PROPERTY
  ImplementsInventory
