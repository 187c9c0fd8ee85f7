\* Two workers race over one order; either may die or fail at any step, and somebody may
\* call the sweep inside a transaction, as the tests do.
CONSTANTS
  o1 = o1
  t1 = t1
  e1 = e1
  w1 = w1
  w2 = w2
  Tiers <- MCTiers
  Events <- MCEvents
  EventOf <- MCEventOf
  OrderEvent <- MCOrderEvent
  Quantity <- MCQuantity
  MaxPerItem = 2
  HoldTime = 1
  MaxTime = 2
  Orders <- MCOne
  Workers <- MCPair
  SweepInTransaction = TRUE
SPECIFICATION FairSpec
INVARIANTS
  SettlementInv
  EventsPursued
PROPERTIES
  ImplementsStore
  PaidOrdersSettle
  
  ConfirmedOrdersGetTickets
\* The clock is bounded and every order may be closed.
CHECK_DEADLOCK FALSE
