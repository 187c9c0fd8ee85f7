\* The sweep as its task calls it, with no transaction around it, however often.
CONSTANTS
  o1 = o1
  t1 = t1
  e1 = e1
  w1 = w1
  w2 = w2
  Tiers <- MCTiers
  Events <- MCEvents
  EventOf <- MCEventOf
  OrderEvent <- MCOrderEvent
  Quantity <- MCQuantity
  MaxPerItem = 1
  HoldTime = 1
  MaxTime = 2
  Orders <- MCOne
  Workers <- MCPair
  SweepInTransaction = FALSE
SPECIFICATION SweptSpec
PROPERTY
  OverdueOrdersClose
\* The clock is bounded and every order may be closed.
CHECK_DEADLOCK FALSE
