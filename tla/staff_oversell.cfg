\* An edit of a tier saves the counter it loaded over a sale.
CONSTANTS
  o1 = o1
  o2 = o2
  t1 = t1
  e1 = e1
  s1 = s1
  s2 = s2
  Orders <- MCOrders
  Tiers <- MCTiers
  Events <- MCEvents
  EventOf <- MCEventOf
  OrderEvent <- MCOrderEvent
  Quantity <- MCScarce
  MaxPerItem = 1
  HoldTime = 1
  MaxTime = 0
  Staff <- MCOneStaff
  Capacities = {0, 2}
  WorkOn = FALSE
SPECIFICATION StaffSpec
INVARIANT
  NoOversell
