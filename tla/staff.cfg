\* Two organizers or admins at work, with any commits between their loads and saves.
CONSTANTS
  o1 = o1
  o2 = o2
  t1 = t1
  e1 = e1
  s1 = s1
  s2 = s2
  Orders <- MCOrders
  Tiers <- MCTiers
  Events <- MCEvents
  EventOf <- MCEventOf
  OrderEvent <- MCOrderEvent
  Quantity <- MCQuantity
  MaxPerItem = 1
  HoldTime = 1
  MaxTime = 0
  Staff <- MCTwoStaff
  Capacities = {2}
  WorkOn = FALSE
SPECIFICATION StaffSpec
SYMMETRY MCSymmetry
INVARIANT
  TablesHoldUntilClobbered
PROPERTY
  EventMovesForward
