\* Two connections run the transactions of two orders statement by statement.
CONSTANTS
  o1 = o1
  o2 = o2
  t1 = t1
  t2 = t2
  e1 = e1
  x1 = x1
  x2 = x2
  NoOne = NoOne
  Orders <- MCOrders
  Tiers <- MCTiers
  Events <- MCEvents
  EventOf <- MCEventOf
  OrderEvent <- MCOrderEvent
  Quantity <- MCQuantity
  Requests <- MCRequests
  Staffers <- MCStaffers
  SaveAgain = FALSE
  StaffTiers <- MCStaffTiers
  Intents <- MCIntents
  MaxPerItem = 1
  HoldTime = 1
  MaxTime = 0
SPECIFICATION FairSpec
INVARIANTS
  RowLocksInv
  DeadlocksOnlyOverTiers
PROPERTIES
  CommitsFollowStore
  TransactionsEnd

