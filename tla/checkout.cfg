\* Two overlapping checkouts of one attendee, as slow as they like, whose orders others
\* may close before or after their deadline.
CONSTANTS
  o1 = o1
  o2 = o2
  t1 = t1
  t2 = t2
  e1 = e1
  a1 = a1
  NoOne = NoOne
  Tiers <- MCTiers
  Events <- MCEvents
  Attendees <- MCAttendees
  EventOf <- MCEventOf
  OrderEvent <- MCOrderEvent
  Buyer <- MCBuyer
  Quantity <- MCQuantity
  MaxPerItem = 1
  HoldTime = 1
  LockTTL = 1
  MaxTime = 1
  Orders <- MCPair
SPECIFICATION FairSpec
INVARIANTS
  CheckoutInv
  AnswerIsTrue
  OneHoldPerTier
PROPERTIES
  ImplementsStore
  CheckoutEnds
\* The clock is bounded and every request may have ended.
CHECK_DEADLOCK FALSE
