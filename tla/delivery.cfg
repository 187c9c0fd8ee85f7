\* One worker, one refusal and one worker death.
CONSTANTS
  o1 = o1
  t1 = t1
  e1 = e1
  r1 = r1
  Orders <- MCOrders
  Tiers <- MCTiers
  Events <- MCEvents
  EventOf <- MCEventOf
  OrderEvent <- MCOrderEvent
  Quantity <- MCQuantity
  MaxPerItem = 1
  HoldTime = 2
  MaxTime = 1
  AbandonAfter = 1
  Sweeps = {"reminder", "cart"}
  Runners <- MCRunners
  Queues = {"assets", "emails"}
  MaxRetries = 1
  MaxFailures = 1
  MaxDeaths = 1
SPECIFICATION FairSpec
INVARIANTS
  DeliveryInv
  MailedOnce
PROPERTIES
  SentStaysQuiet
  TicketsMailed
  GoneCartsForgotten
