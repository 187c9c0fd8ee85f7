\* Two requests change the seats and announce them, two clients watch.
CONSTANTS
  s1 = s1
  s2 = s2
  c1 = c1
  c2 = c2
  Sellers <- MCSellers
  Clients <- MCClients
  InboxLimit = 2
  MaxChanges = 3
SPECIFICATION SeatsFairSpec
INVARIANTS
  SeatsInv
  StaleOnlyForAReason
PROPERTY
  EveryWatcherCatchesUp
\* The changes are bounded and the clients may have gone.
CHECK_DEADLOCK FALSE
