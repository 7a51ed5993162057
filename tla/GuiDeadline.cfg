SPECIFICATION Spec
CONSTANTS
  Reports = {"fills"}
  Slots = {1}
  MaxSessions = 2
  MaxOrders = 1
INVARIANT
  AcceptedAreTracked
CHECK_DEADLOCK FALSE
