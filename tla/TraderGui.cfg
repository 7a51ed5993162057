SPECIFICATION FairSpec
CONSTANTS
  Reports = {"fills"}
  Slots = {1}
  MaxSessions = 2
  MaxOrders = 1
INVARIANT ScreenOfSession
PROPERTY
  FinishedOrdersSettle
CHECK_DEADLOCK FALSE
