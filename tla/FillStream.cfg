SPECIFICATION PageSpec
CONSTANTS
  Reports = {}
  Slots = {}
  MaxOrders = 0
  MaxSessions = 2
  MaxMade = 3
  MaxFills = 2
INVARIANT PageOfSession
PROPERTIES
  OldStreamEnds
  LiveAgain
CHECK_DEADLOCK FALSE
