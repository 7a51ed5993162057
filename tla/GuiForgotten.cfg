SPECIFICATION Spec
CONSTANTS
  Reports = {"fills"}
  Slots = {1}
  MaxSessions = 2
  MaxOrders = 1
INVARIANT
  ForgottenSaysSo
CHECK_DEADLOCK FALSE
