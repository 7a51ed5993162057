SPECIFICATION FairSpec
CONSTANTS
  HalfWord = 4
  HalfValue = 9
  Symbols = {"A"}
  Mark <- MCMark
  FillPrices = {1, 3}
  OrderSpecs <- MCOrderSpecs
  MaxTime = 2
  MaxParents = 3
  NoLimit = NoLimit
  MaxOrderQty = 3
  MaxOrderNotional = 9
  MaxPosition = 3
  MaxGross = 10
  CollarBps = 5000
  MaxLoss = 2
  Retained = 1
INVARIANTS
  TypeOK
  Registry
  AmountsOrdered
  ChildrenAccount
  StreamAgrees
  LossGuard
  ExpiredOfferedAll
PROPERTIES
  TerminalIsFinal
  ImplementsRiskBudget
  EveryOrderFinishes
