SPECIFICATION MCSpec
CONSTANTS
  MaxSlices = 3
  FullRate = 3
  FloatError = 1
  Second = 1
  Requests <- AllRequests
  ShortfallCalls <- IsCalls
  Starts = {1, 2}
  Ends = {2, 4, 7}
  Quantities = {0, 2, 5}
  SliceCounts = {0, 1, 3, 4}
  Weights = {0, 1, 2}
  Rates = {0, 2, 4}
  Volumes = {1, 4}
  HalfWord = 5
  HalfValue = 50
  Prices = {1, 2, 4}
  Symbols = {"A", "B"}
  Mark <- AccountsMark
  MaxPosition = 2
  MaxGross = 6
CHECK_DEADLOCK FALSE
INVARIANTS
  SchedulesAreExecutable
  PacedAsPromised
  WithinParticipation
  ProfileMatchesSlices
  AlmgrenChriss
  NetCashIdentity
  AverageWithinPrices
  OverflowIsReal
  PositionWithinLimit
  GrossWithinLimit
PROPERTY ImplementsSchedules
