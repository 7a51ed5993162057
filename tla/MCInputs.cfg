SPECIFICATION MCSpec
CONSTANTS
  Files <- MCFiles
  Unreadable = {MissingFile, MalformedFile, WrongArguments}
  NotFinite = {NaN, Infinity}
  Blank = {" "}
  Names = {"A", "B", " ", " A"}
  Trimmed = {"A", "B"}
  PartsPerTick = 4
  MaxI64 = 15
  MaxInterval = 3
  MaxBuffer = 3
  MaxLevels = 3
  BasisPoints = 10
  None = None
  Forms <- MCForms
  Requests <- MCRequests
  Clock = {2, 4}
  Trim <- MCTrim
  NoSymbol = ""
  Markets = {"SIM"}
  Words <- MCWords
  Empty = Empty
  Letters = Letters
  PriceParts = 4
  TimeParts = 2
  Precision = 16
  Grain = 512
  Spacings = {1, 2, 4, 8, 16, 32, 64, 128, 256, 512, 1024, 2048}
  TickScale = 5
  Second = 5
  MaxTicks = 31
  MaxU64 = 31
  MaxU32 = 6
  MaxSlices = 4
  MaxFloat = 20
INVARIANTS
  ValidationExact
  OrderFaithful
