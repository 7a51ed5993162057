SPECIFICATION Spec
CONSTANTS
  Files <- MCFiles
  Unreadable = {MissingFile, MalformedFile, WrongArguments}
  NotFinite = {NaN, Infinity}
  Blank = {" "}
  Names = {"A", "B", " ", " A"}
  Trimmed = {"A", "B"}
  PartsPerTick = 4
  MaxI64 = 15
  MaxInterval = 3
  MaxBuffer = 3
  MaxLevels = 3
  BasisPoints = 10
  None = None
INVARIANT HaltsOnlyOnLoss
