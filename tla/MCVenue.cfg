SPECIFICATION VenueSpec
CONSTANTS
  Markets <- MCMarkets
  MaxPrice = 9
  QtyModulus = 8
  QuoteIdBase = 10
  OtherQuotes = 1
  ChildQtys = {1, 3, 5}
  MaxTicks = 2
  MaxChildren = 3
  NoLimit = NoLimit
  NoTaker = NoTaker
  Unquoted = Unquoted
  OrderIds <- MCOrderIds
INVARIANTS
  LadderRestored
  ChildrenMeetLadder
PROPERTY ImplementsAnyVenue
