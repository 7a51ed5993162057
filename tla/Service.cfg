SPECIFICATION FairSpec
CONSTANTS
  Clients = {c1, c2}
  Subscribers = {c1}
  Nobody = nobody
  CommandBuffer = 2
  FillBuffer = 1
  StreamBuffer = 1
  Window = 1
  MaxFills = 2
INVARIANT
  CallsSound
PROPERTIES
  ImplementsFillFeed
  EveryCallEnds
  EngineStops
  ForwarderFollowsClient
  ReadersLetServeReturn
CHECK_DEADLOCK FALSE
