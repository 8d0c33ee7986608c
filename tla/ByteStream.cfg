SPECIFICATION FairSpec
CONSTANTS
  FirstPayload = 2
  BlockPayload = 2
  L2Header = 5
  StdioBuffer = 4
  Emitter = "server"
  LenSize = 2
  HeaderSize = 3
  EWOULDBLOCK = 4
  GarbageLengths <- AnyLength
  Requests <- ThreeRequests
  MaxRequests = 2
  MaxBlocks = 6
  ShortSends <- Refusals
  MaxShort = 1
  Ends = {"stop", "kill", "reset"}
CHECK_DEADLOCK FALSE
INVARIANT TypeOK
INVARIANT Fifo
INVARIANT AbortNeedsHalfMessage
INVARIANT BlocksAreContiguous
PROPERTY ChannelSpec
PROPERTY EverythingArrives
