SPECIFICATION Spec
CONSTANTS
  FirstPayload = 2
  BlockPayload = 2
  L2Header = 16
  StdioBuffer = 4
  Emitter = "client"
  LenSize = 2
  HeaderSize = 3
  EWOULDBLOCK = 11
  GarbageLengths <- AnyLength
  Requests <- OneMessage
  MaxRequests = 2
  MaxBlocks = 2
  ShortSends <- HeaderCut
  MaxShort = 1
  Ends = {}
CHECK_DEADLOCK FALSE
INVARIANT Fifo
