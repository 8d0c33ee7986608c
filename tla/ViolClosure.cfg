SPECIFICATION FairSpec
CONSTANTS
  Clients = {c1}
  NoClient = NoClient
  LastFd = 5
  ClientMsgs <- Leave
  MaxMsgs = 2
  Faults = {"close"}
  ErrorFdsReported = FALSE
  InitWriteFds <- ZeroedMemory
  SelectTimeout = "zero"
PROPERTY ClosureIsSeen
