SPECIFICATION FairSpec
CONSTANTS
  Clients = {c1, c2}
  NoClient = NoClient
  LastFd = 6
  ClientMsgs <- Questions
  MaxMsgs = 2
  Faults = {}
  ErrorFdsReported = FALSE
  InitWriteFds <- ZeroedMemory
  SelectTimeout = "zero"
PROPERTY Answered
PROPERTY PendingIsAccepted
