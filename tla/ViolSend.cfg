SPECIFICATION Spec
CONSTANTS
  Clients = {c1}
  NoClient = NoClient
  LastFd = 5
  ClientMsgs <- Admission
  MaxMsgs = 2
  Faults = {"close", "reset"}
  ErrorFdsReported = FALSE
  InitWriteFds <- ZeroedMemory
  SelectTimeout = "zero"
INVARIANT SendDisconnectionContained
