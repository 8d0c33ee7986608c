SPECIFICATION Spec
CONSTANTS
  Clients = {c1}
  NoClient = NoClient
  LastFd = 5
  ClientMsgs <- Admission
  MaxMsgs = 2
  Faults = {"full"}
  ErrorFdsReported = FALSE
  InitWriteFds <- ZeroedMemory
  SelectTimeout = "zero"
INVARIANT PendingIsScheduled
