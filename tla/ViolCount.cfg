SPECIFICATION Spec
CONSTANTS
  Clients = {c1, c2}
  NoClient = NoClient
  LastFd = 6
  ClientMsgs <- Hello
  MaxMsgs = 1
  Faults = {}
  ErrorFdsReported = FALSE
  InitWriteFds <- ZeroedMemory
  SelectTimeout = "zero"
INVARIANT CountIsServed
