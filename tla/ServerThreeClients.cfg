SPECIFICATION Spec
CONSTANTS
  Clients = {c1, c2, c3}
  NoClient = NoClient
  LastFd = 7
  ClientMsgs <- Poll
  MaxMsgs = 1
  Faults = {"close", "reset", "fail"}
  ErrorFdsReported = FALSE
  InitWriteFds <- ZeroedMemory
  SelectTimeout = "zero"
SYMMETRY Perms
INVARIANT TypeOK
INVARIANT RouterConsistent
INVARIANT WriteBitsAreConnections
INVARIANT DeadListSound
INVARIANT DescriptorIsClients
INVARIANT PendingIsScheduled
INVARIANT NoRouterBug
PROPERTY ServiceSpec
