SPECIFICATION Spec
CONSTANTS
  Clients = {c1, c2}
  NoClient = NoClient
  LastFd = 5
  ClientMsgs <- AnySession
  MaxMsgs = 2
  Faults = {"reset", "fail", "full"}
  ErrorFdsReported = TRUE
  InitWriteFds <- AnyMemory
  SelectTimeout = "zero"
SYMMETRY Perms
INVARIANT AdmissionIsOrdered
INVARIANT RouterConsistent
INVARIANT DeadListSound
INVARIANT DescriptorIsClients
INVARIANT ReportedIsServed
PROPERTY ServiceSpec
