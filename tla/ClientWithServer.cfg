SPECIFICATION FairSpec
CONSTANTS
  UiCalls = {"credentials", "stop", "flush"}
  Faults = {"unreachable", "refuse", "fin", "rst"}
INVARIANT TypeOK
INVARIANT ServerUnharmed
INVARIANT AgreesWithServer
INVARIANT NeverRejected
PROPERTY Registers
PROPERTY StopEnds
