SPECIFICATION Spec
CONSTANTS
  UiCalls = {"credentials"}
  Faults = {}
INVARIANT CredentialsAreKept
