CONSTANTS
  Theories <- MCAdded
  NameCode <- MCNameCode
  MaxPasses = 32
  VerifyValues <- MCVerifyValues
  DeviceCaps <- MCDeviceCaps
  InlineCaps <- MCInlineCaps
SPECIFICATION SearchSpec
INVARIANT LanesAsDecoded
CHECK_DEADLOCK FALSE
