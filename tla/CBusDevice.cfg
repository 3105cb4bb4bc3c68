SPECIFICATION FairSpec
CONSTANTS
  BusBytes = 2
  LineCount = 2
  Byte = {0, 1}
  AllowReset = TRUE
  Requests <- MCRequests
  Payloads <- MCPayloads
  Images <- MCImages
INVARIANT SanityChecks
PROPERTIES ImplementsCBus AlwaysAnswered
