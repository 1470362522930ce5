SPECIFICATION FairSpec
CONSTANTS
  c1 = c1
  c2 = c2
  c3 = c3
  Caller <- MCCaller
  FailureLimit <- MCFailureLimit
  SuccessLimit <- MCSuccessLimit
  MaxRetries <- MCMaxRetries
  Slots <- MCSlots
INVARIANTS
  LoadNeverGrows
PROPERTIES
  Recovers
