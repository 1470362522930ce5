SPECIFICATION FairSpec
CONSTANTS
  h1 = h1
  h2 = h2
  Hook <- MCHooks
  Threshold <- MCThreshold
  Cooldown <- MCCooldown
  MaxCount <- MCMaxCount
INVARIANTS
  ProbedWithinCooldown
PROPERTIES
  GatingReturns
