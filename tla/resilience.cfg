SPECIFICATION FairSpec
CONSTANTS
  k1 = k1
  k2 = k2
  k3 = k3
  Call <- MCCall
  Bare <- MCBare
  Slots <- MCSlots
  QueueSize <- MCQueueSize
  MaxRetries <- MCMaxRetries
INVARIANTS
  AbandonedStops
  RepeatsOnlyWhatWasLost
  RegistryCoversWork
PROPERTIES
  EveryCallReturns
CHECK_DEADLOCK FALSE
