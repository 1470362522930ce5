SPECIFICATION Spec
CONSTANTS
  Window <- MCWindow
  Quiet <- MCQuiet
  MaxMessages <- MCMaxMessages
  MaxWaiting <- MCMaxWaiting
INVARIANTS
  HoldIsBounded
  FifoExactlyOnce
PROPERTY
  ImplementsWakeQueue
CHECK_DEADLOCK FALSE
