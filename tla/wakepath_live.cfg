SPECIFICATION PathSpec
CONSTANTS
  MaxSeq <- LiveMaxSeq
  PageSize <- MCPageSize
  MaxFailures <- MCMaxFailures
  MaxCrashes <- LiveMaxCrashes
  StalePages <- LiveStalePages
  HardKills = FALSE
PROPERTIES
  EveryDeliveryWakes
  DeadSocketStops
  DrainEnds
  StopCompletes
CHECK_DEADLOCK FALSE
