SPECIFICATION Spec
CONSTANTS
  MaxSeq <- MCMaxSeq
  PageSize <- MCPageSize
  MaxFailures <- MCMaxFailures
  MaxCrashes <- MCMaxCrashes
  StalePages <- MCStalePages
INVARIANTS
  OneDrain
  HandedOnceInOrder
  LossIsBounded
PROPERTIES
  CheckpointAdvances
  RestartKeepsLadder
CHECK_DEADLOCK FALSE
