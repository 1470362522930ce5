SPECIFICATION PathSpec
CONSTANTS
  MaxSeq <- MCMaxSeq
  PageSize <- MCPageSize
  MaxFailures <- MCMaxFailures
  MaxCrashes <- MCMaxCrashes
  StalePages <- MCStalePages
  HardKills = TRUE
INVARIANTS
  HandedIsAccountedFor
  WokenOnce
CHECK_DEADLOCK FALSE
