SPECIFICATION DoctorSpec
CONSTANTS
  m1 = m1
  m2 = m2
  Monitor <- MCMonitor
  MaxMail <- MCMaxMail
  PageLimit <- MCPageLimit
  ListLimit <- MCListLimit
  ScanLimit <- MCScanLimit
  TrimAt <- MCTrimAt
  TrimTo <- MCTrimTo
  MaxKills <- MCMaxKills
INVARIANTS
  ClaimedIsAccountedFor
  DoctorIsRight
PROPERTIES
  WokenOncePerLedger
  PageMailWakes
