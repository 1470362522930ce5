SPECIFICATION Spec
CONSTANTS
  Session = {s1, s2}
  None = None
  Torn = Torn
  MaxMail = 1
  MaxOpens = 3
PROPERTIES
  ErasedIsKnown
  NewcomerIsTold
  ArrivalIsSurfaced
CHECK_DEADLOCK FALSE
