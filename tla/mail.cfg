SPECIFICATION KeySpec
CONSTANTS
  a = a
  s1 = s1
  s2 = s2
  t1 = t1
  t2 = t2
  p1 = p1
  p2 = p2
  Agent = {a}
  Seat = {s1, s2}
  AgentOf <- MCAgentOf
  Process = {p1, p2}
  Rotated = {s1}
  None = None
  Blank = Blank
  Other = Other
  MaxKeys <- MCMaxKeys
  MaxMail = 1
  MaxNotes = 1
  Signer = {t1, t2}
  Client = {p1, p2}
  Absent = Absent
  MaxLetters = 1
  MaxWithdrawn = 1
  MaxEdits = 1
SYMMETRY Interchangeable
INVARIANTS
  KeysInUseAreHeld
  SignaturesTellTheTruth
PROPERTIES
  NotesKeepTheirReader
CHECK_DEADLOCK FALSE
