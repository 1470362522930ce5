SPECIFICATION RegistrySpec
CONSTANTS
  bob = bob
  bobci = bobci
  labelled = labelled
  unlabelled = unlabelled
  p1 = p1
  p2 = p2
  d1 = d1
  d2 = d2
  None = None
  Torn = Torn
  Agent <- MCAgent
  NamedAfter <- MCNamedAfter
  Bare <- MCBare
  Explicit <- MCExplicit
  Implicit <- MCImplicit
  Pid <- MCPid
  Cmd <- MCCmd
  MaxSpawns <- MCMaxSpawns
  MaxCommands <- MCMaxCommands
SYMMETRY MCSymmetry
INVARIANTS
  OneWatcherUnlessExcused
PROPERTIES
  OnlyOwnWatchersSignalled
  RegistrationKept
CHECK_DEADLOCK FALSE
