SPECIFICATION MCSpec
CONSTANTS
  Callers = {c1, c2}
  Projects = {p1, p2}
  Dests = {d1}
  Contents = {a, b}
  First = a
  NoProject = NoProject
  NoFile = NoFile
  NoClaim = NoClaim
  NoEntry = NoEntry
  NoMarker = NoMarker
  NoCopy = NoCopy
  Foreign = Foreign
  MaxSeq = 2
  MaxFaults = 1
  MaxStrangers = 1
INVARIANT ReadyWasRecorded
PROPERTIES BundlesAreKept MarkedBecomesReady
CHECK_DEADLOCK FALSE
