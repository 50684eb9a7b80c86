SPECIFICATION MCSpec
CONSTANTS
  Callers = {c1, c2}
  Jobs = {j1, j2}
  First = j1
  Files = {f1, f2}
  Ids = {i1, i2}
  Junk = Junk
  NoJob = NoJob
  NoId = NoId
  NoFile = NoFile
  NoFiles = NoFiles
  NoDecision = NoDecision
  NoJournal = NoJournal
  MaxFaults = 1
  MaxStrangers = 1
INVARIANTS ReusedOrComputed ReusedIsWhole
PROPERTIES RepeatCompletes
CHECK_DEADLOCK FALSE
