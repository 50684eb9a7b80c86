SPECIFICATION MCLockSpec
CONSTANTS
  relax = relax
  freq = freq
  d1 = d1
  d2 = d2
  d3 = d3
  Tasks = {relax, freq}
  DependsOn <- Chain
  Drivers = {d1, d2, d3}
  Mortal = {d1, d2}
  Operators = {o1}
  Reviewers = {}
  Nobody = Nobody
  MaxRevision = 0
  MaxLedger = 2
INVARIANT RunLockMutex
PROPERTY Attended
