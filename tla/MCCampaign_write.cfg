SPECIFICATION MCSpec
CONSTANTS
  relax = relax
  freq = freq
  d1 = d1
  d2 = d2
  d3 = d3
  Tasks = {relax}
  DependsOn <- Single
  Drivers = {d1, d2, d3}
  Mortal = {d2}
  Operators = {o1, o2}
  Reviewers = {r1}
  Nobody = Nobody
  MaxRevision = 5
  MaxLedger = 3
INVARIANTS ExecutedOnce AcceptedIsAuthorised
CHECK_DEADLOCK FALSE
