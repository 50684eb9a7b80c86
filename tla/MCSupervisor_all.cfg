SPECIFICATION FairSpec
CONSTANTS
  Callers = {c1, c2}
  Threads = {t1, t2, t3}
  None = None
  MaxChanges = 2
INVARIANT PromptWake
PROPERTY WakeTicks
CHECK_DEADLOCK FALSE
