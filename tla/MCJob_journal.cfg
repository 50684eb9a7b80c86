SPECIFICATION Spec
CONSTANTS
  Keys = {k1}
  NoKey = NoKey
  Clients = {c1}
  MaxJobs = 2
  MaxTxn = 3
  Foreign = {1}
  MaxRounds = 0
  SettleMax = 1
  History = 0
  RegistrationLag = FALSE
  SlowCancel = FALSE
  HeldListing = TRUE
INVARIANTS ReplayIsCurrent KeyAtMostOnce
PROPERTIES SubmitAtMostOnce ActionAtMostOnce
CHECK_DEADLOCK FALSE
