SPECIFICATION Spec
CONSTANTS
  Keys = {}
  NoKey = NoKey
  Clients = {c1}
  MaxJobs = 3
  MaxTxn = 3
  Foreign = {1}
  MaxRounds = 1
  SettleMax = 2
  History = 1
  RegistrationLag = FALSE
  SlowCancel = FALSE
  HeldListing = FALSE
INVARIANTS AtMostOneLive NoStaleVerdict AutoRoundsBounded
CHECK_DEADLOCK FALSE
