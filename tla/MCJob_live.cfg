SPECIFICATION FairSpec
CONSTANTS
  Keys = {}
  NoKey = NoKey
  Clients = {c1}
  MaxJobs = 2
  MaxTxn = 2
  Foreign = {}
  MaxRounds = 1
  SettleMax = 2
  History = 1
  RegistrationLag = TRUE
  SlowCancel = TRUE
  HeldListing = TRUE
INVARIANT NoOrphan
PROPERTY Settles
CHECK_DEADLOCK FALSE
