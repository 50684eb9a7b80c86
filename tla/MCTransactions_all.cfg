SPECIFICATION MCSpec
CONSTANTS
  Target = job
  Entries = {job}
  Lifecycles = {}
  Registrations = {t1, t2}
  NoOwner = NoOwner
  NoReceipt = NoReceipt
  Plans = {p1, p2}
  NoPlan = NoPlan
  NoDir = NoDir
  NoJournal = NoJournal
  Foreign = Foreign
  UnsureWrites = FALSE
  MaxFaults = 2
  MaxStrangers = 2
  Intents = {i1, i2, i3}
  Callers = {c1, c2}
  Nobody = Nobody
  None = None
  MaxReceipts = 2
INVARIANTS PublishedIsRegistered ClaimedIsKept
PROPERTIES JournalSettles ImplementsSelection PendingSettles
CHECK_DEADLOCK FALSE
