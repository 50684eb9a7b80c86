SPECIFICATION MCSpec
CONSTANTS
  Searchers = {s1}
  Claimers = {k1}
  Results = {r1, r2}
  Importer = Importer
  Nobody = Nobody
  MaxInFlight = 1
  MaxRecords = 1
  LateSaves = FALSE
  MaxImports = 2
  MaxSaves = 1
  MaxSwitches = 3
  MaxCrashes = 1
  Entries = {"source", "destination", "elsewhere"}
  Lifecycles = {1, 2}
  Registrations = {publish}
  NoOwner = NoOwner
  NoReceipt = NoReceipt
  Services = {p1, p2}
  None = None
  Failing <- EveryStep
  Outsiders = {"user", "registry", "jobs"}
  MaxTroubles = 2
SYMMETRY Symmetry
INVARIANTS OneUsePerResult ImportIsAllOrNothing ReservationsAreHeld LedgerAuthority ProjectKept Agreement
PROPERTIES NothingStaleIsPublished MoveKeepsEdits
CHECK_DEADLOCK FALSE
