SPECIFICATION MCSpec
CONSTANTS
  Windows = {w1, w2}
  Edits = {e1, e2}
  First = e1
  Forms = {w1}
  BlockedReloads = FALSE
  MaxTroubles = 1
PROPERTIES NothingOverwritten QuietEditsSettle
CHECK_DEADLOCK FALSE
