CONSTANTS
  None = None
  a = a
  b = b
  c = c
  e = e
  Objects = {a, b, c, e}
  Wanted = {b, c, e}
  Ers = {b, e}
  PageSize = 2
  MaxPages = 3
  Starts <- MCStarts
  MaxEdits = 2
  MaxFaults = 1
SPECIFICATION FairSpec
INVARIANTS TypeOK WrittenOnce StaleNonceIsRenewed NothingPassedOver
PROPERTIES EveryImportEnds
CHECK_DEADLOCK FALSE
