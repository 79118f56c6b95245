CONSTANTS
  ra = ra
  rb = rb
  books = books
  aged = aged
  fresh = fresh
  None = None
  Device = {ra, rb}
  Dir = {root, books}
  Root = root
  Name = {aged, fresh}
  Old = {aged}
  Configs <- MCConfigs
  FirstFiles <- MCFiles
  MaxOps = 3
  MaxOutside = 2
SPECIFICATION FairSpec
INVARIANTS TypeOK AskedOfTheRightDevice ListingKeepsUp
PROPERTIES NoSilentOverwrite BusyEnds
CHECK_DEADLOCK FALSE
