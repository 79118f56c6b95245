CONSTANTS
  desktop = desktop
  laptop = laptop
  window = window
  travel = travel
  None = None
  Computer = {desktop, laptop}
  Process = {window, travel}
  Home <- MCHome
  Site = {x}
  Row <- MCRow
  Copy = {desktop, laptop}
  Layouts <- MCLayouts
  MaxEdits <- MCEdits
  MaxTime = 1
  MaxFaults = 1
  Disturbances = {"busy", "blind", "fail", "swap", "crash", "delete"}
  x = x
  r = r
SPECIFICATION FairSpec
PROPERTIES FileKeepsRows LocalSitesKept RowsReachAll
