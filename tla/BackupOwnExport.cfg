CONSTANTS
  desktop = desktop
  window = window
  x = x
  r = r
  None = None
  Computer = {desktop}
  Process = {window}
  Home <- MCHome
  Site = {x}
  Row <- MCRow
  Copy = {desktop}
  Layouts <- MCLayouts
  MaxEdits <- MCEdits
  MaxTime = 2
  MaxFaults = 1
  Disturbances = {"fail"}
SPECIFICATION PromisesSpec
PROPERTIES OwnExportNeverWins
