CONSTANTS
  gui = gui
  cli = cli
  worker = worker
  cron = cron
  u1 = u1
  u2 = u2
  u3 = u3
  None = None
  Process = {gui}
  Thread = {window, worker}
  Home <- MCHome
  Window = window
  Address = {u1, u2, u3}
  FirstSites <- MCSites
  Unfit = {u3}
  MaxOps = 3
  Disturbances = {}
SPECIFICATION Spec
INVARIANTS RowMeansSite
