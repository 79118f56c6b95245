CONSTANTS
  gui = gui
  cli = cli
  worker = worker
  cron = cron
  u1 = u1
  u2 = u2
  u3 = u3
  None = None
  Process = {gui}
  Thread = {window, worker}
  Home <- MCHome
  Window = window
  Address = {u1, u2, u3}
  FirstSites <- MCSites
  Unfit = {}
  MaxOps = 2
  Disturbances = {"crash", "fail", "blind"}
SPECIFICATION FairSpec
INVARIANTS TypeOK FileWhole ChosenIsMeant
PROPERTIES ForeignSitesKept SavedMeansStored EverySaveEnds
