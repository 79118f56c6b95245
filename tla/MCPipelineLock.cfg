CONSTANTS
  gui = gui
  cli = cli
  watch = watch
  request = request
  poll = poll
  cron = cron
  None = None
  Process <- MCProcess
  Thread <- MCThread
  Home <- MCHome
  Runner = {cron}
  Watcher = {watch}
  Dashboard = {request}
  Poller = {poll}
  Observed = {request}
SPECIFICATION ObservedSpec
INVARIANTS OneRunAtATime LockOwners FreeMeansFree
PROPERTIES EveryCallReturns PipelineLockReturned ImplementsSerialRuns
