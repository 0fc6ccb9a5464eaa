SPECIFICATION Spec
CONSTANTS
  web = web
  worker = worker
  Second = 1
  Processes = {web, worker}
  Updaters = {web}
  Before <- MCBefore
  After <- MCAfter
  Lifetimes = {1}
  MaxValue = 2
  MaxTime = 2
  MaxFaults = 0
INVARIANT UpdatesStayLocal
