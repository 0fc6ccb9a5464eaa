SPECIFICATION FollowedSpec
CONSTANTS
  web = web
  worker = worker
  Second = 1
  Processes = {web, worker}
  Updaters = {web}
  Before <- MCBefore
  After <- MCAfter
  Lifetimes = {1}
  MaxValue = 2
  MaxTime = 2
  MaxFaults = 4
INVARIANTS TypeOK GrantsBounded UpdateStartsAfresh
PROPERTY AcknowledgedSeen
VIEW Asked
