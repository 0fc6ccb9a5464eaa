SPECIFICATION UpdatesSpec
CONSTANTS
  alice = alice
  download = download
  report = report
  first = first
  second = second
  Second = 1
  RequestKeys = {alice}
  Handlers = {download, report}
  Policies <- MCPolicies
  MaxCounters = 3
  EvictShare = 10
  MaxTime = 1
  Updaters = {first, second}
  Requests = {first, second}
INVARIANTS UpdatesTypeOK OldHitsAreLate
PROPERTY StrangersKept
CHECK_DEADLOCK FALSE
