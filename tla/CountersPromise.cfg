SPECIFICATION PromiseSpec
CONSTANTS
  alice = alice
  download = download
  report = report
  Second = 1
  RequestKeys = {alice}
  Handlers = {download, report}
  Policies <- MCPolicies
  MaxCounters = 2
  EvictShare = 2
  MaxTime = 3
INVARIANT TableBounded
PROPERTIES KeepsPromise EvictionNeedsCrowd
