SPECIFICATION Spec
CONSTANTS
  alice = alice
  download = download
  Second = 2
  RequestKeys = {alice}
  Handlers = {download}
  Policies <- MCChangingRule
  MaxCounters = 1
  EvictShare = 10
  MaxTime = 8
INVARIANTS TypeOK HistoriesOrdered AdmittedSpread RetryAfterExact
