SPECIFICATION Spec
CONSTANTS
  alice = alice
  theme = theme
  visits = visits
  IPs = {alice}
  OtherKeys = {theme, visits}
  MaxKeys = 2
  EvictShare = 10
  Lifetimes = {1, 2}
  MaxValue = 2
  MaxTime = 2
INVARIANT TypeOK
PROPERTIES DropsLeastRecentlyUsed KeepsPromise
