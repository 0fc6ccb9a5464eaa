SPECIFICATION EndpointSpec
CONSTANTS
  Rates = {1, 2}
  Delays = {1, 2}
  RetryAfters = {1, 2}
  MaxRules = 3
  Names = {"video_response", "video", "media"}
  Routes <- MCRoutes
  Identifiers <- MCIdentifiers
  Raws = {"::1", "0:0::1", "10.0.0.1", "testclient"}
  Address <- MCAddress
  HeaderLength = 2
  MaxUpdates = 2
INVARIANTS StrongestApplied  SettledNamesDecide IdentityAgrees
VIEW Ahead
CHECK_DEADLOCK FALSE
