SPECIFICATION AlertsSpec
CONSTANTS
  empty = empty
  detour = detour
  strike = strike
  Feeds <- MCFeeds
  NoAlerts <- empty
INVARIANTS AlertsTypeOK ClientsLagOneFetch
PROPERTIES ClientsGetTheFeed
