SPECIFICATION Spec
CONSTANTS
  routes1 = routes1
  routes2 = routes2
  bulk1 = bulk1
  refresh = refresh
  retry = retry
  RouteRequests <- MCRouteRequests
  BulkRequests <- MCBulkRequests
  Refresh <- refresh
  Retry <- retry
  MaxRetries = 3
INVARIANTS TypeOK MissingColorsAreReported
PROPERTIES ColorsRecover
