SPECIFICATION SubscriptionsSpec
CONSTANTS
  ann = ann
  ben = ben
  a = a
  b = b
  c = c
  d = d
  r1 = r1
  r2 = r2
  Users <- MCUsers
  Routes <- MCRoutes
  SubscriptionIds <- MCIds
  Limit = 2
  Requests <- MCRequests
SYMMETRY Symmetry
INVARIANTS SubscriptionsTypeOK OneSubscriptionPerRoute OvershootIsBounded
