SPECIFICATION Spec
CONSTANTS
  r61 = r61
  r71 = r71
  Routes <- MCRoutes
  Limit = 1
  MaxTaps = 3
  MaxFaults = 1
  Online <- MCOnline
CHECK_DEADLOCK FALSE
INVARIANTS TypeOK RoomsFollowTheList OrderlyPagesAgree
