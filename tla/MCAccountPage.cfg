SPECIFICATION Spec
CONSTANTS
  Ids <- MCIds
  Me = "me"
  FirstName <- MCFirstName
  NewName = "new"
  MaxTaps = 3
  MaxWrites = 1
  MaxFaults = 1
CHECK_DEADLOCK FALSE
INVARIANTS TypeOK  
