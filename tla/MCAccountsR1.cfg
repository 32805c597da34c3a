SPECIFICATION Spec
CONSTANTS
  u1 = u1
  u2 = u2
  admin = admin
  ann = ann
  bob = bob
  p = p
  q = q
  r1 = r1
  r2 = r2
  none = none
  UserIds <- MCUserIds
  Usernames <- MCUsernames
  DefaultAdmin <- admin
  Profiles <- MCProfiles
  Kinds <- NamesStay
  Requests <- MCRequests
  NoAccount <- none
SYMMETRY Symmetry
PROPERTIES R1AtLeastOneAdministrator
