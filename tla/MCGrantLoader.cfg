SPECIFICATION Spec
CONSTANTS
  member = member
  rep = rep
  super = super
  none = none
  c1 = c1
  c2 = c2
  Roles <- MCRoles
  SuperRoles = {super}
  Tables = {"orders"}
  Actions = {"read"}
  Columns = {"owner", "status"}
  Values = {1, 2}
  ClaimNames = {"customer"}
  Absent = none
  Calls = {c1, c2}
  Matrices <- MCMatrices
  Ttl = 1
  MaxFlight = 1
  MaxClock = 3
  MaxEdits = 2
SYMMETRY CallSymmetry
INVARIANTS TypeOK NoWidening RolesAdd QuietRefreshShowsEdits
PROPERTIES EditsTakeEffect
