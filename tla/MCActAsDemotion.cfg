SPECIFICATION Spec
\* Everyone may be gone: nobody is left to make a request.
CHECK_DEADLOCK FALSE
CONSTANTS
  boss = boss
  ada = ada
  c1 = c1
  c2 = c2
  k1 = k1
  k2 = k2
  Users = {boss, ada}
  Roles = {"admin", "support", "member"}
  ActingRoles = {"admin", "support"}
  FullRoles = {"admin"}
  Keys = {k1, k2}
  Development = TRUE
  Requests = {c1, c2}
  Ttl = 1
  Second = 2
  MaxClock = 3
  MaxTickets = 1
  MaxChanges = 2
SYMMETRY RequestSymmetry
INVARIANT FullModeNeedsFullRole
