SPECIFICATION Spec
CONSTANTS
  u1 = u1
  site = site
  admin = admin
  b1 = b1
  c1 = c1
  c2 = c2
  c3 = c3
  Users = {u1}
  Surfaces = {site, admin}
  Browsers = {b1}
  Requests = {c1, c2}
  AccessTtl = 1
  RefreshTtl = 2
  SweepGrace = 0
  MaxClock = 3
  MaxSends = 3
  MaxLost = 0
SYMMETRY RequestSymmetry
INVARIANTS HeadOfLineage DeadPairsResolveNothing AnswerStaysOnSurface
PROPERTIES OnlyRevocationEndsLiveSession LeasesSpec
