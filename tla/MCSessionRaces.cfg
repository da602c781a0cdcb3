SPECIFICATION FairSpec
CONSTANTS
  u1 = u1
  site = site
  admin = admin
  b1 = b1
  c1 = c1
  c2 = c2
  c3 = c3
  Users = {u1}
  Surfaces = {site}
  Browsers = {b1}
  Requests = {c1, c2, c3}
  AccessTtl = 1
  RefreshTtl = 1
  SweepGrace = 0
  MaxClock = 0
  MaxSends = 4
  MaxLost = 1
INVARIANTS TypeOK SingleUse SessionHeld LogoutMissesOnlyRotated
PROPERTIES NoRevival SuspensionHolds JarCatchesUp
