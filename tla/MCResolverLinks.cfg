SPECIFICATION FairSpec
\* Nobody is obliged to write.
CHECK_DEADLOCK FALSE
CONSTANTS
  c1 = c1
  c2 = c2
  r1 = r1
  x = x
  y = y
  Ids = {r1}
  Owners = {"ann", "bob"}
  Scopes <- MCScopes
  Far = {x, y}
  Requests = {c1, c2}
  MaxSends = 3
PROPERTY WritesAreExact
