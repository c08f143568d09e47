SPECIFICATION FairSpec
CONSTANTS
  abc = abc
  kick = kick
  r1 = r1
  r2 = r2
  x = x
  y = y
  Tenants = {abc, kick}
  Calls = {r1, r2}
  Clients = {x, y}
  MaxPool = 1
  Suspects = {abc}
  None = None
INVARIANTS OneClientPerTenant CountedRight HeldOpen OverrunBounded
PROPERTIES Reconnects
CHECK_DEADLOCK FALSE
