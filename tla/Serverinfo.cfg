SPECIFICATION PanelFairSpec
CONSTANTS
  s1 = s1
  s2 = s2
  u1 = u1
  u2 = u2
  None = None
  Servers = {s1, s2}
  Updaters = {u1, u2}
  MaxOpens = 2
INVARIANTS
  DrawsWhole
PROPERTIES
  AllEnd
CHECK_DEADLOCK FALSE
