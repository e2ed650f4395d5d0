SPECIFICATION Spec
CONSTANTS
  biz = biz
  m = m
  home = home
  east = east
  Client = {c1, c2}
  Query <- Queries
  None = None
  BizZone <- Zones
  Offset <- Offsets
  DayLength = 2
  Ttl = 1
  MaxRun = 1
  MaxClock = 3
  MaxVersion = 1
SYMMETRY Interchangeable
CHECK_DEADLOCK FALSE
INVARIANT ServedAsAsked
