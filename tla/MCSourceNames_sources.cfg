SPECIFICATION Spec
CONSTANTS
  b1 = b1
  b2 = b2
  s1 = s1
  s2 = s2
  x = x
  y = y
  Request = {r1, r2, r3}
  Business = {b1, b2}
  Name = {x, y, z}
  Existing = {s1, s2}
  OwnerOf <- OneEach
  NameOf <- Names
  NoName = NoName
  MaxRetries = 2
SYMMETRY Interchangeable
CHECK_DEADLOCK FALSE
INVARIANT RefusedForACause
PROPERTY DeletedStays
