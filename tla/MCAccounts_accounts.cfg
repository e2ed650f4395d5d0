SPECIFICATION Spec
CONSTANTS
  a1 = a1
  x = x
  X = X
  u = u
  b = b
  B = B
  Writer = {w1, w2}
  Session = {s1, s2}
  Existing = {a1}
  Name = {x, X, u, b, B}
  NameOf <- Names
  Like <- Likes
  NoName = NoName
  NoToken = NoToken
  MaxRetries = 2
SYMMETRY Interchangeable
CHECK_DEADLOCK FALSE
INVARIANT AlikeOnlyIfRaced
INVARIANT ConflictMeansContention
INVARIANT TokensWorkOnce
