SPECIFICATION Spec
CONSTANTS
  s1 = s1
  f1 = f1
  Request <- Requests
  Num = {n1}
  Source = {s1}
  Forward = {f1}
  Updater = {u1, u2}
  Remover = {d1}
  Deleter = {x1}
  MAX_RETRIES = 2
  None = None
  NoRoute = NoRoute
  Keep = Keep
CHECK_DEADLOCK FALSE
SYMMETRY Interchangeable
INVARIANT TypeOK
INVARIANT WritesWhatItRead
INVARIANT RoutedIsLive
INVARIANT NoDangling
INVARIANT StuckOnlyAsVictim
