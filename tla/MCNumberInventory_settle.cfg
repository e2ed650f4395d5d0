SPECIFICATION FairSpec
CONSTANTS
  b1 = b1
  r1 = r1
  r2 = r2
  r3 = r3
  None = None
  Business = {b1}
  Req = {r1, r2}
  Owner <- OneOwner
  Number = {n1, n2}
  Rem = {d1, d2}
  Adm = {a1}
  Limits = {2}
  MaxDefault = 2
  Faults <- AnsweredFaults
PROPERTY SlotsSettle
