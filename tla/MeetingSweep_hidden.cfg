\* A corrupt floor whose Grant falls due late is tried before a floor that was due first.
SPECIFICATION Spec
CONSTANTS
  w1 = w1
  f1 = f1
  f2 = f2
  fx = fx
  b1 = b1
  bx = bx
  Workers = {w1}
  Floors = {f1, f2, fx}
  Batons = {b1, bx}
  Boots = {b1}
  Corrupt = {fx, bx}
  Limit = 1
  FenceBase = 1
  FenceCap = 2
  FenceShift = 1
  MaxFaults = 1
PROPERTIES FloorsRecoveredByDeadline
