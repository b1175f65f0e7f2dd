\* One worker and commands beside it; two healthy floors and a corrupt one, a corrupt baton and one that boots.
SPECIFICATION Spec
CONSTANTS
  w1 = w1
  f1 = f1
  f2 = f2
  fx = fx
  b1 = b1
  bx = bx
  Workers = {w1}
  Floors = {f1, f2, fx}
  Batons = {b1, bx}
  Boots = {b1}
  Corrupt = {fx, bx}
  Limit = 1
  FenceBase = 1
  FenceCap = 2
  FenceShift = 1
  MaxFaults = 1
INVARIANTS NewDeadlineUnfenced
PROPERTIES BatonsRecovered FloorsRecovered
