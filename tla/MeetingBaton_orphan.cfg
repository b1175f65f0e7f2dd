SPECIFICATION Spec
CONSTANTS
  m = m
  a1 = a1
  a2 = a2
  h1 = h1
  h2 = h2
  Moderator = m
  AgentModerator = TRUE
  Agents = {a1}
  Humans = {h1}
  MaxHandoffDepth = 1
  MaxOpenHandoffs = 1
  MaxRejudgments = 1
  SoftLease = 1
  HardDeadline = 1
  MaxCommands = 2
  MaxSpeeches = 1
INVARIANTS FloorIsWhole
CHECK_DEADLOCK FALSE
