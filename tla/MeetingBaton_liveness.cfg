SPECIFICATION Spec
CONSTANTS
  m = m
  a1 = a1
  a2 = a2
  h1 = h1
  h2 = h2
  Moderator = m
  AgentModerator = FALSE
  Agents = {a1}
  Humans = {h1, h2}
  MaxHandoffDepth = 1
  MaxOpenHandoffs = 1
  MaxRejudgments = 1
  SoftLease = 2
  HardDeadline = 3
  MaxCommands = 2
  MaxSpeeches = 1
PROPERTIES FloorReturns RequestsServed
CHECK_DEADLOCK FALSE
