SPECIFICATION Spec
CONSTANTS
  c1 = c1
  c2 = c2
  a1 = a1
  a2 = a2
  Events <- TwoEvents
  Channels <- OneChannel
  ChannelOf <- AllOnOne
  Agents <- OneAgent
  Handling = "Interrupt"
  Controls = {}
  MaxBatch = 2
  MaxPending = 2
  MaxRetries = 1
  MaxHung = 0
INVARIANT CancelledSurvive
