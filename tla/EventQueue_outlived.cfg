\* The backstop passes under a live turn.
SPECIFICATION Spec
CONSTANTS
  c1 = c1
  c2 = c2
  a1 = a1
  a2 = a2
  Events <- TwoEvents
  Channels <- OneChannel
  ChannelOf <- AllOnOne
  Agents <- TwoAgents
  Handling = "Steer"
  Controls = {}
  MaxBatch = 2
  MaxPending = 2
  MaxRetries = 1
  MaxHung = 0
INVARIANT OneTurnPerChannel
