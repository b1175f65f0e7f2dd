\* A steer goes to a hung turn while another turn holds the channel in flight.
SPECIFICATION Spec
CONSTANTS
  c1 = c1
  c2 = c2
  a1 = a1
  a2 = a2
  Events <- ThreeEvents
  Channels <- OneChannel
  ChannelOf <- AllOnOne
  Agents <- TwoAgents
  Handling = "Steer"
  Controls = {}
  MaxBatch = 2
  MaxPending = 2
  MaxRetries = 1
  MaxHung = 1
INVARIANT WithheldRecovered
CHECK_DEADLOCK FALSE
