\* Two messages on one channel, two agents of which one may hang.
SPECIFICATION FairSpec
CONSTANTS
  c1 = c1
  c2 = c2
  a1 = a1
  a2 = a2
  Events <- TwoEvents
  Channels <- OneChannel
  ChannelOf <- AllOnOne
  Agents <- TwoAgents
  Handling = "Steer"
  Controls = {"Cancel"}
  MaxBatch = 2
  MaxPending = 1
  MaxRetries = 1
  MaxHung = 1
INVARIANTS OneCopy NothingLost OneTurnUnlessOutlived
PROPERTY NoEventStuck
CONSTRAINT FirstIsOne
CHECK_DEADLOCK FALSE
