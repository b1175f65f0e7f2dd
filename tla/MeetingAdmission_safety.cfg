\* One Create, Bans of a participant and of an owner, a removal; once each.
SPECIFICATION Spec
CONSTANTS
    host = host
    agent = agent
    human = human
    m1 = m1
    banHuman = banHuman
    banAgent = banAgent
    removeHost = removeHost
    People <- Trio
    Meetings = {m1}
    Roster <- WithoutOwner
    Bans = {banHuman, banAgent}
    Removals = {removeHost}
    Target <- Targets
    Null = Null
    MaxDeliveries = 1
    MaxOrder = 4
INVARIANTS
    JobsCoverRosters
PROPERTIES
    NewMeetingsAreSpared
CHECK_DEADLOCK FALSE
