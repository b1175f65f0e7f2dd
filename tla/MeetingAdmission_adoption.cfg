\* A Create, and a Ban of someone who becomes the owner of a participant.
SPECIFICATION Spec
CONSTANTS
    host = host
    agent = agent
    human = human
    m1 = m1
    banHuman = banHuman
    banAgent = banAgent
    removeHost = removeHost
    People <- Trio
    Meetings = {m1}
    Roster <- WithoutOwner
    Bans = {banHuman}
    Removals = {}
    Target <- Targets
    Null = Null
    MaxDeliveries = 1
    MaxOrder = 4
PROPERTIES
    EveryNewMeetingIsSpared
CHECK_DEADLOCK FALSE
