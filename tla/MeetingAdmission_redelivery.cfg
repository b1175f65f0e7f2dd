\* One Create and a Ban command that may arrive a second time.
SPECIFICATION Spec
CONSTANTS
    host = host
    agent = agent
    human = human
    m1 = m1
    banHuman = banHuman
    banAgent = banAgent
    removeHost = removeHost
    People <- Trio
    Meetings = {m1}
    Roster <- OwnerLast
    Bans = {banHuman}
    Removals = {}
    Target <- Targets
    Null = Null
    MaxDeliveries = 2
    MaxOrder = 4
INVARIANTS
    JobsCoverRosters
CHECK_DEADLOCK FALSE
