\* A Create whose roster names an agent before its owner, and a Ban of the owner.
SPECIFICATION Spec
CONSTANTS
    host = host
    agent = agent
    human = human
    m1 = m1
    banHuman = banHuman
    banAgent = banAgent
    removeHost = removeHost
    People <- Trio
    Meetings = {m1}
    Roster <- OwnerLast
    Bans = {banHuman}
    Removals = {}
    Target <- Targets
    Null = Null
    MaxDeliveries = 1
    MaxOrder = 4
INVARIANTS
    CreateAndBanSerialize
CHECK_DEADLOCK FALSE
