\* Two workers, two Meetings, two events and two faults.
SPECIFICATION FairSpec
CONSTANTS
    w1 = w1
    w2 = w2
    s1 = s1
    s2 = s2
    Workers <- TwoWorkers
    Sessions <- TwoSessions
    BatchLimit = 2
    Null = Null
    Gone = Gone
    MaxRows = 2
    MaxFaults = 2
CONSTRAINT FirstIsOfS1
CHECK_DEADLOCK FALSE
INVARIANTS
    PublishedInOrder
    AcknowledgedIsOnItsWay
PROPERTIES
    EveryEventDelivered
    EveryEventArrives
