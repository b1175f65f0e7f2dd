\* Two workers, two Meetings, two events: a process shows the second
\* before the first has left its pipe.
SPECIFICATION FairSpec
CONSTANTS
    w1 = w1
    w2 = w2
    s1 = s1
    s2 = s2
    Workers <- TwoWorkers
    Sessions <- TwoSessions
    BatchLimit = 2
    Null = Null
    Gone = Gone
    MaxRows = 2
    MaxFaults = 0
CHECK_DEADLOCK FALSE
PROPERTIES
    ShownInOrder
