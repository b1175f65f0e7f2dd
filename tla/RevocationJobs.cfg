\* One person, two workers, two Meetings, two revocations, one fault.
SPECIFICATION FairSpec
CONSTANTS
    p1 = p1
    p2 = p2
    w1 = w1
    w2 = w2
    People <- OnePerson
    Workers <- TwoWorkers
    JobLimit = 1
    SessionLimit = 1
    MaxSession = 2
    MaxJobs = 2
    MaxFaults = 1
INVARIANTS
    NoMeetingLeftBehind
    RevokedForCause
PROPERTIES
    EveryRevokedMeetingEnds
CHECK_DEADLOCK FALSE
