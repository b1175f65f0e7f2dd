\* A human and an agent over two rounds; the sweeper is fair.
SPECIFICATION FairSpec
CONSTANTS
    alice = alice
    bot1 = bot1
    bot2 = bot2
    Participants <- HumanAndAgent
    Agents <- OneAgent
    Bases = {b1}
    SettleDelay = 1
    ClaimWindow = 2
    GrantLease = 1
    Null = Null
    MaxRound = 2
    MaxTime = 4
INVARIANTS
    TypeOK
    OneLiveRound
    GrantHasMandate
    OneSpeechPerGrant
    StreamReplaysState
PROPERTIES
    HistoryIsFinal
    OnlyEndAfterRevocation
    ImplementsSpeechFloor
    OverdueIsRecovered
CHECK_DEADLOCK FALSE
