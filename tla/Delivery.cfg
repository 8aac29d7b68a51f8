CONSTANTS
    LastEvent = 2
    Invalid = {1}
    Poison = {}
    Supervisor = {s1, s2}
    Limit = 2
    Attempts <- MCAttempts
    MaxFaults = 3
SPECIFICATION FairSpec
INVARIANTS
    IInv
    MarksAreTrue
PROPERTIES
    FinishedStays
    EventsAreDelivered
CHECK_DEADLOCK FALSE
