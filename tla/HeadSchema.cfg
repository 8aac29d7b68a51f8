CONSTANTS
    NoEvent = NoEvent
    Event <- CaptureOnly
    EventType <- MCEventType
    Worker = {w1}
    Dispatcher = {}
    Routed = {"TRADE_PROTECTED"}
    SplitRail = TRUE
    Renewal = FALSE
    Introduced = FALSE
    StorableType = {}
    Clock = {}
    CompletionLoss = FALSE
    LockAttempts = 168
SPECIFICATION FundingSpec
PROPERTIES
    CapturedMoneyIsSecured
CHECK_DEADLOCK FALSE
