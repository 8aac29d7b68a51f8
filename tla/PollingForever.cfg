CONSTANTS
    NoEvent = NoEvent
    Event <- CaptureOnly
    EventType <- MCEventType
    Worker = {w1}
    Dispatcher = {}
    Routed = {"TRADE_PROTECTED"}
    SplitRail = TRUE
    Renewal = FALSE
    Introduced = FALSE
    StorableType = {"FUNDED", "ENTITLEMENT_SECURED", "DISBURSEMENT_REPORTED", "FAILED", "REVERSED", "DISPUTE_OPENED", "DISPUTE_RESOLVED_BUYER", "DISPUTE_RESOLVED_SUPPLIER", "REFUNDED"}
    Clock = {}
    CompletionLoss = FALSE
    LockAttempts = 168
SPECIFICATION FundingSpec
PROPERTIES
    SettlementWorkflowEnds
CHECK_DEADLOCK FALSE
