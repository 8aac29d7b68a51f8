CONSTANTS
    NoEvent = NoEvent
    Event <- RenewalEvents
    EventType <- MCEventType
    Worker = {w1}
    Dispatcher = {}
    Routed = {"TRADE_PROTECTED", "TRADE_ACCEPTED"}
    SplitRail = FALSE
    Renewal = TRUE
    Introduced = TRUE
    StorableType = {"FUNDED", "ENTITLEMENT_SECURED", "DISBURSEMENT_REPORTED", "FAILED", "REVERSED", "DISPUTE_OPENED", "DISPUTE_RESOLVED_BUYER", "DISPUTE_RESOLVED_SUPPLIER", "REFUNDED"}
    Clock = {"NEGOTIATION"}
    CompletionLoss = TRUE
    LockAttempts = 168
SPECIFICATION Spec
INVARIANTS
    RenewalSpentWithLock
PROPERTIES
    DeadTradeStaysSealed
    SettledIsFinal
CHECK_DEADLOCK FALSE
CONSTRAINT ReportsAfterRelease
