CONSTANTS
    NoEvent = NoEvent
    Event <- RenewalEvents
    EventType <- MCEventType
    Worker = {w1}
    Dispatcher = {}
    Routed = {"TRADE_PROTECTED", "TRADE_ACCEPTED"}
    SplitRail = FALSE
    Renewal = FALSE
    Introduced = FALSE
    StorableType = {"FUNDED", "ENTITLEMENT_SECURED", "DISBURSEMENT_REPORTED", "FAILED", "REVERSED", "DISPUTE_OPENED", "DISPUTE_RESOLVED_BUYER", "DISPUTE_RESOLVED_SUPPLIER", "REFUNDED"}
    Clock = {}
    CompletionLoss = FALSE
    LockAttempts = 168
SPECIFICATION Spec
INVARIANTS
    SettlementConsumesCapacity
CHECK_DEADLOCK FALSE
