CONSTANTS
    NoEvent = NoEvent
    Event <- DisputeEvents
    EventType <- MCEventType
    Worker = {w1}
    Dispatcher = {d1}
    Routed = {"TRADE_PROTECTED", "DISPUTE_INITIATED"}
    SplitRail = TRUE
    Renewal = FALSE
    Introduced = FALSE
    StorableType = {"FUNDED", "ENTITLEMENT_SECURED", "DISBURSEMENT_REPORTED", "FAILED", "REVERSED", "DISPUTE_OPENED", "DISPUTE_RESOLVED_BUYER", "DISPUTE_RESOLVED_SUPPLIER", "REFUNDED"}
    Clock = {"DELIVERY"}
    CompletionLoss = FALSE
    LockAttempts = 168
SPECIFICATION Spec
INVARIANTS
    IInv
    ShipmentBacked
    PayoutBacked
    DisputedIsUnpaid
PROPERTIES
    PromiseKept
CHECK_DEADLOCK FALSE
CONSTRAINT DisputeAfterRelease
