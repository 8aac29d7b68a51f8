CONSTANTS
    NoEvent = NoEvent
    Event <- CaptureOnly
    EventType <- MCEventType
    Worker = {w1}
    Dispatcher = {d1}
    Routed = {"TRADE_PROTECTED"}
    SplitRail = TRUE
    Renewal = FALSE
    Introduced = FALSE
    StorableType = {"FUNDED", "ENTITLEMENT_SECURED", "DISBURSEMENT_REPORTED", "FAILED", "REVERSED", "DISPUTE_OPENED", "DISPUTE_RESOLVED_BUYER", "DISPUTE_RESOLVED_SUPPLIER", "REFUNDED"}
    Clock = {"DELIVERY"}
    CompletionLoss = FALSE
    LockAttempts = 168
    Trade <- MCTrade
    Offer <- MCOffer
    Demand <- MCDemand
    OfferOf <- MCOfferOf
    DemandOf <- MCDemandOf
    Quantity <- MCQuantity
    Capacity <- MCCapacity
    Moq <- MCMoq
    Expiring = {"o2"}
    Hash = {"o1", "o2", "d1", "d2"}
    Hashings <- MCHashings
    None = None
SPECIFICATION FulfilmentSpec
INVARIANTS
    StockInv
    NothingIsOversold
    NoDeadlock
PROPERTIES
    EveryAttemptEnds
    AcceptedGoodsArePaid
CHECK_DEADLOCK FALSE
