CONSTANTS
    AttemptLimit = 2
    Kind = {"FREIGHT", "TAX_CHARGE"}
    Quoter = {p1, p2}
    DailyQuotes = 1
    LastDay = 2
    SupplierNet = 4
    Ceilings = {0, 7, 16}
    CommissionFloor = 2
    CaptureShare = 2
    CommissionCap = 4
    BuyerDirect = {"FREIGHT"}
    QuoteFaults = 1
    Bids = {7, 8, 9, 12}
    MaxConcession = 1
    Registrar = {p1, p2}
    LastEdition = 2
    PaperFaults = 1
    PartyRole = {"SUPPLIER", "SABLESTONE"}
    LastAccount = 2
    Rail <- MCRail
    Splitting = {"CASHFREE_EASY_SPLIT"}
    Caller = {p1, p2}
    Promoter = {p1, p2}
    PartyFaults = 2
    Process = {p1, p2}
    SettledTrade = {t1, t2}
    LastRenewal = 3
    MaximumRenewals = 2
SPECIFICATION DealingSpec
INVARIANTS
    DealingTypeOK
    SpendIsCapped
    PriceCoversFloor
    ProtectedRestsOnSignatures
    CyclesAreCounted
PROPERTIES
    QuotedIsNegotiated
    PapersArrive
    EntitledAreTheBound
CHECK_DEADLOCK FALSE
