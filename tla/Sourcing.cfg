CONSTANTS
    LastMail = 3
    Undated = {3}
    Broken = {}
    Handler = {p1, p2}
    MailFaults = 1
    AttemptLimit = 2
    Mailer = {p1, p2}
    AcqFaults = 1
    Sender = {p1, p2}
    PostFaults = 2
    Clerk = {p1, p2}
    CheckType = {"ISSUER", "VALIDITY"}
    MaxDocuments = 2
    DocFaults = 2
    LastLot = 3
    Unfit = {1, 2}
    BatchSize = 1
    Sweeper = {p1, p2}
    SweepFaults = 2
    Process = {p1, p2}
SPECIFICATION SourcingSpec
INVARIANTS
    SourcingTypeOK
    NoMailSkipped
    OneCopy
    PromotedRestsOnEvidence
    SweepCoversAll
PROPERTIES
    PushedMailIsReceived
    EndedJobsStay
    ClearedIsWritten
    MessagesArrive
    DocumentsAreJudged
    SweepEnds
CHECK_DEADLOCK FALSE
