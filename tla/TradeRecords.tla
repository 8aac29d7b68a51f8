----------------------------- MODULE TradeRecords -----------------------------
(***************************************************************************)
(* The durable records of one protected trade, the outside world that the  *)
(* runtime reacts to, and the volatile state of the processes that act on  *)
(* them.  Every module that models a part of the runtime EXTENDS this one  *)
(* and contributes actions; TradeSystem composes them.                     *)
(*                                                                         *)
(* A database transaction of the code is one action.  Work that spans      *)
(* several transactions, or a transaction and a provider call, is several  *)
(* actions with a phase kept by the process that performs it.              *)
(***************************************************************************)
EXTENDS Naturals, FiniteSets

CONSTANTS
    NoEvent,          \* what an idle worker handles
    Event,            \* the provider webhooks that may reach this trade
    Worker,           \* RuntimeSupervisor processes that drain the inbox
    Dispatcher,       \* SupplierPayoutReleaseDispatcher processes
    Routed,           \* outbox types whose workflows run in this instance
    EventType,        \* EventType[e]: the type webhookEventTypeMap gives e
    SplitRail,        \* the rail is CASHFREE_EASY_SPLIT or RAZORPAY_ROUTE
    Renewal,          \* the trade is a cycle of a standing demand
    Introduced,       \* an earlier trade already introduced the pair
    StorableType,     \* event types settlement_provider_events accepts
    Clock,            \* the deadlines that may pass in a behaviour
    CompletionLoss,   \* an activity may commit and its completion be lost
    LockAttempts      \* polls a SettlementWorkflow makes for the fee lock

MappedType ==
    {"FUNDED", "ENTITLEMENT_SECURED", "DISBURSEMENT_REPORTED", "FAILED",
     "REVERSED", "DISPUTE_OPENED", "DISPUTE_RESOLVED_BUYER",
     "DISPUTE_RESOLVED_SUPPLIER", "REFUNDED"}

\* "NEGOTIATION" has passed once NEGOTIATE has taken back the renewal for it.
Deadline == {"INSTRUCTION", "PROTECTION", "DELIVERY", "NEGOTIATION"}

\* routeWorkflow: either of the first two starts a SettlementWorkflow, with
\* the same input; the others a DisputeWorkflow and a RecurringDemandWorkflow.
SettlementRun == {"TRADE_PROTECTED", "ENTITLEMENT_SECURED"} \cap Routed
RoutedType ==
    {"TRADE_PROTECTED", "ENTITLEMENT_SECURED", "DISPUTE_INITIATED", "TRADE_ACCEPTED"}

ASSUME EventTypeAssumption  == EventType \in [Event -> MappedType]
ASSUME NoEventAssumption    == NoEvent \notin Event
ASSUME RailAssumption       == {SplitRail, Renewal, CompletionLoss} \subseteq BOOLEAN
\* A pair meets again only through a standing demand: any other second trade
\* has no protected_transaction_terms and never leaves PROTECTED.
ASSUME IntroducedAssumption == Introduced \in BOOLEAN /\ (Introduced => Renewal)
ASSUME StorableAssumption   == StorableType \subseteq MappedType
ASSUME ClockAssumption      == Clock \subseteq Deadline
ASSUME RoutedAssumption     == Routed \subseteq RoutedType
ASSUME AttemptsAssumption   == LockAttempts \in Nat \ {0}

Role == {"SUPPLIER", "BUYER"}

\* The states of TRADE_STATES that a trade can have once it is protected.
TradeState ==
    {"PROTECTED", "FEE_LOCKED", "IDENTITY_RELEASED", "CONTRACTED", "FUNDED",
     "DISPATCHED", "IN_TRANSIT", "DELIVERED", "ACCEPTED", "SETTLED",
     "RECURRING", "CANCELLED", "DISPUTED_FROZEN", "SETTLEMENT_FAILED"}

InstructionState == {"NONE", "CREATED", "ACKNOWLEDGED"}
AllocationState  == {"RESERVED", "COMMITTED", "CONSUMED", "RELEASED"}
ReservationState == {"NONE", "COMMITTED", "CONSUMED", "RELEASED"}
PayoutState      == {"NONE", "HELD", "RELEASE_PENDING", "RELEASED", "FROZEN", "FAILED"}
DisputeState     == {"NONE", "OPENED", "PROVIDER_SUBMITTED", "FROZEN", "RESOLVED"}
ActionState      == {"NONE", "REQUIRED", "COMPLETED", "EXPIRED"}
Reconciliation   == {"NONE", "PROVIDER_ONLY", "MISMATCH", "RECONCILED"}

\* Outbox types that something in the model depends on.
OutboxType == RoutedType \cup {"TRADE_SETTLED"}

\* <<stage, result>> of workflow_stage_receipts: one row each, whatever run made it.
LockResult == {"MISSING", "AWAITING", "FUNDS", "ACCEPTED"}
ReleaseResult == {"ACCEPTED", "ACCEPTED_BEFORE", "REJECTED"}
StageResult ==
    ({"LOCK"} \X LockResult)
        \cup ({"RELEASE"} \X ReleaseResult)
        \cup ({"RECONCILE"} \X Reconciliation)

VARIABLES
    trade,               \* trades.state
    instruction,         \* the row of settlement_instructions
    settlementAccepted,  \* roles in settlement_instruction_acceptances
    contractAccepted,    \* roles in trade_contract_acceptances
    feeLocked,           \* fee_locks and entitlement_security_events rows exist
    identityReleased,    \* the trade reached IDENTITY_RELEASED (releaseIdentity)
    inventory,           \* offer and demand allocation rows, moved together
    reservation,         \* standing_renewal_reservations.state
    payout,              \* supplier_payout_controls.state
    dispute,             \* counterparty_dispute_requests.state
    deliveryAccepted,    \* the row of delivery_acceptances exists
    deliveryAction,      \* the BUYER_ACCEPT_DELIVERY row of counterparty_actions
    accounting,          \* reconciliation_results.state
    stored,              \* events with a row in settlement_provider_events
    inboxDone,           \* events whose inbox row is PROCESSED
    outbox,              \* types in transactional_outbox for this trade
    receipts             \* workflow_stage_receipts

VARIABLES
    sent,                \* events the provider delivered to the inbox
    ordered,             \* the provider has the settlement order
    allocated,           \* the provider applied the captured split or transfer
    paid,                \* the provider released the supplier's money
    bankReceived,        \* a bank row carries the disbursement's reference
    elapsed              \* the deadlines that have passed

VARIABLES
    worker,              \* worker[w]: the inbox event w handles
    run,                 \* run[r]: the SettlementWorkflow started by r
    disputeRun,          \* the DisputeWorkflow
    reconciler,          \* the RecurringDemandWorkflow
    dispatcher           \* dispatcher[d]: the payout release d performs

tradeRows == <<trade, instruction, settlementAccepted, contractAccepted,
               feeLocked, identityReleased, inventory, reservation, payout,
               dispute, deliveryAccepted, deliveryAction, accounting, stored,
               inboxDone, outbox, receipts>>
world     == <<sent, ordered, allocated, paid, bankReceived, elapsed>>
processes == <<worker, run, disputeRun, reconciler, dispatcher>>
vars      == <<tradeRows, world, processes>>

WorkerRecord ==
    [phase : {"IDLE", "READ", "SPLIT", "APPLIED"},
     event : Event \cup {NoEvent},
     seen  : TradeState]
IdleWorker == [phase |-> "IDLE", event |-> NoEvent, seen |-> "PROTECTED"]

RunPhase == {"NOT_STARTED", "LOCK", "CREATE", "ACKNOWLEDGE", "RECORD_LOCK",
             "RELEASE", "RECORD_RELEASE", "DONE", "FAILED"}
RunRecord ==
    [phase : RunPhase, attempts : 0 .. LockAttempts,
     result : LockResult \cup ReleaseResult \cup {"NONE"}]

ReconcilerRecord ==
    [phase  : {"NOT_STARTED", "READ", "WRITE", "RECORD", "DONE", "FAILED"},
     seen   : TradeState,
     result : Reconciliation]

TypeOK ==
    /\ trade \in TradeState
    /\ instruction \in InstructionState
    /\ settlementAccepted \subseteq Role
    /\ contractAccepted \subseteq Role
    /\ feeLocked \in BOOLEAN
    /\ identityReleased \in BOOLEAN
    /\ inventory \in AllocationState
    /\ reservation \in ReservationState
    /\ payout \in PayoutState
    /\ dispute \in DisputeState
    /\ deliveryAccepted \in BOOLEAN
    /\ deliveryAction \in ActionState
    /\ accounting \in Reconciliation
    /\ stored \subseteq Event
    /\ inboxDone \subseteq Event
    /\ outbox \subseteq OutboxType
    /\ receipts \subseteq StageResult
    /\ sent \subseteq Event
    /\ ordered \in BOOLEAN
    /\ allocated \in BOOLEAN
    /\ paid \in BOOLEAN
    /\ bankReceived \in BOOLEAN
    /\ elapsed \subseteq Clock
    /\ worker \in [Worker -> WorkerRecord]
    /\ run \in [SettlementRun -> RunRecord]
    /\ disputeRun \in {"NOT_STARTED", "SUBMIT", "RECORD", "DONE"}
    /\ reconciler \in ReconcilerRecord
    /\ dispatcher \in [Dispatcher -> {"IDLE", "CLAIMED", "PROVIDER_RELEASED"}]

\* The trade has just been protected: protectMatch (first trade of a pair, or
\* an approved substitution) or protectApprovedRecurringMatch (renewal).
Init ==
    /\ trade = "PROTECTED"
    /\ instruction = "NONE"
    /\ settlementAccepted = {}
    /\ contractAccepted = {}
    /\ feeLocked = FALSE
    /\ identityReleased = FALSE
    /\ inventory = "RESERVED"
    /\ reservation = IF Renewal THEN "COMMITTED" ELSE "NONE"
    /\ payout = "NONE"
    /\ dispute = "NONE"
    /\ deliveryAccepted = FALSE
    /\ deliveryAction = "NONE"
    /\ accounting = "NONE"
    /\ stored = {}
    /\ inboxDone = {}
    /\ outbox = {"TRADE_PROTECTED"}
    /\ receipts = {}
    /\ sent = {}
    /\ ordered = FALSE
    /\ allocated = FALSE
    /\ paid = FALSE
    /\ bankReceived = FALSE
    /\ elapsed = {}
    /\ worker = [w \in Worker |-> IdleWorker]
    /\ run = [r \in SettlementRun |->
                 [phase |-> "NOT_STARTED", attempts |-> 0, result |-> "NONE"]]
    /\ disputeRun = "NOT_STARTED"
    /\ reconciler = [phase |-> "NOT_STARTED", seen |-> "PROTECTED", result |-> "NONE"]
    /\ dispatcher = [d \in Dispatcher |-> "IDLE"]

-------------------------------------------------------------------------------
\* Mutant: a captured payment stays a funding report on a split rail too.
UnconvertedType(e) == EventType[e]

\* The type under which processSettlementEvent stores an event: a captured
\* payment on a split rail becomes a secured entitlement once it is split.
InternalType(e) ==
    IF SplitRail /\ EventType[e] = "FUNDED" THEN "ENTITLEMENT_SECURED" ELSE EventType[e]

StoredOfType(types) == {e \in stored : InternalType(e) \in types}

\* transitionInventory: the rows in state "from", on both sides, move to "to".
TransitionInventory(from, to) == inventory' = IF inventory = from THEN to ELSE inventory

\* releaseInventory: whatever is reserved or committed is given back.
ReleaseInventory ==
    inventory' = IF inventory \in {"RESERVED", "COMMITTED"} THEN "RELEASED" ELSE inventory

\* A deadline passes.  A delivery deadline exists once its action row does;
\* an instruction's once the instruction does.
ClockPasses(c) ==
    /\ c \in Clock \ (elapsed \cup {"NEGOTIATION"})
    /\ c = "DELIVERY" => deliveryAction # "NONE"
    /\ c = "INSTRUCTION" => instruction # "NONE"
    /\ elapsed' = elapsed \cup {c}
    /\ UNCHANGED <<tradeRows, sent, ordered, allocated, paid, bankReceived,
                   processes>>
===============================================================================
