-------------------------- MODULE TradeSystem_proofs --------------------------
(***************************************************************************)
(* Proofs that the safety properties of TradeSystem hold for every number  *)
(* of workers, dispatchers, events and workflow runs, on either kind of    *)
(* rail, for first trades and renewals alike.                              *)
(***************************************************************************)
EXTENDS TradeSystem, TLAPS

\* The initial state of a protected trade satisfies the inductive invariant.
LEMMA InitEstablishes == Init => IInv
<1> SUFFICES ASSUME Init PROVE IInv
  OBVIOUS
<1>1. TypeOK
  <2>1. worker \in [Worker -> WorkerRecord]
    BY DEF Init, IdleWorker, WorkerRecord, TradeState
  <2>2. run \in [SettlementRun -> RunRecord]
    BY AttemptsAssumption DEF Init, RunRecord, RunPhase
  <2>3. reconciler \in ReconcilerRecord
    BY DEF Init, ReconcilerRecord, TradeState, Reconciliation
  <2>4. dispatcher \in [Dispatcher -> {"IDLE", "CLAIMED", "PROVIDER_RELEASED"}]
    BY DEF Init
  <2> QED
    BY <2>1, <2>2, <2>3, <2>4
       DEF Init, TypeOK, TradeState, InstructionState, AllocationState,
           ReservationState, PayoutState, DisputeState, ActionState,
           Reconciliation, OutboxType, RoutedType
<1>2. ChainOfPromises
  BY DEF Init, ChainOfPromises
<1>3. StateBacked
  BY DEF Init, StateBacked, Introduction, TradeUnderWay
<1>4. ProcessBacked
  BY DEF Init, ProcessBacked, IdleWorker
<1>5. RunsInOrder
  BY AttemptsAssumption DEF Init, RunsInOrder
<1> QED
  BY <1>1, <1>2, <1>3, <1>4, <1>5 DEF IInv

-------------------------------------------------------------------------------
\* Portal commands.
LEMMA CommandsPreserve ==
    ASSUME IInv, CommandStep PROVE IInv'
<1> USE DEF IInv, world, processes
<1>1. ASSUME NEW role \in Role, AcceptSettlementInstruction(role) PROVE IInv'
  <2>1. TypeOK'
    BY <1>1 DEF AcceptSettlementInstruction, TypeOK
  <2>2. ChainOfPromises'
    BY <1>1 DEF AcceptSettlementInstruction, ChainOfPromises, TypeOK, StoredOfType
  <2>3. StateBacked' /\ ProcessBacked' /\ RunsInOrder'
    BY <1>1 DEF AcceptSettlementInstruction, StateBacked, ProcessBacked, RunsInOrder
  <2> QED
    BY <2>1, <2>2, <2>3
<1>2. ASSUME NEW role \in Role, AcceptTradeContract(role) PROVE IInv'
  \* The fee lock behind the identity release stored the provider's event, so
  \* a contract that both have signed is funded at once.
  <2>1. StoredOfType(FundingProof) # {}
    BY <1>2 DEF AcceptTradeContract, StateBacked, ChainOfPromises, Introduction,
                StoredOfType, FundingProof
  <2>2. /\ contractAccepted' = Role => trade' = "FUNDED"
        /\ contractAccepted' # Role => trade' = "IDENTITY_RELEASED"
    BY <1>2, <2>1 DEF AcceptTradeContract, Signed
  <2>3. TypeOK'
    BY <1>2, <2>2 DEF AcceptTradeContract, TypeOK, TradeState
  <2>4. ChainOfPromises'
    BY <1>2 DEF AcceptTradeContract, ChainOfPromises, StoredOfType
  <2>5. StateBacked'
    BY <1>2, <2>2 DEF AcceptTradeContract, StateBacked, Introduction,
                      TradeUnderWay, AfterDelivery
  <2>6. ProcessBacked' /\ RunsInOrder'
    BY <1>2, <2>2 DEF AcceptTradeContract, ProcessBacked, RunsInOrder
  <2> QED
    BY <2>3, <2>4, <2>5, <2>6
<1>3. CASE RecordShipment
  <2>1. trade \in TradeUnderWay /\ trade' \in {"DISPATCHED", "IN_TRANSIT", "DELIVERED"}
    BY <1>3 DEF RecordShipment, NextShipment, TradeUnderWay
  <2>2. TypeOK'
    BY <1>3, <2>1 DEF RecordShipment, TypeOK, TradeState
  <2>3. ChainOfPromises' /\ RunsInOrder'
    BY <1>3 DEF RecordShipment, ChainOfPromises, RunsInOrder, StoredOfType
  <2>4. StateBacked'
    BY <1>3, <2>1 DEF RecordShipment, StateBacked, Introduction, TradeUnderWay,
                      AfterDelivery
  <2>5. ProcessBacked'
    BY <1>3, <2>1 DEF RecordShipment, ProcessBacked
  <2> QED
    BY <2>2, <2>3, <2>4, <2>5
<1>4. CASE AcceptDelivery
  <2>1. TypeOK'
    BY <1>4 DEF AcceptDelivery, TransitionInventory, TypeOK, TradeState,
                AllocationState, OutboxType, RoutedType
  <2>2. ChainOfPromises'
    BY <1>4 DEF AcceptDelivery, ChainOfPromises, StateBacked, StoredOfType,
                Introduction, TradeUnderWay
  <2>3. StateBacked'
    BY <1>4 DEF AcceptDelivery, StateBacked, Introduction, TradeUnderWay, AfterDelivery
  <2>4. ProcessBacked' /\ RunsInOrder'
    BY <1>4 DEF AcceptDelivery, ProcessBacked, RunsInOrder
  <2> QED
    BY <2>1, <2>2, <2>3, <2>4
<1>5. CASE OpenDispute
  <2>1. TypeOK'
    BY <1>5 DEF OpenDispute, TypeOK, TradeState, PayoutState, DisputeState,
                OutboxType, RoutedType
  <2>2. ChainOfPromises'
    BY <1>5 DEF OpenDispute, ChainOfPromises, StoredOfType
  <2>3. StateBacked'
    BY <1>5 DEF OpenDispute, StateBacked, Introduction, TradeUnderWay, AfterDelivery
  <2>4. ProcessBacked' /\ RunsInOrder'
    BY <1>5 DEF OpenDispute, ProcessBacked, RunsInOrder
  <2> QED
    BY <2>1, <2>2, <2>3, <2>4
<1> QED
  BY <1>1, <1>2, <1>3, <1>4, <1>5 DEF CommandStep

\* SettlementWorkflow: an answer is recorded only in its stage, and it is true.
LEMMA SettlementRunsPreserve ==
    ASSUME IInv, NEW r \in SettlementRun, SettlementRunStep(r) PROVE IInv'
<1> USE DEF IInv, tradeRows, world, processes
<1>1. CASE StartSettlement(r)
  <2>1. run' \in [SettlementRun -> RunRecord]
    BY <1>1 DEF StartSettlement, Goto, TypeOK, RunRecord, RunPhase
  <2>2. TypeOK'
    BY <1>1, <2>1 DEF StartSettlement, TypeOK
  <2>3. RunsInOrder'
    BY <1>1 DEF StartSettlement, Goto, RunsInOrder
  <2>4. ChainOfPromises' /\ StateBacked' /\ ProcessBacked'
    BY <1>1 DEF StartSettlement, Goto, ChainOfPromises, ProcessBacked, StateBacked,
                StoredOfType
  <2> QED
    BY <2>1, <2>2, <2>3, <2>4
<1>2. CASE LockSettlement(r)
  <2>1. run' \in [SettlementRun -> RunRecord]
    BY <1>2 DEF LockSettlement, Goto, GotoWith, TypeOK, RunRecord, RunPhase,
                LockResult
  <2>2. TypeOK'
    BY <1>2, <2>1 DEF LockSettlement, runtimeOnly, TypeOK, InstructionState
  <2>3. ProcessBacked'
    BY <1>2 DEF LockSettlement, Goto, GotoWith, runtimeOnly, ProcessBacked, TypeOK,
                RunRecord
  <2>4. RunsInOrder'
    BY <1>2 DEF LockSettlement, Goto, GotoWith, runtimeOnly, RunsInOrder, TypeOK,
                RunRecord, LockResult
  <2>5. ChainOfPromises' /\ StateBacked'
    BY <1>2 DEF LockSettlement, runtimeOnly, ChainOfPromises, StateBacked,
                StoredOfType
  <2> QED
    BY <2>1, <2>2, <2>3, <2>4, <2>5
<1>3. CASE CreateInstruction(r)
  <2>1. run' \in [SettlementRun -> RunRecord]
    BY <1>3 DEF CreateInstruction, Goto, TypeOK, RunRecord, RunPhase
  <2>2. TypeOK'
    BY <1>3, <2>1 DEF CreateInstruction, TypeOK
  <2>3. ProcessBacked'
    BY <1>3 DEF CreateInstruction, ProcessBacked
  <2>4. RunsInOrder'
    BY <1>3 DEF CreateInstruction, Goto, RunsInOrder
  <2>5. ChainOfPromises' /\ StateBacked'
    BY <1>3 DEF CreateInstruction, ChainOfPromises, StateBacked, StoredOfType
  <2> QED
    BY <2>1, <2>2, <2>3, <2>4, <2>5
<1>4. CASE AcknowledgeInstruction(r)
  <2>1. run' \in [SettlementRun -> RunRecord]
    BY <1>4 DEF AcknowledgeInstruction, GotoWith, TypeOK, RunRecord, RunPhase,
                LockResult
  <2>2. TypeOK'
    BY <1>4, <2>1 DEF AcknowledgeInstruction, runtimeOnly, TypeOK, InstructionState
  <2>3. ProcessBacked'
    BY <1>4 DEF AcknowledgeInstruction, runtimeOnly, ProcessBacked
  <2>4. RunsInOrder'
    BY <1>4 DEF AcknowledgeInstruction, GotoWith, runtimeOnly, RunsInOrder, LockResult
  <2>5. ChainOfPromises' /\ StateBacked'
    BY <1>4 DEF AcknowledgeInstruction, runtimeOnly, ChainOfPromises, StateBacked,
                StoredOfType
  <2> QED
    BY <2>1, <2>2, <2>3, <2>4, <2>5
<1>5. CASE RecordLock(r)
  <2>1. run' \in [SettlementRun -> RunRecord]
    BY <1>5, AttemptsAssumption
       DEF RecordLock, AfterLock, GotoWith, TypeOK, RunsInOrder, RunRecord, RunPhase
  <2>2. TypeOK'
    BY <1>5, <2>1 DEF RecordLock, runtimeOnly, TypeOK, RunsInOrder, StageResult
  <2>3. RunsInOrder'
    BY <1>5, AttemptsAssumption
       DEF RecordLock, AfterLock, GotoWith, runtimeOnly, RunsInOrder, TypeOK,
           RunRecord, ChainOfPromises
  <2>4. ChainOfPromises' /\ StateBacked' /\ ProcessBacked'
    BY <1>5 DEF RecordLock, AfterLock, GotoWith, runtimeOnly, ChainOfPromises, TypeOK,
                ProcessBacked, StateBacked, StoredOfType, RunsInOrder
  <2> QED
    BY <2>1, <2>2, <2>3, <2>4
<1>6. CASE ReleaseIdentity(r)
  <2>1. run' \in [SettlementRun -> RunRecord]
    BY <1>6 DEF ReleaseIdentity, GotoWith, TypeOK, RunRecord, RunPhase, ReleaseResult
  <2>2. trade' \in TradeState /\ identityReleased' \in BOOLEAN
    BY <1>6 DEF ReleaseIdentity, TypeOK, TradeState
  <2>3. TypeOK'
    BY <1>6, <2>1, <2>2 DEF ReleaseIdentity, TypeOK
  <2>4. ChainOfPromises'
    BY <1>6 DEF ReleaseIdentity, ChainOfPromises, StoredOfType
  <2>5. StateBacked'
    BY <1>6 DEF ReleaseIdentity, StateBacked, TradeUnderWay, AfterDelivery
  <2>6. RunsInOrder'
    BY <1>6 DEF ReleaseIdentity, GotoWith, RunsInOrder, TypeOK, ReleaseResult
  <2>7. ProcessBacked'
    BY <1>6 DEF ReleaseIdentity, GotoWith, ProcessBacked, TypeOK
  <2> QED
    BY <2>1, <2>2, <2>3, <2>4, <2>5, <2>6, <2>7
<1>7. CASE ReleaseIntroduced(r)
  <2>1. run' \in [SettlementRun -> RunRecord]
    BY <1>7 DEF ReleaseIntroduced, GotoWith, TypeOK, RunRecord, RunPhase, LockResult
  <2>2. TypeOK'
    BY <1>7, <2>1 DEF ReleaseIntroduced, TypeOK, TradeState
  <2>3. ChainOfPromises'
    BY <1>7 DEF ReleaseIntroduced, ChainOfPromises, StoredOfType
  <2>4. StateBacked'
    BY <1>7 DEF ReleaseIntroduced, StateBacked, TradeUnderWay, AfterDelivery
  <2>5. RunsInOrder'
    BY <1>7 DEF ReleaseIntroduced, GotoWith, RunsInOrder, ReleaseResult
  <2>6. ProcessBacked'
    BY <1>7 DEF ReleaseIntroduced, ProcessBacked
  <2> QED
    BY <2>1, <2>2, <2>3, <2>4, <2>5, <2>6
<1>8. CASE RecordRelease(r)
  <2>1. run' \in [SettlementRun -> RunRecord]
    BY <1>8 DEF RecordRelease, Goto, GotoWith, TypeOK, RunRecord, RunPhase
  <2>2. TypeOK'
    BY <1>8, <2>1 DEF RecordRelease, runtimeOnly, TypeOK, RunsInOrder, StageResult
  <2>3. RunsInOrder'
    BY <1>8 DEF RecordRelease, Goto, GotoWith, runtimeOnly, RunsInOrder, TypeOK,
                RunRecord
  <2>4. ChainOfPromises' /\ StateBacked' /\ ProcessBacked'
    BY <1>8 DEF RecordRelease, runtimeOnly, ChainOfPromises, ProcessBacked,
                StateBacked, StoredOfType, RunsInOrder
  <2> QED
    BY <2>1, <2>2, <2>3, <2>4
<1>9. CASE RetryActivity(r)
  <2>1. run' \in [SettlementRun -> RunRecord]
    BY <1>9 DEF RetryActivity, GotoWith, TypeOK, RunRecord, RunPhase
  <2>2. TypeOK'
    BY <1>9, <2>1 DEF RetryActivity, TypeOK
  <2>3. RunsInOrder'
    BY <1>9 DEF RetryActivity, GotoWith, RunsInOrder
  <2>4. ChainOfPromises' /\ StateBacked' /\ ProcessBacked'
    BY <1>9 DEF RetryActivity, GotoWith, ChainOfPromises, ProcessBacked, StateBacked,
                StoredOfType
  <2> QED
    BY <2>1, <2>2, <2>3, <2>4
<1> QED
  BY <1>1, <1>2, <1>3, <1>4, <1>5, <1>6, <1>7, <1>8, <1>9 DEF SettlementRunStep

\* DisputeWorkflow, and the late expiry of a renewal's negotiation.
LEMMA DisputeRunPreserves ==
    ASSUME IInv, DisputeRunStep \/ NegotiationExpires PROVE IInv'
<1> USE DEF IInv, tradeRows, world, processes
<1>1. CASE ReadDispute
  <2>1. TypeOK'
    BY <1>1 DEF ReadDispute, TypeOK
  <2>2. ChainOfPromises' /\ StateBacked' /\ ProcessBacked' /\ RunsInOrder'
    BY <1>1 DEF ReadDispute, ChainOfPromises, ProcessBacked, StateBacked,
                StoredOfType, RunsInOrder
  <2> QED
    BY <2>1, <2>2
<1>2. CASE SubmitDispute
  <2>1. TypeOK'
    BY <1>2 DEF SubmitDispute, TypeOK
  <2>2. ChainOfPromises' /\ StateBacked' /\ ProcessBacked' /\ RunsInOrder'
    BY <1>2 DEF SubmitDispute, ChainOfPromises, ProcessBacked, StateBacked,
                StoredOfType, RunsInOrder
  <2> QED
    BY <2>1, <2>2
<1>3. CASE RecordDispute
  <2>1. TypeOK'
    BY <1>3 DEF RecordDispute, runtimeOnly, TypeOK, DisputeState
  <2>2. StateBacked'
    BY <1>3 DEF RecordDispute, runtimeOnly, StateBacked
  <2>3. ChainOfPromises' /\ ProcessBacked' /\ RunsInOrder'
    BY <1>3 DEF RecordDispute, runtimeOnly, ChainOfPromises, ProcessBacked,
                StoredOfType, RunsInOrder
  <2> QED
    BY <2>1, <2>2, <2>3
<1>4. CASE RetryDispute
  <2>1. TypeOK'
    BY <1>4 DEF RetryDispute, TypeOK
  <2>2. ChainOfPromises' /\ StateBacked' /\ ProcessBacked' /\ RunsInOrder'
    BY <1>4 DEF RetryDispute, ChainOfPromises, ProcessBacked, StateBacked,
                StoredOfType, RunsInOrder
  <2> QED
    BY <2>1, <2>2
<1>5. CASE NegotiationExpires
  <2>1. TypeOK'
    BY <1>5 DEF NegotiationExpires, TypeOK, ReservationState
  <2>2. StateBacked'
    BY <1>5 DEF NegotiationExpires, StateBacked
  <2>3. ChainOfPromises' /\ ProcessBacked' /\ RunsInOrder'
    BY <1>5 DEF NegotiationExpires, ChainOfPromises, ProcessBacked, StoredOfType, RunsInOrder
  <2> QED
    BY <2>1, <2>2, <2>3
<1> QED
  BY <1>1, <1>2, <1>3, <1>4, <1>5 DEF DisputeRunStep

\* Inbox workers: whatever state a worker read, the guards of its updates keep the
\* trade's rows consistent.
LEMMA WorkersPreserve ==
    ASSUME IInv, NEW w \in Worker, WorkerStep(w) PROVE IInv'
<1> USE DEF IInv, tradeRows, world, processes
<1>1. ASSUME NEW e \in Event, Read(w, e) PROVE IInv'
  <2>1. worker' \in [Worker -> WorkerRecord]
    BY <1>1 DEF Read, TypeOK, WorkerRecord
  <2>2. TypeOK'
    BY <1>1, <2>1 DEF Read, TypeOK
  <2>3. ProcessBacked'
    BY <1>1 DEF Read, ProcessBacked
  <2>4. ChainOfPromises' /\ StateBacked' /\ RunsInOrder'
    BY <1>1 DEF Read, ChainOfPromises, StateBacked, StoredOfType, RunsInOrder
  <2> QED
    BY <2>1, <2>2, <2>3, <2>4
<1>2. CASE Split(w)
  <2>1. worker' \in [Worker -> WorkerRecord]
    BY <1>2 DEF Split, TypeOK, WorkerRecord
  <2>2. TypeOK'
    BY <1>2, <2>1 DEF Split, TypeOK
  <2>3. ProcessBacked'
    BY <1>2 DEF Split, ProcessBacked
  <2>4. ChainOfPromises' /\ StateBacked' /\ RunsInOrder'
    BY <1>2 DEF Split, ChainOfPromises, StateBacked, StoredOfType, RunsInOrder
  <2> QED
    BY <2>1, <2>2, <2>3, <2>4
<1>3. CASE SecureEntitlement(w)
  <2>1. worker' \in [Worker -> WorkerRecord]
    BY <1>3 DEF SecureEntitlement, StoreEvent, TypeOK, WorkerRecord
  <2>2. TypeOK'
    BY <1>3, <2>1
       DEF SecureEntitlement, StoreEvent, Ready, unaffectedByEvents, TypeOK,
           ProcessBacked, TradeState, ReservationState, PayoutState, OutboxType,
           RoutedType
  <2>3. ChainOfPromises'
    BY <1>3 DEF SecureEntitlement, StoreEvent, typeOf, ExactlyAccepted,
                unaffectedByEvents, ChainOfPromises, StoredOfType
  <2>4. StateBacked'
    BY <1>3 DEF SecureEntitlement, Lockable, unaffectedByEvents, StateBacked,
                Introduction, TradeUnderWay, AfterDelivery
  <2>5. ProcessBacked'
    BY <1>3 DEF SecureEntitlement, StoreEvent, Ready, unaffectedByEvents,
                ProcessBacked
  <2>6. RunsInOrder'
    BY <1>3 DEF SecureEntitlement, unaffectedByEvents, RunsInOrder
  <2> QED
    BY <2>1, <2>2, <2>3, <2>4, <2>5, <2>6
<1>4. CASE FailSettlement(w)
  <2>1. worker' \in [Worker -> WorkerRecord]
    BY <1>4 DEF FailSettlement, StoreEvent, TypeOK, WorkerRecord
  <2>2. TypeOK'
    BY <1>4, <2>1
       DEF FailSettlement, StoreEvent, Ready, FailedTrade, FailedReservation,
           ReleaseInventory, unaffectedByEvents, TypeOK, ProcessBacked, TradeState,
           AllocationState, ReservationState
  <2>3. ChainOfPromises'
    BY <1>4 DEF FailSettlement, StoreEvent, unaffectedByEvents, ChainOfPromises,
                StoredOfType
  <2>4. StateBacked'
    BY <1>4 DEF FailSettlement, FailedTrade, FailedReservation, unaffectedByEvents,
                StateBacked, Introduction, TradeUnderWay, AfterDelivery
  <2>5. ProcessBacked'
    BY <1>4 DEF FailSettlement, StoreEvent, Ready, FailedTrade, unaffectedByEvents,
                ProcessBacked
  <2>6. RunsInOrder'
    BY <1>4 DEF FailSettlement, unaffectedByEvents, RunsInOrder
  <2> QED
    BY <2>1, <2>2, <2>3, <2>4, <2>5, <2>6
<1>5. CASE FreezeTrade(w)
  <2>1. worker' \in [Worker -> WorkerRecord]
    BY <1>5 DEF FreezeTrade, StoreEvent, TypeOK, WorkerRecord
  <2>2. TypeOK'
    BY <1>5, <2>1
       DEF FreezeTrade, StoreEvent, Ready, unaffectedByEvents, TypeOK, ProcessBacked,
           TradeState, DisputeState
  <2>3. ChainOfPromises'
    BY <1>5 DEF FreezeTrade, StoreEvent, unaffectedByEvents, ChainOfPromises,
                StoredOfType
  <2>4. StateBacked'
    BY <1>5 DEF FreezeTrade, unaffectedByEvents, StateBacked, Introduction,
                TradeUnderWay, AfterDelivery
  <2>5. ProcessBacked'
    BY <1>5 DEF FreezeTrade, StoreEvent, Ready, unaffectedByEvents, ProcessBacked
  <2>6. RunsInOrder'
    BY <1>5 DEF FreezeTrade, unaffectedByEvents, RunsInOrder
  <2> QED
    BY <2>1, <2>2, <2>3, <2>4, <2>5, <2>6
<1>6. CASE ResolveDispute(w)
  <2>1. worker' \in [Worker -> WorkerRecord]
    BY <1>6 DEF ResolveDispute, StoreEvent, TypeOK, WorkerRecord
  <2>2. TypeOK'
    BY <1>6, <2>1
       DEF ResolveDispute, StoreEvent, Ready, ResolvedTrade, ResolvedPayout,
           ReleaseInventory, unaffectedByEvents, TypeOK, ProcessBacked, TradeState,
           AllocationState, PayoutState, DisputeState
  <2>3. ChainOfPromises'
    BY <1>6 DEF ResolveDispute, StoreEvent, unaffectedByEvents, ChainOfPromises,
                StoredOfType
  <2>4. StateBacked'
    BY <1>6 DEF ResolveDispute, ResolvedTrade, unaffectedByEvents, StateBacked,
                Introduction, TradeUnderWay, AfterDelivery
  <2>5. ProcessBacked'
    BY <1>6 DEF ResolveDispute, StoreEvent, Ready, ResolvedTrade, ResolvedPayout,
                unaffectedByEvents, ProcessBacked
  <2>6. RunsInOrder'
    BY <1>6 DEF ResolveDispute, unaffectedByEvents, RunsInOrder
  <2> QED
    BY <2>1, <2>2, <2>3, <2>4, <2>5, <2>6
<1>7. CASE NoteEvent(w)
  <2>1. worker' \in [Worker -> WorkerRecord]
    BY <1>7 DEF NoteEvent, StoreEvent, TypeOK, WorkerRecord
  <2>2. TypeOK'
    BY <1>7, <2>1
       DEF NoteEvent, StoreEvent, Ready, unaffectedByEvents, TypeOK, ProcessBacked,
           StateBacked
  <2>3. ChainOfPromises'
    BY <1>7 DEF NoteEvent, StoreEvent, unaffectedByEvents, ChainOfPromises,
                StoredOfType
  <2>4. StateBacked'
    BY <1>7 DEF NoteEvent, unaffectedByEvents, StateBacked
  <2>5. ProcessBacked'
    BY <1>7 DEF NoteEvent, StoreEvent, Ready, unaffectedByEvents, ProcessBacked
  <2>6. RunsInOrder'
    BY <1>7 DEF NoteEvent, unaffectedByEvents, RunsInOrder
  <2> QED
    BY <2>1, <2>2, <2>3, <2>4, <2>5, <2>6
<1>8. CASE SkipStored(w)
  <2>1. worker' \in [Worker -> WorkerRecord]
    BY <1>8 DEF SkipStored, TypeOK, WorkerRecord
  <2>2. TypeOK'
    BY <1>8, <2>1 DEF SkipStored, TypeOK
  <2>3. ProcessBacked'
    BY <1>8 DEF SkipStored, Ready, ProcessBacked
  <2>4. ChainOfPromises' /\ StateBacked' /\ RunsInOrder'
    BY <1>8 DEF SkipStored, ChainOfPromises, StateBacked, StoredOfType, RunsInOrder
  <2> QED
    BY <2>1, <2>2, <2>3, <2>4
<1>9. CASE Complete(w)
  <2>1. worker' \in [Worker -> WorkerRecord]
    BY <1>9 DEF Complete, IdleWorker, TypeOK, WorkerRecord, TradeState
  <2>2. TypeOK'
    BY <1>9, <2>1 DEF Complete, TypeOK, ProcessBacked
  <2>3. ProcessBacked'
    BY <1>9 DEF Complete, IdleWorker, ProcessBacked
  <2>4. ChainOfPromises' /\ StateBacked' /\ RunsInOrder'
    BY <1>9 DEF Complete, ChainOfPromises, StateBacked, StoredOfType, RunsInOrder
  <2> QED
    BY <2>1, <2>2, <2>3, <2>4
<1>10. CASE Abandon(w)
  <2>1. worker' \in [Worker -> WorkerRecord]
    BY <1>10 DEF Abandon, IdleWorker, TypeOK, WorkerRecord, TradeState
  <2>2. TypeOK'
    BY <1>10, <2>1 DEF Abandon, TypeOK
  <2>3. ProcessBacked'
    BY <1>10 DEF Abandon, IdleWorker, ProcessBacked
  <2>4. ChainOfPromises' /\ StateBacked' /\ RunsInOrder'
    BY <1>10 DEF Abandon, ChainOfPromises, StateBacked, StoredOfType, RunsInOrder
  <2> QED
    BY <2>1, <2>2, <2>3, <2>4
<1> QED
  BY <1>1, <1>2, <1>3, <1>4, <1>5, <1>6, <1>7, <1>8, <1>9, <1>10 DEF WorkerStep, Apply

\* SupplierPayoutReleaseDispatcher.
LEMMA DispatchersPreserve ==
    ASSUME IInv, NEW d \in Dispatcher, DispatcherStep(d) PROVE IInv'
<1> USE DEF IInv, tradeRows, world, processes
<1>1. CASE Claim(d)
  <2>1. TypeOK'
    BY <1>1 DEF Claim, restOfTrade, ClaimMark, TypeOK, PayoutState
  <2>2. ProcessBacked'
    BY <1>1 DEF Claim, restOfTrade, Claimable, ClaimMark, ProcessBacked
  <2>3. ChainOfPromises' /\ StateBacked' /\ RunsInOrder'
    BY <1>1 DEF Claim, restOfTrade, ChainOfPromises, StateBacked, StoredOfType,
                RunsInOrder
  <2> QED
    BY <2>1, <2>2, <2>3
<1>2. CASE ProviderRelease(d)
  <2>1. TypeOK'
    BY <1>2 DEF ProviderRelease, TypeOK
  <2>2. ChainOfPromises'
    BY <1>2 DEF ProviderRelease, ChainOfPromises, ProcessBacked, StoredOfType
  <2>3. ProcessBacked'
    BY <1>2 DEF ProviderRelease, ProcessBacked
  <2>4. StateBacked' /\ RunsInOrder'
    BY <1>2 DEF ProviderRelease, StateBacked, RunsInOrder
  <2> QED
    BY <2>1, <2>2, <2>3, <2>4
<1>3. CASE RecordReleased(d)
  <2>1. TypeOK'
    BY <1>3 DEF RecordReleased, restOfTrade, TypeOK, PayoutState
  <2>2. ProcessBacked'
    BY <1>3 DEF RecordReleased, restOfTrade, ProcessBacked
  <2>3. ChainOfPromises' /\ StateBacked' /\ RunsInOrder'
    BY <1>3 DEF RecordReleased, restOfTrade, ChainOfPromises, StateBacked,
                StoredOfType, RunsInOrder
  <2> QED
    BY <2>1, <2>2, <2>3
<1>4. CASE RecordError(d)
  <2>1. TypeOK'
    BY <1>4 DEF RecordError, restOfTrade, TypeOK, PayoutState
  <2>2. ProcessBacked'
    BY <1>4 DEF RecordError, restOfTrade, ProcessBacked
  <2>3. ChainOfPromises' /\ StateBacked' /\ RunsInOrder'
    BY <1>4 DEF RecordError, restOfTrade, ChainOfPromises, StateBacked, StoredOfType,
                RunsInOrder
  <2> QED
    BY <2>1, <2>2, <2>3
<1>5. CASE CrashDispatcher(d)
  <2>1. TypeOK'
    BY <1>5 DEF CrashDispatcher, TypeOK
  <2>2. ProcessBacked'
    BY <1>5 DEF CrashDispatcher, ProcessBacked
  <2>3. ChainOfPromises' /\ StateBacked' /\ RunsInOrder'
    BY <1>5 DEF CrashDispatcher, ChainOfPromises, StateBacked, StoredOfType,
                RunsInOrder
  <2> QED
    BY <2>1, <2>2, <2>3
<1> QED
  BY <1>1, <1>2, <1>3, <1>4, <1>5 DEF DispatcherStep

\* RecurringDemandWorkflow and bank evidence.
LEMMA ReconcilerPreserves ==
    ASSUME IInv, ReconcilerStep PROVE IInv'
<1> USE DEF IInv, tradeRows, world, processes
<1>1. CASE StartRecurring
  <2>1. TypeOK'
    BY <1>1 DEF StartRecurring, TypeOK, ReconcilerRecord
  <2>2. ChainOfPromises' /\ StateBacked' /\ ProcessBacked' /\ RunsInOrder'
    BY <1>1 DEF StartRecurring, ChainOfPromises, ProcessBacked, StateBacked,
                StoredOfType, RunsInOrder
  <2> QED
    BY <2>1, <2>2
<1>2. CASE BankReceipt
  <2>1. TypeOK'
    BY <1>2 DEF BankReceipt, TypeOK
  <2>2. ChainOfPromises' /\ StateBacked' /\ ProcessBacked' /\ RunsInOrder'
    BY <1>2 DEF BankReceipt, ChainOfPromises, ProcessBacked, StateBacked,
                StoredOfType, RunsInOrder
  <2> QED
    BY <2>1, <2>2
<1>3. CASE ReadAccepted
  <2>1. TypeOK'
    BY <1>3 DEF ReadAccepted, TypeOK, Reconciliation, ReconcilerRecord
  <2>2. ProcessBacked'
    BY <1>3 DEF ReadAccepted, ProcessBacked
  <2>3. ChainOfPromises' /\ StateBacked' /\ RunsInOrder'
    BY <1>3 DEF ReadAccepted, ChainOfPromises, StateBacked, StoredOfType, RunsInOrder
  <2> QED
    BY <2>1, <2>2, <2>3
<1>4. CASE WriteReconciliation
  <2>1. TypeOK'
    BY <1>4 DEF WriteReconciliation, restOfRows, Evaluate, TypeOK, TradeState,
                OutboxType, Reconciliation, ReconcilerRecord
  <2>2. StateBacked'
    BY <1>4 DEF WriteReconciliation, restOfRows, StateBacked, Introduction,
                TradeUnderWay, AfterDelivery
  <2>3. ProcessBacked'
    BY <1>4 DEF WriteReconciliation, restOfRows, ProcessBacked
  <2>4. ChainOfPromises' /\ RunsInOrder'
    BY <1>4 DEF WriteReconciliation, restOfRows, ChainOfPromises, StoredOfType,
                RunsInOrder
  <2> QED
    BY <2>1, <2>2, <2>3, <2>4
<1>5. CASE RecordReconciliation
  <2>1. TypeOK'
    BY <1>5 DEF RecordReconciliation, restOfRows, TypeOK, TradeState, Reconciliation,
                ReconcilerRecord, StageResult
  <2>2. ChainOfPromises' /\ StateBacked' /\ ProcessBacked' /\ RunsInOrder'
    BY <1>5 DEF RecordReconciliation, restOfRows, ChainOfPromises, ProcessBacked,
                StateBacked, StoredOfType, RunsInOrder
  <2> QED
    BY <2>1, <2>2
<1>6. CASE RetryReconciliation
  <2>1. TypeOK'
    BY <1>6 DEF RetryReconciliation, TypeOK, TradeState, Reconciliation,
                ReconcilerRecord
  <2>2. ChainOfPromises' /\ StateBacked' /\ ProcessBacked' /\ RunsInOrder'
    BY <1>6 DEF RetryReconciliation, ChainOfPromises, ProcessBacked, StateBacked,
                StoredOfType, RunsInOrder
  <2> QED
    BY <2>1, <2>2
<1>7. CASE Recur
  <2>1. TypeOK'
    BY <1>7 DEF Recur, restOfRows, TypeOK, TradeState
  <2>2. StateBacked'
    BY <1>7 DEF Recur, restOfRows, StateBacked, Introduction, TradeUnderWay,
                AfterDelivery
  <2>3. ProcessBacked'
    BY <1>7 DEF Recur, restOfRows, ProcessBacked
  <2>4. ChainOfPromises' /\ RunsInOrder'
    BY <1>7 DEF Recur, restOfRows, ChainOfPromises, StoredOfType, RunsInOrder
  <2> QED
    BY <2>1, <2>2, <2>3, <2>4
<1> QED
  BY <1>1, <1>2, <1>3, <1>4, <1>5, <1>6, <1>7 DEF ReconcilerStep

\* What providers report, duties and deadlines.
LEMMA SurroundingsPreserve ==
    ASSUME IInv,
           \/ \E e \in Event : Report(e)
           \/ Project
           \/ \E c \in Clock : ClockPasses(c)
    PROVE  IInv'
<1> USE DEF IInv, tradeRows, world, processes
<1>1. ASSUME NEW e \in Event, Report(e) PROVE IInv'
  <2>1. TypeOK'
    BY <1>1 DEF Report, TypeOK
  <2>2. ChainOfPromises' /\ StateBacked' /\ ProcessBacked' /\ RunsInOrder'
    BY <1>1 DEF Report, ChainOfPromises, ProcessBacked, StateBacked, StoredOfType,
                RunsInOrder
  <2> QED
    BY <2>1, <2>2
<1>2. CASE Project
  <2>1. TypeOK'
    BY <1>2 DEF Project, ExpireDuty, FreezeOverdue, CompleteDuty,
                RequireAcceptance, restOfDuty, TypeOK, PayoutState, ActionState
  <2>2. ProcessBacked'
    BY <1>2 DEF Project, ExpireDuty, FreezeOverdue, CompleteDuty,
                RequireAcceptance, restOfDuty, ProcessBacked
  <2>3. ChainOfPromises' /\ StateBacked' /\ RunsInOrder'
    BY <1>2 DEF Project, ExpireDuty, FreezeOverdue, CompleteDuty,
                RequireAcceptance, restOfDuty,
                ChainOfPromises, StateBacked, StoredOfType, RunsInOrder
  <2> QED
    BY <2>1, <2>2, <2>3
<1>3. ASSUME NEW c \in Clock, ClockPasses(c) PROVE IInv'
  <2>1. TypeOK'
    BY <1>3 DEF ClockPasses, TypeOK
  <2>2. ChainOfPromises' /\ StateBacked' /\ ProcessBacked' /\ RunsInOrder'
    BY <1>3 DEF ClockPasses, ChainOfPromises, ProcessBacked, StateBacked,
                StoredOfType, RunsInOrder
  <2> QED
    BY <2>1, <2>2
<1> QED
  BY <1>1, <1>2, <1>3

-------------------------------------------------------------------------------
\* Every step of the system preserves the inductive invariant.
LEMMA NextPreserves == ASSUME IInv, [Next]_vars PROVE IInv'
<1>1. CASE CommandStep
  BY <1>1, CommandsPreserve
<1>2. CASE StageStep
  BY <1>2, SettlementRunsPreserve, DisputeRunPreserves DEF StageStep
<1>3. CASE EventStep
  BY <1>3, WorkersPreserve, SurroundingsPreserve DEF EventStep
<1>4. CASE PayoutStep
  BY <1>4, DispatchersPreserve DEF PayoutStep
<1>5. CASE Project \/ \E c \in Clock : ClockPasses(c)
  BY <1>5, SurroundingsPreserve
<1>6. CASE ReconcilerStep
  BY <1>6, ReconcilerPreserves
<1>7. CASE UNCHANGED vars
  <2> USE <1>7 DEF vars, tradeRows, world, processes, IInv
  <2>1. TypeOK'
    BY DEF TypeOK
  <2>2. ChainOfPromises' /\ StateBacked'
    BY DEF ChainOfPromises, StateBacked, StoredOfType
  <2>3. ProcessBacked' /\ RunsInOrder'
    BY DEF ProcessBacked, RunsInOrder
  <2> QED
    BY <2>1, <2>2, <2>3
<1> QED
  BY <1>1, <1>2, <1>3, <1>4, <1>5, <1>6, <1>7 DEF Next

-------------------------------------------------------------------------------
\* The inductive invariant holds in every reachable state: the rows of a trade,
\* the provider's side of it and the processes in the middle of their work
\* always agree on what has been agreed, secured, disclosed, delivered and paid.
THEOREM Invariance == Spec => []IInv
<1> QED
  BY InitEstablishes, NextPreserves, PTL DEF Spec

\* The identity is disclosed only with a fee lock behind it, both exact
\* acceptances and a stored provider event of secured money (releaseIdentity).
THEOREM DisclosureIsBacked == Spec => []DisclosureBacked
<1>1. IInv => DisclosureBacked
  BY DEF IInv, ChainOfPromises, DisclosureBacked
<1> QED
  BY <1>1, Invariance, PTL

\* Goods move only between introduced parties who both signed, and only before
\* the delivery is accepted (recordShipment, acceptDelivery).
THEOREM ShipmentIsBacked == Spec => []ShipmentBacked
<1>1. IInv => ShipmentBacked
  <2> SUFFICES ASSUME IInv, trade \in TradeUnderWay
               PROVE  /\ identityReleased /\ contractAccepted = Role
                      /\ ordered /\ ~deliveryAccepted
    BY DEF ShipmentBacked
  <2>1. identityReleased /\ contractAccepted = Role
    BY DEF IInv, StateBacked, Introduction
  <2>2. ordered
    BY <2>1 DEF IInv, ChainOfPromises, ProcessBacked
  <2>3. ~deliveryAccepted
    BY DEF IInv, StateBacked, TradeUnderWay, AfterDelivery
  <2> QED
    BY <2>1, <2>2, <2>3
<1> QED
  BY <1>1, Invariance, PTL

\* CONTRACTED is never committed (acceptTradeContract).
THEOREM ContractIsFunded == Spec => []ContractedIsFunded
<1>1. IInv => ContractedIsFunded
  BY DEF IInv, StateBacked, ContractedIsFunded
<1> QED
  BY <1>1, Invariance, PTL

\* The supplier is paid at most for accepted goods under a fee lock, and the
\* control row never claims a release that did not happen (dispatchBatch).
THEOREM PayoutIsBacked == Spec => []PayoutBacked
<1>1. IInv => PayoutBacked
  BY DEF IInv, ChainOfPromises, ProcessBacked, PayoutBacked
<1> QED
  BY <1>1, Invariance, PTL

\* A trade disputed through the portal is never paid out (openDispute).
THEOREM DisputeIsUnpaid == Spec => []DisputedIsUnpaid
<1>1. IInv => DisputedIsUnpaid
  BY DEF IInv, ChainOfPromises, StateBacked, DisputedIsUnpaid
<1> QED
  BY <1>1, Invariance, PTL

\* A renewal is spent by the fee lock of its trade, exactly (processSettlementEvent).
THEOREM RenewalIsSpentWithLock == Spec => []RenewalSpentWithLock
<1>1. IInv => RenewalSpentWithLock
  BY DEF IInv, StateBacked, RenewalSpentWithLock
<1> QED
  BY <1>1, Invariance, PTL

\* A settlement workflow never gets ahead of the money (SettlementWorkflow).
THEOREM WorkflowsAreTruthful == Spec => []WorkflowsTellTheTruth
<1>1. IInv => WorkflowsTellTheTruth
  BY DEF IInv, RunsInOrder, WorkflowsTellTheTruth
<1> QED
  BY <1>1, Invariance, PTL


\* The promise is touched by five actions only; every other one stutters.
promised == <<settlementAccepted, feeLocked, identityReleased, deliveryAccepted, paid>>

\* Only SecureEntitlement among the webhook steps touches the promise.
LEMMA EventsAndPromise ==
    ASSUME NEW w \in Worker, WorkerStep(w), ~SecureEntitlement(w) PROVE UNCHANGED promised
  BY DEF promised, WorkerStep, Apply, Read, Split, StoreEvent, FailSettlement,
         FreezeTrade, ResolveDispute, NoteEvent, SkipStored, Complete, Abandon,
         unaffectedByEvents, tradeRows, world

\* Only the two releases among the settlement workflows' steps touch the promise.
LEMMA RunsAndPromise ==
    ASSUME NEW r \in SettlementRun, SettlementRunStep(r),
           ~ReleaseIdentity(r), ~ReleaseIntroduced(r)
    PROVE  UNCHANGED promised
  BY DEF promised, SettlementRunStep, StartSettlement, LockSettlement, CreateInstruction,
         AcknowledgeInstruction, RecordLock, RecordRelease, RetryActivity,
         runtimeOnly, tradeRows, world

\* Of the other processes only the provider's release of the payout touches it.
LEMMA RestAndPromise ==
    ASSUME \/ DisputeRunStep \/ NegotiationExpires \/ ReconcilerStep \/ Project
           \/ \E e \in Event : Report(e)
           \/ \E c \in Clock : ClockPasses(c)
           \/ \E d \in Dispatcher : DispatcherStep(d) /\ ~ProviderRelease(d)
           \/ UNCHANGED vars
    PROVE  UNCHANGED promised
<1> USE DEF promised, tradeRows, world
<1>1. CASE DisputeRunStep \/ NegotiationExpires
  BY <1>1 DEF DisputeRunStep, ReadDispute, SubmitDispute, RecordDispute, RetryDispute,
              NegotiationExpires, runtimeOnly
<1>2. CASE ReconcilerStep
  BY <1>2 DEF ReconcilerStep, StartRecurring, BankReceipt, ReadAccepted,
              WriteReconciliation, RecordReconciliation, RetryReconciliation, Recur,
              restOfRows
<1>3. CASE Project
  BY <1>3 DEF Project, ExpireDuty, FreezeOverdue, CompleteDuty,
                RequireAcceptance, restOfDuty
<1>4. CASE (\E e \in Event : Report(e)) \/ \E c \in Clock : ClockPasses(c)
  BY <1>4 DEF Report, ClockPasses
<1>5. ASSUME NEW d \in Dispatcher, DispatcherStep(d), ~ProviderRelease(d)
      PROVE  UNCHANGED promised
  BY <1>5 DEF DispatcherStep, Claim, RecordReleased, RecordError, CrashDispatcher,
              restOfTrade
<1>6. CASE UNCHANGED vars
  BY <1>6 DEF vars
<1> QED
  BY <1>1, <1>2, <1>3, <1>4, <1>5, <1>6

\* Every step of the runtime is a step of the promise or leaves it alone.
LEMMA StepKeepsPromise ==
    ASSUME IInv, [Next]_vars PROVE [Promise!Next]_(Promise!promise)
<1> SUFFICES ASSUME ~UNCHANGED promised PROVE Promise!Next
  BY DEF promised, Promise!promise
<1>1. ASSUME NEW role \in Role, AcceptSettlementInstruction(role) PROVE Promise!Next
  <2>1. Promise!Consent(role)
    BY <1>1 DEF AcceptSettlementInstruction, Promise!Consent, world
  <2> QED
    BY <2>1 DEF Promise!Next
<1>2. CASE AcceptDelivery
  <2>1. identityReleased
    BY <1>2 DEF AcceptDelivery, IInv, StateBacked, Introduction, TradeUnderWay
  <2>2. Promise!Accept
    BY <1>2, <2>1 DEF AcceptDelivery, Promise!Accept, world
  <2> QED
    BY <2>2 DEF Promise!Next
<1>3. ASSUME NEW w \in Worker, SecureEntitlement(w) PROVE Promise!Next
  <2>1. Promise!Secure
    BY <1>3 DEF SecureEntitlement, ExactlyAccepted, unaffectedByEvents, world, Promise!Secure
  <2> QED
    BY <2>1 DEF Promise!Next
<1>4. ASSUME NEW r \in SettlementRun, ReleaseIdentity(r) \/ ReleaseIntroduced(r)
      PROVE  Promise!Next
  <2>1. identityReleased' = TRUE
    BY <1>4 DEF ReleaseIdentity, ReleaseIntroduced, promised, world
  <2>2. feeLocked
    BY <1>4 DEF ReleaseIdentity, ReleaseIntroduced, IInv, RunsInOrder
  <2>3. Promise!Reveal
    BY <1>4, <2>1, <2>2 DEF ReleaseIdentity, ReleaseIntroduced, world, Promise!Reveal
  <2> QED
    BY <2>3 DEF Promise!Next
<1>5. ASSUME NEW d \in Dispatcher, ProviderRelease(d) PROVE Promise!Next
  <2>1. deliveryAccepted
    BY <1>5 DEF ProviderRelease, IInv, ProcessBacked
  <2>2. Promise!Pay
    BY <1>5, <2>1 DEF ProviderRelease, tradeRows, Promise!Pay
  <2> QED
    BY <2>2 DEF Promise!Next
<1>6. CASE (\E role \in Role : AcceptTradeContract(role)) \/ RecordShipment \/ OpenDispute
  BY <1>6 DEF AcceptTradeContract, RecordShipment, OpenDispute, promised, world
<1> QED
  BY <1>1, <1>2, <1>3, <1>4, <1>5, <1>6, EventsAndPromise, RunsAndPromise, RestAndPromise
     DEF Next, CommandStep, StageStep, EventStep, PayoutStep

\* The runtime implements the promise to the parties.
THEOREM Implementation == Spec => PromiseKept
<1>1. Init => Promise!Init
  BY DEF Init, Promise!Init
<1> QED
  BY <1>1, StepKeepsPromise, Invariance, PTL DEF Spec, PromiseKept, Promise!Spec

-------------------------------------------------------------------------------
\* Whatever stale state a webhook worker acts on, the guards of
\* processSettlementEvent's updates keep a settled trade settled.
LEMMA SettledStep ==
    ASSUME IInv, [Next]_vars, trade \in {"SETTLED", "RECURRING"}
    PROVE  trade' \in {"SETTLED", "RECURRING"}
<1> USE DEF tradeRows
<1>1. CASE CommandStep
  BY <1>1 DEF CommandStep, AcceptSettlementInstruction, AcceptTradeContract,
              RecordShipment, NextShipment, AcceptDelivery, OpenDispute
<1>2. CASE StageStep
  BY <1>2 DEF StageStep, SettlementRunStep, StartSettlement, LockSettlement,
              CreateInstruction, AcknowledgeInstruction, RecordLock,
              ReleaseIdentity, ReleaseIntroduced, RecordRelease, RetryActivity,
              DisputeRunStep, ReadDispute, SubmitDispute, RecordDispute,
              RetryDispute, NegotiationExpires, runtimeOnly
<1>3. CASE EventStep
  BY <1>3 DEF EventStep, Report, WorkerStep, Apply, Read, Split, SecureEntitlement,
              Lockable, FailSettlement, FailedTrade, FreezeTrade, ResolveDispute,
              NoteEvent, SkipStored, Complete, Abandon
<1>4. CASE PayoutStep
  BY <1>4 DEF PayoutStep, DispatcherStep, Claim, ProviderRelease, RecordReleased,
              RecordError, CrashDispatcher, restOfTrade
<1>5. CASE Project \/ \E c \in Clock : ClockPasses(c)
  BY <1>5 DEF Project, ExpireDuty, FreezeOverdue, CompleteDuty,
              RequireAcceptance, restOfDuty, ClockPasses
<1>6. CASE ReconcilerStep
  BY <1>6 DEF ReconcilerStep, StartRecurring, BankReceipt, ReadAccepted,
              WriteReconciliation, RecordReconciliation, RetryReconciliation, Recur
<1>7. CASE UNCHANGED vars
  BY <1>7 DEF vars
<1> QED
  BY <1>1, <1>2, <1>3, <1>4, <1>5, <1>6, <1>7 DEF Next

\* A settled trade stays settled, whatever stale state a webhook worker acts on:
\* the guards of processSettlementEvent's updates are enough.
THEOREM SettledStaysSettled == Spec => SettledIsFinal
  BY SettledStep, Invariance, PTL DEF Spec, SettledIsFinal

\* A trade that failed, was cancelled or was frozen before its fee lock stays
\* sealed: no late event and no workflow locks the fee or releases the identity.
THEOREM DeadStaysSealed == Spec => DeadTradeStaysSealed
<1>1. ASSUME IInv, [Next]_vars, ~feeLocked,
             trade \in {"SETTLEMENT_FAILED", "CANCELLED", "DISPUTED_FROZEN"}
      PROVE  ~feeLocked' /\ ~identityReleased'
  <2>1. \A w \in Worker : ~SecureEntitlement(w)
    BY <1>1 DEF SecureEntitlement, Lockable
  <2>2. ~AcceptDelivery /\ \A role \in Role : ~AcceptTradeContract(role)
    BY <1>1 DEF AcceptDelivery, AcceptTradeContract
  <2>3. UNCHANGED feeLocked
    <3>1. CASE CommandStep
      BY <3>1 DEF CommandStep, AcceptSettlementInstruction, AcceptTradeContract,
                  RecordShipment, AcceptDelivery, OpenDispute
    <3>2. ASSUME NEW r \in SettlementRun, SettlementRunStep(r) PROVE UNCHANGED feeLocked
      BY <3>2, RunsAndPromise DEF promised, ReleaseIdentity, ReleaseIntroduced
    <3>3. ASSUME NEW d \in Dispatcher, DispatcherStep(d) PROVE UNCHANGED feeLocked
      BY <3>3, RestAndPromise DEF promised, ProviderRelease, tradeRows
    <3> QED
      BY <1>1, <2>1, <3>1, <3>2, <3>3, EventsAndPromise, RestAndPromise
         DEF Next, StageStep, EventStep, PayoutStep, promised
  <2>4. IInv'
    BY <1>1, NextPreserves
  <2> QED
    BY <1>1, <2>3, <2>4 DEF IInv, ChainOfPromises
<1> QED
  BY <1>1, Invariance, PTL DEF Spec, DeadTradeStaysSealed

-------------------------------------------------------------------------------
(* What the models of the stock and of the mandate take for granted of a    *)
(* trade is what the trade does.                                           *)

booked == <<inventory, reservation>>

\* Nobody but the commands, the inbox workers and NEGOTIATE touches what is booked.
LEMMA OthersBookNothing ==
    ASSUME \/ \E r \in SettlementRun : SettlementRunStep(r)
           \/ DisputeRunStep \/ PayoutStep \/ Project \/ ReconcilerStep
           \/ \E e \in Event : Report(e)
           \/ \E c \in Clock : ClockPasses(c)
           \/ UNCHANGED vars
    PROVE  UNCHANGED booked
<1> USE DEF booked, tradeRows
<1>1. CASE \E r \in SettlementRun : SettlementRunStep(r)
  BY <1>1 DEF SettlementRunStep, StartSettlement, LockSettlement, CreateInstruction,
              AcknowledgeInstruction, RecordLock, ReleaseIdentity, ReleaseIntroduced,
              RecordRelease, RetryActivity, runtimeOnly
<1>2. CASE DisputeRunStep
  BY <1>2 DEF DisputeRunStep, ReadDispute, SubmitDispute, RecordDispute, RetryDispute,
              runtimeOnly
<1>3. CASE PayoutStep
  BY <1>3 DEF PayoutStep, DispatcherStep, Claim, ProviderRelease, RecordReleased,
              RecordError, CrashDispatcher, restOfTrade
<1>4. CASE Project
  BY <1>4 DEF Project, ExpireDuty, FreezeOverdue, CompleteDuty, RequireAcceptance, restOfDuty
<1>5. CASE ReconcilerStep
  BY <1>5 DEF ReconcilerStep, StartRecurring, BankReceipt, ReadAccepted,
              WriteReconciliation, RecordReconciliation, RetryReconciliation, Recur,
              restOfRows
<1>6. CASE (\E e \in Event : Report(e)) \/ (\E c \in Clock : ClockPasses(c)) \/ UNCHANGED vars
  BY <1>6 DEF Report, ClockPasses, vars
<1> QED  BY <1>1, <1>2, <1>3, <1>4, <1>5, <1>6

\* The rows of the allocation move as transitionInventory and releaseInventory
\* move them, and in no other way.
LEMMA AllocationMoves ==
    ASSUME [Next]_vars, inventory' # inventory
    PROVE  \/ inventory = "RESERVED" /\ inventory' = "COMMITTED"
           \/ inventory = "COMMITTED" /\ inventory' = "CONSUMED"
           \/ inventory \in {"RESERVED", "COMMITTED"} /\ inventory' = "RELEASED"
<1>1. CASE CommandStep
  BY <1>1 DEF CommandStep, AcceptSettlementInstruction, AcceptTradeContract,
              RecordShipment, AcceptDelivery, OpenDispute, TransitionInventory
<1>2. ASSUME NEW w \in Worker, WorkerStep(w) PROVE
           \/ UNCHANGED inventory
           \/ inventory = "RESERVED" /\ inventory' = "COMMITTED"
           \/ inventory \in {"RESERVED", "COMMITTED"} /\ inventory' = "RELEASED"
  BY <1>2 DEF WorkerStep, Apply, Read, Split, SecureEntitlement, FailSettlement, FreezeTrade,
              ResolveDispute, NoteEvent, SkipStored, Complete, Abandon, unaffectedByEvents,
              TransitionInventory, ReleaseInventory, tradeRows
<1>3. CASE NegotiationExpires
  BY <1>3 DEF NegotiationExpires
<1> QED
  BY <1>1, <1>2, <1>3, OthersBookNothing DEF Next, StageStep, EventStep, booked

\* A trade does with its stock what InventoryAllocations reckons with
\* (inventory_allocations.ts:40-52 as called by commands.ts and inbox_processors.ts).
THEOREM StockIsMovedAsModelled == Spec => MovesItsStock
<1>1. ASSUME [Next]_vars PROVE [Stock!StockNext]_(Stock!stockVars)
  <2> SUFFICES ASSUME inventory' # inventory PROVE Stock!StockNext
    BY DEF Stock!stockVars
  <2> DEFINE row == [t \in {"trade"} |-> inventory]
  <2>1. ASSUME NEW from, NEW to, inventory \in from, inventory' = to
        PROVE  Stock!Transition("trade", from, to)
    <3>1. row' = [row EXCEPT !["trade"] = to]
      BY <2>1
    <3> QED  BY <2>1, <3>1 DEF Stock!Transition
  <2>2. Stock!Fund("trade") \/ Stock!Settle("trade") \/ Stock!Release("trade")
    BY <1>1, <2>1, AllocationMoves DEF Stock!Fund, Stock!Settle, Stock!Release
  <2> QED  BY <2>2 DEF Stock!StockNext
<1> QED  BY <1>1, PTL DEF Spec, MovesItsStock

\* The trade's standing with its mandate.
standing == <<reservation, RenewalTrade, {"NEGOTIATION"} \cap elapsed>>

\* Nothing but the inbox workers and NEGOTIATE touches reservation, fee lock or expiry.
LEMMA OnlyEventsMoveRenewals ==
    ASSUME [Next]_vars, ~NegotiationExpires, \A w \in Worker : ~WorkerStep(w)
    PROVE  UNCHANGED <<feeLocked, reservation, {"NEGOTIATION"} \cap elapsed>>
<1>1. CASE CommandStep
  BY <1>1 DEF CommandStep, AcceptSettlementInstruction, AcceptTradeContract, RecordShipment,
              AcceptDelivery, OpenDispute, world
<1>2. CASE \E r \in SettlementRun : SettlementRunStep(r)
  BY <1>2 DEF SettlementRunStep, StartSettlement, LockSettlement, CreateInstruction,
              AcknowledgeInstruction, RecordLock, ReleaseIdentity, ReleaseIntroduced,
              RecordRelease, RetryActivity, runtimeOnly, tradeRows, world
<1>3. CASE DisputeRunStep
  BY <1>3 DEF DisputeRunStep, ReadDispute, SubmitDispute, RecordDispute, RetryDispute,
              runtimeOnly, tradeRows, world
<1>4. CASE PayoutStep
  BY <1>4 DEF PayoutStep, DispatcherStep, Claim, ProviderRelease, RecordReleased,
              RecordError, CrashDispatcher, restOfTrade, tradeRows, world
<1>5. CASE Project
  BY <1>5 DEF Project, ExpireDuty, FreezeOverdue, CompleteDuty, RequireAcceptance,
              restOfDuty, world
<1>6. CASE ReconcilerStep
  BY <1>6 DEF ReconcilerStep, StartRecurring, BankReceipt, ReadAccepted,
              WriteReconciliation, RecordReconciliation, RetryReconciliation, Recur,
              restOfRows, tradeRows, world
<1>7. CASE (\E e \in Event : Report(e)) \/ (\E c \in Clock : ClockPasses(c)) \/ UNCHANGED vars
  BY <1>7 DEF Report, ClockPasses, vars, tradeRows, world
<1> QED
  BY <1>1, <1>2, <1>3, <1>4, <1>5, <1>6, <1>7 DEF Next, StageStep, EventStep

\* A step of a renewal's trade leaves its standing alone or secures the renewal,
\* fails it, loses it to NEGOTIATE or settles it.
LEMMA StandingMoves ==
    ASSUME IInv, [Next]_vars, Renewal
    PROVE  \/ UNCHANGED standing
           \/ /\ RenewalTrade = "PROTECTED" /\ RenewalTrade' = "FEE_LOCKED"
              /\ reservation' = IF reservation = "COMMITTED" THEN "CONSUMED" ELSE reservation
              /\ ("NEGOTIATION" \in elapsed') = ("NEGOTIATION" \in elapsed)
           \/ /\ RenewalTrade = "PROTECTED" /\ RenewalTrade' = "FAILED"
              /\ reservation = "COMMITTED" /\ reservation' = "RELEASED"
              /\ ("NEGOTIATION" \in elapsed') = ("NEGOTIATION" \in elapsed)
           \/ NegotiationExpires /\ UNCHANGED RenewalTrade
           \/ /\ RenewalTrade = "FEE_LOCKED" /\ RenewalTrade' = "SETTLED"
              /\ UNCHANGED reservation
              /\ ("NEGOTIATION" \in elapsed') = ("NEGOTIATION" \in elapsed)
<1>0. IInv'
  BY NextPreserves
<1>1. /\ trade \in {"SETTLED", "RECURRING"} => feeLocked
      /\ trade' \in {"SETTLED", "RECURRING"} => feeLocked'
  BY <1>0 DEF IInv, ProcessBacked
<1>2. trade \in {"SETTLED", "RECURRING"} => trade' \in {"SETTLED", "RECURRING"}
  BY SettledStep
<1>3. CASE NegotiationExpires
  <2>1. UNCHANGED <<trade, feeLocked>> /\ reservation = "COMMITTED"
    BY <1>3 DEF NegotiationExpires
  <2>2. ~feeLocked /\ trade \notin {"SETTLED", "RECURRING"}
    BY <1>1, <2>1 DEF IInv, StateBacked
  <2>3. "NEGOTIATION" \in elapsed'
    BY <1>3 DEF NegotiationExpires
  <2>4. RenewalTrade = "PROTECTED" /\ RenewalTrade' = "PROTECTED"
    BY <2>1, <2>2, <2>3 DEF RenewalTrade
  <2> QED  BY <1>3, <2>4
<1>4. ASSUME NEW w \in Worker, SecureEntitlement(w)
      PROVE  /\ RenewalTrade = "PROTECTED" /\ RenewalTrade' = "FEE_LOCKED"
             /\ reservation' = IF reservation = "COMMITTED" THEN "CONSUMED" ELSE reservation
             /\ UNCHANGED elapsed
  <2>1. trade = "PROTECTED" /\ ~feeLocked /\ trade' = "FEE_LOCKED" /\ feeLocked'
    BY <1>4 DEF SecureEntitlement, Lockable
  <2>2. reservation = "RELEASED" => "NEGOTIATION" \in elapsed
    BY <2>1 DEF IInv, StateBacked
  <2>3. RenewalTrade = "PROTECTED" /\ RenewalTrade' = "FEE_LOCKED"
    BY <2>1, <2>2 DEF RenewalTrade
  <2>4. UNCHANGED elapsed
    BY <1>4 DEF SecureEntitlement, unaffectedByEvents, world
  <2> QED  BY <1>4, <2>3, <2>4 DEF SecureEntitlement
<1>5. ASSUME NEW w \in Worker, FailSettlement(w), reservation = "COMMITTED"
      PROVE  /\ RenewalTrade = "PROTECTED" /\ RenewalTrade' = "FAILED"
             /\ reservation' = "RELEASED"
             /\ UNCHANGED elapsed
  <2>1. ~feeLocked /\ trade \notin {"SETTLED", "RECURRING"} /\ "NEGOTIATION" \notin elapsed
    BY <1>1, <1>5 DEF IInv, StateBacked
  <2>2. /\ UNCHANGED <<feeLocked, elapsed>> /\ reservation' = "RELEASED"
        /\ trade' \notin {"SETTLED", "RECURRING"}
    BY <1>5, <2>1 DEF FailSettlement, FailedReservation, FailedTrade, unaffectedByEvents, world
  <2>3. RenewalTrade = "PROTECTED" /\ RenewalTrade' = "FAILED"
    BY <1>5, <2>1, <2>2 DEF RenewalTrade
  <2> QED  BY <2>2, <2>3
<1>6. CASE UNCHANGED <<feeLocked, reservation, {"NEGOTIATION"} \cap elapsed>>
  <2>1. ("NEGOTIATION" \in elapsed') = ("NEGOTIATION" \in elapsed)
    BY <1>6
  <2>2. CASE trade \notin {"SETTLED", "RECURRING"} /\ trade' \in {"SETTLED", "RECURRING"}
    <3>1. feeLocked
      BY <1>1, <1>6, <2>2
    <3>2. RenewalTrade = "FEE_LOCKED" /\ RenewalTrade' = "SETTLED"
      BY <2>2, <3>1 DEF RenewalTrade
    <3> QED  BY <1>6, <2>1, <3>2
  <2>3. CASE (trade \in {"SETTLED", "RECURRING"}) = (trade' \in {"SETTLED", "RECURRING"})
    <3>1. UNCHANGED RenewalTrade
      BY <1>6, <2>1, <2>3 DEF RenewalTrade
    <3> QED  BY <1>6, <3>1 DEF standing
  <2> QED  BY <1>2, <2>2, <2>3
<1>7. ASSUME NEW w \in Worker, WorkerStep(w), ~SecureEntitlement(w),
             ~(FailSettlement(w) /\ reservation = "COMMITTED")
      PROVE  UNCHANGED <<feeLocked, reservation, elapsed>>
  BY <1>7 DEF WorkerStep, Apply, Read, Split, FailSettlement, FailedReservation, FreezeTrade,
              ResolveDispute, NoteEvent, SkipStored, Complete, Abandon, unaffectedByEvents,
              tradeRows, world
<1> QED
  BY <1>3, <1>4, <1>5, <1>6, <1>7, OnlyEventsMoveRenewals

\* The only row of the mandate's renewals, and the updates of it.
LEMMA OnlyRow ==
    ASSUME NEW r, NEW q PROVE Only(r)[1] = r /\ [Only(r) EXCEPT ![1] = q] = Only(q)
BY 1 \in 1..1, \A c \in 1..1 : c = 1 DEF Only

\* An update of the only row.
LEMMA OnlyChange ==
    ASSUME NEW r, NEW u
    PROVE  /\ [Only(r) EXCEPT ![1].trade = u] = Only([r EXCEPT !.trade = u])
           /\ [Only(r) EXCEPT ![1].state = u] = Only([r EXCEPT !.state = u])
           /\ [Only(r) EXCEPT ![1].status = u] = Only([r EXCEPT !.status = u])
BY OnlyRow

LEMMA RowValues ==
    ASSUME NEW s, NEW t
    PROVE  RenewalRow(s, t).state = s /\ RenewalRow(s, t).trade = t
BY DEF RenewalRow, BoundRenewal

\* The update SettleRenewal makes, and SecureRenewal of a reservation already lost.
LEMMA TradeUpdate ==
    ASSUME NEW s, NEW t, NEW u
    PROVE  [Only(RenewalRow(s, t)) EXCEPT ![1].trade = u] = Only(RenewalRow(s, u))
<1>1. [RenewalRow(s, t) EXCEPT !.trade = u] = RenewalRow(s, u)
  BY DEF RenewalRow
<1> QED  BY <1>1, OnlyRow

\* The updates SecureRenewal, FailRenewal and ExpireTalks make.
LEMMA RowUpdates ==
    ASSUME NEW t, NEW u
    PROVE  /\ [Only(RenewalRow("COMMITTED", t)) EXCEPT ![1].trade = u, ![1].state = "CONSUMED",
                                                       ![1].status = "FEE_LOCKED"]
                = Only(RenewalRow("CONSUMED", u))
           /\ [Only(RenewalRow("COMMITTED", t)) EXCEPT
                 ![1].trade = u, ![1].state = IF @ = "COMMITTED" THEN "RELEASED" ELSE @]
                = Only(RenewalRow("RELEASED", u))
           /\ [Only(RenewalRow("COMMITTED", t)) EXCEPT
                 ![1] = [Mandate!Ended(@, "EXPIRED") EXCEPT !.talks = "CLOSED"]]
                = Only(RenewalRow("RELEASED", t))
<1>1. [Only(RenewalRow("COMMITTED", t)) EXCEPT ![1].trade = u, ![1].state = "CONSUMED",
                                               ![1].status = "FEE_LOCKED"]
        = Only(RenewalRow("CONSUMED", u))
  <2> DEFINE r == RenewalRow("COMMITTED", u)
             q == [r EXCEPT !.state = "CONSUMED"]
  <2>1. [Only(RenewalRow("COMMITTED", t)) EXCEPT ![1].trade = u] = Only(r)
    BY TradeUpdate, Zenon
  <2>2. [Only(r) EXCEPT ![1].state = "CONSUMED"] = Only(q)
    BY OnlyChange
  <2>3. [q EXCEPT !.status = "FEE_LOCKED"] = RenewalRow("CONSUMED", u)
    BY DEF RenewalRow
  <2>4. [Only(q) EXCEPT ![1].status = "FEE_LOCKED"] = Only(RenewalRow("CONSUMED", u))
    <3> HIDE DEF q
    <3> QED  BY <2>3, OnlyRow
  <2> QED  BY <2>1, <2>2, <2>4
<1>2. [Only(RenewalRow("COMMITTED", t)) EXCEPT
         ![1].trade = u, ![1].state = IF @ = "COMMITTED" THEN "RELEASED" ELSE @]
        = Only(RenewalRow("RELEASED", u))
  <2> DEFINE r == RenewalRow("COMMITTED", u)
  <2>1. [Only(RenewalRow("COMMITTED", t)) EXCEPT ![1].trade = u] = Only(r)
    BY TradeUpdate, Zenon
  <2>2. r.state = "COMMITTED" /\ Only(r)[1].state = "COMMITTED"
    BY OnlyRow, RowValues
  <2>3. [r EXCEPT !.state = "RELEASED"] = RenewalRow("RELEASED", u)
    BY DEF RenewalRow
  <2>4. [Only(r) EXCEPT ![1].state = "RELEASED"] = Only(RenewalRow("RELEASED", u))
    <3> HIDE DEF r
    <3> QED  BY <2>3, OnlyRow
  <2>5. Only(RenewalRow("COMMITTED", t))[1].state = "COMMITTED"
    BY OnlyRow, RowValues
  <2> QED  BY <2>1, <2>2, <2>4, <2>5
<1>3. [Only(RenewalRow("COMMITTED", t)) EXCEPT
         ![1] = [Mandate!Ended(@, "EXPIRED") EXCEPT !.talks = "CLOSED"]]
        = Only(RenewalRow("RELEASED", t))
  <2> DEFINE r == RenewalRow("COMMITTED", t)
  <2>1. r.state = "COMMITTED" /\ r.status = "TRADE_PROTECTED"
    BY DEF RenewalRow, BoundRenewal
  <2>2. [[r EXCEPT !.state = "RELEASED", !.status = r.status] EXCEPT !.talks = "CLOSED"]
          = RenewalRow("RELEASED", t)
    <3>1. BoundRenewal.talks = "CLOSED" /\ [BoundRenewal EXCEPT !.talks = "CLOSED"] = BoundRenewal
      BY DEF BoundRenewal
    <3> QED  BY <3>1 DEF RenewalRow
  <2>3. [Mandate!Ended(r, "EXPIRED") EXCEPT !.talks = "CLOSED"] = RenewalRow("RELEASED", t)
    <3> HIDE DEF r
    <3>1. Mandate!Ended(r, "EXPIRED") = [r EXCEPT !.state = "RELEASED", !.status = r.status]
      BY <2>1 DEF Mandate!Ended, Mandate!Pending
    <3> QED  BY <2>2, <3>1
  <2>4. Only(r)[1] = r
    BY OnlyRow
  <2> HIDE DEF r
  <2>5. [Only(r) EXCEPT ![1] = [Mandate!Ended(r, "EXPIRED") EXCEPT !.talks = "CLOSED"]]
          = Only(RenewalRow("RELEASED", t))
    BY <2>3, OnlyRow
  <2> QED  BY <2>4, <2>5 DEF r
<1> QED  BY <1>1, <1>2, <1>3

LEMMA CounterChanges ==
    /\ [Counters("COMMITTED") EXCEPT !.reserved = IF 1 > @ THEN 0 ELSE @ - 1] = Counters("RELEASED")
    /\ [Counters("COMMITTED") EXCEPT !.reserved = @ - 1, !.consumed = @ + 1, !.due = FALSE]
         = Counters("CONSUMED")
<1>1. Uncounted.due = FALSE
  BY DEF Uncounted
<1>2. [Uncounted EXCEPT !.due = Uncounted.due] = Uncounted
  <2>1. Uncounted = [x \in DOMAIN Uncounted |-> Uncounted[x]]
    BY DEF Uncounted
  <2> QED  BY <2>1
<1>3. [Uncounted EXCEPT !.due = FALSE] = Uncounted
  BY <1>1, <1>2
<1>4. Counters("COMMITTED").reserved = 1 /\ Counters("COMMITTED").consumed = 0
  BY DEF Counters, Uncounted
<1>5. [Counters("COMMITTED") EXCEPT !.reserved = 0] = Counters("RELEASED")
  BY DEF Counters
<1>6. [Counters("COMMITTED") EXCEPT !.reserved = 0, !.consumed = 1, !.due = FALSE]
        = Counters("CONSUMED")
  BY <1>1, <1>3 DEF Counters
<1>7. (IF 1 > Counters("COMMITTED").reserved THEN 0 ELSE Counters("COMMITTED").reserved - 1) = 0
  BY <1>4
<1>8. /\ Counters("COMMITTED").reserved - 1 = 0
      /\ [Counters("COMMITTED") EXCEPT !.reserved = 0].consumed + 1 = 1
  <2>1. [Counters("COMMITTED") EXCEPT !.reserved = 0].consumed = 0
    BY DEF Counters, Uncounted
  <2> QED  BY <1>4, <2>1
<1>9. Counters("COMMITTED").consumed + 1 = 1
  BY <1>4
<1> QED  BY <1>5, <1>6, <1>7, <1>8, <1>9

\* A renewal's trade does with its reservation what StandingMandates reckons with:
\* consumed by the fee lock, given back by a failure before it or by NEGOTIATE
\* (inbox_processors.ts:1104-1192, stage_handlers.ts:268-276).
THEOREM RenewalIsMovedAsModelled == Spec => MovesItsRenewal
<1>1. ASSUME IInv, [Next]_vars, Renewal
      PROVE  Mandate!MandateNext \/ UNCHANGED Mandate!mandateVars
  <2> DEFINE late == {c \in {1} : "NEGOTIATION" \in Clock \ elapsed}
  <2>1. /\ 1 \in Mandate!Renewals
        /\ Only(RenewalRow(reservation, RenewalTrade))[1].state = reservation
        /\ Only(RenewalRow(reservation, RenewalTrade))[1].trade = RenewalTrade
    BY OnlyRow, RowValues DEF Mandate!Renewals
  <2>2. ("NEGOTIATION" \in elapsed') = ("NEGOTIATION" \in elapsed) => UNCHANGED late
    OBVIOUS
  <2>3. ASSUME UNCHANGED standing PROVE UNCHANGED Mandate!mandateVars
    <3>1. UNCHANGED <<reservation, RenewalTrade>>
          /\ ("NEGOTIATION" \in elapsed') = ("NEGOTIATION" \in elapsed)
      BY <2>3 DEF standing
    <3> QED  BY <2>2, <3>1 DEF Mandate!mandateVars
  <2>4. ASSUME RenewalTrade = "PROTECTED", RenewalTrade' = "FEE_LOCKED",
               reservation' = IF reservation = "COMMITTED" THEN "CONSUMED" ELSE reservation,
               ("NEGOTIATION" \in elapsed') = ("NEGOTIATION" \in elapsed)
        PROVE  Mandate!SecureRenewal(1)
    <3>1. CASE reservation = "COMMITTED"
      <4>1. reservation' = "CONSUMED"
        BY <2>4, <3>1
      <4>2. Only(RenewalRow(reservation, RenewalTrade))'
              = [Only(RenewalRow(reservation, RenewalTrade)) EXCEPT
                   ![1].trade = "FEE_LOCKED", ![1].state = "CONSUMED", ![1].status = "FEE_LOCKED"]
        <5>1. [Only(RenewalRow("COMMITTED", RenewalTrade)) EXCEPT
                 ![1].trade = "FEE_LOCKED", ![1].state = "CONSUMED", ![1].status = "FEE_LOCKED"]
                = Only(RenewalRow("CONSUMED", "FEE_LOCKED"))
          BY RowUpdates, Zenon
        <5> QED  BY <2>4, <3>1, <4>1, <5>1
      <4>3. Counters(reservation)' =
              [Counters(reservation) EXCEPT !.reserved = @ - 1, !.consumed = @ + 1, !.due = FALSE]
        BY <3>1, <4>1, CounterChanges
      <4> QED
        BY <2>1, <2>2, <2>4, <3>1, <4>2, <4>3 DEF Mandate!SecureRenewal
    <3>2. CASE reservation # "COMMITTED"
      <4>1. UNCHANGED reservation
        BY <2>4, <3>2
      <4>2. Only(RenewalRow(reservation, RenewalTrade))'
              = [Only(RenewalRow(reservation, RenewalTrade)) EXCEPT ![1].trade = "FEE_LOCKED"]
        <5>1. [Only(RenewalRow(reservation, RenewalTrade)) EXCEPT ![1].trade = "FEE_LOCKED"]
                = Only(RenewalRow(reservation, "FEE_LOCKED"))
          BY TradeUpdate, Zenon
        <5> QED  BY <2>4, <4>1, <5>1
      <4> QED
        BY <2>1, <2>2, <2>4, <3>2, <4>1, <4>2 DEF Mandate!SecureRenewal
    <3> QED  BY <3>1, <3>2
  <2>5. ASSUME RenewalTrade = "PROTECTED", RenewalTrade' = "FAILED",
               reservation = "COMMITTED", reservation' = "RELEASED",
               ("NEGOTIATION" \in elapsed') = ("NEGOTIATION" \in elapsed)
        PROVE  Mandate!FailRenewal(1)
    <3>1. Only(RenewalRow(reservation, RenewalTrade))'
            = [Only(RenewalRow(reservation, RenewalTrade)) EXCEPT
                 ![1].trade = "FAILED", ![1].state = IF @ = "COMMITTED" THEN "RELEASED" ELSE @]
      <4>1. [Only(RenewalRow("COMMITTED", RenewalTrade)) EXCEPT
               ![1].trade = "FAILED", ![1].state = IF @ = "COMMITTED" THEN "RELEASED" ELSE @]
              = Only(RenewalRow("RELEASED", "FAILED"))
        BY RowUpdates, Zenon
      <4> QED  BY <2>5, <4>1
    <3>2. Counters(reservation)' =
            [Counters(reservation) EXCEPT !.reserved = IF 1 > @ THEN 0 ELSE @ - 1]
      BY <2>5, CounterChanges
    <3> QED
      BY <2>1, <2>2, <2>5, <3>1, <3>2 DEF Mandate!FailRenewal, Mandate!Freed
  <2>6. ASSUME NegotiationExpires, UNCHANGED RenewalTrade PROVE Mandate!ExpireTalks(1)
    <3>1. /\ reservation = "COMMITTED" /\ reservation' = "RELEASED"
          /\ late = {1} /\ late' = late \ {1}
      BY <2>6 DEF NegotiationExpires
    <3>2. Only(RenewalRow(reservation, RenewalTrade))'
            = [Only(RenewalRow(reservation, RenewalTrade)) EXCEPT
                 ![1] = [Mandate!Ended(@, "EXPIRED") EXCEPT !.talks = "CLOSED"]]
      BY <2>6, <3>1, RowUpdates
    <3>3. Counters(reservation)' =
            [Counters(reservation) EXCEPT !.reserved = IF 1 > @ THEN 0 ELSE @ - 1]
      BY <3>1, CounterChanges
    <3> QED
      BY <2>1, <3>1, <3>2, <3>3 DEF Mandate!ExpireTalks, Mandate!GiveBack, Mandate!Freed
  <2>7. ASSUME RenewalTrade = "FEE_LOCKED", RenewalTrade' = "SETTLED", UNCHANGED reservation,
               ("NEGOTIATION" \in elapsed') = ("NEGOTIATION" \in elapsed)
        PROVE  Mandate!SettleRenewal(1)
    <3>1. Only(RenewalRow(reservation, RenewalTrade))'
            = [Only(RenewalRow(reservation, RenewalTrade)) EXCEPT ![1].trade = "SETTLED"]
      <4>1. [Only(RenewalRow(reservation, RenewalTrade)) EXCEPT ![1].trade = "SETTLED"]
              = Only(RenewalRow(reservation, "SETTLED"))
        BY TradeUpdate, Zenon
      <4> QED  BY <2>7, <4>1
    <3> QED  BY <2>1, <2>2, <2>7, <3>1 DEF Mandate!SettleRenewal
  <2> QED
    BY <1>1, <2>1, <2>3, <2>4, <2>5, <2>6, <2>7, StandingMoves DEF Mandate!MandateNext
<1>2. ASSUME IInv, [Next]_vars PROVE [Renewal => Mandate!MandateNext]_(Mandate!mandateVars)
  BY <1>1, <1>2
<1> QED  BY <1>2, Invariance, PTL DEF Spec, MovesItsRenewal
===============================================================================
