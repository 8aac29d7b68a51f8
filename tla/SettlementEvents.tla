--------------------------- MODULE SettlementEvents ---------------------------
(***************************************************************************)
(* Provider webhooks: how they reach the durable inbox, in any order, and  *)
(* how processSettlementEvent projects them onto the trade.                *)
(*                                                                         *)
(* The processor reads the instruction and the trade's state, may call the *)
(* provider, and only then opens the transaction that stores the event and *)
(* changes the trade: the state it decides on (worker[w].seen) can be out  *)
(* of date by then.  A claim is a lease without a token, so two workers    *)
(* may handle the same event.                                              *)
(***************************************************************************)
EXTENDS TradeRecords

sentTypes == {EventType[e] : e \in sent}

\* What a provider can truthfully report, given what has happened on its side.
CanReport(type) ==
    /\ ordered
    /\ type = "DISPUTE_OPENED" =>
           sentTypes \cap {"FUNDED", "ENTITLEMENT_SECURED"} # {}
    /\ type = "DISBURSEMENT_REPORTED" =>
           allocated \/ "ENTITLEMENT_SECURED" \in sentTypes
    /\ type \in {"DISPUTE_RESOLVED_BUYER", "DISPUTE_RESOLVED_SUPPLIER", "REFUNDED"} =>
           /\ \/ "DISPUTE_OPENED" \in sentTypes
              \/ disputeRun \in {"RECORD", "DONE"}
           /\ {"DISPUTE_RESOLVED_BUYER", "DISPUTE_RESOLVED_SUPPLIER", "REFUNDED"}
                  \cap sentTypes = {}

Report(e) ==
    /\ e \notin sent
    /\ CanReport(EventType[e])
    /\ sent' = sent \cup {e}
    /\ UNCHANGED <<tradeRows, ordered, allocated, paid, bankReceived, elapsed,
                   processes>>

-------------------------------------------------------------------------------
\* Claim the inbox row and read the instruction.  An event whose instruction
\* is not acknowledged yet throws and stays in the inbox.
Read(w, e) ==
    /\ worker[w].phase = "IDLE"
    /\ e \in sent \ inboxDone
    /\ instruction = "ACKNOWLEDGED"
    /\ worker' = [worker EXCEPT ![w] =
                     [phase |-> "READ", event |-> e, seen |-> trade]]
    /\ UNCHANGED <<tradeRows, world, run, disputeRun, reconciler, dispatcher>>

\* applyCashfreeCapturedSplit or applyRazorpayCapturedTransfer: the provider
\* allocates the captured payment and holds the supplier's part.
Split(w) ==
    /\ worker[w].phase = "READ"
    /\ SplitRail /\ EventType[worker[w].event] = "FUNDED"
    /\ allocated' = TRUE
    /\ worker' = [worker EXCEPT ![w].phase = "SPLIT"]
    /\ UNCHANGED <<tradeRows, sent, ordered, paid, bankReceived, elapsed,
                   run, disputeRun, reconciler, dispatcher>>

\* The worker is about to open the transaction that stores its event.
Ready(w) ==
    \/ worker[w].phase = "SPLIT"
    \/ /\ worker[w].phase = "READ"
       /\ ~(SplitRail /\ EventType[worker[w].event] = "FUNDED")

typeOf(w) == InternalType(worker[w].event)
seenBy(w) == worker[w].seen

\* Mutant: the event takes effect without being recorded.
ForgetEvent(w) ==
    /\ Ready(w)
    /\ worker[w].event \notin stored
    /\ UNCHANGED stored
    /\ worker' = [worker EXCEPT ![w].phase = "APPLIED"]

\* The event row is inserted now, by this transaction; a second insert of the
\* same external event does nothing, and the table's constraints may refuse it.
StoreEvent(w) ==
    /\ Ready(w)
    /\ worker[w].event \notin stored
    /\ typeOf(w) \in StorableType
    /\ stored' = stored \cup {worker[w].event}
    /\ worker' = [worker EXCEPT ![w].phase = "APPLIED"]

unaffectedByEvents == <<instruction, settlementAccepted, contractAccepted,
                        identityReleased, deliveryAccepted, deliveryAction,
                        accounting, inboxDone, receipts, world, run,
                        disputeRun, reconciler, dispatcher>>

\* Mutant: the state of the trade is not checked.
LockableInAnyState == ~feeLocked

\* The exact acceptances of both parties; the trade and lock rows as they must be.
ExactlyAccepted == settlementAccepted = Role
Lockable        == trade = "PROTECTED" /\ ~feeLocked

\* The fee lock: both exact acceptances, an instruction still in its window, a
\* trade still PROTECTED, and no earlier lock, or the transaction throws.  A
\* split rail must have produced the reference of the held supplier payout.
SecureEntitlement(w) ==
    /\ StoreEvent(w)
    /\ typeOf(w) = "ENTITLEMENT_SECURED"
    /\ SplitRail => worker[w].phase = "SPLIT"
    /\ ExactlyAccepted
    /\ "INSTRUCTION" \notin elapsed
    /\ Lockable
    /\ feeLocked' = TRUE
    /\ trade' = "FEE_LOCKED"
    /\ payout' = IF SplitRail THEN "HELD" ELSE payout
    /\ reservation' = IF reservation = "COMMITTED" THEN "CONSUMED" ELSE reservation
    /\ outbox' = outbox \cup {"ENTITLEMENT_SECURED"}
    /\ UNCHANGED <<inventory, dispute, unaffectedByEvents>>

isFailure(w) ==
    typeOf(w) \in {"FAILED", "REVERSED"} /\ seenBy(w) \notin {"SETTLED", "RECURRING"}

\* Mutants: a failure overwrites a settled trade; it releases a consumed renewal.
FailedAlways == "SETTLEMENT_FAILED"
ReleasedAlways == IF reservation = "NONE" THEN "NONE" ELSE "RELEASED"

FailedTrade == IF trade \in {"SETTLED", "RECURRING"} THEN trade ELSE "SETTLEMENT_FAILED"
FailedReservation == IF reservation = "COMMITTED" THEN "RELEASED" ELSE reservation

\* The trade's update is guarded by its current state; the release of the
\* inventory and of the renewal only by the state that was read before.
FailSettlement(w) ==
    /\ StoreEvent(w)
    /\ isFailure(w)
    /\ trade' = FailedTrade
    /\ ReleaseInventory
    /\ reservation' = FailedReservation
    /\ UNCHANGED <<feeLocked, payout, dispute, outbox, unaffectedByEvents>>

isDispute(w) ==
    typeOf(w) = "DISPUTE_OPENED" /\ seenBy(w) \notin {"SETTLED", "RECURRING"}

FreezeTrade(w) ==
    /\ StoreEvent(w)
    /\ isDispute(w)
    /\ trade' = IF trade \in {"SETTLED", "RECURRING"} THEN trade ELSE "DISPUTED_FROZEN"
    /\ dispute' = IF dispute \in {"OPENED", "PROVIDER_SUBMITTED"} THEN "FROZEN" ELSE dispute
    /\ UNCHANGED <<feeLocked, inventory, reservation, payout, outbox,
                   unaffectedByEvents>>

isResolution(w) ==
    /\ typeOf(w) \in {"DISPUTE_RESOLVED_SUPPLIER", "DISPUTE_RESOLVED_BUYER", "REFUNDED"}
    /\ seenBy(w) = "DISPUTED_FROZEN"

\* Mutant: a payout resolved for the buyer is put back to be released.
ResolvedToPending(w) == IF typeOf(w) = "DISPUTE_RESOLVED_SUPPLIER" THEN "HELD" ELSE "RELEASED"

\* What a resolution makes of the frozen trade and of the frozen payout.
ResolvedTrade(w)  == IF typeOf(w) = "DISPUTE_RESOLVED_SUPPLIER" THEN "ACCEPTED" ELSE "CANCELLED"
ResolvedPayout(w) == IF typeOf(w) = "DISPUTE_RESOLVED_SUPPLIER" THEN "HELD" ELSE "FAILED"

\* Resolved for the buyer, whatever is reserved is released, without looking
\* at the trade's current state.
ResolveDispute(w) ==
    /\ StoreEvent(w)
    /\ isResolution(w)
    /\ dispute' = IF dispute \in {"PROVIDER_SUBMITTED", "FROZEN"} THEN "RESOLVED" ELSE dispute
    /\ trade' = IF trade = "DISPUTED_FROZEN" THEN ResolvedTrade(w) ELSE trade
    /\ payout' = IF payout = "FROZEN" THEN ResolvedPayout(w) ELSE payout
    /\ IF ResolvedTrade(w) = "CANCELLED" THEN ReleaseInventory ELSE UNCHANGED inventory
    /\ UNCHANGED <<feeLocked, reservation, outbox, unaffectedByEvents>>

\* Any other event is stored.  A funding report funds a trade that was read as
\* CONTRACTED, and throws when the trade is no longer that.
NoteEvent(w) ==
    /\ StoreEvent(w)
    /\ typeOf(w) # "ENTITLEMENT_SECURED"
    /\ ~isFailure(w) /\ ~isDispute(w) /\ ~isResolution(w)
    /\ LET funding == typeOf(w) = "FUNDED" /\ seenBy(w) = "CONTRACTED"
       IN  /\ funding => trade = "CONTRACTED"
           /\ trade' = IF funding THEN "FUNDED" ELSE trade
           /\ IF funding THEN TransitionInventory("RESERVED", "COMMITTED")
              ELSE UNCHANGED inventory
    /\ UNCHANGED <<feeLocked, payout, dispute, reservation, outbox,
                   unaffectedByEvents>>

\* The event was stored by an earlier execution: nothing to do.
SkipStored(w) ==
    /\ Ready(w)
    /\ worker[w].event \in stored
    /\ worker' = [worker EXCEPT ![w].phase = "APPLIED"]
    /\ UNCHANGED <<tradeRows, world, run, disputeRun, reconciler, dispatcher>>

\* DurableInboxRepository.complete, after the handler returned.
Complete(w) ==
    /\ worker[w].phase = "APPLIED"
    /\ inboxDone' = inboxDone \cup {worker[w].event}
    /\ worker' = [worker EXCEPT ![w] = IdleWorker]
    /\ UNCHANGED <<trade, instruction, settlementAccepted, contractAccepted,
                   feeLocked, identityReleased, inventory, reservation, payout,
                   dispute, deliveryAccepted, deliveryAction, accounting,
                   stored, outbox, receipts, world, run, disputeRun,
                   reconciler, dispatcher>>

\* The handler throws, or the process dies: the row is claimed again later.
Abandon(w) ==
    /\ worker[w].phase # "IDLE"
    /\ worker' = [worker EXCEPT ![w] = IdleWorker]
    /\ UNCHANGED <<tradeRows, world, run, disputeRun, reconciler, dispatcher>>

Apply(w) ==
    \/ SecureEntitlement(w) \/ FailSettlement(w) \/ FreezeTrade(w)
    \/ ResolveDispute(w) \/ NoteEvent(w) \/ SkipStored(w)

WorkerStep(w) ==
    \/ \E e \in Event : Read(w, e)
    \/ Split(w) \/ Apply(w) \/ Complete(w) \/ Abandon(w)

EventStep == (\E e \in Event : Report(e)) \/ (\E w \in Worker : WorkerStep(w))
===============================================================================
