--------------------------- MODULE SettlementStages ---------------------------
(***************************************************************************)
(* The durable workflows of one trade and the activities they run:         *)
(* SettlementWorkflow (poll for the fee lock, then release the identity)   *)
(* and DisputeWorkflow (submit the buyer's dispute to the provider once).  *)
(* NEGOTIATE, an activity of an earlier workflow, ends late.               *)
(*                                                                         *)
(* An activity is a handler followed by a transaction that records its     *)
(* result in workflow_stage_receipts, unique on (stage, result_digest).    *)
(* The digest covers stage, input and result, so the same answer can be    *)
(* recorded once only: recording it again throws, and the retry policy     *)
(* (maximumAttempts 0) runs the handler again.                             *)
(***************************************************************************)
EXTENDS TradeRecords

runtimeOnly == <<trade, settlementAccepted, contractAccepted, feeLocked,
                 inventory, reservation, payout, deliveryAccepted,
                 deliveryAction, accounting, stored, inboxDone, outbox>>

Goto(r, phase) == run' = [run EXCEPT ![r].phase = phase]
GotoWith(r, phase, result) ==
    run' = [run EXCEPT ![r] =
               [phase |-> phase, attempts |-> run[r].attempts, result |-> result]]

\* OutboxDispatcher publishes the row: the workflow starts, once for its id.
StartSettlement(r) ==
    /\ r \in outbox
    /\ run[r].phase = "NOT_STARTED"
    /\ Goto(r, "LOCK")
    /\ UNCHANGED <<tradeRows, world, worker, disputeRun, reconciler, dispatcher>>

\* The protected trade's terms are current: what the query of facts returns.
TermsCurrent ==
    /\ trade \in {"PROTECTED", "FEE_LOCKED"}
    /\ "PROTECTION" \notin elapsed

\* lockSettlement up to the provider call.  An instruction that expired is
\* never replaced: its idempotency key `settlement:${tradeId}` is unique, the
\* insert throws, and the activity is retried for ever.
LockSettlement(r) ==
    /\ run[r].phase = "LOCK"
    /\ \/ /\ feeLocked
          /\ GotoWith(r, "RECORD_LOCK", "ACCEPTED")
          /\ UNCHANGED instruction
       \/ /\ ~feeLocked /\ ~TermsCurrent
          /\ GotoWith(r, "RECORD_LOCK", "MISSING")
          /\ UNCHANGED instruction
       \/ /\ ~feeLocked /\ TermsCurrent
          /\ instruction = "NONE"
          /\ instruction' = "CREATED"
          /\ GotoWith(r, "RECORD_LOCK", "AWAITING")
       \/ /\ ~feeLocked /\ TermsCurrent
          /\ instruction # "NONE" /\ "INSTRUCTION" \notin elapsed
          /\ IF settlementAccepted # Role THEN GotoWith(r, "RECORD_LOCK", "AWAITING")
             ELSE IF instruction = "CREATED" THEN Goto(r, "CREATE")
             ELSE GotoWith(r, "RECORD_LOCK", "FUNDS")
          /\ UNCHANGED instruction
    /\ UNCHANGED <<runtimeOnly, identityReleased, dispute, receipts, world,
                   worker, disputeRun, reconciler, dispatcher>>

\* adapter.createInstruction: idempotent at the provider by the idempotency key.
CreateInstruction(r) ==
    /\ run[r].phase = "CREATE"
    /\ ordered' = TRUE
    /\ Goto(r, "ACKNOWLEDGE")
    /\ UNCHANGED <<tradeRows, sent, allocated, paid, bankReceived, elapsed,
                   worker, disputeRun, reconciler, dispatcher>>

\* The update is guarded by acknowledged=false; the loser of a race throws.
AcknowledgeInstruction(r) ==
    /\ run[r].phase = "ACKNOWLEDGE"
    /\ instruction = "CREATED"
    /\ instruction' = "ACKNOWLEDGED"
    /\ GotoWith(r, "RECORD_LOCK", "FUNDS")
    /\ UNCHANGED <<runtimeOnly, identityReleased, dispute, receipts, world,
                   worker, disputeRun, reconciler, dispatcher>>

\* Mutants: an instruction that awaits its funds passes for a lock; a run gives
\* up on the first answer that is not a lock.
AfterLockOrFunds(record) ==
    IF record.result \in {"ACCEPTED", "FUNDS"} THEN [record EXCEPT !.phase = "RELEASE"]
    ELSE [phase |-> "LOCK", attempts |-> record.attempts + 1, result |-> "NONE"]
AfterLockOnce(record) ==
    IF record.result = "ACCEPTED" THEN [record EXCEPT !.phase = "RELEASE"]
    ELSE [phase |-> "FAILED", attempts |-> record.attempts + 1, result |-> "NONE"]

\* What the workflow does with a fee-lock answer it receives.
AfterLock(record) ==
    IF record.result = "ACCEPTED" THEN [record EXCEPT !.phase = "RELEASE"]
    ELSE [phase    |-> IF record.attempts + 1 = LockAttempts THEN "FAILED" ELSE "LOCK",
          attempts |-> record.attempts + 1,
          result   |-> "NONE"]

\* Either the activity's completion reaches Temporal, or the worker dies
\* between its commit and the report and the activity is retried.
RecordLock(r) ==
    /\ run[r].phase = "RECORD_LOCK"
    /\ <<"LOCK", run[r].result>> \notin receipts
    /\ receipts' = receipts \cup {<<"LOCK", run[r].result>>}
    /\ \/ run' = [run EXCEPT ![r] = AfterLock(run[r])]
       \/ CompletionLoss /\ GotoWith(r, "LOCK", "NONE")
    /\ UNCHANGED <<runtimeOnly, instruction, identityReleased, dispute, world,
                   worker, disputeRun, reconciler, dispatcher>>

-------------------------------------------------------------------------------
\* releaseIdentity for the first trade of a pair: the release event and the
\* trade's state in one transaction, unless the event is already there.
ReleaseIdentity(r) ==
    /\ run[r].phase = "RELEASE"
    /\ ~Introduced
    /\ \/ /\ identityReleased
          /\ GotoWith(r, "RECORD_RELEASE", "ACCEPTED_BEFORE")
          /\ UNCHANGED <<trade, identityReleased>>
       \/ /\ ~identityReleased /\ "PROTECTION" \in elapsed
          /\ GotoWith(r, "RECORD_RELEASE", "REJECTED")
          /\ UNCHANGED <<trade, identityReleased>>
       \/ /\ ~identityReleased /\ "PROTECTION" \notin elapsed
          /\ feeLocked /\ trade = "FEE_LOCKED"
          /\ trade' = "IDENTITY_RELEASED"
          /\ identityReleased' = TRUE
          /\ GotoWith(r, "RECORD_RELEASE", "ACCEPTED")
    /\ UNCHANGED <<instruction, settlementAccepted, contractAccepted,
                   feeLocked, inventory, reservation, payout, dispute,
                   deliveryAccepted, deliveryAction, accounting, stored,
                   inboxDone, outbox, receipts, world, worker, disputeRun,
                   reconciler, dispatcher>>

\* releaseIdentity when an earlier trade introduced the pair: only a fresh
\* entitlement is required, and a second execution throws.
ReleaseIntroduced(r) ==
    /\ run[r].phase = "RELEASE"
    /\ Introduced
    /\ feeLocked
    /\ trade = "FEE_LOCKED"
    /\ trade' = "IDENTITY_RELEASED"
    /\ identityReleased' = TRUE
    /\ GotoWith(r, "RECORD_RELEASE", "ACCEPTED")
    /\ UNCHANGED <<instruction, settlementAccepted, contractAccepted,
                   feeLocked, inventory, reservation, payout, dispute,
                   deliveryAccepted, deliveryAction, accounting, stored,
                   inboxDone, outbox, receipts, world, worker, disputeRun,
                   reconciler, dispatcher>>

RecordRelease(r) ==
    /\ run[r].phase = "RECORD_RELEASE"
    /\ <<"RELEASE", run[r].result>> \notin receipts
    /\ receipts' = receipts \cup {<<"RELEASE", run[r].result>>}
    /\ \/ Goto(r, IF run[r].result = "REJECTED" THEN "FAILED" ELSE "DONE")
       \/ CompletionLoss /\ GotoWith(r, "RELEASE", "NONE")
    /\ UNCHANGED <<runtimeOnly, instruction, identityReleased, dispute, world,
                   worker, disputeRun, reconciler, dispatcher>>

\* The activity throws or times out before its result is recorded.
RetryActivity(r) ==
    /\ run[r].phase \in {"CREATE", "ACKNOWLEDGE", "RECORD_LOCK", "RECORD_RELEASE"}
    /\ GotoWith(r, IF run[r].phase = "RECORD_RELEASE" THEN "RELEASE" ELSE "LOCK", "NONE")
    /\ UNCHANGED <<tradeRows, world, worker, disputeRun, reconciler, dispatcher>>

-------------------------------------------------------------------------------
\* DisputeWorkflow runs OPEN_DISPUTE once; a row in any other state gives
\* UNKNOWN, which the workflow returns without another attempt.
ReadDispute ==
    /\ disputeRun = "NOT_STARTED"
    /\ "DISPUTE_INITIATED" \in outbox \cap Routed
    /\ disputeRun' = IF dispute \in {"OPENED", "FROZEN"} /\ instruction = "ACKNOWLEDGED"
                     THEN "SUBMIT" ELSE "DONE"
    /\ UNCHANGED <<tradeRows, world, worker, run, reconciler, dispatcher>>

SubmitDispute ==
    /\ disputeRun = "SUBMIT"
    /\ disputeRun' = "RECORD"
    /\ UNCHANGED <<tradeRows, world, worker, run, reconciler, dispatcher>>

RecordDispute ==
    /\ disputeRun = "RECORD"
    /\ dispute' = IF dispute \in {"OPENED", "FROZEN"} THEN "PROVIDER_SUBMITTED" ELSE dispute
    /\ disputeRun' = "DONE"
    /\ UNCHANGED <<runtimeOnly, instruction, identityReleased, receipts, world,
                   worker, run, reconciler, dispatcher>>

RetryDispute ==
    /\ disputeRun \in {"SUBMIT", "RECORD"}
    /\ disputeRun' = "NOT_STARTED"
    /\ UNCHANGED <<tradeRows, world, worker, run, reconciler, dispatcher>>

SettlementRunStep(r) ==
    \/ StartSettlement(r) \/ LockSettlement(r) \/ CreateInstruction(r)
    \/ AcknowledgeInstruction(r) \/ RecordLock(r)
    \/ ReleaseIdentity(r) \/ ReleaseIntroduced(r) \/ RecordRelease(r)
    \/ RetryActivity(r)

DisputeRunStep == ReadDispute \/ SubmitDispute \/ RecordDispute \/ RetryDispute

\* NEGOTIATE read the renewal's negotiation as open and past its expiry just
\* before the buyer's acceptance, mailed in time, protected this trade; its
\* transaction comes now, and releaseRecurringReservation takes back the
\* reservation that is committed to the trade.
NegotiationExpires ==
    /\ Renewal
    /\ "NEGOTIATION" \in Clock \ elapsed
    /\ reservation = "COMMITTED"
    /\ elapsed' = elapsed \cup {"NEGOTIATION"}
    /\ reservation' = "RELEASED"
    /\ UNCHANGED <<trade, instruction, settlementAccepted, contractAccepted,
                   feeLocked, identityReleased, inventory, payout, dispute,
                   deliveryAccepted, deliveryAction, accounting, stored,
                   inboxDone, outbox, receipts, sent, ordered, allocated, paid,
                   bankReceived, processes>>

StageStep ==
    (\E r \in SettlementRun : SettlementRunStep(r)) \/ DisputeRunStep \/ NegotiationExpires
===============================================================================
