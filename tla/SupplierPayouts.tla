---------------------------- MODULE SupplierPayouts ----------------------------
(***************************************************************************)
(* SupplierPayoutReleaseDispatcher.dispatchBatch: claim the payouts that   *)
(* may be released, call the provider, record what it answered.  A claim   *)
(* is the state RELEASE_PENDING itself, which any dispatcher may claim     *)
(* again, so a crash or a slow provider is retried by another process.     *)
(***************************************************************************)
EXTENDS TradeRecords

restOfTrade == <<trade, instruction, settlementAccepted, contractAccepted,
                 feeLocked, identityReleased, inventory, reservation, dispute,
                 deliveryAccepted, deliveryAction, accounting, stored,
                 inboxDone, outbox, receipts>>

\* Mutants: delivery is not asked for; an interrupted claim is not claimed again.
ClaimableUndelivered ==
    /\ payout \in {"HELD", "RELEASE_PENDING"}
    /\ trade \in {"ACCEPTED", "SETTLED", "RECURRING"}
    /\ dispute \notin {"OPENED", "PROVIDER_SUBMITTED", "FROZEN"}
ClaimableOnce ==
    /\ payout = "HELD"
    /\ trade \in {"ACCEPTED", "SETTLED", "RECURRING"}
    /\ deliveryAccepted
    /\ dispute \notin {"OPENED", "PROVIDER_SUBMITTED", "FROZEN"}

Claimable ==
    /\ payout \in {"HELD", "RELEASE_PENDING"}
    /\ trade \in {"ACCEPTED", "SETTLED", "RECURRING"}
    /\ deliveryAccepted
    /\ dispute \notin {"OPENED", "PROVIDER_SUBMITTED", "FROZEN"}

\* Mutant: the payout is recorded before the provider is called.
ClaimAsReleased == "RELEASED"
ClaimMark == "RELEASE_PENDING"

Claim(d) ==
    /\ dispatcher[d] = "IDLE"
    /\ Claimable
    /\ payout' = ClaimMark
    /\ dispatcher' = [dispatcher EXCEPT ![d] = "CLAIMED"]
    /\ UNCHANGED <<restOfTrade, world, worker, run, disputeRun, reconciler>>

\* adapter.releaseSupplierPayout succeeds: keyed by the payout, so a second
\* call for the same payout releases nothing more.
ProviderRelease(d) ==
    /\ dispatcher[d] = "CLAIMED"
    /\ paid' = TRUE
    /\ dispatcher' = [dispatcher EXCEPT ![d] = "PROVIDER_RELEASED"]
    /\ UNCHANGED <<tradeRows, sent, ordered, allocated, bankReceived, elapsed,
                   worker, run, disputeRun, reconciler>>

RecordReleased(d) ==
    /\ dispatcher[d] = "PROVIDER_RELEASED"
    /\ payout' = IF payout = "RELEASE_PENDING" THEN "RELEASED" ELSE payout
    /\ dispatcher' = [dispatcher EXCEPT ![d] = "IDLE"]
    /\ UNCHANGED <<restOfTrade, world, worker, run, disputeRun, reconciler>>

\* The provider call, its answer, or the update after it throws.
RecordError(d) ==
    /\ dispatcher[d] \in {"CLAIMED", "PROVIDER_RELEASED"}
    /\ payout' = IF payout = "RELEASE_PENDING" THEN "HELD" ELSE payout
    /\ dispatcher' = [dispatcher EXCEPT ![d] = "IDLE"]
    /\ UNCHANGED <<restOfTrade, world, worker, run, disputeRun, reconciler>>

CrashDispatcher(d) ==
    /\ dispatcher[d] # "IDLE"
    /\ dispatcher' = [dispatcher EXCEPT ![d] = "IDLE"]
    /\ UNCHANGED <<tradeRows, world, worker, run, disputeRun, reconciler>>

DispatcherStep(d) ==
    \/ Claim(d) \/ ProviderRelease(d) \/ RecordReleased(d)
    \/ RecordError(d) \/ CrashDispatcher(d)

PayoutStep == \E d \in Dispatcher : DispatcherStep(d)
===============================================================================
