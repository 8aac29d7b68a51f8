-------------------------- MODULE TradeReconciliation --------------------------
(***************************************************************************)
(* RecurringDemandWorkflow: reconcile the brokerage fee against provider   *)
(* and bank evidence until it settles, then let the next renewal cycle     *)
(* begin.  reconcileTradeAccounting locks the accounting key and not the   *)
(* trade, so the state it read can be out of date when it writes.          *)
(***************************************************************************)
EXTENDS TradeRecords

restOfRows == <<instruction, settlementAccepted, contractAccepted, feeLocked,
                identityReleased, inventory, reservation, payout, dispute,
                deliveryAccepted, deliveryAction, stored, inboxDone>>

StartRecurring ==
    /\ reconciler.phase = "NOT_STARTED"
    /\ "TRADE_ACCEPTED" \in outbox \cap Routed
    /\ reconciler' = [reconciler EXCEPT !.phase = "READ"]
    /\ UNCHANGED <<tradeRows, world, worker, run, disputeRun, dispatcher>>

\* A bank row arrives that carries the reference of a reported disbursement.
BankReceipt ==
    /\ ~bankReceived
    /\ \E e \in sent : EventType[e] = "DISBURSEMENT_REPORTED"
    /\ bankReceived' = TRUE
    /\ UNCHANGED <<tradeRows, sent, ordered, allocated, paid, elapsed,
                   processes>>

\* Each stored disbursement report equals the whole entitlement, and the bank
\* row is allocated up to it: the sums agree exactly when there is one report.
Evaluate ==
    LET reports == Cardinality(StoredOfType({"DISBURSEMENT_REPORTED"}))
    IN  CASE reports = 0 \/ ~bankReceived -> "PROVIDER_ONLY"
          [] reports = 1 /\ bankReceived  -> "RECONCILED"
          [] OTHER                        -> "MISMATCH"

\* The fee lock and the trade's state are read; a trade that is not accepted
\* answers UNKNOWN and the workflow polls again.
ReadAccepted ==
    /\ reconciler.phase = "READ"
    /\ feeLocked
    /\ trade \in {"ACCEPTED", "SETTLED", "RECURRING"}
    /\ reconciler' = [phase |-> "WRITE", seen |-> trade, result |-> "NONE"]
    /\ UNCHANGED <<tradeRows, world, worker, run, disputeRun, dispatcher>>

WriteReconciliation ==
    /\ reconciler.phase = "WRITE"
    /\ accounting' = Evaluate
    /\ LET settles == Evaluate = "RECONCILED" /\ reconciler.seen = "ACCEPTED"
       IN  /\ trade' = IF settles /\ trade = "ACCEPTED" THEN "SETTLED" ELSE trade
           /\ outbox' = IF settles THEN outbox \cup {"TRADE_SETTLED"} ELSE outbox
    /\ reconciler' = [phase |-> "RECORD", seen |-> "PROTECTED", result |-> Evaluate]
    /\ UNCHANGED <<restOfRows, receipts, world, worker, run, disputeRun, dispatcher>>

RecordReconciliation ==
    /\ reconciler.phase = "RECORD"
    /\ <<"RECONCILE", reconciler.result>> \notin receipts
    /\ receipts' = receipts \cup {<<"RECONCILE", reconciler.result>>}
    /\ reconciler' =
           [phase  |-> CASE reconciler.result = "RECONCILED" -> "DONE"
                         [] reconciler.result = "MISMATCH"   -> "FAILED"
                         [] OTHER                            -> "READ",
            seen   |-> "PROTECTED",
            result |-> "NONE"]
    /\ UNCHANGED <<trade, restOfRows, accounting, outbox, world, worker, run,
                   disputeRun, dispatcher>>

RetryReconciliation ==
    /\ reconciler.phase \in {"WRITE", "RECORD"}
    /\ reconciler' = [phase |-> "READ", seen |-> "PROTECTED", result |-> "NONE"]
    /\ UNCHANGED <<tradeRows, world, worker, run, disputeRun, dispatcher>>

\* createQualifiedRecurringMatch: the settled trade begins its next cycle.
Recur ==
    /\ reconciler.phase = "DONE"
    /\ trade = "SETTLED"
    /\ trade' = "RECURRING"
    /\ UNCHANGED <<restOfRows, accounting, outbox, receipts, world, processes>>

ReconcilerStep ==
    \/ StartRecurring \/ BankReceipt \/ ReadAccepted \/ WriteReconciliation
    \/ RecordReconciliation \/ RetryReconciliation \/ Recur
===============================================================================
