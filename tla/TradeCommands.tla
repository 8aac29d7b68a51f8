----------------------------- MODULE TradeCommands -----------------------------
(***************************************************************************)
(* ProductionCommandService: what the supplier and the buyer do to their   *)
(* trade through the portal.  Each command is one transaction that locks   *)
(* the trade's row and throws, changing nothing, when its guard fails.     *)
(***************************************************************************)
EXTENDS TradeRecords

\* Both parties accept the exact settlement instruction before it expires.
AcceptSettlementInstruction(role) ==
    /\ instruction # "NONE"
    /\ "INSTRUCTION" \notin elapsed
    /\ role \notin settlementAccepted
    /\ settlementAccepted' = settlementAccepted \cup {role}
    /\ UNCHANGED <<trade, instruction, contractAccepted, feeLocked,
                   identityReleased, inventory, reservation, payout, dispute,
                   deliveryAccepted, deliveryAction, accounting, stored,
                   inboxDone, outbox, receipts, world, processes>>

\* The provider events that prove the buyer's money, and the contract's state.
FundingProof == {"FUNDED", "ENTITLEMENT_SECURED"}
\* Mutant: one party's signature is enough.
SignedByAnyone(roles) == roles # {}
Signed(roles) == roles = Role

\* The second acceptance contracts the trade, and a provider event that
\* already proves the money funds it in the same transaction.  Unlike the
\* funding branch of processSettlementEvent this one leaves the inventory
\* allocation as it was.
AcceptTradeContract(role) ==
    /\ trade = "IDENTITY_RELEASED"
    /\ contractAccepted' = contractAccepted \cup {role}
    /\ trade' = IF ~Signed(contractAccepted')           THEN trade
                ELSE IF StoredOfType(FundingProof) # {} THEN "FUNDED"
                ELSE "CONTRACTED"
    /\ UNCHANGED <<instruction, settlementAccepted, feeLocked,
                   identityReleased, inventory, reservation, payout, dispute,
                   deliveryAccepted, deliveryAction, accounting, stored,
                   inboxDone, outbox, receipts, world, processes>>

\* The one shipment event each state admits.
NextShipment ==
    [FUNDED |-> "DISPATCHED", DISPATCHED |-> "IN_TRANSIT", IN_TRANSIT |-> "DELIVERED"]

RecordShipment ==
    /\ trade \in DOMAIN NextShipment
    /\ trade' = NextShipment[trade]
    /\ UNCHANGED <<instruction, settlementAccepted, contractAccepted,
                   feeLocked, identityReleased, inventory, reservation, payout,
                   dispute, deliveryAccepted, deliveryAction, accounting,
                   stored, inboxDone, outbox, receipts, world, processes>>

\* The buyer accepts the delivered goods; delivery_acceptances is unique per trade.
AcceptDelivery ==
    /\ trade = "DELIVERED"
    /\ ~deliveryAccepted
    /\ deliveryAccepted' = TRUE
    /\ trade' = "ACCEPTED"
    /\ TransitionInventory("COMMITTED", "CONSUMED")
    /\ outbox' = outbox \cup {"TRADE_ACCEPTED"}
    /\ UNCHANGED <<instruction, settlementAccepted, contractAccepted,
                   feeLocked, identityReleased, reservation, payout, dispute,
                   deliveryAction, accounting, stored, inboxDone, receipts,
                   world, processes>>

\* The buyer disputes; counterparty_dispute_requests is unique per trade.
OpenDispute ==
    /\ trade \in {"FUNDED", "DISPATCHED", "IN_TRANSIT", "DELIVERED"}
    /\ dispute = "NONE"
    /\ dispute' = "OPENED"
    /\ trade' = "DISPUTED_FROZEN"
    /\ payout' = IF payout \in {"HELD", "RELEASE_PENDING"} THEN "FROZEN" ELSE payout
    /\ outbox' = outbox \cup {"DISPUTE_INITIATED"}
    /\ UNCHANGED <<instruction, settlementAccepted, contractAccepted,
                   feeLocked, identityReleased, inventory, reservation,
                   deliveryAccepted, deliveryAction, accounting, stored,
                   inboxDone, receipts, world, processes>>

CommandStep ==
    \/ \E role \in Role : AcceptSettlementInstruction(role) \/ AcceptTradeContract(role)
    \/ RecordShipment
    \/ AcceptDelivery
    \/ OpenDispute
===============================================================================
