-------------------------- MODULE CounterpartyActions --------------------------
(***************************************************************************)
(* CounterpartyActionDispatcher.project for the duty that bears on money,  *)
(* the buyer's acceptance of the delivery (BUYER_ACCEPT_DELIVERY).         *)
(*                                                                         *)
(* project runs its statements one by one outside any transaction: expire  *)
(* what is overdue, freeze the payout of an expired duty, complete the     *)
(* duties the trade has left behind, create the ones it now has.  Anything *)
(* may happen between two of them, and the process may rest before any of  *)
(* them, so each statement is an action that is possible at any time.      *)
(***************************************************************************)
EXTENDS TradeRecords

restOfDuty == <<trade, instruction, settlementAccepted, contractAccepted,
                feeLocked, identityReleased, inventory, reservation, dispute,
                deliveryAccepted, accounting, stored, inboxDone, outbox,
                receipts, world, processes>>

\* REQUIRED stands for REQUIRED and NOTIFIED, which no statement tells apart.
ExpireDuty ==
    /\ deliveryAction = "REQUIRED"
    /\ "DELIVERY" \in elapsed
    /\ deliveryAction' = "EXPIRED"
    /\ UNCHANGED <<payout, restOfDuty>>

FreezeOverdue ==
    /\ deliveryAction = "EXPIRED"
    /\ payout \in {"HELD", "RELEASE_PENDING"}
    /\ payout' = "FROZEN"
    /\ UNCHANGED <<deliveryAction, restOfDuty>>

\* The duty ends because the trade is no longer DELIVERED, whatever it became.
CompleteDuty ==
    /\ deliveryAction = "REQUIRED"
    /\ trade # "DELIVERED"
    /\ deliveryAction' = "COMPLETED"
    /\ UNCHANGED <<payout, restOfDuty>>

\* The action row is unique for the trade: it is created once.
RequireAcceptance ==
    /\ deliveryAction = "NONE"
    /\ trade = "DELIVERED"
    /\ deliveryAction' = "REQUIRED"
    /\ UNCHANGED <<payout, restOfDuty>>

Project == ExpireDuty \/ FreezeOverdue \/ CompleteDuty \/ RequireAcceptance
===============================================================================
