----------------------------- MODULE MCFulfilment ------------------------------
(***************************************************************************)
(* Two things that make a trade end well for its parties: the stock behind *)
(* it is really there, and accepted goods are paid.  A behaviour takes one *)
(* of them, "focus", and leaves the other as it begins.                    *)
(*                                                                         *)
(* Four trades between two offers and two demands.  a and b compete for    *)
(* demand d1, b and c for offer o2; e fits beside the others.              *)
(***************************************************************************)
EXTENDS MCTradeSystem, InventoryAllocations

MCTrade == {"a", "b", "c", "e"}
MCOffer == {"o1", "o2"}
MCDemand == {"d1", "d2"}
MCOfferOf == [t \in MCTrade |-> IF t \in {"a", "e"} THEN "o1" ELSE "o2"]
MCDemandOf == [t \in MCTrade |-> IF t \in {"a", "b"} THEN "d1" ELSE "d2"]
MCQuantity == [t \in MCTrade |-> IF t \in {"a", "c"} THEN 2 ELSE 1]
MCMoq == [o \in MCOffer |-> 1]
MCCapacity == ("o1" :> 3) @@ ("o2" :> 2) @@ ("d1" :> 2) @@ ("d2" :> 3)

\* All keys apart; and o1 with the hash of d1, which it shares with trade a
\* itself, and o2 with that of d2, so that b and e can wait for each other.
Apart == [k \in Lot |-> k]
Shared == [Apart EXCEPT !["o1"] = "d1", !["o2"] = "d2"]
MCHashings == {Apart, Shared}

VARIABLE focus

FulfilmentInit == focus \in {"PAYOUT", "STOCK"} /\ Init /\ StockInit /\ (focus = "PAYOUT" => hash = Apart)

FulfilmentNext ==
    /\ \/ focus = "PAYOUT" /\ Next /\ UNCHANGED stockVars
       \/ focus = "STOCK" /\ StockNext /\ UNCHANGED vars
    /\ UNCHANGED focus

\* Fairness.  The dispatcher gets through if it can infinitely often.  A granted
\* lock goes to the first in its queue, a statement comes back, and PostgreSQL's
\* deadlock detector runs; nobody has to begin or to fail.
Paying(A) == focus = "PAYOUT" /\ A /\ UNCHANGED <<stockVars, focus>>
Reserving(A) == focus = "STOCK" /\ A /\ UNCHANGED <<vars, focus>>

fulfilmentVars == <<focus, vars, stockVars>>

FulfilmentSpec ==
    /\ FulfilmentInit /\ [][FulfilmentNext]_fulfilmentVars
    /\ \A d \in Dispatcher :
        /\ SF_fulfilmentVars(Paying(Claim(d)))
        /\ SF_fulfilmentVars(Paying(ProviderRelease(d)))
        /\ SF_fulfilmentVars(Paying(RecordReleased(d)))
    /\ \A t \in Trade :
        /\ SF_fulfilmentVars(Reserving(LockFirst(t) \/ LockSecond(t)))
        /\ WF_fulfilmentVars(Reserving(GoOn(t)))
===============================================================================
