----------------------------- MODULE Negotiations -----------------------------
(***************************************************************************)
(* The buyer's answers in the thread of an open negotiation and the final   *)
(* economics that an acceptance freezes (applyNegotiationIntent and         *)
(* persistFinalEconomicsSnapshot of src/runtime/inbox_processors.ts).  An   *)
(* intent is one transaction on the locked row; one that throws leaves      *)
(* everything as it was.                                                    *)
(***************************************************************************)
EXTENDS EconomicQuotes

CONSTANTS
    Bids,           \* the prices a buyer may name
    MaxConcession   \* negotiation_policies.maximum_concession_per_kg

ASSUME BidsAssumption == Bids \subseteq Nat /\ MaxConcession \in Nat

VARIABLES
    lapsed,         \* negotiations.expires_at has passed
    snapshot        \* the row of final_economics_snapshots

dealVars == <<quoteVars, lapsed, snapshot>>

NoSnapshot == [price |-> 0, supplier |-> 0, gross |-> 0, direct |-> 0, commission |-> 0]

DealTypeOK ==
    /\ lapsed \in BOOLEAN
    /\ snapshot \in [price : Nat, supplier : Nat, gross : Nat, direct : Nat, commission : Nat]

DealInit == lapsed = FALSE /\ snapshot = NoSnapshot

\* Mutant: the least price covers the costs only.
MinimumBare == FloorAmount

Minimum == FloorAmount + CommissionFloor

Conceded == IF deal.quote - MaxConcession < Minimum THEN Minimum ELSE deal.quote - MaxConcession

\* negotiate, for a price in the policy's currency.
Answer(bid) ==
    IF bid < Minimum THEN [status |-> "OPEN", quote |-> Minimum]
    ELSE IF bid < deal.quote /\ deal.quote - bid > MaxConcession
         THEN [status |-> "OPEN", quote |-> Conceded]
    ELSE [status |-> "ACCEPTED", quote |-> bid]

\* buildFinalWaterfall: the supplier receives its price and the costs it pays.
DirectAmount == Cardinality(BuyerDirect)
Waterfall(price) ==
    [price |-> price, direct |-> DirectAmount, gross |-> price - DirectAmount,
     supplier |-> FloorAmount - DirectAmount, commission |-> price - FloorAmount]

Negotiable ==
    /\ deal.status = "OPEN" /\ ~lapsed
    /\ floor = "KNOWN" /\ "NEGOTIATION_POLICY" \notin lacking

Become(answer) ==
    /\ Negotiable
    /\ deal' = answer
    /\ IF answer.status = "ACCEPTED"
       THEN /\ AllFirm /\ answer.quote > FloorAmount
            /\ snapshot' = Waterfall(answer.quote)
       ELSE UNCHANGED snapshot
    /\ UNCHANGED <<quoteRows, market, account, quoter, compatible, floor, outranked, unevaluated,
                   quoteFaults, lapsed>>

\* "COUNTER_PRICE", "ACCEPT", and a price in another currency, which ends it.
Bid(price) == Become(Answer(price))
AcceptQuote == Become([status |-> "ACCEPTED", quote |-> deal.quote])
Decline == Become([status |-> "DECLINED", quote |-> deal.quote])

\* Nothing writes EXPIRED to a negotiation that is not a renewal's.
Lapse ==
    /\ deal.status = "OPEN" /\ ~lapsed /\ lapsed' = TRUE
    /\ UNCHANGED <<quoteVars, snapshot>>

Talk == AcceptQuote \/ Decline \/ Lapse \/ \E price \in Bids : Bid(price)

DealNext == Talk \/ (QuoteNext /\ UNCHANGED <<lapsed, snapshot>>)

DealSpec == QuoteInit /\ DealInit /\ [][DealNext]_dealVars
-----------------------------------------------------------------------------
\* No run of counter-offers, concessions and late evaluations brings the quote
\* below the costs and the least commission, and what an acceptance freezes
\* pays the supplier, the costs and the commission out of the buyer's price to
\* the last unit (negotiation.ts:47-56, waterfall.ts:96-104).
PriceCoversFloor ==
    /\ deal # NoDeal => deal.quote >= FloorAmount + CommissionFloor
    /\ (deal.status = "ACCEPTED") = (snapshot # NoSnapshot)
    /\ snapshot # NoSnapshot =>
         /\ snapshot.price = deal.quote /\ snapshot.commission >= CommissionFloor
         /\ snapshot.price = snapshot.gross + snapshot.direct
         /\ snapshot.gross = snapshot.supplier + snapshot.commission
         /\ snapshot.supplier >= SupplierNet
===============================================================================
