---------------------------- MODULE EconomicQuotes ----------------------------
(***************************************************************************)
(* What a match costs: the quote jobs of one match, the providers' daily    *)
(* spending limit, the economic floor and the price made from it, up to the *)
(* negotiation that evaluateEconomics opens (src/runtime/economic_jobs.ts). *)
(* Amounts are whole units per kg; every quote is worth one.                *)
(***************************************************************************)
EXTENDS JobLeases, Integers, FiniteSets

CONSTANTS
    Kind,               \* the cost kinds that are quoted; five in the code
    Quoter,             \* worker processes
    DailyQuotes,        \* quotes that a provider's maximumDailyQuoteSpend pays
    LastDay,            \* bound: the dates that pass
    SupplierNet,        \* the supplier's own price
    Ceilings,           \* what the buyer may pay at most; 0 is unknown
    CommissionFloor,    \* pricing_policies.commission_floor_per_kg
    CaptureShare,       \* 1 / surplus_capture_rate
    CommissionCap,      \* hard_commission_cap_per_kg
    BuyerDirect,        \* the kinds the buyer pays itself; the supplier pays the others
    QuoteFaults         \* bound: crashes, provider errors, elapsed leases, expiries

ASSUME PolicyAssumption ==
    /\ IsFiniteSet(Kind) /\ BuyerDirect \subseteq Kind
    /\ SupplierNet \in Nat /\ Ceilings \subseteq Nat
    /\ CommissionFloor \in Nat /\ CaptureShare \in Nat \ {0}
    /\ CommissionCap \in Nat /\ CommissionCap >= CommissionFloor
    /\ DailyQuotes \in Nat /\ LastDay \in Nat \ {0} /\ QuoteFaults \in Nat
    /\ "NONE" \notin Quoter

\* A cost that a third party, the provider or a reserve receives counts as a
\* missing route: no rail's request can carry it.
Gate == {"ROUTE", "PRICING_POLICY", "TAX_POLICY", "NEGOTIATION_POLICY"}

VARIABLES
    quoteJob,       \* quoteJob[k]: the row of economic_quote_jobs
    cost,           \* cost[k]: the row of cost_components
    billed,         \* billed[k]: the date of its spend reservation, 0 for none
    today,          \* current_date
    account,        \* who holds the advisory lock on the provider's budget
    quoter,         \* quoter[w]: the job worker w has and how far it is
    lacking,        \* what the evaluation would look for and not find
    ceiling,        \* the buyer's ceiling
    compatible,     \* matches.compatible
    floor,          \* economic_floors.state
    deal,           \* the negotiation: its status and current quote
    outranked,      \* twenty other matches, or one that throws, come first in the
                    \* evaluation dispatcher's list
    unevaluated,    \* a worker died or failed between its quote and the evaluation
    quoteFaults

market    == <<today, lacking, ceiling>>
outcome   == <<compatible, floor, deal>>
quoteRows == <<quoteJob, cost, billed>>
quoteVars == <<quoteRows, market, account, quoter, outcome, outranked, unevaluated, quoteFaults>>

Nobody  == [kind |-> "NONE", step |-> "NONE", day |-> 0]
NoDeal  == [status |-> "NONE", quote |-> 0]
FloorAmount == SupplierNet + Cardinality(Kind)

QuoteTypeOK ==
    /\ quoteJob \in [Kind -> Row({"NONE", "PENDING", "PROCESSING", "COMPLETED", "DEAD"})]
    /\ cost \in [Kind -> {"NONE", "FIRM", "EXPIRED"}]
    /\ today \in 1..LastDay /\ billed \in [Kind -> 0..LastDay]
    /\ account \in Quoter \cup {"NONE"}
    /\ quoter \in [Quoter -> [kind : Kind \cup {"NONE"}, day : 0..LastDay,
                              step : {"NONE", "BEGUN", "LOCKED", "SUMMED", "RESERVED", "STORED"}]]
    /\ lacking \subseteq Gate /\ ceiling \in Ceilings
    /\ {compatible, outranked, unevaluated} \subseteq BOOLEAN
    /\ floor \in {"NONE", "UNKNOWN", "KNOWN"}
    /\ deal \in [status : {"NONE", "OPEN", "ACCEPTED", "DECLINED"}, quote : Nat]
    /\ quoteFaults \in 0..QuoteFaults

QuoteInit ==
    /\ quoteJob = [k \in Kind |-> NewRow("NONE")] /\ cost = [k \in Kind |-> "NONE"]
    /\ billed = [k \in Kind |-> 0] /\ today = 1
    /\ account = "NONE" /\ quoter = [w \in Quoter |-> Nobody]
    /\ lacking \in SUBSET Gate /\ ceiling \in Ceilings
    /\ compatible = TRUE /\ floor = "NONE" /\ deal = NoDeal
    /\ outranked = FALSE /\ unevaluated = FALSE /\ quoteFaults = 0

QuoteFault == quoteFaults < QuoteFaults /\ quoteFaults' = quoteFaults + 1

\* ensureEconomicJobs, which the matcher repeats for a match it finds again.
EnsureJobs ==
    /\ \E k \in Kind : quoteJob[k].state = "NONE"
    /\ quoteJob' = [k \in Kind |-> IF quoteJob[k].state = "NONE" THEN NewRow("PENDING") ELSE quoteJob[k]]
    /\ UNCHANGED <<cost, billed, market, account, quoter, outcome, outranked, unevaluated, quoteFaults>>

ClaimQuote(w, k) ==
    /\ quoter[w] = Nobody /\ Claimable(quoteJob[k], {"PENDING"})
    /\ quoteJob' = [quoteJob EXCEPT ![k] = Claimed(@)]
    /\ quoter' = [quoter EXCEPT ![w].kind = k, ![w].step = "BEGUN"]
    /\ UNCHANGED <<cost, billed, market, account, outcome, outranked, unevaluated, quoteFaults>>

QuoterAt(w, step) == quoter[w].step = step
Dismiss(w) == quoter' = [quoter EXCEPT ![w] = Nobody]
Unlocked(w) == IF account = w THEN "NONE" ELSE account

\* Mutant: the transaction that reserves does not wait for the other one.
LockAccountShared(w) ==
    /\ QuoterAt(w, "BEGUN") /\ compatible
    /\ account' = w
    /\ quoter' = [quoter EXCEPT ![w].step = "LOCKED", ![w].day = today]
    /\ UNCHANGED <<quoteRows, market, outcome, outranked, unevaluated, quoteFaults>>

\* The job's match must be compatible; then the transaction on the budget
\* begins, whose current_date is that of its begin, and waits for the lock.
LockAccount(w) ==
    /\ QuoterAt(w, "BEGUN") /\ compatible /\ account = "NONE"
    /\ account' = w
    /\ quoter' = [quoter EXCEPT ![w].step = "LOCKED", ![w].day = today]
    /\ UNCHANGED <<quoteRows, market, outcome, outranked, unevaluated, quoteFaults>>

Spent(day) == Cardinality({k \in Kind : billed[k] = day})
HasRoom(day) == Spent(day) + 1 <= DailyQuotes

\* Past the limit the claim is undone and its attempt given back.
Postponed(row) ==
    IF row.state = "PROCESSING"
    THEN [Set(row, "PENDING") EXCEPT !.attempts = IF @ > 0 THEN @ - 1 ELSE 0] ELSE row

\* A reservation of the job's own is kept, whatever its date.
SumSpend(w) ==
    LET k == quoter[w].kind IN
    /\ QuoterAt(w, "LOCKED")
    /\ IF billed[k] # 0 \/ HasRoom(quoter[w].day)
       THEN quoter' = [quoter EXCEPT ![w].step = "SUMMED"] /\ UNCHANGED <<quoteJob, account>>
       ELSE /\ quoteJob' = [quoteJob EXCEPT ![k] = Postponed(@)]
            /\ Dismiss(w) /\ account' = Unlocked(w)
    /\ UNCHANGED <<cost, billed, market, outcome, outranked, unevaluated, quoteFaults>>

Reserve(w) ==
    LET k == quoter[w].kind IN
    /\ QuoterAt(w, "SUMMED") /\ account' = Unlocked(w)
    /\ billed' = IF billed[k] # 0 THEN billed ELSE [billed EXCEPT ![k] = quoter[w].day]
    /\ quoter' = [quoter EXCEPT ![w].step = "RESERVED", ![w].day = 0]
    /\ UNCHANGED <<quoteJob, cost, market, outcome, outranked, unevaluated, quoteFaults>>

\* The provider is asked with the key match:kind, so a second call usually
\* returns the first reference.  Receipt, cost and the job's end commit
\* together; a reference that is known already undoes all three.
StoreQuote(w) ==
    LET k == quoter[w].kind  again == cost[k] # "NONE" IN
    /\ QuoterAt(w, "RESERVED")
    /\ \E sameReference \in (IF again THEN BOOLEAN ELSE {FALSE}) :
         IF sameReference
         THEN /\ quoteJob' = [quoteJob EXCEPT ![k] = Failed(@, "PENDING")]
              /\ Dismiss(w) /\ UNCHANGED cost
         ELSE /\ cost' = IF again THEN cost ELSE [cost EXCEPT ![k] = "FIRM"]
              /\ quoteJob' = [quoteJob EXCEPT ![k] = Finished(@, "COMPLETED")]
              /\ quoter' = [quoter EXCEPT ![w].step = "STORED"]
    /\ UNCHANGED <<billed, market, account, outcome, outranked, unevaluated, quoteFaults>>

-----------------------------------------------------------------------------
(* The evaluation: one transaction under the advisory lock economics:match. *)

AllFirm == \A k \in Kind : cost[k] = "FIRM"

Surplus == ceiling - FloorAmount
Target  == IF Surplus \div CaptureShare > CommissionFloor THEN Surplus \div CaptureShare ELSE CommissionFloor
Commission == IF Target < CommissionCap THEN Target ELSE CommissionCap
Executable == ceiling # 0 /\ Surplus > 0 /\ Commission <= Surplus
Price == FloorAmount + Commission

\* Without a route, or without a tax policy under a pricing policy, the match
\* is marked incompatible, and nothing here ever marks it compatible again.
Condemned == "ROUTE" \in lacking \/ ("TAX_POLICY" \in lacking /\ "PRICING_POLICY" \notin lacking)

Opened == IF lacking = {} /\ Executable /\ deal = NoDeal
          THEN [status |-> "OPEN", quote |-> Price] ELSE deal

Evaluated ==
    /\ floor' = IF AllFirm THEN "KNOWN" ELSE "UNKNOWN"
    /\ compatible' = (compatible /\ ~(AllFirm /\ Condemned))
    /\ deal' = IF AllFirm THEN Opened ELSE deal

Evaluate(w) ==
    /\ QuoterAt(w, "STORED") /\ Evaluated /\ Dismiss(w)
    /\ UNCHANGED <<quoteRows, market, account, outranked, unevaluated, quoteFaults>>

\* Mutant: only the workers evaluate.
ReevaluateNever == FALSE /\ UNCHANGED quoteVars

\* EconomicEvaluationDispatcher does not ask whether the match is compatible.
\* It takes the first twenty KNOWN matches without a negotiation by
\* priority_score, then the time of their last evaluation: those that stay
\* rejected stay in its list, and one that throws ends the batch.
Reevaluate ==
    /\ floor = "KNOWN" /\ deal = NoDeal /\ ~outranked /\ Evaluated
    /\ outcome' # outcome
    /\ UNCHANGED <<quoteRows, market, account, quoter, outranked, unevaluated, quoteFaults>>

\* Others come before this match or leave the list, or stop throwing.
RankChanges ==
    /\ IF outranked THEN UNCHANGED quoteFaults ELSE QuoteFault
    /\ outranked' = ~outranked
    /\ UNCHANGED <<quoteRows, market, account, quoter, outcome, unevaluated>>

RefuseJob(w) ==
    /\ QuoterAt(w, "BEGUN") /\ ~compatible
    /\ quoteJob' = [quoteJob EXCEPT ![quoter[w].kind] = Failed(@, "PENDING")]
    /\ Dismiss(w) /\ UNCHANGED <<cost, billed, market, account, outcome, outranked, unevaluated, quoteFaults>>

\* After the job's end is stored, its error handler finds no row to put back.
QuoteFails(w) ==
    /\ quoter[w] # Nobody /\ QuoteFault /\ Dismiss(w) /\ account' = Unlocked(w)
    /\ quoteJob' = [quoteJob EXCEPT ![quoter[w].kind] = Failed(@, "PENDING")]
    /\ unevaluated' = (unevaluated \/ QuoterAt(w, "STORED"))
    /\ UNCHANGED <<cost, billed, market, outcome, outranked>>

CrashQuoter(w) ==
    /\ quoter[w] # Nobody /\ QuoteFault /\ Dismiss(w) /\ account' = Unlocked(w)
    /\ unevaluated' = (unevaluated \/ QuoterAt(w, "STORED"))
    /\ UNCHANGED <<quoteRows, market, outcome, outranked>>

\* Of the quote, or of the offer that states the supplier's price.
ExpireCost(k) ==
    /\ cost[k] = "FIRM" /\ QuoteFault /\ cost' = [cost EXCEPT ![k] = "EXPIRED"]
    /\ UNCHANGED <<quoteJob, billed, market, account, quoter, outcome, outranked, unevaluated>>

DayPasses ==
    /\ today < LastDay /\ today' = today + 1
    /\ UNCHANGED <<quoteRows, lacking, ceiling, account, quoter, outcome, outranked, unevaluated, quoteFaults>>

ApprovalChanges(g) ==
    /\ IF g \in lacking THEN lacking' = lacking \ {g} /\ UNCHANGED quoteFaults
                        ELSE lacking' = lacking \cup {g} /\ QuoteFault
    /\ UNCHANGED <<quoteRows, today, ceiling, account, quoter, outcome, outranked, unevaluated>>

RedriveQuote(k) ==
    /\ quoteJob[k].state = "DEAD" /\ quoteJob' = [quoteJob EXCEPT ![k] = Set(@, "PENDING")]
    /\ UNCHANGED <<cost, billed, market, account, quoter, outcome, outranked, unevaluated, quoteFaults>>

ElapseQuote(k) ==
    /\ quoteJob[k].state = "PROCESSING" /\ ~quoteJob[k].old
    /\ IF \E w \in Quoter : quoter[w].kind = k THEN QuoteFault ELSE UNCHANGED quoteFaults
    /\ quoteJob' = [quoteJob EXCEPT ![k] = Elapsed(@)]
    /\ UNCHANGED <<cost, billed, market, account, quoter, outcome, outranked, unevaluated>>

QuoterStep(w) == LockAccount(w) \/ SumSpend(w) \/ Reserve(w) \/ StoreQuote(w) \/ Evaluate(w) \/ RefuseJob(w)
QuoteTimer(k) == RedriveQuote(k) \/ ElapseQuote(k)

QuoteNext ==
    \/ EnsureJobs \/ Reevaluate \/ DayPasses \/ RankChanges
    \/ \E g \in Gate : ApprovalChanges(g)
    \/ \E k \in Kind : QuoteTimer(k) \/ ExpireCost(k)
    \/ \E w \in Quoter : QuoterStep(w) \/ QuoteFails(w) \/ CrashQuoter(w) \/ \E k \in Kind : ClaimQuote(w, k)

QuoteSpec == QuoteInit /\ [][QuoteNext]_quoteVars
-----------------------------------------------------------------------------
\* However many workers reserve at once and whatever they retry, the quotes
\* booked on a date never exceed the provider's limit (economic_jobs.ts:145-183).
SpendIsCapped == \A day \in 1..LastDay : Spent(day) <= DailyQuotes

\* A match whose costs are all quoted and whose approvals stay in place comes
\* to a negotiation, whichever worker quoted last and whenever the approvals
\* came, unless the evaluation after a quote was lost or the dispatcher's list
\* never comes to the match (economic_jobs.ts:236-255).
QuotedIsNegotiated ==
    []<>(AllFirm /\ lacking = {} /\ Executable => deal # NoDeal \/ unevaluated \/ outranked)
===============================================================================
