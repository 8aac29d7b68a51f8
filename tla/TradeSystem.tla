------------------------------ MODULE TradeSystem ------------------------------
(***************************************************************************)
(* The runtime of one protected trade: portal commands, provider webhooks, *)
(* durable workflows, payout release, counterparty duties and accounting,  *)
(* interleaved at every database transaction and provider call.            *)
(***************************************************************************)
EXTENDS TradeCommands, SettlementStages, SettlementEvents, SupplierPayouts,
        CounterpartyActions, TradeReconciliation

Next ==
    \/ CommandStep
    \/ StageStep
    \/ EventStep
    \/ PayoutStep
    \/ Project
    \/ ReconcilerStep
    \/ \E c \in Clock : ClockPasses(c)

Spec == Init /\ [][Next]_vars

\* Infrastructure recovers: the inbox redrives an event for ever, Temporal
\* retries an activity for ever, a payout that is not recorded is claimed
\* again, and each of them eventually gets through if it is possible infinitely
\* often.  Parties, providers and clocks owe nothing.
InboxFairness ==
    \A w \in Worker :
        /\ \A e \in Event : SF_vars(Read(w, e))
        /\ SF_vars(Split(w)) /\ SF_vars(Apply(w)) /\ WF_vars(Abandon(w))

WorkflowFairness ==
    \A r \in SettlementRun :
        /\ WF_vars(StartSettlement(r)) /\ WF_vars(LockSettlement(r))
        /\ SF_vars(CreateInstruction(r)) /\ SF_vars(AcknowledgeInstruction(r))
        /\ SF_vars(RecordLock(r)) /\ WF_vars(RetryActivity(r))
        /\ WF_vars(ReleaseIdentity(r) \/ ReleaseIntroduced(r))

PayoutFairness ==
    \A d \in Dispatcher :
        SF_vars(Claim(d)) /\ SF_vars(ProviderRelease(d)) /\ SF_vars(RecordReleased(d))

FundingSpec == Spec /\ InboxFairness /\ WorkflowFairness
PayoutSpec  == Spec /\ PayoutFairness

-------------------------------------------------------------------------------
(* Safety *)

\* The promise to the parties, as the abstract specification states it.
Promise == INSTANCE BrokeragePromise WITH
    Party    <- Role,
    consent  <- settlementAccepted,
    secured  <- feeLocked,
    revealed <- identityReleased,
    accepted <- deliveryAccepted,
    paid     <- paid

PromiseKept == Promise!Spec

\* What a trade does with its stock is what InventoryAllocations reckons with:
\* the trade is one that has its reservation, of one tonne of one lot.
Stock == INSTANCE InventoryAllocations WITH
    Trade <- {"trade"}, Offer <- {"offer"}, Demand <- {"demand"},
    OfferOf <- [t \in {"trade"} |-> "offer"], DemandOf <- [t \in {"trade"} |-> "demand"],
    Quantity <- [t \in {"trade"} |-> 1], Moq <- [o \in {"offer"} |-> 1],
    Capacity <- [k \in {"offer", "demand"} |-> 1], Expiring <- {},
    Hash <- {"offer", "demand"}, Hashings <- {[k \in {"offer", "demand"} |-> k]},
    None <- "nobody",
    hash <- [k \in {"offer", "demand"} |-> k],
    holder <- [h \in {"offer", "demand"} |-> "nobody"],
    step <- [t \in {"trade"} |-> "IDLE"],
    allocation <- [t \in {"trade"} |-> inventory],
    expired <- {}

MovesItsStock == [][Stock!StockNext]_(Stock!stockVars)

\* What a renewal's trade does with its reservation is what StandingMandates
\* reckons with.  The trade is renewal 1 of a mandate for one, after trade 2.
\* A trade counts as failed if its failure gave the renewal back; failures after
\* the fee lock, which a dispute's resolution may undo, change no mandate.
RenewalTrade ==
    CASE trade \in {"SETTLED", "RECURRING"} -> "SETTLED"
      [] trade \notin {"SETTLED", "RECURRING"} /\ feeLocked -> "FEE_LOCKED"
      [] OTHER ->
           IF reservation = "RELEASED" /\ "NEGOTIATION" \notin elapsed
           THEN "FAILED" ELSE "PROTECTED"

BoundRenewal ==
    [status |-> "TRADE_PROTECTED", state |-> "COMMITTED", overdue |-> FALSE, cycle |-> 1,
     prior |-> 2, talks |-> "CLOSED", answered |-> FALSE, trade |-> "PROTECTED"]
RenewalRow(state, of) ==
    [BoundRenewal EXCEPT !.state = state, !.trade = of,
                         !.status = IF state = "CONSUMED" THEN "FEE_LOCKED" ELSE @]
Only(row) == [c \in 1..1 |-> row]

Uncounted == [reserved |-> 0, consumed |-> 0, due |-> FALSE, valid |-> TRUE]
Counters(state) ==
    [Uncounted EXCEPT !.reserved = IF state = "COMMITTED" THEN 1 ELSE 0,
                      !.consumed = IF state = "CONSUMED" THEN 1 ELSE 0]

Mandate == INSTANCE StandingMandates WITH
    SettledTrade <- {2}, LastRenewal <- 1, MaximumRenewals <- 1,
    mandate <- Counters(reservation),
    cycleEvents <- {1},
    renewal <- Only(RenewalRow(reservation, RenewalTrade)),
    expiring <- {c \in {1} : "NEGOTIATION" \in Clock \ elapsed}

MovesItsRenewal == [][Renewal => Mandate!MandateNext]_(Mandate!mandateVars)

\* An identity is disclosed only with a fee lock that a stored provider event
\* of secured money and both exact acceptances stand behind (lockSettlement,
\* processSettlementEvent, releaseIdentity).
DisclosureBacked ==
    identityReleased =>
        /\ feeLocked
        /\ settlementAccepted = Role
        /\ StoredOfType({"ENTITLEMENT_SECURED"}) # {}

\* A trade under way - funded to delivered - belongs to parties who were
\* introduced, both signed, and whose order the provider holds.
TradeUnderWay == {"CONTRACTED", "FUNDED", "DISPATCHED", "IN_TRANSIT", "DELIVERED"}
ShipmentBacked ==
    trade \in TradeUnderWay =>
        /\ identityReleased /\ contractAccepted = Role
        /\ ordered /\ ~deliveryAccepted

\* Funding never waits for a second report: a contracted trade is funded in the
\* transaction that contracts it, because the fee lock it needed stored the
\* provider's event (acceptTradeContract), so CONTRACTED is never committed.
ContractedIsFunded == trade # "CONTRACTED"

\* The supplier is paid at most for goods the buyer accepted under a fee lock,
\* and the control row says RELEASED only if the provider really released.
PayoutBacked ==
    /\ paid => feeLocked /\ identityReleased /\ deliveryAccepted
    /\ payout = "RELEASED" => paid

\* A renewal is consumed by the fee lock of its trade, exactly, whatever fails
\* before, after or instead of the lock.  A fee lock goes without a renewal only
\* if NEGOTIATE took it back from the trade first.
RenewalSpentWithLock ==
    Renewal =>
        /\ reservation = "CONSUMED" => feeLocked
        /\ feeLocked => \/ reservation = "CONSUMED"
                        \/ reservation = "RELEASED" /\ "NEGOTIATION" \in elapsed

\* A settled trade stays settled: the webhook handlers decide on a state they
\* read earlier, and only the guards of their updates protect it.
SettledIsFinal ==
    [][(trade \in {"SETTLED", "RECURRING"}) => (trade' \in {"SETTLED", "RECURRING"})]_vars

\* Once the trade's settlement failed or was refunded before its fee lock, the
\* identity stays sealed: no late event or workflow reopens it.
DeadTradeStaysSealed ==
    [][(~feeLocked /\ trade \in {"SETTLEMENT_FAILED", "CANCELLED", "DISPUTED_FROZEN"})
          => (~feeLocked' /\ ~identityReleased')]_vars

\* A settlement workflow never gets ahead of the money: it attempts a release
\* only under a fee lock and ends well only with the identity released, however
\* often its activities are repeated and whichever of the two runs is first.
WorkflowsTellTheTruth ==
    \A r \in SettlementRun :
        /\ run[r].phase \in {"RELEASE", "RECORD_RELEASE"} => feeLocked
        /\ run[r].phase = "DONE" => identityReleased

\* A trade the buyer disputed through the portal is never paid out and its
\* goods never count as accepted, however the dispute ends: a resolution
\* restores the trade, not the delivery acceptance that a payout needs.
DisputedIsUnpaid == dispute # "NONE" => ~paid /\ ~deliveryAccepted

-------------------------------------------------------------------------------
(* The inductive invariant behind the safety properties *)

Introduction  == {"IDENTITY_RELEASED"} \cup TradeUnderWay
AfterDelivery == {"ACCEPTED", "SETTLED", "RECURRING", "CANCELLED",
                  "DISPUTED_FROZEN", "SETTLEMENT_FAILED"}

\* Every promise rests on the one before it.
ChainOfPromises ==
    /\ feeLocked => settlementAccepted = Role
    /\ feeLocked => StoredOfType({"ENTITLEMENT_SECURED"}) # {}
    /\ identityReleased => feeLocked
    /\ deliveryAccepted => identityReleased
    /\ paid => deliveryAccepted

\* What the trade's state says about its other rows.
StateBacked ==
    /\ trade # "CONTRACTED"
    /\ trade \in Introduction => identityReleased
    /\ trade \in TradeUnderWay => contractAccepted = Role
    /\ deliveryAccepted => trade \in AfterDelivery
    /\ dispute # "NONE" => trade \in AfterDelivery /\ ~deliveryAccepted
    /\ trade = "PROTECTED" /\ Renewal => reservation \in {"COMMITTED", "RELEASED"}
    /\ reservation = "CONSUMED" => feeLocked
    /\ Renewal /\ feeLocked => reservation \in {"CONSUMED", "RELEASED"}
    /\ Renewal /\ (trade = "PROTECTED" \/ feeLocked) /\ reservation = "RELEASED"
          => "NEGOTIATION" \in elapsed
    /\ "NEGOTIATION" \in elapsed => reservation = "RELEASED"

\* What a process in the middle of its work may rely on.
ProcessBacked ==
    /\ \A d \in Dispatcher :
          /\ dispatcher[d] # "IDLE" => deliveryAccepted
          /\ dispatcher[d] = "PROVIDER_RELEASED" => paid
    /\ payout = "RELEASED" => paid
    /\ \A r \in SettlementRun : run[r].phase = "ACKNOWLEDGE" => ordered
    /\ instruction = "ACKNOWLEDGED" => ordered
    /\ \A w \in Worker :
          worker[w].phase # "IDLE" => worker[w].event \in Event /\ ordered
    /\ feeLocked => ordered
    /\ reconciler.phase = "WRITE" => feeLocked
    /\ trade \in {"SETTLED", "RECURRING"} => feeLocked

\* A run's answers belong to the stage it is in and are true.
RunsInOrder ==
    \A r \in SettlementRun :
        /\ run[r].phase # "FAILED" => run[r].attempts < LockAttempts
        /\ run[r].phase = "RECORD_LOCK" =>
               /\ run[r].result \in LockResult
               /\ run[r].result = "ACCEPTED" => feeLocked
        /\ run[r].phase \in {"RELEASE", "RECORD_RELEASE"} => feeLocked
        /\ run[r].phase = "RECORD_RELEASE" =>
               /\ run[r].result \in ReleaseResult
               /\ run[r].result # "REJECTED" => identityReleased
        /\ run[r].phase = "DONE" => identityReleased

IInv == TypeOK /\ ChainOfPromises /\ StateBacked /\ ProcessBacked /\ RunsInOrder

-------------------------------------------------------------------------------
(* Liveness *)

\* A reported capture of money that both parties agreed to becomes a fee lock,
\* unless the window closes or the trade leaves PROTECTED first.
CapturedMoneyIsSecured ==
    \A e \in Event :
        (e \in sent /\ EventType[e] = "FUNDED" /\ settlementAccepted = Role)
            ~> (feeLocked \/ "INSTRUCTION" \in elapsed \/ trade # "PROTECTED")

\* A fee-locked trade is introduced, unless the provider stopped it or the
\* relationship's protection ran out.
FeeLockIsReleased ==
    (trade = "FEE_LOCKED") ~> (trade # "FEE_LOCKED" \/ "PROTECTION" \in elapsed)

\* Money held for goods the buyer accepted is released to the supplier, frozen
\* or failed; it does not just stay held while nothing disputes the trade.
AcceptedGoodsArePaid ==
    (payout = "HELD" /\ deliveryAccepted)
        ~> \/ payout \in {"RELEASED", "FROZEN", "FAILED"}
           \/ trade \notin {"ACCEPTED", "SETTLED", "RECURRING"}
           \/ dispute \in {"OPENED", "PROVIDER_SUBMITTED", "FROZEN"}

-------------------------------------------------------------------------------
(* What the repository says and the code does not do *)

\* production.ts: an activity is retried until the workflow's own business
\* deadline is reached, so a SettlementWorkflow that polls comes to an end.
SettlementWorkflowEnds ==
    \A r \in SettlementRun :
        (run[r].phase = "LOCK") ~> (run[r].phase \in {"DONE", "FAILED"})

\* The audit's required proof: settlement consumes the trade's capacity.
SettlementConsumesCapacity == trade \in {"SETTLED", "RECURRING"} => inventory = "CONSUMED"

\* The readiness README: provider resolution controls the supplier payout, so a
\* payout held again by a resolution for the supplier is released.
ResolutionReleasesPayout ==
    (trade = "ACCEPTED" /\ dispute = "RESOLVED" /\ payout = "HELD")
        ~> (payout # "HELD" \/ trade # "ACCEPTED")
===============================================================================
