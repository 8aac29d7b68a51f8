----------------------------- MODULE Dealing_proofs -----------------------------
(***************************************************************************)
(* From the quotes of a match to its protected trade and the accounts that *)
(* are paid: the spending limit, the price, the signatures and the bound    *)
(* accounts, for any costs, policies, processes, editions, accounts and     *)
(* faults.  The last section composes them with the standing mandates as    *)
(* the runs do.                                                             *)
(***************************************************************************)
EXTENDS MCDealing, StandingMandates_proofs, JobLeases_proofs

----------------------------------------------------------------------------
(* The providers' daily spending limit.                                     *)

QuoterRecord ==
    [kind : Kind \cup {"NONE"}, day : 0..LastDay,
     step : {"NONE", "BEGUN", "LOCKED", "SUMMED", "RESERVED", "STORED"}]

\* Who counts and reserves holds the lock, and what it counted still fits.
HoldsBudget(w) ==
    LET q == quoter[w] IN
    /\ q.step # "NONE" => q.kind \in Kind
    /\ q.step \in {"LOCKED", "SUMMED"} => account = w /\ q.day \in 1..LastDay
    /\ q.step = "SUMMED" => billed[q.kind] # 0 \/ HasRoom(q.day)

\* The inductive invariant of the spending.
SpendInv ==
    /\ billed \in [Kind -> 0..LastDay] /\ today \in 1..LastDay
    /\ account \in Quoter \cup {"NONE"}
    /\ quoter \in [Quoter -> QuoterRecord]
    /\ \A w \in Quoter : HoldsBudget(w)
    /\ SpendIsCapped

LEMMA SpendBegins == QuoteInit => SpendInv
<1> SUFFICES ASSUME QuoteInit  PROVE SpendInv
  OBVIOUS
<1>1. /\ billed \in [Kind -> 0..LastDay] /\ today \in 1..LastDay
      /\ account \in Quoter \cup {"NONE"}
  BY PolicyAssumption DEF QuoteInit
<1>2. quoter \in [Quoter -> QuoterRecord]
  BY PolicyAssumption DEF QuoteInit, Nobody, QuoterRecord
<1>3. \A w \in Quoter : HoldsBudget(w)
  BY DEF QuoteInit, Nobody, HoldsBudget
<1>4. SpendIsCapped
  <2> SUFFICES ASSUME NEW day \in 1..LastDay  PROVE Spent(day) <= DailyQuotes
    BY DEF SpendIsCapped
  <2>1. {k \in Kind : billed[k] = day} = {}
    BY PolicyAssumption DEF QuoteInit
  <2> QED  BY <2>1, FS_EmptySet, PolicyAssumption DEF Spent
<1> QED  BY <1>1, <1>2, <1>3, <1>4 DEF SpendInv

\* A worker that takes a step, or dies, may take and release the lock; whoever
\* counts meanwhile has it.
LEMMA WorkerKeepsSpend ==
    ASSUME SpendInv, NEW w \in Quoter, NEW r \in QuoterRecord,
           quoter' = [quoter EXCEPT ![w] = r],
           UNCHANGED <<billed, today>>,
           \/ account' = account \/ account' = Unlocked(w)
           \/ account = "NONE" /\ account' = w,
           HoldsBudget(w)'
    PROVE  SpendInv'
<1>1. /\ quoter' \in [Quoter -> QuoterRecord] /\ account' \in Quoter \cup {"NONE"}
      /\ \A v \in Quoter \ {w} : quoter'[v] = quoter[v]
  BY DEF SpendInv, Unlocked
<1>2. ASSUME NEW v \in Quoter \ {w}  PROVE HoldsBudget(v)'
  <2>1. HoldsBudget(v) /\ quoter'[v] = quoter[v] /\ v # "NONE"
    BY <1>1, PolicyAssumption DEF SpendInv
  <2>2. account = v => account' = v
    BY <2>1 DEF Unlocked
  <2> QED  BY <2>1, <2>2 DEF HoldsBudget, HasRoom, Spent
<1>3. SpendIsCapped'
  BY DEF SpendInv, SpendIsCapped, Spent
<1> QED  BY <1>1, <1>2, <1>3 DEF SpendInv

LEMMA DismissKeepsSpend ==
    ASSUME SpendInv, NEW w \in Quoter, Dismiss(w), UNCHANGED <<billed, today>>,
           account' = account \/ account' = Unlocked(w)
    PROVE  SpendInv'
<1>1. Nobody \in QuoterRecord /\ quoter' = [quoter EXCEPT ![w] = Nobody]
  BY PolicyAssumption DEF Nobody, QuoterRecord, Dismiss
<1>2. HoldsBudget(w)'
  BY <1>1 DEF HoldsBudget, Nobody, SpendInv
<1> QED  BY <1>1, <1>2, WorkerKeepsSpend

\* Reservations count one more for one day, and the lock has kept it free.
LEMMA ReserveKeepsSpend ==
    ASSUME SpendInv, NEW w \in Quoter, Reserve(w)
    PROVE  SpendInv'
<1> DEFINE q == quoter[w]
           r == [quoter[w] EXCEPT !.step = "RESERVED", !.day = 0]
<1>1. /\ q \in QuoterRecord /\ q.kind \in Kind /\ account = w /\ q.day \in 1..LastDay
      /\ billed[q.kind] # 0 \/ HasRoom(q.day)
  BY DEF SpendInv, Reserve, QuoterAt, HoldsBudget
<1>2. /\ account' = Unlocked(w) /\ today' = today
      /\ billed' = IF billed[q.kind] # 0 THEN billed ELSE [billed EXCEPT ![q.kind] = q.day]
      /\ quoter' = [quoter EXCEPT ![w] = r]
  BY DEF Reserve, market
<1>3. r \in QuoterRecord /\ r.step = "RESERVED" /\ r.kind = q.kind
  <2>1. 0 \in 0..LastDay
    BY PolicyAssumption
  <2> QED  BY <1>1, <2>1 DEF QuoterRecord
<1>4. CASE billed[q.kind] # 0
  <2> HIDE DEF r
  <2>1. HoldsBudget(w)'
    BY <1>1, <1>2, <1>3 DEF HoldsBudget, SpendInv
  <2> QED  BY <1>2, <1>3, <1>4, <2>1, WorkerKeepsSpend
<1>5. CASE billed[q.kind] = 0
  <2> HIDE DEF r
  <2>0. billed \in [Kind -> 0..LastDay] /\ quoter \in [Quoter -> QuoterRecord] /\ w # "NONE"
    BY PolicyAssumption DEF SpendInv
  <2>1. billed' = [billed EXCEPT ![q.kind] = q.day] /\ billed' \in [Kind -> 0..LastDay]
    BY <1>1, <1>2, <1>5, <2>0
  <2>2. ASSUME NEW day \in 1..LastDay  PROVE Spent(day)' <= DailyQuotes
    <3> DEFINE S == {k \in Kind : billed[k] = day}
    <3>1. IsFiniteSet(S)
      BY PolicyAssumption, FS_Subset
    <3>2. CASE day = q.day
      <4>1. {k \in Kind : billed'[k] = day} = S \cup {q.kind} /\ q.kind \notin S
        BY <1>1, <1>5, <2>0, <2>1, <3>2
      <4>2. Cardinality(S \cup {q.kind}) = Cardinality(S) + 1
        BY <3>1, <4>1, FS_AddElement
      <4>3. Spent(day)' = Spent(day) + 1
        BY <4>1, <4>2 DEF Spent
      <4> QED  BY <1>1, <1>5, <3>2, <4>3 DEF HasRoom
    <3>3. CASE day # q.day
      <4>1. {k \in Kind : billed'[k] = day} = S
        BY <1>1, <1>5, <2>0, <2>1, <3>3
      <4> QED  BY <4>1 DEF Spent, SpendInv, SpendIsCapped
    <3> QED  BY <3>2, <3>3
  <2>3. /\ quoter' \in [Quoter -> QuoterRecord] /\ quoter'[w] = r
        /\ \A v \in Quoter \ {w} : quoter'[v] = quoter[v]
    BY <1>2, <1>3, <2>0
  <2>4. HoldsBudget(w)'
    BY <1>1, <1>3, <2>3 DEF HoldsBudget
  <2>5. ASSUME NEW v \in Quoter \ {w}  PROVE HoldsBudget(v)'
    <3>1. quoter'[v] = quoter[v] /\ quoter[v].step \notin {"LOCKED", "SUMMED"}
      BY <1>1, <2>3 DEF SpendInv, HoldsBudget
    <3> QED  BY <3>1 DEF HoldsBudget, SpendInv
  <2>6. account' \in Quoter \cup {"NONE"}
    BY <1>2 DEF Unlocked, SpendInv
  <2> QED  BY <1>2, <2>1, <2>2, <2>3, <2>4, <2>5, <2>6 DEF SpendInv, SpendIsCapped
<1> QED  BY <1>4, <1>5

LEMMA QuoterStepsKeepSpend ==
    ASSUME SpendInv, NEW w \in Quoter,
           \/ QuoterStep(w) \/ QuoteFails(w) \/ CrashQuoter(w)
           \/ \E k \in Kind : ClaimQuote(w, k)
    PROVE  SpendInv'
<1>0. quoter[w] \in QuoterRecord /\ HoldsBudget(w) /\ today \in 1..LastDay /\ quoter \in [Quoter -> QuoterRecord]
  BY DEF SpendInv
<1>1. ASSUME NEW k \in Kind, ClaimQuote(w, k)  PROVE SpendInv'
  <2> DEFINE r == [quoter[w] EXCEPT !.kind = k, !.step = "BEGUN"]
  <2>1. quoter' = [quoter EXCEPT ![w] = r] /\ UNCHANGED <<billed, today, account>>
    BY <1>1 DEF ClaimQuote, market
  <2>2. r \in QuoterRecord /\ r.step = "BEGUN" /\ r.kind = k
    BY <1>0 DEF QuoterRecord
  <2> HIDE DEF r
  <2>3. HoldsBudget(w)'
    BY <1>0, <2>1, <2>2 DEF HoldsBudget
  <2> QED  BY <2>1, <2>2, <2>3, WorkerKeepsSpend
<1>2. CASE LockAccount(w)
  <2> DEFINE r == [quoter[w] EXCEPT !.step = "LOCKED", !.day = today]
  <2>1. /\ quoter' = [quoter EXCEPT ![w] = r] /\ UNCHANGED <<billed, today>>
        /\ account = "NONE" /\ account' = w /\ quoter[w].step = "BEGUN"
    BY <1>2 DEF LockAccount, quoteRows, market, QuoterAt
  <2>2. r \in QuoterRecord /\ r.step = "LOCKED" /\ r.kind = quoter[w].kind /\ r.day = today
    <3>1. today \in 0..LastDay
      BY <1>0, PolicyAssumption
    <3> QED  BY <1>0, <3>1 DEF QuoterRecord
  <2> HIDE DEF r
  <2>3. HoldsBudget(w)'
    BY <1>0, <2>1, <2>2 DEF HoldsBudget
  <2> QED  BY <2>1, <2>2, <2>3, WorkerKeepsSpend
<1>3. CASE SumSpend(w)
  <2>0. QuoterAt(w, "LOCKED") /\ UNCHANGED <<billed, today>>
    BY <1>3 DEF SumSpend, market
  <2>1. CASE billed[quoter[w].kind] # 0 \/ HasRoom(quoter[w].day)
    <3> DEFINE r == [quoter[w] EXCEPT !.step = "SUMMED"]
    <3>1. quoter' = [quoter EXCEPT ![w] = r] /\ account' = account
      BY <1>3, <2>1 DEF SumSpend
    <3>2. r \in QuoterRecord /\ r.step = "SUMMED" /\ r.kind = quoter[w].kind /\ r.day = quoter[w].day
      BY <1>0 DEF QuoterRecord
    <3> HIDE DEF r
    <3>3. HoldsBudget(w)'
      BY <1>0, <2>0, <2>1, <3>1, <3>2 DEF HoldsBudget, QuoterAt, HasRoom, Spent
    <3> QED  BY <2>0, <3>1, <3>2, <3>3, WorkerKeepsSpend
  <2>2. CASE ~(billed[quoter[w].kind] # 0 \/ HasRoom(quoter[w].day))
    BY <1>3, <2>0, <2>2, DismissKeepsSpend DEF SumSpend
  <2> QED  BY <2>1, <2>2
<1>4. CASE Reserve(w)
  BY <1>4, ReserveKeepsSpend
<1>5. CASE StoreQuote(w)
  <2>0. UNCHANGED <<billed, today, account>> /\ quoter[w].step = "RESERVED"
    BY <1>5 DEF StoreQuote, market, QuoterAt
  <2>1. CASE Dismiss(w)
    BY <2>0, <2>1, DismissKeepsSpend
  <2>2. CASE ~Dismiss(w)
    <3> DEFINE r == [quoter[w] EXCEPT !.step = "STORED"]
    <3>1. quoter' = [quoter EXCEPT ![w] = r]
      BY <1>5, <2>2 DEF StoreQuote
    <3>2. r \in QuoterRecord /\ r.step = "STORED" /\ r.kind = quoter[w].kind
      BY <1>0 DEF QuoterRecord
    <3> HIDE DEF r
    <3>3. HoldsBudget(w)'
      BY <1>0, <2>0, <3>1, <3>2 DEF HoldsBudget
    <3> QED  BY <2>0, <3>1, <3>2, <3>3, WorkerKeepsSpend
  <2> QED  BY <2>1, <2>2
<1>6. CASE Evaluate(w) \/ RefuseJob(w) \/ QuoteFails(w) \/ CrashQuoter(w)
  <2>1. Dismiss(w) /\ UNCHANGED <<billed, today>> /\ (account' = account \/ account' = Unlocked(w))
    BY <1>6 DEF Evaluate, RefuseJob, QuoteFails, CrashQuoter, quoteRows, market
  <2> QED  BY <2>1, DismissKeepsSpend
<1> QED  BY <1>1, <1>2, <1>3, <1>4, <1>5, <1>6 DEF QuoterStep

LEMMA OthersKeepSpend ==
    ASSUME SpendInv, UNCHANGED <<billed, account, quoter>>, today' \in 1..LastDay
    PROVE  SpendInv'
BY DEF SpendInv, HoldsBudget, HasRoom, Spent, SpendIsCapped

LEMMA QuotesKeepSpend ==
    ASSUME SpendInv, QuoteNext
    PROVE  SpendInv'
<1>1. today \in 1..LastDay /\ LastDay \in Nat \ {0}
  BY PolicyAssumption DEF SpendInv
<1>2. CASE EnsureJobs \/ Reevaluate
  BY <1>1, <1>2, OthersKeepSpend DEF EnsureJobs, Reevaluate, quoteRows, market
<1>3. CASE DayPasses
  <2>1. UNCHANGED <<billed, account, quoter>> /\ today' \in 1..LastDay
    BY <1>1, <1>3 DEF DayPasses, quoteRows
  <2> QED  BY <2>1, OthersKeepSpend
<1>4. CASE RankChanges \/ \E g \in Gate : ApprovalChanges(g)
  BY <1>1, <1>4, OthersKeepSpend DEF RankChanges, ApprovalChanges, quoteRows, market
<1>5. CASE \E k \in Kind : QuoteTimer(k) \/ ExpireCost(k)
  BY <1>1, <1>5, OthersKeepSpend DEF QuoteTimer, RedriveQuote, ElapseQuote, ExpireCost, market
<1> QED  BY <1>2, <1>3, <1>4, <1>5, QuoterStepsKeepSpend DEF QuoteNext

\* However many workers reserve at once and whatever they retry, no date's
\* quotes exceed the provider's limit (economic_jobs.ts:145-183).
THEOREM SpendIsAlwaysCapped == QuoteSpec => []SpendIsCapped
<1>1. ASSUME SpendInv, [QuoteNext]_quoteVars  PROVE SpendInv'
  <2>1. CASE UNCHANGED quoteVars
    BY <1>1, <2>1, OthersKeepSpend DEF quoteVars, quoteRows, market, SpendInv
  <2> QED  BY <1>1, <2>1, QuotesKeepSpend
<1>2. SpendInv => SpendIsCapped
  BY DEF SpendInv
<1> QED  BY <1>1, <1>2, SpendBegins, PTL DEF QuoteSpec

----------------------------------------------------------------------------
(* The price.                                                               *)

\* The inductive invariant of the deal.
DealInv ==
    /\ deal \in [status : {"NONE", "OPEN", "ACCEPTED", "DECLINED"}, quote : Nat]
    /\ deal.status = "NONE" => deal = NoDeal
    /\ ceiling \in Ceilings
    /\ PriceCoversFloor

LEMMA CostsAreCounted ==
    /\ Cardinality(Kind) \in Nat /\ DirectAmount \in Nat /\ DirectAmount <= Cardinality(Kind)
    /\ FloorAmount \in Nat /\ FloorAmount = SupplierNet + Cardinality(Kind)
    /\ SupplierNet \in Nat /\ CommissionFloor \in Nat /\ Minimum = FloorAmount + CommissionFloor
BY PolicyAssumption, FS_Subset, FS_CardinalityType DEF DirectAmount, FloorAmount, Minimum

\* What an acceptance freezes adds up.
LEMMA WaterfallAddsUp ==
    ASSUME NEW price \in Nat, price >= Minimum, price > FloorAmount
    PROVE  LET s == Waterfall(price) IN
           /\ s # NoSnapshot /\ s.price = price /\ s.commission >= CommissionFloor
           /\ s.price = s.gross + s.direct
           /\ s.gross = s.supplier + s.commission
           /\ s.supplier >= SupplierNet
BY CostsAreCounted DEF Waterfall, NoSnapshot

LEMMA AnswersCoverFloor ==
    ASSUME DealInv, deal # NoDeal, NEW bid \in Nat
    PROVE  /\ Answer(bid) \in [status : {"OPEN", "ACCEPTED"}, quote : Nat]
           /\ Answer(bid).quote >= Minimum
<1>1. deal.quote \in Nat /\ deal.quote >= Minimum /\ MaxConcession \in Nat /\ Minimum \in Nat
  BY CostsAreCounted, BidsAssumption DEF DealInv, PriceCoversFloor
<1>2. Conceded \in Nat /\ Conceded >= Minimum
  BY <1>1 DEF Conceded
<1> QED  BY <1>1, <1>2 DEF Answer

LEMMA PriceCoversCosts ==
    ASSUME NEW c \in Ceilings, ceiling = c
    PROVE  Price \in Nat /\ Price >= Minimum
<1>1. Surplus \in Int
  BY CostsAreCounted, PolicyAssumption DEF Surplus
<1>2. Surplus \div CaptureShare \in Int
  BY <1>1, PolicyAssumption
<1>3. Target \in Int /\ Target >= CommissionFloor
  <2> DEFINE d == Surplus \div CaptureShare
  <2>1. d \in Int
    BY <1>2
  <2> HIDE DEF d
  <2> QED  BY <2>1, PolicyAssumption DEF Target, d
<1>4. Commission \in Int /\ Commission >= CommissionFloor
  BY <1>3, PolicyAssumption DEF Commission
<1> QED  BY <1>4, CostsAreCounted DEF Price

LEMMA DealBegins == QuoteInit /\ DealInit => DealInv
<1> SUFFICES ASSUME QuoteInit, DealInit  PROVE DealInv
  OBVIOUS
<1>1. deal = NoDeal /\ deal.status = "NONE" /\ deal.quote = 0 /\ snapshot = NoSnapshot /\ ceiling \in Ceilings
  BY DEF QuoteInit, DealInit, NoDeal
<1>2. deal \in [status : {"NONE", "OPEN", "ACCEPTED", "DECLINED"}, quote : Nat]
  BY <1>1 DEF NoDeal
<1> QED  BY <1>1, <1>2 DEF DealInv, PriceCoversFloor

LEMMA NothingDealt ==
    ASSUME DealInv, UNCHANGED <<deal, snapshot, ceiling>>
    PROVE  DealInv'
BY DEF DealInv, PriceCoversFloor

\* An evaluation opens a negotiation that is not there and touches no other.
LEMMA EvaluationCoversFloor ==
    ASSUME DealInv, Evaluated, UNCHANGED <<ceiling, snapshot>>
    PROVE  DealInv'
<1>1. CASE deal' = deal
  BY <1>1, NothingDealt
<1>2. CASE deal' # deal
  <2>1. deal = NoDeal /\ deal' = [status |-> "OPEN", quote |-> Price]
    BY <1>2 DEF Evaluated, Opened
  <2>2. Price \in Nat /\ Price >= Minimum
    BY PriceCoversCosts DEF DealInv
  <2>3. snapshot' = NoSnapshot /\ snapshot = NoSnapshot
    BY <2>1 DEF DealInv, PriceCoversFloor, NoDeal
  <2> QED  BY <2>1, <2>2, <2>3, CostsAreCounted DEF DealInv, PriceCoversFloor, NoDeal
<1> QED  BY <1>1, <1>2

LEMMA AnswerKeepsDeal ==
    ASSUME DealInv, NEW answer \in [status : {"OPEN", "ACCEPTED", "DECLINED"}, quote : Nat],
           answer.quote >= Minimum, Become(answer)
    PROVE  DealInv'
<1>1. deal' = answer /\ ceiling' = ceiling /\ deal.status = "OPEN" /\ snapshot = NoSnapshot
  BY DEF Become, Negotiable, market, DealInv, PriceCoversFloor
<1>2. CASE answer.status = "ACCEPTED"
  <2>1. snapshot' = Waterfall(answer.quote) /\ answer.quote > FloorAmount
    BY <1>2 DEF Become
  <2>2. /\ snapshot' # NoSnapshot /\ snapshot'.price = answer.quote
        /\ snapshot'.commission >= CommissionFloor
        /\ snapshot'.price = snapshot'.gross + snapshot'.direct
        /\ snapshot'.gross = snapshot'.supplier + snapshot'.commission
        /\ snapshot'.supplier >= SupplierNet
    BY <2>1, WaterfallAddsUp
  <2> QED  BY <1>1, <1>2, <2>2, CostsAreCounted DEF DealInv, PriceCoversFloor
<1>3. CASE answer.status # "ACCEPTED"
  <2>1. snapshot' = NoSnapshot
    BY <1>1, <1>3 DEF Become
  <2> QED  BY <1>1, <1>3, <2>1, CostsAreCounted DEF DealInv, PriceCoversFloor
<1> QED  BY <1>2, <1>3

LEMMA TalkKeepsDeal ==
    ASSUME DealInv, Talk
    PROVE  DealInv'
<1>1. CASE Lapse
  BY <1>1, NothingDealt DEF Lapse, quoteVars, outcome, market
<1>2. ASSUME deal.status = "OPEN"  PROVE deal # NoDeal /\ deal.quote \in Nat /\ deal.quote >= Minimum
  BY <1>2, CostsAreCounted DEF NoDeal, DealInv, PriceCoversFloor
<1>3. CASE AcceptQuote
  <2>1. deal.status = "OPEN"
    BY <1>3 DEF AcceptQuote, Become, Negotiable
  <2> QED  BY <1>2, <1>3, <2>1, AnswerKeepsDeal DEF AcceptQuote
<1>4. CASE Decline
  <2>1. deal.status = "OPEN"
    BY <1>4 DEF Decline, Become, Negotiable
  <2> QED  BY <1>2, <1>4, <2>1, AnswerKeepsDeal DEF Decline
<1>5. ASSUME NEW price \in Bids, Bid(price)  PROVE DealInv'
  <2>1. deal.status = "OPEN" /\ Become(Answer(price)) /\ price \in Nat
    BY <1>5, BidsAssumption DEF Bid, Become, Negotiable
  <2>2. /\ Answer(price) \in [status : {"OPEN", "ACCEPTED"}, quote : Nat]
        /\ Answer(price).quote >= Minimum
    BY <1>2, <2>1, AnswersCoverFloor
  <2> QED  BY <2>1, <2>2, AnswerKeepsDeal
<1> QED  BY <1>1, <1>3, <1>4, <1>5 DEF Talk

LEMMA QuotesKeepDeal ==
    ASSUME DealInv, QuoteNext, UNCHANGED snapshot
    PROVE  DealInv'
<1>1. CASE Reevaluate
  BY <1>1, EvaluationCoversFloor DEF Reevaluate, market
<1>2. CASE EnsureJobs \/ DayPasses \/ RankChanges \/ \E g \in Gate : ApprovalChanges(g)
  BY <1>2, NothingDealt DEF EnsureJobs, DayPasses, RankChanges, ApprovalChanges, outcome, market
<1>3. CASE \E k \in Kind : QuoteTimer(k) \/ ExpireCost(k)
  BY <1>3, NothingDealt DEF QuoteTimer, RedriveQuote, ElapseQuote, ExpireCost, outcome, market
<1>4. ASSUME NEW w \in Quoter,
             QuoterStep(w) \/ QuoteFails(w) \/ CrashQuoter(w) \/ \E k \in Kind : ClaimQuote(w, k)
      PROVE  DealInv'
  <2>1. CASE Evaluate(w)
    BY <2>1, EvaluationCoversFloor DEF Evaluate, market
  <2>2. CASE LockAccount(w) \/ SumSpend(w) \/ Reserve(w) \/ StoreQuote(w) \/ RefuseJob(w)
    BY <2>2, NothingDealt DEF LockAccount, SumSpend, Reserve, StoreQuote, RefuseJob, outcome, market
  <2>3. CASE QuoteFails(w) \/ CrashQuoter(w) \/ \E k \in Kind : ClaimQuote(w, k)
    BY <2>3, NothingDealt DEF QuoteFails, CrashQuoter, ClaimQuote, outcome, market
  <2> QED  BY <1>4, <2>1, <2>2, <2>3 DEF QuoterStep
<1> QED  BY <1>1, <1>2, <1>3, <1>4 DEF QuoteNext

\* No run of counter-offers, concessions and evaluations brings the quote below
\* the costs and the least commission, and what an acceptance freezes adds up,
\* for all costs, policies and bids (negotiation.ts:47-56, waterfall.ts:96-104).
THEOREM PriceAlwaysCoversFloor == DealSpec => []PriceCoversFloor
<1>1. ASSUME DealInv, [DealNext]_dealVars  PROVE DealInv'
  <2>1. CASE UNCHANGED dealVars
    BY <1>1, <2>1, NothingDealt DEF dealVars, quoteVars, outcome, market
  <2> QED  BY <1>1, <2>1, TalkKeepsDeal, QuotesKeepDeal DEF DealNext
<1>2. DealInv => PriceCoversFloor
  BY DEF DealInv
<1> QED  BY <1>1, <1>2, DealBegins, PTL DEF DealSpec

----------------------------------------------------------------------------
(* The signatures.                                                          *)

Consents == {"NONE", "WRITTEN", "WRITTEN_LAST", "GIVEN"}

\* The inductive invariant of the papers: a consent that is begun found the
\* signatures, and neither they nor the frozen price are ever taken back.
PaperInv ==
    /\ edition \in 0..LastEdition
    /\ consent \in [Side -> Consents] /\ signed \in [ForMatch -> 0..LastEdition]
    /\ \A s \in Side :
         consent[s] # "NONE" => signed[<<"MASTER", s>>] # 0 /\ signed[<<"NOTICE", s>>] # 0
    /\ related => snapshot # NoSnapshot /\ \A s \in Side : consent[s] = "GIVEN"
    /\ tradeState # "NONE" => related

LEMMA MatchPapersBySide == \A s \in Side : <<"MASTER", s>> \in ForMatch /\ <<"NOTICE", s>> \in ForMatch
<1>1. /\ MatchPapers[1] = <<"MASTER", "SUPPLIER">> /\ MatchPapers[2] = <<"MASTER", "BUYER">>
      /\ MatchPapers[3] = <<"NOTICE", "SUPPLIER">> /\ MatchPapers[4] = <<"NOTICE", "BUYER">>
  BY DEF MatchPapers
<1>2. \A i \in 1..4 : MatchPapers[i] \in ForMatch
  BY DEF ForMatch
<1>3. <<"MASTER", "SUPPLIER">> \in ForMatch /\ <<"NOTICE", "SUPPLIER">> \in ForMatch
  BY <1>1, <1>2
<1>4. <<"MASTER", "BUYER">> \in ForMatch /\ <<"NOTICE", "BUYER">> \in ForMatch
  BY <1>1, <1>2
<1> QED  BY <1>3, <1>4 DEF Side

LEMMA PapersBegin == PaperInit => PaperInv
<1> SUFFICES ASSUME PaperInit  PROVE PaperInv
  OBVIOUS
<1>1. /\ edition \in 0..LastEdition
      /\ consent \in [Side -> Consents] /\ signed \in [ForMatch -> 0..LastEdition]
  BY PaperAssumption DEF PaperInit, Consents
<1>2. (\A s \in Side : consent[s] = "NONE") /\ related = FALSE /\ tradeState = "NONE"
  BY DEF PaperInit
<1> QED  BY <1>1, <1>2 DEF PaperInv

\* Nothing of it depends on who renders what, and a price once frozen stays.
LEMMA PapersAside ==
    ASSUME PaperInv, UNCHANGED <<consent, signed, related, tradeState>>,
           edition' \in 0..LastEdition, snapshot # NoSnapshot => snapshot' # NoSnapshot
    PROVE  PaperInv'
BY DEF PaperInv

LEMMA SignKeepsPapers ==
    ASSUME PaperInv, NEW p \in ForMatch, Sign(p)
    PROVE  PaperInv'
<1>1. /\ edition \in 0..LastEdition /\ edition # 0 /\ edition' = edition
      /\ signed' = [signed EXCEPT ![p] = edition]
      /\ UNCHANGED <<snapshot, consent, related, tradeState>>
  BY DEF Sign, InForce, dealVars, consentRows, tradeFacts, PaperInv
<1>2. /\ signed' \in [ForMatch -> 0..LastEdition]
      /\ \A q \in ForMatch : signed[q] # 0 => signed'[q] # 0
  BY <1>1 DEF PaperInv
<1> QED  BY <1>1, <1>2, MatchPapersBySide DEF PaperInv

LEMMA ConsentsKeepPapers ==
    ASSUME PaperInv, NEW s \in Side, WriteConsent(s) \/ CommitConsent(s) \/ RollbackConsent(s)
    PROVE  PaperInv'
<1>1. /\ UNCHANGED <<edition, signed, snapshot, related, tradeState>>
      /\ \E c \in Consents : consent' = [consent EXCEPT ![s] = c]
  BY DEF WriteConsent, CommitConsent, RollbackConsent, dealVars, paperRows, tradeFacts, Consents
<1>2. /\ consent' \in [Side -> Consents] /\ \A t \in Side \ {s} : consent'[t] = consent[t]
  BY <1>1 DEF PaperInv
<1>3. consent[s] = "GIVEN" => FALSE
  BY DEF WriteConsent, CommitConsent, RollbackConsent
<1>4. consent'[s] # "NONE" => signed[<<"MASTER", s>>] # 0 /\ signed[<<"NOTICE", s>>] # 0
  <2>1. CASE WriteConsent(s)
    BY <2>1 DEF WriteConsent, SignedForMatch
  <2>2. CASE CommitConsent(s)
    BY <2>2 DEF CommitConsent, PaperInv
  <2>3. CASE RollbackConsent(s)
    BY <2>3 DEF RollbackConsent, PaperInv
  <2> QED  BY <2>1, <2>2, <2>3
<1>5. ~related
  BY <1>3 DEF PaperInv
<1> QED  BY <1>1, <1>2, <1>4, <1>5 DEF PaperInv

LEMMA ProtectKeepsPapers ==
    ASSUME PaperInv, Protect
    PROVE  PaperInv'
<1>1. /\ UNCHANGED <<edition, signed, snapshot, consent>>
      /\ related' = (related \/ MayRelate)
      /\ tradeState' # "NONE" => related' /\ "JURISDICTIONS" \in grounds
  BY DEF Protect, dealVars, paperRows, consentRows
<1>2. related' => snapshot # NoSnapshot /\ \A s \in Side : consent[s] = "GIVEN"
  BY <1>1, Zenon DEF PaperInv, MayRelate
<1> QED  BY <1>1, <1>2 DEF PaperInv

LEMMA PaperStepsKeepPapers ==
    ASSUME PaperInv, PaperNext
    PROVE  PaperInv'
<1>0. edition \in 0..LastEdition
  BY DEF PaperInv
<1>1. CASE RegisterTemplates
  <2>1. edition' \in 0..LastEdition
    BY <1>0, <1>1, PaperAssumption DEF RegisterTemplates
  <2> QED  BY <1>1, <2>1, PapersAside DEF RegisterTemplates, dealVars, paperRows, consentRows, tradeFacts
<1>2. CASE Protect
  BY <1>2, ProtectKeepsPapers
<1>3. CASE ReleaseIdentity
  <2>1. UNCHANGED <<edition, signed, snapshot, consent, related>> /\ tradeState # "NONE"
    BY <1>3 DEF ReleaseIdentity, dealVars, paperRows, consentRows
  <2> QED  BY <2>1 DEF PaperInv
<1>4. CASE \E p \in ForMatch : Sign(p)
  BY <1>4, SignKeepsPapers
<1>5. CASE \E s \in Side : WriteConsent(s) \/ CommitConsent(s) \/ RollbackConsent(s)
  BY <1>5, ConsentsKeepPapers
<1>6. ASSUME UNCHANGED <<snapshot, edition, consent, signed, related, tradeState>>  PROVE PaperInv'
  BY <1>0, <1>6, PapersAside
<1>7. CASE (\E p \in Paper : RegisterExact(p)) \/ (\E list \in {"MATCHES", "TRADES"} : Crowd(list))
  BY <1>6, <1>7 DEF RegisterExact, Crowd, dealVars, paperRows, consentRows, tradeFacts
<1>8. CASE (\E g \in grounds : LoseGround(g)) \/ (\E w \in Quoter : LateEvaluation(w))
  BY <1>6, <1>8 DEF LoseGround, LateEvaluation, dealVars, paperRows, consentRows, tradeFacts
<1>9. CASE \E d \in Registrar : StartBatch(d) \/ RegistrarStep(d) \/ BatchFails(d)
  BY <1>6, <1>9
     DEF StartBatch, RegistrarStep, LookAt, RegisterRendered, BatchFails, dealVars, paperRows,
         consentRows, tradeFacts
<1> QED  BY <1>1, <1>2, <1>3, <1>4, <1>5, <1>7, <1>8, <1>9 DEF PaperNext

LEMMA DealStepsKeepPapers ==
    ASSUME PaperInv, DealInv, DealNext, UNCHANGED papersOnly
    PROVE  PaperInv'
<1>1. UNCHANGED <<edition, consent, signed, related, tradeState>>
  BY DEF papersOnly, paperRows, consentRows, tradeFacts
<1>2. snapshot # NoSnapshot => snapshot' # NoSnapshot
  <2>1. CASE UNCHANGED snapshot
    BY <2>1
  <2>2. CASE Talk /\ ~UNCHANGED snapshot
    <3>1. deal.status = "OPEN"
      BY <2>2 DEF Talk, AcceptQuote, Decline, Bid, Lapse, Become, Negotiable
    <3> QED  BY <3>1 DEF DealInv, PriceCoversFloor
  <2> QED  BY <2>1, <2>2 DEF DealNext
<1> QED  BY <1>1, <1>2, PapersAside DEF PaperInv


----------------------------------------------------------------------------
(* The types of the quotes and of the deal.                                 *)

QuoteRow == Row({"NONE", "PENDING", "PROCESSING", "COMPLETED", "DEAD"})

\* What SpendInv and DealInv leave open.
RowsTyped ==
    /\ quoteJob \in [Kind -> QuoteRow]
    /\ cost \in [Kind -> {"NONE", "FIRM", "EXPIRED"}]
    /\ lacking \subseteq Gate
    /\ floor \in {"NONE", "UNKNOWN", "KNOWN"}
    /\ {compatible, outranked, unevaluated} \subseteq BOOLEAN
    /\ quoteFaults \in 0..QuoteFaults
    /\ DealTypeOK

\* The inductive invariant of a match from its quotes to its price.
MatchInv == SpendInv /\ DealInv /\ RowsTyped

LEMMA MatchTypes == MatchInv => QuoteTypeOK /\ DealTypeOK
BY DEF MatchInv, SpendInv, DealInv, RowsTyped, QuoteTypeOK, QuoterRecord, QuoteRow

LEMMA RowsBegin == QuoteInit /\ DealInit => RowsTyped
<1> SUFFICES ASSUME QuoteInit, DealInit  PROVE RowsTyped
  OBVIOUS
<1>1. quoteJob \in [Kind -> QuoteRow]
  BY NewRowType DEF QuoteInit, QuoteRow
<1>2. cost \in [Kind -> {"NONE", "FIRM", "EXPIRED"}] /\ lacking \subseteq Gate /\ floor = "NONE"
  BY DEF QuoteInit
<1>3. {compatible, outranked, unevaluated} \subseteq BOOLEAN
  BY DEF QuoteInit
<1>4. quoteFaults \in 0..QuoteFaults
  BY PolicyAssumption DEF QuoteInit
<1>5. lapsed \in BOOLEAN
  BY DEF DealInit
<1>6. snapshot \in [price : Nat, supplier : Nat, gross : Nat, direct : Nat, commission : Nat]
  BY DEF DealInit, NoSnapshot
<1> QED  BY <1>1, <1>2, <1>3, <1>4, <1>5, <1>6 DEF RowsTyped, DealTypeOK

\* What the claims, ends and timers make of a quote's row.
LEMMA QuoteRowMoves ==
    ASSUME NEW row \in QuoteRow
    PROVE  /\ NewRow("PENDING") \in QuoteRow /\ Claimed(row) \in QuoteRow /\ Elapsed(row) \in QuoteRow
           /\ Failed(row, "PENDING") \in QuoteRow /\ Finished(row, "COMPLETED") \in QuoteRow
           /\ Set(row, "PENDING") \in QuoteRow
           /\ Postponed(row) \in QuoteRow
<1> DEFINE S == {"NONE", "PENDING", "PROCESSING", "COMPLETED", "DEAD"}
<1>1. QuoteRow = Row(S) /\ {"PENDING", "PROCESSING", "COMPLETED", "DEAD"} \subseteq S
  BY DEF QuoteRow
<1> HIDE DEF S
<1>2. /\ NewRow("PENDING") \in QuoteRow /\ Claimed(row) \in QuoteRow /\ Elapsed(row) \in QuoteRow
      /\ Failed(row, "PENDING") \in QuoteRow /\ Finished(row, "COMPLETED") \in QuoteRow
      /\ Set(row, "PENDING") \in QuoteRow
  BY <1>1, NewRowType, ClaimedType, ElapsedType, FailedType, FinishedType, SetType
<1>3. Postponed(row) \in QuoteRow
  <2> DEFINE r == Set(row, "PENDING")
             n == IF r.attempts > 0 THEN r.attempts - 1 ELSE 0
  <2>1. r \in QuoteRow
    BY <1>2
  <2> HIDE DEF r
  <2>2. r.attempts \in 0..AttemptLimit /\ r \in Row(S)
    BY <1>1, <2>1 DEF Row
  <2>3. n \in 0..AttemptLimit
    BY <2>2, AttemptLimitAssumption
  <2> HIDE DEF n
  <2>4. [r EXCEPT !.attempts = n] \in Row(S)
    BY <2>2, <2>3 DEF Row
  <2>5. Postponed(row) \in {[r EXCEPT !.attempts = n], row}
    BY DEF Postponed, r, n
  <2> QED  BY <1>1, <2>4, <2>5
<1> QED  BY <1>2, <1>3

\* The flags, which the evaluation, the faults and the order of the list write.
LEMMA FlagsKeep ==
    ASSUME {compatible, outranked, unevaluated} \subseteq BOOLEAN, QuoteNext
    PROVE  {compatible', outranked', unevaluated'} \subseteq BOOLEAN
<1>1. compatible \in BOOLEAN /\ outranked \in BOOLEAN /\ unevaluated \in BOOLEAN
  OBVIOUS
<1>2. compatible' = compatible \/ compatible' = (compatible /\ ~(AllFirm /\ Condemned))
  BY Zenon DEF QuoteNext, EnsureJobs, Reevaluate, DayPasses, RankChanges, ApprovalChanges,
         QuoteTimer, RedriveQuote, ElapseQuote, ExpireCost, QuoterStep, LockAccount, SumSpend, Reserve, StoreQuote, Evaluate, RefuseJob,
         QuoteFails, CrashQuoter, ClaimQuote, Evaluated, outcome
<1>3. unevaluated' = unevaluated \/ \E w \in Quoter : unevaluated' = (unevaluated \/ QuoterAt(w, "STORED"))
  BY Zenon DEF QuoteNext, EnsureJobs, Reevaluate, DayPasses, RankChanges, ApprovalChanges,
         QuoteTimer, RedriveQuote, ElapseQuote, ExpireCost, QuoterStep, LockAccount, SumSpend, Reserve, StoreQuote, Evaluate, RefuseJob,
         QuoteFails, CrashQuoter, ClaimQuote
<1>4. outranked' = outranked \/ outranked' = ~outranked
  BY Zenon DEF QuoteNext, EnsureJobs, Reevaluate, DayPasses, RankChanges, ApprovalChanges,
         QuoteTimer, RedriveQuote, ElapseQuote, ExpireCost, QuoterStep, LockAccount, SumSpend, Reserve, StoreQuote, Evaluate, RefuseJob,
         QuoteFails, CrashQuoter, ClaimQuote
<1>5. compatible' \in BOOLEAN
  BY <1>1, <1>2, Zenon
<1>6. outranked' \in BOOLEAN
  BY <1>1, <1>4, Zenon
<1>7. unevaluated' \in BOOLEAN
  BY <1>1, <1>3, Zenon
<1> QED  BY <1>5, <1>6, <1>7, Zenon

LEMMA QuoteRowsMove ==
    ASSUME RowsTyped, QuoteNext
    PROVE  quoteJob' \in [Kind -> QuoteRow]
<1>0. quoteJob \in [Kind -> QuoteRow]
  BY DEF RowsTyped
<1>1. CASE quoteJob' = quoteJob
  BY <1>0, <1>1
<1>2. CASE EnsureJobs
  BY <1>0, <1>2, QuoteRowMoves DEF EnsureJobs
<1>3. ASSUME NEW k, NEW r, k \in Kind => r \in QuoteRow, quoteJob' = [quoteJob EXCEPT ![k] = r]
      PROVE  quoteJob' \in [Kind -> QuoteRow]
  BY <1>0, <1>3
<1>4. ASSUME NEW k, \/ quoteJob' = [quoteJob EXCEPT ![k] = Claimed(@)]
                    \/ quoteJob' = [quoteJob EXCEPT ![k] = Elapsed(@)]
                    \/ quoteJob' = [quoteJob EXCEPT ![k] = Set(@, "PENDING")]
                    \/ quoteJob' = [quoteJob EXCEPT ![k] = Failed(@, "PENDING")]
                    \/ quoteJob' = [quoteJob EXCEPT ![k] = Finished(@, "COMPLETED")]
                    \/ quoteJob' = [quoteJob EXCEPT ![k] = Postponed(@)]
      PROVE  quoteJob' \in [Kind -> QuoteRow]
  <2>1. k \in Kind => quoteJob[k] \in QuoteRow
    BY <1>0
  <2> QED  BY <1>3, <1>4, <2>1, QuoteRowMoves
<1>5. CASE \E k \in Kind : QuoteTimer(k) \/ \E w \in Quoter : ClaimQuote(w, k)
  BY <1>4, <1>5 DEF QuoteTimer, RedriveQuote, ElapseQuote, ClaimQuote
<1>6. CASE \E w \in Quoter : SumSpend(w)
  BY <1>1, <1>4, <1>6 DEF SumSpend
<1>7. ASSUME NEW w \in Quoter, StoreQuote(w) \/ RefuseJob(w) \/ QuoteFails(w)
      PROVE  quoteJob' \in [Kind -> QuoteRow]
  BY <1>4, <1>7 DEF StoreQuote, RefuseJob, QuoteFails
<1>8. CASE Reevaluate \/ DayPasses \/ RankChanges \/ (\E g \in Gate : ApprovalChanges(g)) \/ \E k \in Kind : ExpireCost(k)
  BY <1>1, <1>8 DEF Reevaluate, DayPasses, RankChanges, ApprovalChanges, ExpireCost, quoteRows
<1>9. CASE \E w \in Quoter : LockAccount(w) \/ Reserve(w) \/ Evaluate(w) \/ CrashQuoter(w)
  BY <1>1, <1>9 DEF LockAccount, Reserve, Evaluate, CrashQuoter, quoteRows
<1> QED  BY <1>2, <1>5, <1>6, <1>7, <1>8, <1>9 DEF QuoteNext, QuoterStep

LEMMA QuotesKeepTypes ==
    ASSUME RowsTyped, QuoteNext, UNCHANGED <<lapsed, snapshot>>
    PROVE  RowsTyped'
<1>1. quoteJob' \in [Kind -> QuoteRow]
  BY QuoteRowsMove
<1>2. cost' \in [Kind -> {"NONE", "FIRM", "EXPIRED"}]
  <2>1. \/ cost' = cost
        \/ \E k : cost' = [cost EXCEPT ![k] = "FIRM"] \/ cost' = [cost EXCEPT ![k] = "EXPIRED"]
    BY DEF QuoteNext, EnsureJobs, Reevaluate, DayPasses, RankChanges, ApprovalChanges,
         QuoteTimer, RedriveQuote, ElapseQuote, ExpireCost, QuoterStep, LockAccount, SumSpend, Reserve, StoreQuote, Evaluate, RefuseJob,
         QuoteFails, CrashQuoter, ClaimQuote, quoteRows
  <2> QED  BY <2>1 DEF RowsTyped
<1>3. lacking' \subseteq Gate
  <2>1. lacking' = lacking \/ \E g \in Gate : lacking' = lacking \ {g} \/ lacking' = lacking \cup {g}
    BY DEF QuoteNext, EnsureJobs, Reevaluate, DayPasses, RankChanges, ApprovalChanges,
         QuoteTimer, RedriveQuote, ElapseQuote, ExpireCost, QuoterStep, LockAccount, SumSpend, Reserve, StoreQuote, Evaluate, RefuseJob,
         QuoteFails, CrashQuoter, ClaimQuote, market
  <2> QED  BY <2>1 DEF RowsTyped
<1>4. floor' \in {"NONE", "UNKNOWN", "KNOWN"}
  <2>1. floor' = floor \/ floor' \in {"UNKNOWN", "KNOWN"}
    BY DEF QuoteNext, EnsureJobs, Reevaluate, DayPasses, RankChanges, ApprovalChanges,
         QuoteTimer, RedriveQuote, ElapseQuote, ExpireCost, QuoterStep, LockAccount, SumSpend, Reserve, StoreQuote, Evaluate, RefuseJob,
         QuoteFails, CrashQuoter, ClaimQuote, outcome, Evaluated
  <2> QED  BY <2>1 DEF RowsTyped
<1>5. {compatible', outranked', unevaluated'} \subseteq BOOLEAN
  BY FlagsKeep DEF RowsTyped
<1>6. quoteFaults' \in 0..QuoteFaults
  <2>1. quoteFaults' = quoteFaults \/ QuoteFault
    BY DEF QuoteNext, EnsureJobs, Reevaluate, DayPasses, RankChanges, ApprovalChanges,
         QuoteTimer, RedriveQuote, ElapseQuote, ExpireCost, QuoterStep, LockAccount, SumSpend, Reserve, StoreQuote, Evaluate, RefuseJob,
         QuoteFails, CrashQuoter, ClaimQuote
  <2> QED  BY <2>1, PolicyAssumption DEF RowsTyped, QuoteFault
<1>7. DealTypeOK'
  BY DEF RowsTyped, DealTypeOK
<1> QED  BY <1>1, <1>2, <1>3, <1>4, <1>5, <1>6, <1>7 DEF RowsTyped

LEMMA WaterfallIsNatural ==
    ASSUME NEW price \in Nat, price > FloorAmount
    PROVE  Waterfall(price) \in [price : Nat, supplier : Nat, gross : Nat, direct : Nat, commission : Nat]
<1>1. price - DirectAmount \in Nat /\ FloorAmount - DirectAmount \in Nat /\ price - FloorAmount \in Nat
  BY CostsAreCounted
<1> QED  BY <1>1, CostsAreCounted DEF Waterfall

LEMMA TalkKeepsTypes ==
    ASSUME DealInv, RowsTyped, Talk
    PROVE  RowsTyped'
<1>1. UNCHANGED <<quoteJob, cost, lacking, floor, compatible, outranked, unevaluated, quoteFaults>>
  BY DEF Talk, AcceptQuote, Decline, Lapse, Bid, Become, quoteVars, quoteRows, market, outcome
<1>2. lapsed' \in BOOLEAN
  BY DEF Talk, AcceptQuote, Decline, Lapse, Bid, Become, RowsTyped, DealTypeOK
<1>3. snapshot' \in [price : Nat, supplier : Nat, gross : Nat, direct : Nat, commission : Nat]
  <2>1. snapshot' = snapshot \/ \E a : Become(a) /\ deal' = a /\ snapshot' = Waterfall(a.quote) /\ a.quote > FloorAmount /\ a.status = "ACCEPTED"
    BY DEF Talk, AcceptQuote, Decline, Lapse, Bid, Become
  <2>2. deal'.quote \in Nat
    BY TalkKeepsDeal DEF DealInv
  <2>3. CASE snapshot' = snapshot
    BY <2>3 DEF RowsTyped, DealTypeOK
  <2> QED  BY <2>1, <2>2, <2>3, WaterfallIsNatural
<1> QED  BY <1>1, <1>2, <1>3 DEF RowsTyped, DealTypeOK

LEMMA MatchKeeps ==
    ASSUME MatchInv, [DealNext]_dealVars
    PROVE  MatchInv'
<1>1. CASE UNCHANGED dealVars
  <2>1. UNCHANGED <<quoteJob, cost, lacking, ceiling, floor, compatible, outranked, unevaluated, quoteFaults, deal, lapsed,
                    snapshot, billed, account, quoter, today>>
    BY <1>1 DEF dealVars, quoteVars, quoteRows, market, outcome
  <2>2. SpendInv' /\ DealInv'
    BY <2>1, OthersKeepSpend, NothingDealt DEF MatchInv, SpendInv
  <2>3. RowsTyped'
    BY <2>1 DEF MatchInv, RowsTyped, DealTypeOK
  <2> QED  BY <2>2, <2>3 DEF MatchInv
<1>2. CASE QuoteNext /\ UNCHANGED <<lapsed, snapshot>>
  BY <1>2, QuotesKeepSpend, QuotesKeepDeal, QuotesKeepTypes DEF MatchInv
<1>3. CASE Talk
  <2>1. UNCHANGED <<billed, account, quoter, today>>
    BY <1>3 DEF Talk, AcceptQuote, Decline, Lapse, Bid, Become, quoteVars, quoteRows, market
  <2>2. SpendInv'
    BY <2>1, OthersKeepSpend DEF MatchInv, SpendInv
  <2> QED  BY <1>3, <2>2, TalkKeepsDeal, TalkKeepsTypes DEF MatchInv
<1> QED  BY <1>1, <1>2, <1>3 DEF DealNext

LEMMA MatchBegins == QuoteInit /\ DealInit => MatchInv
BY SpendBegins, DealBegins, RowsBegin DEF MatchInv

----------------------------------------------------------------------------
(* The types of the papers.                                                 *)

Place == [at : 0..8, edition : 0..LastEdition]

\* What PaperInv leaves open.
PapersTyped ==
    /\ {rendered, exact} \subseteq [Paper -> 0..LastEdition]
    /\ registrar \in [Registrar -> Place]
    /\ crowded \subseteq {"MATCHES", "TRADES"}
    /\ {announced, related} \subseteq BOOLEAN
    /\ tradeState \in {"NONE", "PROTECTED", "IDENTITY_RELEASED"}
    /\ protecting \in {"NONE", "UNKNOWN", "ACCEPTED"}
    /\ grounds \subseteq {"POLICY", "JURISDICTIONS"} /\ paperFaults \in 0..PaperFaults

LEMMA PaperTypes == PaperInv /\ PapersTyped => PaperTypeOK
BY DEF PaperInv, PapersTyped, PaperTypeOK, Consents, Place

LEMMA PapersTypedFirst == PaperInit => PapersTyped
<1> SUFFICES ASSUME PaperInit  PROVE PapersTyped
  OBVIOUS
<1>1. rendered \in [Paper -> 0..LastEdition] /\ exact = rendered
  BY PaperAssumption DEF PaperInit
<1>2. registrar \in [Registrar -> Place]
  BY PaperAssumption DEF PaperInit, Idle, Place
<1>3. paperFaults \in 0..PaperFaults
  BY PaperAssumption DEF PaperInit
<1> QED  BY <1>1, <1>2, <1>3 DEF PaperInit, PapersTyped

LEMMA FaultsAreBounded ==
    ASSUME PapersTyped, paperFaults' = paperFaults \/ PaperFault
    PROVE  paperFaults' \in 0..PaperFaults
BY PaperAssumption DEF PapersTyped, PaperFault

\* A dispatcher moves on in its list, or gives it up.
LEMMA PlacesStay ==
    ASSUME PaperInv, PapersTyped, NEW d \in Registrar,
           StartBatch(d) \/ RegistrarStep(d) \/ BatchFails(d)
    PROVE  registrar' \in [Registrar -> Place]
<1>0. registrar \in [Registrar -> Place] /\ registrar[d] \in Place /\ edition \in 0..LastEdition /\ 0 \in 0..LastEdition
  BY PaperAssumption DEF PapersTyped, PaperInv
<1>1. ASSUME NEW x \in Place, registrar' = [registrar EXCEPT ![d] = x]
      PROVE  registrar' \in [Registrar -> Place]
  BY <1>0, <1>1
<1>2. CASE Advance(d)
  <2> DEFINE x == [at |-> After(registrar[d].at), edition |-> 0]
  <2>1. registrar' = [registrar EXCEPT ![d] = x]
    BY <1>2 DEF Advance
  <2>2. registrar[d].at \in 0..8
    BY <1>0 DEF Place
  <2>3. After(registrar[d].at) \in 0..8
    BY <2>2 DEF After
  <2>4. x \in Place
    BY <1>0, <2>3 DEF Place
  <2> HIDE DEF x
  <2> QED  BY <1>1, <2>1, <2>4
<1>3. CASE Abandon(d)
  BY <1>0, <1>1, <1>3 DEF Abandon, Idle, Place
<1>4. CASE StartBatch(d)
  <2> DEFINE x == [registrar[d] EXCEPT !.at = IF MatchDue THEN 1 ELSE 5]
  <2>1. registrar' = [registrar EXCEPT ![d] = x]
    BY <1>4 DEF StartBatch
  <2>2. x \in Place
    BY <1>0 DEF Place
  <2> HIDE DEF x
  <2> QED  BY <1>1, <2>1, <2>2
<1>5. CASE registrar' = [registrar EXCEPT ![d].edition = edition]
  <2> DEFINE x == [registrar[d] EXCEPT !.edition = edition]
  <2>1. registrar' = [registrar EXCEPT ![d] = x]
    BY <1>5
  <2>2. x \in Place
    BY <1>0 DEF Place
  <2> HIDE DEF x
  <2> QED  BY <1>1, <2>1, <2>2
<1>6. CASE LookAt(d) \/ RegisterRendered(d) \/ BatchFails(d)
  BY <1>2, <1>3, <1>5, <1>6 DEF LookAt, RegisterRendered, BatchFails
<1> QED  BY <1>4, <1>6 DEF RegistrarStep

LEMMA PapersAreOfAnEdition ==
    ASSUME PaperInv, PapersTyped, PaperNext
    PROVE  {rendered', exact'} \subseteq [Paper -> 0..LastEdition]
<1>0. /\ rendered \in [Paper -> 0..LastEdition] /\ exact \in [Paper -> 0..LastEdition]
      /\ edition \in 0..LastEdition
  BY DEF PapersTyped, PaperInv
<1>1. CASE UNCHANGED <<rendered, exact>>
  BY <1>0, <1>1
<1>2. CASE \E p : exact' = [exact EXCEPT ![p] = edition] /\ rendered' = rendered
  BY <1>0, <1>2
<1>3. CASE \E p, e : rendered' = [rendered EXCEPT ![p] = e] /\ e = edition /\ exact' = exact
  BY <1>0, <1>3
<1>4. CASE \E p \in Paper : RegisterExact(p)
  BY <1>2, <1>4 DEF RegisterExact
<1>5. CASE \E d \in Registrar : RegisterRendered(d)
  BY <1>1, <1>3, <1>5 DEF RegisterRendered
<1> QED  BY <1>1, <1>4, <1>5
         DEF PaperNext, RegisterTemplates, Protect, ReleaseIdentity, Sign, Crowd, LoseGround, LateEvaluation,
             WriteConsent, CommitConsent, RollbackConsent, StartBatch, RegistrarStep, LookAt, BatchFails,
             paperRows

LEMMA PaperFlagsKeep ==
    ASSUME PapersTyped, PaperNext
    PROVE  {announced', related'} \subseteq BOOLEAN
<1>1. announced \in BOOLEAN /\ related \in BOOLEAN
  BY DEF PapersTyped
<1>2. announced' = announced \/ \E s \in Side : announced' = (announced \/ consent[s] = "WRITTEN_LAST")
  BY Zenon DEF PaperNext, RegisterTemplates, Protect, ReleaseIdentity, Sign, RegisterExact, Crowd, LoseGround, LateEvaluation,
             WriteConsent, CommitConsent, RollbackConsent, StartBatch, RegistrarStep, LookAt, RegisterRendered, BatchFails,
             consentRows
<1>3. related' = related \/ related' = (related \/ MayRelate)
  BY Zenon DEF PaperNext, RegisterTemplates, Protect, ReleaseIdentity, Sign, RegisterExact, Crowd, LoseGround, LateEvaluation,
             WriteConsent, CommitConsent, RollbackConsent, StartBatch, RegistrarStep, LookAt, RegisterRendered, BatchFails,
             tradeFacts
<1>4. announced' \in BOOLEAN
  BY <1>1, <1>2, Zenon
<1>5. related' \in BOOLEAN
  BY <1>1, <1>3, Zenon
<1> QED  BY <1>4, <1>5, Zenon

LEMMA PapersKeepTypes ==
    ASSUME PaperInv, PapersTyped, PaperNext
    PROVE  PapersTyped'
<1>1. registrar' \in [Registrar -> Place]
  <2>1. registrar' = registrar \/ \E d \in Registrar : StartBatch(d) \/ RegistrarStep(d) \/ BatchFails(d)
    BY DEF PaperNext, RegisterTemplates, Protect, ReleaseIdentity, Sign, RegisterExact, Crowd, LoseGround, LateEvaluation,
           WriteConsent, CommitConsent, RollbackConsent
  <2> QED  BY <2>1, PlacesStay DEF PapersTyped
<1>2. crowded' \subseteq {"MATCHES", "TRADES"}
  <2>1. crowded' = crowded \/ \E list \in {"MATCHES", "TRADES"} : crowded' = crowded \cup {list}
    BY DEF PaperNext, RegisterTemplates, Protect, ReleaseIdentity, Sign, RegisterExact, Crowd, LoseGround, LateEvaluation,
             WriteConsent, CommitConsent, RollbackConsent, StartBatch, RegistrarStep, LookAt, RegisterRendered, BatchFails
  <2> QED  BY <2>1 DEF PapersTyped
<1>3. tradeState' \in {"NONE", "PROTECTED", "IDENTITY_RELEASED"} /\ protecting' \in {"NONE", "UNKNOWN", "ACCEPTED"}
  <2>1. \/ UNCHANGED <<tradeState, protecting>>
        \/ tradeState' \in {"NONE", "PROTECTED"} /\ protecting' \in {"UNKNOWN", "ACCEPTED"}
        \/ tradeState' = "IDENTITY_RELEASED" /\ protecting' = protecting
    BY DEF PaperNext, RegisterTemplates, Protect, ReleaseIdentity, Sign, RegisterExact, Crowd, LoseGround, LateEvaluation,
             WriteConsent, CommitConsent, RollbackConsent, StartBatch, RegistrarStep, LookAt, RegisterRendered, BatchFails,
             tradeFacts
  <2> QED  BY <2>1 DEF PapersTyped
<1>4. grounds' \subseteq {"POLICY", "JURISDICTIONS"}
  <2>1. grounds' \subseteq grounds
    BY DEF PaperNext, RegisterTemplates, Protect, ReleaseIdentity, Sign, RegisterExact, Crowd, LoseGround, LateEvaluation,
             WriteConsent, CommitConsent, RollbackConsent, StartBatch, RegistrarStep, LookAt, RegisterRendered, BatchFails
  <2> QED  BY <2>1 DEF PapersTyped
<1>5. paperFaults' \in 0..PaperFaults
  <2>1. paperFaults' = paperFaults \/ PaperFault
    BY DEF PaperNext, RegisterTemplates, Protect, ReleaseIdentity, Sign, RegisterExact, Crowd, LoseGround, LateEvaluation,
             WriteConsent, CommitConsent, RollbackConsent, StartBatch, RegistrarStep, LookAt, RegisterRendered, BatchFails
  <2> QED  BY <2>1, FaultsAreBounded
<1> QED  BY <1>1, <1>2, <1>3, <1>4, <1>5, PapersAreOfAnEdition, PaperFlagsKeep DEF PapersTyped

\* The inductive invariant of the papers and of the match they rest on.
AgreedInv == MatchInv /\ PaperInv /\ PapersTyped

PaperStep == PaperNext \/ (DealNext /\ UNCHANGED papersOnly)

LEMMA LateEvaluationKeepsMatch ==
    ASSUME MatchInv, NEW w \in Quoter, LateEvaluation(w)
    PROVE  MatchInv'
<1>1. QuoteNext /\ UNCHANGED <<lapsed, snapshot>>
  BY DEF LateEvaluation, QuoteNext, QuoterStep
<1> QED  BY <1>1, MatchKeeps DEF DealNext

LEMMA AgreementsKeep ==
    ASSUME AgreedInv, [PaperStep]_paperVars
    PROVE  AgreedInv'
<1>1. CASE PaperNext
  <2>1. PaperInv' /\ PapersTyped'
    BY <1>1, PaperStepsKeepPapers, PapersKeepTypes DEF AgreedInv
  <2>2. MatchInv'
    <3>1. CASE \E w \in Quoter : LateEvaluation(w)
      BY <3>1, LateEvaluationKeepsMatch DEF AgreedInv
    <3>2. CASE ~(\E w \in Quoter : LateEvaluation(w))
      <4>1. UNCHANGED dealVars
        BY <1>1, <3>2
           DEF PaperNext, RegisterTemplates, Protect, ReleaseIdentity, Sign, RegisterExact, Crowd,
               LoseGround, WriteConsent, CommitConsent, RollbackConsent, StartBatch,
               RegistrarStep, LookAt, RegisterRendered, BatchFails
      <4> QED  BY <4>1, MatchKeeps DEF AgreedInv
    <3> QED  BY <3>1, <3>2
  <2> QED  BY <2>1, <2>2 DEF AgreedInv
<1>2. CASE DealNext /\ UNCHANGED papersOnly
  <2>1. MatchInv' /\ PaperInv'
    BY <1>2, MatchKeeps, DealStepsKeepPapers DEF AgreedInv, MatchInv
  <2>2. PapersTyped'
    BY <1>2 DEF AgreedInv, PapersTyped, papersOnly, paperRows, consentRows, tradeFacts
  <2> QED  BY <2>1, <2>2 DEF AgreedInv
<1>3. CASE UNCHANGED paperVars
  <2>1. UNCHANGED <<dealVars, edition, consent, signed, related, tradeState, snapshot>>
    BY <1>3 DEF paperVars, paperRows, consentRows, tradeFacts, dealVars
  <2>2. MatchInv' /\ PaperInv'
    BY <2>1, MatchKeeps, PapersAside DEF AgreedInv, PaperInv
  <2>3. PapersTyped'
    BY <1>3 DEF AgreedInv, PapersTyped, paperVars, paperRows, consentRows, tradeFacts
  <2> QED  BY <2>2, <2>3 DEF AgreedInv
<1> QED  BY <1>1, <1>2, <1>3 DEF PaperStep

\* No trade without a relationship, and none of both before the price was
\* accepted and each side signed its master and notice and consented, for any
\* number of editions, dispatchers and faults (commands.ts:93-199,
\* stage_handlers.ts:706-790).
THEOREM ProtectionRestsOnSignatures == PaperSpec => []ProtectedRestsOnSignatures
<1>1. QuoteInit /\ DealInit /\ PaperInit => AgreedInv
  BY MatchBegins, PapersBegin, PapersTypedFirst DEF AgreedInv
<1>2. AgreedInv => ProtectedRestsOnSignatures
  BY DEF AgreedInv, PaperInv, ProtectedRestsOnSignatures
<1> QED  BY <1>1, <1>2, AgreementsKeep, PTL DEF PaperSpec, PaperStep

----------------------------------------------------------------------------
(* The accounts of the instruction.                                        *)

TypesOfParties ==
    /\ ledger \in [PartyRole -> Seq({"CURRENT", "ENDED"})] /\ rail \in Rails \cup {"NONE"} /\ open \subseteq Rails
    /\ bound \in Parties /\ told \in Parties
    /\ caller \in [Caller -> [step : {"NONE", "BOUND", "CREATED"}, parties : Parties]]
    /\ promoter \in [Promoter -> [step : {"NONE", "RESOLVED", "PROVEN"}, parties : Parties]]

\* The accounts are bound all together, once, to an instruction both agreed to.
BoundAtOnce ==
    /\ \A r \in PartyRole : bound # Nowhere => bound[r] # 0
    /\ agreed => rail # "NONE"
    /\ bound # Nowhere => agreed
    /\ told # Nowhere => told = bound
    /\ acknowledged => bound # Nowhere
    /\ paid => told # Nowhere

CallerBacked(c) == caller[c].step # "NONE" => bound # Nowhere /\ caller[c].parties = bound

PromoterBacked(p) ==
    /\ promoter[p].step # "NONE" => bound # Nowhere /\ promoter[p].parties = bound
    /\ promoter[p].step = "PROVEN" => PaysTheBound

\* The inductive invariant.
PartyInv ==
    /\ TypesOfParties
    /\ BoundAtOnce
    /\ split # 0 => split = bound["SUPPLIER"] /\ bound # Nowhere
    /\ \A c \in Caller : CallerBacked(c)
    /\ \A p \in Promoter : PromoterBacked(p)

LEMMA NobodyIsNowhere == Nowhere \in Parties /\ \A r \in PartyRole : Nowhere[r] = 0
BY PartyAssumption DEF Nowhere, Parties

LEMMA PartiesBegin == PartyInit => PartyInv
<1> SUFFICES ASSUME PartyInit  PROVE PartyInv
  OBVIOUS
<1>1. TypesOfParties
  <2>1. Free \in [step : {"NONE", "BOUND", "CREATED"}, parties : Parties]
    BY NobodyIsNowhere DEF Free
  <2>2. Free \in [step : {"NONE", "RESOLVED", "PROVEN"}, parties : Parties]
    BY NobodyIsNowhere DEF Free
  <2>3. ledger \in [PartyRole -> Seq({"CURRENT", "ENDED"})]
    BY DEF PartyInit
  <2> QED  BY <2>1, <2>2, <2>3, NobodyIsNowhere DEF PartyInit, TypesOfParties
<1>2. BoundAtOnce
  BY DEF PartyInit, BoundAtOnce
<1>3. (\A c \in Caller : CallerBacked(c)) /\ (\A p \in Promoter : PromoterBacked(p))
  BY DEF PartyInit, CallerBacked, PromoterBacked, Free
<1> QED  BY <1>1, <1>2, <1>3 DEF PartyInv, PartyInit

\* What resolveAndBind answers is bound, and what was bound stays.
LEMMA MappingBinds ==
    ASSUME PartyInv, NEW parties \in Parties, Mapping(parties)
    PROVE  /\ parties # Nowhere /\ \A r \in PartyRole : parties[r] # 0
           /\ bound # Nowhere => parties = bound
<1>1. ASSUME NEW r \in PartyRole  PROVE parties[r] # 0 /\ (bound[r] # 0 => parties[r] = bound[r])
  <2>1. ledger[r] \in Seq({"CURRENT", "ENDED"})
    BY DEF PartyInv, TypesOfParties
  <2>2. 0 \notin DOMAIN ledger[r]
    BY <2>1
  <2>3. Usable(r, parties[r]) /\ (bound[r] # 0 => parties[r] = bound[r])
    BY DEF Mapping, Latest
  <2> QED  BY <2>2, <2>3 DEF Usable
<1>2. parties # Nowhere
  BY <1>1, NobodyIsNowhere, PartyAssumption
<1>3. ASSUME bound # Nowhere  PROVE parties = bound
  <2>1. \A r \in PartyRole : bound[r] # 0 /\ parties[r] = bound[r]
    BY <1>1, <1>3 DEF PartyInv, BoundAtOnce
  <2>2. bound \in Parties
    BY DEF PartyInv, TypesOfParties
  <2> QED  BY <2>1, <2>2 DEF Parties
<1> QED  BY <1>1, <1>2, <1>3

\* The steps that leave the instruction and the processes alone.
LEMMA RegistryKeeps ==
    ASSUME PartyInv,
           \/ \E r \in PartyRole : RegisterAccount(r) \/ \E n \in 1..LastAccount : EndAccount(r, n)
           \/ \E x \in Rails : RailChanges(x)
    PROVE  PartyInv'
<1>1. UNCHANGED <<rail, agreed, bound, acknowledged, told, paid, split, entitled, caller, promoter>>
  BY DEF RegisterAccount, EndAccount, RailChanges, instructionRow, atProvider
<1>2. ledger' \in [PartyRole -> Seq({"CURRENT", "ENDED"})]
  <2>0. ledger \in [PartyRole -> Seq({"CURRENT", "ENDED"})]
    BY DEF PartyInv, TypesOfParties
  <2>1. ASSUME NEW r \in PartyRole, RegisterAccount(r)
        PROVE  ledger' \in [PartyRole -> Seq({"CURRENT", "ENDED"})]
    <3>1. Append(ledger[r], "CURRENT") \in Seq({"CURRENT", "ENDED"})
      BY <2>0
    <3> QED  BY <2>0, <2>1, <3>1 DEF RegisterAccount
  <2>2. ASSUME NEW r \in PartyRole, NEW n \in 1..LastAccount, EndAccount(r, n)
        PROVE  ledger' \in [PartyRole -> Seq({"CURRENT", "ENDED"})]
    <3>1. [ledger[r] EXCEPT ![n] = "ENDED"] \in Seq({"CURRENT", "ENDED"})
      BY <2>0, <2>2 DEF EndAccount
    <3>2. ledger' = [ledger EXCEPT ![r] = [ledger[r] EXCEPT ![n] = "ENDED"]]
      BY <2>2 DEF EndAccount
    <3> QED  BY <2>0, <3>1, <3>2
  <2>3. ASSUME NEW x \in Rails, RailChanges(x)
        PROVE  ledger' \in [PartyRole -> Seq({"CURRENT", "ENDED"})]
    BY <2>0, <2>3 DEF RailChanges
  <2> QED  BY <2>1, <2>2, <2>3
<1>3. open' \subseteq Rails
  BY DEF RegisterAccount, EndAccount, RailChanges, PartyInv, TypesOfParties
<1> QED  BY <1>1, <1>2, <1>3
         DEF PartyInv, TypesOfParties, BoundAtOnce, CallerBacked, PromoterBacked, PaysTheBound

LEMMA InstructionKeeps ==
    ASSUME PartyInv, DraftInstruction \/ Agree \/ Pay
    PROVE  PartyInv'
<1>1. UNCHANGED <<ledger, open, bound, acknowledged, told, split, entitled, caller, promoter>>
  BY DEF DraftInstruction, Agree, Pay, instructionRow, atProvider
<1>2. rail' \in Rails \cup {"NONE"} /\ (rail' = rail \/ (~agreed /\ ~agreed'))
  BY PartyAssumption DEF DraftInstruction, Agree, Pay, instructionRow, atProvider, PartyInv, TypesOfParties, BoundAtOnce
<1>3. BoundAtOnce'
  BY <1>1, <1>2 DEF DraftInstruction, Agree, Pay, instructionRow, atProvider, PartyInv, BoundAtOnce
<1>4. \A p \in Promoter : PromoterBacked(p)'
  BY <1>1, <1>2 DEF PartyInv, BoundAtOnce, PromoterBacked, PaysTheBound
<1> QED  BY <1>1, <1>2, <1>3, <1>4 DEF PartyInv, TypesOfParties, CallerBacked

\* A binding that is repeated finds what is there.
LEMMA BindingStays ==
    ASSUME PartyInv, bound' \in Parties, Mapping(bound'), agreed, UNCHANGED <<rail, agreed, told, paid, split>>,
           acknowledged' => acknowledged
    PROVE  /\ BoundAtOnce'
           /\ bound' # Nowhere /\ (bound # Nowhere => bound' = bound)
           /\ split' # 0 => split' = bound'["SUPPLIER"]
<1>1. /\ bound' # Nowhere /\ \A r \in PartyRole : bound'[r] # 0
      /\ bound # Nowhere => bound' = bound
  BY MappingBinds
<1> QED  BY <1>1, NobodyIsNowhere DEF PartyInv, BoundAtOnce

LEMMA AccountsBindKeeps ==
    ASSUME PartyInv, NEW c \in Caller, Bind(c)
    PROVE  PartyInv'
<1>1. PICK parties \in Parties :
        /\ Mapping(parties) /\ bound' = parties
        /\ caller' = [caller EXCEPT ![c] = [step |-> "BOUND", parties |-> parties]]
  BY DEF Bind
<1>2. agreed /\ UNCHANGED <<ledger, open, rail, agreed, acknowledged, told, paid, split, promoter>>
  BY DEF Bind, atProvider
<1>3. /\ BoundAtOnce' /\ bound' # Nowhere /\ (bound # Nowhere => bound' = bound)
      /\ split' # 0 => split' = bound'["SUPPLIER"]
  BY <1>1, <1>2, BindingStays
<1>4. /\ caller' \in [Caller -> [step : {"NONE", "BOUND", "CREATED"}, parties : Parties]]
      /\ caller'[c].parties = bound' /\ \A d \in Caller \ {c} : caller'[d] = caller[d]
  BY <1>1 DEF PartyInv, TypesOfParties
<1>5. \A d \in Caller : CallerBacked(d)'
  BY <1>3, <1>4 DEF PartyInv, CallerBacked
<1>6. \A p \in Promoter : PromoterBacked(p)'
  BY <1>2, <1>3 DEF PartyInv, PromoterBacked, PaysTheBound
<1> QED  BY <1>1, <1>2, <1>3, <1>4, <1>5, <1>6, NobodyIsNowhere DEF PartyInv, TypesOfParties

LEMMA CallersKeep ==
    ASSUME PartyInv, NEW c \in Caller, CallerStep(c) \/ CallerFails(c)
    PROVE  PartyInv'
<1>1. /\ UNCHANGED <<ledger, open, rail, agreed, bound, paid, split, promoter>>
      /\ \/ caller' = [caller EXCEPT ![c].step = "CREATED"] /\ caller[c].step # "NONE"
         \/ caller' = [caller EXCEPT ![c] = Free]
  BY DEF CallerStep, Create, Acknowledge, RailRefuses, CallerFails, instructionRow, atProvider
<1>2. /\ caller' \in [Caller -> [step : {"NONE", "BOUND", "CREATED"}, parties : Parties]]
      /\ \A d \in Caller : CallerBacked(d)'
  <2>0. caller \in [Caller -> [step : {"NONE", "BOUND", "CREATED"}, parties : Parties]]
    BY DEF PartyInv, TypesOfParties
  <2>1. CASE caller' = [caller EXCEPT ![c] = Free]
    <3>1. Free \in [step : {"NONE", "BOUND", "CREATED"}, parties : Parties] /\ Free.step = "NONE"
      BY NobodyIsNowhere DEF Free
    <3> QED  BY <1>1, <2>0, <2>1, <3>1 DEF PartyInv, CallerBacked
  <2>2. CASE caller' = [caller EXCEPT ![c].step = "CREATED"] /\ caller[c].step # "NONE"
    BY <1>1, <2>0, <2>2 DEF PartyInv, CallerBacked
  <2> QED  BY <1>1, <2>1, <2>2
<1>3. told' = told \/ (told = Nowhere /\ told' = bound /\ bound # Nowhere)
  BY DEF CallerStep, Create, Acknowledge, RailRefuses, CallerFails, instructionRow, atProvider,
         PartyInv, CallerBacked
<1>4. acknowledged' => acknowledged \/ bound # Nowhere
  BY DEF CallerStep, Create, Acknowledge, RailRefuses, CallerFails, instructionRow, PartyInv, CallerBacked
<1>5. BoundAtOnce'
  BY <1>1, <1>3, <1>4 DEF PartyInv, BoundAtOnce
<1>6. \A p \in Promoter : PromoterBacked(p)'
  BY <1>1, <1>3, NobodyIsNowhere DEF PartyInv, PromoterBacked, PaysTheBound
<1> QED  BY <1>1, <1>2, <1>3, <1>5, <1>6 DEF PartyInv, TypesOfParties

LEMMA ResolveKeeps ==
    ASSUME PartyInv, NEW p \in Promoter, Resolve(p)
    PROVE  PartyInv'
<1>1. PICK parties \in Parties :
        /\ Mapping(parties) /\ bound' = parties
        /\ promoter' = [promoter EXCEPT ![p] = [step |-> "RESOLVED", parties |-> parties]]
  BY DEF Resolve
<1>2. /\ bound # Nowhere
      /\ UNCHANGED <<ledger, open, rail, agreed, acknowledged, told, paid, split, caller>>
  BY DEF Resolve, atProvider, PartyInv, BoundAtOnce
<1>3. bound' = bound
  BY <1>1, <1>2, MappingBinds
<1>4. /\ promoter' \in [Promoter -> [step : {"NONE", "RESOLVED", "PROVEN"}, parties : Parties]]
      /\ promoter'[p].step = "RESOLVED" /\ promoter'[p].parties = bound
      /\ \A q \in Promoter \ {p} : promoter'[q] = promoter[q]
  BY <1>1, <1>3 DEF PartyInv, TypesOfParties
<1>5. \A q \in Promoter : PromoterBacked(q)'
  BY <1>2, <1>3, <1>4 DEF PartyInv, PromoterBacked, PaysTheBound
<1> QED  BY <1>2, <1>3, <1>4, <1>5 DEF PartyInv, TypesOfParties, BoundAtOnce, CallerBacked

\* A promoter proves what it has resolved: the split or the event names it.
LEMMA PromotersKeep ==
    ASSUME PartyInv, NEW p \in Promoter, PromoterStep(p)
    PROVE  PartyInv'
<1>0. promoter \in [Promoter -> [step : {"NONE", "RESOLVED", "PROVEN"}, parties : Parties]]
  BY DEF PartyInv, TypesOfParties
<1>1. CASE Prove(p)
  <2>1. /\ UNCHANGED <<ledger, open, rail, agreed, bound, acknowledged, told, paid, caller>>
        /\ promoter' = [promoter EXCEPT ![p].step = "PROVEN"]
        /\ promoter[p].parties = bound /\ bound # Nowhere
    BY <1>1 DEF Prove, instructionRow, PartyInv, PromoterBacked
  <2>2. /\ promoter' \in [Promoter -> [step : {"NONE", "RESOLVED", "PROVEN"}, parties : Parties]]
        /\ promoter'[p].parties = bound
        /\ \A q \in Promoter \ {p} : promoter'[q] = promoter[q]
    BY <1>0, <2>1
  <2>3. /\ PaysTheBound'
        /\ split' # 0 => split' = bound["SUPPLIER"]
        /\ rail \in Splitting \/ split' = split
    BY <1>1, <2>1 DEF Prove, PaysTheBound, PartyInv
  <2>4. \A q \in Promoter : PromoterBacked(q)'
    BY <2>1, <2>2, <2>3 DEF PartyInv, PromoterBacked
  <2> QED  BY <2>1, <2>2, <2>3, <2>4 DEF PartyInv, TypesOfParties, BoundAtOnce, CallerBacked
<1>2. CASE Promote(p) \/ PromoterFails(p)
  <2>1. /\ UNCHANGED <<ledger, open, rail, agreed, bound, acknowledged, told, paid, split, caller>>
        /\ promoter' = [promoter EXCEPT ![p] = Free]
    BY <1>2 DEF Promote, PromoterFails, instructionRow, atProvider
  <2>2. Free \in [step : {"NONE", "RESOLVED", "PROVEN"}, parties : Parties] /\ Free.step = "NONE"
    BY NobodyIsNowhere DEF Free
  <2>3. /\ promoter' \in [Promoter -> [step : {"NONE", "RESOLVED", "PROVEN"}, parties : Parties]]
        /\ promoter'[p].step = "NONE" /\ \A q \in Promoter \ {p} : promoter'[q] = promoter[q]
    BY <1>0, <2>1, <2>2
  <2>4. \A q \in Promoter : PromoterBacked(q)'
    BY <2>1, <2>3 DEF PartyInv, PromoterBacked, PaysTheBound
  <2> QED  BY <2>1, <2>3, <2>4 DEF PartyInv, TypesOfParties, BoundAtOnce, CallerBacked
<1> QED  BY <1>1, <1>2 DEF PromoterStep

LEMMA PartiesKeep ==
    ASSUME PartyInv, [PartyNext]_partyVars
    PROVE  PartyInv'
<1>1. CASE PartyNext
  BY <1>1, RegistryKeeps, InstructionKeeps, AccountsBindKeeps, CallersKeep, ResolveKeeps, PromotersKeep
     DEF PartyNext
<1>2. CASE UNCHANGED partyVars
  BY <1>2 DEF partyVars, instructionRow, atProvider, PartyInv, TypesOfParties, BoundAtOnce,
              CallerBacked, PromoterBacked, PaysTheBound
<1> QED  BY <1>1, <1>2

\* The inductive invariant of the parties holds (provider_parties.ts:305-410).
THEOREM PartyInvariance == PartySpec => []PartyInv
BY PartiesBegin, PartiesKeep, PTL DEF PartySpec

\* An entitlement is promoted only while every account that the provider pays is
\* verified and is the one bound to the instruction (provider_parties.ts:305-323,
\* inbox_processors.ts:1009-1016).
THEOREM OnlyTheBoundAreEntitled == PartySpec => EntitledAreTheBound
<1>1. ASSUME PartyInv, [PartyNext]_partyVars, entitled', ~entitled
      PROVE  PaysTheBound /\ \A r \in PartyRole : Usable(r, bound[r])
  <2>1. PICK p \in Promoter : Promote(p)
    BY <1>1 DEF PartyNext, partyVars, DraftInstruction, Agree, Pay, RegisterAccount, EndAccount,
                RailChanges, Bind, CallerStep, Create, Acknowledge, RailRefuses, CallerFails,
                Resolve, PromoterStep, Prove, PromoterFails
  <2>2. PaysTheBound /\ bound # Nowhere /\ Mapping(bound)
    BY <1>1, <2>1 DEF Promote, StillBound, PartyInv, PromoterBacked
  <2> QED  BY <2>2 DEF Mapping, Latest
<1> QED  BY <1>1, PartyInvariance, PTL DEF PartySpec, EntitledAreTheBound

\* What PartyInv leaves open.
AccountsTyped ==
    /\ \A r \in PartyRole : Len(ledger[r]) <= LastAccount
    /\ split \in 0..LastAccount
    /\ {agreed, acknowledged, paid, entitled} \subseteq BOOLEAN
    /\ partyFaults \in 0..PartyFaults

LEMMA AccountTypes == PartyInv /\ AccountsTyped => PartyTypeOK
<1> SUFFICES ASSUME PartyInv, AccountsTyped  PROVE PartyTypeOK
  OBVIOUS
<1>1. \A r \in PartyRole : ledger[r] \in Seq({"CURRENT", "ENDED"}) /\ Len(ledger[r]) <= LastAccount
  BY DEF PartyInv, TypesOfParties, AccountsTyped
<1>2. {bound, told} \subseteq Parties
  BY DEF PartyInv, TypesOfParties
<1> QED  BY <1>1, <1>2 DEF PartyInv, TypesOfParties, AccountsTyped, PartyTypeOK

LEMMA AccountsBegin == PartyInit => AccountsTyped
<1> SUFFICES ASSUME PartyInit  PROVE AccountsTyped
  OBVIOUS
<1>1. \A r \in PartyRole : ledger[r] = <<>> /\ Len(ledger[r]) = 0
  BY DEF PartyInit
<1>2. LastAccount \in Nat /\ PartyFaults \in Nat /\ split = 0 /\ partyFaults = 0
  BY PartyAssumption DEF PartyInit
<1>3. {agreed, acknowledged, paid, entitled} \subseteq BOOLEAN
  BY Zenon DEF PartyInit
<1> QED  BY <1>1, <1>2, <1>3 DEF AccountsTyped

\* An account is registered while there is room, and none is taken away.
LEMMA LedgerIsBounded ==
    ASSUME PartyInv, AccountsTyped, PartyNext
    PROVE  \A r \in PartyRole : Len(ledger'[r]) <= LastAccount
<1>0. /\ ledger \in [PartyRole -> Seq({"CURRENT", "ENDED"})] /\ LastAccount \in Nat
      /\ \A r \in PartyRole : Len(ledger[r]) <= LastAccount
  BY PartyAssumption DEF PartyInv, TypesOfParties, AccountsTyped
<1>1. CASE ledger' = ledger
  BY <1>0, <1>1
<1>2. ASSUME NEW r \in PartyRole, RegisterAccount(r)
      PROVE  \A q \in PartyRole : Len(ledger'[q]) <= LastAccount
  <2>1. ledger' = [ledger EXCEPT ![r] = Append(ledger[r], "CURRENT")] /\ Len(ledger[r]) < LastAccount
    BY <1>2 DEF RegisterAccount
  <2>2. Len(Append(ledger[r], "CURRENT")) = Len(ledger[r]) + 1 /\ Len(ledger[r]) \in Nat
    BY <1>0
  <2>3. Len(Append(ledger[r], "CURRENT")) <= LastAccount
    BY <1>0, <2>1, <2>2
  <2> QED  BY <1>0, <2>1, <2>3
<1>3. ASSUME NEW r \in PartyRole, NEW n \in 1..LastAccount, EndAccount(r, n)
      PROVE  \A q \in PartyRole : Len(ledger'[q]) <= LastAccount
  <2> DEFINE l == [ledger[r] EXCEPT ![n] = "ENDED"]
  <2>1. ledger' = [ledger EXCEPT ![r] = l]
    BY <1>3 DEF EndAccount
  <2>2. Len(l) = Len(ledger[r])
    BY <1>0
  <2> HIDE DEF l
  <2> QED  BY <1>0, <2>1, <2>2
<1> QED  BY <1>1, <1>2, <1>3
         DEF PartyNext, DraftInstruction, Agree, Pay, RailChanges, Bind, CallerStep, Create, Acknowledge,
             RailRefuses, CallerFails, Resolve, PromoterStep, Prove, Promote, PromoterFails

LEMMA PartyFlagsKeep ==
    ASSUME AccountsTyped, PartyNext
    PROVE  {agreed', acknowledged', paid', entitled'} \subseteq BOOLEAN
<1>1. {agreed, acknowledged, paid, entitled} \subseteq BOOLEAN
  BY DEF AccountsTyped
<1>2. /\ agreed' = agreed \/ agreed' = TRUE
      /\ acknowledged' = acknowledged \/ acknowledged' = TRUE
      /\ paid' = paid \/ paid' = TRUE
      /\ entitled' = entitled \/ entitled' = TRUE
  BY Zenon DEF PartyNext, RegisterAccount, EndAccount, RailChanges, DraftInstruction, Agree, Pay, Bind,
         CallerStep, Create, Acknowledge, RailRefuses, CallerFails, Resolve, PromoterStep, Prove, Promote,
         PromoterFails, instructionRow, atProvider
<1> QED  BY <1>1, <1>2, Zenon

LEMMA AccountsKeepTypes ==
    ASSUME PartyInv, AccountsTyped, [PartyNext]_partyVars
    PROVE  AccountsTyped'
<1>1. CASE UNCHANGED partyVars
  BY <1>1 DEF AccountsTyped, partyVars, instructionRow, atProvider
<1>2. CASE PartyNext
  <2>1. split' \in 0..LastAccount
    <3>1. \/ split' = split
          \/ \E p \in Promoter : split' = promoter[p].parties["SUPPLIER"]
      BY <1>2 DEF PartyNext, RegisterAccount, EndAccount, RailChanges, DraftInstruction, Agree, Pay, Bind,
           CallerStep, Create, Acknowledge, RailRefuses, CallerFails, Resolve, PromoterStep, Prove, Promote,
           PromoterFails, atProvider
    <3>2. \A p \in Promoter : promoter[p].parties \in Parties
      BY DEF PartyInv, TypesOfParties
    <3> QED  BY <3>1, <3>2, PartyAssumption DEF AccountsTyped, Parties
  <2>2. partyFaults' \in 0..PartyFaults
    <3>1. partyFaults' = partyFaults \/ PartyFault
      BY <1>2 DEF PartyNext, RegisterAccount, EndAccount, RailChanges, DraftInstruction, Agree, Pay, Bind,
           CallerStep, Create, Acknowledge, RailRefuses, CallerFails, Resolve, PromoterStep, Prove, Promote,
           PromoterFails
    <3> QED  BY <3>1, PartyAssumption DEF AccountsTyped, PartyFault
  <2> QED  BY <1>2, <2>1, <2>2, LedgerIsBounded, PartyFlagsKeep DEF AccountsTyped
<1> QED  BY <1>1, <1>2

----------------------------------------------------------------------------
(* The composition that the runs check.                                    *)

\* A step of it is a step of each component, or leaves the component alone.
LEMMA EachDealingStep ==
    ASSUME [DealingNext]_dealingVars
    PROVE  [PaperStep]_paperVars /\ [PartyNext]_partyVars /\ [MandateNext]_mandateVars
<1>1. CASE UNCHANGED dealingVars
  BY <1>1 DEF dealingVars
<1>2. CASE focus = "QUOTES" /\ DealNext /\ Dormant
  BY <1>2 DEF Dormant, PaperStep
<1>3. CASE focus \in {"CONSENTS", "PAPERS"} /\ PaperNext /\ Dormant
  BY <1>3 DEF Dormant, PaperStep
<1>4. CASE focus = "PARTIES" /\ UNCHANGED paperVars /\ PartyNext /\ Dormant
  BY <1>4 DEF Dormant
<1>5. CASE focus = "RENEWALS" /\ UNCHANGED <<paperVars, partyVars>> /\ MandateNext /\ Dormant
  BY <1>5
<1> QED  BY <1>1, <1>2, <1>3, <1>4, <1>5 DEF DealingNext

\* The state in which the consents begin is one that the deal's invariant
\* describes, whatever its costs and policies.
LEMMA AgreedIsADeal == Agreed => MatchInv
<1> SUFFICES ASSUME Agreed  PROVE MatchInv
  OBVIOUS
<1> DEFINE late == [kind |-> CHOOSE k \in Kind : TRUE, step |-> "STORED", day |-> 0]
           Fits(b) == \A day \in 1..LastDay : Cardinality({k \in Kind : b[k] = day}) <= DailyQuotes
<1>1. billed \in [Kind -> 1..LastDay] /\ Fits(billed)
  BY AgreedAssumption DEF Agreed
<1>2. \A w \in Quoter : quoter[w] \in {late, Nobody}
  BY DEF Agreed
<1>3. late \in QuoterRecord /\ Nobody \in QuoterRecord /\ late.kind \in Kind /\ late.step = "STORED" /\ Nobody.step = "NONE"
  <2>1. (CHOOSE k \in Kind : TRUE) \in Kind
    BY AgreedAssumption
  <2> QED  BY <2>1, PolicyAssumption DEF QuoterRecord, Nobody
<1>4. quoter \in [Quoter -> QuoterRecord] /\ \A w \in Quoter : HoldsBudget(w)
  <2> HIDE DEF late
  <2>1. DOMAIN quoter = Quoter /\ quoter = [w \in Quoter |-> quoter[w]]
    BY DEF Agreed
  <2> QED  BY <1>2, <1>3, <2>1 DEF HoldsBudget
<1>5. SpendInv
  <2>1. billed \in [Kind -> 0..LastDay] /\ today \in 1..LastDay
    BY <1>1, PolicyAssumption DEF Agreed
  <2>2. account \in Quoter \cup {"NONE"}
    BY DEF Agreed
  <2> QED  BY <1>1, <1>4, <2>1, <2>2 DEF SpendInv, SpendIsCapped, Spent
<1>6. ceiling \in Ceilings /\ deal = [status |-> "ACCEPTED", quote |-> Price] /\ snapshot = Waterfall(Price)
      /\ Price > FloorAmount /\ Price \in Nat /\ Price >= Minimum
  BY PriceCoversCosts DEF Agreed
<1>7. DealInv
  <2> HIDE DEF late
  <2> DEFINE p == Price
  <2>1. /\ deal.status = "ACCEPTED" /\ deal.quote = p /\ p \in Nat /\ p >= Minimum
        /\ deal \in [status : {"NONE", "OPEN", "ACCEPTED", "DECLINED"}, quote : Nat]
    BY <1>6
  <2>2. /\ snapshot # NoSnapshot /\ snapshot.price = p /\ snapshot.commission >= CommissionFloor
        /\ snapshot.price = snapshot.gross + snapshot.direct
        /\ snapshot.gross = snapshot.supplier + snapshot.commission
        /\ snapshot.supplier >= SupplierNet
    BY <1>6, WaterfallAddsUp
  <2> HIDE DEF p
  <2> QED  BY <1>6, <2>1, <2>2, CostsAreCounted DEF DealInv, PriceCoversFloor
<1>8. RowsTyped
  <2>1. quoteJob \in [Kind -> QuoteRow]
    BY AttemptLimitAssumption DEF Agreed, QuoteRow, Row
  <2>2. cost \in [Kind -> {"NONE", "FIRM", "EXPIRED"}] /\ floor = "KNOWN"
    BY DEF Agreed
  <2>3. lacking \subseteq Gate
    BY DEF Agreed, Gate
  <2>4. {compatible, outranked, unevaluated} \subseteq BOOLEAN /\ lapsed \in BOOLEAN
    BY Zenon DEF Agreed
  <2>5. quoteFaults \in 0..QuoteFaults
    BY PolicyAssumption DEF Agreed
  <2>6. snapshot \in [price : Nat, supplier : Nat, gross : Nat, direct : Nat, commission : Nat]
    BY <1>6, WaterfallIsNatural
  <2> QED  BY <2>1, <2>2, <2>3, <2>4, <2>5, <2>6 DEF RowsTyped, DealTypeOK
<1> QED  BY <1>5, <1>7, <1>8 DEF MatchInv

LEMMA ReleasedIsProtected == Agreed /\ Released => PaperInv /\ PapersTyped
<1> SUFFICES ASSUME Agreed, Released  PROVE PaperInv /\ PapersTyped
  OBVIOUS
<1>1. 1 \in 0..LastEdition /\ 0 \in 0..LastEdition
  BY PaperAssumption, AgreedAssumption
<1>2. /\ edition = 1 /\ signed = [p \in ForMatch |-> 1] /\ consent = [s \in Side |-> "GIVEN"]
      /\ tradeState = "IDENTITY_RELEASED" /\ related = TRUE
  BY DEF Released
<1>3. snapshot # NoSnapshot
  <2>1. ceiling \in Ceilings /\ Price > FloorAmount /\ snapshot = Waterfall(Price)
    BY DEF Agreed
  <2> QED  BY <2>1, PriceCoversCosts, WaterfallAddsUp
<1>4. PaperInv
  <2>1. \A s \in Side : signed[<<"MASTER", s>>] # 0 /\ signed[<<"NOTICE", s>>] # 0 /\ consent[s] = "GIVEN"
    <3>1. (\A p \in ForMatch : signed[p] = 1) /\ \A s \in Side : consent[s] = "GIVEN"
      BY <1>2
    <3>2. \A p \in ForMatch : signed[p] # 0
      BY <3>1
    <3> QED  BY <3>1, <3>2, MatchPapersBySide, Zenon
  <2>2. signed \in [ForMatch -> 0..LastEdition] /\ consent \in [Side -> Consents] /\ edition \in 0..LastEdition
    BY <1>1, <1>2 DEF Consents
  <2> QED  BY <1>2, <1>3, <2>1, <2>2 DEF PaperInv
<1>5. PapersTyped
  <2>1. rendered \in [Paper -> 0..LastEdition] /\ exact \in [Paper -> 0..LastEdition]
    BY <1>1 DEF Released
  <2>2. registrar \in [Registrar -> Place]
    BY <1>1 DEF Released, Idle, Place
  <2>3. paperFaults \in 0..PaperFaults
    BY PaperAssumption DEF Released
  <2>4. {announced, related} \subseteq BOOLEAN
    BY Zenon DEF Released
  <2> QED  BY <2>1, <2>2, <2>3, <2>4 DEF Released, PapersTyped
<1> QED  BY <1>4, <1>5

LEMMA DealingBegins == DealingInit => AgreedInv /\ PartyInit /\ MandateInit
<1> SUFFICES ASSUME DealingInit  PROVE AgreedInv /\ PartyInit /\ MandateInit
  OBVIOUS
<1>1. MatchInv
  BY MatchBegins, AgreedIsADeal DEF DealingInit
<1>2. PaperInv /\ PapersTyped
  BY PapersBegin, PapersTypedFirst, ReleasedIsProtected DEF DealingInit
<1> QED  BY <1>1, <1>2 DEF DealingInit, AgreedInv

\* Behind the runs' composition stand the parties' and the mandate's own
\* specifications and the invariant of the deal and its papers.
THEOREM DealingBehaves == DealingSpec => PartySpec /\ MandateSpec /\ []AgreedInv
BY DealingBegins, EachDealingStep, AgreementsKeep, PTL DEF DealingSpec, PartySpec, MandateSpec

\* The five components keep their types together.
THEOREM DealingTypes == DealingSpec => []DealingTypeOK
<1>1. AgreedInv => QuoteTypeOK /\ DealTypeOK /\ PaperTypeOK
  BY MatchTypes, PaperTypes DEF AgreedInv
<1>2. PartyInv /\ AccountsTyped => PartyTypeOK
  BY AccountTypes
<1>3. MandateInv => MandateTypeOK
  BY DEF MandateInv
<1>4. PartySpec => []AccountsTyped
  BY PartyInvariance, AccountsBegin, AccountsKeepTypes, PTL DEF PartySpec
<1>5. QuoteTypeOK /\ DealTypeOK /\ PaperTypeOK /\ PartyTypeOK /\ MandateTypeOK => DealingTypeOK
  BY DEF DealingTypeOK
<1> QED  BY <1>1, <1>2, <1>3, <1>4, <1>5, DealingBehaves, PartyInvariance, MandateInvariance, PTL

\* What each component promises alone holds in the composition, also where a
\* behaviour begins with a deal that is agreed or a trade that is introduced.
THEOREM DealingKeepsItsPromises ==
    DealingSpec => /\ [](SpendIsCapped /\ PriceCoversFloor /\ ProtectedRestsOnSignatures)
                   /\ []CyclesAreCounted /\ EntitledAreTheBound
<1>1. AgreedInv => SpendIsCapped /\ PriceCoversFloor /\ ProtectedRestsOnSignatures
  BY DEF AgreedInv, MatchInv, SpendInv, DealInv, PaperInv, ProtectedRestsOnSignatures
<1> QED  BY <1>1, DealingBehaves, CyclesAreAlwaysCounted, OnlyTheBoundAreEntitled, PTL
================================================================================
