# SableStone brokerage: a verification project

TLA+ models of the runtime in `src/`, the TLC configurations that check them,
and TLAPS proofs of the main results. Paths below are relative to the
repository's root (`src/` is the TypeScript implementation, `migrations/` the
SQL schema); every definition's lines are in `PROJECT.json` under `map`.

## 1. The system

SableStone brokers commodity trades between organizations that do not know each
other. It never owns the goods or the money: it matches offers and demands,
negotiates, protects the relationship, has a licensed provider hold the buyer's
money, and discloses the identities only once that money is secured. One Node
process runs the portal's API, a supervisor that drains queues in PostgreSQL,
and a Temporal worker; any number of such processes may run.

| Part | State | Operations | Talks to |
|---|---|---|---|
| Portal commands (`runtime/commands.ts`) | trades, acceptances, shipments, deliveries, disputes | accept instruction, accept contract, record shipment, accept delivery, open dispute | outbox, inventory, payouts |
| Workflows and stages (`workflows/production.ts`, `runtime/activities.ts`, `runtime/stage_handlers.ts`) | Temporal history, `workflow_stage_receipts`, instructions, release events | lock settlement, release identity, open dispute, reconcile, recur, and the stages before protection | provider adapters, trades |
| Webhook processors (`runtime/inbox_processors.ts`) | `settlement_provider_events`, `fee_locks`, renewals, payout controls | process one provider event | provider adapters, trades, inventory |
| Durable inbox and outbox (`runtime/database.ts`, `runtime/supervisor.ts`) | inbox and outbox rows, leases, attempts | claim, complete, fail, redrive, publish | processors, Temporal |
| Payout release (`runtime/supplier_payouts.ts`) | `supplier_payout_controls` | claim, release, record, fail | provider |
| Counterparty duties (`runtime/counterparty_actions.ts`) | `counterparty_actions` and notifications | create, complete, expire, freeze, remind | payouts, e-mail |
| Accounting (`runtime/accounting.ts`) | invoices, ledger, allocation links, reconciliation | bank receipt, reconcile | trades, outbox |
| Inventory (`runtime/inventory_allocations.ts`) | offer and demand allocations | reserve, transition, release | protection, commands, webhooks |
| Renewals (`runtime/recurring_execution.ts`, RECUR and NEGOTIATE) | standing authorizations, reservations, candidates, domain events | reserve, price, commit, consume, release, expire | trades, webhooks, the buyer's mail |
| Matching (`stage_handlers.ts`, MATCH) | `match_candidate_sweeps`, matches | pair a batch, continue, complete, create the quote jobs | outbox, Temporal |
| Quotes and prices (`runtime/economic_jobs.ts`, `pricing.ts`) | quote jobs, costs, spend reservations, floors, negotiations | claim, reserve spend, quote, evaluate | cost providers, matches |
| Negotiation (`negotiation.ts`, `waterfall.ts`, `inbox_processors.ts`) | negotiations, `final_economics_snapshots` | counter, concede, accept, decline | the buyer's mail |
| Agreements (`runtime/agreement_registry.ts`, `agreement_automation.ts`, `commands.ts`) | templates, bindings, acceptances, consents | publish, render and bind, sign, consent, protect | protection, trades |
| Provider parties (`runtime/provider_parties.ts`, `connectors/settlement_http.ts`) | registered accounts, their bindings to an instruction | register, revoke, bind, instruct, prove, promote | settlement, provider |
| Acquisition (`discovery_service`, `enrichment_jobs`, `kyb_jobs`, `acquisition_outreach`) | organizations, job rows with leases, risk decisions | persist, enrich, check, write to | external services, outbound mail |
| Documents (`document_jobs.ts`) | document rows, verification jobs, checks, drafts | take out of a mail, verify, qualify | verification provider |
| Outbound mail (`inbox_processors.ts`, `connectors/gmail.ts`) | notification rows, `outbound_email_jobs` | project, claim, search for a copy, send, redrive | Gmail |
| Reception (`webhooks.ts`, `gmail_watch.ts`, `connectors/gmail.ts`) | `connector_cursors`, the inbox | list the history, insert, move the cursor | inbox |
| Schedules and health (`scheduler.ts`, `health_monitor.ts`) | schedules, gauges | start workflows | Temporal |

What is hard: all of these act on the same rows, with no lock held across a
provider call. Webhooks arrive late, twice and in any order; the processor
decides on a state it read earlier; two workflows of the same trade run at the
same time; an activity may commit and its completion be lost; a payout is in
flight while the trade is disputed or a deadline freezes it; a dispute may be
opened by the buyer and by the provider and resolved either way. Job rows are
leased for minutes and without a token, so two workers may believe they have the
same row; a request to Gmail's history, a quote or a provider's account is read by
one transaction and relied on by a later one.

What makes it correct: identities are disclosed only over secured money that
both parties agreed to; goods move only between introduced parties; the
supplier is paid only for accepted goods and never for disputed ones; what is
settled stays settled and what failed stays sealed; capacity and renewals are
spent once; money that was captured, fee locks and accepted goods make progress.
Before a trade: no mail is passed over, no message is sent twice, a verified offer
rests on evidence, every counterpart is matched, providers' budgets and price
floors hold, and a relationship rests on both sides' signatures and consents.

## 2. The modules

Four groups. `TradeRecords` declares the state of one protected trade and
everything that acts on it; six modules extend it and contribute actions;
`TradeSystem` composes them. `RuntimeSupervisor` and `InventoryAllocations` open up
what the first group takes in one step. Five modules, composed in `MCSourcing`, are
what brings in organisations, documents and mail; five more, composed in
`MCDealing`, are what lies between a match and its settlement. Those ten keep
clear of the trade's rows, except where `Agreements` and `StandingMandates` say in
which state a trade is.

| Module | Code | Content |
|---|---|---|
| `BrokeragePromise` | | Abstract specification: consent, secure, reveal, accept, pay. None of them is taken back |
| `TradeRecords` | `lifecycle.ts`, `inventory_allocations.ts`, schema | Rows of the trade, the provider's side of it, process states, `Init`, `TypeOK` |
| `TradeCommands` | `commands.ts` | The five portal commands, one transaction each |
| `SettlementStages` | `stage_handlers.ts`, `activities.ts`, `production.ts` | SettlementWorkflow (both runs of it) and DisputeWorkflow, with the receipts of their activities; NEGOTIATE when it ends late |
| `SettlementEvents` | `inbox_processors.ts` | The provider's reports and `processSettlementEvent` |
| `SupplierPayouts` | `supplier_payouts.ts` | `dispatchBatch` |
| `CounterpartyActions` | `counterparty_actions.ts` | The delivery duty and the freeze of the payout, a statement at a time |
| `TradeReconciliation` | `accounting.ts`, `production.ts` | RecurringDemandWorkflow and bank receipts |
| `TradeSystem` | | `Next`, fairness, properties, the inductive invariant; the trade as `InventoryAllocations` and `StandingMandates` see it |
| `TradeSystem_proofs` | | The theorems |
| `MCTradeSystem` | | Events and bounds of the TLC instances |
| `EventDelivery` | | Abstract specification: an event is received, handled and starts its workflow, or is rejected |
| `RuntimeSupervisor` | `database.ts`, `supervisor.ts` | Inbox and outbox rows, the supervisors that drain them, `Next`, fairness, properties, the inductive invariant |
| `RuntimeSupervisor_proofs` | | The theorems |
| `MCRuntimeSupervisor` | | The attempt limits of the TLC instances |
| `InventoryAllocations` | `inventory_allocations.ts` | Several trades that reserve the same offers and demands: advisory locks, sums, commit, rollback, transitions |
| `MCFulfilment` | | Trades, quantities and hashes of the stock, and a trade whose goods were accepted: `MCTradeSystem` beside `InventoryAllocations` |
| `Fulfilment_proofs` | | The theorems of `InventoryAllocations`, and of the composition |
| `MailReception` | `webhooks.ts`, `gmail.ts`, `gmail_watch.ts`, `database.ts` | Overlapping push requests, the history cursor, the inbox's digest check, lapses of the watch |
| `JobLeases` | the job tables' statements | The row and the claim, finish and fail statements that the job tables share |
| `JobLeases_proofs` | | What each of these statements does to a row |
| `Acquisition` | `discovery_service.ts`, `enrichment_jobs.ts`, `kyb_jobs.ts`, `acquisition_outreach.ts` | One organisation from discovery to the first e-mail: four job rows that wake one another |
| `OutboundMail` | `inbox_processors.ts`, `counterparty_actions.ts`, `gmail.ts` | A notification, its e-mail job and Gmail, which is searched for the Message-ID before anything is sent |
| `DocumentEvidence` | `document_jobs.ts`, `inbox_processors.ts` | A mail's documents, their verification, and the qualification of drafts |
| `LeasedJobs_proofs` | | The theorems of `Acquisition`, `OutboundMail` and `DocumentEvidence` |
| `MatchSweeps` | `stage_handlers.ts` | The MATCH stage: batches behind a cursor, continuation events, the quote jobs at the end |
| `MCSourcing` | | The five together, and the fairness of their loops |
| `Sourcing_proofs` | | The theorems of `MailReception` and `MatchSweeps`, and of the composition |
| `EconomicQuotes` | `economic_jobs.ts`, `pricing.ts`, `costs.ts` | Quote jobs under a daily limit, the floor, the price, the evaluation that opens a negotiation |
| `Negotiations` | `negotiation.ts`, `waterfall.ts`, `inbox_processors.ts` | The buyer's answers and the economics an acceptance freezes |
| `Agreements` | `agreement_registry.ts`, `agreement_automation.ts`, `commands.ts`, `stage_handlers.ts` | Papers, editions, signatures, consents, `protectMatch` |
| `ProviderParties` | `provider_parties.ts`, `stage_handlers.ts`, `router.ts`, `settlement_http.ts`, `inbox_processors.ts` | Accounts, rails, the instruction made from them, split, proof and promotion |
| `StandingMandates` | `recurring_execution.ts`, `stage_handlers.ts`, `inbox_processors.ts` | The renewals of one standing demand and the four places that give a reservation back |
| `StandingMandates_proofs` | | The theorems |
| `MCDealing` | | The five together, and the fairness of their loops |
| `Dealing_proofs` | | The theorems of `EconomicQuotes`, `Negotiations`, `Agreements` and `ProviderParties`, and of the composition |

How the state corresponds to the code:

- A row that exists once per trade is a variable with the row's state, `"NONE"`
  when it does not exist. `feeLocked` stands for the `fee_locks` and
  `entitlement_security_events` rows, which one transaction inserts together.
  `inventory` is the allocation of the offer and of the demand: they are
  always updated together and the code throws when they differ.
- `stored` holds the events with a row in `settlement_provider_events`; the type
  an event is stored under is `InternalType`. `inboxDone` holds the events
  whose inbox row is PROCESSED; any other event that was sent may be claimed,
  by one worker or by several, since a lease carries no token.
- `outbox` holds the event types appended for the trade. Each one starts at most
  one workflow, as Temporal makes it unique by id.
- `receipts` holds `<<stage, result>>`. `workflow_stage_receipts` is unique on
  stage and digest, and the digest covers stage, input and result, so a result
  can be recorded once for all runs that have the same input.
- A database transaction is one action. Work across transactions or provider
  calls is several actions with a phase: `worker[w]` (read, split, applied),
  `run[r]`, `disputeRun`, `reconciler`, `dispatcher[d]`. What a process read
  earlier is kept in its record (`seen`), never read again.
- A statement that throws changes nothing and its action is disabled; what
  follows is the retry (`RetryActivity`, `Abandon`, `RecordError`).

The provider and the clock are the environment: `Report` lets the provider send
any event that is truthful given its side of the trade, at any time and in any
order; `ClockPasses` lets a deadline pass.

`RuntimeSupervisor` is a second view of the part that `TradeSystem` takes as
given: how an event gets to its handler and an outbox row to Temporal. An event
is a number, its place in `received_at`; `row[q][e]` is its row in the inbox or
in the outbox. A supervisor's record holds what its process has in memory: the
batch it claimed and the row in hand with what became of it. Everything between
the claim and the mark is a step of its own. `elapsed` says that the lease, or
the wait before a redrive, is over. `Outlast` is time passing while a supervisor
still has the row; a late supervisor then marks a row that another has claimed or
finished: it loses if the row is finished, and otherwise its mark counts. In the
inbox a mark that finds no row throws, in the catch clause too: `tick` rejects
and the worker's process ends (`DieOfConflict`). Which workflow an event starts
is in `SettlementStages`; here an event has at most one outbox row, the one its
handler appends.

`InventoryAllocations` opens up what is one step in `TradeSystem`, the reservation
in the transaction that protects a trade, for several trades at once. `step[t]`
is how far the transaction of trade `t` has got, `holder` who has which advisory
lock, and `allocation[t]` the state of the trade's committed allocation rows. A
booking is a set of tonnes, `Tonnes(t)`, and the database's sum the number of
tonnes booked. The sums are read by one step and the rows become visible in a later
one, the commit, as under READ COMMITTED. `hash` is what `hashtext` maps the lock
keys to, chosen once; it need not keep them apart. The row locks on the offer and
the demand are left out: no statement updates those rows, and the
advisory locks are taken before them by every reservation.

In the modules before and around a trade the same conventions hold:

- A job row has a state, its attempts and `old`, which says that its lease is over.
  `Elapsed` makes a row old, with its worker still at it (a fault, since workers
  are far faster than ten minutes) or after its worker died (the clock). What a
  worker writes back is guarded by the row's state alone (`JobLeases.Finished`), as
  in the SQL, so a late worker ends the attempt of another.
- A process's record holds where it is between two transactions and what it has
  read: `request` (mail), `hand` (acquisition), `post` (outbound mail), `desk`
  (documents), `running` (sweeps), `quoter`, `registrar`, `caller` and `promoter`
  (parties). `expiring` is what NEGOTIATE read before its transaction.
- Crashes, errors, refusals and lapses are actions that count in a `*Faults` bound.
- `MailReception`: mail `n` has history id `n`; a push names the id it was published
  at; `request[h].from` is the cursor that a request read and `todo` what the history
  listed. `Broken` mails cannot be fetched and `Undated` ones take the push's
  publish time into their digest.
- `Acquisition`: `risk` is the latest decision with the time its check began, as
  `decided_at` is not the time it is stored. The two lanes are a buyer's outreach
  jobs with and without a profile. `outranked` holds the lanes whose job stands behind
  twenty others in the order of the outreach's claim: a job that waits is claimed and
  put back with the priority and the age it had.
- `DocumentEvidence`: a document has a row of `document_checks` for each type of check
  that an answer named, and the first answer of each type stays. A job is judged by its own
  call (`Judged`), and a draft is promoted on any VERIFIED check (`Proofs`), whatever became of
  the job. What the provider answers is chosen when it is recorded, since nothing
  reads it between. `promoted` is the check that the decision's digest names.
- `OutboundMail`: `matter` is a negotiation or a duty, chosen once; a duty's notification
  is claimed while it is due, also when it was sent before (`NoteReady`); `copies` is
  what Gmail has in Sent, and a send whose answer was lost has added one.
- `MatchSweeps`: `events` are outbox rows not yet started, `results` the stage
  receipts, unique by input and result; `struck` says that a fault has hit an
  execution that held the sweep.
- `EconomicQuotes`: every quote costs one unit; `billed[k]` is the date of its spend
  reservation, `account` the advisory lock on the provider's budget, which is taken,
  read and written in separate statements. `lacking` is what the evaluation would
  look for and not find. `outranked` says that the evaluation dispatcher does not come
  to this match: it looks at the twenty of the highest priority, those it rejects
  stay in its list, and one that throws ends the batch.
- `Negotiations`: `Answer` is `negotiate` over whole units, `Waterfall` what
  `buildFinalWaterfall` splits a price into.
- `Agreements`: a paper ends with the `edition` it was rendered from; `crowded` holds
  those of the dispatcher's two lists whose limited selection is full of other
  business, since it does not ask whether papers are complete; a consent is written by one statement and committed by a later one, and counts
  the others before it commits, as under READ COMMITTED.
- `ProviderParties`: `bound` is the accounts bound to the instruction, `told` those
  the provider was given under its idempotency key, `split` the account that a split
  ordered later pays.
- `StandingMandates`: a renewal is one record with its candidate's status, its
  reservation's state, its negotiation and its trade. `cycleEvents` is the numbers
  that `domain_events` has a key for.

Abstracted data: amounts, currencies, digests, references and evidence. An event
that fails a check on them throws before it changes anything, and is a retry.
The buyer's 5 minute polls for the release, which the handler answers at once,
are not counted; the 168 polls for the fee lock are (`LockAttempts`). The row a
delivery duty is created from is read by the statement before it; both are one
action.

## 3. The runs

Every run gives each CONSTANT a value; the bound of a run is its set of events,
workers and faults, and for the trade its CONSTRAINT. Deadlock is not
checked: a trade that is settled, cancelled or waiting for a party stops, when
all trades have their stock nobody reserves any more, and queues run empty.

| Run | Question | Bounds, and why they suffice |
|---|---|---|
| `Progress` | Is captured money secured and a fee lock introduced? Can identities meet without secured money, or a workflow get ahead of it? | A capture and a failure, one worker, one workflow run, the instruction's deadline; completions are not lost here (see `stage receipts` under Disagreements), but they are in what is proved |
| `Dispute` | Do the rows, the provider and the processes agree (`IInv`)? Is the supplier paid only for accepted, undisputed goods? Is `BrokeragePromise` implemented? | A capture, a dispute, and both resolutions; reports other than the capture come after the release; one worker, one dispatcher, the delivery deadline |
| `Renewal` | Is a renewal spent with the fee lock unless NEGOTIATE took it back first; is settled final; is a dead trade sealed? | A secured entitlement, a reversal and a disbursement of a renewal between parties who know each other; NEGOTIATE may end late; completions of activities may be lost; no portal dispute |
| `Fulfilment` | Can an offer or a demand be promised twice? Can reservations wait for one another for ever, or never end? Are accepted goods paid despite crashes and errors? | `focus` STOCK: four trades that link two offers and two demands in a circle, the smallest that can deadlock with distinct keys; two lots too small for both their trades; hashes all apart, and two pairs of keys that share one; one offer expires. `focus` PAYOUT: a capture, one dispatcher, the delivery deadline |
| `Delivery` | Do the queues say only what happened, does a finished row stay finished however late a mark comes, and is every event delivered? | Two supervisors, an invalid event and one that can be handled, three faults: enough for a supervisor to be late on a row that the other has failed, redriven or finished, and for the refused event to stand ahead of the other through all its attempts |
| `Sourcing` | Is a mail passed over, a message repeated, an ended job reopened, a version verified on a check that is overwritten, a sweep complete too early? Does what was begun come to its end? | Two processes; three mails, the last undated, so that a late request can move the cursor past another's; attempt limit 2, so that dead letters and their redrive happen; three counterparts in batches of one, two of them unfit, so that a sweep has two continuations; two types of check, so that a document is VERIFIED in part, and two documents of one mail, so that a late worker takes it out twice (the second document and the last fault exclude one another); one fault for mail and acquisition, two elsewhere (a worker dies and its successor fails) |
| `Dealing` | Do spending and prices keep their bounds? Does a relationship rest on signatures, an entitlement on the accounts bound to it? Does a mandate count its cycles? Do quotes lead to negotiations, and do papers come? | `focus` QUOTES, CONSENTS, PAPERS, PARTIES, RENEWALS. Two cost kinds against one quote a day on two days, so that one must wait; ceilings unknown, short of the floor, and ample; bids below, at and above the least price and the concession; two editions, so that papers end; two rails, one splitting after payment; two accounts for each role; two settled trades and three renewals of at most two, so that a lapsed one is followed |

In `MCSourcing`, `MCDealing` and `MCFulfilment` the components share no row
that one of them changes while another is at work, so a behaviour takes one of
them, `focus`, and the others stay as they begin: the reachable states are the sum
and not the product of theirs. `CONSENTS` and `PAPERS` begin where an acceptance leaves the quotes
(`Agreed`, which includes a late worker about to evaluate): first the parties sign and consent
while one dispatcher runs, then two dispatchers race and nobody signs.

Fairness. `InboxFairness`: the inbox redrives an event until it is processed and
the supervisor polls it every tick, so a worker that can take an event
infinitely often takes it, and an execution that can commit infinitely often
commits. It is strong because a failing attempt disables the action in between.
`WorkflowFairness`: Temporal retries an activity without limit
(`maximumAttempts: 0`), so each step of a run is strongly fair when an error may
come between, weakly fair otherwise. `PayoutFairness`: the supervisor calls the
dispatcher every tick. Parties, providers, the clock and errors get no fairness. In `RuntimeSupervisor`
each process takes its next step (`run` loops without end and the container is
restarted) and time goes on (`Elapse`): weak fairness of both. Faults are bounded
by `MaxFaults`; crashes and failures that never stop would of course hold up
everything, and so do overrun leases, see below.

In `MCFulfilment` a lock is granted in the order of its queue, which strong
fairness of `LockFirst` and `LockSecond` stands for (others may have the lock in
between), a statement comes back, and PostgreSQL's deadlock detector runs. No
transaction has to begin, nor to fail.

In `MCSourcing` there are three kinds of condition, and since `focus` never changes one
condition serves all components. `Pick(i)`, strongly fair: the loops of
`start-production-worker.mjs` claim each row that stays or comes back ready and that
the claim's order comes to (an `outranked` outreach job is not claimed at all),
Pub/Sub delivers a push again until it is acknowledged and Temporal starts an
event's workflow; strong because another process may have the row in between.
`Work(w)`, weakly fair: a process that neither crashes nor fails finishes its step.
`Tick(i)`, weakly fair: the database's clock passes a lease and a redrive date. In
`MCDealing` the evaluation and the agreement dispatcher are polled (`Evaluation`,
`Dispatch(w)`), each for the rows that its limited list comes to (`outranked`,
`crowded`), and processes finish their steps (`Work(w)`); claims of quote jobs are not
fair, because no property needs them, and neither is anything the operators, the
parties and the providers do.

The liveness properties of these modules have the form `[]<>(P => Q)`: again and
again, either the need is met or its reason is gone. That is what a
system can promise whose facts (approvals, contacts, editions, stock) change
while it works; where the facts stay, it says that `Q` comes. The escape
clauses in them (`struck`, `unevaluated`, `outranked`, `crowded`, a broken mail in the way, a rejected
organisation) are the cases in which the code really gives up, see below.

Five more runs are violations of what the repository says, each a finding of
`PROJECT.json`:

| Run | What it shows |
|---|---|
| `HeadSchema` | With the table the migrations build, no provider event can be stored, so no captured payment becomes a fee lock. The other runs assume the table repaired (`StorableType` holds every type) |
| `PollingForever` | The second identical poll cannot record its receipt; the activity is retried for ever and the workflow's deadline is never reached |
| `UnconsumedCapacity` | A trade that its contract funds keeps its inventory RESERVED; accepting and settling never consume it |
| `UnpaidResolution` | A dispute resolved for the supplier puts the payout back to HELD, and nothing releases it |
| `LapsedRenewal` | NEGOTIATE reads that a renewal's negotiation has lapsed; the buyer's acceptance, mailed in time, then binds the reservation to a trade; NEGOTIATE's transaction releases the reservation of that trade |

### Disagreements

Read in the code while modelling, reachable in the model, and not the subject
of a run:

- `stage receipts`: a completion lost after an ACCEPTED lock was recorded meets
  its own receipt at every retry (`activities.ts:59`), as in `PollingForever`.
- `inbox_processors.ts:1176`: a late DISPUTE_OPENED takes a CANCELLED or failed
  trade to DISPUTED_FROZEN, and `lifecycle.ts:33` gives CANCELLED no transition.
- `inbox_processors.ts:1182`: a resolution for the supplier makes any frozen
  trade ACCEPTED, also one that was frozen before its identities were released,
  which `lifecycle.ts:69-71` excludes. No money leaves: `PayoutBacked` is proved.
- `inbox_processors.ts:1184-1188`: a resolution for the buyer leaves a renewal
  COMMITTED (`docs/readiness/README.md:92-93` says failure releases it).
- `supervisor.ts:50-65`: a lease has no token, so a supervisor that comes late
  fails the attempt of the one that has the row. If leases may be overrun without
  limit, `Delivery` fails: two supervisors fail each other's attempts at one event
  for ever, and a younger event waits behind it. `MaxFaults` excludes this.
- `counterparty_actions.ts:52-56`: duties are expired before they are completed,
  so a delivery accepted in time is frozen when the projector runs late.
- `stage_handlers.ts:317-321`, `inbox_processors.ts:1181`: a resolution passes over a dispute row
  that is still OPENED, and DisputeWorkflow then makes it PROVIDER_SUBMITTED
  (`RecordDispute`): an open dispute about a resolved trade, which blocks its payout.
- `accounting.ts:212-252`: a trade read as ACCEPTED and frozen since is not settled, since
  the update is guarded, but TRADE_SETTLED is appended (`WriteReconciliation`).
- `supplier_payouts.ts:26`: a payout frozen while its release is in flight is
  released all the same.
- `stage_handlers.ts:398`: the number of a cycle is `reserved + consumed + 1`, so
  after a renewal that expired or was declined the same number comes again, its
  domain event has the same key, and `domain_events.idempotency_key` is UNIQUE
  (`migrations/0003_lifecycle.sql:4`): RECUR throws at every retry. The guard
  `n \notin cycleEvents` of `ReserveRenewal` is this. `docs/readiness/README.md:89-100`
  has released renewals available again.
- `stage_handlers.ts`, RECUR: a DECLINED candidate counts as existing, so the same
  trade is never renewed again (`Unrenewed`).
- A substitution whose reservation has expired is protected as an ordinary trade
  (`OUTSIDE` in `ProtectSubstitute`), beside the mandate.
- `commands.ts:179-196`: two consents that commit at the same time each count one, so
  PROTECTED_ACCEPTANCES_COMPLETE is never appended and no relationship follows
  (`WRITTEN_LAST` and `CommitConsent`).
- `counterparty_actions.ts:34-46`: every reminder of a duty has the key
  `action:<id>`, so only the first becomes an e-mail; `MASTER-PLAN` SH-17 asks for
  reminders.
- `stage_handlers.ts:1022`: `releaseIdentity` between parties already introduced has
  no answer for its own repetition, its guarded update finds no row and throws.
- `inbox_processors.ts:1182`: a trade that a resolution made ACCEPTED has no
  TRADE_ACCEPTED row in the outbox, so no RecurringDemandWorkflow starts for it.
- `accounting.ts:173`: two disbursement reports of the whole entitlement add up to a
  mismatch, which ends that workflow too.
- `stage_handlers.ts:319`: DisputeWorkflow returns UNKNOWN when the instruction is not
  acknowledged yet, and is not run again.
- `gmail.ts:88-140`: a mail that cannot be fetched, or an undated one delivered by a
  second push, makes the request throw before the cursor moves, so every later mail
  waits behind it. A push older than the cursor throws too, harmlessly. When a watch
  lapses, what arrived meanwhile comes only with the next push.
- `stage_handlers.ts:93-116`: an error or a crash while a sweep is PROCESSING leaves
  the repetition to find it busy and answer, so the sweep is stranded until a new
  version of the anchor comes; a crash between the end of the sweep and its quote
  jobs leaves matches without them (`struck`).
- `economic_jobs.ts:229,352`: an outage of every route marks a match incompatible,
  and nothing marks it compatible again; a worker lost between its quote and the
  evaluation is made up for only where a floor is KNOWN already (`unevaluated`).
- `economic_jobs.ts:246-248`: the evaluation dispatcher selects twenty KNOWN matches without
  a negotiation by `priority_score`, then by the time of their last evaluation; twenty of a
  higher priority that no price makes executable stay there, and one that throws ends the
  batch and keeps its place, so a match behind them is never evaluated again. The comment at
  `economic_jobs.ts:240-242` has it that a policy's activation needs no synthetic retry
  (`outranked` of `EconomicQuotes`).
- `acquisition_outreach.ts:26`: a tick claims twenty jobs by `priority_score desc, created_at`,
  those that wait for a contact, a decision or stock among them, and puts these back as
  they were; twenty of them keep a job behind them from ever being claimed (`outranked`
  of `Acquisition`).
- `document_jobs.ts:265-272, 328`: a verification job is REJECTED when one of its checks is
  not VERIFIED, but the qualification asks for any VERIFIED check of the document, so a
  draft is promoted on a document that was judged REJECTED (`Proofs`). A repeated
  call keeps the checks that are there and judges the job by its own (`Kept`, `Judged`).
- `provider_parties.ts:365`: a bound account that is revoked blocks its instruction
  for good, since the binding is never replaced (`Mapping`).
- `settlement_http.ts:277`: the payload of a verified Escrow.com webhook carries the
  time of its verification, so a redelivered one has another digest and
  `webhooks.ts:113` refuses it as a conflict.
- The sweep of reservations and `protectMatch` lock rows in different orders and may
  deadlock; PostgreSQL rolls one of them back and it is repeated.

## 4. What is proved

`TradeSystem_proofs` proves, for every set of events, workers and dispatchers,
either kind of rail, first trades and renewals, any choice of routed workflows
and deadlines, with and without lost completions:

| Theorem | Property |
|---|---|
| `Invariance` | `IInv`, the inductive invariant |
| `DisclosureIsBacked`, `ShipmentIsBacked`, `PayoutIsBacked`, `DisputeIsUnpaid`, `RenewalIsSpentWithLock`, `WorkflowsAreTruthful` | the invariants of the runs |
| `ContractIsFunded` | a contracted trade is funded in the same transaction; no run needs it |
| `SettledStaysSettled`, `DeadStaysSealed` | the action properties of the runs |
| `Implementation` | `Spec => PromiseKept`: the runtime implements `BrokeragePromise` |
| `StockIsMovedAsModelled` | `MovesItsStock`: a trade moves its allocation as `InventoryAllocations` lets a trade move it |
| `RenewalIsMovedAsModelled` | `MovesItsRenewal`: a renewal's trade treats its reservation as `StandingMandates` lets a trade treat it |

Assumptions: those `TradeRecords` states of its constants, which TLC evaluates in
every run. The one that is not about types is `IntroducedAssumption`: a pair
meets again only through a renewal, because `protectMatch` gives any other
second trade no current terms.

The argument. None of the properties is inductive alone. `DisclosureBacked`
needs to know that a run attempts a release only under a fee lock
(`RunsInOrder`); `PayoutBacked` that a dispatcher that has claimed a payout has
seen a delivery acceptance, which no step deletes (`ProcessBacked`);
`RenewalSpentWithLock` that a renewal is still committed while the trade is
PROTECTED, unless NEGOTIATE took it back (`StateBacked`), for the fee lock happens
nowhere else; and
`ShipmentBacked` the chain from contract to release to fee lock to order
(`ChainOfPromises`). `IInv` is their conjunction with `TypeOK`. One lemma per
group of actions shows that it is preserved, one step per action in it and
under that one step per conjunct; `NextPreserves` puts them together. The
refinement splits the actions into the five that touch the promise and the
others, which stutter (`EventsAndPromise`, `RunsAndPromise`, `RestAndPromise`).

The last two theorems join the groups of modules. `InventoryAllocations` and
`StandingMandates` follow many trades and reduce each of them to what it does to
their rows; `Stock` and `Mandate` are those modules with the trade's rows put in
for theirs, and the theorems say that every step of the trade is a step of theirs
or leaves their rows alone. For the renewal this needed `NegotiationExpires` in
`SettlementStages`: `StandingMandates` has NEGOTIATE take a reservation back from
a live trade (the finding `LapsedRenewal`), and a renewal that is always consumed with
the fee lock cannot be true of such a trade.

`RuntimeSupervisor_proofs` proves, for any events, supervisors, batch size, attempt
limits and number of faults:

| Theorem | Property |
|---|---|
| `Invariance` | `IInv` of `RuntimeSupervisor` |
| `MarksAreAlwaysTrue`, `FinishedRowsStay` | `MarksAreTrue` and `FinishedStays` of the run `Delivery` |
| `SafeDelivery` | the safety part of `EventsAreDelivered` |

Its assumptions are the types of its constants and that no event is both invalid
and always failing. `MarksAreTrue` is not inductive: a mark is true because what
the supervisor has in hand is (`HandsBacked`), that is true because it was so
when the row was taken up and nothing it depends on is ever taken back (`Grows`),
and a hand is taken only from a batch of rows that exist (`BatchesBacked`).
`HandsKept` and `BatchesShrink` state this once for all actions. `SafeDelivery`
follows from `RowsBacked`: an event that has an effect was received and is not
invalid, and one whose workflow started has had its effect.

`Fulfilment_proofs` proves, for any trades, offers, demands, quantities and
hash function:

| Theorem | Property |
|---|---|
| `StockInvariance` | `StockInv`, the inductive invariant |
| `NeverOversold` | no lot is promised beyond its quantity, even when keys share a hash |
| `NeverDeadlocked` | no circle of waiting reservations, if no two keys share a hash |
| `FulfilmentBehaves`, `FulfilmentKeepsItsPromises` | `MCFulfilment` is a behaviour of the trade and one of the stock, so what is proved of either holds there |

Its assumptions: the types of the constants, a finite number of trades, and that
offers are not demands. `NothingIsOversold` is not inductive, because the sums are
read before the commit. `StockInv` adds that a lock is held by exactly the transaction
that has reached it (`LocksHeld`) and that what a transaction has counted still
fits (`CountsStayGood`): two transactions that have both counted share no lot
(`LotsGuarded`), so a commit changes no count of another (`TonnesAdded`), and every
other change only makes room (`FewerBookings`). For `NeverDeadlocked`: whoever holds
a lock that another waits for has its demand's lock and waits for an offer's, whose
holder waits for nothing.

The proof modules of sourcing and dealing hold for any numbers of processes,
rows and faults:

| Module | Theorem | Property |
|---|---|---|
| `LeasedJobs_proofs` | `AcquisitionInvariance`, `EndedJobsAlwaysStay`, `CallsFollowFaults` | `EndedJobsStay`, `asked <= acqFaults + 1` |
| | `PostInvariance`, `OneCopyGoesOut`, `CopiesFollowFaults` | `OneCopy`, `copies <= postFaults + 1` |
| | `DocumentInvariance`, `PromotionsRestOnEvidence` | `PromotedRestsOnEvidence` |
| `Sourcing_proofs` | `ReceptionInvariance`, `MailIsNeverSkipped` | `NoMailSkipped` |
| | `SweepInvariance`, `SweepsCoverAll` | `SweepCoversAll` |
| | `ComponentsBehave`, `SourcingTypes`, `SourcingKeepsItsPromises` | `SourcingTypeOK`, and the above in `MCSourcing`, both counts of calls and copies included |
| `StandingMandates_proofs` | `MandateInvariance`, `CyclesAreAlwaysCounted` | `CyclesAreCounted` |
| `Dealing_proofs` | `SpendIsAlwaysCapped`, `PriceAlwaysCoversFloor`, `ProtectionRestsOnSignatures` | `SpendIsCapped`, `PriceCoversFloor`, `ProtectedRestsOnSignatures` |
| | `PartyInvariance`, `OnlyTheBoundAreEntitled` | `EntitledAreTheBound` |
| | `DealingBehaves`, `DealingTypes`, `DealingKeepsItsPromises` | `DealingTypeOK`, and the above in `MCDealing` |

The runs check these properties of the compositions `MCSourcing` and `MCDealing`, in
which one component moves at a time and those that are not in `focus` are dormant.
The arguments are about each component's own specification. `ComponentsBehave` and
`DealingBehaves` join the two: a behaviour of the composition is a behaviour of each
component, because a step of one leaves the variables of the others alone. Where the
composition begins in the middle, with an agreed deal or an introduced trade, it
is shown to begin and stay in the component's invariant instead (`AgreedInv`).

The assumptions are the types of the constants (`MailAssumption` and its like), finite
numbers of workers, that `"NONE"` is neither a process nor a rail, that `"SUPPLIER"`
is a party's role, and that a mandate permits at least one renewal, as the schema has it.
`AgreedAssumption` says of the terms `MCDealing` gives `Agreements` what `Negotiations`
guarantees of those it freezes, and one conjunct of it came from a proof: the price is
above the floor and not just equal to it. One assumption narrows the code: a capture rate
is one over a whole number (`CaptureShare`), since the amounts are whole units.

The arguments:

- `EndedJobsStay`. A job row that has ended is written by nothing but a statement that wakes
  it, and each statement of a worker is guarded by PROCESSING: a worker whose lease was
  overrun may find the row in another's hands or ended, and then only fails to write.
- Calls of the paid check and copies of a mail follow faults. Neither bound is inductive. `AskedForFaults` and
  `SentForFaults` count what has been called, the hands that are about to call, and
  one more if the row may be claimed anew, and bound the sum by the faults and one: a
  claim turns the row into a hand, a call turns a hand into a call, and only a fault
  gives a row or a hand back.
- `OneCopy`. Until a lease is overrun, one worker holds the row (`HeldByOne`), and what it found
  when it searched for the Message-ID is still so, since nobody else can have sent.
- `PromotedRestsOnEvidence`. `EvidenceStored`: a job, a worker's task and a check are about a
  stored document, and a document with a check has a receipt. A check that is there keeps its
  answer (`RecordKeeps`), so the one a draft was promoted on can only lapse.
- `NoMailSkipped`. The cursor is moved by requests that read it long ago.
  `RequestBacked`: everything up to the cursor that a request read is in the inbox, and
  everything from there to its push is in the inbox or still in its hands. Mail is
  never taken out of the inbox, so what others do leaves this as it is.
- `SweepCoversAll`. A sweep's holder may lose it without notice, so the state of the sweep
  says nothing of who moves its cursor. `ExecutionBacked`: whoever may move it knows that
  its own batch and all before it are paired, and pairs are never undone.
- `CyclesAreCounted`. Four transactions give a reservation back and guard it in
  different ways; `Counted` relates both counters to the cardinalities of `Held`
  and `Used`, and every action moves one renewal between them, except the sweep, which moves
  as many as it frees. `Numbered`: the number of a reservation that is held or
  used has its domain event and is given once, because events stay. The floor at 0
  of `Freed` is never reached.
- `EntitledAreTheBound`. `BoundAtOnce`: the accounts are bound all together and
  never change, so every caller and promoter in the middle of its work carries
  the bound ones (`CallerBacked`, `PromoterBacked`), and so does what the provider was told and the split it was
  ordered. That they are usable is what the promotion reads last.
- `SpendIsCapped`. The sum is read in one statement and the reservation written
  in another; whoever has counted holds the advisory lock, so its
  count stays good (`HoldsBudget`, `HasRoom`).
- `PriceCoversFloor`. A late evaluation may come at any time, but opens a negotiation
  only where there is none; every price and every concession is at least `Minimum`,
  and an acceptance freezes the floor that it was measured by (`PriceCoversCosts`).
- `ProtectedRestsOnSignatures`. A consent that has begun found its side's master and
  notice signed, and the signatures it found are not taken back by a new edition;
  a consent that is given stays.

Only model-checked: the liveness properties, which need fairness and are beyond this
prover: `CapturedMoneyIsSecured`, `FeeLockIsReleased`, `QuotedIsNegotiated`, `PapersArrive`, `EveryAttemptEnds`, `AcceptedGoodsArePaid`,
`PushedMailIsReceived`, `ClearedIsWritten`, `MessagesArrive`, `DocumentsAreJudged`, `SweepEnds`
and the liveness half of `EventsAreDelivered`. Every invariant and every action property
of a passing run is stated by a theorem.

## 5. Not modelled

- The scheduler, which starts workflows by the clock under an id that names the run,
  and the health monitor, which reads and writes gauges. Neither decides about a trade.
- The HTTP API around the commands (authentication, parsing, queries), the web
  portal, and the vault, credentials, backup and bootstrap: no protocol state.
- `matching.ts` and `recurring.ts` and the in-memory trade workflow and ledger, which the runtime
  does not call; `money.ts`, arithmetic on decimal strings.
- The stages QUALIFY and PRICE, which only read a decision that
  `DocumentEvidence` and `EconomicQuotes` make.
- Invoices, ledger postings and partial bank payments; the kinds of counterparty duty
  other than the delivery's, which differ in wording and addressee.
- What a text says: extraction of facts, rendering of papers, wording of messages. An
  intent, a verdict or a quote is an input.

`PROJECT.json` lists each part with its reason.

## 6. Plan

What is left, in this order:

1. Liveness of what a trade does after its contract (reconciliation, the recurring
   workflow) once `UnpaidResolution` and `UnconsumedCapacity` are repaired: today
   they would be refuted by what those runs already show.
2. More interfaces like `MovesItsStock`: that the rows `TradeSystem` receives are claimed and
   redriven as `RuntimeSupervisor` lets them be, and that a trade is protected on the
   terms that `Agreements` leaves it.
3. The scheduler's start of a workflow against the crash between the start and
   `next_run_at`, and the other duties of `counterparty_actions.ts`.
