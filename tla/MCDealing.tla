------------------------------- MODULE MCDealing -------------------------------
(***************************************************************************)
(* Small instances of what lies between a match and its settlement: the     *)
(* quotes and the negotiation of one match, its papers, the accounts of its *)
(* instruction, and the renewals of a standing demand.  A behaviour takes   *)
(* one of them, "focus"; the others stay in a state where none of their     *)
(* fair actions is enabled.                                                 *)
(***************************************************************************)
EXTENDS Agreements, ProviderParties, StandingMandates

CONSTANT Process    \* the processes of the workers

MCRail == <<"CASHFREE_EASY_SPLIT", "INDIAN_BANK_ESCROW">>

VARIABLE focus

dealingVars == <<focus, paperVars, partyVars, mandateVars>>

\* An agreed match exists: there is a cost, the last day suffices to book them
\* all, and its papers have an edition.
ASSUME AgreedAssumption ==
    /\ Kind # {} /\ LastEdition # 0
    /\ \E b \in [Kind -> 1..LastDay] :
         \A day \in 1..LastDay : Cardinality({k \in Kind : b[k] = day}) <= DailyQuotes

\* What the quotes and the negotiation leave when the buyer has accepted, which
\* throws at a price that leaves no commission: a second worker may still be
\* about to evaluate.
Agreed ==
    /\ quoteJob = [k \in Kind |-> [state |-> "COMPLETED", attempts |-> 1, old |-> FALSE]]
    /\ cost = [k \in Kind |-> "FIRM"] /\ today = LastDay
    /\ billed = CHOOSE b \in [Kind -> 1..LastDay] :
                  \A day \in 1..LastDay : Cardinality({k \in Kind : b[k] = day}) <= DailyQuotes
    /\ account = "NONE" /\ lacking \in {{}, {"ROUTE"}} /\ ceiling \in Ceilings /\ Executable
    /\ LET late == [kind |-> CHOOSE k \in Kind : TRUE, step |-> "STORED", day |-> 0]
           w == CHOOSE q \in Quoter : TRUE
       IN quoter = [q \in Quoter |-> IF q = w /\ lacking # {} THEN late ELSE Nobody]
    /\ compatible = TRUE /\ floor = "KNOWN"
    /\ deal = [status |-> "ACCEPTED", quote |-> Price] /\ Price > FloorAmount
    /\ snapshot = Waterfall(Price)
    /\ outranked = FALSE /\ unevaluated = FALSE /\ quoteFaults = 0 /\ lapsed = FALSE

\* What the consents of one edition lead to.
Released ==
    /\ edition = 1 /\ crowded = {} /\ announced = TRUE /\ related = TRUE /\ paperFaults = 0
    /\ rendered = [p \in Paper |-> IF p \in ForMatch THEN 1 ELSE 0]
    /\ exact = [p \in Paper |-> 0] /\ signed = [p \in ForMatch |-> 1]
    /\ registrar = [d \in Registrar |-> Idle] /\ consent = [s \in Side |-> "GIVEN"]
    /\ tradeState = "IDENTITY_RELEASED" /\ protecting = "ACCEPTED"
    /\ grounds = {"POLICY", "JURISDICTIONS"}

DealingInit ==
    /\ focus \in {"QUOTES", "CONSENTS", "PAPERS", "PARTIES", "RENEWALS"}
    /\ IF focus \in {"CONSENTS", "PAPERS"} THEN Agreed ELSE QuoteInit /\ DealInit
    /\ focus = "QUOTES" => Cardinality(lacking) <= 1
    /\ focus \in {"PARTIES", "RENEWALS"} => lacking = {} /\ ceiling = 0
    /\ PaperInit \/ (focus = "PAPERS" /\ Released)
    /\ PartyInit /\ MandateInit

\* The parties sign and consent while one dispatcher runs, or two dispatchers
\* run and nobody signs.
Dispatcher == CHOOSE d \in Registrar : TRUE

Dormant ==
    /\ UNCHANGED focus
    /\ focus # "QUOTES" => UNCHANGED <<quoteJob, cost, billed, market, account, quoteFaults, lapsed, snapshot>>
    /\ focus \notin {"CONSENTS", "PAPERS"} => UNCHANGED papersOnly
    /\ focus = "PAPERS" => UNCHANGED <<signed, consent>>
    /\ focus = "CONSENTS" => \A d \in Registrar \ {Dispatcher} : registrar'[d] = Idle
    /\ focus # "PARTIES" => UNCHANGED partyVars
    /\ focus # "RENEWALS" => UNCHANGED mandateVars

DealingNext ==
    /\ \/ focus = "QUOTES" /\ DealNext
       \/ focus \in {"CONSENTS", "PAPERS"} /\ PaperNext
       \/ focus = "PARTIES" /\ UNCHANGED paperVars /\ PartyNext
       \/ focus = "RENEWALS" /\ UNCHANGED <<paperVars, partyVars>> /\ MandateNext
    /\ Dormant

(***************************************************************************)
(* Fairness.  The worker's loops run the evaluation and the agreement       *)
(* dispatcher again and again, each on the first rows of its list: on those *)
(* that are "outranked" or "crowded" nothing is fair.  A process that       *)
(* neither crashes nor fails finishes its step.  What the operators, the    *)
(* parties and the providers do is not fair, and neither is the claim of a  *)
(* job: no property needs it.                                               *)
(***************************************************************************)
Dispatch(w) ==
    /\ focus \in {"CONSENTS", "PAPERS"} /\ StartBatch(w)
    /\ Dormant

Work(w) ==
    /\ \/ focus = "QUOTES" /\ UNCHANGED <<lapsed, snapshot>> /\ QuoterStep(w)
       \/ focus \in {"CONSENTS", "PAPERS"} /\ RegistrarStep(w)
       \/ focus = "PARTIES" /\ UNCHANGED paperVars /\ (CallerStep(w) \/ PromoterStep(w))
    /\ Dormant

Evaluation ==
    /\ focus = "QUOTES" /\ UNCHANGED <<lapsed, snapshot>> /\ Reevaluate
    /\ Dormant

DealingSpec ==
    /\ DealingInit /\ [][DealingNext]_dealingVars
    /\ WF_dealingVars(Evaluation)
    /\ \A w \in Process : WF_dealingVars(Dispatch(w)) /\ WF_dealingVars(Work(w))

DealingTypeOK == QuoteTypeOK /\ DealTypeOK /\ PaperTypeOK /\ PartyTypeOK /\ MandateTypeOK
===============================================================================
