------------------------------ MODULE Agreements ------------------------------
(***************************************************************************)
(* The papers of an agreed match: AgreementAutomationDispatcher renders     *)
(* them from the template edition in force, the parties sign and consent to *)
(* the match, and ProtectedRelationshipWorkflow turns two consents into a   *)
(* protected relationship and its trade, which needs papers of its own.     *)
(* An agreement ends with the edition it was rendered from.                 *)
(***************************************************************************)
EXTENDS Negotiations, Sequences

CONSTANTS
    Registrar,      \* processes that run the dispatcher
    LastEdition,    \* bound: editions of the templates; none at first
    PaperFaults     \* bound: failures, crashes, new editions, lost grounds

ASSUME PaperAssumption == LastEdition \in Nat /\ PaperFaults \in Nat

Side == {"SUPPLIER", "BUYER"}
\* "MASTER" and "NOTICE" are called differently for the two sides.
MatchPapers == <<<<"MASTER", "SUPPLIER">>, <<"MASTER", "BUYER">>,
                 <<"NOTICE", "SUPPLIER">>, <<"NOTICE", "BUYER">>>>
TradePapers == <<<<"CONFIRMATION", "SUPPLIER">>, <<"CONFIRMATION", "BUYER">>,
                 <<"INSTRUCTIONS", "SUPPLIER">>, <<"INSTRUCTIONS", "BUYER">>>>
Papers == MatchPapers \o TradePapers
Paper  == {Papers[i] : i \in 1..8}
ForMatch == {MatchPapers[i] : i \in 1..4}

VARIABLES
    edition,        \* the edition in force of the templates
    rendered,       \* rendered[p]: the last edition bound to p by a dispatcher
    exact,          \* exact[p]: the edition under which the operator bound p
    signed,         \* signed[p]: the last edition that the party signed
    registrar,      \* registrar[d]: the paper it is at and the edition it renders
    crowded,        \* lists whose first rows are all older business, for good
    consent,        \* consent[s]: the transaction of acceptProtectedMatch
    announced,      \* PROTECTED_ACCEPTANCES_COMPLETE is in the outbox
    related,        \* the protected relationship exists
    tradeState,     \* the trade made from the match
    protecting,     \* ProtectedRelationshipWorkflow
    grounds,        \* facts in force: protection policy, verified jurisdictions
    paperFaults

paperRows   == <<rendered, exact, signed>>
consentRows == <<consent, announced>>
tradeFacts  == <<related, tradeState, protecting>>
papersOnly  == <<edition, paperRows, registrar, crowded, consentRows, tradeFacts, grounds, paperFaults>>
paperVars   == <<dealVars, edition, paperRows, registrar, crowded, consentRows, tradeFacts, grounds, paperFaults>>

Idle == [at |-> 0, edition |-> 0]

PaperTypeOK ==
    /\ edition \in 0..LastEdition
    /\ {rendered, exact} \subseteq [Paper -> 0..LastEdition] /\ signed \in [ForMatch -> 0..LastEdition]
    /\ registrar \in [Registrar -> [at : 0..8, edition : 0..LastEdition]]
    /\ crowded \subseteq {"MATCHES", "TRADES"}
    /\ consent \in [Side -> {"NONE", "WRITTEN", "WRITTEN_LAST", "GIVEN"}]
    /\ {announced, related} \subseteq BOOLEAN
    /\ tradeState \in {"NONE", "PROTECTED", "IDENTITY_RELEASED"}
    /\ protecting \in {"NONE", "UNKNOWN", "ACCEPTED"}
    /\ grounds \subseteq {"POLICY", "JURISDICTIONS"} /\ paperFaults \in 0..PaperFaults

PaperInit ==
    /\ edition = 0 /\ rendered = [p \in Paper |-> 0]
    /\ exact = rendered /\ signed = [p \in ForMatch |-> 0]
    /\ registrar = [d \in Registrar |-> Idle] /\ crowded = {}
    /\ consent = [s \in Side |-> "NONE"] /\ announced = FALSE
    /\ related = FALSE /\ tradeState = "NONE" /\ protecting = "NONE"
    /\ grounds = {"POLICY", "JURISDICTIONS"} /\ paperFaults = 0

PaperFault == paperFaults < PaperFaults /\ paperFaults' = paperFaults + 1

InForce(p) == edition # 0 /\ (rendered[p] = edition \/ exact[p] = edition)

\* AgreementTemplateRegistry.register, for all kinds at once.
RegisterTemplates ==
    /\ edition < LastEdition /\ edition' = edition + 1
    /\ IF edition = 0 THEN UNCHANGED paperFaults ELSE PaperFault
    /\ UNCHANGED <<dealVars, paperRows, registrar, crowded, consentRows, tradeFacts, grounds>>

\* Who may be bound: the organisations of a compatible match, and of the trade.
Owned(p) ==
    CASE p[1] = "MASTER" -> TRUE
      [] p[1] = "NOTICE" -> compatible
      [] OTHER           -> tradeState # "NONE"

\* AgreementRegistry.register: the operator binds a body that counsel approved
\* for this very paper.
RegisterExact(p) ==
    /\ edition # 0 /\ exact[p] # edition /\ Owned(p) /\ PaperFault
    /\ exact' = [exact EXCEPT ![p] = edition]
    /\ UNCHANGED <<dealVars, edition, rendered, signed, registrar, crowded, consentRows, tradeFacts, grounds>>

MatchDue == snapshot # NoSnapshot /\ compatible /\ "MATCHES" \notin crowded
TradeDue == tradeState = "IDENTITY_RELEASED" /\ "TRADES" \notin crowded

\* The newest matches by price date and the oldest trades by update, without
\* asking whether their papers are complete.
Crowd(list) ==
    /\ list \notin crowded /\ PaperFault /\ crowded' = crowded \cup {list}
    /\ UNCHANGED <<dealVars, edition, paperRows, registrar, consentRows, tradeFacts, grounds>>

\* Mutant: the iteration does not stop at the last paper.
AfterTooFar(at) == IF at < 4 \/ at > 4 THEN at + 1 ELSE IF TradeDue THEN 5 ELSE 0

After(at) == IF at < 4 \/ (at > 4 /\ at < 8) THEN at + 1
             ELSE IF at = 4 /\ TradeDue THEN 5 ELSE 0
Advance(d) == registrar' = [registrar EXCEPT ![d] = [at |-> After(@.at), edition |-> 0]]
Abandon(d) == registrar' = [registrar EXCEPT ![d] = Idle]

StartBatch(d) ==
    /\ registrar[d] = Idle /\ (MatchDue \/ TradeDue)
    /\ \E p \in Paper : ~InForce(p)
    /\ registrar' = [registrar EXCEPT ![d].at = IF MatchDue THEN 1 ELSE 5]
    /\ UNCHANGED <<dealVars, edition, paperRows, crowded, consentRows, tradeFacts, grounds, paperFaults>>

\* Mutant: a binding counts although its agreement has expired.
LookAtOnce(d) ==
    LET p == Papers[registrar[d].at] IN
    /\ registrar[d].at # 0 /\ registrar[d].edition = 0
    /\ IF rendered[p] # 0 \/ exact[p] # 0 \/ edition = 0 THEN Advance(d)
       ELSE registrar' = [registrar EXCEPT ![d].edition = edition]
    /\ UNCHANGED <<dealVars, edition, paperRows, crowded, consentRows, tradeFacts, grounds, paperFaults>>

\* ensure: nothing to do, or the template in force is read and rendered.
LookAt(d) ==
    /\ registrar[d].at # 0 /\ registrar[d].edition = 0
    /\ IF InForce(Papers[registrar[d].at]) \/ edition = 0 THEN Advance(d)
       ELSE registrar' = [registrar EXCEPT ![d].edition = edition]
    /\ UNCHANGED <<dealVars, edition, paperRows, crowded, consentRows, tradeFacts, grounds, paperFaults>>

\* registerRendered.  A template that ended meanwhile, an owner that is one no
\* more and a binding of the same edition throw, and with it the whole batch.
RegisterRendered(d) ==
    LET p == Papers[registrar[d].at]  e == registrar[d].edition IN
    /\ e # 0
    /\ IF e = edition /\ Owned(p) /\ rendered[p] # e
       THEN rendered' = [rendered EXCEPT ![p] = e] /\ Advance(d)
       ELSE Abandon(d) /\ UNCHANGED rendered
    /\ UNCHANGED <<dealVars, edition, exact, signed, crowded, consentRows, tradeFacts, grounds, paperFaults>>

BatchFails(d) ==
    /\ registrar[d] # Idle /\ PaperFault /\ Abandon(d)
    /\ UNCHANGED <<dealVars, edition, paperRows, crowded, consentRows, tradeFacts, grounds>>

\* acceptAgreement; a repetition with another challenge changes nothing here.
\* The acceptances of the trade's papers are TradeCommands'.
Sign(p) ==
    /\ InForce(p) /\ signed[p] # edition /\ signed' = [signed EXCEPT ![p] = edition]
    /\ UNCHANGED <<dealVars, edition, rendered, exact, registrar, crowded, consentRows, tradeFacts, grounds, paperFaults>>

\* Mutant: the notice of the match is enough.
SignedNotice(s) == edition # 0 /\ signed[<<"NOTICE", s>>] = edition

SignedForMatch(s) ==
    edition # 0 /\ \A doc \in {"NOTICE", "MASTER"} : signed[<<doc, s>>] = edition

\* acceptProtectedMatch inserts the consent and counts those it can see: its
\* own and the committed one.
WriteConsent(s) ==
    /\ consent[s] = "NONE" /\ compatible /\ SignedForMatch(s)
    /\ consent' = [consent EXCEPT ![s] =
         IF \E other \in Side \ {s} : consent[other] = "GIVEN" THEN "WRITTEN_LAST" ELSE "WRITTEN"]
    /\ UNCHANGED <<dealVars, edition, paperRows, registrar, crowded, announced, tradeFacts, grounds, paperFaults>>

CommitConsent(s) ==
    /\ consent[s] \in {"WRITTEN", "WRITTEN_LAST"}
    /\ announced' = (announced \/ consent[s] = "WRITTEN_LAST")
    /\ consent' = [consent EXCEPT ![s] = "GIVEN"]
    /\ UNCHANGED <<dealVars, edition, paperRows, registrar, crowded, tradeFacts, grounds, paperFaults>>

RollbackConsent(s) ==
    /\ consent[s] \in {"WRITTEN", "WRITTEN_LAST"} /\ PaperFault
    /\ consent' = [consent EXCEPT ![s] = "NONE"]
    /\ UNCHANGED <<dealVars, edition, paperRows, registrar, crowded, announced, tradeFacts, grounds>>

MayRelate ==
    /\ compatible /\ snapshot # NoSnapshot /\ "POLICY" \in grounds
    /\ \A s \in Side : consent[s] = "GIVEN"

\* protectMatch, once: an answer UNKNOWN ends the workflow too, and may leave a
\* relationship without a trade.
Protect ==
    /\ announced /\ protecting = "NONE"
    /\ related' = (related \/ MayRelate)
    /\ LET trades == related' /\ "JURISDICTIONS" \in grounds IN
         /\ tradeState' = IF trades THEN "PROTECTED" ELSE "NONE"
         /\ protecting' = IF trades THEN "ACCEPTED" ELSE "UNKNOWN"
    /\ UNCHANGED <<dealVars, edition, paperRows, registrar, crowded, consentRows, grounds, paperFaults>>

\* SettlementWorkflow, which TradeSystem models.
ReleaseIdentity ==
    /\ tradeState = "PROTECTED" /\ tradeState' = "IDENTITY_RELEASED"
    /\ UNCHANGED <<dealVars, edition, paperRows, registrar, crowded, consentRows, related, protecting, grounds, paperFaults>>

LoseGround(g) ==
    /\ g \in grounds /\ PaperFault /\ grounds' = grounds \ {g}
    /\ UNCHANGED <<dealVars, edition, paperRows, registrar, crowded, consentRows, tradeFacts>>

\* An evaluation that began before the deal may still end it.
LateEvaluation(w) ==
    /\ Evaluate(w)
    /\ UNCHANGED <<lapsed, snapshot, edition, paperRows, registrar, crowded, consentRows, tradeFacts, grounds, paperFaults>>

RegistrarStep(d) == LookAt(d) \/ RegisterRendered(d)

PaperNext ==
    \/ RegisterTemplates \/ Protect \/ ReleaseIdentity
    \/ (\E p \in ForMatch : Sign(p)) \/ \E p \in Paper : RegisterExact(p)
    \/ \E list \in {"MATCHES", "TRADES"} : Crowd(list)
    \/ \E g \in grounds : LoseGround(g)
    \/ \E w \in Quoter : LateEvaluation(w)
    \/ \E s \in Side : WriteConsent(s) \/ CommitConsent(s) \/ RollbackConsent(s)
    \/ \E d \in Registrar : StartBatch(d) \/ RegistrarStep(d) \/ BatchFails(d)

PaperSpec ==
    /\ QuoteInit /\ DealInit /\ PaperInit
    /\ [][PaperNext \/ (DealNext /\ UNCHANGED papersOnly)]_paperVars
-----------------------------------------------------------------------------
\* No trade without a relationship, and no relationship before the price was
\* accepted and each side signed its master and notice and consented, whatever
\* editions, dispatchers and consents cross (commands.ts:93-199,
\* stage_handlers.ts:706-790).
ProtectedRestsOnSignatures ==
    /\ tradeState # "NONE" => related
    /\ related =>
         /\ snapshot # NoSnapshot
         /\ \A s \in Side : /\ consent[s] = "GIVEN"
                            /\ signed[<<"MASTER", s>>] # 0 /\ signed[<<"NOTICE", s>>] # 0

\* The papers of a match and of a trade that the dispatcher still selects are
\* all there in the edition in force, however often dispatchers race for the
\* same binding, fail, or find the edition changed (agreement_automation.ts:105).
PapersArrive ==
    []<>(edition # 0 =>
           /\ MatchDue => \A i \in 1..4 : InForce(Papers[i])
           /\ TradeDue => \A i \in 5..8 : InForce(Papers[i]))
===============================================================================
