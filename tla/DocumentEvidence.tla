--------------------------- MODULE DocumentEvidence ---------------------------
(***************************************************************************)
(* The documents of one organisation and the two drafts it has posted:     *)
(* DocumentJobDispatcher takes them out of a mail, the verification        *)
(* dispatcher asks a provider, QualificationJobDispatcher promotes drafts  *)
(* (runtime/document_jobs.ts).  All required kinds arrive in one mail and  *)
(* are one document here.                                                  *)
(***************************************************************************)
EXTENDS JobLeases

CONSTANTS
    Clerk,          \* worker processes
    CheckType,      \* the check types of the provider's answers
    MaxDocuments,   \* bound: document rows; one mail may be taken out twice
    DocFaults       \* bound: crashes, errors, leases overrun

ASSUME DocAssumption == MaxDocuments \in Nat /\ DocFaults \in Nat

Document == 1..MaxDocuments
Draft    == 1..2    \* in the order the dispatcher's scan returns them

VARIABLES
    intake,         \* the document_processing_jobs row of the mail
    documents,      \* how many documents rows there are
    verifying,      \* verifying[d]: its document_verification_jobs row
    checks,         \* checks[d][k]: its row of document_checks of type k, under
                    \* the current policy; LAPSED is VERIFIED and past valid_until
    receipts,       \* receipts[d]: how many verification receipts it has
    verdict,        \* the organisation's latest risk decision
    drafts,         \* the DRAFT rows; no statement changes or removes one
    promoted,       \* promoted[x]: the check that draft x's VERIFIED version rests
                    \* on, by the digest in its decision's policy_version
    round,          \* drafts the running batch has still to evaluate
    desk,           \* desk[w]: the job worker w holds
    docFaults

docVars == <<intake, documents, verifying, checks, receipts, verdict,
             drafts, promoted, round, desk, docFaults>>
evidence == <<documents, verifying, checks, receipts>>
offers   == <<verdict, drafts, promoted, round>>

\* What is not VERIFIED, whether UNVERIFIED, EXPIRED or MISMATCH, is REJECTED.
Answers  == {"VERIFIED", "REJECTED"}
NoChecks == [k \in CheckType |-> "NONE"]
NoBasis  == [doc |-> 0, check |-> "NONE"]
Basis    == [doc : 0..MaxDocuments, check : CheckType \cup {"NONE"}]
NoDesk   == [doc |-> 0, table |-> "NONE"]

DocTypeOK ==
    /\ intake \in Row({"NONE", "PENDING", "PROCESSING", "DEAD", "COMPLETED", "REJECTED_SECURITY"})
    /\ documents \in 0..MaxDocuments
    /\ verifying \in [Document -> Row({"NONE", "PENDING", "PROCESSING", "DEAD", "UNAVAILABLE"} \cup Answers)]
    /\ checks \in [Document -> [CheckType -> {"NONE", "LAPSED"} \cup Answers]]
    /\ receipts \in [Document -> Nat]
    /\ verdict \in {"NONE", "PASS", "REJECT", "FREEZE"}
    /\ drafts \subseteq Draft /\ promoted \in [Draft -> Basis] /\ round \subseteq Draft
    /\ desk \in [Clerk -> [doc : 0..MaxDocuments, table : {"NONE", "intake", "verifying"}]]
    /\ docFaults \in 0..DocFaults

DocInit ==
    /\ intake = NewRow("NONE") /\ documents = 0
    /\ verifying = [d \in Document |-> NewRow("NONE")]
    /\ checks = [d \in Document |-> NoChecks] /\ receipts = [d \in Document |-> 0]
    /\ verdict = "NONE" /\ drafts = {} /\ promoted = [x \in Draft |-> NoBasis] /\ round = {}
    /\ desk = [w \in Clerk |-> NoDesk] /\ docFaults = 0

DocFault == docFaults < DocFaults /\ docFaults' = docFaults + 1

\* processGmailEvent: a mail with attachments and the draft it states.
MailDocument ==
    /\ intake.state = "NONE" /\ intake' = NewRow("PENDING") /\ drafts' = {1}
    /\ UNCHANGED <<evidence, verdict, promoted, round, desk, docFaults>>

\* A later mail with another draft; KYB decides on the organisation.
PostDraft ==
    /\ drafts = {1} /\ drafts' = Draft
    /\ UNCHANGED <<intake, evidence, verdict, promoted, round, desk, docFaults>>

DecideVerdict ==
    /\ drafts # {} /\ verdict = "NONE" /\ verdict' \in {"PASS", "REJECT", "FREEZE"}
    /\ UNCHANGED <<intake, evidence, drafts, promoted, round, desk, docFaults>>

Lapse(d, k) ==
    /\ checks[d][k] = "VERIFIED" /\ checks' = [checks EXCEPT ![d][k] = "LAPSED"]
    /\ UNCHANGED <<intake, documents, verifying, receipts, offers, desk, docFaults>>

RedriveIntake ==
    /\ intake.state = "DEAD" /\ intake' = Set(intake, "PENDING")
    /\ UNCHANGED <<evidence, offers, desk, docFaults>>

RedriveCheck(d) ==
    /\ verifying[d].state = "DEAD" /\ verifying' = [verifying EXCEPT ![d] = Set(@, "PENDING")]
    /\ UNCHANGED <<intake, documents, checks, receipts, offers, desk, docFaults>>

OnDesk(table, d) == \E w \in Clerk : desk[w].table = table /\ desk[w].doc = d

ElapseIntake ==
    /\ intake.state = "PROCESSING" /\ ~intake.old /\ intake' = Elapsed(intake)
    /\ IF OnDesk("intake", 0) THEN DocFault ELSE UNCHANGED docFaults
    /\ UNCHANGED <<evidence, offers, desk>>

ElapseCheck(d) ==
    /\ verifying[d].state = "PROCESSING" /\ ~verifying[d].old
    /\ verifying' = [verifying EXCEPT ![d] = Elapsed(@)]
    /\ IF OnDesk("verifying", d) THEN DocFault ELSE UNCHANGED docFaults
    /\ UNCHANGED <<intake, documents, checks, receipts, offers, desk>>

PutOn(w, d, table) == desk[w] = NoDesk /\ desk' = [desk EXCEPT ![w] = [doc |-> d, table |-> table]]
ClearDesk(w)       == desk' = [desk EXCEPT ![w] = NoDesk]

ClaimIntake(w) ==
    /\ Claimable(intake, {"PENDING"}) /\ intake' = Claimed(intake) /\ PutOn(w, 0, "intake")
    /\ UNCHANGED <<evidence, offers, docFaults>>

ClaimCheck(w, d) ==
    /\ Claimable(verifying[d], {"PENDING"})
    /\ verifying' = [verifying EXCEPT ![d] = Claimed(@)] /\ PutOn(w, d, "verifying")
    /\ UNCHANGED <<intake, documents, checks, receipts, offers, docFaults>>

\* One transaction: the document, its verification job and the end of this one.
\* A mail whose attachments are refused is rejected for good.
TakeOut(w) ==
    /\ desk[w].table = "intake" /\ ClearDesk(w)
    /\ \/ /\ documents < MaxDocuments /\ documents' = documents + 1
          /\ verifying' = [verifying EXCEPT ![documents'] = NewRow("PENDING")]
          /\ intake' = Finished(intake, "COMPLETED")
       \/ intake' = Finished(intake, "REJECTED_SECURITY") /\ UNCHANGED <<documents, verifying>>
    /\ UNCHANGED <<checks, receipts, offers, docFaults>>

\* Mutant: a check that is there takes the later answer.
KeptLast(old, new) == [k \in CheckType |-> IF new[k] = "NONE" THEN old[k] ELSE new[k]]

\* One row for each type of the answer; a row that is there stays as it is.
Kept(old, new) == [k \in CheckType |-> IF old[k] = "NONE" THEN new[k] ELSE old[k]]

\* The job is judged by this call alone: its checks may be VERIFIED in part.
Judged(answer) == IF \A k \in CheckType : answer[k] # "REJECTED" THEN "VERIFIED" ELSE "REJECTED"

\* The provider names the check types and judges each one; asked again, it may
\* name others and judge them otherwise.  Its answer is stored some time after
\* the claim, in one transaction, and nothing reads it before.  The receipt is
\* new unless the provider repeats its reference, which throws.
RecordCheck(w) ==
    /\ desk[w].table = "verifying" /\ ClearDesk(w)
    /\ LET d == desk[w].doc IN
         \/ \E answer \in [CheckType -> {"NONE"} \cup Answers] \ {NoChecks} :
              /\ receipts' = [receipts EXCEPT ![d] = @ + 1]
              /\ checks' = [checks EXCEPT ![d] = Kept(@, answer)]
              /\ verifying' = [verifying EXCEPT ![d] = Finished(@, Judged(answer))]
         \/ /\ receipts[d] > 0
            /\ verifying' = [verifying EXCEPT ![d] = Failed(@, "PENDING")]
            /\ UNCHANGED <<receipts, checks>>
    /\ UNCHANGED <<intake, documents, offers, docFaults>>

DeskError(w) ==
    /\ desk[w] # NoDesk /\ DocFault /\ ClearDesk(w)
    /\ IF desk[w].table = "intake"
         THEN intake' = Failed(intake, "PENDING") /\ UNCHANGED verifying
         ELSE /\ verifying' = [verifying EXCEPT ![desk[w].doc] = Failed(@, "PENDING")]
              /\ UNCHANGED intake
    /\ UNCHANGED <<documents, checks, receipts, offers>>

\* No verifier is approved for the document.
Unavailable(w) ==
    /\ desk[w].table = "verifying" /\ DocFault /\ ClearDesk(w)
    /\ verifying' = [verifying EXCEPT ![desk[w].doc] = Finished(@, "UNAVAILABLE")]
    /\ UNCHANGED <<intake, documents, checks, receipts, offers>>

CrashClerk(w) ==
    /\ desk[w] # NoDesk /\ DocFault /\ ClearDesk(w)
    /\ UNCHANGED <<intake, evidence, offers>>

\* Any check of any document of the organisation proves that is VERIFIED and
\* has not lapsed, whatever the other checks of the document say and whether or
\* not its job was REJECTED.
Proofs == {b \in [doc : 1..documents, check : CheckType] : checks[b.doc][b.check] = "VERIFIED"}

BeginRound ==
    /\ round = {} /\ drafts # {} /\ round' = drafts
    /\ UNCHANGED <<intake, evidence, verdict, drafts, promoted, desk, docFaults>>

\* The version that is there throws when it is inserted again, and the batch
\* ends with it.  now() is that of the transaction's begin for all its reads.
Evaluate ==
    \E x \in round :
        /\ \A y \in round : x <= y
        /\ IF ~(verdict = "PASS" /\ Proofs # {}) THEN round' = round \ {x} /\ UNCHANGED promoted
           ELSE IF promoted[x] # NoBasis THEN round' = {} /\ UNCHANGED promoted
           ELSE /\ round' = round \ {x}
                /\ \E b \in Proofs : promoted' = [promoted EXCEPT ![x] = b]
        /\ UNCHANGED <<intake, evidence, verdict, drafts, desk, docFaults>>

DeskWork(w) == TakeOut(w) \/ RecordCheck(w)

IntakeTimer   == RedriveIntake \/ ElapseIntake
CheckTimer(d) == RedriveCheck(d) \/ ElapseCheck(d)

DocNext ==
    \/ MailDocument \/ PostDraft \/ DecideVerdict \/ IntakeTimer
    \/ BeginRound \/ Evaluate
    \/ \E d \in Document : CheckTimer(d) \/ \E k \in CheckType : Lapse(d, k)
    \/ \E w \in Clerk :
         \/ DeskWork(w) \/ DeskError(w) \/ Unavailable(w) \/ CrashClerk(w) \/ ClaimIntake(w)
         \/ \E d \in Document : ClaimCheck(w, d)

DocSpec == DocInit /\ [][DocNext]_docVars
-------------------------------------------------------------------------------
\* The check that a promoted draft's decision names keeps the answer it had, and
\* its receipt: neither the later answer of a worker that outlived its lease,
\* nor a job judged REJECTED, nor a duplicate document overwrites it
\* (document_jobs.ts:224-275, 318-452).
PromotedRestsOnEvidence ==
    \A x \in Draft : promoted[x] # NoBasis =>
        LET d == promoted[x].doc  k == promoted[x].check IN
        /\ d \in 1..documents /\ k \in CheckType
        /\ receipts[d] > 0 /\ checks[d][k] \in {"VERIFIED", "LAPSED"}

\* A document that was mailed is judged: no crash, elapsed lease or dead letter
\* of either dispatcher loses it between the mail and the verdict
\* (document_jobs.ts:101-292).
DocumentsAreJudged ==
    []<>(intake.state \notin {"NONE", "REJECTED_SECURITY"} =>
            \E d \in Document : checks[d] # NoChecks \/ verifying[d].state = "UNAVAILABLE")
===============================================================================
