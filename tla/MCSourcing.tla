------------------------------ MODULE MCSourcing ------------------------------
(***************************************************************************)
(* Small instances of the five components that bring in organisations,     *)
(* documents and mail and send mail out.  They share no row, so a behaviour *)
(* takes one of them, "focus", and leaves the others in their initial      *)
(* states, where none of their fair actions is enabled.                    *)
(***************************************************************************)
EXTENDS MailReception, Acquisition, OutboundMail, DocumentEvidence, MatchSweeps

CONSTANT Process    \* the processes of the workers and of the API

VARIABLE focus

Focus == {"MAIL", "ACQUISITION", "POST", "DOCUMENTS", "SWEEP"}
sourcingVars == <<focus, mailVars, acqVars, postVars, docVars, sweepVars>>

SourcingInit ==
    /\ focus \in Focus
    /\ MailInit /\ AcqInit /\ PostInit /\ DocInit /\ SweepInit
    /\ focus # "ACQUISITION" => role = "BUYER"
    /\ focus # "POST" => matter = "DUTY"

\* A bound beside those of the cfg: the last fault and the last document exclude
\* one another.
Dormant ==
    /\ UNCHANGED focus
    /\ focus # "MAIL" => UNCHANGED mailVars
    /\ focus # "ACQUISITION" => UNCHANGED acqVars
    /\ focus # "POST" => UNCHANGED postVars
    /\ focus # "DOCUMENTS" => UNCHANGED docVars
    /\ documents' < MaxDocuments \/ docFaults' < DocFaults
    /\ focus # "SWEEP" => UNCHANGED sweepVars

SourcingNext ==
    /\ \/ focus = "MAIL" /\ MailNext
       \/ focus = "ACQUISITION" /\ AcqNext
       \/ focus = "POST" /\ PostNext
       \/ focus = "DOCUMENTS" /\ DocNext
       \/ focus = "SWEEP" /\ SweepNext
    /\ Dormant

(***************************************************************************)
(* Fairness.  The loops of start-production-worker.mjs claim each row that *)
(* stays or comes back ready in the order of its creation or its deadline, *)
(* and a row that fails leaves that order when it is dead; the outreach    *)
(* alone claims waiting rows as well, and its "outranked" jobs are not     *)
(* claimable.  Pub/Sub and Temporal deliver a push and an event again.  A  *)
(* process that neither crashes nor fails finishes the step it is at, and  *)
(* the database's clock passes leases and redrive dates.  The focus never  *)
(* changes, so one condition serves all components.                        *)
(***************************************************************************)
JobQueue == <<"ENRICH", "KYB", "UNPROFILED", "PROFILED">>

Pick(i) ==
    /\ \E w \in Process :
         \/ focus = "MAIL"        /\ i \in Mail /\ OpenPush(w, i)
         \/ focus = "ACQUISITION" /\ Claim(w, JobQueue[i])
         \/ focus = "POST"        /\ ((i = 1 /\ ClaimNote(w)) \/ (i = 2 /\ ClaimEmail(w)))
         \/ focus = "DOCUMENTS"   /\ ((i = 1 /\ ClaimIntake(w)) \/ (i - 1 \in Document /\ ClaimCheck(w, i - 1)))
         \/ focus = "SWEEP"       /\ i - 1 <= LastLot /\ StartMatch(w, i - 1)
    /\ Dormant

Work(w) ==
    /\ \/ focus = "MAIL"        /\ HandlerStep(w)
       \/ focus = "ACQUISITION" /\ WorkOn(w)
       \/ focus = "POST"        /\ PostStep(w)
       \/ focus = "DOCUMENTS"   /\ DeskWork(w)
       \/ focus = "SWEEP"       /\ SweepStep(w)
    /\ Dormant

Tick(i) ==
    /\ \/ focus = "ACQUISITION" /\ JobTimer(JobQueue[i])
       \/ focus = "POST"        /\ ((i = 1 /\ NoteTimer) \/ (i = 2 /\ EmailTimer))
       \/ focus = "DOCUMENTS"   /\ ((i = 1 /\ IntakeTimer) \/ (i - 1 \in Document /\ CheckTimer(i - 1)))
       \/ focus = "SWEEP"       /\ i = 1 /\ ElapseSweep
    /\ Dormant

SourcingSpec ==
    /\ SourcingInit /\ [][SourcingNext]_sourcingVars
    /\ \A i \in 1..4 : SF_sourcingVars(Pick(i)) /\ WF_sourcingVars(Tick(i))
    /\ \A w \in Process : WF_sourcingVars(Work(w))

SourcingTypeOK == MailTypeOK /\ AcqTypeOK /\ PostTypeOK /\ DocTypeOK /\ SweepTypeOK
===============================================================================
