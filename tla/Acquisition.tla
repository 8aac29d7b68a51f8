------------------------------ MODULE Acquisition ------------------------------
(***************************************************************************)
(* The first contact with one discovered organisation: discovery, the      *)
(* enrichment and KYB jobs and its two outreach jobs (a buyer has one with *)
(* and one without an acquisition profile), taken by workers that may      *)
(* crash or outlive their leases.                                          *)
(***************************************************************************)
EXTENDS JobLeases, FiniteSets

CONSTANTS
    Mailer,         \* worker processes
    AcqFaults       \* bound: crashes, elapsed leases, provider errors, changes

ASSUME AcqAssumption == AcqFaults \in Nat /\ IsFiniteSet(Mailer)

Lane   == {"UNPROFILED", "PROFILED"}      \* the two outreach jobs
AcqJob == {"ENRICH", "KYB"} \cup Lane

VARIABLES
    role,           \* organizations.organization_type
    job,            \* job[j]: the row of the table
    contact,        \* a verified contact is known
    risk,           \* the latest risk decision and when its check began
    asked,          \* KYB calls begun: the clock of decided_at
    profile,        \* a current acquisition profile of a buyer
    stock,          \* verified inventory that fits the profile
    policy,         \* a current outreach policy covers the contact
    suppressed,     \* the contact is in global_suppressions
    outranked,      \* the outreach jobs whose place in the claim's order is taken
                    \* by twenty others that wait and come back at every claim
    written,        \* the outreach jobs whose e-mail is in outbound_email_jobs
    hand,           \* hand[w]: the job worker w has, how far, and what it read
    acqFaults

acqVars == <<role, job, contact, risk, asked, profile, stock, policy, suppressed,
             outranked, written, hand, acqFaults>>
facts   == <<contact, risk, asked, profile, stock, policy, suppressed>>

Waiting == {"WAITING_CONTACT", "WAITING_RISK", "WAITING_PROFILE", "WAITING_INVENTORY"}
Done(j) == CASE j = "ENRICH" -> {"COMPLETED", "UNAVAILABLE"}
             [] j = "KYB"    -> {"COMPLETED", "REJECTED", "UNAVAILABLE"}
             [] j \in Lane   -> {"COMPLETED", "SUPPRESSED"}
\* Mutant: a job that waits is claimed only when it is woken.
ReadyAwake(j) == IF j \in Lane THEN {"READY"} ELSE {"PENDING"}

Ready(j) == IF j \in Lane THEN Waiting \cup {"READY"} ELSE {"PENDING"}
Back(j)  == IF j \in Lane THEN "READY" ELSE "PENDING"
JobState(j) == {"NONE", "PROCESSING", "DEAD"} \cup Ready(j) \cup Done(j)

Nothing == [job |-> "NONE", step |-> "NONE", saw |-> "NONE", at |-> 0]
Hand == [job : AcqJob \cup {"NONE"}, step : {"NONE", "BEGUN", "ASKED", "CHECKED"},
         saw : {"NONE", "OK", "ERROR", "SUPPRESSED"} \cup Waiting, at : 0..AcqFaults + 2]
Decision == [state : {"NONE", "PASS", "REJECT", "FREEZE"}, at : 0..AcqFaults + 2]

AcqTypeOK ==
    /\ role \in {"SUPPLIER", "BUYER"}
    /\ DOMAIN job = AcqJob /\ \A j \in AcqJob : job[j] \in Row(JobState(j))
    /\ risk \in Decision /\ asked \in 0..AcqFaults + 2
    /\ {contact, profile, stock, policy, suppressed} \subseteq BOOLEAN
    /\ written \subseteq Lane /\ outranked \subseteq Lane
    /\ hand \in [Mailer -> Hand] /\ acqFaults \in 0..AcqFaults

AcqInit ==
    /\ role \in {"SUPPLIER", "BUYER"}
    /\ job = [j \in AcqJob |-> NewRow("NONE")]
    /\ contact = FALSE /\ risk = [state |-> "NONE", at |-> 0] /\ asked = 0
    /\ profile = FALSE /\ stock = FALSE /\ policy = TRUE /\ suppressed = FALSE
    /\ written = {} /\ outranked = {} /\ acqFaults = 0
    /\ hand = [w \in Mailer |-> Nothing]

AcqFault == acqFaults < AcqFaults /\ acqFaults' = acqFaults + 1

New(row, s) == IF row.state = "NONE" THEN NewRow(s) ELSE row

\* persistCandidate and enqueueKyb.
Discover ==
    /\ job["ENRICH"].state = "NONE" \/ job["KYB"].state = "NONE"
    /\ job' = [job EXCEPT !["ENRICH"] = New(@, "PENDING"), !["KYB"] = New(@, "PENDING")]
    /\ UNCHANGED <<role, outranked, facts, written, hand, acqFaults>>

\* persistBuyerProfile: an unprofiled job that waits for the profile becomes
\* the profiled one; if both exist, that is a key conflict and nothing is stored.
DiscoverProfile ==
    /\ role = "BUYER" /\ job["KYB"].state # "NONE"
    /\ LET adopts == job["UNPROFILED"].state = "WAITING_PROFILE" IN
         /\ ~(adopts /\ job["PROFILED"].state # "NONE")
         /\ profile' = TRUE
         /\ job' = IF adopts
                   THEN [job EXCEPT !["PROFILED"] = Set(job["UNPROFILED"], "READY"), !["UNPROFILED"] = NewRow("NONE")]
                   ELSE [job EXCEPT !["PROFILED"] = New(@, "READY")]
         /\ hand' = [w \in Mailer |-> IF adopts /\ hand[w].job = "UNPROFILED"
                                      THEN [hand[w] EXCEPT !.job = "PROFILED"] ELSE hand[w]]
    /\ <<job', profile'>> # <<job, profile>>
    /\ UNCHANGED <<role, outranked, contact, risk, asked, stock, policy, suppressed, written, acqFaults>>

\* QualificationJobDispatcher promotes an offer that the profile asks for.
StockArrives ==
    /\ ~stock /\ stock' = TRUE
    /\ job' = [j \in AcqJob |-> IF profile /\ job[j].state = "WAITING_INVENTORY"
                                THEN Set(job[j], "READY") ELSE job[j]]
    /\ UNCHANGED <<role, outranked, contact, risk, asked, profile, policy, suppressed, written, hand, acqFaults>>

\* The counterparty unsubscribes, or the policy's approval lapses or returns.
Suppress ==
    /\ contact /\ ~suppressed /\ suppressed' = TRUE /\ AcqFault
    /\ UNCHANGED <<role, outranked, job, contact, risk, asked, profile, stock, policy, written, hand>>

PolicyChanges ==
    /\ IF policy THEN AcqFault ELSE UNCHANGED acqFaults
    /\ policy' = ~policy
    /\ UNCHANGED <<role, outranked, job, contact, risk, asked, profile, stock, suppressed, written, hand>>

\* The outreach claims the first twenty rows by priority_score, then age, and a
\* row that waits keeps both: twenty of them leave no room for one behind them,
\* until one of them ends or the scores change.
RankChanges(lane) ==
    /\ IF lane \in outranked THEN outranked' = outranked \ {lane} /\ UNCHANGED acqFaults
                             ELSE outranked' = outranked \cup {lane} /\ AcqFault
    /\ UNCHANGED <<role, job, facts, written, hand>>

Redrive(j) ==
    /\ job[j].state = "DEAD"
    /\ job' = [job EXCEPT ![j] = Set(@, Back(j))]
    /\ UNCHANGED <<role, outranked, facts, written, hand, acqFaults>>

Elapse(j) ==
    /\ job[j].state = "PROCESSING" /\ ~job[j].old
    /\ job' = [job EXCEPT ![j] = Elapsed(@)]
    /\ IF \E w \in Mailer : hand[w].job = j
         THEN AcqFault ELSE UNCHANGED acqFaults
    /\ UNCHANGED <<role, outranked, facts, written, hand>>

Claim(w, j) ==
    /\ hand[w] = Nothing /\ Claimable(job[j], Ready(j)) /\ j \notin outranked
    /\ job' = [job EXCEPT ![j] = Claimed(@)]
    /\ hand' = [hand EXCEPT ![w] = [Nothing EXCEPT !.job = j, !.step = "BEGUN"]]
    /\ UNCHANGED <<role, outranked, facts, written, acqFaults>>

At(w, j, step) == hand[w].job = j /\ hand[w].step = step
Step(w, step, saw) == hand' = [hand EXCEPT ![w].step = step, ![w].saw = saw]
Free(w) == hand' = [hand EXCEPT ![w] = Nothing]

\* An ordinary error, or a capability that is unavailable for good.
GiveUp(w, j) ==
    /\ hand[w].job = j /\ hand[w].step \in {"BEGUN", "ASKED"} /\ AcqFault
    /\ \E end \in {"ERROR"} \cup (Done(j) \cap {"UNAVAILABLE"}) :
         job' = [job EXCEPT ![j] = IF end = "ERROR" THEN Failed(@, Back(j)) ELSE Finished(@, end)]
    /\ Free(w) /\ UNCHANGED <<role, outranked, facts, written>>

\* The contacts found, the job's end and the unprofiled outreach job commit
\* together.
Enrich(w) ==
    /\ At(w, "ENRICH", "BEGUN")
    /\ \E verified \in BOOLEAN :
         /\ contact' = (contact \/ verified)
         /\ job' = [job EXCEPT !["ENRICH"] = Finished(@, "COMPLETED"),
                               !["UNPROFILED"] = IF verified THEN New(@, "READY") ELSE @]
    /\ Free(w)
    /\ UNCHANGED <<role, outranked, risk, asked, profile, stock, policy, suppressed, written, acqFaults>>

AskKyb(w) ==
    /\ At(w, "KYB", "BEGUN") /\ asked' = asked + 1
    /\ hand' = [hand EXCEPT ![w].step = "ASKED", ![w].at = asked']
    /\ UNCHANGED <<role, outranked, job, contact, risk, profile, stock, policy, suppressed, written, acqFaults>>

AfterRisk(row, s) ==
    IF row.state # "WAITING_RISK" THEN row
    ELSE Set(row, CASE s = "PASS" -> "READY" [] s = "REJECT" -> "SUPPRESSED" [] OTHER -> "WAITING_RISK")

DecideRisk(w) ==
    /\ At(w, "KYB", "ASKED")
    /\ \E s \in {"PASS", "REJECT", "FREEZE"} :
         /\ risk' = IF hand[w].at > risk.at THEN [state |-> s, at |-> hand[w].at] ELSE risk
         /\ job' = [j \in AcqJob |-> IF j \in Lane THEN AfterRisk(job[j], s)
                      ELSE IF j = "KYB" THEN Finished(job[j], IF s = "PASS" THEN "COMPLETED" ELSE "REJECTED")
                      ELSE job[j]]
    /\ Free(w)
    /\ UNCHANGED <<role, outranked, contact, asked, profile, stock, policy, suppressed, written, acqFaults>>

\* What the outreach finds, in the order of its checks.
Gate ==
    IF ~contact \/ suppressed THEN "WAITING_CONTACT"
    ELSE IF risk.state \notin {"PASS", "REJECT"} THEN "WAITING_RISK"
    ELSE IF risk.state = "REJECT" THEN "SUPPRESSED"
    ELSE IF ~policy THEN "ERROR"
    ELSE IF role = "SUPPLIER" \/ (profile /\ stock) THEN "OK"
    ELSE IF profile THEN "WAITING_INVENTORY" ELSE "WAITING_PROFILE"

CheckOutreach(w) ==
    /\ hand[w].job \in Lane /\ hand[w].step = "BEGUN" /\ Step(w, "CHECKED", Gate)
    /\ UNCHANGED <<role, outranked, job, facts, written, acqFaults>>

\* The communication's event id is unique: a second e-mail of the job throws.
WriteMail(w, lane) ==
    /\ At(w, lane, "CHECKED") /\ hand[w].saw = "OK"
    /\ written' = written \cup {lane}
    /\ job' = [job EXCEPT ![lane] = IF lane \in written THEN Failed(@, "READY")
                                    ELSE Finished(@, "COMPLETED")]
    /\ Free(w) /\ UNCHANGED <<role, outranked, facts, acqFaults>>

PutBack(w, lane) ==
    /\ At(w, lane, "CHECKED") /\ hand[w].saw # "OK"
    /\ job' = [job EXCEPT ![lane] =
                 IF hand[w].saw = "ERROR" THEN Failed(@, "READY") ELSE Finished(@, hand[w].saw)]
    /\ Free(w) /\ UNCHANGED <<role, outranked, facts, written, acqFaults>>

CrashMailer(w) ==
    /\ hand[w] # Nothing /\ Free(w) /\ AcqFault
    /\ UNCHANGED <<role, outranked, job, facts, written>>

WorkOn(w) ==
    \/ Enrich(w) \/ AskKyb(w) \/ DecideRisk(w) \/ CheckOutreach(w)
    \/ \E lane \in Lane : WriteMail(w, lane) \/ PutBack(w, lane)

JobTimer(j) == Redrive(j) \/ Elapse(j)

AcqNext ==
    \/ Discover \/ DiscoverProfile \/ StockArrives \/ Suppress \/ PolicyChanges
    \/ \E j \in AcqJob : JobTimer(j)
    \/ \E lane \in Lane : RankChanges(lane)
    \/ \E w \in Mailer : WorkOn(w) \/ CrashMailer(w) \/ \E j \in AcqJob : Claim(w, j) \/ GiveUp(w, j)

AcqSpec == AcqInit /\ [][AcqNext]_acqVars
-------------------------------------------------------------------------------
\* A job that has ended is never worked on again, however late its workers are.
EndedJobsStay == [][\A j \in AcqJob : job[j].state \in Done(j) => job'[j] = job[j]]_acqVars

\* A cleared organisation is written to: no order of discovery, enrichment,
\* risk decision, stock and claims loses the wake-up of an outreach job that the
\* claim's order comes to, unless a rejection came first
\* (acquisition_outreach.ts:26-60, kyb_jobs.ts:203).
ClearedIsWritten ==
    []<>(Gate = "OK" /\ (\E lane \in Lane \ outranked : job[lane].state \notin {"NONE", "SUPPRESSED"})
            => written # {})
===============================================================================
