--------------------------- MODULE LeasedJobs_proofs ---------------------------
(***************************************************************************)
(* What a lease without a token leaves true: the inductive invariants of   *)
(* the three components that claim rows of JobLeases and prove something    *)
(* about who may still hold them.                                           *)
(***************************************************************************)
EXTENDS Acquisition, OutboundMail, DocumentEvidence, JobLeases_proofs, FiniteSetTheorems

\* Nobody works on the row, or its next worker may begin beside the present one.
Unheld(row, held) ==
    \/ row.state \in {"NONE", "PENDING", "DEAD"}
    \/ row.state = "PROCESSING" /\ (row.old \/ held = {})

-------------------------------------------------------------------------------
(* The first contact.                                                      *)

LEMMA JobStates ==
    ASSUME NEW j \in AcqJob
    PROVE  /\ {"NONE", "PROCESSING", "DEAD"} \subseteq JobState(j)
           /\ Ready(j) \subseteq JobState(j) /\ Done(j) \subseteq JobState(j)
           /\ Back(j) \in Ready(j)
           /\ Done(j) \cap (Ready(j) \cup {"NONE", "PROCESSING", "DEAD"}) = {}
           /\ j \in Lane => Waiting \cup {"READY", "COMPLETED", "SUPPRESSED"} \subseteq JobState(j)
           /\ j \notin Lane => "PENDING" \in Ready(j) /\ "COMPLETED" \in Done(j)
           /\ j = "KYB" => Done(j) = {"COMPLETED", "REJECTED", "UNAVAILABLE"} /\ Ready(j) = {"PENDING"}
BY DEF AcqJob, Lane, JobState, Ready, Done, Back, Waiting

KybHands   == {w \in Mailer : hand[w].job = "KYB"}
KybFresh   == {w \in KybHands : hand[w].step = "BEGUN"}
KybTickets == IF Unheld(job["KYB"], KybHands) THEN 1 ELSE 0

\* Every call of the KYB provider, those about to come included, is the first
\* one or follows a fault of its own.
AskedForFaults == asked + Cardinality(KybFresh) + KybTickets <= acqFaults + 1

\* The inductive invariant of the first contact.
AcqInv == AcqTypeOK /\ AskedForFaults

JobsTyped == DOMAIN job = AcqJob /\ \A j \in AcqJob : job[j] \in Row(JobState(j))

LEMMA AcqTypes ==
    ASSUME AcqTypeOK
    PROVE  /\ JobsTyped /\ hand \in [Mailer -> Hand]
           /\ asked \in Nat /\ acqFaults \in 0..AcqFaults /\ AcqFaults \in Nat
           /\ KybTickets \in {0, 1}
BY AcqAssumption DEF AcqTypeOK, JobsTyped, KybTickets

\* What a step may make of the row of j.
Advance(j, r) == r \in Row(JobState(j)) /\ (job[j].state \in Done(j) => r = job[j])
JobsAdvance == JobsTyped' /\ \A j \in AcqJob : job[j].state \in Done(j) => job'[j] = job[j]

\* A worker's writes, whenever they come, and the claim.
LEMMA RowAdvances ==
    ASSUME AcqTypeOK, NEW j \in AcqJob
    PROVE  /\ Advance(j, job[j])
           /\ \A s \in JobState(j) : Advance(j, Finished(job[j], s))
           /\ Advance(j, Failed(job[j], Back(j)))
           /\ Claimable(job[j], Ready(j)) => Advance(j, Claimed(job[j]))
           /\ job[j].state = "PROCESSING" => Advance(j, Elapsed(job[j]))
           /\ \A s \in JobState(j) : job[j].state \notin Done(j) => Advance(j, Set(job[j], s))
           /\ \A s \in JobState(j) : Advance(j, New(job[j], s))
<1>1. job[j] \in Row(JobState(j))
  BY DEF AcqTypeOK
<1>2. Back(j) \in JobState(j) /\ "DEAD" \in JobState(j) /\ "PROCESSING" \in JobState(j)
  BY JobStates
<1>3. "PROCESSING" \notin Done(j) /\ "NONE" \notin Done(j) /\ Ready(j) \cap Done(j) = {}
  BY JobStates
<1>4. \A s \in JobState(j) : Advance(j, Finished(job[j], s))
  BY <1>1, <1>3, FinishedType DEF Advance
<1>5. Advance(j, Failed(job[j], Back(j)))
  BY <1>1, <1>2, <1>3, FailedType DEF Advance
<1>6. Claimable(job[j], Ready(j)) => Advance(j, Claimed(job[j]))
  BY <1>1, <1>2, <1>3, ClaimedType DEF Advance, Claimable
<1>7. job[j].state = "PROCESSING" => Advance(j, Elapsed(job[j]))
  BY <1>1, <1>3, ElapsedType DEF Advance
<1>8. \A s \in JobState(j) : Advance(j, New(job[j], s))
  BY <1>1, <1>3, NewRowType DEF Advance, New
<1>9. \A s \in JobState(j) : job[j].state \notin Done(j) => Advance(j, Set(job[j], s))
  BY <1>1, SetType DEF Advance
<1> QED  BY <1>1, <1>4, <1>5, <1>6, <1>7, <1>8, <1>9 DEF Advance

\* One row is written.
LEMMA JobMoves ==
    ASSUME AcqTypeOK, NEW j \in AcqJob, NEW r, Advance(j, r), job' = [job EXCEPT ![j] = r]
    PROVE  JobsAdvance /\ job'[j] = r /\ \A i \in AcqJob \ {j} : job'[i] = job[i]
BY DEF AcqTypeOK, JobsTyped, JobsAdvance, Advance

LEMMA JobsStay ==
    ASSUME AcqTypeOK, job' = job
    PROVE  JobsAdvance
BY DEF AcqTypeOK, JobsTyped, JobsAdvance

\* One worker's hand changes.
LEMMA HandMoves ==
    ASSUME AcqTypeOK, NEW w \in Mailer, NEW h \in Hand, hand' = [hand EXCEPT ![w] = h]
    PROVE  hand' \in [Mailer -> Hand] /\ hand'[w] = h /\ \A v \in Mailer \ {w} : hand'[v] = hand[v]
BY DEF AcqTypeOK

LEMMA FreshAreFew == IsFiniteSet(KybFresh) /\ Cardinality(KybFresh) \in Nat
<1>1. KybFresh \subseteq Mailer
  BY DEF KybFresh, KybHands
<1> QED  BY <1>1, AcqAssumption, FS_Subset, FS_CardinalityType

\* A step after which no more calls are to come, or that is a fault.
LEMMA NoMoreCalls ==
    ASSUME AcqInv, KybFresh' \subseteq KybFresh, asked' = asked,
           \/ acqFaults' = acqFaults /\ KybTickets' <= KybTickets
           \/ acqFaults' = acqFaults + 1,
           KybTickets' \in {0, 1}
    PROVE  AskedForFaults'
<1>1. Cardinality(KybFresh') <= Cardinality(KybFresh) /\ Cardinality(KybFresh') \in Nat
  BY FreshAreFew, FS_Subset, FS_CardinalityType
<1>2. Cardinality(KybFresh') = Cardinality(KybFresh)'
  OBVIOUS
<1> QED  BY <1>1, <1>2, FreshAreFew, AcqTypes DEF AcqInv, AskedForFaults

LEMMA FirstContactBegins == AcqInit => AcqInv
<1> SUFFICES ASSUME AcqInit  PROVE AcqInv
  OBVIOUS
<1>1. AcqTypeOK
  <2>1. JobsTyped
    BY NewRowType, JobStates DEF AcqInit, JobsTyped
  <2>2. hand \in [Mailer -> Hand] /\ risk \in Decision
    BY AcqAssumption DEF AcqInit, Nothing, Hand, Decision, Waiting, AcqJob, Lane
  <2>3. {contact, profile, stock, policy, suppressed} \subseteq BOOLEAN
    BY DEF AcqInit
  <2>4. asked \in 0..AcqFaults + 2 /\ acqFaults \in 0..AcqFaults
    BY AcqAssumption DEF AcqInit
  <2> QED  BY <2>1, <2>2, <2>3, <2>4 DEF AcqInit, AcqTypeOK, JobsTyped
<1>2. KybFresh = {}
  BY DEF AcqInit, KybFresh, KybHands, Nothing
<1>3. Cardinality(KybFresh) = 0
  BY <1>2, FS_EmptySet
<1>4. AskedForFaults
  BY <1>1, <1>3, AcqTypes DEF AskedForFaults, AcqInit
<1> QED  BY <1>1, <1>4 DEF AcqInv
\* No action works on a job that has ended, and each keeps the rows' types.
LEMMA WorldAdvances ==
    ASSUME AcqTypeOK, Discover \/ DiscoverProfile \/ StockArrives
    PROVE  JobsAdvance
<1>0. DOMAIN job = AcqJob /\ \A j \in AcqJob : job[j] \in Row(JobState(j))
  BY DEF AcqTypeOK
<1>1. CASE Discover
  <2>1. {"ENRICH", "KYB"} \subseteq AcqJob /\ "PENDING" \in JobState("ENRICH") /\ "PENDING" \in JobState("KYB")
    BY DEF AcqJob, JobState, Ready, Lane
  <2>2. /\ Advance("ENRICH", New(job["ENRICH"], "PENDING"))
        /\ Advance("KYB", New(job["KYB"], "PENDING"))
    BY <2>1, RowAdvances
  <2> DEFINE e == New(job["ENRICH"], "PENDING")  k == New(job["KYB"], "PENDING")
  <2>3. job' = [job EXCEPT !["ENRICH"] = e, !["KYB"] = k]
    BY <1>1 DEF Discover
  <2> HIDE DEF e, k
  <2> QED  BY <1>0, <2>1, <2>2, <2>3 DEF JobsAdvance, JobsTyped, Advance, e, k
<1>2. CASE DiscoverProfile
  <2>1. {"UNPROFILED", "PROFILED"} \subseteq AcqJob
    BY DEF AcqJob, Lane
  <2>2. /\ {"NONE", "READY"} \subseteq JobState("UNPROFILED") /\ {"NONE", "READY"} \subseteq JobState("PROFILED")
        /\ Done("UNPROFILED") = {"COMPLETED", "SUPPRESSED"} /\ Done("PROFILED") = {"COMPLETED", "SUPPRESSED"}
        /\ JobState("UNPROFILED") = JobState("PROFILED")
    BY DEF JobState, Ready, Done, Lane
  <2>3. CASE job["UNPROFILED"].state = "WAITING_PROFILE"
    <3> DEFINE s == Set(job["UNPROFILED"], "READY")  n == NewRow("NONE")
    <3>1. job' = [job EXCEPT !["PROFILED"] = s, !["UNPROFILED"] = n] /\ job["PROFILED"].state = "NONE"
      BY <1>2, <2>3 DEF DiscoverProfile
    <3>2. s \in Row(JobState("PROFILED")) /\ n \in Row(JobState("UNPROFILED"))
      BY <1>0, <2>1, <2>2, SetType, NewRowType
    <3> HIDE DEF s, n
    <3> QED  BY <1>0, <2>1, <2>2, <2>3, <3>1, <3>2 DEF JobsAdvance, JobsTyped
  <2>4. CASE job["UNPROFILED"].state # "WAITING_PROFILE"
    <3>1. job' = [job EXCEPT !["PROFILED"] = New(job["PROFILED"], "READY")]
      BY <1>2, <2>4 DEF DiscoverProfile
    <3> QED  BY <2>1, <2>2, <3>1, RowAdvances, JobMoves
  <2> QED  BY <2>3, <2>4
<1>3. CASE StockArrives
  <2> DEFINE r(j) == IF profile /\ job[j].state = "WAITING_INVENTORY" THEN Set(job[j], "READY") ELSE job[j]
  <2>1. job' = [j \in AcqJob |-> r(j)]
    BY <1>3 DEF StockArrives
  <2>2. ASSUME NEW j \in AcqJob  PROVE Advance(j, r(j))
    <3>1. CASE profile /\ job[j].state = "WAITING_INVENTORY"
      <4>1. job[j].state \in JobState(j)
        BY <1>0 DEF Row
      <4>2. j \in Lane
        BY <3>1, <4>1 DEF AcqJob, JobState, Ready, Done, Lane
      <4>3. "READY" \in JobState(j) /\ "WAITING_INVENTORY" \notin Done(j)
        BY <4>2 DEF JobState, Ready, Done, Lane
      <4>4. Advance(j, Set(job[j], "READY"))
        BY <3>1, <4>3, RowAdvances
      <4> QED  BY <3>1, <4>4
    <3>2. CASE ~(profile /\ job[j].state = "WAITING_INVENTORY")
      BY <3>2, RowAdvances
    <3> QED  BY <3>1, <3>2
  <2> HIDE DEF r
  <2> QED  BY <2>1, <2>2 DEF JobsAdvance, JobsTyped, Advance
<1> QED  BY <1>1, <1>2, <1>3

LEMMA WorkersAdvance ==
    ASSUME AcqTypeOK, NEW w \in Mailer, WorkOn(w)
    PROVE  JobsAdvance
<1>0. /\ DOMAIN job = AcqJob /\ \A j \in AcqJob : job[j] \in Row(JobState(j))
      /\ {"ENRICH", "KYB"} \subseteq AcqJob /\ Lane \subseteq AcqJob
  BY DEF AcqTypeOK, AcqJob
<1>1. CASE Enrich(w)
  <2>1. PICK verified \in BOOLEAN :
          job' = [job EXCEPT !["ENRICH"] = Finished(@, "COMPLETED"),
                             !["UNPROFILED"] = IF verified THEN New(@, "READY") ELSE @]
    BY <1>1 DEF Enrich
  <2> DEFINE e == Finished(job["ENRICH"], "COMPLETED")
             u == IF verified THEN New(job["UNPROFILED"], "READY") ELSE job["UNPROFILED"]
  <2>2. job' = [job EXCEPT !["ENRICH"] = e, !["UNPROFILED"] = u]
    BY <2>1
  <2>3. "COMPLETED" \in JobState("ENRICH") /\ "READY" \in JobState("UNPROFILED")
    BY DEF JobState, Ready, Done, Lane
  <2>4. Advance("ENRICH", e) /\ Advance("UNPROFILED", u) /\ "UNPROFILED" \in AcqJob
    BY <1>0, <2>3, RowAdvances DEF Lane
  <2> HIDE DEF e, u
  <2> QED  BY <1>0, <2>2, <2>4 DEF JobsAdvance, JobsTyped, Advance
<1>2. CASE AskKyb(w) \/ CheckOutreach(w)
  BY <1>2, JobsStay DEF AskKyb, CheckOutreach
<1>3. CASE DecideRisk(w)
  <2>1. PICK s \in {"PASS", "REJECT", "FREEZE"} :
          job' = [j \in AcqJob |-> IF j \in Lane THEN AfterRisk(job[j], s)
                   ELSE IF j = "KYB" THEN Finished(job[j], IF s = "PASS" THEN "COMPLETED" ELSE "REJECTED")
                   ELSE job[j]]
    BY <1>3 DEF DecideRisk
  <2>2. ASSUME NEW j \in Lane  PROVE Advance(j, AfterRisk(job[j], s))
    <3>1. /\ {"READY", "SUPPRESSED", "WAITING_RISK"} \subseteq JobState(j)
          /\ "WAITING_RISK" \notin Done(j) /\ j \in AcqJob
      BY DEF JobState, Ready, Done, Lane, Waiting, AcqJob
    <3> DEFINE to == CASE s = "PASS" -> "READY" [] s = "REJECT" -> "SUPPRESSED" [] OTHER -> "WAITING_RISK"
    <3>2. to \in {"READY", "SUPPRESSED", "WAITING_RISK"}
      BY <2>1
    <3>3. AfterRisk(job[j], s) = IF job[j].state # "WAITING_RISK" THEN job[j] ELSE Set(job[j], to)
      BY DEF AfterRisk
    <3> HIDE DEF to
    <3> QED  BY <3>1, <3>2, <3>3, RowAdvances
  <2> DEFINE end == IF s = "PASS" THEN "COMPLETED" ELSE "REJECTED"
  <2>3. Advance("KYB", Finished(job["KYB"], end))
    <3>1. end \in JobState("KYB")
      BY DEF JobState, Done, Lane
    <3> HIDE DEF end
    <3> QED  BY <1>0, <3>1, RowAdvances
  <2>4. \A j \in AcqJob : Advance(j, job'[j])
    <3> SUFFICES ASSUME NEW j \in AcqJob  PROVE Advance(j, job'[j])
      OBVIOUS
    <3>1. job'[j] = IF j \in Lane THEN AfterRisk(job[j], s)
                    ELSE IF j = "KYB" THEN Finished(job[j], end) ELSE job[j]
      BY <2>1
    <3> HIDE DEF end
    <3> QED  BY <2>2, <2>3, <3>1, RowAdvances
  <2> QED  BY <2>1, <2>4 DEF JobsAdvance, JobsTyped, Advance
<1>4. ASSUME NEW lane \in Lane, WriteMail(w, lane) \/ PutBack(w, lane)
      PROVE  JobsAdvance
  <2>1. Back(lane) = "READY" /\ "COMPLETED" \in JobState(lane) /\ lane \in AcqJob
    BY <1>0 DEF Back, JobState, Done, Lane
  <2>2. CASE WriteMail(w, lane)
    <3> DEFINE r == IF lane \in written THEN Failed(job[lane], "READY") ELSE Finished(job[lane], "COMPLETED")
    <3>1. job' = [job EXCEPT ![lane] = r]
      BY <2>2 DEF WriteMail
    <3>2. Advance(lane, r)
      BY <2>1, RowAdvances
    <3> HIDE DEF r
    <3> QED  BY <2>1, <3>1, <3>2, JobMoves
  <2>3. CASE PutBack(w, lane)
    <3> DEFINE r == IF hand[w].saw = "ERROR" THEN Failed(job[lane], "READY") ELSE Finished(job[lane], hand[w].saw)
    <3>1. job' = [job EXCEPT ![lane] = r] /\ hand[w].saw # "OK"
      BY <2>3 DEF PutBack
    <3>2. hand[w].saw \in {"NONE", "OK", "ERROR", "SUPPRESSED"} \cup Waiting
      BY DEF AcqTypeOK, Hand
    <3>3. {"NONE", "SUPPRESSED"} \cup Waiting \subseteq JobState(lane)
      BY JobStates, <2>1
    <3>4. Advance(lane, r)
      BY <2>1, <3>1, <3>2, <3>3, RowAdvances
    <3> HIDE DEF r
    <3> QED  BY <2>1, <3>1, <3>4, JobMoves
  <2> QED  BY <1>4, <2>2, <2>3
<1> QED  BY <1>1, <1>2, <1>3, <1>4 DEF WorkOn

LEMMA JobsAlwaysAdvance ==
    ASSUME AcqTypeOK, [AcqNext]_acqVars
    PROVE  JobsAdvance
<1>1. CASE \/ Suppress \/ PolicyChanges \/ UNCHANGED acqVars
          \/ \E lane \in Lane : RankChanges(lane)
  BY <1>1, JobsStay DEF Suppress, PolicyChanges, RankChanges, acqVars
<1>2. ASSUME NEW j \in AcqJob, JobTimer(j)  PROVE JobsAdvance
  <2>1. "DEAD" \notin Done(j) /\ Back(j) \in JobState(j)
    BY JobStates
  <2>2. PICK r : job' = [job EXCEPT ![j] = r] /\ Advance(j, r)
    BY <1>2, <2>1, RowAdvances DEF JobTimer, Redrive, Elapse
  <2> QED  BY <2>2, JobMoves
<1>3. ASSUME NEW w \in Mailer, NEW j \in AcqJob, Claim(w, j) \/ GiveUp(w, j)  PROVE JobsAdvance
  <2>1. CASE Claim(w, j)
    BY <2>1, RowAdvances, JobMoves DEF Claim
  <2>2. CASE GiveUp(w, j)
    <3>1. PICK end \in {"ERROR"} \cup (Done(j) \cap {"UNAVAILABLE"}) :
            job' = [job EXCEPT ![j] = IF end = "ERROR" THEN Failed(@, Back(j)) ELSE Finished(@, end)]
      BY <2>2 DEF GiveUp
    <3> DEFINE r == IF end = "ERROR" THEN Failed(job[j], Back(j)) ELSE Finished(job[j], end)
    <3>2. job' = [job EXCEPT ![j] = r]
      BY <3>1
    <3>3. Advance(j, r)
      BY RowAdvances, JobStates
    <3> HIDE DEF r
    <3> QED  BY <3>2, <3>3, JobMoves
  <2> QED  BY <1>3, <2>1, <2>2
<1>4. ASSUME NEW w \in Mailer, CrashMailer(w)  PROVE JobsAdvance
  BY <1>4, JobsStay DEF CrashMailer
<1> QED  BY <1>1, <1>2, <1>3, <1>4, WorldAdvances, WorkersAdvance DEF AcqNext
\* The types of what the rows do not hold.
LEMMA FreedHand ==
    ASSUME AcqTypeOK, NEW w \in Mailer, Free(w)
    PROVE  /\ hand' \in [Mailer -> Hand]
           /\ KybHands' = KybHands \ {w} /\ KybFresh' = KybFresh \ {w}
<1>1. Nothing \in Hand /\ Nothing.job = "NONE"
  BY AcqAssumption DEF Nothing, Hand
<1>2. hand' \in [Mailer -> Hand] /\ hand'[w] = Nothing /\ \A v \in Mailer \ {w} : hand'[v] = hand[v]
  BY <1>1, HandMoves DEF Free
<1> QED  BY <1>1, <1>2 DEF KybHands, KybFresh

\* The calls to come change with the KYB row and with the hands that hold it.
LEMMA SameCalls ==
    ASSUME AcqInv, AcqTypeOK', KybHands' = KybHands, KybFresh' = KybFresh, asked' = asked,
           job'["KYB"] = job["KYB"], acqFaults' \in {acqFaults, acqFaults + 1}
    PROVE  AskedForFaults'
<1>1. KybTickets' = KybTickets /\ KybTickets \in {0, 1} /\ KybTickets \in Nat
  BY DEF KybTickets
<1> QED  BY <1>1, NoMoreCalls

LEMMA FaultedCalls ==
    ASSUME AcqInv, KybFresh' \subseteq KybFresh, asked' = asked, AcqFault
    PROVE  AskedForFaults' /\ acqFaults' \in 0..AcqFaults
<1>1. KybTickets' \in {0, 1}
  BY DEF KybTickets
<1>2. acqFaults' \in 0..AcqFaults
  BY AcqTypes DEF AcqInv, AcqFault
<1> QED  BY <1>1, <1>2, NoMoreCalls DEF AcqFault

LEMMA AtMost ==
    ASSUME NEW x \in Nat, NEW n \in Nat, NEW t \in {0, 1}, NEW f \in Nat, x + n + t <= f + 1
    PROVE  x <= f + 1 /\ \A m \in Nat : f <= m => x \in 0..m + 2
OBVIOUS

\* One call and one more for each fault.
LEMMA CallsAreBounded ==
    ASSUME AskedForFaults', asked' \in Nat, acqFaults' \in 0..AcqFaults
    PROVE  asked' <= acqFaults' + 1 /\ asked' \in 0..AcqFaults + 2
<1>1. KybFresh' \subseteq Mailer
  BY DEF KybFresh, KybHands
<1>2. Cardinality(KybFresh') \in Nat
  BY <1>1, AcqAssumption, FS_Subset, FS_CardinalityType
<1>3. KybTickets' \in {0, 1} /\ acqFaults' \in Nat
  BY AcqAssumption DEF KybTickets
<1>4. Cardinality(KybFresh') = Cardinality(KybFresh)'
  OBVIOUS
<1>5. asked' + Cardinality(KybFresh)' + KybTickets' <= acqFaults' + 1
  BY DEF AskedForFaults
<1>6. acqFaults' <= AcqFaults
  BY AcqAssumption
<1> QED  BY <1>2, <1>3, <1>4, <1>5, <1>6, AtMost, AcqAssumption

\* The order of the claims changes by itself, one lane at a time.
LEMMA RanksAreLanes ==
    ASSUME outranked \subseteq Lane, [AcqNext]_acqVars
    PROVE  outranked' \subseteq Lane
<1>1. CASE \E lane \in Lane : RankChanges(lane)
  BY <1>1 DEF RankChanges
<1>2. CASE outranked' = outranked
  BY <1>2
<1>3. CASE Discover \/ DiscoverProfile \/ StockArrives \/ Suppress \/ PolicyChanges
  BY <1>2, <1>3 DEF Discover, DiscoverProfile, StockArrives, Suppress, PolicyChanges
<1>4. CASE \E j \in AcqJob : JobTimer(j)
  BY <1>2, <1>4 DEF JobTimer, Redrive, Elapse
<1>5. ASSUME NEW w \in Mailer,
             WorkOn(w) \/ CrashMailer(w) \/ \E j \in AcqJob : Claim(w, j) \/ GiveUp(w, j)
      PROVE  outranked' = outranked
  BY <1>5 DEF WorkOn, Enrich, AskKyb, DecideRisk, CheckOutreach, WriteMail, PutBack, CrashMailer, Claim, GiveUp
<1>6. CASE UNCHANGED acqVars
  BY <1>2, <1>6 DEF acqVars
<1> QED  BY <1>1, <1>2, <1>3, <1>4, <1>5, <1>6 DEF AcqNext

\* The typing of the step, with its calls, is all that is left to show.
LEMMA AcqStep ==
    ASSUME AcqInv, [AcqNext]_acqVars, hand' \in [Mailer -> Hand], AskedForFaults', asked' \in Nat,
           acqFaults' \in 0..AcqFaults, risk' \in Decision,
           role' \in {"SUPPLIER", "BUYER"}, written' \subseteq Lane,
           {contact', profile', stock', policy', suppressed'} \subseteq BOOLEAN
    PROVE  AcqInv'
<1>1. JobsTyped'
  BY JobsAlwaysAdvance DEF AcqInv, JobsAdvance
<1>2. asked' \in 0..AcqFaults + 2
  BY CallsAreBounded
<1>3. outranked' \subseteq Lane
  BY RanksAreLanes DEF AcqInv, AcqTypeOK
<1> QED  BY <1>1, <1>2, <1>3 DEF AcqInv, AcqTypeOK, JobsTyped

LEMMA AroundContactKeeps ==
    ASSUME AcqInv,
           \/ Discover \/ DiscoverProfile \/ StockArrives \/ Suppress \/ PolicyChanges
           \/ \E lane \in Lane : RankChanges(lane)
    PROVE  AcqInv'
<1>0. /\ AcqTypeOK /\ hand \in [Mailer -> Hand] /\ JobsTyped /\ asked \in Nat
      /\ acqFaults \in 0..AcqFaults /\ AcqFaults \in Nat
  BY AcqTypes DEF AcqInv
<1>1. UNCHANGED <<asked, risk, role, written>>
  BY DEF Discover, DiscoverProfile, StockArrives, Suppress, PolicyChanges, RankChanges, facts
<1>2. {contact', profile', stock', policy', suppressed'} \subseteq BOOLEAN
  <2>1. {contact, profile, stock, policy, suppressed} \subseteq BOOLEAN
    BY DEF AcqInv, AcqTypeOK
  <2> QED  BY <2>1 DEF Discover, DiscoverProfile, StockArrives, Suppress, PolicyChanges, RankChanges, facts
<1>3. acqFaults' \in {acqFaults, acqFaults + 1} /\ acqFaults' \in 0..AcqFaults
  BY <1>0 DEF Discover, DiscoverProfile, StockArrives, Suppress, PolicyChanges, RankChanges, AcqFault
<1>4. /\ hand' \in [Mailer -> Hand]
      /\ \A w \in Mailer : /\ hand'[w].job = "KYB" <=> hand[w].job = "KYB"
                           /\ hand[w].job = "KYB" => hand'[w] = hand[w]
  <2>1. CASE DiscoverProfile
    <3> DEFINE h(w) == IF job["UNPROFILED"].state = "WAITING_PROFILE" /\ hand[w].job = "UNPROFILED"
                       THEN [hand[w] EXCEPT !.job = "PROFILED"] ELSE hand[w]
    <3>1. hand' = [w \in Mailer |-> h(w)]
      BY <2>1 DEF DiscoverProfile
    <3>2. \A w \in Mailer : /\ h(w) \in Hand
                            /\ h(w).job = "KYB" <=> hand[w].job = "KYB"
                            /\ hand[w].job = "KYB" => h(w) = hand[w]
      BY <1>0 DEF Hand, AcqJob, Lane
    <3> HIDE DEF h
    <3> QED  BY <3>1, <3>2
  <2>2. CASE hand' = hand
    BY <1>0, <2>2
  <2> QED  BY <2>1, <2>2 DEF Discover, StockArrives, Suppress, PolicyChanges, RankChanges
<1>5. KybHands' = KybHands /\ KybFresh' = KybFresh
  BY <1>4 DEF KybHands, KybFresh
<1>6. KybTickets' \in {0, 1} /\ KybTickets' <= KybTickets
  <2>1. "KYB" \in AcqJob /\ "KYB" \notin Lane /\ "KYB" \notin {"ENRICH", "PROFILED", "UNPROFILED"}
    BY DEF AcqJob, Lane
  <2>2. CASE Discover
    <3>1. job'["KYB"] = New(job["KYB"], "PENDING")
      BY <1>0, <2>1, <2>2 DEF Discover, JobsTyped
    <3>2. job["KYB"].state = "NONE" \/ job'["KYB"] = job["KYB"]
      BY <3>1 DEF New
    <3> QED  BY <1>5, <3>2 DEF KybTickets, Unheld
  <2>3. CASE DiscoverProfile
    <3>1. job'["KYB"] = job["KYB"]
      BY <1>0, <2>1, <2>3 DEF DiscoverProfile, JobsTyped
    <3> QED  BY <1>5, <3>1 DEF KybTickets
  <2>4. CASE StockArrives
    <3>1. job["KYB"].state \in JobState("KYB")
      BY <1>0, <2>1 DEF JobsTyped, Row
    <3>2. job["KYB"].state # "WAITING_INVENTORY"
      BY <3>1, <2>1 DEF JobState, Ready, Done, Lane
    <3>3. job'["KYB"] = job["KYB"]
      BY <2>1, <2>4, <3>2 DEF StockArrives
    <3> QED  BY <1>5, <3>3 DEF KybTickets
  <2>5. CASE job' = job
    BY <1>5, <2>5 DEF KybTickets
  <2> QED  BY <2>2, <2>3, <2>4, <2>5 DEF Suppress, PolicyChanges, RankChanges
<1>7. AskedForFaults'
  BY <1>1, <1>3, <1>5, <1>6, NoMoreCalls
<1>8. role' \in {"SUPPLIER", "BUYER"} /\ written' \subseteq Lane /\ risk' \in Decision /\ asked' \in Nat
  BY <1>0, <1>1 DEF AcqInv, AcqTypeOK
<1>9. [AcqNext]_acqVars
  BY DEF AcqNext
<1> QED  BY <1>2, <1>3, <1>4, <1>7, <1>8, <1>9, AcqStep
LEMMA HolderFaults ==
    ASSUME AcqInv, NEW w \in Mailer, CrashMailer(w) \/ \E j \in AcqJob : GiveUp(w, j)
    PROVE  AcqInv'
<1>1. Free(w) /\ AcqFault /\ UNCHANGED <<role, facts, written>>
  BY DEF CrashMailer, GiveUp
<1>2. hand' \in [Mailer -> Hand] /\ KybFresh' \subseteq KybFresh
  BY <1>1, FreedHand DEF AcqInv
<1>3. AskedForFaults' /\ acqFaults' \in 0..AcqFaults
  BY <1>1, <1>2, FaultedCalls DEF facts
<1>4. [AcqNext]_acqVars
  BY DEF AcqNext
<1>5. {contact', profile', stock', policy', suppressed'} \subseteq BOOLEAN
  BY <1>1 DEF AcqInv, AcqTypeOK, facts
<1>6. role' \in {"SUPPLIER", "BUYER"} /\ written' \subseteq Lane /\ risk' \in Decision /\ asked' \in Nat
  BY <1>1, AcqTypes DEF AcqInv, AcqTypeOK, facts
<1> QED  BY <1>2, <1>3, <1>4, <1>5, <1>6, AcqStep

LEMMA TimersKeep ==
    ASSUME AcqInv, NEW j \in AcqJob, JobTimer(j)
    PROVE  AcqInv'
<1>0. /\ AcqTypeOK /\ hand \in [Mailer -> Hand] /\ JobsTyped /\ asked \in Nat
      /\ acqFaults \in 0..AcqFaults /\ KybTickets \in {0, 1}
  BY AcqTypes DEF AcqInv
<1>1. UNCHANGED <<role, facts, written, hand>>
  BY DEF JobTimer, Redrive, Elapse
<1>2. KybHands' = KybHands /\ KybFresh' = KybFresh /\ hand' \in [Mailer -> Hand] /\ asked' = asked
  BY <1>0, <1>1 DEF KybHands, KybFresh, facts
<1>3. AskedForFaults' /\ acqFaults' \in 0..AcqFaults
  <2>1. CASE AcqFault
    BY <1>2, <2>1, FaultedCalls
  <2>2. CASE UNCHANGED acqFaults
    <3>1. CASE job'["KYB"] = job["KYB"]
      <4>1. KybTickets' = KybTickets
        BY <1>2, <3>1 DEF KybTickets
      <4> QED  BY <1>0, <1>2, <2>2, <4>1, NoMoreCalls
    <3>2. CASE job'["KYB"] # job["KYB"]
      <4>1. PICK r : job' = [job EXCEPT ![j] = r]
        BY DEF JobTimer, Redrive, Elapse
      <4>2. j = "KYB"
        BY <1>0, <3>2, <4>1 DEF JobsTyped, AcqJob
      <4>3. KybTickets = 1
        <5>1. CASE Redrive(j)
          BY <4>2, <5>1 DEF Redrive, KybTickets, Unheld
        <5>2. CASE Elapse(j)
          <6>1. job["KYB"].state = "PROCESSING"
            BY <4>2, <5>2 DEF Elapse
          <6>2. \A w \in Mailer : hand[w].job # "KYB"
            <7>1. ~AcqFault
              BY <1>0, <2>2, AcqAssumption DEF AcqFault
            <7> QED  BY <4>2, <5>2, <7>1 DEF Elapse
          <6> QED  BY <6>1, <6>2 DEF KybTickets, Unheld, KybHands
        <5> QED  BY <5>1, <5>2 DEF JobTimer
      <4>4. KybTickets' \in {0, 1} /\ KybTickets' <= KybTickets
        BY <4>3 DEF KybTickets
      <4> QED  BY <1>0, <1>2, <2>2, <4>4, NoMoreCalls
    <3> QED  BY <1>0, <2>2, <3>1, <3>2
  <2> QED  BY <2>1, <2>2, <1>0 DEF JobTimer, Redrive, Elapse
<1>4. [AcqNext]_acqVars
  BY DEF AcqNext
<1>5. {contact', profile', stock', policy', suppressed'} \subseteq BOOLEAN
  BY <1>1 DEF AcqInv, AcqTypeOK, facts
<1>6. role' \in {"SUPPLIER", "BUYER"} /\ written' \subseteq Lane /\ risk' \in Decision /\ asked' \in Nat
  BY <1>1, AcqTypes DEF AcqInv, AcqTypeOK, facts
<1> QED  BY <1>2, <1>3, <1>4, <1>5, <1>6, AcqStep
LEMMA CallsMove ==
    ASSUME NEW x \in Nat, NEW n \in Nat, NEW t \in {0, 1}, NEW f \in Nat, x + n + t <= f + 1
    PROVE  /\ t = 1 => x + (n + 1) + 0 <= f + 1
           /\ n > 0 => (x + 1) + (n - 1) + t <= f + 1
OBVIOUS

LEMMA ClaimsKeep ==
    ASSUME AcqInv, NEW w \in Mailer, NEW j \in AcqJob, Claim(w, j)
    PROVE  AcqInv'
<1>0. /\ AcqTypeOK /\ hand \in [Mailer -> Hand] /\ JobsTyped /\ asked \in Nat
      /\ acqFaults \in 0..AcqFaults /\ acqFaults \in Nat /\ KybTickets \in {0, 1}
  BY AcqTypes, AcqAssumption DEF AcqInv
<1>1. UNCHANGED <<role, facts, written, acqFaults>> /\ hand[w] = Nothing
  BY DEF Claim
<1> DEFINE h == [Nothing EXCEPT !.job = j, !.step = "BEGUN"]
<1>2. h \in Hand /\ h.job = j /\ h.step = "BEGUN" /\ hand' = [hand EXCEPT ![w] = h]
  <2> DEFINE m == [Nothing EXCEPT !.job = j]
  <2>0. m = [job |-> j, step |-> "NONE", saw |-> "NONE", at |-> 0]
    BY DEF Nothing
  <2> HIDE DEF m
  <2>1. h = [m EXCEPT !.step = "BEGUN"]
    BY DEF m
  <2>3. h = [job |-> j, step |-> "BEGUN", saw |-> "NONE", at |-> 0]
    BY <2>0, <2>1
  <2>2. hand' = [hand EXCEPT ![w] = h]
    BY DEF Claim
  <2> HIDE DEF h
  <2> QED  BY <2>2, <2>3, AcqAssumption DEF Hand
<1> HIDE DEF h
<1>3. hand' \in [Mailer -> Hand] /\ hand'[w] = h /\ \A v \in Mailer \ {w} : hand'[v] = hand[v]
  BY <1>0, <1>2, HandMoves
<1>4. w \notin KybHands /\ w \notin KybFresh
  BY <1>1 DEF KybHands, KybFresh, Nothing
<1>5. AskedForFaults'
  <2>1. CASE j # "KYB"
    <3>1. KybHands' = KybHands /\ KybFresh' = KybFresh
      BY <1>2, <1>3, <1>4, <2>1 DEF KybHands, KybFresh
    <3>2. job'["KYB"] = job["KYB"]
      BY <1>0, <2>1 DEF Claim, JobsTyped, AcqJob
    <3>3. KybTickets' = KybTickets
      BY <3>1, <3>2 DEF KybTickets
    <3> QED  BY <1>0, <1>1, <3>1, <3>3, NoMoreCalls DEF facts
  <2>2. CASE j = "KYB"
    <3>1. KybHands' = KybHands \cup {w} /\ KybFresh' = KybFresh \cup {w}
      BY <1>2, <1>3, <2>2 DEF KybHands, KybFresh
    <3>2. Cardinality(KybFresh') = Cardinality(KybFresh) + 1
      BY <1>4, <3>1, FreshAreFew, FS_AddElement
    <3>3. Claimable(job["KYB"], {"PENDING"})
      BY <2>2, JobStates DEF Claim
    <3>4. KybTickets = 1
      BY <3>3 DEF Claimable, KybTickets, Unheld
    <3>5. job'["KYB"].state = "PROCESSING" /\ ~job'["KYB"].old
      BY <1>0, <2>2, ClaimedType DEF Claim, JobsTyped, JobState
    <3>6. KybTickets' = 0
      BY <3>1, <3>5 DEF KybTickets, Unheld
    <3>7. asked + Cardinality(KybFresh) + KybTickets <= acqFaults + 1
      BY DEF AcqInv, AskedForFaults
    <3>8. asked + (Cardinality(KybFresh) + 1) + 0 <= acqFaults + 1
      BY <1>0, <3>4, <3>7, FreshAreFew, CallsMove
    <3>9. asked' = asked /\ acqFaults' = acqFaults /\ Cardinality(KybFresh') = Cardinality(KybFresh)'
      BY <1>1 DEF facts
    <3> QED  BY <3>2, <3>6, <3>8, <3>9 DEF AskedForFaults
  <2> QED  BY <2>1, <2>2
<1>6. [AcqNext]_acqVars
  BY DEF AcqNext
<1>7. {contact', profile', stock', policy', suppressed'} \subseteq BOOLEAN
  BY <1>1 DEF AcqInv, AcqTypeOK, facts
<1>8. /\ role' \in {"SUPPLIER", "BUYER"} /\ written' \subseteq Lane /\ risk' \in Decision
      /\ asked' \in Nat /\ acqFaults' \in 0..AcqFaults
  BY <1>0, <1>1 DEF AcqInv, AcqTypeOK, facts
<1> QED  BY <1>3, <1>5, <1>6, <1>7, <1>8, AcqStep

LEMMA AskKeeps ==
    ASSUME AcqInv, NEW w \in Mailer, AskKyb(w)
    PROVE  AcqInv'
<1>0. /\ AcqTypeOK /\ hand \in [Mailer -> Hand] /\ asked \in Nat
      /\ acqFaults \in 0..AcqFaults /\ acqFaults \in Nat /\ KybTickets \in {0, 1}
  BY AcqTypes, AcqAssumption DEF AcqInv
<1>1. /\ UNCHANGED <<role, job, contact, risk, profile, stock, policy, suppressed, written, acqFaults>>
      /\ asked' = asked + 1 /\ hand[w].job = "KYB" /\ hand[w].step = "BEGUN"
  BY DEF AskKyb, At
<1>2. w \in KybFresh /\ Cardinality(KybFresh) > 0
  <2>1. w \in KybFresh
    BY <1>1 DEF KybFresh, KybHands
  <2> QED  BY <2>1, FreshAreFew, FS_EmptySet
<1>3. asked + Cardinality(KybFresh) + KybTickets <= acqFaults + 1
  BY DEF AcqInv, AskedForFaults
<1>4. (asked + 1) + (Cardinality(KybFresh) - 1) + KybTickets <= acqFaults + 1
  BY <1>0, <1>2, <1>3, FreshAreFew, CallsMove
<1>5. asked + 1 \in 0..AcqFaults + 2
  <2>1. asked + 1 \in Nat /\ Cardinality(KybFresh) - 1 \in Nat
    BY <1>0, <1>2, FreshAreFew
  <2>2. acqFaults <= AcqFaults /\ AcqFaults \in Nat
    BY <1>0, AcqAssumption
  <2> QED  BY <1>0, <1>4, <2>1, <2>2, AtMost
<1> DEFINE h == [hand[w] EXCEPT !.step = "ASKED", !.at = asked + 1]
<1>6. h \in Hand /\ h.job = "KYB" /\ h.step = "ASKED"
  BY <1>0, <1>1, <1>5 DEF Hand
<1>7. hand' = [hand EXCEPT ![w] = h]
  BY <1>1 DEF AskKyb
<1> HIDE DEF h
<1>8. hand' \in [Mailer -> Hand] /\ hand'[w] = h /\ \A v \in Mailer \ {w} : hand'[v] = hand[v]
  BY <1>0, <1>6, <1>7, HandMoves
<1>9. KybHands' = KybHands /\ KybFresh' = KybFresh \ {w}
  BY <1>1, <1>6, <1>8 DEF KybHands, KybFresh
<1>10. AskedForFaults'
  <2>1. Cardinality(KybFresh') = Cardinality(KybFresh) - 1
    BY <1>2, <1>9, FreshAreFew, FS_RemoveElement
  <2>2. KybTickets' = KybTickets
    BY <1>1, <1>9 DEF KybTickets
  <2>3. acqFaults' = acqFaults /\ Cardinality(KybFresh') = Cardinality(KybFresh)'
    BY <1>1
  <2> QED  BY <1>1, <1>4, <2>1, <2>2, <2>3 DEF AskedForFaults
<1>11. [AcqNext]_acqVars
  BY DEF AcqNext, WorkOn
<1>12. {contact', profile', stock', policy', suppressed'} \subseteq BOOLEAN
  BY <1>1 DEF AcqInv, AcqTypeOK
<1>13. /\ role' \in {"SUPPLIER", "BUYER"} /\ written' \subseteq Lane /\ risk' \in Decision
       /\ asked' \in Nat /\ acqFaults' \in 0..AcqFaults
  BY <1>0, <1>1 DEF AcqInv, AcqTypeOK
<1> QED  BY <1>8, <1>10, <1>11, <1>12, <1>13, AcqStep

\* The other steps of a worker leave the calls as they are or end its own.
LEMMA OtherWorkKeeps ==
    ASSUME AcqInv, NEW w \in Mailer,
           \/ Enrich(w) \/ DecideRisk(w) \/ CheckOutreach(w)
           \/ \E lane \in Lane : WriteMail(w, lane) \/ PutBack(w, lane)
    PROVE  AcqInv'
<1>0. /\ AcqTypeOK /\ hand \in [Mailer -> Hand] /\ JobsTyped /\ asked \in Nat
      /\ acqFaults \in 0..AcqFaults /\ KybTickets \in {0, 1}
      /\ "KYB" \in AcqJob /\ "KYB" \notin Lane /\ "KYB" # "ENRICH"
  BY AcqTypes DEF AcqInv, AcqJob, Lane
<1>1. UNCHANGED <<role, asked, profile, stock, policy, suppressed, acqFaults>>
  BY DEF Enrich, DecideRisk, CheckOutreach, WriteMail, PutBack, facts
<1>2. hand' \in [Mailer -> Hand] /\ KybFresh' \subseteq KybFresh /\ KybTickets' \in {0, 1} /\ KybTickets' <= KybTickets
  <2>1. CASE CheckOutreach(w)
    <3> DEFINE h == [hand[w] EXCEPT !.step = "CHECKED", !.saw = Gate]
    <3>1. Gate \in {"NONE", "OK", "ERROR", "SUPPRESSED"} \cup Waiting
      BY DEF Gate, Waiting
    <3>2. hand' = [hand EXCEPT ![w] = h] /\ hand[w].job \in Lane
      BY <2>1 DEF CheckOutreach, Step
    <3>3. h \in Hand /\ h.job \in Lane
      BY <1>0, <3>1, <3>2 DEF Hand
    <3> HIDE DEF h
    <3>4. hand' \in [Mailer -> Hand] /\ hand'[w] = h /\ \A v \in Mailer \ {w} : hand'[v] = hand[v]
      BY <1>0, <3>2, <3>3, HandMoves
    <3>5. KybHands' = KybHands /\ KybFresh' = KybFresh
      BY <1>0, <3>2, <3>3, <3>4 DEF KybHands, KybFresh
    <3>6. KybTickets' = KybTickets
      BY <2>1, <3>5 DEF KybTickets, CheckOutreach
    <3> QED  BY <1>0, <3>4, <3>5, <3>6
  <2>2. CASE Enrich(w) \/ \E lane \in Lane : WriteMail(w, lane) \/ PutBack(w, lane)
    <3>1. Free(w) /\ hand[w].job # "KYB" /\ job'["KYB"] = job["KYB"]
      BY <1>0, <2>2 DEF Enrich, WriteMail, PutBack, At, JobsTyped, Lane
    <3>2. hand' \in [Mailer -> Hand] /\ KybHands' = KybHands /\ KybFresh' = KybFresh
      BY <1>0, <3>1, FreedHand DEF KybHands, KybFresh
    <3>3. KybTickets' = KybTickets
      BY <3>1, <3>2 DEF KybTickets
    <3> QED  BY <1>0, <3>2, <3>3
  <2>3. CASE DecideRisk(w)
    <3>1. Free(w)
      BY <2>3 DEF DecideRisk
    <3>2. PICK s \in {"COMPLETED", "REJECTED"} : job'["KYB"] = Finished(job["KYB"], s)
      BY <1>0, <2>3 DEF DecideRisk
    <3>3. hand' \in [Mailer -> Hand] /\ KybHands' = KybHands \ {w} /\ KybFresh' \subseteq KybFresh
      BY <1>0, <3>1, FreedHand
    <3>4. job["KYB"] \in Row(JobState("KYB")) /\ s \in JobState("KYB")
      BY <1>0, JobStates DEF JobsTyped
    <3>5. KybTickets' \in {0, 1}
      BY DEF KybTickets
    <3>6. Unheld(job["KYB"], KybHands)' => Unheld(job["KYB"], KybHands)
      <4>1. CASE job["KYB"].state = "PROCESSING"
        <5>1. job'["KYB"].state = s
          BY <3>2, <3>4, <4>1, FinishedType
        <5> QED  BY <5>1, <3>2 DEF Unheld
      <4>2. CASE job["KYB"].state # "PROCESSING"
        <5>1. job'["KYB"] = job["KYB"]
          BY <3>2, <3>4, <4>2, FinishedType
        <5> QED  BY <4>2, <5>1 DEF Unheld
      <4> QED  BY <4>1, <4>2
    <3>7. KybTickets' <= KybTickets
      BY <3>6 DEF KybTickets
    <3> QED  BY <3>3, <3>5, <3>7
  <2> QED  BY <2>1, <2>2, <2>3
<1>3. AskedForFaults'
  BY <1>1, <1>2, NoMoreCalls
<1>4. [AcqNext]_acqVars
  BY DEF AcqNext, WorkOn
<1>5. {contact', profile', stock', policy', suppressed'} \subseteq BOOLEAN
  <2>1. contact' \in BOOLEAN
    <3>1. contact \in BOOLEAN
      BY DEF AcqInv, AcqTypeOK
    <3>2. contact' = contact \/ contact' \in BOOLEAN
      BY DEF Enrich, DecideRisk, CheckOutreach, WriteMail, PutBack, facts
    <3> QED  BY <3>1, <3>2
  <2> QED  BY <1>1, <2>1 DEF AcqInv, AcqTypeOK
<1>6. risk' \in Decision
  <2>1. risk \in Decision /\ hand[w].at \in 0..AcqFaults + 2
    BY <1>0 DEF AcqInv, AcqTypeOK, Hand
  <2>2. CASE DecideRisk(w)
    BY <2>1, <2>2 DEF DecideRisk, Decision
  <2>3. CASE ~DecideRisk(w)
    BY <2>1, <2>3 DEF Enrich, CheckOutreach, WriteMail, PutBack, facts
  <2> QED  BY <2>2, <2>3
<1>7. written' \subseteq Lane
  <2>1. written \subseteq Lane
    BY DEF AcqInv, AcqTypeOK
  <2> QED  BY <2>1 DEF Enrich, DecideRisk, CheckOutreach, WriteMail, PutBack
<1>8. role' \in {"SUPPLIER", "BUYER"} /\ asked' \in Nat /\ acqFaults' \in 0..AcqFaults
  BY <1>0, <1>1 DEF AcqInv, AcqTypeOK
<1> QED  BY <1>2, <1>3, <1>4, <1>5, <1>6, <1>7, <1>8, AcqStep

LEMMA ContactKeeps ==
    ASSUME AcqInv, [AcqNext]_acqVars
    PROVE  AcqInv'
<1>1. CASE UNCHANGED acqVars
  BY <1>1 DEF acqVars, AcqInv, AcqTypeOK, AskedForFaults, KybFresh, KybHands, KybTickets
<1>2. CASE AcqNext
  BY <1>2, AroundContactKeeps, TimersKeep, ClaimsKeep, AskKeeps, OtherWorkKeeps, HolderFaults
     DEF AcqNext, WorkOn
<1> QED  BY <1>1, <1>2

\* The inductive invariant of the first contact holds (kyb_jobs.ts:43-214,
\* acquisition_outreach.ts:26-270).
THEOREM AcquisitionInvariance == AcqSpec => []AcqInv
BY FirstContactBegins, ContactKeeps, PTL DEF AcqSpec

\* A provider is paid for one check and for one more per crash, failure or
\* lease overrun, for any number of mailers and faults (kyb_jobs.ts:44-104).
THEOREM CallsFollowFaults == AcqSpec => [](asked <= acqFaults + 1)
<1>1. AcqInv => asked <= acqFaults + 1
  <2> SUFFICES ASSUME AcqInv  PROVE asked <= acqFaults + 1
    OBVIOUS
  <2>1. /\ asked \in Nat /\ KybTickets \in {0, 1} /\ acqFaults \in Nat
        /\ Cardinality(KybFresh) \in Nat
    BY AcqTypes, FreshAreFew DEF AcqInv
  <2> QED  BY <2>1, AtMost DEF AcqInv, AskedForFaults
<1> QED  BY <1>1, AcquisitionInvariance, PTL

\* A job that has ended is never worked on again, however late its workers are.
THEOREM EndedJobsAlwaysStay == AcqSpec => EndedJobsStay
<1>1. ASSUME AcqInv, [AcqNext]_acqVars
      PROVE  [\A j \in AcqJob : job[j].state \in Done(j) => job'[j] = job[j]]_acqVars
  BY <1>1, JobsAlwaysAdvance DEF AcqInv, JobsAdvance
<1> QED  BY <1>1, AcquisitionInvariance, PTL DEF AcqSpec, EndedJobsStay
-------------------------------------------------------------------------------
(* The message on its way out.                                             *)

Holders     == {w \in Sender : post[w].table = "email"}
MaySend     == {w \in Holders : post[w].step \in {"BEGUN", "UNSENT"}}
SendTickets == IF Unheld(email, Holders) THEN 1 ELSE 0

\* Every copy, those that may still be sent included, is the first one or
\* follows a fault of its own.
SentForFaults == copies + Cardinality(MaySend) + SendTickets <= postFaults + 1

\* Until a lease is overrun one worker at most holds the row, and it has
\* searched Sent since the last copy that was made.
HeldByOne ==
    overrun \/ /\ \A v, w \in Holders : v = w
               /\ \A w \in Holders : /\ email.state = "PROCESSING" /\ ~email.old
                                     /\ post[w].step = "UNSENT" => copies = 0
               /\ copies <= 1

\* The inductive invariant of the message.
PostInv == PostTypeOK /\ SentForFaults /\ HeldByOne

LEMMA PostTypes ==
    ASSUME PostTypeOK
    PROVE  /\ post \in [Sender -> Post] /\ copies \in Nat /\ postFaults \in 0..PostFaults
           /\ postFaults \in Nat /\ PostFaults \in Nat /\ SendTickets \in {0, 1}
           /\ note \in Row(RowStates) /\ email \in Row(RowStates)
BY PostAssumption DEF PostTypeOK, SendTickets

LEMMA SendersAreFew == IsFiniteSet(MaySend) /\ Cardinality(MaySend) \in Nat
<1>1. MaySend \subseteq Sender
  BY DEF MaySend, Holders
<1> QED  BY <1>1, PostAssumption, FS_Subset, FS_CardinalityType

\* A step after which no more copies are to come, or that is a fault.
LEMMA NoMoreCopies ==
    ASSUME PostInv, MaySend' \subseteq MaySend, copies' = copies,
           \/ postFaults' = postFaults /\ SendTickets' <= SendTickets
           \/ PostFault
    PROVE  SentForFaults'
<1>1. Cardinality(MaySend') <= Cardinality(MaySend) /\ Cardinality(MaySend') \in Nat
  BY SendersAreFew, FS_Subset, FS_CardinalityType
<1>2. Cardinality(MaySend') = Cardinality(MaySend)'
  OBVIOUS
<1>3. SendTickets' \in {0, 1}
  BY DEF SendTickets
<1> QED  BY <1>1, <1>2, <1>3, SendersAreFew, PostTypes DEF PostInv, SentForFaults, PostFault

\* One copy and one more for each fault.
LEMMA CopiesAreBounded ==
    ASSUME SentForFaults', copies' \in Nat, postFaults' \in 0..PostFaults
    PROVE  copies' <= postFaults' + 1 /\ copies' \in 0..PostFaults + 2
<1>1. MaySend' \subseteq Sender
  BY DEF MaySend, Holders
<1>2. Cardinality(MaySend') \in Nat
  BY <1>1, PostAssumption, FS_Subset, FS_CardinalityType
<1>3. SendTickets' \in {0, 1} /\ postFaults' \in Nat
  BY PostAssumption DEF SendTickets
<1>4. Cardinality(MaySend') = Cardinality(MaySend)'
  OBVIOUS
<1>5. copies' + Cardinality(MaySend)' + SendTickets' <= postFaults' + 1
  BY DEF SentForFaults
<1>6. postFaults' <= PostFaults
  BY PostAssumption
<1> QED  BY <1>2, <1>3, <1>4, <1>5, <1>6, AtMost, PostAssumption

LEMMA MessageBegins == PostInit => PostInv
<1> SUFFICES ASSUME PostInit  PROVE PostInv
  OBVIOUS
<1>1. PostTypeOK
  <2>1. {note, email} \subseteq Row(RowStates)
    BY NewRowType DEF PostInit, RowStates
  <2>2. post \in [Sender -> Post]
    BY DEF PostInit, NoPost, Post
  <2>3. {open, due, reachable, projecting, overrun} \subseteq BOOLEAN
    BY DEF PostInit
  <2>4. copies \in 0..PostFaults + 2 /\ postFaults \in 0..PostFaults
    BY PostAssumption DEF PostInit
  <2> QED  BY <2>1, <2>2, <2>3, <2>4 DEF PostInit, PostTypeOK
<1>2. Holders = {} /\ MaySend = {}
  BY DEF PostInit, MaySend, Holders, NoPost
<1>3. Cardinality(MaySend) = 0
  BY <1>2, FS_EmptySet
<1>4. SentForFaults
  BY <1>1, <1>3, PostTypes DEF SentForFaults, PostInit
<1>5. HeldByOne
  BY <1>2 DEF HeldByOne, PostInit
<1> QED  BY <1>1, <1>4, <1>5 DEF PostInv
LEMMA RowsKeepTypes ==
    ASSUME PostTypeOK, [PostNext]_postVars
    PROVE  note' \in Row(RowStates) /\ email' \in Row(RowStates)
<1>0. note \in Row(RowStates) /\ email \in Row(RowStates)
  BY PostTypes
<1>1. {"NONE", "PENDING", "PROCESSING", "DEAD", "SUPPRESSED", "COMPLETED", "SENT"} \subseteq RowStates
  BY DEF RowStates
<1>2. NewRow("PENDING") \in Row(RowStates)
  BY <1>1, NewRowType
<1>3. ASSUME NEW row \in {note, email}
      PROVE  /\ \A s \in RowStates : Set(row, s) \in Row(RowStates) /\ Finished(row, s) \in Row(RowStates)
             /\ Claimed(row) \in Row(RowStates) /\ Elapsed(row) \in Row(RowStates)
             /\ Failed(row, "PENDING") \in Row(RowStates) /\ Retried(row, "PENDING") \in RowStates
  <2>1. row \in Row(RowStates)
    BY <1>0
  <2> QED  BY <1>1, <2>1, SetType, FinishedType, FailedType, ClaimedType, ElapsedType DEF Retried
<1>4. NoteFailed \in Row(RowStates)
  BY <1>3 DEF NoteFailed
<1>5. note' \in Row(RowStates)
  <2>1. CASE UNCHANGED note
    BY <1>0, <2>1
  <2>2. CASE OpenMatter \/ ProjectNote \/ NoteTimer
    BY <1>0, <1>1, <1>2, <1>3, <2>2 DEF OpenMatter, ProjectNote, NoteTimer, RedriveNote, ElapseNote
  <2>3. ASSUME NEW w \in Sender, ClaimNote(w) \/ ReadFacts(w) \/ WriteEmail(w) \/ PostError(w)
        PROVE  note' \in Row(RowStates)
    BY <1>0, <1>1, <1>3, <1>4, <2>3 DEF ClaimNote, ReadFacts, WriteEmail, PostError
  <2>4. CASE \/ CloseMatter \/ ReminderDue \/ Unsubscribe \/ EmailTimer \/ UNCHANGED postVars
             \/ \E w \in Sender : SearchSent(w) \/ Send(w) \/ MarkSent(w) \/ ClaimEmail(w) \/ CrashSender(w)
    <3>1. UNCHANGED note
      BY <2>4 DEF CloseMatter, ReminderDue, Unsubscribe, EmailTimer, RedriveEmail, ElapseEmail, postVars,
                  SearchSent, Send, MarkSent, ClaimEmail, CrashSender
    <3> QED  BY <2>1, <3>1
  <2> QED  BY <2>2, <2>3, <2>4 DEF PostNext, PostStep
<1>6. email' \in Row(RowStates)
  <2>1. CASE UNCHANGED email
    BY <1>0, <2>1
  <2>2. CASE EmailTimer
    BY <1>0, <1>1, <1>3, <2>2 DEF EmailTimer, RedriveEmail, ElapseEmail
  <2>3. ASSUME NEW w \in Sender,
               WriteEmail(w) \/ SearchSent(w) \/ Send(w) \/ MarkSent(w) \/ ClaimEmail(w) \/ PostError(w)
        PROVE  email' \in Row(RowStates)
    BY <1>0, <1>1, <1>2, <1>3, <2>3 DEF WriteEmail, SearchSent, Send, MarkSent, ClaimEmail, PostError
  <2>4. CASE \/ OpenMatter \/ ProjectNote \/ CloseMatter \/ ReminderDue \/ Unsubscribe \/ NoteTimer
             \/ UNCHANGED postVars \/ \E w \in Sender : ClaimNote(w) \/ ReadFacts(w) \/ CrashSender(w)
    <3>1. UNCHANGED email
      BY <2>4 DEF OpenMatter, ProjectNote, CloseMatter, ReminderDue, Unsubscribe, NoteTimer, RedriveNote,
                  ElapseNote, postVars, ClaimNote, ReadFacts, CrashSender
    <3> QED  BY <2>1, <3>1
  <2> QED  BY <2>2, <2>3, <2>4 DEF PostNext, PostStep
<1> QED  BY <1>5, <1>6

\* Every step gives one worker a post of the right type, or none.
LEMMA PostsKeepType ==
    ASSUME PostTypeOK, [PostNext]_postVars
    PROVE  post' \in [Sender -> Post]
<1>0. post \in [Sender -> Post] /\ NoPost \in Post
  BY PostTypes DEF NoPost, Post
<1>1. ASSUME NEW w \in Sender, NEW p \in Post, post' = [post EXCEPT ![w] = p]  PROVE post' \in [Sender -> Post]
  BY <1>0, <1>1
<1>2. ASSUME NEW w \in Sender, NEW s \in {"BEGUN", "CHECKED", "UNSENT", "SENT"}, Onward(w, s)
      PROVE  post' \in [Sender -> Post]
  <2>1. [post[w] EXCEPT !.step = s] \in Post
    BY <1>0 DEF Post
  <2> QED  BY <1>1, <1>2, <2>1 DEF Onward
<1>3. ASSUME NEW w \in Sender, NEW t \in {"note", "email"}, Take(w, t)  PROVE post' \in [Sender -> Post]
  <2>1. [table |-> t, step |-> "BEGUN"] \in Post
    BY DEF Post
  <2> QED  BY <1>1, <1>3, <2>1 DEF Take
<1>4. ASSUME NEW w \in Sender, Release(w)  PROVE post' \in [Sender -> Post]
  BY <1>0, <1>1, <1>4 DEF Release
<1>5. CASE \/ OpenMatter \/ ProjectNote \/ CloseMatter \/ ReminderDue \/ Unsubscribe \/ NoteTimer \/ EmailTimer
           \/ UNCHANGED postVars
  <2>1. UNCHANGED post
    BY <1>5 DEF OpenMatter, ProjectNote, CloseMatter, ReminderDue, Unsubscribe, NoteTimer, RedriveNote,
                ElapseNote, EmailTimer, RedriveEmail, ElapseEmail, postVars
  <2> QED  BY <1>0, <2>1
<1>6. ASSUME NEW w \in Sender, PostStep(w) \/ ClaimNote(w) \/ ClaimEmail(w) \/ PostError(w) \/ CrashSender(w)
      PROVE  post' \in [Sender -> Post]
  <2>1. \/ Release(w)
        \/ \E s \in {"BEGUN", "CHECKED", "UNSENT", "SENT"} : Onward(w, s)
        \/ \E t \in {"note", "email"} : Take(w, t)
    BY <1>6 DEF PostStep, ReadFacts, WriteEmail, SearchSent, Send, MarkSent, ClaimNote, ClaimEmail,
                PostError, CrashSender
  <2> QED  BY <1>2, <1>3, <1>4, <2>1
<1> QED  BY <1>5, <1>6 DEF PostNext

LEMMA AroundKeepsTypes ==
    ASSUME PostTypeOK, [PostNext]_postVars
    PROVE  /\ matter' \in {"NEGOTIATION", "DUTY"}
           /\ {open', due', reachable', projecting', overrun'} \subseteq BOOLEAN
           /\ copies' \in Nat /\ postFaults' \in 0..PostFaults
<1>0. /\ open \in BOOLEAN /\ due \in BOOLEAN /\ reachable \in BOOLEAN /\ projecting \in BOOLEAN
      /\ overrun \in BOOLEAN /\ matter \in {"NEGOTIATION", "DUTY"}
  BY DEF PostTypeOK
<1>a. copies \in Nat /\ postFaults \in 0..PostFaults /\ PostFaults \in Nat
  BY PostTypes
<1>1. CASE \/ OpenMatter \/ ProjectNote \/ CloseMatter \/ ReminderDue \/ Unsubscribe \/ UNCHANGED postVars
  <2>1. matter' = matter /\ copies' = copies /\ overrun' = overrun
    BY <1>1 DEF OpenMatter, ProjectNote, CloseMatter, ReminderDue, Unsubscribe, postVars, around
  <2>2. open' \in BOOLEAN /\ due' \in BOOLEAN /\ reachable' \in BOOLEAN /\ projecting' \in BOOLEAN
    BY <1>0, <1>1 DEF OpenMatter, ProjectNote, CloseMatter, ReminderDue, Unsubscribe, postVars, around
  <2>3. postFaults' \in 0..PostFaults
    BY <1>a, <1>1 DEF OpenMatter, ProjectNote, CloseMatter, ReminderDue, Unsubscribe, postVars, PostFault
  <2> QED  BY <1>0, <1>a, <2>1, <2>2, <2>3
<1>2. CASE NoteTimer \/ EmailTimer
  <2>1. UNCHANGED <<matter, open, due, reachable, projecting, copies>>
    BY <1>2 DEF NoteTimer, RedriveNote, ElapseNote, EmailTimer, RedriveEmail, ElapseEmail, around
  <2>2. overrun' \in BOOLEAN
    BY <1>0, <1>2 DEF NoteTimer, RedriveNote, ElapseNote, EmailTimer, RedriveEmail, ElapseEmail, Overrun
  <2>3. postFaults' \in 0..PostFaults
    BY <1>a, <1>2 DEF NoteTimer, RedriveNote, ElapseNote, EmailTimer, RedriveEmail, ElapseEmail, Overrun, PostFault
  <2> QED  BY <1>0, <1>a, <2>1, <2>2, <2>3
<1>3. ASSUME NEW w \in Sender, PostStep(w) \/ ClaimNote(w) \/ ClaimEmail(w) \/ PostError(w) \/ CrashSender(w)
      PROVE  /\ UNCHANGED <<matter, open, reachable, projecting, overrun>>
             /\ due' \in BOOLEAN /\ copies' \in Nat /\ postFaults' \in 0..PostFaults
  <2>1. UNCHANGED <<matter, open, reachable, projecting, overrun>>
    BY <1>3 DEF PostStep, ReadFacts, WriteEmail, SearchSent, Send, MarkSent, ClaimNote, ClaimEmail,
                PostError, CrashSender, around
  <2>2. due' \in BOOLEAN
    BY <1>0, <1>3 DEF PostStep, ReadFacts, WriteEmail, SearchSent, Send, MarkSent, ClaimNote, ClaimEmail,
                PostError, CrashSender
  <2>3. copies' \in Nat
    BY <1>a, <1>3 DEF PostStep, ReadFacts, WriteEmail, SearchSent, Send, MarkSent, ClaimNote, ClaimEmail,
                PostError, CrashSender
  <2>4. postFaults' \in 0..PostFaults
    BY <1>a, <1>3 DEF PostStep, ReadFacts, WriteEmail, SearchSent, Send, MarkSent, ClaimNote, ClaimEmail,
                PostError, CrashSender, PostFault
  <2> QED  BY <2>1, <2>2, <2>3, <2>4
<1>4. CASE \E w \in Sender : PostStep(w) \/ ClaimNote(w) \/ ClaimEmail(w) \/ PostError(w) \/ CrashSender(w)
  BY <1>0, <1>3, <1>4
<1> QED  BY <1>1, <1>2, <1>4 DEF PostNext

LEMMA PostStepKeeps ==
    ASSUME PostInv, [PostNext]_postVars, SentForFaults', HeldByOne'
    PROVE  PostInv'
<1>1. PostTypeOK
  BY DEF PostInv
<1>2. copies' \in 0..PostFaults + 2
  BY <1>1, AroundKeepsTypes, CopiesAreBounded
<1>3. PostTypeOK'
  BY <1>1, <1>2, RowsKeepTypes, PostsKeepType, AroundKeepsTypes DEF PostTypeOK
<1> QED  BY <1>3 DEF PostInv

\* A step that is not about the row in outbound_email_jobs.
LEMMA AsideKeeps ==
    ASSUME PostInv, [PostNext]_postVars, email' = email, copies' = copies, Holders' = Holders,
           \A w \in Holders : post'[w] = post[w], overrun' = overrun \/ overrun',
           postFaults' = postFaults \/ PostFault
    PROVE  PostInv'
<1>1. MaySend' = MaySend
  BY DEF MaySend
<1>2. SendTickets' = SendTickets /\ SendTickets \in {0, 1}
  BY DEF SendTickets
<1>3. SentForFaults'
  BY <1>1, <1>2, NoMoreCopies
<1>4. HeldByOne'
  BY DEF PostInv, HeldByOne
<1> QED  BY <1>3, <1>4, PostStepKeeps

LEMMA MattersKeep ==
    ASSUME PostInv,
           \/ OpenMatter \/ ProjectNote \/ CloseMatter \/ ReminderDue \/ Unsubscribe \/ NoteTimer
           \/ UNCHANGED postVars
    PROVE  PostInv'
<1>1. UNCHANGED <<email, copies, post>>
  BY DEF OpenMatter, ProjectNote, CloseMatter, ReminderDue, Unsubscribe, NoteTimer, RedriveNote,
         ElapseNote, postVars
<1>2. Holders' = Holders /\ \A w \in Holders : post'[w] = post[w]
  BY <1>1 DEF Holders
<1>3. (overrun' = overrun \/ overrun') /\ (postFaults' = postFaults \/ PostFault)
  BY DEF OpenMatter, ProjectNote, CloseMatter, ReminderDue, Unsubscribe, NoteTimer, RedriveNote,
         ElapseNote, Overrun, postVars
<1>4. [PostNext]_postVars
  BY DEF PostNext
<1> QED  BY <1>1, <1>2, <1>3, <1>4, AsideKeeps

LEMMA NoteWorkKeeps ==
    ASSUME PostInv, NEW w \in Sender,
           \/ ClaimNote(w) \/ ReadFacts(w) \/ (WriteEmail(w) /\ email.state # "NONE")
           \/ (post[w].table # "email" /\ (PostError(w) \/ CrashSender(w)))
    PROVE  PostInv'
<1>0. post \in [Sender -> Post]
  BY PostTypes DEF PostInv
<1>1. UNCHANGED <<email, copies, overrun>>
  BY DEF ClaimNote, ReadFacts, WriteEmail, PostError, CrashSender, around
<1>2. post[w].table # "email"
  BY DEF ClaimNote, ReadFacts, WriteEmail, PostAt, Take, NoPost
<1>3. /\ \A v \in Sender \ {w} : post'[v] = post[v]
      /\ post'[w].table # "email"
  <2>1. CASE Take(w, "note")
    BY <1>0, <2>1 DEF Take
  <2>2. CASE Release(w)
    BY <1>0, <2>2 DEF Release, NoPost
  <2>3. CASE Onward(w, "CHECKED")
    BY <1>0, <1>2, <2>3 DEF Onward, Post
  <2> QED  BY <2>1, <2>2, <2>3 DEF ClaimNote, ReadFacts, WriteEmail, PostError, CrashSender
<1>4. Holders' = Holders /\ \A v \in Holders : post'[v] = post[v]
  BY <1>2, <1>3 DEF Holders
<1>5. postFaults' = postFaults \/ PostFault
  BY DEF ClaimNote, ReadFacts, WriteEmail, PostError, CrashSender
<1>6. [PostNext]_postVars
  BY DEF PostNext, PostStep
<1> QED  BY <1>1, <1>4, <1>5, <1>6, AsideKeeps
\* The lease passes, a dead letter is put back, or the row comes to be.
LEMMA EmailRowMoves ==
    ASSUME PostInv, EmailTimer \/ \E w \in Sender : WriteEmail(w) /\ email.state = "NONE"
    PROVE  PostInv'
<1>0. post \in [Sender -> Post] /\ postFaults \in Nat /\ email \in Row(RowStates) /\ SendTickets \in {0, 1}
  BY PostTypes DEF PostInv
<1>1. /\ Holders' = Holders /\ copies' = copies /\ \A w \in Holders : post'[w] = post[w]
  <2>1. CASE EmailTimer
    BY <2>1 DEF EmailTimer, RedriveEmail, ElapseEmail, Holders
  <2>2. ASSUME NEW w \in Sender, WriteEmail(w)
        PROVE  Holders' = Holders /\ copies' = copies /\ \A v \in Holders : post'[v] = post[v]
    <3>1. post[w].table = "note" /\ post' = [post EXCEPT ![w] = NoPost] /\ copies' = copies
      BY <2>2 DEF WriteEmail, PostAt, Release
    <3>2. post'[w].table = "NONE" /\ \A v \in Sender \ {w} : post'[v] = post[v]
      BY <1>0, <3>1 DEF NoPost
    <3> QED  BY <3>1, <3>2 DEF Holders
  <2> QED  BY <2>1, <2>2
<1>2. MaySend' = MaySend
  BY <1>1 DEF MaySend
<1>3. PostFault \/ (UNCHANGED <<overrun, postFaults>> /\ (ElapseEmail => Holders = {}))
  BY DEF EmailTimer, RedriveEmail, ElapseEmail, Overrun, WriteEmail, Holders
<1>4. SentForFaults'
  <2>1. CASE PostFault
    BY <1>1, <1>2, <2>1, NoMoreCopies
  <2>2. CASE UNCHANGED postFaults /\ ~PostFault
    <3>1. SendTickets = 1
      BY <1>3, <2>2 DEF EmailTimer, RedriveEmail, ElapseEmail, SendTickets, Unheld
    <3>2. SendTickets' \in {0, 1}
      BY DEF SendTickets
    <3>3. SendTickets' <= SendTickets
      BY <3>1, <3>2
    <3> QED  BY <1>1, <1>2, <2>2, <3>3, NoMoreCopies
  <2> QED  BY <1>3, <2>1, <2>2
<1>5. HeldByOne'
  <2>1. CASE Holders = {}
    <3>1. overrun' = overrun \/ overrun'
      BY DEF EmailTimer, RedriveEmail, ElapseEmail, Overrun, WriteEmail
    <3> QED  BY <1>1, <2>1, <3>1 DEF PostInv, HeldByOne
  <2>2. CASE Holders # {}
    <3>1. overrun \/ email.state = "PROCESSING"
      BY <2>2 DEF PostInv, HeldByOne
    <3>2. overrun'
      BY <2>2, <3>1 DEF EmailTimer, RedriveEmail, ElapseEmail, Overrun, WriteEmail, Holders
    <3> QED  BY <3>2 DEF HeldByOne
  <2> QED  BY <2>1, <2>2
<1>6. [PostNext]_postVars
  BY DEF PostNext, PostStep
<1> QED  BY <1>4, <1>5, <1>6, PostStepKeeps

LEMMA EmailIsClaimed ==
    ASSUME PostInv, NEW w \in Sender, ClaimEmail(w)
    PROVE  PostInv'
<1>0. /\ post \in [Sender -> Post] /\ copies \in Nat /\ postFaults \in Nat
      /\ email \in Row(RowStates) /\ SendTickets \in {0, 1}
  BY PostTypes DEF PostInv
<1>1. /\ post[w] = NoPost /\ post' = [post EXCEPT ![w] = [table |-> "email", step |-> "BEGUN"]]
      /\ email' = Claimed(email) /\ UNCHANGED <<copies, overrun, postFaults>>
  BY DEF ClaimEmail, Take
<1>2. post'[w] = [table |-> "email", step |-> "BEGUN"] /\ \A v \in Sender \ {w} : post'[v] = post[v]
  BY <1>0, <1>1
<1>3. w \notin Holders /\ w \notin MaySend
  BY <1>1 DEF Holders, MaySend, NoPost
<1>4. Holders' = Holders \cup {w} /\ MaySend' = MaySend \cup {w}
  BY <1>2, <1>3 DEF Holders, MaySend
<1>5. email'.state = "PROCESSING" /\ ~email'.old
  BY <1>0, <1>1, ClaimedType DEF RowStates
<1>6. Claimable(email, {"PENDING"})
  BY DEF ClaimEmail
<1>7. SentForFaults'
  <2>1. SendTickets = 1
    BY <1>6 DEF Claimable, SendTickets, Unheld
  <2>2. SendTickets' = 0
    BY <1>4, <1>5 DEF SendTickets, Unheld
  <2>3. Cardinality(MaySend') = Cardinality(MaySend) + 1
    BY <1>3, <1>4, SendersAreFew, FS_AddElement
  <2>4. copies + Cardinality(MaySend) + SendTickets <= postFaults + 1
    BY DEF PostInv, SentForFaults
  <2>5. copies + (Cardinality(MaySend) + 1) + 0 <= postFaults + 1
    BY <1>0, <2>1, <2>4, SendersAreFew, CallsMove
  <2>6. copies' = copies /\ postFaults' = postFaults /\ Cardinality(MaySend') = Cardinality(MaySend)'
    BY <1>1
  <2> QED  BY <2>2, <2>3, <2>5, <2>6 DEF SentForFaults
<1>8. HeldByOne'
  <2>1. CASE overrun
    BY <1>1, <2>1 DEF HeldByOne
  <2>2. CASE ~overrun
    <3>1. Holders = {}
      BY <1>6, <2>2 DEF PostInv, HeldByOne, Claimable
    <3>2. copies <= 1
      BY <2>2 DEF PostInv, HeldByOne
    <3> QED  BY <1>1, <1>2, <1>4, <1>5, <3>1, <3>2 DEF HeldByOne
  <2> QED  BY <2>1, <2>2
<1>9. [PostNext]_postVars
  BY DEF PostNext
<1> QED  BY <1>7, <1>8, <1>9, PostStepKeeps

\* The holder lets go of the row: it marks what it has done or fails.
LEMMA HolderLeaves ==
    ASSUME PostInv, NEW w \in Holders, Release(w), copies' = copies, overrun' = overrun,
           \/ PostFault
           \/ postFaults' = postFaults /\ \E s \in {"SUPPRESSED", "SENT"} : email' = Finished(email, s)
    PROVE  SentForFaults' /\ HeldByOne'
<1>0. /\ post \in [Sender -> Post] /\ copies \in Nat /\ postFaults \in Nat /\ w \in Sender
      /\ email \in Row(RowStates) /\ SendTickets \in {0, 1}
  BY PostTypes DEF PostInv, Holders
<1>1. post'[w] = NoPost /\ \A v \in Sender \ {w} : post'[v] = post[v]
  BY <1>0 DEF Release
<1>2. Holders' = Holders \ {w} /\ MaySend' \subseteq MaySend
  BY <1>1 DEF Holders, MaySend, NoPost
<1>3. SentForFaults'
  <2>1. CASE PostFault
    BY <1>2, <2>1, NoMoreCopies
  <2>2. CASE postFaults' = postFaults /\ \E s \in {"SUPPRESSED", "SENT"} : email' = Finished(email, s)
    <3>1. PICK s \in {"SUPPRESSED", "SENT"} : email' = Finished(email, s)
      BY <2>2
    <3>2. Unheld(email, Holders)' => Unheld(email, Holders)
      <4>1. s \in RowStates
        BY DEF RowStates
      <4>2. CASE email.state = "PROCESSING"
        <5>1. email'.state = s
          BY <1>0, <3>1, <4>1, <4>2, FinishedType
        <5> QED  BY <5>1 DEF Unheld
      <4>3. CASE email.state # "PROCESSING"
        <5>1. email' = email
          BY <1>0, <3>1, <4>1, <4>3, FinishedType
        <5> QED  BY <4>3, <5>1 DEF Unheld
      <4> QED  BY <4>2, <4>3
    <3>3. SendTickets' <= SendTickets
      BY <3>2 DEF SendTickets
    <3> QED  BY <1>2, <2>2, <3>3, NoMoreCopies
  <2> QED  BY <2>1, <2>2
<1>4. HeldByOne'
  <2>1. CASE overrun
    BY <2>1 DEF HeldByOne
  <2>2. CASE ~overrun
    <3>1. Holders' = {}
      BY <1>2, <2>2 DEF PostInv, HeldByOne
    <3> QED  BY <2>2, <3>1 DEF PostInv, HeldByOne
  <2> QED  BY <2>1, <2>2
<1> QED  BY <1>3, <1>4

LEMMA EmailWorkKeeps ==
    ASSUME PostInv, NEW w \in Sender,
           \/ MarkSent(w) \/ (SearchSent(w) /\ ~reachable)
           \/ (post[w].table = "email" /\ (PostError(w) \/ CrashSender(w)))
    PROVE  PostInv'
<1>1. w \in Holders
  BY DEF Holders, MarkSent, SearchSent, PostAt
<1>2. Release(w) /\ copies' = copies /\ overrun' = overrun
  BY DEF MarkSent, SearchSent, PostError, CrashSender
<1>3. \/ PostFault
      \/ postFaults' = postFaults /\ \E s \in {"SUPPRESSED", "SENT"} : email' = Finished(email, s)
  BY DEF MarkSent, SearchSent, PostError, CrashSender
<1>4. [PostNext]_postVars
  BY DEF PostNext, PostStep
<1> QED  BY <1>1, <1>2, <1>3, <1>4, HolderLeaves, PostStepKeeps

\* The search tells the holder whether it may still send.
LEMMA SearchKeeps ==
    ASSUME PostInv, NEW w \in Sender, SearchSent(w), reachable
    PROVE  PostInv'
<1>0. post \in [Sender -> Post] /\ copies \in Nat /\ SendTickets \in {0, 1}
  BY PostTypes DEF PostInv
<1> DEFINE s == IF Found THEN "SENT" ELSE "UNSENT"
<1>1. /\ post[w] = [table |-> "email", step |-> "BEGUN"] /\ post' = [post EXCEPT ![w].step = s]
      /\ UNCHANGED <<email, copies, overrun, postFaults>>
  BY DEF SearchSent, PostAt, Onward
<1>2. (s = "SENT" \/ s = "UNSENT") /\ (s = "UNSENT" => copies = 0)
  BY <1>0 DEF Found
<1> HIDE DEF s
<1>3. post'[w] = [table |-> "email", step |-> s] /\ \A v \in Sender \ {w} : post'[v] = post[v]
  BY <1>0, <1>1
<1>4. w \in Holders /\ Holders' = Holders /\ MaySend' \subseteq MaySend
  BY <1>1, <1>3 DEF Holders, MaySend
<1>5. SentForFaults'
  <2>1. SendTickets' = SendTickets
    BY <1>1, <1>4 DEF SendTickets
  <2> QED  BY <1>0, <1>1, <1>4, <2>1, NoMoreCopies
<1>6. HeldByOne'
  <2>1. CASE overrun
    BY <1>1, <2>1 DEF HeldByOne
  <2>2. CASE ~overrun
    <3>1. Holders = {w} /\ email.state = "PROCESSING" /\ ~email.old /\ copies <= 1
      BY <1>4, <2>2 DEF PostInv, HeldByOne
    <3> QED  BY <1>1, <1>2, <1>3, <1>4, <2>2, <3>1 DEF HeldByOne
  <2> QED  BY <2>1, <2>2
<1>7. [PostNext]_postVars
  BY DEF PostNext, PostStep
<1> QED  BY <1>5, <1>6, <1>7, PostStepKeeps
LEMMA FaultPaysForOne ==
    ASSUME NEW x \in Nat, NEW n \in Nat, NEW t \in {0, 1}, NEW u \in {0, 1}, NEW f \in Nat,
           x + n + t <= f + 1
    PROVE  x + n + u <= (f + 1) + 1
OBVIOUS

LEMMA SendKeeps ==
    ASSUME PostInv, NEW w \in Sender, Send(w)
    PROVE  PostInv'
<1>0. post \in [Sender -> Post] /\ copies \in Nat /\ postFaults \in Nat /\ SendTickets \in {0, 1}
  BY PostTypes DEF PostInv
<1>1. post[w] = [table |-> "email", step |-> "UNSENT"] /\ copies' = copies + 1 /\ overrun' = overrun
  BY DEF Send, PostAt
<1>2. w \in Holders /\ w \in MaySend
  BY <1>1 DEF Holders, MaySend
<1>3. Cardinality(MaySend) > 0
  BY <1>2, SendersAreFew, FS_EmptySet
<1>4. (copies + 1) + (Cardinality(MaySend) - 1) + SendTickets <= postFaults + 1
  <2>1. copies + Cardinality(MaySend) + SendTickets <= postFaults + 1
    BY DEF PostInv, SentForFaults
  <2> QED  BY <1>0, <1>3, <2>1, SendersAreFew, CallsMove
<1>5. CASE Onward(w, "SENT") /\ UNCHANGED <<email, postFaults>>
  <2>1. post'[w] = [table |-> "email", step |-> "SENT"] /\ \A v \in Sender \ {w} : post'[v] = post[v]
    BY <1>0, <1>1, <1>5 DEF Onward
  <2>2. Holders' = Holders /\ MaySend' = MaySend \ {w}
    BY <1>1, <2>1 DEF Holders, MaySend
  <2>3. SentForFaults'
    <3>1. SendTickets' = SendTickets
      BY <1>5, <2>2 DEF SendTickets
    <3>2. Cardinality(MaySend') = Cardinality(MaySend) - 1
      BY <1>2, <2>2, SendersAreFew, FS_RemoveElement
    <3>3. postFaults' = postFaults /\ Cardinality(MaySend') = Cardinality(MaySend)'
      BY <1>5
    <3> QED  BY <1>1, <1>4, <3>1, <3>2, <3>3 DEF SentForFaults
  <2>4. HeldByOne'
    <3>1. CASE overrun
      BY <1>1, <3>1 DEF HeldByOne
    <3>2. CASE ~overrun
      <4>1. Holders = {w} /\ email.state = "PROCESSING" /\ ~email.old /\ copies = 0
        BY <1>1, <1>2, <3>2 DEF PostInv, HeldByOne
      <4>2. copies' <= 1 /\ Holders' = {w} /\ post'[w].step # "UNSENT"
        BY <1>1, <2>1, <2>2, <4>1
      <4> QED  BY <1>5, <4>1, <4>2 DEF HeldByOne
    <3> QED  BY <3>1, <3>2
  <2> QED  BY <2>3, <2>4, PostStepKeeps DEF PostNext, PostStep
<1>6. CASE Release(w) /\ PostFault
  <2>1. post'[w] = NoPost /\ \A v \in Sender \ {w} : post'[v] = post[v]
    BY <1>0, <1>6 DEF Release
  <2>2. Holders' = Holders \ {w} /\ MaySend' = MaySend \ {w}
    BY <2>1 DEF Holders, MaySend, NoPost
  <2>3. SentForFaults'
    <3>1. SendTickets' \in {0, 1}
      BY DEF SendTickets
    <3>2. Cardinality(MaySend') = Cardinality(MaySend) - 1
      BY <1>2, <2>2, SendersAreFew, FS_RemoveElement
    <3>3. (copies + 1) + (Cardinality(MaySend) - 1) + SendTickets' <= (postFaults + 1) + 1
      <4>1. copies + 1 \in Nat /\ Cardinality(MaySend) - 1 \in Nat
        BY <1>0, <1>3, SendersAreFew
      <4> QED  BY <1>0, <1>4, <3>1, <4>1, FaultPaysForOne
    <3>4. postFaults' = postFaults + 1 /\ Cardinality(MaySend') = Cardinality(MaySend)'
      BY <1>6 DEF PostFault
    <3> QED  BY <1>1, <3>2, <3>3, <3>4 DEF SentForFaults
  <2>4. HeldByOne'
    <3>1. CASE overrun
      BY <1>1, <3>1 DEF HeldByOne
    <3>2. CASE ~overrun
      <4>1. Holders = {w} /\ copies = 0
        BY <1>1, <1>2, <3>2 DEF PostInv, HeldByOne
      <4> QED  BY <1>1, <2>2, <4>1 DEF HeldByOne
    <3> QED  BY <3>1, <3>2
  <2> QED  BY <2>3, <2>4, PostStepKeeps DEF PostNext, PostStep
<1> QED  BY <1>5, <1>6 DEF Send

LEMMA MessageKeeps ==
    ASSUME PostInv, [PostNext]_postVars
    PROVE  PostInv'
<1>1. CASE PostNext
  <2>1. ASSUME NEW w \in Sender, PostStep(w) \/ ClaimNote(w) \/ ClaimEmail(w) \/ PostError(w) \/ CrashSender(w)
        PROVE  PostInv'
    BY <2>1, NoteWorkKeeps, EmailRowMoves, EmailIsClaimed, EmailWorkKeeps, SearchKeeps, SendKeeps DEF PostStep
  <2> QED  BY <1>1, <2>1, MattersKeep, EmailRowMoves DEF PostNext
<1>2. CASE UNCHANGED postVars
  BY <1>2, MattersKeep
<1> QED  BY <1>1, <1>2

\* The inductive invariant of the outgoing message holds
\* (inbox_processors.ts:1225-1268, gmail.ts:161-176).
THEOREM PostInvariance == PostSpec => []PostInv
BY MessageBegins, MessageKeeps, PTL DEF PostSpec

\* A message goes out once unless a worker outlives its lease, however many
\* workers crash or lose Gmail's answer (gmail.ts:161-176).
THEOREM OneCopyGoesOut == PostSpec => []OneCopy
<1>1. PostInv => OneCopy
  BY PostTypes DEF PostInv, HeldByOne, OneCopy
<1> QED  BY <1>1, PostInvariance, PTL

\* Overruns included, a message goes out once and once more for each fault.
THEOREM CopiesFollowFaults == PostSpec => [](copies <= postFaults + 1)
<1>1. PostInv => copies <= postFaults + 1
  <2> SUFFICES ASSUME PostInv  PROVE copies <= postFaults + 1
    OBVIOUS
  <2>1. copies \in Nat /\ SendTickets \in {0, 1} /\ postFaults \in Nat /\ Cardinality(MaySend) \in Nat
    BY PostTypes, SendersAreFew DEF PostInv
  <2> QED  BY <2>1, AtMost DEF PostInv, SentForFaults
<1> QED  BY <1>1, PostInvariance, PTL
-------------------------------------------------------------------------------
(* The documents and the drafts that rest on them.                         *)

\* A job, a worker's task and a check are about a document that is stored, and
\* the receipt of a check is stored with it.
EvidenceStored ==
    /\ \A d \in Document : verifying[d].state # "NONE" => d <= documents
    /\ \A d \in Document : \A k \in CheckType : checks[d][k] # "NONE" => receipts[d] > 0 /\ d <= documents
    /\ \A w \in Clerk : desk[w].table = "verifying" => desk[w].doc \in 1..documents

\* The inductive invariant of the documents.
DocInv == DocTypeOK /\ EvidenceStored /\ PromotedRestsOnEvidence

CheckRow  == Row({"NONE", "PENDING", "PROCESSING", "DEAD", "UNAVAILABLE"} \cup Answers)
IntakeRow == Row({"NONE", "PENDING", "PROCESSING", "DEAD", "COMPLETED", "REJECTED_SECURITY"})
Desk  == [doc : 0..MaxDocuments, table : {"NONE", "intake", "verifying"}]
Sheet == [CheckType -> {"NONE", "LAPSED"} \cup Answers]

LEMMA DocTypes ==
    ASSUME DocTypeOK
    PROVE  /\ intake \in IntakeRow /\ verifying \in [Document -> CheckRow] /\ documents \in 0..MaxDocuments
           /\ checks \in [Document -> Sheet] /\ receipts \in [Document -> Nat]
           /\ desk \in [Clerk -> Desk] /\ docFaults \in 0..DocFaults /\ promoted \in [Draft -> Basis]
           /\ DocFaults \in Nat /\ MaxDocuments \in Nat /\ documents \in Nat
<1>1. intake \in IntakeRow /\ verifying \in [Document -> CheckRow]
  BY DEF DocTypeOK, IntakeRow, CheckRow
<1>2. checks \in [Document -> Sheet] /\ receipts \in [Document -> Nat] /\ desk \in [Clerk -> Desk]
  BY DEF DocTypeOK, Desk, Sheet
<1>3. documents \in 0..MaxDocuments /\ docFaults \in 0..DocFaults /\ promoted \in [Draft -> Basis]
  BY DEF DocTypeOK
<1> QED  BY <1>1, <1>2, <1>3, DocAssumption

LEMMA DocumentsBegin == DocInit => DocInv
<1> SUFFICES ASSUME DocInit  PROVE DocInv
  OBVIOUS
<1>1. DocTypeOK
  <2>1. intake \in IntakeRow /\ verifying \in [Document -> CheckRow]
    BY NewRowType DEF DocInit, IntakeRow, CheckRow
  <2>2. desk \in [Clerk -> Desk] /\ documents \in 0..MaxDocuments /\ docFaults \in 0..DocFaults
    BY DocAssumption DEF DocInit, NoDesk, Desk
  <2>3. checks \in [Document -> Sheet] /\ receipts \in [Document -> Nat]
    BY DEF DocInit, NoChecks, Sheet
  <2>4. promoted \in [Draft -> Basis]
    BY DocAssumption DEF DocInit, NoBasis, Basis
  <2> QED  BY <2>1, <2>2, <2>3, <2>4 DEF DocInit, DocTypeOK, IntakeRow, CheckRow, Desk, Sheet
<1>2. EvidenceStored
  BY <1>1, NewRowType DEF DocInit, EvidenceStored, NoDesk, NewRow, NoChecks
<1>3. PromotedRestsOnEvidence
  BY DEF DocInit, PromotedRestsOnEvidence
<1> QED  BY <1>1, <1>2, <1>3 DEF DocInv

\* What the verification dispatcher's statements do to a job.
LEMMA ChecksMove ==
    ASSUME NEW row \in CheckRow
    PROVE  /\ \A s \in {"PENDING", "UNAVAILABLE"} \cup Answers :
                /\ Finished(row, s) \in CheckRow /\ Set(row, s) \in CheckRow
                /\ row.state = "NONE" => Finished(row, s).state = "NONE"
           /\ Failed(row, "PENDING") \in CheckRow /\ Claimed(row) \in CheckRow /\ Elapsed(row) \in CheckRow
           /\ row.state = "NONE" => Failed(row, "PENDING").state = "NONE"
<1> DEFINE S == {"NONE", "PENDING", "PROCESSING", "DEAD", "UNAVAILABLE"} \cup Answers
<1>1. CheckRow = Row(S) /\ {"NONE", "PENDING", "PROCESSING", "DEAD", "UNAVAILABLE"} \subseteq S /\ Answers \subseteq S
  BY DEF CheckRow
<1> HIDE DEF S
<1>2. ASSUME NEW s \in {"PENDING", "UNAVAILABLE"} \cup Answers
      PROVE  /\ Finished(row, s) \in CheckRow /\ Set(row, s) \in CheckRow
             /\ row.state = "NONE" => Finished(row, s).state = "NONE"
  <2>1. s \in S
    BY <1>1
  <2> QED  BY <1>1, <2>1, FinishedType, SetType
<1>3. /\ Failed(row, "PENDING") \in CheckRow
      /\ row.state = "NONE" => Failed(row, "PENDING").state = "NONE"
  BY <1>1, FailedType
<1>4. Claimed(row) \in CheckRow /\ Elapsed(row) \in CheckRow
  BY <1>1, ClaimedType, ElapsedType
<1> QED  BY <1>2, <1>3, <1>4

LEMMA IntakeMoves ==
    ASSUME NEW row \in IntakeRow
    PROVE  /\ \A s \in {"PENDING", "COMPLETED", "REJECTED_SECURITY"} :
                Finished(row, s) \in IntakeRow /\ Set(row, s) \in IntakeRow
           /\ Failed(row, "PENDING") \in IntakeRow /\ Claimed(row) \in IntakeRow /\ Elapsed(row) \in IntakeRow
           /\ NewRow("PENDING") \in IntakeRow
<1> DEFINE S == {"NONE", "PENDING", "PROCESSING", "DEAD", "COMPLETED", "REJECTED_SECURITY"}
<1>1. IntakeRow = Row(S) /\ {"PENDING", "PROCESSING", "DEAD", "COMPLETED", "REJECTED_SECURITY"} \subseteq S
  BY DEF IntakeRow
<1> HIDE DEF S
<1> QED  BY <1>1, FinishedType, FailedType, SetType, ClaimedType, ElapsedType, NewRowType

\* One clerk's desk changes.
LEMMA DeskMoves ==
    ASSUME DocInv, NEW w \in Clerk, NEW x \in Desk, desk' = [desk EXCEPT ![w] = x],
           documents' = documents, x.table = "verifying" => x.doc \in 1..documents
    PROVE  /\ desk' \in [Clerk -> Desk]
           /\ \A v \in Clerk : desk'[v].table = "verifying" => desk'[v].doc \in 1..documents'
<1>1. desk \in [Clerk -> Desk]
  BY DocTypes DEF DocInv
<1> QED  BY <1>1 DEF DocInv, EvidenceStored

LEMMA AroundDocumentsKeeps ==
    ASSUME DocInv,
           \/ MailDocument \/ PostDraft \/ DecideVerdict \/ IntakeTimer \/ BeginRound
           \/ UNCHANGED docVars
    PROVE  DocInv'
<1>0. intake \in IntakeRow /\ docFaults \in 0..DocFaults /\ DocFaults \in Nat
  BY DocTypes DEF DocInv
<1>1. UNCHANGED <<evidence, promoted, desk>>
  BY DEF MailDocument, PostDraft, DecideVerdict, IntakeTimer, RedriveIntake, ElapseIntake, BeginRound,
         docVars, offers, evidence
<1>2. intake' \in IntakeRow
  BY <1>0, IntakeMoves DEF MailDocument, PostDraft, DecideVerdict, IntakeTimer, RedriveIntake, ElapseIntake,
         BeginRound, docVars
<1>3. docFaults' \in 0..DocFaults
  BY <1>0 DEF MailDocument, PostDraft, DecideVerdict, IntakeTimer, RedriveIntake, ElapseIntake,
         BeginRound, docVars, DocFault
<1>4. /\ verdict' \in {"NONE", "PASS", "REJECT", "FREEZE"}
      /\ drafts' \subseteq Draft /\ round' \subseteq Draft
  <2>1. /\ verdict \in {"NONE", "PASS", "REJECT", "FREEZE"}
        /\ drafts \subseteq Draft /\ round \subseteq Draft /\ 1 \in Draft
    BY DEF DocInv, DocTypeOK, Draft
  <2>3. verdict' \in {"NONE", "PASS", "REJECT", "FREEZE"}
    BY <2>1 DEF MailDocument, PostDraft, DecideVerdict, IntakeTimer, RedriveIntake, ElapseIntake,
                BeginRound, docVars, offers
  <2>4. drafts' \subseteq Draft /\ round' \subseteq Draft
    BY <2>1 DEF MailDocument, PostDraft, DecideVerdict, IntakeTimer, RedriveIntake, ElapseIntake,
                BeginRound, docVars, offers
  <2> QED  BY <2>3, <2>4
<1> QED  BY <1>1, <1>2, <1>3, <1>4
         DEF DocInv, DocTypeOK, IntakeRow, EvidenceStored, PromotedRestsOnEvidence, evidence
\* A step of a job after which the desk is clear or has been given the job.
LEMMA ChecksKeep ==
    ASSUME DocInv, [DocNext]_docVars, UNCHANGED <<intake, documents, checks, receipts, offers>>,
           desk' \in [Clerk -> Desk], verifying' \in [Document -> CheckRow], docFaults' \in 0..DocFaults,
           \A d \in Document : verifying[d].state = "NONE" => verifying'[d].state = "NONE",
           \A v \in Clerk : desk'[v].table = "verifying" => desk'[v].doc \in 1..documents'
    PROVE  DocInv'
<1>1. DocTypeOK'
  BY DEF DocInv, DocTypeOK, Desk, CheckRow, offers
<1>2. EvidenceStored'
  BY DEF DocInv, EvidenceStored
<1>3. PromotedRestsOnEvidence'
  BY DEF DocInv, PromotedRestsOnEvidence, offers
<1> QED  BY <1>1, <1>2, <1>3 DEF DocInv

LEMMA CheckTimersKeep ==
    ASSUME DocInv, NEW d \in Document, CheckTimer(d)
    PROVE  DocInv'
<1>0. verifying \in [Document -> CheckRow] /\ desk \in [Clerk -> Desk] /\ docFaults \in 0..DocFaults /\ DocFaults \in Nat
  BY DocTypes DEF DocInv
<1>1. UNCHANGED <<intake, documents, checks, receipts, offers, desk>>
  BY DEF CheckTimer, RedriveCheck, ElapseCheck
<1>2. PICK r \in CheckRow : verifying' = [verifying EXCEPT ![d] = r]
  BY <1>0, ChecksMove DEF CheckTimer, RedriveCheck, ElapseCheck
<1>3. verifying[d].state # "NONE"
  BY DEF CheckTimer, RedriveCheck, ElapseCheck
<1>4. docFaults' \in 0..DocFaults
  BY <1>0 DEF CheckTimer, RedriveCheck, ElapseCheck, DocFault
<1>5. \A v \in Clerk : desk'[v].table = "verifying" => desk'[v].doc \in 1..documents'
  BY <1>1 DEF DocInv, EvidenceStored
<1> QED  BY <1>0, <1>1, <1>2, <1>3, <1>4, <1>5, ChecksKeep DEF DocNext

LEMMA DeskClears ==
    ASSUME DocInv, NEW w \in Clerk, ClearDesk(w)
    PROVE  /\ desk' \in [Clerk -> Desk] /\ desk'[w] = NoDesk
           /\ \A v \in Clerk \ {w} : desk'[v] = desk[v]
<1>1. desk \in [Clerk -> Desk] /\ NoDesk \in Desk
  BY DocTypes DEF DocInv, NoDesk, Desk
<1> QED  BY <1>1 DEF ClearDesk

LEMMA CheckClaimsKeep ==
    ASSUME DocInv, NEW w \in Clerk, NEW d \in Document, ClaimCheck(w, d)
    PROVE  DocInv'
<1>0. /\ verifying \in [Document -> CheckRow] /\ desk \in [Clerk -> Desk] /\ docFaults \in 0..DocFaults
      /\ documents \in Nat /\ MaxDocuments \in Nat
  BY DocTypes DEF DocInv
<1> DEFINE x == [doc |-> d, table |-> "verifying"]
<1>1. x \in Desk /\ x.table = "verifying" /\ x.doc = d /\ desk' = [desk EXCEPT ![w] = x]
  BY <1>0 DEF ClaimCheck, PutOn, Desk, Document
<1> HIDE DEF x
<1>2. verifying[d].state # "NONE" /\ verifying' = [verifying EXCEPT ![d] = Claimed(verifying[d])]
  BY DEF ClaimCheck, Claimable
<1>3. d \in 1..documents
  BY <1>0, <1>2 DEF DocInv, EvidenceStored, Document
<1>4. UNCHANGED <<intake, documents, checks, receipts, offers, docFaults>>
  BY DEF ClaimCheck
<1>5. verifying' \in [Document -> CheckRow] /\ \A e \in Document : verifying[e].state = "NONE" => verifying'[e].state = "NONE"
  BY <1>0, <1>2, ChecksMove
<1>6. /\ desk' \in [Clerk -> Desk]
      /\ \A v \in Clerk : desk'[v].table = "verifying" => desk'[v].doc \in 1..documents'
  BY <1>1, <1>3, <1>4, DeskMoves
<1> QED  BY <1>0, <1>4, <1>5, <1>6, ChecksKeep DEF DocNext

\* A check that lapses was VERIFIED.
LEMMA LapseKeeps ==
    ASSUME DocInv, NEW d \in Document, NEW k \in CheckType, Lapse(d, k)
    PROVE  DocInv'
<1>0. checks \in [Document -> Sheet] /\ checks[d] \in Sheet
  BY DocTypes DEF DocInv
<1>1. checks[d][k] = "VERIFIED" /\ UNCHANGED <<intake, documents, verifying, receipts, offers, desk, docFaults>>
  BY DEF Lapse
<1>2. checks' = [checks EXCEPT ![d] = [checks[d] EXCEPT ![k] = "LAPSED"]]
  BY <1>0 DEF Lapse
<1>3. checks' \in [Document -> Sheet]
  BY <1>0, <1>2 DEF Sheet
<1>4. \A e \in Document : \A j \in CheckType :
        checks'[e][j] = checks[e][j] \/ (checks[e][j] = "VERIFIED" /\ checks'[e][j] = "LAPSED")
  <2>1. checks'[d][k] = "LAPSED" /\ \A j \in CheckType \ {k} : checks'[d][j] = checks[d][j]
    BY <1>0, <1>2 DEF Sheet
  <2>2. \A e \in Document \ {d} : checks'[e] = checks[e]
    BY <1>0, <1>2
  <2> QED  BY <1>1, <2>1, <2>2
<1>5. DocTypeOK'
  BY <1>1, <1>3 DEF DocInv, DocTypeOK, Sheet, offers
<1>6. EvidenceStored'
  BY <1>1, <1>4 DEF DocInv, EvidenceStored
<1>7. PromotedRestsOnEvidence'
  <2> SUFFICES ASSUME NEW x \in Draft, promoted[x] # NoBasis
               PROVE  /\ promoted[x].doc \in 1..documents /\ promoted[x].check \in CheckType
                      /\ receipts[promoted[x].doc] > 0
                      /\ checks'[promoted[x].doc][promoted[x].check] \in {"VERIFIED", "LAPSED"}
    BY <1>1 DEF PromotedRestsOnEvidence, offers
  <2>1. /\ promoted[x].doc \in 1..documents /\ promoted[x].check \in CheckType
        /\ receipts[promoted[x].doc] > 0
        /\ checks[promoted[x].doc][promoted[x].check] \in {"VERIFIED", "LAPSED"}
    BY DEF DocInv, PromotedRestsOnEvidence
  <2>2. promoted[x].doc \in Document
    BY <2>1, DocTypes DEF DocInv, Document
  <2> QED  BY <1>4, <2>1, <2>2
<1> QED  BY <1>5, <1>6, <1>7 DEF DocInv

\* A clerk that loses its job, whatever the job was.
LEMMA LostJobsKeep ==
    ASSUME DocInv, NEW w \in Clerk, DeskError(w) \/ Unavailable(w) \/ CrashClerk(w)
    PROVE  DocInv'
<1>0. /\ verifying \in [Document -> CheckRow] /\ intake \in IntakeRow
      /\ docFaults \in 0..DocFaults /\ DocFaults \in Nat
  BY DocTypes DEF DocInv
<1>1. /\ desk' \in [Clerk -> Desk] /\ desk'[w] = NoDesk /\ \A v \in Clerk \ {w} : desk'[v] = desk[v]
      /\ docFaults' \in 0..DocFaults
      /\ UNCHANGED <<documents, checks, receipts, offers>>
  BY <1>0, DeskClears DEF DeskError, Unavailable, CrashClerk, DocFault, evidence
<1>2. \A v \in Clerk : desk'[v].table = "verifying" => desk'[v].doc \in 1..documents'
  BY <1>1 DEF DocInv, EvidenceStored, NoDesk
<1>3. /\ verifying' \in [Document -> CheckRow]
      /\ \A d \in Document : verifying[d].state = "NONE" => verifying'[d].state = "NONE"
  <2>1. CASE verifying' = verifying
    BY <1>0, <2>1
  <2>2. ASSUME NEW d \in Document,
               \/ verifying' = [verifying EXCEPT ![d] = Failed(@, "PENDING")]
               \/ verifying' = [verifying EXCEPT ![d] = Finished(@, "UNAVAILABLE")]
        PROVE  /\ verifying' \in [Document -> CheckRow]
               /\ \A e \in Document : verifying[e].state = "NONE" => verifying'[e].state = "NONE"
    BY <1>0, <2>2, ChecksMove
  <2>3. CASE desk[w].doc \notin Document
    BY <1>0, <2>1, <2>3 DEF DeskError, Unavailable, CrashClerk, evidence
  <2> QED  BY <2>1, <2>2, <2>3 DEF DeskError, Unavailable, CrashClerk, evidence
<1>4. intake' \in IntakeRow
  BY <1>0, IntakeMoves DEF DeskError, Unavailable, CrashClerk
<1>5. DocTypeOK'
  BY <1>1, <1>3, <1>4 DEF DocInv, DocTypeOK, Desk, CheckRow, IntakeRow, offers
<1>6. EvidenceStored'
  BY <1>1, <1>2, <1>3 DEF DocInv, EvidenceStored
<1>7. PromotedRestsOnEvidence'
  BY <1>1 DEF DocInv, PromotedRestsOnEvidence, offers
<1> QED  BY <1>5, <1>6, <1>7 DEF DocInv

LEMMA IntakeKeeps ==
    ASSUME DocInv, NEW w \in Clerk, ClaimIntake(w) \/ TakeOut(w)
    PROVE  DocInv'
<1>0. /\ verifying \in [Document -> CheckRow] /\ intake \in IntakeRow /\ documents \in 0..MaxDocuments
      /\ documents \in Nat /\ MaxDocuments \in Nat /\ desk \in [Clerk -> Desk]
  BY DocTypes DEF DocInv
<1>1. UNCHANGED <<checks, receipts, offers, docFaults>>
  BY DEF ClaimIntake, TakeOut, evidence
<1>2. intake' \in IntakeRow
  BY <1>0, IntakeMoves DEF ClaimIntake, TakeOut
<1>3. /\ documents' \in 0..MaxDocuments /\ documents <= documents'
      /\ verifying' \in [Document -> CheckRow]
      /\ \A d \in Document : verifying'[d].state # "NONE" => d <= documents'
  <2>1. CASE UNCHANGED <<documents, verifying>>
    BY <1>0, <2>1 DEF DocInv, EvidenceStored
  <2>2. CASE documents < MaxDocuments /\ documents' = documents + 1
             /\ verifying' = [verifying EXCEPT ![documents'] = NewRow("PENDING")]
    <3>1. NewRow("PENDING") \in CheckRow
      BY NewRowType DEF CheckRow
    <3>2. documents + 1 \in Document
      BY <1>0, <2>2 DEF Document
    <3>3. \A d \in Document : d \in Nat
      BY DEF Document
    <3> QED  BY <1>0, <2>2, <3>1, <3>2, <3>3 DEF DocInv, EvidenceStored
  <2> QED  BY <2>1, <2>2 DEF ClaimIntake, TakeOut, evidence
<1>4. /\ desk' \in [Clerk -> Desk]
      /\ \A v \in Clerk : desk'[v].table = "verifying" => desk'[v].doc \in 1..documents'
  <2>1. CASE ClaimIntake(w)
    <3> DEFINE x == [doc |-> 0, table |-> "intake"]
    <3>1. x \in Desk /\ x.table = "intake" /\ desk' = [desk EXCEPT ![w] = x]
      BY <1>0, <2>1 DEF ClaimIntake, PutOn, Desk
    <3> HIDE DEF x
    <3>2. documents' = documents
      BY <2>1 DEF ClaimIntake, evidence
    <3> QED  BY <3>1, <3>2, DeskMoves
  <2>2. CASE TakeOut(w)
    <3>1. desk' \in [Clerk -> Desk] /\ desk'[w] = NoDesk /\ \A v \in Clerk \ {w} : desk'[v] = desk[v]
      BY <2>2, DeskClears DEF TakeOut
    <3>2. \A n \in 1..documents : n \in 1..documents'
      BY <1>0, <1>3
    <3> QED  BY <3>1, <3>2 DEF DocInv, EvidenceStored, NoDesk
  <2> QED  BY <2>1, <2>2
<1>5. DocTypeOK'
  BY <1>1, <1>2, <1>3, <1>4 DEF DocInv, DocTypeOK, Desk, CheckRow, IntakeRow, offers
<1>6. EvidenceStored'
  <2>1. \A d \in Document : d <= documents => d <= documents'
    BY <1>0, <1>3 DEF Document
  <2> QED  BY <1>1, <1>3, <1>4, <2>1 DEF DocInv, EvidenceStored
<1>7. PromotedRestsOnEvidence'
  <2>1. \A n \in 1..documents : n \in 1..documents'
    BY <1>0, <1>3
  <2> QED  BY <1>1, <2>1 DEF DocInv, PromotedRestsOnEvidence, offers
<1> QED  BY <1>5, <1>6, <1>7 DEF DocInv

\* A receipt is added, and the checks only where there were none.
LEMMA RecordKeeps ==
    ASSUME DocInv, NEW w \in Clerk, RecordCheck(w)
    PROVE  DocInv'
<1>0. /\ verifying \in [Document -> CheckRow] /\ documents \in Nat /\ MaxDocuments \in Nat
      /\ documents \in 0..MaxDocuments
      /\ desk \in [Clerk -> Desk] /\ checks \in [Document -> Sheet]
      /\ receipts \in [Document -> Nat]
  BY DocTypes DEF DocInv
<1>1. PICK d : d = desk[w].doc
  OBVIOUS
<1>2. d \in 1..documents /\ d \in Document
  BY <1>0, <1>1 DEF RecordCheck, DocInv, EvidenceStored, Document
<1>3. desk' \in [Clerk -> Desk] /\ desk'[w] = NoDesk /\ \A v \in Clerk \ {w} : desk'[v] = desk[v]
  BY DeskClears DEF RecordCheck
<1>4. UNCHANGED <<intake, documents, offers, docFaults>>
  BY DEF RecordCheck
<1> DEFINE Answered(answer) ==
             /\ receipts' = [receipts EXCEPT ![d] = @ + 1]
             /\ checks' = [checks EXCEPT ![d] = Kept(@, answer)]
             /\ verifying' = [verifying EXCEPT ![d] = Finished(@, Judged(answer))]
           Sheets == [CheckType -> {"NONE"} \cup Answers] \ {NoChecks}
<1>5. \/ \E answer \in Sheets : Answered(answer)
      \/ verifying' = [verifying EXCEPT ![d] = Failed(@, "PENDING")] /\ UNCHANGED <<receipts, checks>>
  BY <1>1 DEF RecordCheck
<1>6. /\ verifying' \in [Document -> CheckRow]
      /\ \A e \in Document : verifying'[e].state # "NONE" => verifying[e].state # "NONE"
  <2>1. verifying[d] \in CheckRow
    BY <1>0, <1>2
  <2>2. PICK r : verifying' = [verifying EXCEPT ![d] = r]
                 /\ \/ r = Failed(verifying[d], "PENDING")
                    \/ \E s \in Answers : r = Finished(verifying[d], s)
    BY <1>5 DEF Judged, Answers
  <2>3. r \in CheckRow /\ (verifying[d].state = "NONE" => r.state = "NONE")
    BY <2>1, <2>2, ChecksMove
  <2> QED  BY <1>0, <1>2, <2>2, <2>3
<1> DEFINE Grown ==
             /\ receipts' \in [Document -> Nat] /\ \A e \in Document : receipts[e] > 0 => receipts'[e] > 0
             /\ checks' \in [Document -> Sheet]
             /\ \A e \in Document : \A k \in CheckType :
                  /\ checks[e][k] # "NONE" => checks'[e][k] = checks[e][k]
                  /\ checks'[e][k] # checks[e][k] => e = d /\ receipts'[e] > 0
<1>7. Grown
  <2>1. ASSUME NEW answer \in Sheets, Answered(answer)
        PROVE  Grown
    <3>1. receipts'[d] > 0 /\ receipts' \in [Document -> Nat] /\ \A e \in Document \ {d} : receipts'[e] = receipts[e]
      BY <1>0, <1>2, <2>1
    <3>2. checks[d] \in Sheet /\ answer \in [CheckType -> {"NONE"} \cup Answers]
      BY <1>0, <1>2
    <3>3. /\ Kept(checks[d], answer) \in Sheet
          /\ \A k \in CheckType : checks[d][k] # "NONE" => Kept(checks[d], answer)[k] = checks[d][k]
      BY <3>2 DEF Kept, Sheet
    <3>4. /\ checks' \in [Document -> Sheet] /\ checks'[d] = Kept(checks[d], answer)
          /\ \A e \in Document \ {d} : checks'[e] = checks[e]
      BY <1>0, <1>2, <2>1, <3>3
    <3> QED  BY <3>1, <3>3, <3>4
  <2>2. CASE UNCHANGED <<receipts, checks>>
    BY <1>0, <2>2
  <2> QED  BY <1>5, <2>1, <2>2
<1>8. DocTypeOK'
  BY <1>3, <1>4, <1>6, <1>7 DEF DocInv, DocTypeOK, Desk, CheckRow, Sheet, offers
<1>9. EvidenceStored'
  <2>1. \A e \in Document : verifying'[e].state # "NONE" => e <= documents'
    BY <1>4, <1>6 DEF DocInv, EvidenceStored
  <2>2. \A e \in Document : \A k \in CheckType : checks'[e][k] # "NONE" => receipts'[e] > 0 /\ e <= documents'
    BY <1>0, <1>2, <1>4, <1>7 DEF DocInv, EvidenceStored
  <2>3. \A v \in Clerk : desk'[v].table = "verifying" => desk'[v].doc \in 1..documents'
    BY <1>3, <1>4 DEF DocInv, EvidenceStored, NoDesk
  <2> QED  BY <2>1, <2>2, <2>3 DEF EvidenceStored
<1>10. PromotedRestsOnEvidence'
  <2>1. 1..documents \subseteq Document
    BY <1>0 DEF Document
  <2>2. promoted' = promoted /\ documents' = documents
    BY <1>4 DEF offers
  <2> QED  BY <1>7, <2>1, <2>2 DEF DocInv, PromotedRestsOnEvidence
<1> QED  BY <1>8, <1>9, <1>10 DEF DocInv

\* A draft is promoted on a verified check, whose receipt is stored.
LEMMA EvaluateKeeps ==
    ASSUME DocInv, Evaluate
    PROVE  DocInv'
<1>0. documents \in Nat /\ MaxDocuments \in Nat /\ documents \in 0..MaxDocuments /\ promoted \in [Draft -> Basis]
  BY DocTypes DEF DocInv
<1>1. UNCHANGED <<intake, evidence, verdict, drafts, desk, docFaults>>
  BY DEF Evaluate
<1>2. round' \subseteq Draft
  BY DEF Evaluate, DocInv, DocTypeOK
<1>3. promoted' = promoted \/ \E x \in Draft : \E b \in Proofs : promoted' = [promoted EXCEPT ![x] = b]
  BY DEF Evaluate, DocInv, DocTypeOK
<1>4. ASSUME NEW b \in Proofs
      PROVE  /\ b \in Basis /\ b.doc \in 1..documents /\ b.check \in CheckType
             /\ receipts[b.doc] > 0 /\ checks[b.doc][b.check] = "VERIFIED"
  <2>1. b \in [doc : 1..documents, check : CheckType] /\ checks[b.doc][b.check] = "VERIFIED"
    BY DEF Proofs
  <2>2. b.doc \in Document /\ b \in Basis
    BY <1>0, <2>1 DEF Document, Basis
  <2> QED  BY <2>1, <2>2 DEF DocInv, EvidenceStored
<1>5. promoted' \in [Draft -> Basis]
  BY <1>0, <1>3, <1>4
<1>6. DocTypeOK' /\ EvidenceStored'
  BY <1>1, <1>2, <1>5 DEF DocInv, DocTypeOK, EvidenceStored, evidence
<1>7. PromotedRestsOnEvidence'
  <2>1. CASE promoted' = promoted
    BY <1>1, <2>1 DEF DocInv, PromotedRestsOnEvidence, evidence
  <2>2. ASSUME NEW x \in Draft, NEW b \in Proofs, promoted' = [promoted EXCEPT ![x] = b]
        PROVE  PromotedRestsOnEvidence'
    <3>1. promoted'[x] = b /\ \A y \in Draft \ {x} : promoted'[y] = promoted[y]
      BY <1>0, <2>2
    <3> QED  BY <1>1, <1>4, <3>1 DEF DocInv, PromotedRestsOnEvidence, evidence
  <2> QED  BY <1>3, <2>1, <2>2
<1> QED  BY <1>6, <1>7 DEF DocInv

LEMMA DocumentsKeep ==
    ASSUME DocInv, [DocNext]_docVars
    PROVE  DocInv'
<1>1. CASE DocNext
  BY <1>1, AroundDocumentsKeeps, CheckTimersKeep, CheckClaimsKeep, LapseKeeps, LostJobsKeep,
     IntakeKeeps, RecordKeeps, EvaluateKeeps DEF DocNext, DeskWork
<1>2. CASE UNCHANGED docVars
  BY <1>2, AroundDocumentsKeeps
<1> QED  BY <1>1, <1>2

\* The inductive invariant of the documents holds (document_jobs.ts:52-292).
THEOREM DocumentInvariance == DocSpec => []DocInv
BY DocumentsBegin, DocumentsKeep, PTL DEF DocSpec

\* The check that a promoted draft rests on keeps its answer and its receipt, for
\* any number of documents, check types, clerks and faults, whatever the calls
\* about a document answer (document_jobs.ts:224-275, 318-452).
THEOREM PromotionsRestOnEvidence == DocSpec => []PromotedRestsOnEvidence
<1>1. DocInv => PromotedRestsOnEvidence
  BY DEF DocInv
<1> QED  BY <1>1, DocumentInvariance, PTL
===============================================================================
