---------------------------- MODULE JobLeases_proofs ----------------------------
(***************************************************************************)
(* What the statements on a job's row return, whatever its states are.     *)
(***************************************************************************)
EXTENDS JobLeases, TLAPS

\* A new row has no attempt and no lease.
LEMMA NewRowType ==
    ASSUME NEW S, NEW s \in S
    PROVE  NewRow(s) \in Row(S) /\ NewRow(s).state = s
BY AttemptLimitAssumption DEF NewRow, Row

LEMMA ClaimedType ==
    ASSUME NEW S, "PROCESSING" \in S, NEW row \in Row(S)
    PROVE  Claimed(row) \in Row(S) /\ Claimed(row).state = "PROCESSING" /\ ~Claimed(row).old
BY AttemptLimitAssumption DEF Claimed, Row

LEMMA SetType ==
    ASSUME NEW S, NEW row \in Row(S), NEW s \in S
    PROVE  Set(row, s) \in Row(S) /\ Set(row, s).state = s /\ ~Set(row, s).old
BY DEF Set, Row

LEMMA ElapsedType ==
    ASSUME NEW S, NEW row \in Row(S)
    PROVE  Elapsed(row) \in Row(S) /\ Elapsed(row).state = row.state /\ Elapsed(row).old
BY DEF Elapsed, Row

\* An end is written over a row in progress and over no other.
LEMMA FinishedType ==
    ASSUME NEW S, NEW row \in Row(S), NEW s \in S
    PROVE  /\ Finished(row, s) \in Row(S)
           /\ row.state = "PROCESSING" => Finished(row, s).state = s /\ ~Finished(row, s).old
           /\ row.state # "PROCESSING" => Finished(row, s) = row
BY SetType DEF Finished

LEMMA FailedType ==
    ASSUME NEW S, NEW row \in Row(S), NEW back \in S, "DEAD" \in S
    PROVE  /\ Failed(row, back) \in Row(S)
           /\ row.state = "PROCESSING" => Failed(row, back).state \in {"DEAD", back}
           /\ row.state # "PROCESSING" => Failed(row, back) = row
<1>1. Retried(row, back) \in {"DEAD", back}
  BY DEF Retried
<1> QED  BY <1>1, FinishedType DEF Failed
================================================================================
