------------------------------- MODULE JobLeases -------------------------------
(***************************************************************************)
(* The row every job table keeps and the three statements that move it.    *)
(* A worker claims a row for ten minutes without a token; what it writes   *)
(* back is guarded by state = 'PROCESSING' alone, whoever holds the row by *)
(* then.  "DEAD" is DEAD_LETTER_PENDING_REDRIVE.                           *)
(***************************************************************************)
EXTENDS Naturals

CONSTANT AttemptLimit       \* attempts before a dead letter; 5 in the code

ASSUME AttemptLimitAssumption == AttemptLimit \in Nat \ {0}

Row(states) == [state : states, attempts : 0..AttemptLimit, old : BOOLEAN]
NewRow(s) == [state |-> s, attempts |-> 0, old |-> FALSE]

\* Mutant: a row whose worker died is left alone.
ClaimableReadyOnly(row, ready) == row.state \in ready

Claimable(row, ready) == row.state \in ready \/ (row.state = "PROCESSING" /\ row.old)

\* Only attempts >= AttemptLimit is ever asked, so the count stops there.
Claimed(row) ==
    [state |-> "PROCESSING", old |-> FALSE,
     attempts |-> IF row.attempts < AttemptLimit THEN row.attempts + 1 ELSE row.attempts]

Set(row, s) == [row EXCEPT !.state = s, !.old = FALSE]

\* Mutant: a worker writes its end over whatever the row says.
FinishedUnguarded(row, s) == Set(row, s)

\* where id = $1 and state = 'PROCESSING'
Finished(row, s) == IF row.state = "PROCESSING" THEN Set(row, s) ELSE row

Retried(row, back) == IF row.attempts >= AttemptLimit THEN "DEAD" ELSE back
Failed(row, back)  == Finished(row, Retried(row, back))

Elapsed(row) == [row EXCEPT !.old = TRUE]
===============================================================================
