------------------------------ MODULE MatchSweeps ------------------------------
(***************************************************************************)
(* The MATCH stage: one anchored offer or demand is paired with the        *)
(* counterparts on record, in batches behind a cursor.  A batch that is    *)
(* full appends MATCH_SWEEP_CONTINUE, which starts the workflow of the     *)
(* next one; the last one creates the quote jobs.  Temporal repeats an     *)
(* activity that throws, dies or takes more than two minutes, and the      *)
(* receipt of a stage is unique by its input and result.                   *)
(***************************************************************************)
EXTENDS Naturals

CONSTANTS
    LastLot,        \* bound: counterparts on record
    Unfit,          \* the counterparts that are not compatible
    BatchSize,      \* 250 in the code
    Sweeper,        \* activity executions at one time
    SweepFaults     \* bound: errors, crashes, timeouts

ASSUME SweepAssumption ==
    LastLot \in Nat /\ BatchSize \in Nat \ {0} /\ SweepFaults \in Nat

Lot == 1..LastLot
Compatible == Lot \ Unfit

VARIABLES
    sweep,          \* the match_candidate_sweeps row of the anchor
    matched,        \* the counterparts that have a matches row
    quoted,         \* the counterparts whose match has its quote jobs
    events,         \* outbox rows not yet published: 0, or a continuation's key
    appended,       \* every outbox key so far
    results,       \* receipts recorded for the stage with this anchor
    running,        \* running[w]: where execution w is and the cursor it read
    struck,         \* a fault has hit an execution that held the sweep
    sweepFaults

sweepVars == <<sweep, matched, quoted, events, appended, results, running, struck, sweepFaults>>

Idle == [at |-> "IDLE", from |-> 0]
Result == [kind : {"BUSY", "COMPLETE", "EMPTY", "SET"}, from : 0..LastLot]

SweepTypeOK ==
    /\ sweep \in [state : {"NONE", "PENDING", "PROCESSING", "COMPLETED"}, old : BOOLEAN, cursor : 0..LastLot]
    /\ matched \subseteq Lot /\ quoted \subseteq Lot
    /\ events \subseteq 0..LastLot /\ appended \subseteq 0..LastLot
    /\ results \subseteq Result
    /\ running \in [Sweeper -> [at : {"IDLE", "START", "MATCH", "COMMIT", "ACTIVATE", "ANSWER"}, from : 0..LastLot]]
    /\ struck \in BOOLEAN /\ sweepFaults \in 0..SweepFaults

SweepInit ==
    /\ sweep = [state |-> "NONE", old |-> FALSE, cursor |-> 0]
    /\ matched = {} /\ quoted = {} /\ events = {} /\ appended = {} /\ results = {}
    /\ running = [w \in Sweeper |-> Idle] /\ struck = FALSE /\ sweepFaults = 0

Goto(w, at) == running' = [running EXCEPT ![w].at = at]

AddVersion ==
    /\ appended = {} /\ appended' = {0} /\ events' = {0}
    /\ UNCHANGED <<sweep, matched, quoted, results, running, struck, sweepFaults>>

StartMatch(w, e) ==
    /\ running[w] = Idle /\ e \in events
    /\ events' = events \ {e} /\ Goto(w, "START")
    /\ UNCHANGED <<sweep, matched, quoted, appended, results, struck, sweepFaults>>

\* The receipt's insert throws if the same result is there, and Temporal
\* starts the activity again; otherwise the workflow ends, whatever it says.
Answer(w, result) ==
    /\ results' = results \cup {result}
    /\ running' = [running EXCEPT ![w] = IF result \in results THEN [Idle EXCEPT !.at = "START"] ELSE Idle]

Open == sweep.state \in {"NONE", "PENDING"} \/ (sweep.state = "PROCESSING" /\ sweep.old)

\* insert on conflict do nothing, then the guarded claim.
ClaimSweep(w) ==
    /\ running[w].at = "START" /\ Open
    /\ sweep' = [sweep EXCEPT !.state = "PROCESSING", !.old = FALSE]
    /\ running' = [running EXCEPT ![w] = [at |-> "MATCH", from |-> sweep.cursor]]
    /\ UNCHANGED <<matched, quoted, events, appended, results, struck, sweepFaults>>

FindBusy(w) ==
    /\ running[w].at = "START" /\ ~Open
    /\ Answer(w, [kind |-> IF sweep.state = "COMPLETED" THEN "COMPLETE" ELSE "BUSY", from |-> 0])
    /\ UNCHANGED <<sweep, matched, quoted, events, appended, struck, sweepFaults>>

\* Mutant: the row after the cursor is left out.
BatchAfter(w) == {l \in Lot : running[w].from + 1 < l /\ l <= running[w].from + BatchSize + 1}

Batch(w) == {l \in Lot : running[w].from < l /\ l <= running[w].from + BatchSize}
Full(w) == running[w].from + BatchSize <= LastLot

\* Mutant: the cursor moves by the size of the batch, full or not.
LastByCount(w) == running[w].from + BatchSize

Last(w) == IF Full(w) THEN running[w].from + BatchSize ELSE LastLot

\* Mutant: the key names the anchor only.
KeyOfAnchor(w) == 0

\* The idempotency key of a continuation names the cursor; 0 is the version's.
Key(w) == Last(w)

\* A match that is there is found before it is inserted.
MatchBatch(w) ==
    /\ running[w].at = "MATCH"
    /\ matched' = matched \cup Batch(w) /\ Goto(w, "COMMIT")
    /\ UNCHANGED <<sweep, quoted, events, appended, results, struck, sweepFaults>>

\* One transaction: the guarded update, and the continuation even if the
\* update has met no row.
CommitBatch(w) ==
    /\ running[w].at = "COMMIT"
    /\ sweep' = IF sweep.state # "PROCESSING" THEN sweep
                ELSE [state |-> IF Full(w) THEN "PENDING" ELSE "COMPLETED", old |-> FALSE, cursor |-> Last(w)]
    /\ IF Full(w) /\ Key(w) \notin appended
         THEN appended' = appended \cup {Key(w)} /\ events' = events \cup {Key(w)}
         ELSE UNCHANGED <<appended, events>>
    /\ Goto(w, IF Full(w) THEN "ANSWER" ELSE "ACTIVATE")
    /\ UNCHANGED <<matched, quoted, results, struck, sweepFaults>>

Activate(w) ==
    /\ running[w].at = "ACTIVATE" /\ quoted' = quoted \cup (matched \cap Compatible) /\ Goto(w, "ANSWER")
    /\ UNCHANGED <<sweep, matched, events, appended, results, struck, sweepFaults>>

EndMatch(w) ==
    /\ running[w].at = "ANSWER"
    /\ Answer(w, IF Batch(w) \cap Compatible = {} THEN [kind |-> "EMPTY", from |-> 0]
                 ELSE [kind |-> "SET", from |-> running[w].from])
    /\ UNCHANGED <<sweep, matched, quoted, events, appended, struck, sweepFaults>>

SweepFault(w) ==
    /\ sweepFaults < SweepFaults /\ sweepFaults' = sweepFaults + 1
    /\ struck' = (struck \/ running[w].at \in {"MATCH", "COMMIT", "ACTIVATE"})

\* An error or a crash: Temporal starts the activity again.
RetryMatch(w) ==
    /\ running[w].at \notin {"IDLE", "START"} /\ SweepFault(w)
    /\ running' = [running EXCEPT ![w] = [Idle EXCEPT !.at = "START"]]
    /\ UNCHANGED <<sweep, matched, quoted, events, appended, results>>

\* Two minutes pass: it is started again while this execution goes on.
OverlapMatch(w, v) ==
    /\ running[w].at \notin {"IDLE", "START"} /\ running[v] = Idle /\ SweepFault(w)
    /\ Goto(v, "START")
    /\ UNCHANGED <<sweep, matched, quoted, events, appended, results>>

ElapseSweep ==
    /\ sweep.state = "PROCESSING" /\ ~sweep.old
    /\ struck \/ \A w \in Sweeper : running[w].at \notin {"MATCH", "COMMIT"}
    /\ sweep' = [sweep EXCEPT !.old = TRUE]
    /\ UNCHANGED <<matched, quoted, events, appended, results, running, struck, sweepFaults>>

SweepStep(w) ==
    ClaimSweep(w) \/ FindBusy(w) \/ MatchBatch(w) \/ CommitBatch(w) \/ Activate(w) \/ EndMatch(w)

SweepNext ==
    \/ AddVersion \/ ElapseSweep
    \/ \E w \in Sweeper :
         \/ SweepStep(w) \/ RetryMatch(w)
         \/ \E e \in 0..LastLot : StartMatch(w, e)
         \/ \E v \in Sweeper : OverlapMatch(w, v)

SweepSpec == SweepInit /\ [][SweepNext]_sweepVars
-------------------------------------------------------------------------------
\* A sweep that is complete has paired every counterpart, though stalled
\* executions move the cursor and end the sweep behind its holder's back
\* (stage_handlers.ts:223-246).
SweepCoversAll == sweep.state = "COMPLETED" => matched = Lot

\* A version that is added gets its matches and their quote jobs, unless a
\* fault hits an execution that holds the sweep: the repetition then finds the
\* sweep busy or complete and ends (stage_handlers.ts:93-116, 239-254).
SweepEnds == []<>(appended # {} => Compatible \subseteq quoted \/ struck)
===============================================================================
