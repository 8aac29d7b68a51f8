--------------------------- MODULE RuntimeSupervisor ---------------------------
(***************************************************************************)
(* The two durable queues of the runtime and the processes that drain      *)
(* them.  external_event_inbox holds the signed webhooks; the transaction  *)
(* of a handler appends to transactional_outbox; publishing an outbox row  *)
(* starts a Temporal workflow.  A supervisor claims a batch in one         *)
(* transaction, works through it outside any transaction, and marks every  *)
(* row afterwards: a crash, an elapsed lease and a second supervisor may   *)
(* come between any two of these steps.                                    *)
(*                                                                         *)
(* A row does not say who claimed it, so a supervisor that was slow marks  *)
(* rows that another one has claimed since.                                *)
(***************************************************************************)
EXTENDS Naturals, FiniteSets

CONSTANTS
    LastEvent,    \* the events are 1..LastEvent, in the order of received_at
    Invalid,      \* events whose handler reports a permanent error
    Poison,       \* events whose handler fails every time, without saying so
    Supervisor,   \* the processes that run RuntimeSupervisor.run
    Limit,        \* rows of a batch (the code: 50)
    Attempts,     \* Attempts[q]: claims before a dead letter (the code: 5, 10)
    MaxFaults     \* crashes, transient failures and overrun leases in one behaviour

Event == 1..LastEvent
Queue == {"INBOX", "OUTBOX"}

ASSUME LastEventAssumption == LastEvent \in Nat
ASSUME InvalidAssumption   == Invalid \subseteq Event /\ Poison \subseteq Event \ Invalid
ASSUME LimitAssumption     == Limit \in Nat \ {0}
ASSUME AttemptsAssumption  == Attempts \in [Queue -> Nat \ {0}]
ASSUME FaultsAssumption    == MaxFaults \in Nat

VARIABLES
    row,         \* row[q][e]: the row of event e in queue q
    started,     \* events whose workflow Temporal has been asked to start
    supervisor,  \* the volatile state of each process
    faults       \* crashes, transient failures and overrun leases so far

vars == <<row, started, supervisor, faults>>

Working  == {"ABSENT", "PENDING", "PROCESSING", "DEAD_LETTER_PENDING_REDRIVE"}
Finished == {"PROCESSED", "PUBLISHED", "REJECTED"}

\* elapsed: claimed_at is older than the lease, or next_retry_at has come.
Row == [state : Working \cup Finished, attempts : Nat, elapsed : BOOLEAN]

\* at: "CLAIM" before, "WORK" during a batch of a queue; job: 0 or the event
\* in hand, with what became of it.
SupervisorRecord ==
    [at : {"DOWN", "CLAIM", "WORK"}, queue : Queue, batch : SUBSET Event,
     job : 0..LastEvent, outcome : {"NONE", "DONE", "FAILED", "INVALID"}]

Fresh(q) == [at |-> "CLAIM", queue |-> q, batch |-> {}, job |-> 0, outcome |-> "NONE"]
Down     == [Fresh("INBOX") EXCEPT !.at = "DOWN"]
Absent   == [state |-> "ABSENT", attempts |-> 0, elapsed |-> FALSE]

Init ==
    /\ row = [q \in Queue |-> [e \in Event |-> Absent]]
    /\ started = {}
    /\ supervisor = [s \in Supervisor |-> Fresh("INBOX")]
    /\ faults = 0

-------------------------------------------------------------------------------
\* What the statements on a queue do to one row.

\* Mutant: a row whose lease ran out is not claimed again.
ClaimablePendingOnly(r) == r.state = "PENDING"

Claimable(r)  == r.state = "PENDING" \/ (r.state = "PROCESSING" /\ r.elapsed)
Redrivable(r) == r.state = "DEAD_LETTER_PENDING_REDRIVE" /\ r.elapsed

\* A statement that moves a row clears its lease or the wait before its redrive.
Moved(r, to) == [state |-> to, attempts |-> r.attempts, elapsed |-> FALSE]

\* attempts only matters up to the limit at which a row becomes a dead letter.
Claimed(q, r) ==
    [state |-> "PROCESSING", elapsed |-> FALSE,
     attempts |-> IF r.attempts < Attempts[q] THEN r.attempts + 1 ELSE r.attempts]

Redriven(r) == Moved(r, "PENDING")

\* Mutant: a state from before the redrive, which no statement claims.
FailedForGood(q, r) ==
    Moved(r, IF r.attempts >= Attempts[q] THEN "FAILED" ELSE "PENDING")

\* fail, and the catch of dispatchBatch.
Failed(q, r) ==
    Moved(r, IF r.attempts >= Attempts[q] THEN "DEAD_LETTER_PENDING_REDRIVE" ELSE "PENDING")

\* Mutant: the marks do not ask for the state of the row.
MarkedInAnyState(q, e) == row[q][e].state # "ABSENT"

\* Every mark applies only to a row that is still being processed.
Marked(q, e) == row[q][e].state = "PROCESSING"

\* The batches a claim may return: as many claimable rows as there are, up to the
\* limit.  The inbox takes the oldest by received_at, which is the order of the
\* events; the outbox those appended first, in whatever order that was.  The
\* statement does not see the rows it redrives.
ClaimableRows(q) == {e \in Event : Claimable(row[q][e])}

Batches(q) ==
    {b \in SUBSET ClaimableRows(q) :
        /\ Cardinality(b) <= Limit
        /\ b # ClaimableRows(q) => Cardinality(b) = Limit
        /\ q = "INBOX" => \A e \in b, d \in ClaimableRows(q) \ b : e < d}

-------------------------------------------------------------------------------
\* insert: a webhook arrives; the same one again is a replay and changes nothing.
Receive(e) ==
    /\ row["INBOX"][e].state = "ABSENT"
    /\ row' = [row EXCEPT !["INBOX"][e] = Moved(@, "PENDING")]
    /\ UNCHANGED <<started, supervisor, faults>>

\* claim, and the first statement of dispatchBatch.
ClaimRows(s, q, batch) ==
    /\ row' = [row EXCEPT ![q] = [e \in Event |->
           IF e \in batch THEN Claimed(q, row[q][e])
           ELSE IF Redrivable(row[q][e]) THEN Redriven(row[q][e])
           ELSE row[q][e]]]
    /\ supervisor' = [supervisor EXCEPT ![s].at = "WORK", ![s].batch = batch]
    /\ UNCHANGED <<started, faults>>

ClaimBatch(s) ==
    /\ supervisor[s].at = "CLAIM"
    /\ \E batch \in Batches(supervisor[s].queue) : ClaimRows(s, supervisor[s].queue, batch)

\* The next row of the batch is taken up and comes to an outcome.
Take(s, e, outcome) ==
    /\ supervisor[s].at = "WORK" /\ supervisor[s].job = 0
    /\ e \in supervisor[s].batch
    /\ supervisor' = [supervisor EXCEPT ![s].batch = @ \ {e}, ![s].job = e,
                                        ![s].outcome = outcome]

\* The handler commits; its outbox row is inserted unless it is there already.
HandleEvent(s, e) ==
    /\ supervisor[s].queue = "INBOX" /\ e \notin Invalid \cup Poison
    /\ Take(s, e, "DONE")
    /\ row' = [row EXCEPT !["OUTBOX"][e] =
                              IF @.state = "ABSENT" THEN Moved(@, "PENDING") ELSE @]
    /\ UNCHANGED <<started, faults>>

\* The handler throws an error that tick's pattern knows to be permanent.
RefuseEvent(s, e) ==
    /\ supervisor[s].queue = "INBOX" /\ e \in Invalid
    /\ Take(s, e, "INVALID")
    /\ UNCHANGED <<row, started, faults>>

\* The handler rolls back, or the workflow cannot be started.
FailTransiently(s, e) ==
    /\ Take(s, e, "FAILED")
    /\ IF supervisor[s].queue = "INBOX" /\ e \in Poison
       THEN UNCHANGED faults
       ELSE faults < MaxFaults /\ faults' = faults + 1
    /\ UNCHANGED <<row, started>>

\* publish: the workflow starts, or runs already under the same id.
StartWorkflow(s, e) ==
    /\ supervisor[s].queue = "OUTBOX"
    /\ Take(s, e, "DONE")
    /\ started' = started \cup {e}
    /\ UNCHANGED <<row, faults>>

\* Mutant: the row is marked done whatever became of the handler.
InHandWhatever(s, outcome) == supervisor[s].job # 0

\* The row in hand, marked as the outcome says.  A supervisor whose mark finds
\* the row in another state: the inbox throws, the outbox does not look.
InHand(s, outcome) == supervisor[s].job # 0 /\ supervisor[s].outcome = outcome
Drop(s) == [supervisor EXCEPT ![s].job = 0, ![s].outcome = "NONE"]

\* A commit or a start whose answer is lost, or a mark that does not go through,
\* is caught like a failure.
LoseAnswer(s) ==
    /\ InHand(s, "DONE") /\ faults < MaxFaults
    /\ supervisor' = [supervisor EXCEPT ![s].outcome = "FAILED"]
    /\ faults' = faults + 1
    /\ UNCHANGED <<row, started>>

\* complete, and the update that follows publish.
MarkDone(s) ==
    LET q == supervisor[s].queue
        e == supervisor[s].job
    IN  /\ InHand(s, "DONE") /\ Marked(q, e)
        /\ row' = [row EXCEPT ![q][e] =
                              Moved(@, IF q = "INBOX" THEN "PROCESSED" ELSE "PUBLISHED")]
        /\ supervisor' = Drop(s)
        /\ UNCHANGED <<started, faults>>

\* "inbox completion conflict" is caught in tick like a failure of the handler.
CompletionConflict(s) ==
    /\ InHand(s, "DONE") /\ supervisor[s].queue = "INBOX"
    /\ ~Marked("INBOX", supervisor[s].job)
    /\ supervisor' = [supervisor EXCEPT ![s].outcome = "FAILED"]
    /\ UNCHANGED <<row, started, faults>>

MarkFailed(s) ==
    LET q == supervisor[s].queue
        e == supervisor[s].job
    IN  /\ InHand(s, "FAILED") /\ Marked(q, e)
        /\ row' = [row EXCEPT ![q][e] = Failed(q, @)]
        /\ supervisor' = Drop(s)
        /\ UNCHANGED <<started, faults>>

\* reject.
MarkRejected(s) ==
    /\ InHand(s, "INVALID") /\ Marked("INBOX", supervisor[s].job)
    /\ row' = [row EXCEPT !["INBOX"][supervisor[s].job] = Moved(@, "REJECTED")]
    /\ supervisor' = Drop(s)
    /\ UNCHANGED <<started, faults>>

\* dispatchBatch ignores that its update found no row.
IgnoreConflict(s) ==
    /\ supervisor[s].job # 0 /\ supervisor[s].queue = "OUTBOX"
    /\ ~Marked("OUTBOX", supervisor[s].job)
    /\ supervisor' = Drop(s)
    /\ UNCHANGED <<row, started, faults>>

\* fail and reject throw out of tick; run rejects and the worker process ends.
DieOfConflict(s) ==
    /\ InHand(s, "FAILED") \/ InHand(s, "INVALID")
    /\ supervisor[s].queue = "INBOX" /\ ~Marked("INBOX", supervisor[s].job)
    /\ supervisor' = [supervisor EXCEPT ![s] = Down]
    /\ UNCHANGED <<row, started, faults>>

\* tick drains the outbox after the inbox, then run comes round.
NextQueue(s) ==
    /\ supervisor[s].at = "WORK" /\ supervisor[s].job = 0 /\ supervisor[s].batch = {}
    /\ supervisor' = [supervisor EXCEPT ![s] =
           Fresh(IF supervisor[s].queue = "INBOX" THEN "OUTBOX" ELSE "INBOX")]
    /\ UNCHANGED <<row, started, faults>>

Crash(s) ==
    /\ supervisor[s].at # "DOWN" /\ faults < MaxFaults
    /\ faults' = faults + 1
    /\ supervisor' = [supervisor EXCEPT ![s] = Down]
    /\ UNCHANGED <<row, started>>

\* The container is restarted unless it was stopped on purpose.
Restart(s) ==
    /\ supervisor[s].at = "DOWN"
    /\ supervisor' = [supervisor EXCEPT ![s] = Fresh("INBOX")]
    /\ UNCHANGED <<row, started, faults>>

\* Five minutes since a claim, or the fifteen and more before a redrive, go by
\* when nobody works on the row any more.
Held(q, e) == \E s \in Supervisor :
    supervisor[s].queue = q /\ e \in supervisor[s].batch \cup {supervisor[s].job}

TimePasses(q, e) ==
    /\ row[q][e].state \in {"PROCESSING", "DEAD_LETTER_PENDING_REDRIVE"}
    /\ ~row[q][e].elapsed
    /\ row' = [row EXCEPT ![q][e].elapsed = TRUE]
    /\ UNCHANGED <<started, supervisor>>

Elapse(q, e) == ~Held(q, e) /\ TimePasses(q, e) /\ UNCHANGED faults

\* A supervisor takes longer than that over a row it has.
Outlast(q, e) ==
    /\ Held(q, e) /\ TimePasses(q, e)
    /\ faults < MaxFaults /\ faults' = faults + 1

Handle(s, e) ==
    HandleEvent(s, e) \/ RefuseEvent(s, e) \/ StartWorkflow(s, e)
        \/ FailTransiently(s, e)

Mark(s) ==
    MarkDone(s) \/ CompletionConflict(s) \/ MarkFailed(s) \/ MarkRejected(s)
        \/ IgnoreConflict(s) \/ DieOfConflict(s)

\* What a process does of itself; a crash is done to it.
Run(s) ==
    ClaimBatch(s) \/ (\E e \in Event : Handle(s, e)) \/ Mark(s) \/ NextQueue(s) \/ Restart(s)

Next ==
    \/ \E e \in Event : Receive(e)
    \/ \E s \in Supervisor : Run(s) \/ Crash(s) \/ LoseAnswer(s)
    \/ \E q \in Queue, e \in Event : Elapse(q, e) \/ Outlast(q, e)

\* run never stops asking for work, the container is restarted, time goes on.
Fairness ==
    /\ \A s \in Supervisor : WF_vars(Run(s))
    /\ \A q \in Queue, e \in Event : WF_vars(Elapse(q, e))

Spec == Init /\ [][Next]_vars
FairSpec == Spec /\ Fairness

-------------------------------------------------------------------------------
\* Properties.

TypeOK ==
    /\ row \in [Queue -> [Event -> Row]]
    /\ started \subseteq Event
    /\ supervisor \in [Supervisor -> SupervisorRecord]
    /\ faults \in Nat

Appended(e) == row["OUTBOX"][e].state # "ABSENT"

\* What the queues say has happened has: a processed event has had its effect,
\* a rejected one has had none and never will, and a published one has had its
\* workflow started.  Whichever supervisor set the mark, and however late.
MarksAreTrue ==
    \A e \in Event :
        /\ row["INBOX"][e].state = "PROCESSED"  => Appended(e)
        /\ row["INBOX"][e].state = "REJECTED"   => e \in Invalid /\ ~Appended(e)
        /\ row["OUTBOX"][e].state = "PUBLISHED" => e \in started

\* The inductive invariant.  An effect belongs to an event that was received and
\* can be handled, and a workflow to an effect; each queue keeps to its own final
\* states; and what a supervisor has in hand has become of a row what it says,
\* however many others have claimed that row since.
RowBacked(e) ==
    /\ Appended(e) => e \notin Invalid \cup Poison /\ row["INBOX"][e].state # "ABSENT"
    /\ e \in started => Appended(e)
    /\ row["INBOX"][e].state # "PUBLISHED"
    /\ row["OUTBOX"][e].state \notin {"PROCESSED", "REJECTED"}
    /\ row["INBOX"][e].state = "PROCESSED"  => Appended(e)
    /\ row["INBOX"][e].state = "REJECTED"   => e \in Invalid
    /\ row["OUTBOX"][e].state = "PUBLISHED" => e \in started

RowsBacked == \A e \in Event : RowBacked(e)

BatchesBacked ==
    \A s \in Supervisor : \A e \in supervisor[s].batch :
        row[supervisor[s].queue][e].state # "ABSENT"

HandBacked(s) ==
    LET q == supervisor[s].queue
        e == supervisor[s].job
    IN  /\ row[q][e].state # "ABSENT"
        /\ supervisor[s].outcome = "DONE" =>
               IF q = "INBOX" THEN Appended(e) ELSE e \in started
        /\ supervisor[s].outcome = "INVALID" => q = "INBOX" /\ e \in Invalid

HandsBacked == \A s \in Supervisor : supervisor[s].job # 0 => HandBacked(s)

IInv == TypeOK /\ RowsBacked /\ BatchesBacked /\ HandsBacked

\* A slow supervisor that marks a row after another has finished it, by
\* complete, by fail or by reject, never reopens it.
FinishedStays ==
    [][\A q \in Queue, e \in Event :
        row[q][e].state \in Finished => row'[q][e] = row[q][e]]_vars

\* How far an event has got, as the promise of EventDelivery counts it.
Reached(e) ==
    CASE row["INBOX"][e].state = "ABSENT"   -> "UNKNOWN"
      [] row["INBOX"][e].state = "REJECTED" -> "REJECTED"
      [] row["INBOX"][e].state \notin {"ABSENT", "REJECTED"} ->
             IF e \in started THEN "STARTED"
             ELSE IF Appended(e) THEN "HANDLED" ELSE "RECEIVED"

progress == [e \in Event |-> Reached(e)]

Delivery == INSTANCE EventDelivery

\* The queues implement EventDelivery: through crashes, elapsed leases, late
\* marks and dead letters every event that can be handled is handled and its
\* workflow started, every invalid one is rejected, one whose handler always
\* fails holds up no other, and no event goes back.
EventsAreDelivered == Delivery!Spec
===============================================================================
