----------------------- MODULE RuntimeSupervisor_proofs ------------------------
(***************************************************************************)
(* Theorems about RuntimeSupervisor: the inductive invariant, the truth of *)
(* the marks, that what is finished stays finished, and that every step    *)
(* is one of EventDelivery or a stutter.                                   *)
(***************************************************************************)
EXTENDS RuntimeSupervisor, TLAPS

USE DEF Appended, Marked

(***************************************************************************)
(* Facts about the helpers.                                                *)
(***************************************************************************)

\* A row that is moved is a row, in the state it is moved to.
LEMMA MovedRow ==
    ASSUME NEW r \in Row, NEW to \in Working \cup Finished
    PROVE  Moved(r, to) \in Row /\ Moved(r, to).state = to
BY DEF Moved, Row

\* What claiming, redriving and failing make of a row.
LEMMA RowHelpers ==
    ASSUME NEW q \in Queue, NEW r \in Row
    PROVE  /\ Claimed(q, r) \in Row /\ Redriven(r) \in Row /\ Failed(q, r) \in Row
           /\ Claimed(q, r).state = "PROCESSING"
           /\ Redriven(r).state = "PENDING"
           /\ Failed(q, r).state \in {"PENDING", "DEAD_LETTER_PENDING_REDRIVE"}
<1>1. Attempts[q] \in Nat
  BY AttemptsAssumption
<1>2. Claimed(q, r) \in Row /\ Claimed(q, r).state = "PROCESSING"
  BY <1>1 DEF Claimed, Row, Working
<1>3. Redriven(r) \in Row /\ Redriven(r).state = "PENDING"
  BY MovedRow DEF Redriven, Working
<1>4. /\ Failed(q, r) \in Row
      /\ Failed(q, r).state \in {"PENDING", "DEAD_LETTER_PENDING_REDRIVE"}
  BY MovedRow DEF Failed, Working
<1> QED
  BY <1>2, <1>3, <1>4

\* A claim touches only rows that are there and not finished.
LEMMA ClaimTouches ==
    ASSUME NEW q \in Queue, NEW e \in Event,
           e \in ClaimableRows(q) \/ Redrivable(row[q][e])
    PROVE  row[q][e].state \in {"PENDING", "PROCESSING", "DEAD_LETTER_PENDING_REDRIVE"}
BY DEF ClaimableRows, Claimable, Redrivable

\* A claim is of some batch of claimable rows.
LEMMA ClaimIsOfBatch ==
    ASSUME NEW s \in Supervisor, ClaimBatch(s)
    PROVE  \E batch \in SUBSET ClaimableRows(supervisor[s].queue) :
               ClaimRows(s, supervisor[s].queue, batch)
BY DEF ClaimBatch, Batches

\* Writing one row of one queue leaves every other as it was.
LEMMA OneRow ==
    ASSUME row \in [Queue -> [Event -> Row]], NEW q \in Queue, NEW e \in Event,
           NEW r \in Row, row' = [row EXCEPT ![q][e] = r]
    PROVE  /\ row' \in [Queue -> [Event -> Row]]
           /\ row'[q][e] = r
           /\ \A p \in Queue, d \in Event : p # q \/ d # e => row'[p][d] = row[p][d]
OBVIOUS

\* Writing one supervisor leaves every other as it was.
LEMMA OneSupervisor ==
    ASSUME supervisor \in [Supervisor -> SupervisorRecord], NEW s \in Supervisor,
           NEW v \in SupervisorRecord, supervisor' = [supervisor EXCEPT ![s] = v]
    PROVE  /\ supervisor' \in [Supervisor -> SupervisorRecord]
           /\ supervisor'[s] = v
           /\ \A t \in Supervisor \ {s} : supervisor'[t] = supervisor[t]
OBVIOUS

\* What a row is backed by only grows.
Grows ==
    /\ \A q \in Queue, e \in Event : row[q][e].state # "ABSENT" => row'[q][e].state # "ABSENT"
    /\ started \subseteq started'

\* Batches that only shrink are still batches of rows that are there.
LEMMA BatchesShrink ==
    ASSUME TypeOK, TypeOK', BatchesBacked, Grows,
           \A t \in Supervisor :
               \/ supervisor'[t].batch = {}
               \/ /\ supervisor'[t].queue = supervisor[t].queue
                  /\ supervisor'[t].batch \subseteq supervisor[t].batch
    PROVE  BatchesBacked'
<1> SUFFICES ASSUME NEW t \in Supervisor, NEW e \in supervisor'[t].batch
             PROVE  row'[supervisor'[t].queue][e].state # "ABSENT"
  BY DEF BatchesBacked
<1>1. /\ supervisor'[t].queue = supervisor[t].queue
      /\ e \in supervisor[t].batch
  OBVIOUS
<1>2. supervisor[t].queue \in Queue /\ e \in Event
  BY <1>1 DEF TypeOK, SupervisorRecord
<1> QED
  BY <1>1, <1>2 DEF BatchesBacked, Grows

\* A hand that is emptied, kept, or kept as a failure is still backed.
LEMMA HandsKept ==
    ASSUME TypeOK, TypeOK', HandsBacked, Grows,
           \A t \in Supervisor :
               \/ supervisor'[t].job = 0
               \/ supervisor'[t].job # 0 /\ HandBacked(t)'
               \/ /\ supervisor'[t].queue = supervisor[t].queue
                  /\ supervisor'[t].job = supervisor[t].job
                  /\ supervisor'[t].outcome \in {supervisor[t].outcome, "FAILED"}
    PROVE  HandsBacked'
<1> SUFFICES ASSUME NEW t \in Supervisor, supervisor'[t].job # 0,
                    supervisor'[t].queue = supervisor[t].queue,
                    supervisor'[t].job = supervisor[t].job,
                    supervisor'[t].outcome \in {supervisor[t].outcome, "FAILED"}
             PROVE  HandBacked(t)'
  BY DEF HandsBacked
<1>1. HandBacked(t)
  BY DEF HandsBacked
<1>2. supervisor[t].queue \in Queue /\ supervisor[t].job \in Event
  BY LastEventAssumption DEF TypeOK, SupervisorRecord, Event
<1>3. "OUTBOX" \in Queue
  BY DEF Queue
<1> QED
  BY <1>1, <1>2, <1>3 DEF HandBacked, Grows

(***************************************************************************)
(* The invariant holds at the start and every action preserves it.         *)
(***************************************************************************)

THEOREM InitEstablishes == Init => IInv
<1> SUFFICES ASSUME Init PROVE IInv
  OBVIOUS
<1>1. Absent \in Row /\ Absent.state = "ABSENT"
  BY DEF Absent, Row, Working
<1>2. /\ Fresh("INBOX") \in SupervisorRecord
      /\ Fresh("INBOX").batch = {} /\ Fresh("INBOX").job = 0
  BY LastEventAssumption DEF Fresh, SupervisorRecord, Queue
<1>3. "INBOX" \in Queue /\ "OUTBOX" \in Queue
  BY DEF Queue
<1>4. TypeOK
  BY <1>1, <1>2 DEF Init, TypeOK
<1>5. RowsBacked
  BY <1>1, <1>3 DEF Init, RowsBacked, RowBacked
<1>6. BatchesBacked /\ HandsBacked
  BY <1>2 DEF Init, BatchesBacked, HandsBacked
<1> QED
  BY <1>4, <1>5, <1>6 DEF IInv

\* A webhook adds a row that was not there.
LEMMA ReceivePreserves ==
    ASSUME IInv, NEW e \in Event, Receive(e)
    PROVE  IInv'
<1> DEFINE r == Moved(row["INBOX"][e], "PENDING")
<1>1. r \in Row /\ r.state = "PENDING" /\ "INBOX" \in Queue /\ "OUTBOX" \in Queue
  BY MovedRow DEF IInv, TypeOK, Working, Queue
<1>2. /\ row' \in [Queue -> [Event -> Row]]
      /\ row'["INBOX"][e] = r
      /\ \A p \in Queue, d \in Event : p # "INBOX" \/ d # e => row'[p][d] = row[p][d]
  BY <1>1, OneRow DEF Receive, IInv, TypeOK
<1>3. TypeOK'
  BY <1>2 DEF Receive, IInv, TypeOK
<1>4. Grows
  BY <1>1, <1>2 DEF Receive, Grows
<1>5. RowsBacked'
  BY <1>1, <1>2 DEF Receive, IInv, RowsBacked, RowBacked
<1>6. BatchesBacked'
  BY <1>3, <1>4, BatchesShrink DEF Receive, IInv
<1>7. HandsBacked'
  BY <1>3, <1>4, HandsKept DEF Receive, IInv
<1> QED
  BY <1>3, <1>5, <1>6, <1>7 DEF IInv

\* A claim takes rows that are there and leaves the finished ones alone.
LEMMA ClaimPreserves ==
    ASSUME IInv, NEW s \in Supervisor, ClaimBatch(s)
    PROVE  IInv'
<1>0. PICK batch \in SUBSET ClaimableRows(supervisor[s].queue) :
        ClaimRows(s, supervisor[s].queue, batch)
  BY ClaimIsOfBatch
<1> DEFINE q == supervisor[s].queue
           v == [supervisor[s] EXCEPT !.at = "WORK", !.batch = batch]
           new == [e \in Event |-> IF e \in batch THEN Claimed(q, row[q][e])
                                   ELSE IF Redrivable(row[q][e]) THEN Redriven(row[q][e])
                                   ELSE row[q][e]]
<1>1. q \in Queue /\ "INBOX" \in Queue /\ "OUTBOX" \in Queue
  BY DEF IInv, TypeOK, SupervisorRecord, Queue
<1>2. batch \subseteq Event
  BY DEF ClaimableRows
<1>3. v \in SupervisorRecord /\ v.batch = batch /\ v.queue = q
        /\ v.job = supervisor[s].job /\ v.outcome = supervisor[s].outcome
  BY <1>2 DEF IInv, TypeOK, SupervisorRecord
<1>4. supervisor' = [supervisor EXCEPT ![s] = v]
  BY <1>0 DEF ClaimRows, IInv, TypeOK
<1>5. /\ supervisor' \in [Supervisor -> SupervisorRecord]
      /\ supervisor'[s] = v
      /\ \A t \in Supervisor \ {s} : supervisor'[t] = supervisor[t]
  <2> HIDE DEF v
  <2> QED
    BY <1>3, <1>4, OneSupervisor DEF IInv, TypeOK
<1>6. \A e \in Event :
        \/ new[e] = row[q][e]
        \/ /\ new[e].state \in {"PENDING", "PROCESSING"}
           /\ row[q][e].state \in {"PENDING", "PROCESSING", "DEAD_LETTER_PENDING_REDRIVE"}
  BY <1>1, RowHelpers, ClaimTouches DEF IInv, TypeOK
<1>7. new \in [Event -> Row]
  BY <1>1, RowHelpers DEF IInv, TypeOK
<1>8. row' = [row EXCEPT ![q] = new]
  BY <1>0 DEF ClaimRows
<1> HIDE DEF v, new
<1>9. /\ row' \in [Queue -> [Event -> Row]] /\ row'[q] = new
      /\ \A p \in Queue \ {q} : row'[p] = row[p]
  BY <1>1, <1>7, <1>8 DEF IInv, TypeOK
<1>10. \A p \in Queue, e \in Event :
        \/ row'[p][e] = row[p][e]
        \/ /\ row'[p][e].state \in {"PENDING", "PROCESSING"}
           /\ row[p][e].state \in {"PENDING", "PROCESSING", "DEAD_LETTER_PENDING_REDRIVE"}
  BY <1>6, <1>9
<1>11. TypeOK'
  BY <1>0, <1>5, <1>9 DEF ClaimRows, IInv, TypeOK
<1>12. Grows
  BY <1>0, <1>10 DEF ClaimRows, Grows
<1>13. RowsBacked'
  <2> SUFFICES ASSUME NEW e \in Event
               PROVE  RowBacked(e)'
    BY DEF RowsBacked
  <2>1. RowBacked(e) /\ started' = started
    BY <1>0 DEF ClaimRows, IInv, RowsBacked
  <2>2. \/ row'["INBOX"][e] = row["INBOX"][e]
        \/ /\ row'["INBOX"][e].state \in {"PENDING", "PROCESSING"}
           /\ row["INBOX"][e].state # "ABSENT"
    BY <1>1, <1>10
  <2>3. CASE row'["OUTBOX"][e] = row["OUTBOX"][e]
    BY <2>1, <2>2, <2>3 DEF RowBacked
  <2>4. CASE /\ row'["OUTBOX"][e].state \in {"PENDING", "PROCESSING"}
             /\ row["OUTBOX"][e].state # "ABSENT"
    BY <2>1, <2>2, <2>4 DEF RowBacked
  <2> QED
    BY <1>1, <1>10, <2>3, <2>4
<1>14. BatchesBacked'
  <2> SUFFICES ASSUME NEW t \in Supervisor, NEW e \in supervisor'[t].batch
               PROVE  row'[supervisor'[t].queue][e].state # "ABSENT"
    BY DEF BatchesBacked
  <2>1. CASE t = s
    BY <1>1, <1>2, <1>3, <1>5, <1>12, <2>1, ClaimTouches DEF Grows
  <2>2. CASE t # s
    <3>1. supervisor'[t] = supervisor[t] /\ supervisor[t].queue \in Queue /\ e \in Event
      BY <1>5, <2>2 DEF IInv, TypeOK, SupervisorRecord
    <3> QED
      BY <1>12, <3>1 DEF IInv, BatchesBacked, Grows
  <2> QED
    BY <2>1, <2>2
<1>15. HandsBacked'
  BY <1>3, <1>5, <1>11, <1>12, HandsKept DEF IInv
<1> QED
  BY <1>11, <1>13, <1>14, <1>15 DEF IInv

\* A row is taken up only from a batch, so it is there; and if nothing but that
\* row's effect changes, the hand says what has become of it.
LEMMA TakePreserves ==
    ASSUME IInv, NEW s \in Supervisor, NEW e \in Event, NEW outcome \in {"DONE", "FAILED", "INVALID"},
           Take(s, e, outcome), row' \in [Queue -> [Event -> Row]], started' \subseteq Event,
           faults' \in Nat, Grows, RowsBacked',
           outcome = "DONE" =>
               IF supervisor[s].queue = "INBOX" THEN Appended(e)' ELSE e \in started',
           outcome = "INVALID" => supervisor[s].queue = "INBOX" /\ e \in Invalid
    PROVE  IInv'
<1> DEFINE v == [supervisor[s] EXCEPT !.batch = @ \ {e}, !.job = e, !.outcome = outcome]
<1>1. e \in 0..LastEvent /\ e # 0
  BY LastEventAssumption DEF Event
<1>2. /\ v \in SupervisorRecord /\ v.queue = supervisor[s].queue /\ v.job = e
      /\ v.batch \subseteq supervisor[s].batch /\ v.outcome = outcome
  BY <1>1 DEF IInv, TypeOK, SupervisorRecord
<1>3. supervisor' = [supervisor EXCEPT ![s] = v]
  BY DEF Take, IInv, TypeOK
<1> HIDE DEF v
<1>4. /\ supervisor' \in [Supervisor -> SupervisorRecord]
      /\ supervisor'[s] = v
      /\ \A t \in Supervisor \ {s} : supervisor'[t] = supervisor[t]
  BY <1>2, <1>3, OneSupervisor DEF IInv, TypeOK
<1>5. TypeOK'
  BY <1>4 DEF IInv, TypeOK
<1>6. supervisor[s].queue \in Queue /\ row[supervisor[s].queue][e].state # "ABSENT"
  BY DEF Take, IInv, TypeOK, BatchesBacked, SupervisorRecord
<1>7. BatchesBacked'
  BY <1>2, <1>4, <1>5, BatchesShrink DEF IInv
<1>8. supervisor'[s].job # 0 /\ HandBacked(s)'
  BY <1>1, <1>2, <1>4, <1>6 DEF HandBacked, Grows
<1>9. HandsBacked'
  BY <1>4, <1>5, <1>8, HandsKept DEF IInv
<1> QED
  BY <1>5, <1>7, <1>9 DEF IInv

\* If the rows and what was started stay, so does what they are backed by.
LEMMA RowsKept ==
    ASSUME IInv, row' = row, started' = started
    PROVE  Grows /\ RowsBacked' /\ row' \in [Queue -> [Event -> Row]] /\ started' \subseteq Event
<1>1. \A e \in Event : RowBacked(e)'
  BY DEF IInv, RowsBacked, RowBacked
<1> QED
  BY <1>1 DEF IInv, TypeOK, Grows, RowsBacked

\* The outcomes of a handler or of publish.
LEMMA HandlePreserves ==
    ASSUME IInv, NEW s \in Supervisor, NEW e \in Event, Handle(s, e)
    PROVE  IInv'
<1>1. supervisor[s].queue \in Queue /\ e \in supervisor[s].batch
        /\ row[supervisor[s].queue][e].state # "ABSENT"
  BY DEF Handle, HandleEvent, RefuseEvent, StartWorkflow, FailTransiently, Take,
         IInv, TypeOK, SupervisorRecord, BatchesBacked
<1>2. CASE HandleEvent(s, e)
  <2> DEFINE r == IF row["OUTBOX"][e].state = "ABSENT"
                  THEN Moved(row["OUTBOX"][e], "PENDING") ELSE row["OUTBOX"][e]
  <2>1. /\ "INBOX" \in Queue /\ "OUTBOX" \in Queue
        /\ row["OUTBOX"][e] \in Row
    BY DEF IInv, TypeOK, Queue
  <2>2. /\ r \in Row
        /\ r.state # "ABSENT"
        /\ r = row["OUTBOX"][e] \/ r.state = "PENDING"
    BY <2>1, MovedRow DEF Working
  <2>3. row' = [row EXCEPT !["OUTBOX"][e] = r]
    BY <1>2, <2>1 DEF HandleEvent, IInv, TypeOK
  <2> HIDE DEF r
  <2>4. /\ row' \in [Queue -> [Event -> Row]] /\ row'["OUTBOX"][e] = r
        /\ \A p \in Queue, d \in Event : p # "OUTBOX" \/ d # e => row'[p][d] = row[p][d]
    BY <2>1, <2>2, <2>3, OneRow DEF IInv, TypeOK
  <2>5. Grows
    BY <1>2, <2>2, <2>4 DEF Grows, HandleEvent
  <2>6. RowsBacked'
    <3> SUFFICES ASSUME NEW d \in Event
                 PROVE  RowBacked(d)'
      BY DEF RowsBacked
    <3>1. RowBacked(d) /\ started' = started /\ row'["INBOX"][d] = row["INBOX"][d]
      BY <1>2, <2>1, <2>4 DEF HandleEvent, IInv, RowsBacked
    <3>2. CASE d = e
      BY <1>1, <1>2, <2>2, <2>4, <3>1, <3>2 DEF HandleEvent, RowBacked
    <3>3. CASE d # e
      BY <2>1, <2>4, <3>1, <3>3 DEF RowBacked
    <3> QED
      BY <3>2, <3>3
  <2> QED
    BY <1>2, <2>2, <2>4, <2>5, <2>6, TakePreserves DEF HandleEvent, IInv, TypeOK
<1>3. CASE RefuseEvent(s, e)
  BY <1>3, RowsKept, TakePreserves DEF RefuseEvent, IInv, TypeOK
<1>4. CASE FailTransiently(s, e)
  <2>1. faults' \in Nat
    BY <1>4 DEF FailTransiently, IInv, TypeOK
  <2> QED
    BY <1>4, <2>1, RowsKept, TakePreserves DEF FailTransiently
<1>5. CASE StartWorkflow(s, e)
  <2>1. started' = started \cup {e} /\ row' = row /\ faults' = faults
    BY <1>5 DEF StartWorkflow
  <2>2. Grows /\ row' \in [Queue -> [Event -> Row]]
    BY <2>1 DEF Grows, IInv, TypeOK
  <2>3. RowsBacked'
    <3> SUFFICES ASSUME NEW d \in Event
                 PROVE  RowBacked(d)'
      BY DEF RowsBacked
    <3>1. RowBacked(d) /\ (d = e => Appended(d))
      BY <1>1, <1>5 DEF StartWorkflow, IInv, RowsBacked
    <3> QED
      BY <2>1, <3>1 DEF RowBacked
  <2> QED
    BY <1>5, <2>1, <2>2, <2>3, TakePreserves DEF StartWorkflow, IInv, TypeOK
<1> QED
  BY <1>2, <1>3, <1>4, <1>5 DEF Handle

\* A supervisor that writes the row in hand and lets go of it.
LEMMA MarkingPreserves ==
    ASSUME IInv, NEW s \in Supervisor, supervisor[s].job # 0,
           NEW r \in Row,
           LET q == supervisor[s].queue
               e == supervisor[s].job
           IN  /\ row' = [row EXCEPT ![q][e] = r]
               /\ r.state \notin {"ABSENT"}
               /\ r.state \in Finished =>
                      \/ q = "INBOX" /\ r.state = "PROCESSED" /\ Appended(e)
                      \/ q = "INBOX" /\ r.state = "REJECTED" /\ e \in Invalid
                      \/ q = "OUTBOX" /\ r.state = "PUBLISHED" /\ e \in started,
           supervisor' = Drop(s), started' = started, faults' = faults
    PROVE  IInv'
<1> DEFINE q == supervisor[s].queue
           e == supervisor[s].job
           v == [supervisor[s] EXCEPT !.job = 0, !.outcome = "NONE"]
<1>1. q \in Queue /\ e \in Event /\ "INBOX" \in Queue /\ "OUTBOX" \in Queue
  BY LastEventAssumption DEF IInv, TypeOK, SupervisorRecord, Event, Queue
<1>2. v \in SupervisorRecord /\ v.job = 0 /\ v.queue = q /\ v.batch = supervisor[s].batch
  <2>1. 0 \in 0..LastEvent
    BY LastEventAssumption
  <2>2. supervisor[s] \in SupervisorRecord
    BY DEF IInv, TypeOK
  <2> QED
    BY <2>1, <2>2 DEF SupervisorRecord
<1>3. supervisor' = [supervisor EXCEPT ![s] = v]
  BY DEF Drop, IInv, TypeOK
<1>4. row[q][e].state # "ABSENT"
  BY DEF IInv, HandsBacked, HandBacked
<1> HIDE DEF v
<1>5. /\ supervisor' \in [Supervisor -> SupervisorRecord] /\ supervisor'[s] = v
      /\ \A t \in Supervisor \ {s} : supervisor'[t] = supervisor[t]
  BY <1>2, <1>3, OneSupervisor DEF IInv, TypeOK
<1>6. /\ row' \in [Queue -> [Event -> Row]] /\ row'[q][e] = r
      /\ \A p \in Queue, d \in Event : p # q \/ d # e => row'[p][d] = row[p][d]
  BY <1>1, OneRow DEF IInv, TypeOK
<1>7. TypeOK'
  BY <1>5, <1>6 DEF IInv, TypeOK
<1>8. Grows
  BY <1>6 DEF Grows
<1>9. RowsBacked'
  <2> SUFFICES ASSUME NEW d \in Event
               PROVE  RowBacked(d)'
    BY DEF RowsBacked
  <2>1. RowBacked(d)
    BY DEF IInv, RowsBacked
  <2>2. CASE d # e
    BY <1>1, <1>6, <2>1, <2>2 DEF RowBacked
  <2>3. CASE d = e /\ q = "INBOX"
    <3>1. row'["INBOX"][d] = r /\ row'["OUTBOX"][d] = row["OUTBOX"][d]
      BY <1>1, <1>6, <2>3
    <3> QED
      BY <2>1, <2>3, <3>1 DEF RowBacked, Finished
  <2>4. CASE d = e /\ q = "OUTBOX"
    <3>1. row'["OUTBOX"][d] = r /\ row'["INBOX"][d] = row["INBOX"][d]
      BY <1>1, <1>6, <2>4
    <3>2. Appended(d)
      BY <1>4, <2>4
    <3> QED
      BY <2>1, <2>4, <3>1, <3>2 DEF RowBacked, Finished
  <2> QED
    BY <1>1, <2>2, <2>3, <2>4 DEF Queue
<1>10. BatchesBacked'
  BY <1>2, <1>5, <1>7, <1>8, BatchesShrink DEF IInv
<1>11. HandsBacked'
  BY <1>2, <1>5, <1>7, <1>8, HandsKept DEF IInv
<1> QED
  BY <1>7, <1>9, <1>10, <1>11 DEF IInv

\* A step that only empties a supervisor, lets it go on, or turns what it has in
\* hand into a failure.
LEMMA SupervisorOnly ==
    ASSUME IInv, NEW s \in Supervisor, NEW v \in SupervisorRecord,
           supervisor' = [supervisor EXCEPT ![s] = v],
           v.batch = {} \/ (v.batch = supervisor[s].batch /\ v.queue = supervisor[s].queue),
           \/ v.job = 0
           \/ /\ v.job = supervisor[s].job /\ v.queue = supervisor[s].queue
              /\ v.outcome = "FAILED",
           row' = row, started' = started, faults' \in Nat
    PROVE  IInv'
<1>1. /\ supervisor' \in [Supervisor -> SupervisorRecord] /\ supervisor'[s] = v
      /\ \A t \in Supervisor \ {s} : supervisor'[t] = supervisor[t]
  BY OneSupervisor DEF IInv, TypeOK
<1>2. TypeOK'
  BY <1>1 DEF IInv, TypeOK
<1>3. Grows /\ RowsBacked'
  BY RowsKept
<1>4. BatchesBacked'
  BY <1>1, <1>2, <1>3, BatchesShrink DEF IInv
<1>5. HandsBacked'
  BY <1>1, <1>2, <1>3, HandsKept DEF IInv
<1> QED
  BY <1>2, <1>3, <1>4, <1>5 DEF IInv

\* What becomes of a hand: marked, dropped, or turned into a failure.
LEMMA MarkPreserves ==
    ASSUME IInv, NEW s \in Supervisor, Mark(s) \/ LoseAnswer(s)
    PROVE  IInv'
<1> DEFINE q == supervisor[s].queue
           e == supervisor[s].job
           failed  == [supervisor[s] EXCEPT !.outcome = "FAILED"]
           dropped == [supervisor[s] EXCEPT !.job = 0, !.outcome = "NONE"]
<1>1. supervisor[s] \in SupervisorRecord /\ 0 \in 0..LastEvent
  BY LastEventAssumption DEF IInv, TypeOK
<1>2. /\ failed \in SupervisorRecord /\ failed.outcome = "FAILED"
      /\ failed.batch = supervisor[s].batch /\ failed.queue = q /\ failed.job = e
  BY <1>1 DEF SupervisorRecord
<1>3. /\ dropped \in SupervisorRecord /\ dropped.job = 0
      /\ dropped.batch = supervisor[s].batch /\ dropped.queue = q
  BY <1>1 DEF SupervisorRecord
<1>4. Down \in SupervisorRecord /\ Down.job = 0 /\ Down.batch = {}
  BY <1>1 DEF Down, Fresh, SupervisorRecord, Queue
<1>5. q \in Queue
  BY <1>1 DEF SupervisorRecord
<1>6. e # 0 => row[q][e] \in Row /\ e \in Event /\ HandBacked(s)
  BY <1>1, <1>5, LastEventAssumption
     DEF SupervisorRecord, Event, IInv, TypeOK, HandsBacked
<1>7. CASE MarkDone(s)
  <2> DEFINE to == IF q = "INBOX" THEN "PROCESSED" ELSE "PUBLISHED"
             r == Moved(row[q][e], to)
  <2>1. e # 0 /\ supervisor[s].outcome = "DONE"
    BY <1>7 DEF MarkDone, InHand
  <2>2. r \in Row /\ r.state = to
    BY <1>6, <2>1, MovedRow DEF Working, Finished
  <2>3. row' = [row EXCEPT ![q][e] = r]
    BY <1>5, <1>6, <1>7, <2>1 DEF MarkDone, IInv, TypeOK
  <2>4. IF q = "INBOX" THEN Appended(e) ELSE e \in started
    BY <1>6, <2>1 DEF HandBacked
  <2> HIDE DEF r
  <2> QED
    BY <1>5, <1>7, <2>1, <2>2, <2>3, <2>4, MarkingPreserves DEF MarkDone, Queue, Finished
<1>8. CASE CompletionConflict(s)
  BY <1>2, <1>8, SupervisorOnly DEF CompletionConflict, IInv, TypeOK
<1>9. CASE MarkFailed(s)
  <2> DEFINE r == Failed(q, row[q][e])
  <2>1. e # 0
    BY <1>9 DEF MarkFailed, InHand
  <2>2. r \in Row /\ r.state \in {"PENDING", "DEAD_LETTER_PENDING_REDRIVE"}
    BY <1>5, <1>6, <2>1, RowHelpers
  <2>3. row' = [row EXCEPT ![q][e] = r]
    BY <1>5, <1>6, <1>9, <2>1 DEF MarkFailed, IInv, TypeOK
  <2> HIDE DEF r
  <2> QED
    BY <1>9, <2>1, <2>2, <2>3, MarkingPreserves DEF MarkFailed, Finished
<1>10. CASE MarkRejected(s)
  <2> DEFINE r == Moved(row["INBOX"][e], "REJECTED")
  <2>1. e # 0 /\ supervisor[s].outcome = "INVALID"
    BY <1>10 DEF MarkRejected, InHand
  <2>2. q = "INBOX" /\ e \in Invalid
    BY <1>6, <2>1 DEF HandBacked
  <2>3. r \in Row /\ r.state = "REJECTED"
    BY <1>6, <2>1, <2>2, MovedRow DEF Working, Finished
  <2>4. row' = [row EXCEPT ![q][e] = r]
    BY <1>5, <1>6, <1>10, <2>1, <2>2 DEF MarkRejected, IInv, TypeOK
  <2> HIDE DEF r
  <2> QED
    BY <1>10, <2>1, <2>2, <2>3, <2>4, MarkingPreserves DEF MarkRejected, Finished
<1>11. CASE IgnoreConflict(s)
  <2>1. supervisor' = [supervisor EXCEPT ![s] = dropped]
    BY <1>11 DEF IgnoreConflict, Drop, IInv, TypeOK
  <2> QED
    BY <1>3, <1>11, <2>1, SupervisorOnly DEF IgnoreConflict, IInv, TypeOK
<1>12. CASE DieOfConflict(s)
  BY <1>4, <1>12, SupervisorOnly DEF DieOfConflict, IInv, TypeOK
<1>13. CASE LoseAnswer(s)
  <2>1. faults' \in Nat
    BY <1>13 DEF LoseAnswer, IInv, TypeOK
  <2> QED
    BY <1>2, <1>13, <2>1, SupervisorOnly DEF LoseAnswer
<1> QED
  BY <1>7, <1>8, <1>9, <1>10, <1>11, <1>12, <1>13 DEF Mark

\* The end of a batch, a crash and a restart leave a supervisor empty-handed.
LEMMA RestartPreserves ==
    ASSUME IInv, NEW s \in Supervisor, NextQueue(s) \/ Crash(s) \/ Restart(s)
    PROVE  IInv'
<1>1. \A q \in Queue : /\ Fresh(q) \in SupervisorRecord
                       /\ Fresh(q).job = 0 /\ Fresh(q).batch = {}
  BY LastEventAssumption DEF Fresh, SupervisorRecord
<1>2. Down \in SupervisorRecord /\ Down.job = 0 /\ Down.batch = {}
  BY LastEventAssumption DEF Down, Fresh, SupervisorRecord, Queue
<1>3. faults' \in Nat
  BY DEF NextQueue, Crash, Restart, IInv, TypeOK
<1>4. "INBOX" \in Queue /\ "OUTBOX" \in Queue
  BY DEF Queue
<1>5. CASE NextQueue(s)
  <2> DEFINE v == Fresh(IF supervisor[s].queue = "INBOX" THEN "OUTBOX" ELSE "INBOX")
  <2>1. v \in SupervisorRecord /\ v.job = 0 /\ v.batch = {}
    BY <1>1, <1>4
  <2> HIDE DEF v
  <2>2. supervisor' = [supervisor EXCEPT ![s] = v]
    BY <1>5 DEF NextQueue, v
  <2> QED
    BY <1>3, <1>5, <2>1, <2>2, SupervisorOnly DEF NextQueue
<1>6. CASE Crash(s)
  BY <1>2, <1>3, <1>6, SupervisorOnly DEF Crash
<1>7. CASE Restart(s)
  BY <1>1, <1>3, <1>4, <1>7, SupervisorOnly DEF Restart
<1> QED
  BY <1>5, <1>6, <1>7

\* Time changes no state of a row.
LEMMA ElapsePreserves ==
    ASSUME IInv, NEW q \in Queue, NEW e \in Event, Elapse(q, e) \/ Outlast(q, e)
    PROVE  IInv'
<1> DEFINE r == [row[q][e] EXCEPT !.elapsed = TRUE]
<1>1. r \in Row /\ r.state = row[q][e].state
  <2>1. row[q][e] \in Row
    BY DEF IInv, TypeOK
  <2> QED
    BY <2>1 DEF Row
<1>2. row' = [row EXCEPT ![q][e] = r]
  BY DEF Elapse, Outlast, TimePasses, IInv, TypeOK
<1> HIDE DEF r
<1>3. /\ row' \in [Queue -> [Event -> Row]]
      /\ \A p \in Queue, d \in Event : row'[p][d].state = row[p][d].state
  BY <1>1, <1>2, OneRow DEF IInv, TypeOK
<1>4. TypeOK'
  BY <1>3 DEF Elapse, Outlast, TimePasses, IInv, TypeOK
<1>5. Grows
  BY <1>3 DEF Elapse, Outlast, TimePasses, Grows
<1>6. RowsBacked'
  <2> SUFFICES ASSUME NEW d \in Event
               PROVE  RowBacked(d)'
    BY DEF RowsBacked
  <2>1. RowBacked(d) /\ started' = started
    BY DEF Elapse, Outlast, TimePasses, IInv, RowsBacked
  <2>2. /\ row'["INBOX"][d].state = row["INBOX"][d].state
        /\ row'["OUTBOX"][d].state = row["OUTBOX"][d].state
    BY <1>3 DEF Queue
  <2> QED
    BY <2>1, <2>2 DEF RowBacked
<1>7. BatchesBacked'
  BY <1>4, <1>5, BatchesShrink DEF Elapse, Outlast, TimePasses, IInv
<1>8. HandsBacked'
  BY <1>4, <1>5, HandsKept DEF Elapse, Outlast, TimePasses, IInv
<1> QED
  BY <1>4, <1>6, <1>7, <1>8 DEF IInv

LEMMA NextPreserves ==
    ASSUME IInv, [Next]_vars
    PROVE  IInv'
<1>1. CASE UNCHANGED vars
  <2>1. TypeOK' /\ RowsBacked' /\ BatchesBacked'
    BY <1>1, RowsKept DEF vars, IInv, TypeOK, BatchesBacked
  <2>2. HandsBacked'
    BY <1>1 DEF vars, IInv, HandsBacked, HandBacked
  <2> QED
    BY <2>1, <2>2 DEF IInv
<1>2. CASE Next
  BY <1>2, ReceivePreserves, ClaimPreserves, HandlePreserves, MarkPreserves,
     RestartPreserves, ElapsePreserves DEF Next, Run
<1> QED
  BY <1>1, <1>2

\* However many supervisors there are, and however often they crash or come late,
\* the rows, the batches and what each supervisor has in hand agree.
THEOREM Invariance == Spec => []IInv
<1> QED
  BY InitEstablishes, NextPreserves, PTL DEF Spec

\* What the queues say has happened has happened.
THEOREM MarksAreAlwaysTrue == Spec => []MarksAreTrue
<1>1. IInv => MarksAreTrue
  BY DEF IInv, RowsBacked, RowBacked, MarksAreTrue
<1> QED
  BY <1>1, Invariance, PTL

\* A row that some queue has finished with is never touched again.
THEOREM FinishedRowsStay == Spec => FinishedStays
<1> DEFINE Kept == \A q \in Queue, e \in Event :
                       row[q][e].state \in Finished => row'[q][e] = row[q][e]
<1>1. ASSUME IInv, [Next]_vars
      PROVE  Kept
  <2> SUFFICES ASSUME NEW q \in Queue, NEW e \in Event, row[q][e].state \in Finished
               PROVE  row'[q][e] = row[q][e]
    OBVIOUS
  <2>0. row[q][e].state \notin {"ABSENT", "PENDING", "PROCESSING", "DEAD_LETTER_PENDING_REDRIVE"}
    BY DEF Finished
  <2>1. ASSUME NEW d \in Event, Receive(d)
        PROVE  row'[q][e] = row[q][e]
    BY <1>1, <2>0, <2>1 DEF Receive, IInv, TypeOK, Queue
  <2>2. ASSUME NEW s \in Supervisor, ClaimBatch(s)
        PROVE  row'[q][e] = row[q][e]
    <3>0. PICK batch \in SUBSET ClaimableRows(supervisor[s].queue) :
        ClaimRows(s, supervisor[s].queue, batch)
      BY <2>2, ClaimIsOfBatch
    <3>1. supervisor[s].queue = q => ~Redrivable(row[q][e]) /\ e \notin batch
      BY <2>0, ClaimTouches
    <3>2. supervisor[s].queue \in Queue
      BY <1>1 DEF IInv, TypeOK, SupervisorRecord
    <3> QED
      BY <1>1, <3>0, <3>1, <3>2 DEF ClaimRows, IInv, TypeOK
  <2>3. ASSUME NEW s \in Supervisor, NEW d \in Event, Handle(s, d)
        PROVE  row'[q][e] = row[q][e]
    BY <1>1, <2>0, <2>3
       DEF Handle, HandleEvent, RefuseEvent, StartWorkflow, FailTransiently, IInv, TypeOK, Queue
  <2>4. ASSUME NEW s \in Supervisor, Mark(s) \/ LoseAnswer(s)
        PROVE  row'[q][e] = row[q][e]
    <3>1. supervisor[s].queue \in Queue /\ supervisor[s].job \in 0..LastEvent
      BY <1>1 DEF IInv, TypeOK, SupervisorRecord
    <3>2. CASE MarkDone(s) \/ MarkFailed(s)
      <4>1. supervisor[s].queue # q \/ supervisor[s].job # e
        BY <2>0, <3>2 DEF MarkDone, MarkFailed
      <4> QED
        BY <1>1, <3>1, <3>2, <4>1 DEF MarkDone, MarkFailed, IInv, TypeOK
    <3>3. CASE MarkRejected(s)
      BY <1>1, <2>0, <3>3 DEF MarkRejected, IInv, TypeOK, Queue
    <3>4. CASE CompletionConflict(s) \/ IgnoreConflict(s) \/ DieOfConflict(s) \/ LoseAnswer(s)
      BY <3>4 DEF CompletionConflict, IgnoreConflict, DieOfConflict, LoseAnswer
    <3> QED
      BY <2>4, <3>2, <3>3, <3>4 DEF Mark
  <2>5. ASSUME NEW s \in Supervisor, NextQueue(s) \/ Crash(s) \/ Restart(s)
        PROVE  row'[q][e] = row[q][e]
    BY <2>5 DEF NextQueue, Crash, Restart
  <2>6. ASSUME NEW p \in Queue, NEW d \in Event, Elapse(p, d) \/ Outlast(p, d)
        PROVE  row'[q][e] = row[q][e]
    BY <1>1, <2>0, <2>6 DEF Elapse, Outlast, TimePasses, IInv, TypeOK
  <2>7. CASE UNCHANGED vars
    BY <2>7 DEF vars
  <2> QED
    BY <1>1, <2>1, <2>2, <2>3, <2>4, <2>5, <2>6, <2>7 DEF Next, Run
<1>2. IInv /\ [Next]_vars => [Kept]_vars
  BY <1>1
<1>3. FinishedStays <=> [][Kept]_vars
  BY DEF FinishedStays
<1> QED
  BY <1>2, <1>3, Invariance, PTL DEF Spec

(***************************************************************************)
(* The queues implement EventDelivery, its fairness aside.                 *)
(***************************************************************************)

\* An event stays where it is while the facts that progress counts stay.
LEMMA SameReached ==
    ASSUME NEW e \in Event,
           row'["INBOX"][e].state = "ABSENT"   <=> row["INBOX"][e].state = "ABSENT",
           row'["INBOX"][e].state = "REJECTED" <=> row["INBOX"][e].state = "REJECTED",
           row'["OUTBOX"][e].state = "ABSENT"  <=> row["OUTBOX"][e].state = "ABSENT",
           e \in started' <=> e \in started
    PROVE  Reached(e)' = Reached(e)
BY DEF Reached

\* If one event moves and no other, that is the step of the promise.
LEMMA OneMoves ==
    ASSUME NEW e \in Event, \A d \in Event \ {e} : Reached(d)' = Reached(d)
    PROVE  progress[e] = Reached(e) /\ progress' = [progress EXCEPT ![e] = Reached(e)']
BY DEF progress

\* What becomes of a batch, a mark that is not a rejection, a crash and the time
\* move no event.
LEMMA NobodyMoves ==
    ASSUME \A e \in Event : Reached(e)' = Reached(e)
    PROVE  progress' = progress
BY DEF progress

LEMMA ReceiveMoves ==
    ASSUME IInv, NEW e \in Event, Receive(e)
    PROVE  Delivery!Next
<1>1. /\ "INBOX" \in Queue /\ "OUTBOX" \in Queue
      /\ RowBacked(e)
      /\ row["INBOX"][e] \in Row
  BY DEF IInv, TypeOK, RowsBacked, Queue
<1>2. /\ row["INBOX"][e].state = "ABSENT"
      /\ row'["INBOX"][e].state = "PENDING" /\ row'["OUTBOX"][e] = row["OUTBOX"][e]
      /\ started' = started
      /\ \A d \in Event \ {e} : /\ row'["INBOX"][d] = row["INBOX"][d]
                               /\ row'["OUTBOX"][d] = row["OUTBOX"][d]
  BY <1>1 DEF Receive, Moved, IInv, TypeOK
<1>3. Reached(e) = "UNKNOWN" /\ Reached(e)' = "RECEIVED"
  BY <1>1, <1>2 DEF Reached, RowBacked
<1>4. \A d \in Event \ {e} : Reached(d)' = Reached(d)
  BY <1>2, SameReached
<1> QED
  BY <1>3, <1>4, OneMoves DEF Delivery!Next, Delivery!Receive, Delivery!Advance

LEMMA ClaimMovesNobody ==
    ASSUME IInv, NEW s \in Supervisor, ClaimBatch(s)
    PROVE  progress' = progress
<1> SUFFICES ASSUME NEW e \in Event
             PROVE  Reached(e)' = Reached(e)
  BY NobodyMoves
<1> DEFINE q == supervisor[s].queue
<1>0. PICK batch \in SUBSET ClaimableRows(q) : ClaimRows(s, q, batch)
  BY ClaimIsOfBatch
<1>1. q \in Queue /\ "INBOX" \in Queue /\ "OUTBOX" \in Queue
  BY DEF IInv, TypeOK, SupervisorRecord, Queue
<1>2. row[q][e] \in Row
  BY <1>1 DEF IInv, TypeOK
<1>3. \/ row'[q][e] = row[q][e]
      \/ /\ row'[q][e].state \in {"PENDING", "PROCESSING"}
         /\ row[q][e].state \in {"PENDING", "PROCESSING", "DEAD_LETTER_PENDING_REDRIVE"}
  BY <1>0, <1>1, <1>2, RowHelpers, ClaimTouches DEF ClaimRows, IInv, TypeOK
<1>4. \A p \in Queue : p # q => row'[p] = row[p]
  BY <1>0, <1>1 DEF ClaimRows, IInv, TypeOK
<1>5. started' = started
  BY <1>0 DEF ClaimRows
<1>6. CASE q = "INBOX"
  BY <1>1, <1>3, <1>4, <1>5, <1>6, SameReached
<1>7. CASE q = "OUTBOX"
  BY <1>1, <1>3, <1>4, <1>5, <1>7, SameReached
<1> QED
  BY <1>1, <1>6, <1>7 DEF Queue

LEMMA HandleMoves ==
    ASSUME IInv, NEW s \in Supervisor, NEW e \in Event, Handle(s, e)
    PROVE  Delivery!Next \/ progress' = progress
<1>1. /\ "INBOX" \in Queue /\ "OUTBOX" \in Queue
      /\ RowBacked(e) /\ row["OUTBOX"][e] \in Row
      /\ supervisor[s].queue \in Queue
  BY DEF IInv, TypeOK, RowsBacked, Queue, SupervisorRecord
<1>2. e \in supervisor[s].batch /\ row[supervisor[s].queue][e].state # "ABSENT"
  BY DEF Handle, HandleEvent, RefuseEvent, StartWorkflow, FailTransiently, Take,
         IInv, BatchesBacked
<1>3. CASE HandleEvent(s, e)
  <2>1. /\ started' = started /\ row'["INBOX"] = row["INBOX"]
        /\ row'["OUTBOX"][e].state # "ABSENT"
        /\ \A d \in Event \ {e} : row'["OUTBOX"][d] = row["OUTBOX"][d]
    BY <1>1, <1>3 DEF HandleEvent, Moved, IInv, TypeOK
  <2>2. \A d \in Event \ {e} : Reached(d)' = Reached(d)
    BY <2>1, SameReached
  <2>3. CASE Appended(e)
    <3>1. Reached(e)' = Reached(e)
      BY <2>1, <2>3, SameReached
    <3> QED
      BY <2>2, <3>1, NobodyMoves
  <2>4. CASE ~Appended(e)
    <3>1. row["INBOX"][e].state \notin {"ABSENT", "REJECTED"} /\ e \notin Invalid \cup Poison
      BY <1>1, <1>2, <1>3 DEF HandleEvent, RowBacked
    <3>2. Reached(e) = "RECEIVED" /\ Reached(e)' = "HANDLED"
      BY <1>1, <2>1, <2>4, <3>1 DEF Reached, RowBacked
    <3> QED
      BY <2>2, <3>1, <3>2, OneMoves DEF Delivery!Next, Delivery!Handle, Delivery!Advance
  <2> QED
    BY <2>3, <2>4
<1>4. CASE StartWorkflow(s, e)
  <2>1. row' = row /\ started' = started \cup {e}
    BY <1>4 DEF StartWorkflow
  <2>2. \A d \in Event \ {e} : Reached(d)' = Reached(d)
    BY <2>1, SameReached
  <2>3. CASE e \in started
    <3>1. Reached(e)' = Reached(e)
      BY <2>1, <2>3, SameReached
    <3> QED
      BY <2>2, <3>1, NobodyMoves
  <2>4. CASE e \notin started
    <3>1. Appended(e)
      BY <1>2, <1>4 DEF StartWorkflow
    <3>2. row["INBOX"][e].state \notin {"ABSENT", "REJECTED"}
      BY <1>1, <3>1 DEF RowBacked
    <3>3. Reached(e) = "HANDLED" /\ Reached(e)' = "STARTED"
      BY <2>1, <2>4, <3>1, <3>2 DEF Reached
    <3> QED
      BY <2>2, <3>3, OneMoves DEF Delivery!Next, Delivery!Start, Delivery!Advance
  <2> QED
    BY <2>3, <2>4
<1>5. CASE RefuseEvent(s, e) \/ FailTransiently(s, e)
  BY <1>5, SameReached, NobodyMoves DEF RefuseEvent, FailTransiently
<1> QED
  BY <1>3, <1>4, <1>5 DEF Handle

LEMMA MarkMoves ==
    ASSUME IInv, NEW s \in Supervisor, Mark(s) \/ LoseAnswer(s)
    PROVE  Delivery!Next \/ progress' = progress
<1> DEFINE q == supervisor[s].queue
           e == supervisor[s].job
<1>1. /\ "INBOX" \in Queue /\ "OUTBOX" \in Queue /\ q \in Queue
      /\ e \in 0..LastEvent /\ (e # 0 => e \in Event)
  BY LastEventAssumption DEF IInv, TypeOK, SupervisorRecord, Queue, Event
<1>2. CASE MarkDone(s) \/ MarkFailed(s)
  <2>1. e \in Event /\ row[q][e].state = "PROCESSING" /\ row[q][e] \in Row
    BY <1>1, <1>2 DEF MarkDone, MarkFailed, InHand, IInv, TypeOK
  <2>2. /\ row'[q][e].state \notin {"ABSENT", "REJECTED"}
        /\ started' = started
        /\ \A p \in Queue, d \in Event : p # q \/ d # e => row'[p][d] = row[p][d]
    BY <1>1, <1>2, <2>1, RowHelpers DEF MarkDone, MarkFailed, Moved, IInv, TypeOK
  <2>3. \A d \in Event : Reached(d)' = Reached(d)
    <3> SUFFICES ASSUME NEW d \in Event
                 PROVE  Reached(d)' = Reached(d)
      OBVIOUS
    <3>1. CASE q = "INBOX"
      BY <1>1, <2>1, <2>2, <3>1, SameReached
    <3>2. CASE q = "OUTBOX"
      BY <1>1, <2>1, <2>2, <3>2, SameReached
    <3> QED
      BY <1>1, <3>1, <3>2 DEF Queue
  <2> QED
    BY <2>3, NobodyMoves
<1>3. CASE MarkRejected(s)
  <2>1. PICK d \in Event : d = e
    BY <1>1, <1>3 DEF MarkRejected, InHand
  <2>2. /\ row["INBOX"][d].state = "PROCESSING" /\ row["INBOX"][d] \in Row
        /\ supervisor[s].outcome = "INVALID" /\ e # 0
    BY <1>1, <1>3, <2>1 DEF MarkRejected, InHand, IInv, TypeOK
  <2>3. d \in Invalid /\ RowBacked(d)
    BY <1>1, <2>1, <2>2 DEF IInv, HandsBacked, HandBacked, RowsBacked
  <2>4. /\ row'["INBOX"][d].state = "REJECTED" /\ started' = started
        /\ row'["OUTBOX"] = row["OUTBOX"]
        /\ \A f \in Event \ {d} : row'["INBOX"][f] = row["INBOX"][f]
    BY <1>1, <1>3, <2>1, <2>2 DEF MarkRejected, Moved, IInv, TypeOK
  <2>5. Reached(d) = "RECEIVED" /\ Reached(d)' = "REJECTED"
    BY <2>2, <2>3, <2>4 DEF Reached, RowBacked
  <2>6. \A f \in Event \ {d} : Reached(f)' = Reached(f)
    BY <2>4, SameReached
  <2> QED
    BY <2>3, <2>5, <2>6, OneMoves DEF Delivery!Next, Delivery!Reject, Delivery!Advance
<1>4. CASE CompletionConflict(s) \/ IgnoreConflict(s) \/ DieOfConflict(s) \/ LoseAnswer(s)
  BY <1>4, SameReached, NobodyMoves
     DEF CompletionConflict, IgnoreConflict, DieOfConflict, LoseAnswer
<1> QED
  BY <1>2, <1>3, <1>4 DEF Mark

\* Through crashes, elapsed leases and late marks no event skips a stage, goes
\* back, takes effect although it is invalid, or is rejected although it is not.
THEOREM SafeDelivery == Spec => Delivery!SafeSpec
<1>1. Init => Delivery!Init
  <2>1. Absent.state = "ABSENT" /\ "INBOX" \in Queue
    BY DEF Absent, Queue
  <2>2. ASSUME Init, NEW e \in Event
        PROVE  Reached(e) = "UNKNOWN"
    BY <2>1, <2>2 DEF Init, Reached
  <2> QED
    BY <2>2 DEF Delivery!Init, progress
<1>2. ASSUME IInv, [Next]_vars
      PROVE  Delivery!Next \/ progress' = progress
  <2>1. CASE UNCHANGED vars
    BY <2>1, SameReached, NobodyMoves DEF vars
  <2>2. ASSUME NEW s \in Supervisor, NextQueue(s) \/ Crash(s) \/ Restart(s)
        PROVE  progress' = progress
    BY <2>2, SameReached, NobodyMoves DEF NextQueue, Crash, Restart
  <2>3. ASSUME NEW q \in Queue, NEW e \in Event, Elapse(q, e) \/ Outlast(q, e)
        PROVE  progress' = progress
    <3>1. row[q][e] \in Row /\ "INBOX" \in Queue /\ "OUTBOX" \in Queue
      BY <1>2 DEF IInv, TypeOK, Queue
    <3>2. \A p \in Queue, d \in Event : row'[p][d].state = row[p][d].state
      <4> DEFINE r == [row[q][e] EXCEPT !.elapsed = TRUE]
      <4>1. r \in Row /\ r.state = row[q][e].state
        BY <3>1 DEF Row
      <4>2. row' = [row EXCEPT ![q][e] = r]
        BY <1>2, <2>3 DEF Elapse, Outlast, TimePasses, IInv, TypeOK
      <4> HIDE DEF r
      <4> QED
        BY <1>2, <4>1, <4>2, OneRow DEF IInv, TypeOK
    <3> QED
      BY <2>3, <3>1, <3>2, SameReached, NobodyMoves DEF Elapse, Outlast, TimePasses
  <2> QED
    BY <1>2, <2>1, <2>2, <2>3, ReceiveMoves, ClaimMovesNobody, HandleMoves, MarkMoves
       DEF Next, Run
<1>3. IInv /\ [Next]_vars => [Delivery!Next]_progress
  BY <1>2
<1> QED
  BY <1>1, <1>3, Invariance, PTL DEF Spec, Delivery!SafeSpec
================================================================================
