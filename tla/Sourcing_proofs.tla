--------------------------- MODULE Sourcing_proofs ---------------------------
(***************************************************************************)
(* The cursor of the mailbox and the sweep over a supply version's          *)
(* counterparts; then the five components that bring organisations and mail *)
(* in side by side, where each behaves as it does alone and so keeps what   *)
(* it keeps alone.                                                          *)
(***************************************************************************)
EXTENDS MCSourcing, LeasedJobs_proofs

-------------------------------------------------------------------------------
(* The cursor passes no mail that is not in the inbox, for any mailbox, any *)
(* number of requests at once and any number of faults.                     *)

\* What a request has read of the cursor, and what it still has to insert.
RequestBacked(h) ==
    LET r == request[h] IN
    r.at # "IDLE" =>
      /\ r.push <= mailbox
      /\ \A m \in Mail : m <= r.from => m \in inbox
      /\ r.at = "INSERT" =>
           \A m \in Mail : r.from < m /\ m <= r.push => m \in inbox \cup r.todo

\* The inductive invariant.
ReceptionInv ==
    /\ MailTypeOK
    /\ \A p \in pushes : p <= mailbox
    /\ NoMailSkipped
    /\ \A h \in Handler : RequestBacked(h)

LEMMA ReceptionBegins == MailInit => ReceptionInv
BY MailAssumption
   DEF MailInit, ReceptionInv, MailTypeOK, NoMailSkipped, RequestBacked, NoRequest, Request, Mail

\* A request that is given up or answered owes nothing.
LEMMA RequestEnds ==
    ASSUME ReceptionInv, NEW h \in Handler, Reply(h)
    PROVE  /\ request' \in [Handler -> Request]
           /\ request'[h].at = "IDLE"
           /\ \A g \in Handler \ {h} : request'[g] = request[g]
BY MailAssumption DEF ReceptionInv, MailTypeOK, Reply, NoRequest, Request, Mail

\* The requests that a step leaves alone stay backed while the mailbox and the
\* inbox only grow.
LEMMA OthersStayBacked ==
    ASSUME ReceptionInv, NEW g \in Handler, request'[g] = request[g],
           mailbox' \in Nat, mailbox <= mailbox', inbox \subseteq inbox'
    PROVE  RequestBacked(g)'
<1>1. RequestBacked(g) /\ mailbox \in Nat /\ request[g].push \in Nat
  BY MailAssumption DEF ReceptionInv, MailTypeOK, Request
<1> QED  BY <1>1 DEF RequestBacked

LEMMA EnvironmentKeeps ==
    ASSUME ReceptionInv, Arrive \/ WatchLapses \/ RenewWatch
    PROVE  ReceptionInv'
<1>0. /\ mailbox \in 0..LastMail /\ pushes \subseteq Mail /\ LastMail \in Nat /\ MailFaults \in Nat
      /\ mailFaults \in 0..MailFaults
  BY MailAssumption DEF ReceptionInv, MailTypeOK
<1>1. MailTypeOK'
  <2>1. ASSUME Arrive  PROVE mailbox' \in Mail /\ pushes' \subseteq Mail /\ mailbox' \in 0..LastMail
    BY <1>0, <2>1 DEF Arrive, Mail
  <2>2. CASE Arrive
    BY <2>1, <2>2 DEF Arrive, ReceptionInv, MailTypeOK
  <2>3. CASE WatchLapses
    <3>1. mailFaults' \in 0..MailFaults
      BY <1>0, <2>3 DEF WatchLapses, MailFault
    <3>2. watch' \in BOOLEAN
      BY <2>3 DEF WatchLapses
    <3> QED  BY <2>3, <3>1, <3>2 DEF WatchLapses, ReceptionInv, MailTypeOK
  <2>4. CASE RenewWatch
    BY <2>4 DEF RenewWatch, ReceptionInv, MailTypeOK
  <2> QED  BY <2>2, <2>3, <2>4
<1>2. /\ mailbox' \in Nat /\ mailbox <= mailbox' /\ inbox' = inbox
      /\ request' = request /\ cursor' = cursor
  BY MailAssumption DEF ReceptionInv, MailTypeOK, Arrive, WatchLapses, RenewWatch
<1>3. \A p \in pushes' : p <= mailbox'
  <2>1. \A p \in pushes : p \in Nat /\ p <= mailbox
    BY <1>0 DEF Mail, ReceptionInv
  <2> QED  BY <1>0, <2>1 DEF Arrive, WatchLapses, RenewWatch
<1>4. NoMailSkipped'
  BY <1>2 DEF ReceptionInv, NoMailSkipped
<1>5. \A h \in Handler : RequestBacked(h)'
  BY <1>2, OthersStayBacked
<1> QED  BY <1>1, <1>3, <1>4, <1>5 DEF ReceptionInv

LEMMA HandlersKeep ==
    ASSUME ReceptionInv, NEW h \in Handler,
           HandlerStep(h) \/ DropRequest(h) \/ \E p \in Mail : OpenPush(h, p)
    PROVE  ReceptionInv'
<1> USE MailAssumption
<1>0. /\ request[h] \in Request /\ RequestBacked(h) /\ mailbox \in Nat /\ cursor \in Nat
      /\ request \in [Handler -> Request]
  BY DEF ReceptionInv, MailTypeOK
<1>1. ASSUME NEW p \in Mail, OpenPush(h, p)  PROVE ReceptionInv'
  <2>a. p \in 0..LastMail /\ cursor \in 0..LastMail
    BY DEF Mail, ReceptionInv, MailTypeOK
  <2>b. request' = [request EXCEPT ![h] = [@ EXCEPT !.at = "LIST", !.push = p, !.from = cursor]]
    BY <1>1 DEF OpenPush
  <2>c. PICK r : request' = [request EXCEPT ![h] = r]
    BY <2>b
  <2>1. MailTypeOK'
    <3>1. request' \in [Handler -> Request]
      BY <1>0, <2>a, <2>b DEF Request
    <3> QED  BY <1>1, <3>1 DEF OpenPush, ReceptionInv, MailTypeOK
  <2>2. RequestBacked(h)'
    <3>1. request'[h] = [NoRequest EXCEPT !.at = "LIST", !.push = p, !.from = cursor]
      BY <1>0, <1>1 DEF OpenPush
    <3>2. /\ request'[h].at = "LIST" /\ request'[h].push = p /\ request'[h].from = cursor
      BY <3>1 DEF NoRequest
    <3> QED  BY <1>1, <3>2 DEF RequestBacked, OpenPush, ReceptionInv, NoMailSkipped
  <2>3. \A g \in Handler \ {h} : RequestBacked(g)'
    <3>1. \A g \in Handler \ {h} : request'[g] = request[g]
      BY <1>0, <2>c
    <3>2. UNCHANGED <<mailbox, inbox>>
      BY <1>1 DEF OpenPush
    <3> QED  BY <1>0, <3>1, <3>2, OthersStayBacked
  <2> QED  BY <1>1, <2>1, <2>2, <2>3 DEF ReceptionInv, OpenPush, NoMailSkipped
<1>2. CASE ListHistory(h)
  <2>1. CASE Listed(h) \cap Broken # {}
    <3>1. Reply(h)
      BY <1>2, <2>1 DEF ListHistory
    <3>2. MailTypeOK'
      BY <1>2, <3>1, RequestEnds DEF ListHistory, ReceptionInv, MailTypeOK
    <3>3. \A g \in Handler : RequestBacked(g)'
      BY <1>0, <1>2, <3>1, RequestEnds, OthersStayBacked DEF ListHistory, RequestBacked
    <3> QED  BY <1>2, <3>2, <3>3 DEF ReceptionInv, ListHistory, NoMailSkipped
  <2>2. CASE Listed(h) \cap Broken = {}
    <3>1. request' = [request EXCEPT ![h] = [@ EXCEPT !.at = "INSERT", !.todo = Listed(h)]]
      BY <1>2, <2>2 DEF ListHistory
    <3>2. Listed(h) \subseteq Mail
      BY <1>0 DEF Listed, Mail, ReceptionInv, MailTypeOK, Request
    <3>3. /\ request'[h].at = "INSERT" /\ request'[h].todo = Listed(h)
          /\ request'[h].push = request[h].push /\ request'[h].from = request[h].from
          /\ request'[h] \in Request
      BY <1>0, <3>1, <3>2 DEF Request
    <3>4. MailTypeOK'
      BY <1>0, <1>2, <3>1, <3>3 DEF ListHistory, ReceptionInv, MailTypeOK
    <3>5. RequestBacked(h)'
      BY <1>0, <1>2, <3>3 DEF RequestBacked, ListHistory, Listed, Mail, Request
    <3>6. \A g \in Handler \ {h} : RequestBacked(g)'
      BY <1>0, <1>2, <3>1, OthersStayBacked DEF ListHistory
    <3> QED  BY <1>2, <3>4, <3>5, <3>6 DEF ReceptionInv, ListHistory, NoMailSkipped
  <2> QED  BY <2>1, <2>2
<1>3. CASE InsertMail(h)
  <2>1. PICK m \in request[h].todo :
          /\ \/ Reply(h)
             \/ request' = [request EXCEPT ![h].todo = @ \ {m}]
          /\ inbox' = inbox \cup {m}
          /\ \/ digest' = digest
             \/ digest' = [digest EXCEPT ![m] = EventDigest(m, request[h].push)]
    BY <1>3 DEF InsertMail
  <2>2. m \in Mail /\ EventDigest(m, request[h].push) \in 0..LastMail
    BY <1>0 DEF Request, EventDigest
  <2>3. /\ \A g \in Handler \ {h} : request'[g] = request[g]
        /\ request' \in [Handler -> Request]
        /\ \/ request'[h].at = "IDLE"
           \/ request'[h] = [request[h] EXCEPT !.todo = @ \ {m}]
    <3>1. CASE Reply(h)
      BY <3>1, RequestEnds
    <3>2. CASE request' = [request EXCEPT ![h].todo = @ \ {m}]
      BY <1>0, <3>2 DEF Request
    <3> QED  BY <2>1, <3>1, <3>2
  <2>4. MailTypeOK'
    BY <1>3, <2>1, <2>2, <2>3 DEF InsertMail, ReceptionInv, MailTypeOK
  <2>5. NoMailSkipped'
    BY <1>3, <2>1 DEF InsertMail, ReceptionInv, NoMailSkipped
  <2>6. RequestBacked(h)'
    <3>1. CASE request'[h].at = "IDLE"
      BY <3>1 DEF RequestBacked
    <3>2. CASE request'[h] = [request[h] EXCEPT !.todo = @ \ {m}]
      <4>1. /\ request'[h].at = request[h].at /\ request'[h].push = request[h].push
            /\ request'[h].from = request[h].from /\ request'[h].todo = request[h].todo \ {m}
        BY <1>0, <3>2 DEF Request
      <4> QED  BY <1>0, <1>3, <2>1, <4>1 DEF RequestBacked, InsertMail
    <3> QED  BY <2>3, <3>1, <3>2
  <2>7. \A g \in Handler \ {h} : RequestBacked(g)'
    BY <1>0, <1>3, <2>1, <2>3, OthersStayBacked DEF InsertMail
  <2> QED  BY <1>3, <2>4, <2>5, <2>6, <2>7 DEF ReceptionInv, InsertMail
<1>4. CASE AdvanceCursor(h)
  <2>1. /\ Reply(h) /\ mailbox' = mailbox /\ inbox' = inbox /\ digest' = digest
        /\ request[h].at = "INSERT" /\ request[h].todo = {} /\ pushes' \subseteq pushes
        /\ cursor' = cursor \/ cursor' = request[h].push
    BY <1>4 DEF AdvanceCursor
  <2>2. MailTypeOK'
    BY <1>0, <1>4, <2>1, RequestEnds DEF AdvanceCursor, ReceptionInv, MailTypeOK, Request
  <2>3. NoMailSkipped'
    BY <1>0, <2>1 DEF ReceptionInv, NoMailSkipped, RequestBacked, Request, Mail
  <2>4. \A g \in Handler : RequestBacked(g)'
    BY <1>0, <2>1, RequestEnds, OthersStayBacked DEF RequestBacked
  <2> QED  BY <2>1, <2>2, <2>3, <2>4 DEF ReceptionInv
<1>5. CASE DropRequest(h)
  <2>1. Reply(h) /\ UNCHANGED <<mailbox, watch, pushes, cursor, inbox, digest>>
    BY <1>5 DEF DropRequest
  <2>2. MailTypeOK'
    BY <1>5, <2>1, RequestEnds DEF DropRequest, MailFault, ReceptionInv, MailTypeOK
  <2>3. \A g \in Handler : RequestBacked(g)'
    BY <1>0, <2>1, RequestEnds, OthersStayBacked DEF RequestBacked
  <2> QED  BY <2>1, <2>2, <2>3 DEF ReceptionInv, NoMailSkipped
<1> QED  BY <1>1, <1>2, <1>3, <1>4, <1>5 DEF HandlerStep

\* The inductive invariant of mail reception.
THEOREM ReceptionInvariance == MailSpec => []ReceptionInv
<1>1. ReceptionInv /\ [MailNext]_mailVars => ReceptionInv'
  <2>1. ASSUME ReceptionInv, UNCHANGED mailVars  PROVE ReceptionInv'
    BY <2>1 DEF mailVars, ReceptionInv, MailTypeOK, NoMailSkipped, RequestBacked
  <2> QED  BY <2>1, EnvironmentKeeps, HandlersKeep DEF MailNext
<1> QED  BY <1>1, ReceptionBegins, PTL DEF MailSpec

\* No mail before the cursor is missing from the inbox (webhooks.ts:49-75).
THEOREM MailIsNeverSkipped == MailSpec => []NoMailSkipped
<1>1. ReceptionInv => NoMailSkipped
  BY DEF ReceptionInv
<1> QED  BY <1>1, ReceptionInvariance, PTL

-------------------------------------------------------------------------------
(* A sweep that is complete has paired every counterpart, for any number of *)
(* counterparts, batch size, executions at once and faults.                 *)

Places == {"IDLE", "START", "MATCH", "COMMIT", "ACTIVATE", "ANSWER"}
Execution == [at : Places, from : 0..LastLot]

\* The counterparts up to n have their matches.
CoveredTo(n) == \A l \in Lot : l <= n => l \in matched

\* What an execution has read of the cursor and what it has paired.
ExecutionBacked(w) ==
    /\ running[w].at \in {"MATCH", "COMMIT", "ACTIVATE", "ANSWER"} => CoveredTo(running[w].from)
    /\ running[w].at \in {"COMMIT", "ACTIVATE", "ANSWER"} => Batch(w) \subseteq matched

\* The inductive invariant.  Executions may be late and may overlap: the cursor
\* is right because each one that moves it knows its own batch and all before.
SweepInv ==
    /\ SweepTypeOK
    /\ CoveredTo(sweep.cursor)
    /\ sweep.state = "COMPLETED" => sweep.cursor = LastLot
    /\ \A w \in Sweeper : ExecutionBacked(w)

LEMMA SweepTypes ==
    ASSUME SweepTypeOK
    PROVE  /\ running \in [Sweeper -> Execution] /\ matched \subseteq Lot
           /\ sweep.cursor \in 0..LastLot /\ LastLot \in Nat /\ BatchSize \in Nat \ {0}
BY SweepAssumption DEF SweepTypeOK, Execution, Places

LEMMA SweepBegins == SweepInit => SweepInv
<1> SUFFICES ASSUME SweepInit  PROVE SweepInv
  OBVIOUS
<1>1. SweepTypeOK
  <2>1. running \in [Sweeper -> [at : {"IDLE", "START", "MATCH", "COMMIT", "ACTIVATE", "ANSWER"},
                                 from : 0..LastLot]]
    BY SweepAssumption DEF SweepInit, Idle
  <2>2. sweep \in [state : {"NONE", "PENDING", "PROCESSING", "COMPLETED"}, old : BOOLEAN,
                   cursor : 0..LastLot]
    BY SweepAssumption DEF SweepInit
  <2>3. matched \subseteq Lot /\ quoted \subseteq Lot /\ results \subseteq Result
    BY DEF SweepInit
  <2>4. events \subseteq 0..LastLot /\ appended \subseteq 0..LastLot
    BY DEF SweepInit
  <2>5. sweepFaults \in 0..SweepFaults
    BY SweepAssumption DEF SweepInit
  <2>6. struck \in BOOLEAN
    BY DEF SweepInit
  <2> QED  BY <2>1, <2>2, <2>3, <2>4, <2>5, <2>6 DEF SweepTypeOK
<1>2. CoveredTo(sweep.cursor) /\ (sweep.state = "COMPLETED" => sweep.cursor = LastLot)
  BY SweepAssumption DEF SweepInit, CoveredTo, Lot
<1>3. \A w \in Sweeper : ExecutionBacked(w)
  BY DEF SweepInit, ExecutionBacked, Idle
<1> QED  BY <1>1, <1>2, <1>3 DEF SweepInv

\* Matches are never taken back, so what was covered stays covered.
LEMMA CoverGrows ==
    ASSUME matched \subseteq matched', NEW n \in Nat, CoveredTo(n)
    PROVE  CoveredTo(n)'
BY DEF CoveredTo

LEMMA OthersStayCovered ==
    ASSUME SweepInv, NEW v \in Sweeper, running'[v] = running[v], matched \subseteq matched'
    PROVE  ExecutionBacked(v)'
BY DEF SweepInv, ExecutionBacked, CoveredTo, Batch

\* An execution that is idle or at its start has promised nothing.
LEMMA StartsOwingNothing ==
    ASSUME NEW w \in Sweeper, running'[w].at \in {"IDLE", "START"}
    PROVE  ExecutionBacked(w)'
BY DEF ExecutionBacked

\* One execution moves and the others keep their place.
LEMMA OneMoves ==
    ASSUME SweepInv, NEW w \in Sweeper, NEW r \in Execution, running' = [running EXCEPT ![w] = r]
    PROVE  /\ running' \in [Sweeper -> Execution]
           /\ running'[w] = r
           /\ \A v \in Sweeper \ {w} : running'[v] = running[v]
BY SweepTypes DEF SweepInv

LEMMA GotoMoves ==
    ASSUME SweepInv, NEW w \in Sweeper, NEW at \in Places, Goto(w, at)
    PROVE  /\ running' \in [Sweeper -> Execution]
           /\ running'[w].at = at /\ running'[w].from = running[w].from
           /\ \A v \in Sweeper \ {w} : running'[v] = running[v]
<1>1. running \in [Sweeper -> Execution]
  BY SweepTypes DEF SweepInv
<1>2. running' = [running EXCEPT ![w] = [@ EXCEPT !.at = at]]
  BY DEF Goto
<1>3. [running[w] EXCEPT !.at = at] \in Execution
  BY <1>1 DEF Execution
<1> QED  BY <1>1, <1>2, <1>3 DEF Execution

\* Steps that leave matches and cursor as they are, and whose execution ends or
\* begins again.
LEMMA RestingKeeps ==
    ASSUME SweepInv, NEW w \in Sweeper,
           running' \in [Sweeper -> Execution],
           running'[w].at \in {"IDLE", "START"},
           \A v \in Sweeper \ {w} : running'[v] = running[v],
           matched' = matched, sweep' = sweep, SweepTypeOK'
    PROVE  SweepInv'
<1>1. CoveredTo(sweep.cursor)' /\ (sweep'.state = "COMPLETED" => sweep'.cursor = LastLot)
  BY DEF SweepInv, CoveredTo
<1>2. \A v \in Sweeper : ExecutionBacked(v)'
  BY StartsOwingNothing, OthersStayCovered
<1> QED  BY <1>1, <1>2 DEF SweepInv

LEMMA AnswerRests ==
    ASSUME SweepInv, NEW w \in Sweeper, NEW result \in Result, Answer(w, result)
    PROVE  /\ running' \in [Sweeper -> Execution]
           /\ running'[w].at \in {"IDLE", "START"}
           /\ \A v \in Sweeper \ {w} : running'[v] = running[v]
           /\ results' \subseteq Result
<1> DEFINE r == IF result \in results THEN [Idle EXCEPT !.at = "START"] ELSE Idle
<1>1. r \in Execution /\ r.at \in {"IDLE", "START"}
  BY SweepAssumption DEF Idle, Execution, Places
<1>2. running' = [running EXCEPT ![w] = r]
  BY DEF Answer
<1>3. results' \subseteq Result
  BY DEF Answer, SweepInv, SweepTypeOK
<1> HIDE DEF r
<1> QED  BY <1>1, <1>2, <1>3, OneMoves

LEMMA ClaimKeeps ==
    ASSUME SweepInv, NEW w \in Sweeper, ClaimSweep(w)
    PROVE  SweepInv'
<1> DEFINE r == [at |-> "MATCH", from |-> sweep.cursor]
<1>1. r \in Execution
  BY SweepTypes DEF SweepInv, Execution, Places
<1>2. running' = [running EXCEPT ![w] = r]
  BY DEF ClaimSweep
<1>3. /\ running' \in [Sweeper -> Execution] /\ running'[w] = r
      /\ \A v \in Sweeper \ {w} : running'[v] = running[v]
  <2> HIDE DEF r
  <2> QED  BY <1>1, <1>2, OneMoves
<1>4. /\ sweep'.cursor = sweep.cursor /\ sweep'.state = "PROCESSING" /\ matched' = matched
      /\ sweep' \in [state : {"NONE", "PENDING", "PROCESSING", "COMPLETED"}, old : BOOLEAN,
                     cursor : 0..LastLot]
  BY DEF ClaimSweep, SweepInv, SweepTypeOK
<1>5. SweepTypeOK'
  BY <1>3, <1>4 DEF ClaimSweep, SweepInv, SweepTypeOK, Execution, Places
<1>6. ExecutionBacked(w)'
  BY <1>3, <1>4 DEF ExecutionBacked, SweepInv, CoveredTo
<1>7. \A v \in Sweeper : ExecutionBacked(v)'
  BY <1>3, <1>4, <1>6, OthersStayCovered
<1> QED  BY <1>4, <1>5, <1>7 DEF SweepInv, CoveredTo

LEMMA MatchBatchKeeps ==
    ASSUME SweepInv, NEW w \in Sweeper, MatchBatch(w)
    PROVE  SweepInv'
<1>1. /\ running' \in [Sweeper -> Execution]
      /\ running'[w].at = "COMMIT" /\ running'[w].from = running[w].from
      /\ \A v \in Sweeper \ {w} : running'[v] = running[v]
  BY GotoMoves DEF MatchBatch, Places
<1>2. matched' = matched \cup Batch(w) /\ sweep' = sweep /\ Batch(w) \subseteq Lot
  BY DEF MatchBatch, Batch
<1>3. SweepTypeOK'
  BY <1>1, <1>2 DEF MatchBatch, SweepInv, SweepTypeOK, Execution, Places
<1>4. CoveredTo(sweep.cursor)'
  BY <1>2 DEF SweepInv, CoveredTo
<1>5. ExecutionBacked(w)'
  BY <1>1, <1>2 DEF ExecutionBacked, CoveredTo, Batch, SweepInv, MatchBatch
<1>6. \A v \in Sweeper : ExecutionBacked(v)'
  BY <1>1, <1>2, <1>5, OthersStayCovered
<1> QED  BY <1>2, <1>3, <1>4, <1>6 DEF SweepInv

\* An execution that commits knows that all up to the end of its batch is paired.
LEMMA CommitKeeps ==
    ASSUME SweepInv, NEW w \in Sweeper, CommitBatch(w)
    PROVE  SweepInv'
<1>0. /\ running[w] \in Execution /\ running[w].at = "COMMIT" /\ ExecutionBacked(w)
      /\ LastLot \in Nat /\ BatchSize \in Nat \ {0} /\ matched' = matched
  BY SweepTypes DEF SweepInv, CommitBatch
<1>1. running[w].from \in 0..LastLot
  BY <1>0 DEF Execution
<1>2. /\ Last(w) \in 0..LastLot
      /\ ~Full(w) => Last(w) = LastLot
      /\ Last(w) <= running[w].from + BatchSize
  BY <1>0, <1>1 DEF Last, Full
<1>3. CoveredTo(Last(w))
  <2> SUFFICES ASSUME NEW l \in Lot, l <= Last(w)  PROVE l \in matched
    BY DEF CoveredTo
  <2>1. CASE l <= running[w].from
    BY <1>0, <2>1 DEF ExecutionBacked, CoveredTo
  <2>2. CASE running[w].from < l
    <3>1. l <= running[w].from + BatchSize
      BY <1>0, <1>1, <1>2 DEF Lot
    <3>2. l \in Batch(w)
      BY <2>2, <3>1 DEF Batch
    <3> QED  BY <1>0, <3>2 DEF ExecutionBacked
  <2> QED  BY <1>0, <1>1, <2>1, <2>2 DEF Lot
<1>4. /\ running' \in [Sweeper -> Execution]
      /\ running'[w].at \in {"ANSWER", "ACTIVATE"} /\ running'[w].from = running[w].from
      /\ \A v \in Sweeper \ {w} : running'[v] = running[v]
  BY GotoMoves DEF CommitBatch, Places
<1>5. /\ appended' \subseteq 0..LastLot /\ events' \subseteq 0..LastLot
  BY <1>2 DEF CommitBatch, Key, SweepInv, SweepTypeOK
<1>6. /\ sweep' \in [state : {"NONE", "PENDING", "PROCESSING", "COMPLETED"}, old : BOOLEAN,
                     cursor : 0..LastLot]
      /\ sweep' = sweep \/ /\ sweep'.cursor = Last(w)
                           /\ sweep'.state = "COMPLETED" => ~Full(w)
  BY <1>2 DEF CommitBatch, SweepInv, SweepTypeOK
<1>7. SweepTypeOK'
  BY <1>4, <1>5, <1>6 DEF CommitBatch, SweepInv, SweepTypeOK, Execution, Places
<1>8. CoveredTo(sweep.cursor)' /\ (sweep'.state = "COMPLETED" => sweep'.cursor = LastLot)
  BY <1>0, <1>2, <1>3, <1>6 DEF CoveredTo, SweepInv
<1>9. ExecutionBacked(w)'
  BY <1>0, <1>4 DEF ExecutionBacked, CoveredTo, Batch
<1>10. \A v \in Sweeper : ExecutionBacked(v)'
  BY <1>0, <1>4, <1>9, OthersStayCovered
<1> QED  BY <1>7, <1>8, <1>10 DEF SweepInv

LEMMA ActivateKeeps ==
    ASSUME SweepInv, NEW w \in Sweeper, Activate(w)
    PROVE  SweepInv'
<1>1. /\ running' \in [Sweeper -> Execution]
      /\ running'[w].at = "ANSWER" /\ running'[w].from = running[w].from
      /\ \A v \in Sweeper \ {w} : running'[v] = running[v]
  BY GotoMoves DEF Activate, Places
<1>2. matched' = matched /\ sweep' = sweep /\ quoted' \subseteq Lot
  BY DEF Activate, SweepInv, SweepTypeOK, Compatible
<1>3. SweepTypeOK'
  BY <1>1, <1>2 DEF Activate, SweepInv, SweepTypeOK, Execution, Places
<1>4. ExecutionBacked(w)'
  BY <1>1, <1>2 DEF ExecutionBacked, CoveredTo, Batch, SweepInv, Activate
<1>5. \A v \in Sweeper : ExecutionBacked(v)'
  BY <1>1, <1>2, <1>4, OthersStayCovered
<1> QED  BY <1>2, <1>3, <1>5 DEF SweepInv, CoveredTo

\* A result that is recorded names the cursor it was read at.
LEMMA EndKeeps ==
    ASSUME SweepInv, NEW w \in Sweeper, FindBusy(w) \/ EndMatch(w)
    PROVE  SweepInv'
<1>1. PICK result \in Result : Answer(w, result)
  <2>1. running[w].from \in 0..LastLot /\ LastLot \in Nat
    BY SweepTypes DEF SweepInv, Execution
  <2>2. CASE FindBusy(w)
    BY <2>1, <2>2 DEF FindBusy, Result
  <2>3. CASE EndMatch(w)
    BY <2>1, <2>3 DEF EndMatch, Result
  <2> QED  BY <2>2, <2>3
<1>2. UNCHANGED <<sweep, matched, quoted, events, appended, struck, sweepFaults>>
  BY DEF FindBusy, EndMatch
<1>3. SweepTypeOK'
  BY <1>1, <1>2, AnswerRests DEF SweepInv, SweepTypeOK, Execution, Places
<1> QED  BY <1>1, <1>2, <1>3, AnswerRests, RestingKeeps

LEMMA FaultsKeep ==
    ASSUME SweepInv, NEW w \in Sweeper,
           RetryMatch(w) \/ \E v \in Sweeper : OverlapMatch(w, v)
    PROVE  SweepInv'
<1>1. struck' \in BOOLEAN /\ sweepFaults' \in 0..SweepFaults
  <2>1. SweepFault(w) /\ struck \in BOOLEAN /\ sweepFaults \in 0..SweepFaults
    BY DEF RetryMatch, OverlapMatch, SweepInv, SweepTypeOK
  <2>2. sweepFaults' \in 0..SweepFaults
    BY <2>1, SweepAssumption DEF SweepFault
  <2>3. struck' \in BOOLEAN
    BY <2>1, Zenon DEF SweepFault
  <2> QED  BY <2>2, <2>3
<1>2. UNCHANGED <<sweep, matched, quoted, events, appended, results>>
  BY DEF RetryMatch, OverlapMatch
<1>3. PICK v \in Sweeper :
        /\ running' \in [Sweeper -> Execution]
        /\ running'[v].at = "START"
        /\ \A u \in Sweeper \ {v} : running'[u] = running[u]
  <2>1. CASE RetryMatch(w)
    <3> DEFINE r == [Idle EXCEPT !.at = "START"]
    <3>1. r \in Execution /\ r.at = "START" /\ running' = [running EXCEPT ![w] = r]
      BY <2>1, SweepAssumption DEF RetryMatch, Idle, Execution, Places
    <3> HIDE DEF r
    <3> QED  BY <3>1, OneMoves
  <2>2. ASSUME NEW v \in Sweeper, OverlapMatch(w, v)
        PROVE  \E u \in Sweeper :
                 /\ running' \in [Sweeper -> Execution]
                 /\ running'[u].at = "START"
                 /\ \A x \in Sweeper \ {u} : running'[x] = running[x]
    BY <2>2, GotoMoves DEF OverlapMatch, Places
  <2> QED  BY <2>1, <2>2
<1>4. SweepTypeOK'
  BY <1>1, <1>2, <1>3 DEF SweepInv, SweepTypeOK, Execution, Places
<1> QED  BY <1>2, <1>3, <1>4, RestingKeeps

LEMMA StartsKeep ==
    ASSUME SweepInv, NEW w \in Sweeper, NEW e \in 0..LastLot, StartMatch(w, e)
    PROVE  SweepInv'
<1>1. /\ running' \in [Sweeper -> Execution] /\ running'[w].at = "START"
      /\ \A v \in Sweeper \ {w} : running'[v] = running[v]
  BY GotoMoves DEF StartMatch, Places
<1>2. SweepTypeOK'
  BY <1>1 DEF StartMatch, SweepInv, SweepTypeOK, Execution, Places
<1> QED  BY <1>1, <1>2, RestingKeeps DEF StartMatch

LEMMA AroundKeeps ==
    ASSUME SweepInv, AddVersion \/ ElapseSweep
    PROVE  SweepInv'
<1>1. /\ matched' = matched /\ running' = running
      /\ sweep'.cursor = sweep.cursor /\ sweep'.state = sweep.state
      /\ sweep' \in [state : {"NONE", "PENDING", "PROCESSING", "COMPLETED"}, old : BOOLEAN,
                     cursor : 0..LastLot]
  BY DEF AddVersion, ElapseSweep, SweepInv, SweepTypeOK
<1>2. events' \subseteq 0..LastLot /\ appended' \subseteq 0..LastLot
  BY SweepAssumption DEF AddVersion, ElapseSweep, SweepInv, SweepTypeOK
<1>3. SweepTypeOK'
  BY <1>1, <1>2 DEF AddVersion, ElapseSweep, SweepInv, SweepTypeOK
<1>4. \A w \in Sweeper : ExecutionBacked(w)'
  BY <1>1, OthersStayCovered
<1> QED  BY <1>1, <1>3, <1>4 DEF SweepInv, CoveredTo

\* The inductive invariant of the sweep holds (stage_handlers.ts:93-254).
THEOREM SweepInvariance == SweepSpec => []SweepInv
<1>1. ASSUME SweepInv, [SweepNext]_sweepVars  PROVE SweepInv'
  <2>1. CASE SweepNext
    BY <1>1, <2>1, AroundKeeps, StartsKeep, FaultsKeep, ClaimKeeps, EndKeeps, MatchBatchKeeps,
       CommitKeeps, ActivateKeeps DEF SweepNext, SweepStep
  <2>2. CASE UNCHANGED sweepVars
    BY <1>1, <2>2 DEF sweepVars, SweepInv, SweepTypeOK, CoveredTo, ExecutionBacked, Batch
  <2> QED  BY <1>1, <2>1, <2>2
<1> QED  BY <1>1, SweepBegins, PTL DEF SweepSpec

\* A sweep that is complete has paired every counterpart, whatever executions
\* overlapped on it (stage_handlers.ts:223-246).
THEOREM SweepsCoverAll == SweepSpec => []SweepCoversAll
<1>1. ASSUME SweepInv, sweep.state = "COMPLETED"  PROVE matched = Lot
  <2>1. matched \subseteq Lot /\ CoveredTo(LastLot)
    BY <1>1, SweepTypes DEF SweepInv
  <2>2. \A l \in Lot : l \in matched
    BY <2>1, SweepAssumption DEF CoveredTo, Lot
  <2> QED  BY <2>1, <2>2
<1>2. SweepInv => SweepCoversAll
  BY <1>1 DEF SweepCoversAll
<1> QED  BY <1>2, SweepInvariance, PTL

-------------------------------------------------------------------------------
(* The components side by side.                                             *)

\* A step of the composition is a step of each component, or leaves it alone.
LEMMA EachComponentSteps ==
    ASSUME [SourcingNext]_sourcingVars
    PROVE  /\ [MailNext]_mailVars /\ [AcqNext]_acqVars /\ [PostNext]_postVars
           /\ [DocNext]_docVars /\ [SweepNext]_sweepVars
BY DEF SourcingNext, Dormant, sourcingVars

\* The composition implements each of its components.
THEOREM ComponentsBehave ==
    SourcingSpec => MailSpec /\ AcqSpec /\ PostSpec /\ DocSpec /\ SweepSpec
<1>1. SourcingInit => MailInit /\ AcqInit /\ PostInit /\ DocInit /\ SweepInit
  BY DEF SourcingInit
<1>2. [SourcingNext]_sourcingVars =>
        /\ [MailNext]_mailVars /\ [AcqNext]_acqVars /\ [PostNext]_postVars
        /\ [DocNext]_docVars /\ [SweepNext]_sweepVars
  BY EachComponentSteps
<1> QED  BY <1>1, <1>2, PTL DEF SourcingSpec, MailSpec, AcqSpec, PostSpec, DocSpec, SweepSpec

\* The five components keep their types together.
THEOREM SourcingTypes == SourcingSpec => []SourcingTypeOK
<1>1. ReceptionInv /\ AcqInv /\ PostInv /\ DocInv /\ SweepInv => SourcingTypeOK
  BY DEF SourcingTypeOK, ReceptionInv, AcqInv, PostInv, DocInv, SweepInv
<1> QED  BY <1>1, ComponentsBehave, ReceptionInvariance, AcquisitionInvariance, PostInvariance,
            DocumentInvariance, SweepInvariance, PTL

\* What each component promises alone holds in the composition that the runs
\* check, whichever component a behaviour is about: no mail and no counterpart is
\* skipped, a check of an organisation is asked for once and once more for each
\* fault, so is a message sent, never twice without an overrun lease, a promoted
\* draft keeps its evidence, and a job that has ended stays so.
THEOREM SourcingKeepsItsPromises ==
    SourcingSpec => /\ [](NoMailSkipped /\ SweepCoversAll)
                    /\ [](asked <= acqFaults + 1)
                    /\ [](copies <= postFaults + 1)
                    /\ [](OneCopy /\ PromotedRestsOnEvidence)
                    /\ EndedJobsStay
BY ComponentsBehave, MailIsNeverSkipped, CallsFollowFaults, CopiesFollowFaults, OneCopyGoesOut,
   PromotionsRestOnEvidence, SweepsCoverAll, EndedJobsAlwaysStay, PTL
===============================================================================
