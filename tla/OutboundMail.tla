----------------------------- MODULE OutboundMail -----------------------------
(***************************************************************************)
(* How a message leaves.  A matter, a negotiation to be told of or a duty  *)
(* to be reminded of, has a notification row; its dispatcher writes a row  *)
(* of outbound_email_jobs, and OutboundGmailDispatcher sends that.  Gmail  *)
(* is asked for the deterministic Message-ID before anything is sent.      *)
(***************************************************************************)
EXTENDS JobLeases, FiniteSets

CONSTANTS
    Sender,         \* worker processes
    PostFaults      \* bound: crashes, lost answers, errors, leases overrun

ASSUME PostAssumption == PostFaults \in Nat /\ IsFiniteSet(Sender)

VARIABLES
    matter,         \* what this is about: "NEGOTIATION" or "DUTY"
    note,           \* its notification row
    email,          \* the row of outbound_email_jobs with its key
    copies,         \* how many are in Gmail's Sent
    open,           \* the negotiation is OPEN; the duty is open and not overdue
    due,            \* the reminder's next_notification_at has passed
    reachable,      \* a verified contact that is not suppressed
    projecting,     \* project() has inserted the duty and not its notification
    post,           \* post[w]: the row worker w holds and how far it is
    overrun,        \* a lease has elapsed under its worker
    postFaults

postVars == <<matter, note, email, copies, open, due, reachable, projecting, post, overrun, postFaults>>
around   == <<matter, open, reachable, projecting>>

\* A duty's notification is taken up when it is due, before and after its first
\* message alike; a negotiation's has no date.
NoteReady == IF matter = "NEGOTIATION" THEN {"PENDING"} ELSE IF due THEN {"PENDING", "SENT"} ELSE {}
RowStates == {"NONE", "PENDING", "PROCESSING", "DEAD", "SUPPRESSED", "COMPLETED", "SENT"}

NoPost == [table |-> "NONE", step |-> "NONE"]
Post   == [table : {"NONE", "note", "email"},
           step : {"NONE", "BEGUN", "CHECKED", "UNSENT", "SENT"}]

PostTypeOK ==
    /\ matter \in {"NEGOTIATION", "DUTY"}
    /\ {note, email} \subseteq Row(RowStates) /\ copies \in 0..PostFaults + 2
    /\ {open, due, reachable, projecting, overrun} \subseteq BOOLEAN
    /\ post \in [Sender -> Post] /\ postFaults \in 0..PostFaults

PostInit ==
    /\ matter \in {"NEGOTIATION", "DUTY"}
    /\ note = NewRow("NONE") /\ email = NewRow("NONE") /\ copies = 0
    /\ open = FALSE /\ due = TRUE /\ reachable = TRUE /\ projecting = FALSE /\ overrun = FALSE
    /\ post = [w \in Sender |-> NoPost] /\ postFaults = 0

PostFault == postFaults < PostFaults /\ postFaults' = postFaults + 1

\* evaluateEconomics inserts the notification with the negotiation, project
\* in a statement of its own after that of the duty, which it never repeats.
OpenMatter ==
    /\ note.state = "NONE" /\ ~open /\ open' = TRUE
    /\ IF matter = "DUTY" THEN projecting' = TRUE /\ UNCHANGED note
                          ELSE note' = NewRow("PENDING") /\ UNCHANGED projecting
    /\ UNCHANGED <<matter, email, copies, due, reachable, post, overrun, postFaults>>

ProjectNote ==
    /\ projecting /\ projecting' = FALSE
    /\ \/ note' = NewRow("PENDING") /\ UNCHANGED postFaults
       \/ PostFault /\ UNCHANGED note
    /\ UNCHANGED <<matter, email, copies, open, due, reachable, post, overrun>>

CloseMatter ==
    /\ open /\ note.state # "NONE" /\ open' = FALSE
    /\ UNCHANGED <<matter, note, email, copies, due, reachable, projecting, post, overrun, postFaults>>

\* A day after the last message, whatever the row has come to since.
ReminderDue ==
    /\ matter = "DUTY" /\ ~due /\ due' = TRUE
    /\ UNCHANGED <<note, email, copies, around, post, overrun, postFaults>>

Unsubscribe ==
    /\ open /\ reachable /\ reachable' = FALSE
    /\ UNCHANGED <<matter, note, email, copies, open, due, projecting, post, overrun, postFaults>>

RedriveNote ==
    /\ note.state = "DEAD" /\ note' = Set(note, "PENDING")
    /\ UNCHANGED <<email, copies, around, due, post, overrun, postFaults>>

RedriveEmail ==
    /\ email.state = "DEAD" /\ email' = Set(email, "PENDING")
    /\ UNCHANGED <<note, copies, around, due, post, overrun, postFaults>>

Overrun(table) ==
    IF \E w \in Sender : post[w].table = table
    THEN overrun' = TRUE /\ PostFault ELSE UNCHANGED <<overrun, postFaults>>

ElapseNote ==
    /\ note.state = "PROCESSING" /\ ~note.old
    /\ note' = Elapsed(note) /\ Overrun("note")
    /\ UNCHANGED <<email, copies, around, due, post>>

ElapseEmail ==
    /\ email.state = "PROCESSING" /\ ~email.old
    /\ email' = Elapsed(email) /\ Overrun("email")
    /\ UNCHANGED <<note, copies, around, due, post>>

Take(w, table) == post[w] = NoPost /\ post' = [post EXCEPT ![w] = [table |-> table, step |-> "BEGUN"]]

\* Only an open duty before its deadline is claimed; a negotiation always is.
ClaimNote(w) ==
    /\ Claimable(note, NoteReady) /\ (matter = "DUTY" => open)
    /\ note' = Claimed(note) /\ Take(w, "note")
    /\ UNCHANGED <<email, copies, around, due, overrun, postFaults>>

ClaimEmail(w) ==
    /\ Claimable(email, {"PENDING"})
    /\ email' = Claimed(email) /\ Take(w, "email")
    /\ UNCHANGED <<note, copies, around, due, overrun, postFaults>>

PostAt(w, table, step) == post[w] = [table |-> table, step |-> step]
Release(w)   == post' = [post EXCEPT ![w] = NoPost]
Onward(w, s) == post' = [post EXCEPT ![w].step = s]

\* The update of a duty's notification does not ask for its state.
NoteFailed == IF matter = "DUTY" THEN Set(note, Retried(note, "PENDING")) ELSE Failed(note, "PENDING")

\* Without its matter the job fails; without a contact a duty's job fails and
\* a negotiation's is suppressed, whatever its row says by now.
ReadFacts(w) ==
    /\ PostAt(w, "note", "BEGUN")
    /\ IF open /\ reachable THEN Onward(w, "CHECKED") /\ UNCHANGED note
       ELSE /\ Release(w)
            /\ note' = IF open /\ matter = "NEGOTIATION" THEN Set(note, "SUPPRESSED")
                       ELSE NoteFailed
    /\ UNCHANGED <<email, copies, around, due, overrun, postFaults>>

\* One transaction; both keys are unique, so a second message of the matter
\* throws.  A reminder's row is marked without a guard.
WriteEmail(w) ==
    /\ PostAt(w, "note", "CHECKED") /\ Release(w)
    /\ IF email.state # "NONE"
         THEN note' = NoteFailed /\ UNCHANGED <<email, due>>
         ELSE /\ email' = NewRow("PENDING")
              /\ note' = IF matter = "DUTY" THEN Set(note, "SENT") ELSE Finished(note, "COMPLETED")
              /\ due' = (due /\ matter # "DUTY")
    /\ UNCHANGED <<copies, around, overrun, postFaults>>

\* Mutant: the search is for another Message-ID.
FoundNever == FALSE

\* Gmail's Sent holds the Message-ID.
Found == copies > 0

\* The suppression list, then the search.
SearchSent(w) ==
    /\ PostAt(w, "email", "BEGUN")
    /\ IF reachable
         THEN Onward(w, IF Found THEN "SENT" ELSE "UNSENT") /\ UNCHANGED email
         ELSE Release(w) /\ email' = Finished(email, "SUPPRESSED")
    /\ UNCHANGED <<note, copies, around, due, overrun, postFaults>>

\* Gmail sends; its acknowledgement may be lost or incomplete.
Send(w) ==
    /\ PostAt(w, "email", "UNSENT") /\ copies' = copies + 1
    /\ \/ Onward(w, "SENT") /\ UNCHANGED <<email, postFaults>>
       \/ Release(w) /\ email' = Failed(email, "PENDING") /\ PostFault
    /\ UNCHANGED <<note, around, due, overrun>>

MarkSent(w) ==
    /\ PostAt(w, "email", "SENT") /\ Release(w) /\ email' = Finished(email, "SENT")
    /\ UNCHANGED <<note, copies, around, due, overrun, postFaults>>

\* An error of the store, the cipher, the policy or the database.
PostError(w) ==
    /\ post[w] # NoPost /\ PostFault /\ Release(w)
    /\ note'  = IF post[w].table = "note"  THEN NoteFailed  ELSE note
    /\ email' = IF post[w].table = "email" THEN Failed(email, "PENDING") ELSE email
    /\ UNCHANGED <<copies, around, due, overrun>>

CrashSender(w) ==
    /\ post[w] # NoPost /\ PostFault /\ Release(w)
    /\ UNCHANGED <<note, email, copies, around, due, overrun>>

PostStep(w) == ReadFacts(w) \/ WriteEmail(w) \/ SearchSent(w) \/ Send(w) \/ MarkSent(w)

NoteTimer  == RedriveNote \/ ElapseNote
EmailTimer == RedriveEmail \/ ElapseEmail

PostNext ==
    \/ OpenMatter \/ ProjectNote \/ CloseMatter \/ ReminderDue \/ Unsubscribe \/ NoteTimer \/ EmailTimer
    \/ \E w \in Sender :
         PostStep(w) \/ ClaimNote(w) \/ ClaimEmail(w) \/ PostError(w) \/ CrashSender(w)

PostSpec == PostInit /\ [][PostNext]_postVars
-------------------------------------------------------------------------------
\* A message goes out once: a crash or a lost answer between Gmail's send and
\* the row's update is answered by the search, so two copies need a worker
\* that outlived its lease (gmail.ts:161-176, inbox_processors.ts:1248-1257).
OneCopy == copies > 1 => overrun

\* A matter that has its notification and stays open and reachable is told of
\* in the end, through the crashes and failures of either dispatcher
\* (inbox_processors.ts:1200-1400, counterparty_actions.ts:20-46).
MessagesArrive == []<>(open /\ reachable /\ note.state # "NONE" => copies > 0)
===============================================================================
