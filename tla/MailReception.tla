----------------------------- MODULE MailReception -----------------------------
(***************************************************************************)
(* Gmail push reception: createGmailPushHandler (runtime/webhooks.ts), the *)
(* history listing of connectors/gmail.ts and the cursor row that two API  *)
(* processes advance.  Mail n has history id n.  A push names the history  *)
(* id it was published at; Pub/Sub redelivers it until it is acknowledged, *)
(* which the route does only when the handler returns.                     *)
(***************************************************************************)
EXTENDS Naturals, FiniteSets

CONSTANTS
    LastMail,   \* bound: the mails of the mailbox
    Undated,    \* mails without a Date header
    Broken,     \* mails fetchMessage refuses: deleted, or without a recipient
    Handler,    \* concurrent requests of the webhook route
    MailFaults  \* bound: requests that fail, and lapses of the watch

ASSUME MailAssumption == LastMail \in Nat /\ MailFaults \in Nat

Mail == 1..LastMail

VARIABLES
    mailbox,    \* history id of the mailbox: mails 1..mailbox are there
    watch,      \* the Gmail watch is current: arrivals are published
    pushes,     \* published and not yet acknowledged, by history id
    cursor,     \* connector_cursors.cursor
    inbox,      \* the mails in external_event_inbox
    digest,     \* digest[m]: the publish time in m's event, 0 if it has its own
    request,    \* request[h]: what handler h is doing
    mailFaults  \* faults so far

mailVars == <<mailbox, watch, pushes, cursor, inbox, digest, request, mailFaults>>

Request == [at : {"IDLE", "LIST", "INSERT"}, push : 0..LastMail,
            from : 0..LastMail, todo : SUBSET Mail]
NoRequest == [at |-> "IDLE", push |-> 0, from |-> 0, todo |-> {}]

MailTypeOK ==
    /\ mailbox \in 0..LastMail /\ cursor \in 0..LastMail
    /\ watch \in BOOLEAN
    /\ pushes \subseteq Mail /\ inbox \subseteq Mail
    /\ digest \in [Mail -> 0..LastMail]
    /\ request \in [Handler -> Request] /\ mailFaults \in 0..MailFaults

MailInit ==
    /\ mailbox = 0 /\ watch = TRUE /\ pushes = {} /\ cursor = 0
    /\ inbox = {} /\ digest = [m \in Mail |-> 0]
    /\ request = [h \in Handler |-> NoRequest] /\ mailFaults = 0

MailFault == mailFaults < MailFaults /\ mailFaults' = mailFaults + 1

\* occurredAt is the mail's own date or the publishTime of the push.
EventDigest(m, p) == IF m \in Undated THEN p ELSE 0

Arrive ==
    /\ mailbox < LastMail
    /\ mailbox' = mailbox + 1
    /\ pushes' = IF watch THEN pushes \cup {mailbox'} ELSE pushes
    /\ UNCHANGED <<watch, cursor, inbox, digest, request, mailFaults>>

WatchLapses == watch /\ watch' = FALSE /\ MailFault
               /\ UNCHANGED <<mailbox, pushes, cursor, inbox, digest, request>>

\* renewIfDue: the cursor row exists, so its insert changes nothing.
RenewWatch == ~watch /\ watch' = TRUE
              /\ UNCHANGED <<mailbox, pushes, cursor, inbox, digest, request, mailFaults>>

Reply(h) == request' = [request EXCEPT ![h] = NoRequest]

OpenPush(h, p) ==
    /\ request[h] = NoRequest /\ p \in pushes
    /\ request' = [request EXCEPT ![h] = [@ EXCEPT !.at = "LIST", !.push = p, !.from = cursor]]
    /\ UNCHANGED <<mailbox, watch, pushes, cursor, inbox, digest, mailFaults>>

\* The listing reaches the end of the mailbox, beyond the id of the push.
\* Mutant: the listing starts at the push and not at the cursor.
ListedFromPush(h) == request[h].push..mailbox

Listed(h) == IF request[h].push <= request[h].from THEN {}
             ELSE (request[h].from + 1)..mailbox

ListHistory(h) ==
    /\ request[h].at = "LIST"
    /\ IF Listed(h) \cap Broken # {}
         THEN Reply(h)
         ELSE request' = [request EXCEPT ![h] = [@ EXCEPT !.at = "INSERT", !.todo = Listed(h)]]
    /\ UNCHANGED <<mailbox, watch, pushes, cursor, inbox, digest, mailFaults>>

\* Mutant: a mail that is there is always a conflict.
ConflictOnReplay(h, m) == m \in inbox

\* A mail that is there is a replay, and a conflict if its digest differs.
Conflict(h, m) == m \in inbox /\ digest[m] # EventDigest(m, request[h].push)

InsertMail(h) ==
    /\ request[h].at = "INSERT"
    /\ \E m \in request[h].todo :
         /\ \A n \in request[h].todo : m <= n
         /\ IF Conflict(h, m)
              THEN Reply(h)
              ELSE request' = [request EXCEPT ![h].todo = @ \ {m}]
         /\ inbox' = inbox \cup {m}
         /\ digest' = IF m \in inbox THEN digest
                      ELSE [digest EXCEPT ![m] = EventDigest(m, request[h].push)]
    /\ UNCHANGED <<mailbox, watch, pushes, cursor, mailFaults>>

\* The guarded update: an older push throws, and so does a cursor that moved.
Moves(h) == request[h].push >= request[h].from /\ cursor = request[h].from

AdvanceCursor(h) ==
    /\ request[h].at = "INSERT" /\ request[h].todo = {}
    /\ IF Moves(h)
         THEN cursor' = request[h].push /\ pushes' = pushes \ {request[h].push}
         ELSE UNCHANGED <<cursor, pushes>>
    /\ Reply(h)
    /\ UNCHANGED <<mailbox, watch, inbox, digest, mailFaults>>

DropRequest(h) ==
    /\ request[h] # NoRequest /\ Reply(h) /\ MailFault
    /\ UNCHANGED <<mailbox, watch, pushes, cursor, inbox, digest>>

HandlerStep(h) == ListHistory(h) \/ InsertMail(h) \/ AdvanceCursor(h)

MailNext ==
    \/ Arrive \/ WatchLapses \/ RenewWatch
    \/ \E h \in Handler : HandlerStep(h) \/ DropRequest(h) \/ \E p \in Mail : OpenPush(h, p)

MailSpec == MailInit /\ [][MailNext]_mailVars
-------------------------------------------------------------------------------
\* The cursor never passes a mail that is not in the inbox, whichever of two
\* handlers moves it and from whatever reading of it (webhooks.ts:49-75).
NoMailSkipped == \A m \in Mail : m <= cursor => m \in inbox

\* A published mail is received: no failed, repeated or overtaken request loses
\* it, except where a mail that cannot be fetched or has no date stands in the
\* way of all that follow it (gmail.ts:88-140, webhooks.ts:38-75).
PushedMailIsReceived ==
    []<>(pushes \subseteq inbox \/ (Broken \cup Undated) \cap 1..mailbox # {})
===============================================================================
