--------------------------- MODULE BrokeragePromise ---------------------------
(***************************************************************************)
(* What the brokerage promises the two parties of a protected trade: their *)
(* identities meet only after both accepted the exact settlement and the   *)
(* money is secured, goods are accepted only between parties who have met, *)
(* and the supplier is paid only for goods the buyer accepted.  None of    *)
(* these facts is ever taken back.                                         *)
(***************************************************************************)
CONSTANT Party

VARIABLES consent, secured, revealed, accepted, paid
promise == <<consent, secured, revealed, accepted, paid>>

Init ==
    /\ consent = {}
    /\ secured = FALSE
    /\ revealed = FALSE
    /\ accepted = FALSE
    /\ paid = FALSE

Consent(p) ==
    /\ consent' = consent \cup {p}
    /\ UNCHANGED <<secured, revealed, accepted, paid>>

Secure ==
    /\ consent = Party
    /\ secured' = TRUE
    /\ UNCHANGED <<consent, revealed, accepted, paid>>

Reveal ==
    /\ secured
    /\ revealed' = TRUE
    /\ UNCHANGED <<consent, secured, accepted, paid>>

Accept ==
    /\ revealed
    /\ accepted' = TRUE
    /\ UNCHANGED <<consent, secured, revealed, paid>>

Pay ==
    /\ accepted
    /\ paid' = TRUE
    /\ UNCHANGED <<consent, secured, revealed, accepted>>

Next == (\E p \in Party : Consent(p)) \/ Secure \/ Reveal \/ Accept \/ Pay

Spec == Init /\ [][Next]_promise
===============================================================================
