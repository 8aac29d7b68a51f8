----------------------------- MODULE MCTradeSystem -----------------------------
(***************************************************************************)
(* Small instances of TradeSystem.  An event is <<type, number>>.          *)
(***************************************************************************)
EXTENDS TradeSystem, TLC

MCEventType == [e \in Event |-> e[1]]

\* A capture on a split rail and a failure.
DisclosureEvents == {<<"FUNDED", 1>>, <<"FAILED", 1>>}

CaptureOnly == {<<"FUNDED", 1>>}

\* Bounds.  Nothing but the money is reported before the identity is released.
DisputeAfterRelease == ~identityReleased => sentTypes \subseteq {"FUNDED"}

\* Nothing but the money is reported before the identity is released, and the
\* buyer opens no dispute through the portal.
ReportsAfterRelease ==
    /\ ~identityReleased => sentTypes \subseteq {"FUNDED", "ENTITLEMENT_SECURED", "REVERSED"}
    /\ dispute = "NONE"

\* A capture, a dispute and its resolution.
DisputeEvents == {<<"FUNDED", 1>>, <<"DISPUTE_OPENED", 1>>,
                  <<"DISPUTE_RESOLVED_SUPPLIER", 1>>, <<"REFUNDED", 1>>}

\* A renewal on a rail that reports the secured entitlement itself.
RenewalEvents == {<<"ENTITLEMENT_SECURED", 1>>, <<"REVERSED", 1>>,
                  <<"DISBURSEMENT_REPORTED", 1>>}
===============================================================================
