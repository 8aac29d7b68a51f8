---------------------------- MODULE StandingMandates ----------------------------
(***************************************************************************)
(* A buyer's standing demand (authorizeStandingDemand) permits a number of  *)
(* renewals.  Each renewal reserves one of them (RECUR), is priced, bound   *)
(* to a trade of its own, and consumes its reservation when that trade's    *)
(* entitlement is secured.  Its reservation is also given back in four      *)
(* places that know nothing of one another: the sweeper, the buyer's        *)
(* refusal, the negotiation's expiry and the failure of the trade.          *)
(*                                                                         *)
(* Every action is a transaction.  NEGOTIATE alone reads before it begins   *)
(* one, and "expiring" holds what it has read.                              *)
(***************************************************************************)
EXTENDS Naturals, FiniteSets

CONSTANTS
    SettledTrade,       \* trades of the standing demand itself, settled
    LastRenewal,        \* renewals are numbered as they are made
    MaximumRenewals     \* what the buyer authorized

ASSUME MandateAssumption ==
    /\ LastRenewal \in Nat /\ MaximumRenewals \in Nat \ {0}
    /\ SettledTrade \cap (1..LastRenewal) = {}

Renewals == 1..LastRenewal
Pending == {"ECONOMICS_PENDING", "PRICE_APPROVAL_REQUIRED", "PRICE_APPROVED"}

VARIABLES
    mandate,        \* the authorization: its counters, its dates
    cycleEvents,    \* the cycle numbers domain_events has a key for
    renewal,        \* renewal[c]: candidate, reservation, negotiation, trade
    expiring        \* the renewals whose negotiation NEGOTIATE read as expired

mandateVars == <<mandate, cycleEvents, renewal, expiring>>

\* SUBSTITUTED: no negotiation, but consents to another supplier's match.
\* OUTSIDE: a trade that was protected without the reservation.
RenewalRow ==
    [status : Pending \cup {"NONE", "TRADE_PROTECTED", "FEE_LOCKED", "DECLINED", "EXPIRED"},
     state : {"NONE", "RESERVED", "COMMITTED", "CONSUMED", "RELEASED"},
     overdue : BOOLEAN, cycle : 0..MaximumRenewals, prior : SettledTrade \cup 0..LastRenewal,
     talks : {"NONE", "OPEN", "LAPSED", "CLOSED", "SUBSTITUTED"}, answered : BOOLEAN,
     trade : {"NONE", "PROTECTED", "OUTSIDE", "FEE_LOCKED", "SETTLED", "FAILED"}]

MandateTypeOK ==
    /\ mandate \in [reserved : 0..MaximumRenewals, consumed : 0..MaximumRenewals,
                    due : BOOLEAN, valid : BOOLEAN]
    /\ cycleEvents \subseteq 1..MaximumRenewals
    /\ renewal \in [Renewals -> RenewalRow]
    /\ expiring \subseteq Renewals

MandateInit ==
    /\ mandate = [reserved |-> 0, consumed |-> 0, due |-> FALSE, valid |-> TRUE]
    /\ cycleEvents = {}
    /\ renewal = [c \in Renewals |->
         [status |-> "NONE", state |-> "NONE", overdue |-> FALSE, cycle |-> 0, prior |-> 0,
          talks |-> "NONE", answered |-> FALSE, trade |-> "NONE"]]
    /\ expiring = {}

---------------------------------------------------------------------------
(* Reservations that nobody bound to a trade in time.                      *)

\* Mutant: one renewal is given back, however many expired.
FreedOnce(n) == [mandate EXCEPT !.reserved = IF n > 0 /\ @ > 0 THEN @ - 1 ELSE @]
Freed(n) == [mandate EXCEPT !.reserved = IF n > @ THEN 0 ELSE @ - n]

Overdue == {c \in Renewals : renewal[c].state = "RESERVED" /\ renewal[c].overdue}

Ended(r, status) ==
    [r EXCEPT !.state = IF @ \in {"RESERVED", "COMMITTED"} THEN "RELEASED" ELSE @,
              !.status = IF @ \in Pending THEN status ELSE @]

Swept == [c \in Renewals |-> IF c \in Overdue THEN Ended(renewal[c], "EXPIRED") ELSE renewal[c]]

Sweep ==
    /\ Overdue # {}
    /\ renewal' = Swept
    /\ mandate' = Freed(Cardinality(Overdue))
    /\ UNCHANGED <<cycleEvents, expiring>>

---------------------------------------------------------------------------
(* RECUR: the trade before has settled, and its next renewal is due.  It    *)
(* sweeps first.  A cycle number whose event exists makes the insertion and *)
(* with it the whole transaction fail.                                      *)

Settled == SettledTrade \cup {c \in Renewals : renewal[c].trade = "SETTLED"}
Unrenewed(p) == \A c \in Renewals : Swept[c].prior = p => Swept[c].status = "EXPIRED"

ReserveRenewal(p, c) ==
    LET left == Freed(Cardinality(Overdue))
        n == left.reserved + left.consumed + 1
    IN  /\ mandate.due /\ mandate.valid /\ n <= MaximumRenewals
        /\ Unrenewed(p)
        /\ n \notin cycleEvents
        /\ cycleEvents' = cycleEvents \cup {n}
        /\ mandate' = [left EXCEPT !.reserved = @ + 1]
        /\ renewal' = [Swept EXCEPT ![c].status = "ECONOMICS_PENDING", ![c].state = "RESERVED",
                                    ![c].cycle = n, ![c].prior = p]
        /\ UNCHANGED expiring

Recur ==
    \E c \in Renewals, p \in Settled :
        /\ {d \in Renewals : renewal[d].status # "NONE"} = 1..(c - 1)
        /\ ReserveRenewal(p, c)

---------------------------------------------------------------------------
(* A renewal is priced, agreed and protected.                              *)

Bindable(c) == renewal[c].state = "RESERVED" /\ ~renewal[c].overdue /\ renewal[c].status \in Pending

BindTrade(c, talks) ==
    /\ Bindable(c)
    /\ renewal' = [renewal EXCEPT ![c].status = "TRADE_PROTECTED", ![c].state = "COMMITTED",
                                  ![c].trade = "PROTECTED", ![c].talks = talks]
    /\ UNCHANGED <<mandate, cycleEvents, expiring>>

\* Within the authorized price; within it from another supplier; or above it.
PriceRenewal(c) ==
    /\ renewal[c].status = "ECONOMICS_PENDING" /\ Bindable(c) /\ mandate.valid
    /\ \/ BindTrade(c, "NONE")
       \/ /\ \/ renewal' = [renewal EXCEPT ![c].status = "PRICE_APPROVED", ![c].talks = "SUBSTITUTED"]
             \/ renewal' = [renewal EXCEPT ![c].status = "PRICE_APPROVAL_REQUIRED", ![c].talks = "OPEN"]
          /\ UNCHANGED <<mandate, cycleEvents, expiring>>

\* The buyer's mail counts from when it was sent, so it may find a negotiation
\* that has lapsed since.
InTime(c) == renewal[c].talks \in {"OPEN", "LAPSED"}

AcceptPrice(c) == InTime(c) /\ BindTrade(c, "CLOSED")

GiveBack(c, status, talks) ==
    /\ mandate' = IF renewal[c].state \in {"RESERVED", "COMMITTED"} THEN Freed(1) ELSE mandate
    /\ renewal' = [renewal EXCEPT ![c] = [Ended(@, status) EXCEPT !.talks = talks]]
    /\ UNCHANGED cycleEvents

DeclinePrice(c) ==
    /\ InTime(c)
    /\ GiveBack(c, "DECLINED", "CLOSED")
    /\ UNCHANGED expiring

CounterPrice(c) ==
    /\ InTime(c)
    /\ renewal' = [renewal EXCEPT ![c].answered = TRUE]
    /\ UNCHANGED <<mandate, cycleEvents, expiring>>

\* The consents to a substitute's match may come when the renewal has expired.
ProtectSubstitute(c) ==
    /\ renewal[c].talks = "SUBSTITUTED" /\ renewal[c].trade = "NONE"
    /\ \/ BindTrade(c, "SUBSTITUTED")
       \/ /\ ~Bindable(c)
          /\ renewal' = [renewal EXCEPT ![c].trade = "OUTSIDE"]
          /\ UNCHANGED <<mandate, cycleEvents, expiring>>

---------------------------------------------------------------------------
(* NEGOTIATE: no decision, and a negotiation that is open past its expiry.  *)

ReadLapsed(c) ==
    /\ renewal[c].talks = "LAPSED" /\ ~renewal[c].answered
    /\ expiring' = expiring \cup {c}
    /\ UNCHANGED <<mandate, cycleEvents, renewal>>

ExpireTalks(c) ==
    /\ c \in expiring
    /\ GiveBack(c, "EXPIRED", "CLOSED")
    /\ expiring' = expiring \ {c}

---------------------------------------------------------------------------
(* The renewal's trade.                                                    *)

SecureRenewal(c) ==
    /\ renewal[c].trade = "PROTECTED"
    /\ IF renewal[c].state = "COMMITTED"
       THEN /\ renewal' = [renewal EXCEPT ![c].trade = "FEE_LOCKED", ![c].state = "CONSUMED",
                                          ![c].status = "FEE_LOCKED"]
            /\ \E due \in BOOLEAN :
                 mandate' = [mandate EXCEPT !.reserved = @ - 1, !.consumed = @ + 1, !.due = due]
       ELSE renewal' = [renewal EXCEPT ![c].trade = "FEE_LOCKED"] /\ UNCHANGED mandate
    /\ UNCHANGED <<cycleEvents, expiring>>

FailRenewal(c) ==
    /\ renewal[c].trade \in {"PROTECTED", "FEE_LOCKED"}
    /\ mandate' = IF renewal[c].state = "COMMITTED" THEN Freed(1) ELSE mandate
    /\ renewal' = [renewal EXCEPT ![c].trade = "FAILED",
                                  ![c].state = IF @ = "COMMITTED" THEN "RELEASED" ELSE @]
    /\ UNCHANGED <<cycleEvents, expiring>>

SettleRenewal(c) ==
    /\ renewal[c].trade = "FEE_LOCKED"
    /\ renewal' = [renewal EXCEPT ![c].trade = "SETTLED"]
    /\ UNCHANGED <<mandate, cycleEvents, expiring>>

---------------------------------------------------------------------------
(* The clock.                                                              *)

CycleDue ==
    /\ ~mandate.due
    /\ mandate' = [mandate EXCEPT !.due = TRUE]
    /\ UNCHANGED <<cycleEvents, renewal, expiring>>

ReservationExpires(c) ==
    /\ renewal[c].state = "RESERVED" /\ ~renewal[c].overdue
    /\ renewal' = [renewal EXCEPT ![c].overdue = TRUE]
    /\ UNCHANGED <<mandate, cycleEvents, expiring>>

TalksLapse(c) ==
    /\ renewal[c].talks = "OPEN"
    /\ renewal' = [renewal EXCEPT ![c].talks = "LAPSED"]
    /\ UNCHANGED <<mandate, cycleEvents, expiring>>

\* No reservation outlives valid_until.
MandateEnds ==
    /\ mandate.valid
    /\ mandate' = [mandate EXCEPT !.valid = FALSE]
    /\ renewal' = [c \in Renewals |-> [renewal[c] EXCEPT !.overdue = @ \/ renewal[c].state = "RESERVED"]]
    /\ UNCHANGED <<cycleEvents, expiring>>

MandateNext ==
    \/ Sweep \/ Recur \/ CycleDue \/ MandateEnds
    \/ \E c \in Renewals :
         \/ PriceRenewal(c) \/ ReservationExpires(c)
         \/ AcceptPrice(c) \/ DeclinePrice(c) \/ CounterPrice(c) \/ TalksLapse(c)
         \/ ReadLapsed(c) \/ ExpireTalks(c)
         \/ ProtectSubstitute(c) \/ SecureRenewal(c) \/ FailRenewal(c) \/ SettleRenewal(c)

MandateSpec == MandateInit /\ [][MandateNext]_mandateVars

-------------------------------------------------------------------------------
InState(S) == {c \in Renewals : renewal[c].state \in S}

\* The counters of the authorization are its reservations, whichever of the
\* sweeper, the buyer, the negotiation and the trade ended them and however they
\* overlapped; they stay within what the buyer authorized; and a reservation that
\* is bound to a trade has not been spent twice (recurring_execution.ts,
\* inbox_processors.ts:1104-1117, migration 0057's checks).
CyclesAreCounted ==
    /\ mandate.reserved = Cardinality(InState({"RESERVED", "COMMITTED"}))
    /\ mandate.consumed = Cardinality(InState({"CONSUMED"}))
    /\ mandate.reserved + mandate.consumed <= MaximumRenewals
    /\ \A c, d \in InState({"RESERVED", "COMMITTED", "CONSUMED"}) :
         renewal[c].cycle = renewal[d].cycle => c = d

\* "COMMITTED rows are intentionally left alone: they are bound to a concrete
\* trade and are released only by that trade's terminal settlement/dispute path"
\* (recurring_execution.ts:9-16).
CommittedIsLeftAlone ==
    [][\A c \in Renewals :
         renewal[c].state = "COMMITTED" /\ renewal'[c].state = "RELEASED"
           => renewal'[c].trade = "FAILED"]_mandateVars
===============================================================================
