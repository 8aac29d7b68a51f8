------------------------- MODULE StandingMandates_proofs -------------------------
(***************************************************************************)
(* The counters of a standing authorization are its reservations, for any  *)
(* number of renewals and any number of them at once.                      *)
(***************************************************************************)
EXTENDS StandingMandates, FiniteSetTheorems, TLAPS

Held == InState({"RESERVED", "COMMITTED"})
Used == InState({"CONSUMED"})

Counted ==
    /\ mandate.reserved = Cardinality(Held)
    /\ mandate.consumed = Cardinality(Used)
    /\ mandate.reserved + mandate.consumed <= MaximumRenewals

\* A cycle number is given once: the event that its reservation appended stays,
\* whatever becomes of the reservation.
Numbered ==
    /\ \A c \in Renewals : renewal[c].state = "NONE" <=> renewal[c].status = "NONE"
    /\ \A c \in Renewals : renewal[c].state # "NONE" => renewal[c].cycle \in cycleEvents
    /\ \A c, d \in Renewals :
         renewal[c].state # "NONE" /\ renewal[d].state # "NONE" /\ renewal[c].cycle = renewal[d].cycle
           => c = d

\* The inductive invariant.
MandateInv == MandateTypeOK /\ Counted /\ Numbered

----------------------------------------------------------------------------
(* Rows and sets of rows.                                                   *)

LEMMA RowsAreFinite ==
    ASSUME NEW S
    PROVE  /\ IsFiniteSet(InState(S)) /\ Cardinality(InState(S)) \in Nat
           /\ InState(S) \subseteq Renewals
<1>1. IsFiniteSet(Renewals)
  BY FS_Interval, MandateAssumption DEF Renewals
<1>2. InState(S) \subseteq Renewals
  BY DEF InState
<1> QED  BY <1>1, <1>2, FS_Subset, FS_CardinalityType

LEMMA MandateTypes ==
    ASSUME MandateInv
    PROVE  /\ renewal \in [Renewals -> RenewalRow]
           /\ mandate \in [reserved : 0..MaximumRenewals, consumed : 0..MaximumRenewals,
                           due : BOOLEAN, valid : BOOLEAN]
           /\ cycleEvents \subseteq 1..MaximumRenewals /\ expiring \subseteq Renewals
           /\ MaximumRenewals \in Nat \ {0} /\ LastRenewal \in Nat
BY MandateAssumption DEF MandateInv, MandateTypeOK

LEMMA OneRowChanges ==
    ASSUME MandateInv, NEW c \in Renewals, NEW r \in RenewalRow, renewal' = [renewal EXCEPT ![c] = r]
    PROVE  /\ renewal' \in [Renewals -> RenewalRow]
           /\ renewal'[c] = r
           /\ \A d \in Renewals \ {c} : renewal'[d] = renewal[d]
BY MandateTypes

\* The step moves no row out of its state's group and no counter.
SameGroup(r, s) ==
    \/ r.state = s.state
    \/ r.state \in {"RESERVED", "COMMITTED"} /\ s.state \in {"RESERVED", "COMMITTED"}

LEMMA GroupsStay ==
    ASSUME MandateInv,
           \A c \in Renewals : SameGroup(renewal[c], renewal'[c]),
           mandate'.reserved = mandate.reserved, mandate'.consumed = mandate.consumed
    PROVE  Counted'
<1>1. Held' = Held /\ Used' = Used
  BY DEF Held, Used, InState, SameGroup
<1> QED  BY <1>1 DEF Counted, MandateInv

\* A row that is released is given back.
LEMMA OneGivenBack ==
    ASSUME MandateInv, NEW c \in Held,
           renewal'[c].state = "RELEASED",
           \A d \in Renewals \ {c} : renewal'[d] = renewal[d],
           mandate' = Freed(1)
    PROVE  /\ Counted'
           /\ mandate' \in [reserved : 0..MaximumRenewals, consumed : 0..MaximumRenewals,
                            due : BOOLEAN, valid : BOOLEAN]
<1>1. Held' = Held \ {c} /\ Used' = Used
  BY DEF Held, Used, InState
<1>2. Cardinality(Held \ {c}) = Cardinality(Held) - 1 /\ Cardinality(Held) \in Nat
  BY RowsAreFinite, FS_RemoveElement DEF Held
<1>3. Cardinality(Held) # 0
  BY RowsAreFinite, FS_EmptySet DEF Held
<1>4. mandate.reserved = Cardinality(Held) /\ mandate.reserved \in 1..MaximumRenewals
  BY <1>2, <1>3, MandateTypes DEF MandateInv, Counted
<1>5. mandate' = [mandate EXCEPT !.reserved = mandate.reserved - 1]
  BY <1>4, MandateTypes DEF Freed
<1>6. /\ mandate'.reserved = mandate.reserved - 1 /\ mandate'.consumed = mandate.consumed
      /\ mandate' \in [reserved : 0..MaximumRenewals, consumed : 0..MaximumRenewals,
                       due : BOOLEAN, valid : BOOLEAN]
  BY <1>4, <1>5, MandateTypes
<1>7. mandate.consumed \in Nat
  BY MandateTypes
<1> QED  BY <1>1, <1>2, <1>4, <1>6, <1>7, MandateTypes DEF Counted, MandateInv

\* No step but a reservation gives a number.
KeepsNumber(r, s) ==
    /\ s.cycle = r.cycle
    /\ s.state = "NONE" <=> r.state = "NONE"
    /\ s.status = "NONE" <=> r.status = "NONE"

LEMMA NumbersStay ==
    ASSUME MandateInv, cycleEvents' = cycleEvents,
           \A c \in Renewals : KeepsNumber(renewal[c], renewal'[c])
    PROVE  Numbered'
BY DEF MandateInv, Numbered, KeepsNumber

\* What becomes of a row when its reservation ends.
LEMMA EndedRow ==
    ASSUME NEW r \in RenewalRow, NEW status \in {"DECLINED", "EXPIRED"}, r.state # "NONE" \/ r.status = "NONE"
    PROVE  /\ Ended(r, status) \in RenewalRow /\ KeepsNumber(r, Ended(r, status))
           /\ r.state \in {"RESERVED", "COMMITTED"} => Ended(r, status).state = "RELEASED"
           /\ r.state \notin {"RESERVED", "COMMITTED"} => Ended(r, status).state = r.state
BY DEF Ended, RenewalRow, KeepsNumber, Pending

----------------------------------------------------------------------------
(* Each step.                                                               *)

LEMMA MandateBegins == MandateInit => MandateInv
<1> SUFFICES ASSUME MandateInit  PROVE MandateInv
  OBVIOUS
<1>1. MandateTypeOK
  <2>1. renewal \in [Renewals -> RenewalRow]
    BY MandateAssumption DEF MandateInit, RenewalRow
  <2>2. mandate \in [reserved : 0..MaximumRenewals, consumed : 0..MaximumRenewals,
                     due : BOOLEAN, valid : BOOLEAN]
    BY MandateAssumption DEF MandateInit
  <2> QED  BY <2>1, <2>2 DEF MandateInit, MandateTypeOK
<1>2. Held = {} /\ Used = {}
  BY DEF MandateInit, Held, Used, InState
<1>3. Counted
  BY <1>2, FS_EmptySet, MandateAssumption DEF Counted, MandateInit
<1>4. Numbered
  BY DEF MandateInit, Numbered
<1> QED  BY <1>1, <1>3, <1>4 DEF MandateInv

\* A step of one row that takes nothing and gives nothing back.
LEMMA QuietKeeps ==
    ASSUME MandateInv, NEW c \in Renewals, NEW r \in RenewalRow, renewal' = [renewal EXCEPT ![c] = r],
           SameGroup(renewal[c], r), KeepsNumber(renewal[c], r),
           UNCHANGED <<mandate, cycleEvents>>, expiring' \subseteq Renewals
    PROVE  MandateInv'
<1>1. /\ renewal' \in [Renewals -> RenewalRow] /\ renewal'[c] = r
      /\ \A d \in Renewals \ {c} : renewal'[d] = renewal[d]
  BY OneRowChanges
<1>2. MandateTypeOK'
  BY <1>1, MandateTypes DEF MandateTypeOK
<1>3. Counted'
  <2>1. \A d \in Renewals : SameGroup(renewal[d], renewal'[d])
    BY <1>1 DEF SameGroup
  <2> QED  BY <2>1, GroupsStay
<1>4. Numbered'
  <2>1. \A d \in Renewals : KeepsNumber(renewal[d], renewal'[d])
    BY <1>1 DEF KeepsNumber
  <2> QED  BY <2>1, NumbersStay
<1> QED  BY <1>2, <1>3, <1>4 DEF MandateInv

\* What the sweeper leaves, alone or as the first statement of RECUR.
LEMMA SweptRows ==
    ASSUME MandateInv
    PROVE  /\ Swept \in [Renewals -> RenewalRow]
           /\ \A c \in Renewals : KeepsNumber(renewal[c], Swept[c])
           /\ \A c \in Renewals : renewal[c].status = "NONE" => Swept[c] = renewal[c]
           /\ {c \in Renewals : Swept[c].state \in {"RESERVED", "COMMITTED"}} = Held \ Overdue
           /\ {c \in Renewals : Swept[c].state \in {"CONSUMED"}} = Used
<1>1. \A c \in Renewals : renewal[c] \in RenewalRow /\ (renewal[c].state = "NONE" <=> renewal[c].status = "NONE")
  BY MandateTypes DEF MandateInv, Numbered
<1>2. ASSUME NEW c \in Renewals
      PROVE  /\ Swept[c] \in RenewalRow /\ KeepsNumber(renewal[c], Swept[c])
             /\ renewal[c].status = "NONE" => Swept[c] = renewal[c]
             /\ Swept[c].state \in {"RESERVED", "COMMITTED"} <=> c \in Held \ Overdue
             /\ Swept[c].state = "CONSUMED" <=> renewal[c].state = "CONSUMED"
  <2>1. CASE c \in Overdue
    <3>1. /\ Swept[c] = Ended(renewal[c], "EXPIRED") /\ renewal[c].state = "RESERVED"
          /\ renewal[c].status # "NONE"
      BY <1>1, <2>1 DEF Swept, Overdue
    <3> QED  BY <1>1, <2>1, <3>1, EndedRow
  <2>2. CASE c \notin Overdue
    <3>1. Swept[c] = renewal[c]
      BY <2>2 DEF Swept
    <3> QED  BY <1>1, <2>2, <3>1 DEF KeepsNumber, Held, InState
  <2> QED  BY <2>1, <2>2
<1>3. Swept \in [Renewals -> RenewalRow]
  BY <1>2 DEF Swept
<1>4. Held \subseteq Renewals /\ Used = {c \in Renewals : renewal[c].state = "CONSUMED"}
  BY DEF Held, Used, InState
<1> QED  BY <1>2, <1>3, <1>4

LEMMA SweptCount ==
    ASSUME MandateInv
    PROVE  /\ Freed(Cardinality(Overdue)).reserved = Cardinality(Held \ Overdue)
           /\ Freed(Cardinality(Overdue)).reserved <= mandate.reserved
           /\ Freed(Cardinality(Overdue)).consumed = mandate.consumed
           /\ Freed(Cardinality(Overdue)) \in
                [reserved : 0..MaximumRenewals, consumed : 0..MaximumRenewals,
                 due : BOOLEAN, valid : BOOLEAN]
<1>1. Overdue \subseteq Held /\ Held \cap Overdue = Overdue
  BY DEF Overdue, Held, InState
<1>2. /\ IsFiniteSet(Held) /\ Cardinality(Held) \in Nat
      /\ Cardinality(Overdue) \in Nat /\ Cardinality(Overdue) <= Cardinality(Held)
  BY <1>1, RowsAreFinite, FS_Subset, FS_CardinalityType DEF Held
<1>3. Cardinality(Held \ Overdue) = Cardinality(Held) - Cardinality(Overdue)
  BY <1>1, <1>2, FS_Difference
<1>4. mandate.reserved = Cardinality(Held)
  BY DEF MandateInv, Counted
<1> DEFINE n == Cardinality(Overdue)
<1>5. n \in Nat /\ n <= mandate.reserved /\ mandate.reserved \in 0..MaximumRenewals
  BY <1>2, <1>4, MandateTypes
<1> HIDE DEF n
<1>6. Freed(n) = [mandate EXCEPT !.reserved = mandate.reserved - n]
  BY <1>5, MandateTypes DEF Freed
<1>7. /\ Freed(n).reserved = mandate.reserved - n /\ Freed(n).consumed = mandate.consumed
      /\ Freed(n) \in [reserved : 0..MaximumRenewals, consumed : 0..MaximumRenewals,
                       due : BOOLEAN, valid : BOOLEAN]
  BY <1>5, <1>6, MandateTypes
<1> QED  BY <1>3, <1>4, <1>5, <1>7 DEF n

LEMMA SweepKeeps ==
    ASSUME MandateInv, Sweep
    PROVE  MandateInv'
<1>1. renewal' = Swept /\ mandate' = Freed(Cardinality(Overdue)) /\ UNCHANGED <<cycleEvents, expiring>>
  BY DEF Sweep
<1>2. MandateTypeOK'
  BY <1>1, SweptRows, SweptCount, MandateTypes DEF MandateTypeOK
<1>3. Held' = Held \ Overdue /\ Used' = Used
  BY <1>1, SweptRows DEF Held, Used, InState
<1>4. mandate'.reserved = Cardinality(Held \ Overdue) /\ mandate'.consumed = mandate.consumed
      /\ mandate'.reserved <= mandate.reserved
  BY <1>1, SweptCount
<1>5. mandate.reserved \in Nat /\ mandate'.reserved \in Nat /\ mandate.consumed \in Nat
  BY <1>1, SweptCount, MandateTypes
<1>6. Counted'
  BY <1>3, <1>4, <1>5, MandateTypes DEF MandateInv, Counted
<1>7. Numbered'
  BY <1>1, SweptRows, NumbersStay
<1> QED  BY <1>2, <1>6, <1>7 DEF MandateInv

NewRenewal(q, n, p) ==
    [q EXCEPT !.status = "ECONOMICS_PENDING", !.state = "RESERVED", !.cycle = n, !.prior = p]

LEMMA NewRenewalType ==
    ASSUME NEW q \in RenewalRow, NEW n \in 0..MaximumRenewals, NEW p \in SettledTrade \cup 0..LastRenewal
    PROVE  /\ NewRenewal(q, n, p) \in RenewalRow
           /\ NewRenewal(q, n, p).status = "ECONOMICS_PENDING"
           /\ NewRenewal(q, n, p).state = "RESERVED" /\ NewRenewal(q, n, p).cycle = n
BY DEF NewRenewal, RenewalRow, Pending

\* A renewal takes the next number and one of what the sweeper has left.
LEMMA ReserveKeeps ==
    ASSUME MandateInv, NEW p \in Settled, NEW c \in Renewals, renewal[c].status = "NONE",
           ReserveRenewal(p, c)
    PROVE  MandateInv'
<1> DEFINE left == Freed(Cardinality(Overdue))
           n == left.reserved + left.consumed + 1
           r == NewRenewal(Swept[c], n, p)
<1>1. /\ left.reserved = Cardinality(Held \ Overdue) /\ left.consumed = mandate.consumed
      /\ left \in [reserved : 0..MaximumRenewals, consumed : 0..MaximumRenewals,
                   due : BOOLEAN, valid : BOOLEAN]
  BY SweptCount
<1>2. /\ n <= MaximumRenewals /\ n \notin cycleEvents /\ cycleEvents' = cycleEvents \cup {n}
      /\ mandate' = [left EXCEPT !.reserved = @ + 1] /\ expiring' = expiring
      /\ renewal' = [Swept EXCEPT ![c].status = "ECONOMICS_PENDING", ![c].state = "RESERVED",
                                  ![c].cycle = n, ![c].prior = p]
  BY DEF ReserveRenewal
<1>3. /\ Swept \in [Renewals -> RenewalRow] /\ Swept[c] = renewal[c]
      /\ renewal[c].state = "NONE" /\ c \notin Held /\ c \notin Used
  BY SweptRows DEF MandateInv, Numbered, Held, Used, InState
<1> HIDE DEF left
<1>4. n \in 1..MaximumRenewals /\ left.reserved \in Nat /\ left.consumed \in Nat
  BY <1>1, <1>2, MandateTypes
<1> HIDE DEF n
<1>5. /\ renewal'[c] = r /\ \A d \in Renewals \ {c} : renewal'[d] = Swept[d]
      /\ DOMAIN renewal' = Renewals /\ renewal' = [d \in Renewals |-> renewal'[d]]
  BY <1>2, <1>3 DEF NewRenewal
<1>6. p \in SettledTrade \cup 0..LastRenewal
  BY MandateTypes DEF Settled, Renewals
<1>7. /\ r \in RenewalRow /\ r.status = "ECONOMICS_PENDING" /\ r.state = "RESERVED" /\ r.cycle = n
  <2>1. Swept[c] \in RenewalRow /\ n \in 0..MaximumRenewals
    BY <1>3, <1>4, MandateTypes
  <2> QED  BY <1>6, <2>1, NewRenewalType
<1> HIDE DEF r
<1>8. /\ mandate'.reserved = left.reserved + 1 /\ mandate'.consumed = left.consumed
      /\ mandate' \in [reserved : 0..MaximumRenewals, consumed : 0..MaximumRenewals,
                       due : BOOLEAN, valid : BOOLEAN]
  BY <1>1, <1>2, <1>4, MandateTypes DEF n
<1>9. MandateTypeOK'
  <2>1. renewal' \in [Renewals -> RenewalRow]
    BY <1>3, <1>5, <1>7
  <2> QED  BY <1>2, <1>4, <1>8, <2>1, MandateTypes DEF MandateTypeOK
<1>10. Held' = (Held \ Overdue) \cup {c} /\ Used' = Used
  BY <1>3, <1>5, <1>7, SweptRows DEF Held, Used, InState
<1>11. Cardinality(Held') = Cardinality(Held \ Overdue) + 1
  BY <1>3, <1>10, RowsAreFinite, FS_AddElement, FS_Difference DEF Held
<1>12. Counted'
  BY <1>1, <1>2, <1>4, <1>8, <1>10, <1>11, MandateTypes DEF MandateInv, Counted, n
<1>13. Numbered'
  <2>1. \A d \in Renewals \ {c} : KeepsNumber(renewal[d], renewal'[d])
    BY <1>5, SweptRows
  <2>2. \A d \in Renewals \ {c} : renewal'[d].state # "NONE" => renewal'[d].cycle \in cycleEvents
    BY <2>1 DEF MandateInv, Numbered, KeepsNumber
  <2> QED  BY <1>2, <1>5, <1>7, <2>1, <2>2 DEF MandateInv, Numbered, KeepsNumber
<1> QED  BY <1>9, <1>12, <1>13 DEF MandateInv

LEMMA RecurKeeps ==
    ASSUME MandateInv, Recur
    PROVE  MandateInv'
<1>1. PICK c \in Renewals, p \in Settled :
        /\ {d \in Renewals : renewal[d].status # "NONE"} = 1..(c - 1)
        /\ ReserveRenewal(p, c)
  BY DEF Recur
<1>2. renewal[c].status = "NONE"
  BY <1>1, MandateTypes DEF Renewals
<1> QED  BY <1>1, <1>2, ReserveKeeps

BoundRow(q, talks) ==
    [q EXCEPT !.status = "TRADE_PROTECTED", !.state = "COMMITTED", !.trade = "PROTECTED", !.talks = talks]

LEMMA BindKeeps ==
    ASSUME MandateInv, NEW c \in Renewals, NEW talks \in {"NONE", "CLOSED", "SUBSTITUTED"},
           BindTrade(c, talks)
    PROVE  MandateInv'
<1> DEFINE r == BoundRow(renewal[c], talks)
<1>1. renewal' = [renewal EXCEPT ![c] = r]
  BY DEF BindTrade, BoundRow
<1>2. renewal[c] \in RenewalRow /\ renewal[c].state = "RESERVED" /\ renewal[c].status \in Pending
  BY MandateTypes DEF BindTrade, Bindable
<1>3. r \in RenewalRow /\ SameGroup(renewal[c], r) /\ KeepsNumber(renewal[c], r)
  BY <1>2 DEF BoundRow, RenewalRow, SameGroup, KeepsNumber, Pending
<1>4. UNCHANGED <<mandate, cycleEvents>> /\ expiring' \subseteq Renewals
  BY MandateTypes DEF BindTrade
<1> HIDE DEF r
<1> QED  BY <1>1, <1>3, <1>4, QuietKeeps


\* A step that touches neither a reservation's state nor its number.
Aside(q, r) ==
    /\ r \in RenewalRow /\ r.state = q.state /\ r.cycle = q.cycle
    /\ r.status = "NONE" <=> q.status = "NONE"

LEMMA AsideKeeps ==
    ASSUME MandateInv, NEW c \in Renewals, NEW r, Aside(renewal[c], r),
           renewal' = [renewal EXCEPT ![c] = r],
           UNCHANGED <<mandate, cycleEvents>>, expiring' \subseteq Renewals
    PROVE  MandateInv'
<1>1. r \in RenewalRow /\ SameGroup(renewal[c], r) /\ KeepsNumber(renewal[c], r)
  BY DEF Aside, SameGroup, KeepsNumber
<1> QED  BY <1>1, QuietKeeps

LEMMA PriceKeeps ==
    ASSUME MandateInv, NEW c \in Renewals, PriceRenewal(c)
    PROVE  MandateInv'
<1>0. renewal[c] \in RenewalRow /\ renewal[c].status = "ECONOMICS_PENDING" /\ expiring \subseteq Renewals
  BY MandateTypes DEF PriceRenewal
<1>1. CASE BindTrade(c, "NONE")
  BY <1>1, BindKeeps
<1>2. ASSUME NEW status \in {"PRICE_APPROVED", "PRICE_APPROVAL_REQUIRED"},
             NEW talks \in {"SUBSTITUTED", "OPEN"},
             renewal' = [renewal EXCEPT ![c].status = status, ![c].talks = talks],
             UNCHANGED <<mandate, cycleEvents, expiring>>
      PROVE  MandateInv'
  <2> DEFINE r == [renewal[c] EXCEPT !.status = status, !.talks = talks]
  <2>1. renewal' = [renewal EXCEPT ![c] = r]
    BY <1>2
  <2>2. Aside(renewal[c], r)
    BY <1>0 DEF Aside, RenewalRow, Pending
  <2> HIDE DEF r
  <2> QED  BY <1>0, <1>2, <2>1, <2>2, AsideKeeps
<1> QED  BY <1>1, <1>2 DEF PriceRenewal

LEMMA TalksKeep ==
    ASSUME MandateInv, NEW c \in Renewals, CounterPrice(c) \/ TalksLapse(c) \/ ReadLapsed(c)
    PROVE  MandateInv'
<1>0. renewal[c] \in RenewalRow /\ expiring \subseteq Renewals
  BY MandateTypes
<1>1. CASE CounterPrice(c)
  <2> DEFINE r == [renewal[c] EXCEPT !.answered = TRUE]
  <2>1. renewal' = [renewal EXCEPT ![c] = r] /\ UNCHANGED <<mandate, cycleEvents, expiring>>
    BY <1>1 DEF CounterPrice
  <2>2. Aside(renewal[c], r)
    BY <1>0 DEF Aside, RenewalRow
  <2> HIDE DEF r
  <2> QED  BY <1>0, <2>1, <2>2, AsideKeeps
<1>2. CASE TalksLapse(c)
  <2> DEFINE r == [renewal[c] EXCEPT !.talks = "LAPSED"]
  <2>1. renewal' = [renewal EXCEPT ![c] = r] /\ UNCHANGED <<mandate, cycleEvents, expiring>>
    BY <1>2 DEF TalksLapse
  <2>2. Aside(renewal[c], r)
    BY <1>0 DEF Aside, RenewalRow
  <2> HIDE DEF r
  <2> QED  BY <1>0, <2>1, <2>2, AsideKeeps
<1>3. CASE ReadLapsed(c)
  BY <1>3, <1>0 DEF ReadLapsed, MandateInv, MandateTypeOK, Counted, Numbered, Held, Used, InState
<1> QED  BY <1>1, <1>2, <1>3

LEMMA TimeKeeps ==
    ASSUME MandateInv, NEW c \in Renewals, ReservationExpires(c) \/ SettleRenewal(c)
    PROVE  MandateInv'
<1>0. renewal[c] \in RenewalRow /\ expiring \subseteq Renewals
  BY MandateTypes
<1>1. CASE ReservationExpires(c)
  <2> DEFINE r == [renewal[c] EXCEPT !.overdue = TRUE]
  <2>1. renewal' = [renewal EXCEPT ![c] = r] /\ UNCHANGED <<mandate, cycleEvents, expiring>>
    BY <1>1 DEF ReservationExpires
  <2>2. Aside(renewal[c], r)
    BY <1>0 DEF Aside, RenewalRow
  <2> HIDE DEF r
  <2> QED  BY <1>0, <2>1, <2>2, AsideKeeps
<1>2. CASE SettleRenewal(c)
  <2> DEFINE r == [renewal[c] EXCEPT !.trade = "SETTLED"]
  <2>1. renewal' = [renewal EXCEPT ![c] = r] /\ UNCHANGED <<mandate, cycleEvents, expiring>>
    BY <1>2 DEF SettleRenewal
  <2>2. Aside(renewal[c], r)
    BY <1>0 DEF Aside, RenewalRow
  <2> HIDE DEF r
  <2> QED  BY <1>0, <2>1, <2>2, AsideKeeps
<1> QED  BY <1>1, <1>2

LEMMA SubstituteKeeps ==
    ASSUME MandateInv, NEW c \in Renewals, ProtectSubstitute(c)
    PROVE  MandateInv'
<1>0. renewal[c] \in RenewalRow /\ expiring \subseteq Renewals
  BY MandateTypes
<1>1. CASE BindTrade(c, "SUBSTITUTED")
  BY <1>1, BindKeeps
<1>2. CASE ~BindTrade(c, "SUBSTITUTED")
  <2> DEFINE r == [renewal[c] EXCEPT !.trade = "OUTSIDE"]
  <2>1. renewal' = [renewal EXCEPT ![c] = r] /\ UNCHANGED <<mandate, cycleEvents, expiring>>
    BY <1>2 DEF ProtectSubstitute
  <2>2. Aside(renewal[c], r)
    BY <1>0 DEF Aside, RenewalRow
  <2> HIDE DEF r
  <2> QED  BY <1>0, <2>1, <2>2, AsideKeeps
<1> QED  BY <1>1, <1>2

\* The buyer's refusal and the negotiation's expiry.
LEMMA GiveBackKeeps ==
    ASSUME MandateInv, NEW c \in Renewals, NEW status \in {"DECLINED", "EXPIRED"},
           GiveBack(c, status, "CLOSED"), expiring' \subseteq Renewals
    PROVE  MandateInv'
<1> DEFINE r == [Ended(renewal[c], status) EXCEPT !.talks = "CLOSED"]
<1>1. renewal[c] \in RenewalRow /\ (renewal[c].state # "NONE" \/ renewal[c].status = "NONE")
  BY MandateTypes DEF MandateInv, Numbered
<1>2. renewal' = [renewal EXCEPT ![c] = r] /\ cycleEvents' = cycleEvents
  BY DEF GiveBack
<1>3. /\ r \in RenewalRow /\ KeepsNumber(renewal[c], r)
      /\ renewal[c].state \in {"RESERVED", "COMMITTED"} => r.state = "RELEASED"
      /\ renewal[c].state \notin {"RESERVED", "COMMITTED"} => r.state = renewal[c].state
  <2> DEFINE q == Ended(renewal[c], status)
  <2>1. /\ q \in RenewalRow /\ KeepsNumber(renewal[c], q)
        /\ renewal[c].state \in {"RESERVED", "COMMITTED"} => q.state = "RELEASED"
        /\ renewal[c].state \notin {"RESERVED", "COMMITTED"} => q.state = renewal[c].state
    BY <1>1, EndedRow
  <2> HIDE DEF q
  <2>2. /\ r \in RenewalRow /\ r.state = q.state /\ r.status = q.status /\ r.cycle = q.cycle
    BY <2>1 DEF RenewalRow, q
  <2> HIDE DEF r
  <2> QED  BY <2>1, <2>2 DEF KeepsNumber
<1> HIDE DEF r
<1>4. /\ renewal' \in [Renewals -> RenewalRow] /\ renewal'[c] = r
      /\ \A d \in Renewals \ {c} : renewal'[d] = renewal[d]
  BY <1>2, <1>3, OneRowChanges
<1>5. CASE renewal[c].state \in {"RESERVED", "COMMITTED"}
  <2>1. mandate' = Freed(1) /\ c \in Held
    BY <1>5 DEF GiveBack, Held, InState
  <2>2. /\ Counted'
        /\ mandate' \in [reserved : 0..MaximumRenewals, consumed : 0..MaximumRenewals,
                         due : BOOLEAN, valid : BOOLEAN]
    BY <1>3, <1>4, <1>5, <2>1, OneGivenBack
  <2>3. Numbered'
    <3>1. \A d \in Renewals : KeepsNumber(renewal[d], renewal'[d])
      BY <1>3, <1>4 DEF KeepsNumber
    <3> QED  BY <1>2, <3>1, NumbersStay
  <2> QED  BY <1>2, <1>4, <2>2, <2>3, MandateTypes DEF MandateInv, MandateTypeOK
<1>6. CASE renewal[c].state \notin {"RESERVED", "COMMITTED"}
  <2>1. mandate' = mandate /\ SameGroup(renewal[c], r)
    BY <1>3, <1>6 DEF GiveBack, SameGroup
  <2> QED  BY <1>2, <1>3, <2>1, QuietKeeps
<1> QED  BY <1>5, <1>6

\* The trade fails: the reservation that is bound to it is given back.
LEMMA FailKeeps ==
    ASSUME MandateInv, NEW c \in Renewals, FailRenewal(c)
    PROVE  MandateInv'
<1> DEFINE r == [renewal[c] EXCEPT !.trade = "FAILED",
                                   !.state = IF renewal[c].state = "COMMITTED" THEN "RELEASED"
                                             ELSE renewal[c].state]
<1>1. renewal[c] \in RenewalRow /\ (renewal[c].state = "NONE" <=> renewal[c].status = "NONE")
  BY MandateTypes DEF MandateInv, Numbered
<1>2. renewal' = [renewal EXCEPT ![c] = r] /\ UNCHANGED <<cycleEvents, expiring>>
  BY DEF FailRenewal
<1>3. /\ r \in RenewalRow /\ KeepsNumber(renewal[c], r)
      /\ renewal[c].state = "COMMITTED" => r.state = "RELEASED"
      /\ renewal[c].state # "COMMITTED" => r.state = renewal[c].state
  BY <1>1 DEF RenewalRow, KeepsNumber
<1> HIDE DEF r
<1>4. /\ renewal' \in [Renewals -> RenewalRow] /\ renewal'[c] = r
      /\ \A d \in Renewals \ {c} : renewal'[d] = renewal[d]
  BY <1>2, <1>3, OneRowChanges
<1>5. CASE renewal[c].state = "COMMITTED"
  <2>1. mandate' = Freed(1) /\ c \in Held
    BY <1>5 DEF FailRenewal, Held, InState
  <2>2. /\ Counted'
        /\ mandate' \in [reserved : 0..MaximumRenewals, consumed : 0..MaximumRenewals,
                         due : BOOLEAN, valid : BOOLEAN]
    BY <1>3, <1>4, <1>5, <2>1, OneGivenBack
  <2>3. Numbered'
    <3>1. \A d \in Renewals : KeepsNumber(renewal[d], renewal'[d])
      BY <1>3, <1>4 DEF KeepsNumber
    <3> QED  BY <1>2, <3>1, NumbersStay
  <2> QED  BY <1>2, <1>4, <2>2, <2>3, MandateTypes DEF MandateInv, MandateTypeOK
<1>6. CASE renewal[c].state # "COMMITTED"
  <2>1. mandate' = mandate /\ SameGroup(renewal[c], r)
    BY <1>3, <1>6 DEF FailRenewal, SameGroup
  <2> QED  BY <1>2, <1>3, <2>1, QuietKeeps, MandateTypes
<1> QED  BY <1>5, <1>6

\* The entitlement is secured: one that was held is now spent.
LEMMA SecureKeeps ==
    ASSUME MandateInv, NEW c \in Renewals, SecureRenewal(c)
    PROVE  MandateInv'
<1>0. renewal[c] \in RenewalRow /\ (renewal[c].state = "NONE" <=> renewal[c].status = "NONE")
  BY MandateTypes DEF MandateInv, Numbered
<1>1. CASE renewal[c].state = "COMMITTED"
  <2> DEFINE r == [renewal[c] EXCEPT !.trade = "FEE_LOCKED", !.state = "CONSUMED", !.status = "FEE_LOCKED"]
  <2>1. renewal' = [renewal EXCEPT ![c] = r] /\ UNCHANGED <<cycleEvents, expiring>>
    BY <1>1 DEF SecureRenewal
  <2>2. r \in RenewalRow /\ KeepsNumber(renewal[c], r) /\ r.state = "CONSUMED"
    BY <1>0, <1>1 DEF RenewalRow, KeepsNumber
  <2> HIDE DEF r
  <2>3. /\ renewal' \in [Renewals -> RenewalRow] /\ renewal'[c] = r
        /\ \A d \in Renewals \ {c} : renewal'[d] = renewal[d]
    BY <2>1, <2>2, OneRowChanges
  <2>4. PICK due \in BOOLEAN :
          mandate' = [mandate EXCEPT !.reserved = @ - 1, !.consumed = @ + 1, !.due = due]
    BY <1>1 DEF SecureRenewal
  <2>5. /\ Held' = Held \ {c} /\ Used' = Used \cup {c} /\ c \in Held /\ c \notin Used
    BY <1>1, <2>2, <2>3 DEF Held, Used, InState
  <2>6. /\ Cardinality(Held \ {c}) = Cardinality(Held) - 1 /\ Cardinality(Held) \in Nat
        /\ Cardinality(Used \cup {c}) = Cardinality(Used) + 1 /\ Cardinality(Used) \in Nat
        /\ Cardinality(Held) # 0
    BY <2>5, RowsAreFinite, FS_RemoveElement, FS_AddElement, FS_EmptySet DEF Held, Used
  <2>7. /\ mandate.reserved = Cardinality(Held) /\ mandate.consumed = Cardinality(Used)
        /\ mandate.reserved + mandate.consumed <= MaximumRenewals
    BY DEF MandateInv, Counted
  <2>8. /\ mandate'.reserved = mandate.reserved - 1 /\ mandate'.consumed = mandate.consumed + 1
        /\ mandate' \in [reserved : 0..MaximumRenewals, consumed : 0..MaximumRenewals,
                         due : BOOLEAN, valid : BOOLEAN]
    <3>1. /\ mandate.reserved - 1 \in 0..MaximumRenewals
          /\ mandate.consumed + 1 \in 0..MaximumRenewals
      BY <2>6, <2>7, MandateTypes
    <3> QED  BY <2>4, <3>1, MandateTypes
  <2>9. Counted'
    BY <2>5, <2>6, <2>7, <2>8, MandateTypes DEF Counted
  <2>10. Numbered'
    <3>1. \A d \in Renewals : KeepsNumber(renewal[d], renewal'[d])
      BY <2>2, <2>3 DEF KeepsNumber
    <3> QED  BY <2>1, <3>1, NumbersStay
  <2> QED  BY <2>1, <2>3, <2>8, <2>9, <2>10, MandateTypes DEF MandateInv, MandateTypeOK
<1>2. CASE renewal[c].state # "COMMITTED"
  <2> DEFINE r == [renewal[c] EXCEPT !.trade = "FEE_LOCKED"]
  <2>1. renewal' = [renewal EXCEPT ![c] = r] /\ UNCHANGED <<mandate, cycleEvents, expiring>>
    BY <1>2 DEF SecureRenewal
  <2>2. Aside(renewal[c], r)
    BY <1>0 DEF Aside, RenewalRow
  <2> HIDE DEF r
  <2> QED  BY <2>1, <2>2, AsideKeeps, MandateTypes
<1> QED  BY <1>1, <1>2

LEMMA ClockKeeps ==
    ASSUME MandateInv, CycleDue \/ MandateEnds
    PROVE  MandateInv'
<1>1. /\ mandate'.reserved = mandate.reserved /\ mandate'.consumed = mandate.consumed
      /\ mandate' \in [reserved : 0..MaximumRenewals, consumed : 0..MaximumRenewals,
                       due : BOOLEAN, valid : BOOLEAN]
      /\ UNCHANGED <<cycleEvents, expiring>>
  BY MandateTypes DEF CycleDue, MandateEnds
<1>2. ASSUME NEW c \in Renewals
      PROVE  /\ renewal'[c] \in RenewalRow
             /\ SameGroup(renewal[c], renewal'[c]) /\ KeepsNumber(renewal[c], renewal'[c])
  <2>1. renewal[c] \in RenewalRow
    BY MandateTypes
  <2>2. CASE CycleDue
    BY <2>1, <2>2 DEF CycleDue, SameGroup, KeepsNumber
  <2>3. CASE MandateEnds
    <3>1. PICK b \in BOOLEAN : renewal'[c] = [renewal[c] EXCEPT !.overdue = b]
      BY <2>1, <2>3 DEF MandateEnds, RenewalRow
    <3> QED  BY <2>1, <3>1 DEF RenewalRow, SameGroup, KeepsNumber
  <2> QED  BY <2>2, <2>3
<1>3. renewal' \in [Renewals -> RenewalRow]
  <2>1. renewal' = [c \in Renewals |-> renewal'[c]]
    BY MandateTypes DEF CycleDue, MandateEnds
  <2> QED  BY <1>2, <2>1
<1> QED  BY <1>1, <1>2, <1>3, GroupsStay, NumbersStay, MandateTypes DEF MandateInv, MandateTypeOK

----------------------------------------------------------------------------
\* The inductive invariant of the standing authorization holds
\* (recurring_execution.ts, inbox_processors.ts:1104-1117).
THEOREM MandateInvariance == MandateSpec => []MandateInv
<1>1. ASSUME MandateInv, [MandateNext]_mandateVars  PROVE MandateInv'
  <2>1. ASSUME NEW c \in Renewals, AcceptPrice(c) \/ DeclinePrice(c) \/ ExpireTalks(c)
        PROVE  MandateInv'
    <3>1. CASE AcceptPrice(c)
      BY <1>1, <3>1, BindKeeps DEF AcceptPrice
    <3>2. CASE DeclinePrice(c)
      BY <1>1, <3>2, GiveBackKeeps, MandateTypes DEF DeclinePrice
    <3>3. CASE ExpireTalks(c)
      BY <1>1, <3>3, GiveBackKeeps, MandateTypes DEF ExpireTalks
    <3> QED  BY <2>1, <3>1, <3>2, <3>3
  <2>2. CASE MandateNext
    BY <1>1, <2>1, <2>2, SweepKeeps, RecurKeeps, ClockKeeps, PriceKeeps, TalksKeep, TimeKeeps,
       SubstituteKeeps, SecureKeeps, FailKeeps DEF MandateNext
  <2>3. CASE UNCHANGED mandateVars
    BY <1>1, <2>3 DEF mandateVars, MandateInv, MandateTypeOK, Counted, Numbered, Held, Used, InState
  <2> QED  BY <1>1, <2>2, <2>3
<1> QED  BY <1>1, MandateBegins, PTL DEF MandateSpec

\* The counters of the authorization are its reservations and stay within what
\* the buyer authorized, and no cycle is held twice, for every maximum and every
\* number of renewals (recurring_execution.ts, migration 0057's checks).
THEOREM CyclesAreAlwaysCounted == MandateSpec => []CyclesAreCounted
<1>1. MandateInv => CyclesAreCounted
  BY DEF MandateInv, Counted, Numbered, Held, Used, InState, CyclesAreCounted
<1> QED  BY <1>1, MandateInvariance, PTL
===============================================================================
