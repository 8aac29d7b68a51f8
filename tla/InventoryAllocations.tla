-------------------------- MODULE InventoryAllocations --------------------------
(***************************************************************************)
(* Several trades reserve the same offers and the same demands             *)
(* (src/runtime/inventory_allocations.ts).  A reservation is a part of the *)
(* transaction that protects its trade.  It takes an advisory lock for the *)
(* demand and one for the offer, adds up what is booked on each, and only  *)
(* then inserts the two allocation rows, which become visible when the     *)
(* transaction commits.  The locks are keyed by a 32-bit hash, so two      *)
(* different offers or demands may share one.                              *)
(*                                                                         *)
(* A trade's two rows are written by the same statements of the same       *)
(* transaction and are one state here.  reserveInventory's answer to a     *)
(* repeated call is left out: both callers reserve for a trade whose id    *)
(* they have just made up.                                                 *)
(***************************************************************************)
EXTENDS Integers, FiniteSets

CONSTANTS
    Trade,      \* the trades to protect; a retry is made under a new id
    Offer,      \* verified versions of offers
    Demand,     \* verified versions of demands
    OfferOf,    \* OfferOf[t]: the offer that trade t's match sells from
    DemandOf,   \* DemandOf[t]: the demand that it fills
    Quantity,   \* Quantity[t]: the metric tonnes it allocates on both
    Capacity,   \* Capacity[k]: the tonnes of an offer or a demand
    Moq,        \* Moq[o]: the least that offer o sells
    Expiring,   \* the offers that may expire
    Hash,       \* the values of hashtext
    Hashings,   \* the functions that hashtext may turn out to be
    None        \* nobody

Lot == Offer \cup Demand

ASSUME TradesAreFinite == IsFiniteSet(Trade)

ASSUME ConstantsTyped ==
    /\ Offer \cap Demand = {}
    /\ OfferOf \in [Trade -> Offer]
    /\ DemandOf \in [Trade -> Demand]
    /\ Quantity \in [Trade -> Nat \ {0}]
    /\ Capacity \in [Lot -> Nat]
    /\ Moq \in [Offer -> Nat]
    /\ Expiring \subseteq Offer
    /\ Hashings \subseteq [Lot -> Hash]
    /\ None \notin Trade

VARIABLES
    hash,       \* hash[k]: the hash of lot k's lock key
    holder,     \* holder[h]: the transaction that holds advisory lock h
    step,       \* step[t]: where the transaction that protects trade t is
    allocation, \* allocation[t]: the state of trade t's two allocation rows
    expired     \* the offers whose expires_at has passed

stockVars == <<hash, holder, step, allocation, expired>>

Step == {"IDLE", "LOCKING", "HALF_LOCKED", "LOCKED", "COUNTED"}
Live == {"RESERVED", "COMMITTED", "CONSUMED"}
RowState == Live \cup {"NONE", "RELEASED"}

StockTypeOK ==
    /\ hash \in Hashings
    /\ holder \in [Hash -> Trade \cup {None}]
    /\ step \in [Trade -> Step]
    /\ allocation \in [Trade -> RowState]
    /\ expired \subseteq Offer

StockInit ==
    /\ hash \in Hashings
    /\ holder = [h \in Hash |-> None]
    /\ step = [t \in Trade |-> "IDLE"]
    /\ allocation = [t \in Trade |-> "NONE"]
    /\ expired = {}

---------------------------------------------------------------------------
(* What a trade books, and what is booked.                                 *)

Uses(t) == {OfferOf[t], DemandOf[t]}
Tonnes(t) == {t} \X (1 .. Quantity[t])
Bookers(k) == {t \in Trade : allocation[t] \in Live /\ k \in Uses(t)}
Booked(k) == UNION {Tonnes(t) : t \in Bookers(k)}

(* FitsUnfunded is a slip: the sums forget a trade once it is funded.      *)
FitsUnfunded(t) ==
    \A k \in Uses(t) :
        LET unfunded == {u \in Bookers(k) : allocation[u] = "RESERVED"}
        IN  Cardinality(UNION {Tonnes(u) : u \in unfunded}) + Quantity[t]
                <= Capacity[k]
Fits(t) ==
    \A k \in Uses(t) : Cardinality(Booked(k)) + Quantity[t] <= Capacity[k]

Available(t) == OfferOf[t] \notin expired /\ Quantity[t] >= Moq[OfferOf[t]]

(* The keys are sorted: "inventory:demand:..." comes before                *)
(* "inventory:offer:...".  The slip is an order that differs by trade.     *)
LockOrderBySize(t) ==
    IF Quantity[t] > 1 THEN <<OfferOf[t], DemandOf[t]>> ELSE <<DemandOf[t], OfferOf[t]>>
LockOrder(t) == <<DemandOf[t], OfferOf[t]>>
FirstKey(t) == LockOrder(t)[1]
SecondKey(t) == LockOrder(t)[2]

(* The lock that t's next statement asks for.                              *)
Wanted(t) == hash[IF step[t] = "LOCKING" THEN FirstKey(t) ELSE SecondKey(t)]

(* Transaction locks: free again when the transaction ends, however it     *)
(* ends, and granted again to the transaction that has them.  The slips: a *)
(* lock that everyone is granted, and one that the session keeps.          *)
GrantableAlways(t, h) == holder[h] \in Trade \cup {None}
UnlockedNothing(t) == [h \in Hash |-> holder[h]]
Grantable(t, h) == holder[h] \in {None, t}
Unlocked(t) == [h \in Hash |-> IF holder[h] = t THEN None ELSE holder[h]]

---------------------------------------------------------------------------
(* reserveInventory in the transaction of protectMatch or                  *)
(* protectApprovedRecurringMatch.                                          *)

MoveTo(t, s) == step' = [step EXCEPT ![t] = s]

Begin(t) ==
    /\ step[t] = "IDLE"
    /\ allocation[t] = "NONE"
    /\ MoveTo(t, "LOCKING")
    /\ UNCHANGED <<hash, holder, allocation, expired>>

Lock(t, from, to) ==
    /\ step[t] = from
    /\ Grantable(t, Wanted(t))
    /\ holder' = [holder EXCEPT ![Wanted(t)] = t]
    /\ MoveTo(t, to)
    /\ UNCHANGED <<hash, allocation, expired>>

LockFirst(t) == Lock(t, "LOCKING", "HALF_LOCKED")
LockSecond(t) == Lock(t, "HALF_LOCKED", "LOCKED")

(* The two sums, over what other transactions have committed by now.       *)
Count(t) ==
    /\ step[t] = "LOCKED"
    /\ Available(t)
    /\ Fits(t)
    /\ MoveTo(t, "COUNTED")
    /\ UNCHANGED <<hash, holder, allocation, expired>>

Rollback(t) ==
    /\ MoveTo(t, "IDLE")
    /\ holder' = Unlocked(t)
    /\ UNCHANGED <<hash, allocation, expired>>

(* reserveInventory throws; the workflow or the job will try again.        *)
Refuse(t) ==
    /\ step[t] = "LOCKED"
    /\ ~ (Available(t) /\ Fits(t))
    /\ Rollback(t)

(* Another statement of the transaction throws, or the process dies.       *)
Fail(t) == step[t] # "IDLE" /\ Rollback(t)

CommitReservation(t) ==
    /\ step[t] = "COUNTED"
    /\ allocation' = [allocation EXCEPT ![t] = "RESERVED"]
    /\ holder' = Unlocked(t)
    /\ MoveTo(t, "IDLE")
    /\ UNCHANGED <<hash, expired>>

---------------------------------------------------------------------------
(* transitionInventory and releaseInventory: a statement for each side,    *)
(* with no advisory lock.                                                  *)

Transition(t, from, to) ==
    /\ allocation[t] \in from
    /\ allocation' = [allocation EXCEPT ![t] = to]
    /\ UNCHANGED <<hash, holder, step, expired>>

Fund(t)    == Transition(t, {"RESERVED"}, "COMMITTED")
Settle(t)  == Transition(t, {"COMMITTED"}, "CONSUMED")
Release(t) == Transition(t, {"RESERVED", "COMMITTED"}, "RELEASED")

(* The database's clock passes the expiry of an offer.                     *)
Expire(o) ==
    /\ o \notin expired
    /\ expired' = expired \cup {o}
    /\ UNCHANGED <<hash, holder, step, allocation>>

---------------------------------------------------------------------------
(* Transactions that wait for one another: each of a set of them waits for *)
(* a lock that one of the set has.  PostgreSQL rolls one of them back.     *)

Waiting(t) ==
    /\ step[t] \in {"LOCKING", "HALF_LOCKED"}
    /\ ~ Grantable(t, Wanted(t))

Stuck(S) == \A t \in S : Waiting(t) /\ holder[Wanted(t)] \in S

BreakDeadlock(t) ==
    /\ \E S \in SUBSET Trade : t \in S /\ Stuck(S)
    /\ Rollback(t)

Reserve(t) ==
    \/ Begin(t)
    \/ LockFirst(t)
    \/ LockSecond(t)
    \/ Count(t)
    \/ Refuse(t)
    \/ Fail(t)
    \/ CommitReservation(t)
    \/ BreakDeadlock(t)

StockNext ==
    \/ \E t \in Trade : Reserve(t) \/ Fund(t) \/ Settle(t) \/ Release(t)
    \/ \E o \in Expiring : Expire(o)

StockSpec == StockInit /\ [][StockNext]_stockVars

(* What a transaction does once it has its locks, or PostgreSQL when it     *)
(* cannot have them.                                                       *)
GoOn(t) == Count(t) \/ Refuse(t) \/ CommitReservation(t) \/ BreakDeadlock(t)

---------------------------------------------------------------------------
(* Properties.                                                             *)

(* No offer and no demand is promised beyond its quantity, whoever         *)
(* reserves, funds, settles or fails in between: the purpose of            *)
(* reserveInventory.                                                       *)
NothingIsOversold == \A k \in Lot : Cardinality(Booked(k)) <= Capacity[k]

(* Reservations do not wait for one another in a circle as long as no two  *)
(* keys share a hash: what the sorting of the keys is for.                 *)
DistinctHashes == \A j, k \in Lot : hash[j] = hash[k] => j = k
NoDeadlock == DistinctHashes => \A S \in SUBSET Trade : Stuck(S) => S = {}

(* Every transaction that starts to reserve ends, with an allocation or    *)
(* without, shared hashes included.                                        *)
EveryAttemptEnds == \A t \in Trade : step[t] # "IDLE" ~> step[t] = "IDLE"

---------------------------------------------------------------------------
(* The inductive invariant: a lock is held by a transaction that has       *)
(* reached it and by no other, and a count stays good until its            *)
(* transaction ends.                                                       *)

Secured(t) ==
    {FirstKey(t) : s \in {"HALF_LOCKED", "LOCKED", "COUNTED"} \cap {step[t]}}
    \cup {SecondKey(t) : s \in {"LOCKED", "COUNTED"} \cap {step[t]}}

LocksHeld ==
    \A t \in Trade :
        /\ \A k \in Secured(t) : holder[hash[k]] = t
        /\ \A h \in Hash : holder[h] = t => \E k \in Secured(t) : hash[k] = h

CountsStayGood ==
    \A t \in Trade : step[t] = "COUNTED" => allocation[t] = "NONE" /\ Fits(t)

(* Why nothing is oversold: what a transaction has counted still fits when *)
(* it commits, since no other can book on its offer or demand meanwhile.   *)
StockInv ==
    /\ StockTypeOK
    /\ LocksHeld
    /\ \A t \in Trade : step[t] # "IDLE" => allocation[t] = "NONE"
    /\ CountsStayGood
    /\ \A k \in Lot : IsFiniteSet(Booked(k))
    /\ NothingIsOversold
===============================================================================
