--------------------------- MODULE Fulfilment_proofs ---------------------------
(***************************************************************************)
(* No offer and no demand is oversold, and reservations do not deadlock,   *)
(* for any trades, quantities and capacities.  The first holds whatever    *)
(* hashtext does; the second as long as it keeps the keys apart.  Beside a *)
(* trade whose goods are paid, both hold as they do alone.                 *)
(***************************************************************************)
EXTENDS MCFulfilment, TradeSystem_proofs, FiniteSetTheorems

(* A trade books as many tonnes as its quantity.                           *)
LEMMA TonnesCounted ==
    ASSUME NEW t \in Trade
    PROVE  IsFiniteSet(Tonnes(t)) /\ Cardinality(Tonnes(t)) = Quantity[t]
<1>1. Quantity[t] \in Nat \ {0}
  BY ConstantsTyped
<1>2. IsFiniteSet({t}) /\ Cardinality({t}) = 1
  BY FS_Singleton
<1>3. IsFiniteSet(1 .. Quantity[t]) /\ Cardinality(1 .. Quantity[t]) = Quantity[t]
  <2>1. /\ IsFiniteSet(1 .. Quantity[t])
        /\ Cardinality(1 .. Quantity[t])
             = IF 1 > Quantity[t] THEN 0 ELSE Quantity[t] - 1 + 1
    BY <1>1, FS_Interval
  <2> QED  BY <1>1, <2>1
<1>4. /\ IsFiniteSet({t} \X (1 .. Quantity[t]))
      /\ Cardinality({t} \X (1 .. Quantity[t])) = 1 * Quantity[t]
  BY <1>2, <1>3, FS_Product
<1> QED  BY <1>1, <1>4 DEF Tonnes

(* Both lots of a trade are lots.                                          *)
LEMMA UsesLots == \A t \in Trade : Uses(t) \subseteq Lot
BY ConstantsTyped DEF Uses, Lot

(* A step that leaves no new trade live books nothing more.                *)
LEMMA NothingAdded ==
    ASSUME StockInv, NEW k \in Lot, Bookers(k)' \subseteq Bookers(k)
    PROVE  /\ IsFiniteSet(Booked(k)') /\ IsFiniteSet(Booked(k))
           /\ Cardinality(Booked(k)') <= Cardinality(Booked(k))
<1>1. Booked(k)' \subseteq Booked(k)
  BY DEF Booked, Tonnes
<1>2. IsFiniteSet(Booked(k))
  BY DEF StockInv
<1> QED  BY <1>1, <1>2, FS_Subset

(* A trade that becomes live adds its tonnes to its lots, and to no other. *)
LEMMA TonnesAdded ==
    ASSUME StockInv, NEW t \in Trade, allocation[t] = "NONE",
           allocation' = [allocation EXCEPT ![t] = "RESERVED"],
           NEW k \in Lot
    PROVE  /\ IsFiniteSet(Booked(k)')
           /\ Cardinality(Booked(k)') =
                Cardinality(Booked(k)) + (IF k \in Uses(t) THEN Quantity[t] ELSE 0)
<1>1. allocation \in [Trade -> RowState]
  BY DEF StockInv, StockTypeOK
<1>2. Bookers(k)' = Bookers(k) \cup {u \in {t} : k \in Uses(u)}
  BY <1>1 DEF Bookers, Live, Uses
<1>3. IsFiniteSet(Booked(k)) /\ Cardinality(Booked(k)) \in Nat
  BY FS_CardinalityType DEF StockInv
<1>4. CASE k \in Uses(t)
  <2>1. Booked(k)' = Booked(k) \cup Tonnes(t)
    <3>1. Bookers(k)' = Bookers(k) \cup {t}
      BY <1>2, <1>4
    <3> QED  BY <3>1 DEF Booked, Tonnes
  <2>2. Booked(k) \cap Tonnes(t) = {}
    BY DEF Booked, Bookers, Tonnes, Live
  <2>3. IsFiniteSet(Tonnes(t)) /\ Cardinality(Tonnes(t)) = Quantity[t]
    BY TonnesCounted
  <2>4. /\ IsFiniteSet(Booked(k) \cup Tonnes(t))
        /\ Cardinality(Booked(k) \cup Tonnes(t))
             = Cardinality(Booked(k)) + Cardinality(Tonnes(t)) - Cardinality({})
    BY <1>3, <2>2, <2>3, FS_Union
  <2> QED  BY <1>3, <1>4, <2>1, <2>3, <2>4, FS_EmptySet, ConstantsTyped
<1>5. CASE k \notin Uses(t)
  <2>1. Bookers(k)' = Bookers(k)
    BY <1>2, <1>5
  <2>2. Booked(k)' = Booked(k)
    BY <2>1 DEF Booked, Tonnes
  <2> QED  BY <1>3, <1>5, <2>2
<1> QED  BY <1>4, <1>5

---------------------------------------------------------------------------
LEMMA Initially == StockInit => StockInv
<1> SUFFICES ASSUME StockInit PROVE StockInv
  OBVIOUS
<1>1. StockTypeOK
  BY DEF StockInit, StockTypeOK, Step, RowState
<1>2. LocksHeld
  BY ConstantsTyped DEF StockInit, LocksHeld, Secured
<1>3. \A k \in Lot : Booked(k) = {}
  BY DEF StockInit, Booked, Bookers, Live
<1>4. \A k \in Lot : IsFiniteSet(Booked(k)) /\ Cardinality(Booked(k)) <= Capacity[k]
  <2>1. IsFiniteSet({}) /\ Cardinality({}) = 0
    BY FS_EmptySet
  <2>2. \A k \in Lot : Capacity[k] \in Nat
    BY ConstantsTyped
  <2> QED  BY <1>3, <2>1, <2>2
<1> QED  BY <1>1, <1>2, <1>4 DEF StockInit, StockInv, CountsStayGood, NothingIsOversold

(* While t has counted, no other transaction has counted on its lots.      *)
LEMMA LotsGuarded ==
    ASSUME StockInv, NEW t \in Trade, NEW u \in Trade, t # u,
           step[t] = "COUNTED", step[u] = "COUNTED"
    PROVE  Uses(t) \cap Uses(u) = {}
<1>1. Secured(t) = Uses(t) /\ Secured(u) = Uses(u)
  BY DEF Secured, Uses, FirstKey, SecondKey, LockOrder
<1> QED  BY <1>1 DEF StockInv, LocksHeld

(* Steps that change no allocation keep every booking and every count.     *)
LEMMA SameBookings ==
    ASSUME StockInv, UNCHANGED allocation
    PROVE  /\ \A k \in Lot : IsFiniteSet(Booked(k))'
           /\ NothingIsOversold'
           /\ \A t \in Trade : Fits(t) => Fits(t)'
BY DEF StockInv, NothingIsOversold, Fits, Booked, Bookers, Tonnes, Uses

(* Transitions of other trades make room and take none.                    *)
LEMMA FewerBookings ==
    ASSUME StockInv, \A k \in Lot : Bookers(k)' \subseteq Bookers(k)
    PROVE  /\ \A k \in Lot : IsFiniteSet(Booked(k))'
           /\ NothingIsOversold'
           /\ \A t \in Trade : Fits(t) => Fits(t)'
<1>1. \A k \in Lot : /\ IsFiniteSet(Booked(k)') /\ IsFiniteSet(Booked(k))
                     /\ Cardinality(Booked(k)') <= Cardinality(Booked(k))
  BY NothingAdded
<1>2. \A k \in Lot : /\ Cardinality(Booked(k)') \in Nat
                     /\ Cardinality(Booked(k)) \in Nat
                     /\ Capacity[k] \in Nat
  BY <1>1, FS_CardinalityType, ConstantsTyped
<1>3. NothingIsOversold'
  BY <1>1, <1>2 DEF StockInv, NothingIsOversold
<1>4. ASSUME NEW t \in Trade, Fits(t) PROVE Fits(t)'
  <2>1. Quantity[t] \in Nat /\ Uses(t) \subseteq Lot
    BY UsesLots, ConstantsTyped
  <2>2. ASSUME NEW k \in Uses(t)
        PROVE  Cardinality(Booked(k)') + Quantity[t] <= Capacity[k]
    <3>1. k \in Lot
      BY <2>1
    <3>2. Cardinality(Booked(k)) + Quantity[t] <= Capacity[k]
      BY <1>4 DEF Fits
    <3> QED  BY <1>1, <1>2, <2>1, <3>1, <3>2
  <2> QED  BY <2>2 DEF Fits, Uses
<1> QED  BY <1>1, <1>3, <1>4

LEMMA Consecution == StockInv /\ [StockNext]_stockVars => StockInv'
<1> SUFFICES ASSUME StockInv, [StockNext]_stockVars PROVE StockInv'
  OBVIOUS
<1> USE DEF StockInv, StockTypeOK, Step, RowState, Live
<1>k. /\ \A t \in Trade : FirstKey(t) \in Lot /\ SecondKey(t) \in Lot
      /\ hash \in [Lot -> Hash]
  BY ConstantsTyped DEF FirstKey, SecondKey, LockOrder, Lot
<1>1. ASSUME NEW t \in Trade, Begin(t) PROVE StockInv'
  <2>1. LocksHeld'
    BY <1>1 DEF Begin, MoveTo, LocksHeld, Secured, FirstKey, SecondKey, LockOrder
  <2>2. CountsStayGood'
    BY <1>1, SameBookings DEF Begin, MoveTo, CountsStayGood
  <2> QED  BY <1>1, <2>1, <2>2, SameBookings DEF Begin, MoveTo
<1>2. ASSUME NEW t \in Trade, LockFirst(t) PROVE StockInv'
  <2>a. /\ step[t] = "LOCKING" /\ step' = [step EXCEPT ![t] = "HALF_LOCKED"]
        /\ holder[hash[FirstKey(t)]] \in {None, t} /\ hash' = hash
        /\ holder' = [holder EXCEPT ![hash[FirstKey(t)]] = t]
        /\ hash[FirstKey(t)] \in Hash
    BY <1>2, <1>k, ConstantsTyped DEF LockFirst, Lock, MoveTo, Wanted, Grantable
  <2>b. /\ Secured(t) = {} /\ Secured(t)' = Secured(t) \cup {FirstKey(t)}
        /\ \A u \in Trade \ {t} : Secured(u)' = Secured(u)
    BY <2>a DEF Secured, FirstKey, SecondKey, LockOrder
  <2>c. \A k \in Secured(t)' : holder'[hash[k]] = t
    BY <2>a, <2>b DEF LocksHeld
  <2>d. \A h \in Hash : holder'[h] = t => \E k \in Secured(t)' : hash[k] = h
    BY <2>a, <2>b DEF LocksHeld
  <2>e. ASSUME NEW u \in Trade \ {t}
        PROVE  /\ \A k \in Secured(u) : holder'[hash[k]] = u
               /\ \A h \in Hash : holder'[h] = u => \E k \in Secured(u) : hash[k] = h
    BY <2>a, <2>e, ConstantsTyped DEF LocksHeld
  <2>1. LocksHeld'
    BY <2>a, <2>b, <2>c, <2>d, <2>e DEF LocksHeld
  <2>2. CountsStayGood'
    BY <1>2, SameBookings DEF LockFirst, Lock, MoveTo, CountsStayGood
  <2>3. StockTypeOK'
    BY <1>2, <1>k DEF LockFirst, Lock, MoveTo, Wanted
  <2> QED  BY <1>2, <2>1, <2>2, <2>3, SameBookings DEF LockFirst, Lock, MoveTo
<1>3. ASSUME NEW t \in Trade, LockSecond(t) PROVE StockInv'
  <2>a. /\ step[t] = "HALF_LOCKED" /\ step' = [step EXCEPT ![t] = "LOCKED"]
        /\ holder[hash[SecondKey(t)]] \in {None, t} /\ hash' = hash
        /\ holder' = [holder EXCEPT ![hash[SecondKey(t)]] = t]
        /\ hash[SecondKey(t)] \in Hash
    BY <1>3, <1>k, ConstantsTyped DEF LockSecond, Lock, MoveTo, Wanted, Grantable
  <2>b. /\ Secured(t) = {FirstKey(t)} /\ Secured(t)' = Secured(t) \cup {SecondKey(t)}
        /\ \A u \in Trade \ {t} : Secured(u)' = Secured(u)
    BY <2>a DEF Secured, FirstKey, SecondKey, LockOrder
  <2>c. \A k \in Secured(t)' : holder'[hash[k]] = t
    BY <2>a, <2>b DEF LocksHeld
  <2>d. \A h \in Hash : holder'[h] = t => \E k \in Secured(t)' : hash[k] = h
    BY <2>a, <2>b DEF LocksHeld
  <2>e. ASSUME NEW u \in Trade \ {t}
        PROVE  /\ \A k \in Secured(u) : holder'[hash[k]] = u
               /\ \A h \in Hash : holder'[h] = u => \E k \in Secured(u) : hash[k] = h
    BY <2>a, <2>e, ConstantsTyped DEF LocksHeld
  <2>1. LocksHeld'
    BY <2>a, <2>b, <2>c, <2>d, <2>e DEF LocksHeld
  <2>2. CountsStayGood'
    BY <1>3, SameBookings DEF LockSecond, Lock, MoveTo, CountsStayGood
  <2>3. StockTypeOK'
    BY <1>3, <1>k DEF LockSecond, Lock, MoveTo, Wanted
  <2> QED  BY <1>3, <2>1, <2>2, <2>3, SameBookings DEF LockSecond, Lock, MoveTo
<1>4. ASSUME NEW t \in Trade, Count(t) PROVE StockInv'
  <2>1. LocksHeld'
    BY <1>4 DEF Count, MoveTo, LocksHeld, Secured, FirstKey, SecondKey, LockOrder
  <2>2. CountsStayGood'
    BY <1>4, SameBookings DEF Count, MoveTo, CountsStayGood
  <2> QED  BY <1>4, <2>1, <2>2, SameBookings DEF Count, MoveTo
<1>5. ASSUME NEW t \in Trade, Rollback(t) PROVE StockInv'
  <2>1. LocksHeld'
    BY <1>5, <1>k, ConstantsTyped
       DEF Rollback, MoveTo, Unlocked, LocksHeld, Secured, FirstKey, SecondKey, LockOrder
  <2>2. CountsStayGood'
    BY <1>5, SameBookings DEF Rollback, MoveTo, CountsStayGood
  <2>3. StockTypeOK'
    BY <1>5 DEF Rollback, MoveTo, Unlocked
  <2> QED  BY <1>5, <2>1, <2>2, <2>3, SameBookings DEF Rollback, MoveTo
<1>6. ASSUME NEW t \in Trade, CommitReservation(t) PROVE StockInv'
  <2>1. /\ step[t] = "COUNTED" /\ step' = [step EXCEPT ![t] = "IDLE"]
        /\ allocation[t] = "NONE" /\ Fits(t)
        /\ allocation' = [allocation EXCEPT ![t] = "RESERVED"]
    BY <1>6 DEF CommitReservation, MoveTo, CountsStayGood
  <2>2. \A k \in Lot :
          /\ IsFiniteSet(Booked(k)')
          /\ Cardinality(Booked(k)') =
               Cardinality(Booked(k)) + (IF k \in Uses(t) THEN Quantity[t] ELSE 0)
    BY <2>1, TonnesAdded
  <2>3. NothingIsOversold'
    <3>1. ASSUME NEW k \in Lot PROVE Cardinality(Booked(k)') <= Capacity[k]
      <4>1. Cardinality(Booked(k)) \in Nat /\ Capacity[k] \in Nat /\ Quantity[t] \in Nat
        BY FS_CardinalityType, ConstantsTyped
      <4>2. CASE k \in Uses(t)
        BY <2>1, <2>2, <4>1, <4>2 DEF Fits
      <4>3. CASE k \notin Uses(t)
        BY <2>2, <4>1, <4>3 DEF NothingIsOversold
      <4> QED  BY <4>2, <4>3
    <3> QED  BY <3>1 DEF NothingIsOversold
  <2>4. CountsStayGood'
    <3>1. ASSUME NEW u \in Trade, step'[u] = "COUNTED"
          PROVE  allocation'[u] = "NONE" /\ Fits(u)'
      <4>1. u # t /\ step[u] = "COUNTED"
        BY <2>1, <3>1
      <4>2. Uses(u) \cap Uses(t) = {} /\ Uses(u) \subseteq Lot
        BY <2>1, <4>1, LotsGuarded, UsesLots
      <4>3. \A k \in Uses(u) : Cardinality(Booked(k)') = Cardinality(Booked(k))
        BY <2>2, <4>2, FS_CardinalityType
      <4>4. Fits(u)'
        BY <4>1, <4>3 DEF CountsStayGood, Fits, Uses
      <4> QED  BY <2>1, <4>1, <4>4 DEF CountsStayGood
    <3> QED  BY <3>1 DEF CountsStayGood
  <2>5. LocksHeld'
    BY <1>6, <2>1, <1>k, ConstantsTyped
       DEF CommitReservation, Unlocked, LocksHeld, Secured, FirstKey, SecondKey, LockOrder
  <2>6. StockTypeOK'
    BY <1>6, <2>1 DEF CommitReservation, Unlocked
  <2> QED  BY <2>1, <2>2, <2>3, <2>4, <2>5, <2>6
<1>7. ASSUME NEW t \in Trade, NEW to \in {"COMMITTED", "CONSUMED", "RELEASED"},
             Transition(t, {"RESERVED", "COMMITTED"}, to)
      PROVE  StockInv'
  <2>1. /\ allocation[t] \in {"RESERVED", "COMMITTED"} /\ step[t] = "IDLE"
        /\ allocation' = [allocation EXCEPT ![t] = to]
        /\ UNCHANGED <<hash, holder, step, expired>>
    BY <1>7 DEF Transition
  <2>2. \A k \in Lot : Bookers(k)' \subseteq Bookers(k)
    BY <2>1 DEF Bookers, Uses
  <2>3. LocksHeld'
    BY <2>1 DEF LocksHeld, Secured, FirstKey, SecondKey, LockOrder
  <2>4. CountsStayGood'
    BY <2>1, <2>2, FewerBookings DEF CountsStayGood
  <2>5. StockTypeOK'
    BY <2>1
  <2> QED  BY <2>1, <2>2, <2>3, <2>4, <2>5, FewerBookings
<1>8. ASSUME NEW o \in Offer, Expire(o) PROVE StockInv'
  <2>1. LocksHeld'
    BY <1>8 DEF Expire, LocksHeld, Secured, FirstKey, SecondKey, LockOrder
  <2>2. CountsStayGood'
    BY <1>8, SameBookings DEF Expire, CountsStayGood
  <2> QED  BY <1>8, <2>1, <2>2, SameBookings DEF Expire
<1>9. CASE UNCHANGED stockVars
  <2>1. LocksHeld'
    BY <1>9 DEF stockVars, LocksHeld, Secured, FirstKey, SecondKey, LockOrder
  <2>2. CountsStayGood'
    BY <1>9, SameBookings DEF stockVars, CountsStayGood
  <2> QED  BY <1>9, <2>1, <2>2, SameBookings DEF stockVars
<1> QED
  <2>1. ASSUME NEW t \in Trade, Reserve(t) PROVE StockInv'
    BY <2>1, <1>1, <1>2, <1>3, <1>4, <1>5, <1>6
       DEF Reserve, Refuse, Fail, BreakDeadlock
  <2>2. ASSUME NEW t \in Trade, Fund(t) \/ Settle(t) \/ Release(t) PROVE StockInv'
    BY <2>2, <1>7 DEF Fund, Settle, Release, Transition
  <2> QED  BY <2>1, <2>2, <1>8, <1>9, ConstantsTyped DEF StockNext

---------------------------------------------------------------------------
(* The inductive invariant, whatever trades, lots and hashes there are.    *)
THEOREM StockInvariance == StockSpec => []StockInv
BY Initially, Consecution, PTL DEF StockSpec

(* No offer and no demand is ever promised beyond its quantity, even when  *)
(* keys share a hash: the guarantee that reserveInventory is there for.    *)
THEOREM NeverOversold == StockSpec => []NothingIsOversold
<1>1. StockInv => NothingIsOversold
  BY DEF StockInv
<1> QED  BY <1>1, StockInvariance, PTL

(* Taking the demand's lock before the offer's keeps reservations from     *)
(* waiting in a circle, unless two keys share a hash.                      *)
THEOREM NeverDeadlocked == StockSpec => []NoDeadlock
<1>1. ASSUME StockInv, DistinctHashes, NEW S \in SUBSET Trade, Stuck(S), NEW t \in S
      PROVE  FALSE
  <2>1. PICK u \in Trade : u \in S /\ u = holder[Wanted(t)] /\ u # t
    BY <1>1 DEF Stuck, Waiting, Grantable
  <2>2. Waiting(t) /\ Waiting(u)
    BY <1>1, <2>1 DEF Stuck
  <2>3. t \in Trade
    OBVIOUS
  <2>4. Wanted(t) \in Hash /\ \E k \in Secured(u) : hash[k] = Wanted(t)
    BY <1>1, <2>1, <2>3, ConstantsTyped
       DEF StockInv, StockTypeOK, LocksHeld, Wanted, FirstKey, SecondKey, LockOrder, Lot
  <2>5. step[u] = "HALF_LOCKED" /\ Wanted(t) = hash[DemandOf[u]]
    BY <2>2, <2>4 DEF Waiting, Secured, FirstKey, SecondKey, LockOrder
  <2>6. step[t] = "LOCKING"
    BY <1>1, <2>2, <2>3, <2>5, ConstantsTyped
       DEF Waiting, Wanted, FirstKey, SecondKey, LockOrder, DistinctHashes, Lot
  <2>7. PICK v \in Trade : v \in S /\ v = holder[Wanted(u)] /\ v # u
    BY <1>1, <2>1 DEF Stuck, Waiting, Grantable
  <2>8. \E k \in Secured(v) : hash[k] = hash[OfferOf[u]]
    BY <1>1, <2>5, <2>7, ConstantsTyped
       DEF StockInv, StockTypeOK, LocksHeld, Wanted, SecondKey, LockOrder, Lot
  <2>9. Waiting(v)
    BY <1>1, <2>7 DEF Stuck
  <2>10. hash[DemandOf[v]] = hash[OfferOf[u]]
    BY <2>8, <2>9 DEF Waiting, Secured, FirstKey, SecondKey, LockOrder
  <2> QED  BY <1>1, <2>10, ConstantsTyped DEF DistinctHashes, Lot
<1>2. StockInv => NoDeadlock
  BY <1>1 DEF NoDeadlock
<1> QED  BY <1>2, StockInvariance, PTL

-------------------------------------------------------------------------------
(* The stock beside a trade.                                               *)

\* A behaviour of the composition is one of the trade and one of the stock.
THEOREM FulfilmentBehaves == FulfilmentSpec => Spec /\ StockSpec
<1>1. FulfilmentInit => Init /\ StockInit
  BY DEF FulfilmentInit
<1>2. [FulfilmentNext]_fulfilmentVars => [Next]_vars /\ [StockNext]_stockVars
  BY DEF FulfilmentNext, fulfilmentVars
<1> QED  BY <1>1, <1>2, PTL DEF FulfilmentSpec, Spec, StockSpec

\* Beside one another no lot is oversold, no reservations wait in a circle, the
\* brokerage's promise is kept and a disputed trade is not paid.
THEOREM FulfilmentKeepsItsPromises ==
    FulfilmentSpec => /\ [](NothingIsOversold /\ NoDeadlock)
                      /\ [](PayoutBacked /\ DisputedIsUnpaid) /\ PromiseKept
BY FulfilmentBehaves, NeverOversold, NeverDeadlocked, PayoutIsBacked, DisputeIsUnpaid, Implementation, PTL
===============================================================================
