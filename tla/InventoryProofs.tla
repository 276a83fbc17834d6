---------------------------- MODULE InventoryProofs ----------------------------
(***************************************************************************)
(* The books of the inventory balance for any orders and stock and any     *)
(* number of transactions.  InventoryRows and OrderSaga implement          *)
(* Inventory, so what is proved here holds of both.                        *)
(***************************************************************************)
EXTENDS Inventory, FiniteSetTheorems, FunctionTheorems, TLAPS

LEMMA LineUnits ==
  ASSUME InventoryAssumption, NEW o \in Orders, NEW i \in DOMAIN Lines[o]
  PROVE  /\ Lines[o][i].quantity \in Nat
         /\ IsFiniteSet(UnitsOfLine(o, i))
         /\ Cardinality(UnitsOfLine(o, i)) = Lines[o][i].quantity
<1>1. Lines[o][i].quantity \in Nat \ {0}
  BY DEF InventoryAssumption
<1>2. /\ IsFiniteSet(1 .. Lines[o][i].quantity)
      /\ Cardinality(1 .. Lines[o][i].quantity) = Lines[o][i].quantity
  <2> DEFINE q == Lines[o][i].quantity
  <2>1. 1 \in Int /\ q \in Int /\ ~ (1 > q) /\ q - 1 + 1 = q
    BY <1>1
  <2> HIDE DEF q
  <2>2. IsFiniteSet(1 .. q) /\ Cardinality(1 .. q) = q - 1 + 1
    BY <2>1, FS_Interval
  <2> QED
    BY <2>1, <2>2 DEF q
<1>3. IsFiniteSet({i}) /\ Cardinality({i}) = 1
  BY FS_Singleton
<1>4. /\ IsFiniteSet(UnitsOfLine(o, i))
      /\ Cardinality(UnitsOfLine(o, i)) = Cardinality({i}) * Cardinality(1 .. Lines[o][i].quantity)
  BY <1>2, <1>3, FS_Product DEF UnitsOfLine
<1> QED
  BY <1>1, <1>2, <1>3, <1>4

LEMMA OrderUnits ==
  ASSUME InventoryAssumption, NEW o \in Orders, NEW s
  PROVE  IsFiniteSet(UnitsOf(o, s)) /\ Demand(o, s) \in Nat
<1> DEFINE P == {UnitsOfLine(o, i) : i \in LinesOf(o, s)}
           f == [i \in LinesOf(o, s) |-> UnitsOfLine(o, i)]
<1>1. IsFiniteSet(LinesOf(o, s))
  <2>1. Len(Lines[o]) \in Nat /\ LinesOf(o, s) \subseteq 1 .. Len(Lines[o])
    BY DEF InventoryAssumption, LinesOf
  <2>2. IsFiniteSet(1 .. Len(Lines[o]))
    BY <2>1, FS_Interval
  <2> QED
    BY <2>1, <2>2, FS_Subset
<1>2. f \in Surjection(LinesOf(o, s), P)
  BY DEF Surjection
<1>3. IsFiniteSet(P)
  <2> HIDE DEF f, P
  <2> QED
    BY <1>1, <1>2, FS_Surjection
<1>4. \A U \in P : IsFiniteSet(U)
  BY LineUnits DEF LinesOf
<1>5. IsFiniteSet(UNION P)
  <2> HIDE DEF P
  <2> QED
    BY <1>3, <1>4, FS_UNION
<1> QED
  BY <1>5, FS_CardinalityType DEF UnitsOf, Demand

\* Holding for one order more takes as many units more as it asks for.
LEMMA OneOrderMore ==
  ASSUME InventoryAssumption, NEW S \in SUBSET Orders, NEW o \in Orders \ S, NEW s,
         IsFiniteSet(UnitsOfAll(S, s))
  PROVE  /\ IsFiniteSet(UnitsOfAll(S \union {o}, s))
         /\ Cardinality(UnitsOfAll(S \union {o}, s)) =
              Cardinality(UnitsOfAll(S, s)) + Demand(o, s)
<1> DEFINE U == {o} \X UnitsOf(o, s)
<1>1. IsFiniteSet(U) /\ Cardinality(U) = Demand(o, s)
  <2>1. IsFiniteSet({o}) /\ Cardinality({o}) = 1
    BY FS_Singleton
  <2>2. IsFiniteSet(U) /\ Cardinality(U) = 1 * Cardinality(UnitsOf(o, s))
    BY <2>1, OrderUnits, FS_Product
  <2> QED
    BY <2>2, OrderUnits DEF Demand
<1>2. UnitsOfAll(S \union {o}, s) = UnitsOfAll(S, s) \union U
  BY DEF UnitsOfAll
<1>3. UnitsOfAll(S, s) \cap U = {}
  BY DEF UnitsOfAll
<1>4. Cardinality(UnitsOfAll(S, s) \cap U) = 0
  BY <1>3, FS_EmptySet
<1>5. Cardinality(UnitsOfAll(S, s)) \in Nat /\ Demand(o, s) \in Nat
  BY OrderUnits, FS_CardinalityType
<1> HIDE DEF U
<1>6. /\ IsFiniteSet(UnitsOfAll(S, s) \union U)
      /\ Cardinality(UnitsOfAll(S, s) \union U) =
           Cardinality(UnitsOfAll(S, s)) + Cardinality(U) - Cardinality(UnitsOfAll(S, s) \cap U)
  BY <1>1, FS_Union
<1>7. Cardinality(UnitsOfAll(S, s) \union U) = Cardinality(UnitsOfAll(S, s)) + Demand(o, s)
  <2> DEFINE a == Cardinality(UnitsOfAll(S, s))
             d == Demand(o, s)
  <2>1. a \in Nat /\ d \in Nat /\ Cardinality(UnitsOfAll(S, s) \union U) = a + d - 0
    BY <1>1, <1>4, <1>5, <1>6
  <2> HIDE DEF a, d
  <2>2. a + d - 0 = a + d
    BY <2>1
  <2> QED
    BY <2>1, <2>2 DEF a, d
<1> QED
  BY <1>2, <1>6, <1>7
-----------------------------------------------------------------------------
IInv ==
  /\ TypeOK
  /\ \A s \in Skus : IsFiniteSet(UnitsOfAll(reservations, s))
  /\ StockConserved
  /\ ReservedIsBacked
  /\ NoOversellOfDistinctLines

\* What a reservation holds is reserved, so releasing it is never clipped.
LEMMA ReleaseIsExact ==
  ASSUME InventoryAssumption, IInv, NEW o \in reservations, NEW s \in Skus
  PROVE  Returned(o, s) = Demand(o, s)
<1>1. o \in Orders
  BY DEF IInv, TypeOK
<1>2. Demand(o, s) <= reserved[s]
  <2> DEFINE R == reservations \ {o}
  <2>1. UnitsOfAll(R, s) \subseteq UnitsOfAll(reservations, s)
    BY DEF UnitsOfAll
  <2>2. IsFiniteSet(UnitsOfAll(R, s))
    BY <2>1, FS_Subset DEF IInv
  <2>3. R \in SUBSET Orders /\ o \in Orders \ R /\ R \union {o} = reservations
    BY <1>1 DEF IInv, TypeOK
  <2>4. Cardinality(UnitsOfAll(reservations, s)) = Cardinality(UnitsOfAll(R, s)) + Demand(o, s)
    BY <2>2, <2>3, OneOrderMore
  <2>5. Cardinality(UnitsOfAll(R, s)) \in Nat /\ Demand(o, s) \in Nat
    BY <1>1, <2>2, OrderUnits, FS_CardinalityType
  <2>6. reserved[s] = Cardinality(UnitsOfAll(reservations, s))
    BY DEF IInv, ReservedIsBacked, Held
  <2> QED
    BY <2>4, <2>5, <2>6
<1>3. ASSUME NEW u \in UnitsOf(o, s)
      PROVE  u[2] <= reserved[s]
  <2>1. PICK i \in LinesOf(o, s) : u \in UnitsOfLine(o, i)
    BY DEF UnitsOf
  <2>2. i \in DOMAIN Lines[o] /\ u[2] \in 1 .. Lines[o][i].quantity
    BY <2>1 DEF LinesOf, UnitsOfLine
  <2>3. UnitsOfLine(o, i) \subseteq UnitsOf(o, s)
    BY DEF UnitsOf
  <2>4. Lines[o][i].quantity <= Demand(o, s)
    BY <1>1, <2>2, <2>3, LineUnits, OrderUnits, FS_Subset DEF Demand
  <2>5. Lines[o][i].quantity \in Nat /\ Demand(o, s) \in Nat /\ reserved[s] \in Nat
    BY <1>1, <2>2, LineUnits, OrderUnits DEF IInv, TypeOK
  <2> QED
    BY <1>2, <2>2, <2>4, <2>5
<1>4. {u \in UnitsOf(o, s) : u[2] <= reserved[s]} = UnitsOf(o, s)
  BY <1>3
<1> QED
  BY <1>4 DEF Returned, Demand

\* Of a SKU on one line only, an order that is not refused asks for no more
\* than there is.
LEMMA AcceptedFits ==
  ASSUME InventoryAssumption, IInv, NEW o \in Orders, ~ Refused(o),
         NEW s \in Skus, Distinct(s)
  PROVE  Demand(o, s) <= available[s]
<1>1. available[s] \in Int /\ available[s] >= 0
  BY DEF IInv, TypeOK, NoOversellOfDistinctLines
<1>2. CASE LinesOf(o, s) = {}
  <2>1. UnitsOf(o, s) = {}
    BY <1>2 DEF UnitsOf
  <2> QED
    BY <1>1, <2>1, FS_EmptySet DEF Demand
<1>3. ASSUME NEW i \in LinesOf(o, s)
      PROVE  Demand(o, s) <= available[s]
  <2>1. i \in DOMAIN Lines[o] /\ Lines[o][i].sku = s
    BY DEF LinesOf
  <2>2. LinesOf(o, s) = {i}
    BY DEF LinesOf, Distinct
  <2>3. UnitsOf(o, s) = UnitsOfLine(o, i)
    BY <2>2 DEF UnitsOf
  <2>4. Demand(o, s) = Lines[o][i].quantity
    BY <2>1, <2>3, LineUnits DEF Demand
  <2>5. ~ (available[s] < Lines[o][i].quantity)
    BY <2>1 DEF Refused, Unavailable
  <2> QED
    BY <1>1, <2>1, <2>4, <2>5, LineUnits
<1> QED
  BY <1>2, <1>3

\* So the stock can serve it together with all that hold stock already,
LEMMA AcceptedTogether ==
  ASSUME InventoryAssumption, IInv, NEW o \in Orders \ reservations, ~ Refused(o),
         NEW s \in Skus, Distinct(s)
  PROVE  Cardinality(UnitsOfAll(reservations \union {o}, s)) <= Seed[s]
<1>1. Demand(o, s) <= available[s]
  BY AcceptedFits
<1>2. Cardinality(UnitsOfAll(reservations \union {o}, s)) = Held(s) + Demand(o, s)
  BY OneOrderMore DEF IInv, TypeOK, Held
<1>3. available[s] + reserved[s] = Seed[s] /\ reserved[s] = Held(s)
  BY DEF IInv, StockConserved, ReservedIsBacked
<1>4. /\ available[s] \in Int /\ reserved[s] \in Nat /\ Demand(o, s) \in Nat
  BY OrderUnits DEF IInv, TypeOK
<1> QED
  BY <1>1, <1>2, <1>3, <1>4

\* and cannot serve an order that is refused for want of some SKU.
LEMMA RefusedTogether ==
  ASSUME InventoryAssumption, IInv, NEW o \in Orders \ reservations,
         NEW i \in DOMAIN Lines[o], NEW s \in Skus, Lines[o][i].sku = s,
         available[s] < Lines[o][i].quantity
  PROVE  ~ (Cardinality(UnitsOfAll(reservations \union {o}, s)) <= Seed[s])
<1>1. Lines[o][i].quantity <= Demand(o, s)
  <2>1. UnitsOfLine(o, i) \subseteq UnitsOf(o, s)
    BY DEF UnitsOf, LinesOf
  <2> QED
    BY <2>1, LineUnits, OrderUnits, FS_Subset DEF Demand
<1>2. Cardinality(UnitsOfAll(reservations \union {o}, s)) = Held(s) + Demand(o, s)
  BY OneOrderMore DEF IInv, TypeOK, Held
<1>3. available[s] + reserved[s] = Seed[s] /\ reserved[s] = Held(s)
  BY DEF IInv, StockConserved, ReservedIsBacked
<1>4. /\ available[s] \in Int /\ reserved[s] \in Nat /\ Demand(o, s) \in Nat
      /\ Lines[o][i].quantity \in Nat
  BY OrderUnits, LineUnits DEF IInv, TypeOK
<1> QED
  BY <1>1, <1>2, <1>3, <1>4

LEMMA TakeKeepsIInv ==
  ASSUME InventoryAssumption, IInv, NEW t \in Txns, CommitReserve(t)
  PROVE  IInv'
<1> DEFINE o == tx[t].order
<1>1. /\ o \in Orders /\ o \notin reservations /\ ~ Refused(o)
      /\ tx' = [tx EXCEPT ![t] = NoTx]
      /\ available' = [s \in Skus |-> available[s] - Demand(o, s)]
      /\ reserved' = [s \in Skus |-> reserved[s] + Demand(o, s)]
      /\ reservations' = reservations \union {o}
  BY DEF CommitReserve, Closed, TakeStock, IInv, TypeOK, OpenTx
<1> HIDE DEF o
<1>2. \A s \in Skus :
        /\ Demand(o, s) \in Nat
        /\ available[s] \in Int /\ reserved[s] \in Nat
        /\ available'[s] = available[s] - Demand(o, s)
        /\ reserved'[s] = reserved[s] + Demand(o, s)
  BY <1>1, OrderUnits DEF IInv, TypeOK
<1>3. TypeOK'
  BY <1>1, <1>2 DEF IInv, TypeOK
<1>4. ASSUME NEW s \in Skus
      PROVE  /\ IsFiniteSet(UnitsOfAll(reservations', s))
             /\ Cardinality(UnitsOfAll(reservations', s)) =
                  Cardinality(UnitsOfAll(reservations, s)) + Demand(o, s)
  BY <1>1, OneOrderMore DEF IInv, TypeOK
<1>5. StockConserved'
  BY <1>2 DEF IInv, StockConserved, InventoryAssumption
<1>6. ReservedIsBacked'
  BY <1>2, <1>4 DEF IInv, ReservedIsBacked, Held
<1>7. NoOversellOfDistinctLines'
  <2>1. ASSUME NEW s \in Skus, Distinct(s)
        PROVE  available'[s] >= 0
    BY <1>1, <1>2, <2>1, AcceptedFits
  <2> QED
    BY <2>1 DEF NoOversellOfDistinctLines, Distinct
<1>8. \A s \in Skus : IsFiniteSet(UnitsOfAll(reservations, s))'
  BY <1>4 DEF UnitsOfAll, UnitsOf, UnitsOfLine, LinesOf
<1> QED
  BY <1>3, <1>5, <1>6, <1>7, <1>8 DEF IInv

LEMMA ReturnKeepsIInv ==
  ASSUME InventoryAssumption, IInv, NEW t \in Txns, CommitRelease(t)
  PROVE  IInv'
<1> DEFINE o == tx[t].order
           R == reservations \ {o}
<1>1. /\ o \in Orders /\ o \in reservations
      /\ tx' = [tx EXCEPT ![t] = NoTx]
      /\ available' = [s \in Skus |-> available[s] + Returned(o, s)]
      /\ reserved' = [s \in Skus |-> reserved[s] - Returned(o, s)]
      /\ reservations' = R
  BY DEF CommitRelease, Closed, ReturnStock, IInv, TypeOK, OpenTx
<1> HIDE DEF o
<1>2. \A s \in Skus :
        /\ Demand(o, s) \in Nat
        /\ available[s] \in Int /\ reserved[s] \in Nat
        /\ available'[s] = available[s] + Demand(o, s)
        /\ reserved'[s] = reserved[s] - Demand(o, s)
  BY <1>1, OrderUnits, ReleaseIsExact DEF IInv, TypeOK
<1>3. ASSUME NEW s \in Skus
      PROVE  /\ IsFiniteSet(UnitsOfAll(R, s))
             /\ Cardinality(UnitsOfAll(R, s)) = reserved'[s]
             /\ Cardinality(UnitsOfAll(R, s)) \in Nat
  <2>1. UnitsOfAll(R, s) \subseteq UnitsOfAll(reservations, s)
    BY DEF UnitsOfAll
  <2>2. IsFiniteSet(UnitsOfAll(R, s))
    BY <2>1, FS_Subset DEF IInv
  <2>3. R \in SUBSET Orders /\ o \in Orders \ R /\ R \union {o} = reservations
    BY <1>1 DEF IInv, TypeOK
  <2>4. Cardinality(UnitsOfAll(reservations, s)) = Cardinality(UnitsOfAll(R, s)) + Demand(o, s)
    BY <2>2, <2>3, OneOrderMore
  <2>5. Cardinality(UnitsOfAll(R, s)) \in Nat
    BY <2>2, FS_CardinalityType
  <2>6. reserved[s] = Cardinality(UnitsOfAll(reservations, s))
    BY DEF IInv, ReservedIsBacked, Held
  <2> QED
    BY <1>2, <2>2, <2>4, <2>5, <2>6
<1> HIDE DEF R
<1>4. TypeOK'
  <2>1. reserved' \in [Skus -> Nat]
    BY <1>1, <1>3
  <2>2. available' \in [Skus -> Int]
    <3>1. \A s \in Skus : available[s] + Returned(o, s) \in Int
      BY <1>1, <1>2, ReleaseIsExact
    <3> QED
      BY <1>1, <3>1
  <2> QED
    BY <1>1, <2>1, <2>2 DEF IInv, TypeOK, R
<1>5. StockConserved'
  BY <1>2 DEF IInv, StockConserved, InventoryAssumption
<1>6. ReservedIsBacked'
  BY <1>1, <1>3 DEF ReservedIsBacked, Held
<1>7. NoOversellOfDistinctLines'
  BY <1>2 DEF IInv, NoOversellOfDistinctLines, Distinct
<1>8. \A s \in Skus : IsFiniteSet(UnitsOfAll(reservations, s))'
  BY <1>1, <1>3 DEF UnitsOfAll, UnitsOf, UnitsOfLine, LinesOf
<1> QED
  BY <1>4, <1>5, <1>6, <1>7, <1>8 DEF IInv

LEMMA IInvStep ==
  ASSUME InventoryAssumption, IInv, [Next]_vars
  PROVE  IInv'
<1>1. ASSUME UNCHANGED stockVars, tx' \in [Txns -> OpenTx \union {NoTx}]
      PROVE  IInv'
  BY <1>1 DEF IInv, TypeOK, StockConserved, ReservedIsBacked, Held, UnitsOfAll, UnitsOf,
              UnitsOfLine, LinesOf, NoOversellOfDistinctLines, Distinct, stockVars
<1>2. CASE UNCHANGED vars
  BY <1>1, <1>2 DEF IInv, TypeOK, vars
<1>3. ASSUME NEW t \in Txns, NEW o \in Orders, BeginReserve(t, o) \/ BeginRelease(t, o)
      PROVE  IInv'
  BY <1>1, <1>3 DEF IInv, TypeOK, BeginReserve, BeginRelease, Open, OpenTx
<1>4. ASSUME NEW t \in Txns, RefuseReserve(t) \/ ConflictReserve(t) \/ ConflictRelease(t)
      PROVE  IInv'
  BY <1>1, <1>4 DEF IInv, TypeOK, RefuseReserve, ConflictReserve, ConflictRelease, Closed
<1>5. ASSUME NEW T \in SUBSET Txns, Rollback(T)
      PROVE  IInv'
  BY <1>1, <1>5 DEF IInv, TypeOK, Rollback
<1> QED
  BY <1>2, <1>3, <1>4, <1>5, TakeKeepsIInv, ReturnKeepsIInv DEF Next

LEMMA Invariance ==
  ASSUME InventoryAssumption
  PROVE  Spec => []IInv
<1>1. Init => IInv
  <2> SUFFICES ASSUME Init
               PROVE  IInv
    OBVIOUS
  <2>1. TypeOK
    BY DEF Init, TypeOK, InventoryAssumption
  <2>2. \A s \in Skus : UnitsOfAll(reservations, s) = {}
    BY DEF Init, UnitsOfAll
  <2>3. StockConserved /\ NoOversellOfDistinctLines
    BY DEF Init, InventoryAssumption, StockConserved, NoOversellOfDistinctLines
  <2>4. ReservedIsBacked
    BY <2>2, FS_EmptySet DEF Init, ReservedIsBacked, Held
  <2> QED
    BY <2>1, <2>2, <2>3, <2>4, FS_EmptySet DEF IInv
<1> QED
  BY <1>1, IInvStep, PTL DEF Spec

\* In particular no more is ever given back than was reserved.
THEOREM TypeCorrect ==
  ASSUME InventoryAssumption
  PROVE  Spec => []TypeOK
BY Invariance, PTL DEF IInv

\* Stock moves between available and reserved and is never created or lost.
THEOREM StockIsConserved ==
  ASSUME InventoryAssumption
  PROVE  Spec => []StockConserved
BY Invariance, PTL DEF IInv

\* The reserved units are those of the orders that have a reservation row.
THEOREM ReservationsBackStock ==
  ASSUME InventoryAssumption
  PROVE  Spec => []ReservedIsBacked
BY Invariance, PTL DEF IInv

\* A SKU that no order names twice is never promised beyond its stock.
THEOREM DistinctLinesNeverOversell ==
  ASSUME InventoryAssumption
  PROVE  Spec => []NoOversellOfDistinctLines
BY Invariance, PTL DEF IInv
===============================================================================
