-------------------------- MODULE InventoryRowsProofs --------------------------
(***************************************************************************)
(* The stock transactions for any orders, stock, number of workers and     *)
(* transactions, and any order in which PostgreSQL locks the rows: the     *)
(* statements of InventoryRows take effect as the steps of Inventory, and  *)
(* what InventoryProofs proves of the books therefore holds here.          *)
(***************************************************************************)
EXTENDS InventoryRows, Sequences, FiniteSetTheorems, TLAPS

IP == INSTANCE InventoryProofs
-----------------------------------------------------------------------------
(* I and IP are two instances of the same definitions *)

LEMMA SameCounts ==
  ASSUME NEW S
  PROVE  /\ I!Cardinality(S) = Cardinality(S) /\ IP!Cardinality(S) = Cardinality(S)
         /\ IP!IsFiniteSet(S) <=> IsFiniteSet(S)
BY DEF I!Cardinality, IP!Cardinality, Cardinality, IP!IsFiniteSet, IsFiniteSet

LEMMA SameUnits ==
  ASSUME NEW o, NEW s
  PROVE  /\ I!UnitsOf(o, s) = IP!UnitsOf(o, s)
         /\ I!Demand(o, s) = IP!Demand(o, s)
         /\ I!Returned(o, s) = IP!Returned(o, s)
<1>1. I!UnitsOf(o, s) = IP!UnitsOf(o, s)
  BY DEF I!UnitsOf, IP!UnitsOf, I!UnitsOfLine, IP!UnitsOfLine, I!LinesOf, IP!LinesOf
<1> QED
  BY <1>1, SameCounts DEF I!Demand, IP!Demand, I!Returned, IP!Returned

LEMMA SameAssumption == IP!InventoryAssumption
BY RowsAssumption DEF I!InventoryAssumption, IP!InventoryAssumption, I!OpenTx, IP!OpenTx
-----------------------------------------------------------------------------

Types ==
  /\ available \in [Skus -> Int]
  /\ reserved \in [Skus -> Int]
  /\ owner \in [Skus -> Txns \union {None}]
  /\ tx \in [Txns -> I!OpenTx \union {NoTx}]
  /\ at \in [Txns -> {"idle", "locking", "updating"}]
  /\ \A t \in Txns : at[t] = "idle" <=> tx[t] = NoTx
  /\ next \in [Txns -> Skus \union {None}]
  /\ seen \in [Txns -> [Skus -> Int]]
  /\ line \in [Txns -> Nat]
  /\ moved \in [Txns -> [Skus -> Int]]

\* A scan that has come to its end has locked every row of the order.
ScanIsComplete ==
  \A t \in Txns :
    at[t] = "updating" \/ (at[t] = "locking" /\ next[t] = None) => Unlocked(t) = {}

\* Only rows that are locked are updated, and only after the scan.
MovedIsLocked ==
  \A t \in Txns : \A s \in Skus :
    moved[t][s] # 0 => at[t] = "updating" /\ owner[s] = t

\* reserve() updates only what passed its checks.
UpdatesAreChecked ==
  \A t \in Txns : at[t] = "updating" /\ tx[t].op = "reserve" => ~ Refused(t)

\* The units of SKU s that the updates of transaction t have moved so far.
Applied(t, s) ==
  {u \in I!UnitsOf(tx[t].order, s) :
     u[1] < line[t] /\ (tx[t].op # "reserve" => u[2] <= seen[t][s])}

\* The updates come line by line, and none is lost or made twice.
MovedIsCounted ==
  \A t \in Txns :
    /\ at[t] # "updating" => line[t] = 1
    /\ tx[t] # NoTx =>
         /\ line[t] \in 1 .. Len(LinesIn(t)) + 1
         /\ \A s \in Skus :
              moved[t][s] = IF tx[t].op = "reserve" THEN Cardinality(Applied(t, s))
                                                    ELSE 0 - Cardinality(Applied(t, s))

Protocol ==
  /\ LockedIsCurrent
  /\ ScanIsComplete
  /\ MovedIsLocked
  /\ UpdatesAreChecked
  /\ MovedIsCounted

IInv == Types /\ Protocol

\* The lines of an open transaction's order have quantities.
LEMMA Quantities ==
  ASSUME Types, NEW t \in Txns, tx[t] # NoTx, NEW i \in DOMAIN LinesIn(t)
  PROVE  LinesIn(t)[i].quantity \in Nat \ {0}
BY RowsAssumption DEF I!InventoryAssumption, Types, I!OpenTx, LinesIn

LEMMA UnitsType ==
  ASSUME Types, NEW t \in Txns, tx[t] # NoTx, NEW i \in DOMAIN LinesIn(t),
         LinesIn(t)[i].sku \in Skus
  PROVE  /\ Units(t, LinesIn(t)[i]) \in Int
         /\ tx[t].op # "reserve" => Units(t, LinesIn(t)[i]) <= 0
         /\ tx[t].op = "reserve" => Units(t, LinesIn(t)[i]) = LinesIn(t)[i].quantity
<1>1. seen[t][LinesIn(t)[i].sku] \in Int
  BY DEF Types
<1> QED
  BY <1>1, Quantities DEF Units

\* Ending transactions keeps the types.
LEMMA ClosedTypes ==
  ASSUME Types, NEW T \in SUBSET Txns, Closed(T),
         available' \in [Skus -> Int], reserved' \in [Skus -> Int]
  PROVE  Types'
BY DEF Types, Closed, NoUnits

\* Every step keeps the types.
LEMMA TypesStep == Types /\ [Next]_vars => Types'
<1> SUFFICES ASSUME Types, [Next]_vars
             PROVE  Types'
  OBVIOUS
<1>1. CASE UNCHANGED vars
  BY <1>1 DEF vars, stockVars, txVars, Types
<1>2. ASSUME NEW w \in Workers, Count(w) \/ CreateMany(w)
      PROVE  Types'
  BY <1>2 DEF Count, CreateMany, stockVars, txVars, Types
<1>3. ASSUME NEW w \in Workers, Crash(w)
      PROVE  Types'
  BY <1>3, ClosedTypes DEF Crash, stockVars, Types
<1>4. ASSUME NEW t \in Txns, NEW o \in Orders, BeginReserve(t, o) \/ BeginRelease(t, o)
      PROVE  Types'
  <2>1. /\ \E x \in I!OpenTx : tx' = [tx EXCEPT ![t] = x]
        /\ UNCHANGED <<available, reserved>>
    BY <1>4 DEF BeginReserve, BeginRelease, I!BeginReserve, I!BeginRelease, I!Open, I!OpenTx,
                I!stockVars
  <2>2. /\ at' = [at EXCEPT ![t] = "locking"]
        /\ \E s \in Skus \union {None} : next' = [next EXCEPT ![t] = s]
        /\ UNCHANGED <<owner, seen, line, moved>>
    BY <1>4 DEF BeginReserve, BeginRelease, Open, NextOf, Wanted
  <2> QED
    BY <2>1, <2>2, RowsAssumption DEF Types, I!InventoryAssumption
<1>5. ASSUME NEW t \in Txns, LockRow(t)
      PROVE  Types'
  <2>1. PICK s \in Skus : s = next[t]
    BY <1>5 DEF LockRow, Types
  <2>2. Column(t)[s] \in Int
    BY DEF Column, Types
  <2>3. \E r \in Skus \union {None} : next' = [next EXCEPT ![t] = r]
    BY <1>5 DEF LockRow, NextOf, Unlocked, Wanted
  <2> QED
    BY <1>5, <2>1, <2>2, <2>3 DEF LockRow, Types, stockVars
<1>6. ASSUME NEW t \in Txns, Refuse(t) \/ Conflict(t) \/ DeadlockDetected(t) \/ Abort(t)
      PROVE  Types'
  BY <1>6, ClosedTypes DEF Refuse, Conflict, DeadlockDetected, Abort, stockVars, Types
<1>7. ASSUME NEW t \in Txns, StartUpdates(t)
      PROVE  Types'
  BY <1>7 DEF StartUpdates, Locked, stockVars, Types
<1>8. ASSUME NEW t \in Txns, UpdateLine(t)
      PROVE  Types'
  <2>1. tx[t] # NoTx /\ line[t] \in DOMAIN LinesIn(t)
    BY <1>8 DEF UpdateLine, Types
  <2>2. CASE LinesIn(t)[line[t]].sku \in Skus
    BY <1>8, <2>1, <2>2, UnitsType DEF UpdateLine, Types, stockVars
  <2>3. CASE LinesIn(t)[line[t]].sku \notin Skus
    BY <1>8, <2>3 DEF UpdateLine, Types, stockVars
  <2> QED
    BY <2>2, <2>3
<1>9. ASSUME NEW t \in Txns, CommitReserve(t) \/ CommitRelease(t)
      PROVE  Types'
  BY <1>9, ClosedTypes DEF CommitReserve, CommitRelease, Commit, Types
<1> QED
  BY <1>1, <1>2, <1>3, <1>4, <1>5, <1>6, <1>7, <1>8, <1>9 DEF Next, Step

-----------------------------------------------------------------------------
(* The units that are moved *)

\* An order's lines are numbered from 1.
LEMMA LinesOfAnOrder ==
  ASSUME NEW o \in Orders
  PROVE  Len(Lines[o]) \in Nat /\ DOMAIN Lines[o] = 1 .. Len(Lines[o])
BY RowsAssumption DEF I!InventoryAssumption

LEMMA UnitHasLine ==
  ASSUME NEW o \in Orders, NEW s, NEW u \in I!UnitsOf(o, s)
  PROVE  /\ u[1] \in Nat /\ u[1] \in DOMAIN Lines[o] /\ Lines[o][u[1]].sku = s
         /\ 1 <= u[1] /\ u[1] <= Len(Lines[o])
BY LinesOfAnOrder DEF I!UnitsOf, I!UnitsOfLine, I!LinesOf

LEMMA OpenOrder ==
  ASSUME Types, NEW t \in Txns, tx[t] # NoTx
  PROVE  /\ tx[t].order \in Orders
         /\ tx[t].op \in {"reserve", "release"}
         /\ LinesIn(t) = Lines[tx[t].order]
BY DEF Types, I!OpenTx, LinesIn

LEMMA AppliedIsFinite ==
  ASSUME Types, NEW t \in Txns, tx[t] # NoTx, NEW s
  PROVE  IsFiniteSet(Applied(t, s)) /\ Cardinality(Applied(t, s)) \in Nat
<1>1. IsFiniteSet(I!UnitsOf(tx[t].order, s))
  BY OpenOrder, SameAssumption, SameUnits, SameCounts, IP!OrderUnits
<1>2. Applied(t, s) \subseteq I!UnitsOf(tx[t].order, s)
  BY DEF Applied
<1>3. IsFiniteSet(Applied(t, s))
  BY <1>1, <1>2, FS_Subset
<1> QED
  BY <1>3, FS_CardinalityType

\* The update of a line moves as many units as the clipped line has.
LEMMA LineIsCounted ==
  ASSUME Types, NEW t \in Txns, tx[t] # NoTx, NEW i \in DOMAIN LinesIn(t),
         LinesIn(t)[i].sku \in Skus
  PROVE  LET l == LinesIn(t)[i]
             N == {u \in I!UnitsOfLine(tx[t].order, i) :
                     tx[t].op # "reserve" => u[2] <= seen[t][l.sku]}
         IN  /\ IsFiniteSet(N)
             /\ Cardinality(N) \in Nat
             /\ Units(t, l) = IF tx[t].op = "reserve" THEN Cardinality(N)
                                                     ELSE 0 - Cardinality(N)
<1> DEFINE l == LinesIn(t)[i]
           q == l.quantity
           r == seen[t][l.sku]
           N == {u \in I!UnitsOfLine(tx[t].order, i) : tx[t].op # "reserve" => u[2] <= r}
           m == IF tx[t].op = "reserve" \/ q < r THEN q ELSE IF r > 0 THEN r ELSE 0
<1>1. q \in Nat /\ r \in Int
  BY Quantities DEF Types
<1>2. m \in Nat /\ Units(t, l) = IF tx[t].op = "reserve" THEN m ELSE 0 - m
  BY <1>1 DEF Units
<1>3. N = {i} \X (1 .. m)
  <2>1. I!UnitsOfLine(tx[t].order, i) = {i} \X (1 .. q)
    BY OpenOrder DEF I!UnitsOfLine
  <2>2. \A n \in Nat : n \in 1 .. m <=> n \in 1 .. q /\ (tx[t].op # "reserve" => n <= r)
    BY <1>1
  <2>3. 1 .. m \subseteq Nat /\ 1 .. q \subseteq Nat
    BY <1>1, <1>2
  <2> HIDE DEF q, r, m
  <2> QED
    BY <2>1, <2>2, <2>3
<1> HIDE DEF m, N
<1>4. IsFiniteSet(1 .. m) /\ Cardinality(1 .. m) = m
  <2>1. 1 \in Int /\ m \in Int /\ (1 > m => m = 0) /\ m - 1 + 1 = m
    BY <1>2
  <2> QED
    BY <2>1, FS_Interval
<1>5. IsFiniteSet({i}) /\ Cardinality({i}) = 1
  BY FS_Singleton
<1>6. IsFiniteSet(N) /\ Cardinality(N) = Cardinality({i}) * Cardinality(1 .. m)
  BY <1>3, <1>4, <1>5, FS_Product
<1>7. Cardinality(N) = m
  BY <1>2, <1>4, <1>5, <1>6
<1> QED
  BY <1>2, <1>6, <1>7 DEF N

-----------------------------------------------------------------------------
(* Every step keeps the protocol *)

\* Transactions that end change nothing for the others, if the rows they
\* commit are rows they had locked.
LEMMA ClosedKeepsProtocol ==
  ASSUME Types, Protocol, NEW T \in SUBSET Txns, Closed(T),
         \A s \in Skus : owner[s] \notin T =>
           available'[s] = available[s] /\ reserved'[s] = reserved[s]
  PROVE  Protocol'
<1>1. \A t \in Txns \ T :
        /\ tx'[t] = tx[t] /\ at'[t] = at[t] /\ next'[t] = next[t]
        /\ seen'[t] = seen[t] /\ line'[t] = line[t] /\ moved'[t] = moved[t]
  BY DEF Closed
<1>2. \A t \in T : at'[t] = "idle" /\ \A s \in Skus : moved'[t][s] = 0
  BY DEF Closed, NoUnits
<1>3. \A s \in Skus : \A t \in Txns \ T : owner'[s] = t <=> owner[s] = t
  BY RowsAssumption DEF Closed, Types
<1>4. \A s \in Skus : owner'[s] # None => owner'[s] = owner[s] /\ owner[s] \in Txns \ T
  BY DEF Closed, Types
<1>5. LockedIsCurrent'
  BY <1>1, <1>4 DEF Protocol, LockedIsCurrent, Column
<1>6. ScanIsComplete'
  <2>1. \A t \in Txns \ T : Unlocked(t)' = Unlocked(t)
    BY <1>1, <1>3 DEF Unlocked, Wanted, LinesIn
  <2> QED
    BY <1>1, <1>2, <2>1 DEF Protocol, ScanIsComplete
<1>7. MovedIsLocked'
  BY <1>1, <1>2, <1>3 DEF Protocol, MovedIsLocked
<1>8. UpdatesAreChecked'
  BY <1>1, <1>2 DEF Protocol, UpdatesAreChecked, Refused, Unavailable, LinesIn
<1>9. MovedIsCounted'
  <2>1. \A t \in T : tx'[t] = NoTx /\ line'[t] = 1
    BY DEF Closed
  <2>2. \A t \in Txns \ T : \A s \in Skus : Applied(t, s)' = Applied(t, s)
    BY <1>1 DEF Applied, I!UnitsOf, I!UnitsOfLine, I!LinesOf
  <2> QED
    BY <1>1, <2>1, <2>2 DEF Protocol, MovedIsCounted, LinesIn
<1> QED
  BY <1>5, <1>6, <1>7, <1>8, <1>9 DEF Protocol

\* A transaction that starts has locked and moved nothing.
LEMMA BeginKeepsProtocol ==
  ASSUME Types, Protocol, NEW t \in Txns, NEW o \in Orders,
         BeginReserve(t, o) \/ BeginRelease(t, o)
  PROVE  Protocol'
<1>1. /\ tx[t] = NoTx
      /\ \E x \in I!OpenTx : tx' = [tx EXCEPT ![t] = x]
      /\ UNCHANGED stockVars
  BY DEF BeginReserve, BeginRelease, I!BeginReserve, I!BeginRelease, I!Open, I!OpenTx,
         I!stockVars, stockVars
<1>2. /\ at' = [at EXCEPT ![t] = "locking"]
      /\ \E s \in NextOf(Wanted(t)') : next' = [next EXCEPT ![t] = s]
      /\ UNCHANGED <<owner, seen, line, moved>>
  BY DEF BeginReserve, BeginRelease, Open
<1>3. \A u \in Txns \ {t} : tx'[u] = tx[u] /\ at'[u] = at[u] /\ next'[u] = next[u]
  BY <1>1, <1>2 DEF Types
<1>4. /\ \A s \in Skus : owner[s] # t /\ moved[t][s] = 0
      /\ at'[t] = "locking"
  BY <1>1, <1>2, RowsAssumption DEF Types, Protocol, LockedIsCurrent, MovedIsLocked
<1>5. LockedIsCurrent'
  BY <1>1, <1>2, <1>3, <1>4 DEF Types, Protocol, LockedIsCurrent, Column, stockVars
<1>6. ScanIsComplete'
  <2>1. next'[t] = None => Wanted(t)' = {}
    BY <1>2, RowsAssumption DEF NextOf, Types, Wanted
  <2> QED
    BY <1>2, <1>3, <1>4, <2>1 DEF Protocol, ScanIsComplete, Unlocked, Wanted, LinesIn
<1>7. MovedIsLocked'
  BY <1>2, <1>3, <1>4 DEF Protocol, MovedIsLocked
<1>8. UpdatesAreChecked'
  BY <1>2, <1>3, <1>4 DEF Protocol, UpdatesAreChecked, Refused, Unavailable, LinesIn
<1>9. MovedIsCounted'
  <2>1. moved' = moved /\ line' = line /\ at[t] = "idle" /\ line[t] = 1
    BY <1>1, <1>2 DEF Types, Protocol, MovedIsCounted
  <2>2. \A u \in Txns \ {t} : \A s \in Skus : Applied(u, s)' = Applied(u, s)
    BY <1>2, <1>3 DEF Applied, I!UnitsOf, I!UnitsOfLine, I!LinesOf
  <2>3. PICK o2 \in Orders : tx'[t].order = o2 /\ LinesIn(t)' = Lines[o2]
    BY <1>1 DEF Types, I!OpenTx, LinesIn
  <2>4. \A s \in Skus : Applied(t, s)' = {}
    <3>1. \A s \in Skus : \A u \in I!UnitsOf(o2, s) : ~ (u[1] < 1)
      BY UnitHasLine
    <3> QED
      BY <2>1, <2>3, <3>1 DEF Applied, I!UnitsOf, I!UnitsOfLine, I!LinesOf
  <2>5. line'[t] \in 1 .. Len(LinesIn(t)') + 1
    BY <2>1, <2>3, LinesOfAnOrder
  <2>6. \A s \in Skus : moved'[t][s] = 0 /\ Cardinality(Applied(t, s)') = 0
    BY <1>4, <2>1, <2>4, FS_EmptySet
  <2>7. \A u \in Txns \ {t} : LinesIn(u)' = LinesIn(u)
    BY <1>3 DEF LinesIn
  <2> QED
    BY <1>3, <2>1, <2>2, <2>5, <2>6, <2>7 DEF Protocol, MovedIsCounted
<1> QED
  BY <1>5, <1>6, <1>7, <1>8, <1>9 DEF Protocol

\* A row is locked when nobody holds it, and its column is read then.
LEMMA LockKeepsProtocol ==
  ASSUME Types, Protocol, NEW t \in Txns, LockRow(t)
  PROVE  Protocol'
<1> DEFINE s == next[t]
<1>1. s \in Skus /\ owner[s] = None /\ at[t] = "locking" /\ tx[t] # NoTx
  BY DEF LockRow, Types
<1>2. /\ owner' = [owner EXCEPT ![s] = t]
      /\ seen' = [seen EXCEPT ![t][s] = Column(t)[s]]
      /\ \E r \in NextOf(Unlocked(t) \ {s}) : next' = [next EXCEPT ![t] = r]
      /\ UNCHANGED <<available, reserved, reservations, tx, at, line, moved>>
  BY DEF LockRow, stockVars
<1>3. \A u \in Txns \ {t} : seen'[u] = seen[u] /\ next'[u] = next[u]
  BY <1>2 DEF Types
<1>4. /\ seen'[t][s] = Column(t)[s]
      /\ \A r \in Skus \ {s} : seen'[t][r] = seen[t][r] /\ owner'[r] = owner[r]
      /\ owner'[s] = t
  BY <1>1, <1>2 DEF Types
<1>5. LockedIsCurrent'
  BY <1>1, <1>2, <1>3, <1>4 DEF Types, Protocol, LockedIsCurrent, Column
<1>6. ScanIsComplete'
  <2>1. next'[t] = None => Unlocked(t) \subseteq {s}
    BY <1>2, RowsAssumption DEF NextOf, Types, Unlocked, Wanted
  <2>2. Unlocked(t)' = Unlocked(t) \ {s}
    BY <1>1, <1>2, <1>4 DEF Unlocked, Wanted, LinesIn
  <2>3. \A u \in Txns \ {t} : Unlocked(u) = {} => Unlocked(u)' = {}
    BY <1>1, <1>2, <1>4, RowsAssumption DEF Unlocked, Wanted, LinesIn
  <2> QED
    BY <1>1, <1>2, <1>3, <2>1, <2>2, <2>3 DEF Protocol, ScanIsComplete
<1>7. MovedIsLocked'
  BY <1>1, <1>2, <1>4, RowsAssumption DEF Protocol, MovedIsLocked
<1>8. UpdatesAreChecked'
  BY <1>1, <1>2, <1>3 DEF Protocol, UpdatesAreChecked, Refused, Unavailable, LinesIn
<1>9. MovedIsCounted'
  <2>1. \A u \in Txns \ {t} : \A r \in Skus : Applied(u, r)' = Applied(u, r)
    BY <1>2, <1>3 DEF Applied, I!UnitsOf, I!UnitsOfLine, I!LinesOf
  <2>2. line[t] = 1
    BY <1>1 DEF Protocol, MovedIsCounted
  <2>3. \A r \in Skus : Applied(t, r) = {} /\ Applied(t, r)' = {}
    <3>1. \A r \in Skus : \A u \in I!UnitsOf(tx[t].order, r) : ~ (u[1] < 1)
      BY <1>1, OpenOrder, UnitHasLine
    <3> QED
      BY <1>2, <2>2, <3>1 DEF Applied, I!UnitsOf, I!UnitsOfLine, I!LinesOf
  <2>4. \A u \in Txns : \A r \in Skus : Applied(u, r)' = Applied(u, r)
    BY <2>1, <2>3
  <2> QED
    BY <1>2, <2>4 DEF Protocol, MovedIsCounted, LinesIn
<1> QED
  BY <1>5, <1>6, <1>7, <1>8, <1>9 DEF Protocol

\* Updates start when the scan is complete and the checks are passed.
LEMMA StartKeepsProtocol ==
  ASSUME Types, Protocol, NEW t \in Txns, StartUpdates(t)
  PROVE  Protocol'
<1>1. /\ at[t] = "locking" /\ next[t] = None
      /\ tx[t].op = "reserve" => ~ Refused(t)
      /\ at' = [at EXCEPT ![t] = "updating"]
      /\ UNCHANGED <<available, reserved, owner, tx, next, seen, line, moved>>
  BY DEF StartUpdates, Locked, stockVars
<1>2. LockedIsCurrent'
  BY <1>1 DEF Protocol, LockedIsCurrent, Column
<1>3. ScanIsComplete'
  BY <1>1 DEF Types, Protocol, ScanIsComplete, Unlocked, Wanted, LinesIn
<1>4. MovedIsLocked'
  BY <1>1 DEF Types, Protocol, MovedIsLocked
<1>5. UpdatesAreChecked'
  <2>1. \A u \in Txns : Refused(u)' <=> Refused(u)
    BY <1>1 DEF Refused, Unavailable, LinesIn
  <2> QED
    BY <1>1, <2>1 DEF Types, Protocol, UpdatesAreChecked
<1>6. MovedIsCounted'
  <2>1. \A u \in Txns : at'[u] # "updating" => at[u] # "updating"
    BY <1>1 DEF Types
  <2>2. \A u \in Txns : \A s \in Skus : Applied(u, s)' = Applied(u, s)
    BY <1>1 DEF Applied, I!UnitsOf, I!UnitsOfLine, I!LinesOf
  <2> QED
    BY <1>1, <2>1, <2>2 DEF Protocol, MovedIsCounted, LinesIn
<1> QED
  BY <1>2, <1>3, <1>4, <1>5, <1>6 DEF Protocol

\* An update changes a locked row only; a SKU on one line is updated once.
LEMMA UpdateKeepsProtocol ==
  ASSUME Types, Protocol, NEW t \in Txns, UpdateLine(t)
  PROVE  Protocol'
<1> DEFINE i == line[t]
           l == LinesIn(t)[i]
<1>1. /\ at[t] = "updating" /\ tx[t] # NoTx /\ tx[t] \in I!OpenTx
      /\ i \in DOMAIN LinesIn(t) /\ i \in Nat
      /\ moved' = IF l.sku \in Skus THEN [moved EXCEPT ![t][l.sku] = @ + Units(t, l)]
                                    ELSE moved
      /\ line' = [line EXCEPT ![t] = @ + 1]
      /\ UNCHANGED <<available, reserved, owner, tx, at, next, seen>>
  BY DEF UpdateLine, stockVars, Types
<1>2. \A u \in Txns : LinesIn(u)' = LinesIn(u)
  BY <1>1 DEF LinesIn
<1>3. LockedIsCurrent'
  BY <1>1 DEF Protocol, LockedIsCurrent, Column
<1>4. ScanIsComplete'
  BY <1>1, <1>2 DEF Protocol, ScanIsComplete, Unlocked, Wanted
<1>5. MovedIsLocked'
  <2>1. l.sku \in Skus => owner[l.sku] = t
    BY <1>1 DEF Protocol, ScanIsComplete, Unlocked, Wanted
  <2>2. \A u \in Txns, s \in Skus :
          moved'[u][s] # moved[u][s] => u = t /\ s = l.sku
    BY <1>1 DEF Types
  <2> QED
    BY <1>1, <2>1, <2>2 DEF Protocol, MovedIsLocked
<1>6. UpdatesAreChecked'
  BY <1>1, <1>2 DEF Protocol, UpdatesAreChecked, Refused, Unavailable
<1>7. MovedIsCounted'
  <2> DEFINE N == {u \in I!UnitsOfLine(tx[t].order, i) :
                     tx[t].op # "reserve" => u[2] <= seen[t][l.sku]}
  <2>1. \A u \in Txns \ {t} :
          /\ line'[u] = line[u] /\ moved'[u] = moved[u]
          /\ \A s \in Skus : Applied(u, s)' = Applied(u, s)
    BY <1>1 DEF Types, Applied, I!UnitsOf, I!UnitsOfLine, I!LinesOf
  <2>2. line'[t] = i + 1 /\ line'[t] \in 1 .. Len(LinesIn(t)) + 1
    <3>1. tx[t].order \in Orders /\ LinesIn(t) = Lines[tx[t].order]
      BY <1>1, OpenOrder
    <3>2. line' = [line EXCEPT ![t] = i + 1] /\ line \in [Txns -> Nat]
      BY <1>1 DEF Types
    <3>3. Len(LinesIn(t)) \in Nat /\ i \in 1 .. Len(LinesIn(t))
      BY <1>1, <3>1, LinesOfAnOrder
    <3> QED
      BY <3>2, <3>3
  <2>3. ASSUME NEW s \in Skus
        PROVE  Applied(t, s)' = IF s = l.sku THEN Applied(t, s) \union N ELSE Applied(t, s)
    <3> DEFINE o == tx[t].order
               U == I!UnitsOf(o, s)
    <3>1. o \in Orders /\ LinesIn(t) = Lines[o]
      BY <1>1, OpenOrder
    <3>2. \A u \in U : u[1] \in Nat /\ Lines[o][u[1]].sku = s
      BY <3>1, UnitHasLine
    <3>3. s = l.sku => \A u : u \in I!UnitsOfLine(o, i) <=> u \in U /\ u[1] = i
      BY <1>1, <3>1 DEF I!UnitsOf, I!UnitsOfLine, I!LinesOf
    <3>4. /\ Applied(t, s) = {u \in U : u[1] < i /\ (tx[t].op # "reserve" => u[2] <= seen[t][s])}
          /\ Applied(t, s)' =
               {u \in U : u[1] < i + 1 /\ (tx[t].op # "reserve" => u[2] <= seen[t][s])}
      BY <1>1, <2>2 DEF Applied, I!UnitsOf, I!UnitsOfLine, I!LinesOf
    <3> HIDE DEF U
    <3>5. \A u \in U : u[1] < i + 1 <=> u[1] < i \/ u[1] = i
      BY <1>1, <3>2
    <3>6. s # l.sku => \A u \in U : u[1] # i
      BY <3>1, <3>2
    <3> QED
      BY <3>3, <3>4, <3>5, <3>6
  <2>4. \A s \in Skus :
          moved'[t][s] = IF s = l.sku THEN moved[t][s] + Units(t, l) ELSE moved[t][s]
    BY <1>1 DEF Types
  <2>5. ASSUME l.sku \in Skus
        PROVE  Cardinality(Applied(t, l.sku) \union N) = Cardinality(Applied(t, l.sku)) + Cardinality(N)
    <3> DEFINE A == Applied(t, l.sku)
    <3>1. IsFiniteSet(A) /\ Cardinality(A) \in Nat
      BY <1>1, AppliedIsFinite
    <3>2. IsFiniteSet(N) /\ Cardinality(N) \in Nat
      BY <1>1, <2>5, LineIsCounted
    <3>3. A \cap N = {}
      BY <1>1 DEF Applied, I!UnitsOfLine
    <3> HIDE DEF A, N
    <3>4. Cardinality(A \union N) = Cardinality(A) + Cardinality(N) - Cardinality(A \cap N)
      BY <3>1, <3>2, FS_Union
    <3>5. Cardinality(A \cap N) = 0
      BY <3>3, FS_EmptySet
    <3>6. Cardinality(A \union N) = Cardinality(A) + Cardinality(N)
      BY <3>1, <3>2, <3>4, <3>5
    <3> QED
      BY <3>6 DEF A
  <2>6. ASSUME NEW s \in Skus
        PROVE  moved'[t][s] = IF tx[t].op = "reserve" THEN Cardinality(Applied(t, s)')
                                                    ELSE 0 - Cardinality(Applied(t, s)')
    <3>1. moved[t][s] = IF tx[t].op = "reserve" THEN Cardinality(Applied(t, s))
                                              ELSE 0 - Cardinality(Applied(t, s))
      BY <1>1 DEF Protocol, MovedIsCounted
    <3>2. Cardinality(Applied(t, s)) \in Nat
      BY <1>1, AppliedIsFinite
    <3>3. CASE s # l.sku
      BY <2>3, <2>4, <3>1, <3>3
    <3>4. CASE s = l.sku
      <4>1. /\ Cardinality(N) \in Nat
            /\ Units(t, l) = IF tx[t].op = "reserve" THEN Cardinality(N) ELSE 0 - Cardinality(N)
        BY <1>1, <3>4, LineIsCounted
      <4>2. Cardinality(Applied(t, s)') = Cardinality(Applied(t, s)) + Cardinality(N)
        BY <2>3, <2>5, <3>4
      <4>3. moved'[t][s] = moved[t][s] + Units(t, l)
        BY <2>4, <3>4
      <4> HIDE DEF N, l
      <4> QED
        BY <3>1, <3>2, <4>1, <4>2, <4>3
    <3> QED
      BY <3>3, <3>4
  <2> QED
    BY <1>1, <1>2, <2>1, <2>2, <2>6 DEF Protocol, MovedIsCounted
<1> QED
  BY <1>3, <1>4, <1>5, <1>6, <1>7 DEF Protocol

\* A commit changes rows it had locked only.
LEMMA CommitKeepsProtocol ==
  ASSUME Types, Protocol, NEW t \in Txns, Commit(t)
  PROVE  Protocol'
<1>1. /\ available' = [s \in Skus |-> available[s] - moved[t][s]]
      /\ reserved' = [s \in Skus |-> reserved[s] + moved[t][s]]
      /\ Closed({t})
  BY DEF Commit
<1>2. \A s \in Skus : available[s] \in Int /\ reserved[s] \in Int /\ moved[t][s] \in Int
  BY DEF Types
<1> QED
  BY <1>1, <1>2, ClosedKeepsProtocol DEF Protocol, MovedIsLocked

\* The strengthened invariant is inductive.
LEMMA IInvStep == IInv /\ [Next]_vars => IInv'
<1> SUFFICES ASSUME Types, Protocol, [Next]_vars
             PROVE  Protocol'
  BY TypesStep DEF IInv
<1>1. ASSUME NEW T \in SUBSET Txns, Closed(T), UNCHANGED stockVars
      PROVE  Protocol'
  BY <1>1, ClosedKeepsProtocol DEF stockVars
<1>2. ASSUME UNCHANGED <<stockVars, owner, txVars>>
      PROVE  Protocol'
  <2>1. LockedIsCurrent' /\ ScanIsComplete' /\ MovedIsLocked' /\ UpdatesAreChecked'
    BY <1>2 DEF stockVars, txVars, Protocol, LockedIsCurrent, Column, ScanIsComplete,
         Unlocked, Wanted, LinesIn, MovedIsLocked, UpdatesAreChecked, Refused, Unavailable
  <2>2. \A t \in Txns : \A s \in Skus : Applied(t, s)' = Applied(t, s)
    BY <1>2 DEF txVars, Applied, I!UnitsOf, I!UnitsOfLine, I!LinesOf
  <2>3. MovedIsCounted'
    BY <1>2, <2>2 DEF txVars, Protocol, MovedIsCounted, LinesIn
  <2> QED
    BY <2>1, <2>3 DEF Protocol
<1>3. CASE UNCHANGED vars
  BY <1>2, <1>3 DEF vars
<1>4. ASSUME NEW w \in Workers, Count(w) \/ CreateMany(w)
      PROVE  Protocol'
  BY <1>2, <1>4 DEF Count, CreateMany
<1>5. ASSUME NEW w \in Workers, Crash(w)
      PROVE  Protocol'
  BY <1>1, <1>5 DEF Crash
<1>6. ASSUME NEW t \in Txns, NEW o \in Orders, BeginReserve(t, o) \/ BeginRelease(t, o)
      PROVE  Protocol'
  BY <1>6, BeginKeepsProtocol
<1>7. ASSUME NEW t \in Txns, Refuse(t) \/ Conflict(t) \/ DeadlockDetected(t) \/ Abort(t)
       PROVE  Protocol'
  BY <1>1, <1>7 DEF Refuse, Conflict, DeadlockDetected, Abort
<1>8. ASSUME NEW t \in Txns, CommitReserve(t) \/ CommitRelease(t)
       PROVE  Protocol'
  BY <1>8, CommitKeepsProtocol DEF CommitReserve, CommitRelease
<1> QED
  BY <1>3, <1>4, <1>5, <1>6, <1>7, <1>8, LockKeepsProtocol, StartKeepsProtocol,
     UpdateKeepsProtocol DEF Next, Step

LEMMA Invariance == Spec => []IInv
<1>1. Init => IInv
  <2>1. Init => Types
    BY RowsAssumption DEF Init, I!Init, I!InventoryAssumption, Types, NoUnits
  <2>2. Init => Protocol
    BY DEF Init, I!Init, NoUnits, Protocol, LockedIsCurrent, ScanIsComplete, MovedIsLocked,
           UpdatesAreChecked, MovedIsCounted
  <2> QED
    BY <2>1, <2>2 DEF IInv
<1> QED
  BY <1>1, IInvStep, PTL DEF Spec

\* What a transaction selected FOR UPDATE stays true until it ends.
THEOREM LockedRowsStayCurrent == Spec => []LockedIsCurrent
BY Invariance, PTL DEF IInv, Protocol
-----------------------------------------------------------------------------
(* A transaction takes effect as one step of Inventory *)

\* The rows of an order that is scanned to the end are as they were selected.
LEMMA ScannedIsCurrent ==
  ASSUME Types, Protocol, NEW t \in Txns, tx[t] # NoTx,
         at[t] = "updating" \/ Locked(t), NEW i \in DOMAIN LinesIn(t),
         LinesIn(t)[i].sku \in Skus
  PROVE  seen[t][LinesIn(t)[i].sku] = Column(t)[LinesIn(t)[i].sku]
<1>1. owner[LinesIn(t)[i].sku] = t
  BY DEF Protocol, ScanIsComplete, Locked, Unlocked, Wanted
<1> QED
  BY <1>1, RowsAssumption DEF Protocol, LockedIsCurrent

LEMMA RefusedAlike ==
  ASSUME Types, Protocol, NEW t \in Txns, tx[t] # NoTx, tx[t].op = "reserve",
         at[t] = "updating" \/ Locked(t)
  PROVE  Refused(t) <=> I!Refused(tx[t].order)
<1>1. \A i \in DOMAIN LinesIn(t) :
        LinesIn(t)[i].sku \in Skus =>
          seen[t][LinesIn(t)[i].sku] = available[LinesIn(t)[i].sku]
  BY ScannedIsCurrent DEF Column
<1> QED
  BY <1>1 DEF Refused, I!Refused, Unavailable, I!Unavailable, LinesIn

\* When all lines are updated the transaction has moved what Inventory moves.
LEMMA AllIsMoved ==
  ASSUME Types, Protocol, NEW t \in Txns, tx[t] # NoTx, at[t] = "updating",
         line[t] \notin DOMAIN LinesIn(t), NEW s \in Skus
  PROVE  /\ tx[t].op = "reserve" => moved[t][s] = I!Demand(tx[t].order, s)
         /\ tx[t].op = "release" => moved[t][s] = 0 - I!Returned(tx[t].order, s)
<1> DEFINE o == tx[t].order
           U == I!UnitsOf(o, s)
<1>1. o \in Orders /\ LinesIn(t) = Lines[o]
  BY OpenOrder
<1>2. line[t] = Len(Lines[o]) + 1 /\ Len(Lines[o]) \in Nat
  <2>1. /\ line[t] \in 1 .. Len(Lines[o]) + 1
        /\ line[t] \notin 1 .. Len(Lines[o])
        /\ Len(Lines[o]) \in Nat
    BY <1>1, LinesOfAnOrder DEF Protocol, MovedIsCounted
  <2> QED
    BY <2>1
<1>3. ASSUME NEW u \in U
      PROVE  u[1] < line[t] /\ seen[t][s] = Column(t)[s]
  <2>1. u[1] \in Nat /\ u[1] <= Len(Lines[o]) /\ u[1] \in DOMAIN Lines[o] /\ Lines[o][u[1]].sku = s
    BY <1>1, UnitHasLine
  <2> QED
    BY <1>1, <1>2, <2>1, ScannedIsCurrent
<1>4. Applied(t, s) = {u \in U : tx[t].op # "reserve" => u[2] <= Column(t)[s]}
  BY <1>3 DEF Applied
<1>5. moved[t][s] = IF tx[t].op = "reserve" THEN Cardinality(Applied(t, s))
                                          ELSE 0 - Cardinality(Applied(t, s))
  BY DEF Protocol, MovedIsCounted
<1>6. CASE tx[t].op = "reserve"
  <2>1. Applied(t, s) = U
    BY <1>4, <1>6
  <2> QED
    BY <1>5, <1>6, <2>1, SameCounts DEF I!Demand
<1>7. CASE tx[t].op = "release"
  <2>1. Applied(t, s) = {u \in U : u[2] <= reserved[s]}
    BY <1>4, <1>7 DEF Column
  <2> QED
    BY <1>5, <1>7, <2>1, SameCounts DEF I!Returned
<1> QED
  BY <1>6, <1>7, OpenOrder

LEMMA CommitIsStep ==
  ASSUME Types, Protocol, NEW t \in Txns, CommitReserve(t) \/ CommitRelease(t)
  PROVE  I!Next
<1>1. /\ at[t] = "updating" /\ line[t] \notin DOMAIN LinesIn(t) /\ tx[t] # NoTx
      /\ available' = [s \in Skus |-> available[s] - moved[t][s]]
      /\ reserved' = [s \in Skus |-> reserved[s] + moved[t][s]]
      /\ tx' = [tx EXCEPT ![t] = NoTx]
  BY DEF CommitReserve, CommitRelease, Updated, Commit, Closed, Types
<1>2. \A s \in Skus : available[s] \in Int /\ reserved[s] \in Int /\ moved[t][s] \in Int
  BY DEF Types
<1>3. CASE CommitReserve(t)
  <2>1. tx[t].op = "reserve" /\ tx[t].order \notin reservations
    BY <1>3 DEF CommitReserve, Updated
  <2>2. ~ I!Refused(tx[t].order)
    BY <1>1, <2>1, RefusedAlike DEF Protocol, UpdatesAreChecked
  <2>3. I!TakeStock(tx[t].order)
    BY <1>1, <1>3, <2>1, AllIsMoved DEF CommitReserve, I!TakeStock
  <2>4. I!CommitReserve(t)
    BY <1>1, <2>1, <2>2, <2>3 DEF I!CommitReserve, I!Closed
  <2> QED
    BY <2>4 DEF I!Next
<1>4. CASE CommitRelease(t)
  <2>1. tx[t].op = "release" /\ tx[t].order \in reservations
    BY <1>4 DEF CommitRelease, Updated
  <2>2. ASSUME NEW s \in Skus
        PROVE  /\ available[s] - moved[t][s] = available[s] + I!Returned(tx[t].order, s)
               /\ reserved[s] + moved[t][s] = reserved[s] - I!Returned(tx[t].order, s)
    <3> DEFINE r == I!Returned(tx[t].order, s)
    <3>1. moved[t][s] = 0 - r
      BY <1>1, <2>1, AllIsMoved
    <3>2. r \in Int
      <4>1. /\ IsFiniteSet(I!UnitsOf(tx[t].order, s))
            /\ {u \in I!UnitsOf(tx[t].order, s) : u[2] <= reserved[s]}
                 \subseteq I!UnitsOf(tx[t].order, s)
        BY <1>1, OpenOrder, SameAssumption, SameUnits, SameCounts, IP!OrderUnits
      <4> QED
        BY <4>1, FS_Subset, FS_CardinalityType, SameCounts DEF I!Returned
    <3> HIDE DEF r
    <3>3. available[s] - moved[t][s] = available[s] + r /\ reserved[s] + moved[t][s] = reserved[s] - r
      BY <1>2, <3>1, <3>2
    <3> QED
      BY <3>3 DEF r
  <2>3. I!ReturnStock(tx[t].order)
    BY <1>1, <1>4, <2>2 DEF CommitRelease, I!ReturnStock
  <2>4. I!CommitRelease(t)
    BY <1>1, <2>1, <2>3 DEF I!CommitRelease, I!Closed
  <2> QED
    BY <2>4 DEF I!Next
<1> QED
  BY <1>3, <1>4

\* Transactions that end without a commit are rolled back.
LEMMA ClosedIsRollback ==
  ASSUME Types, NEW T \in SUBSET Txns, Closed(T), UNCHANGED stockVars
  PROVE  [I!Next]_I!vars
<1>1. CASE \E t \in T : tx[t] # NoTx
  <2>1. I!Rollback(T)
    BY <1>1 DEF I!Rollback, Closed, stockVars, I!stockVars
  <2> QED
    BY <2>1 DEF I!Next
<1>2. CASE \A t \in T : tx[t] = NoTx
  BY <1>2 DEF Types, Closed, stockVars, I!vars, I!stockVars
<1> QED
  BY <1>1, <1>2

LEMMA StepIsStep == IInv /\ [Next]_vars => [I!Next]_I!vars
<1> SUFFICES ASSUME Types, Protocol, [Next]_vars
             PROVE  [I!Next]_I!vars
  BY DEF IInv
<1>1. UNCHANGED <<stockVars, tx>> => [I!Next]_I!vars
  BY DEF stockVars, I!vars, I!stockVars
<1>2. CASE UNCHANGED vars
  BY <1>1, <1>2 DEF vars, txVars
<1>3. ASSUME NEW w \in Workers, Count(w) \/ CreateMany(w)
      PROVE  [I!Next]_I!vars
  BY <1>1, <1>3 DEF Count, CreateMany, txVars
<1>4. ASSUME NEW w \in Workers, Crash(w)
      PROVE  [I!Next]_I!vars
  BY <1>4, ClosedIsRollback DEF Crash
<1>5. ASSUME NEW t \in Txns, NEW o \in Orders, BeginReserve(t, o) \/ BeginRelease(t, o)
      PROVE  [I!Next]_I!vars
  BY <1>5 DEF BeginReserve, BeginRelease, I!Next
<1>6. ASSUME NEW t \in Txns, LockRow(t) \/ StartUpdates(t) \/ UpdateLine(t)
      PROVE  [I!Next]_I!vars
  BY <1>1, <1>6 DEF LockRow, StartUpdates, UpdateLine
<1>7. ASSUME NEW t \in Txns, Refuse(t)
      PROVE  [I!Next]_I!vars
  <2>1. /\ Locked(t) /\ tx[t].op = "reserve" /\ Refused(t) /\ tx[t] # NoTx
        /\ tx' = [tx EXCEPT ![t] = NoTx]
        /\ UNCHANGED stockVars
    BY <1>7 DEF Refuse, Locked, Closed, Types
  <2>2. I!RefuseReserve(t)
    BY <2>1, RefusedAlike DEF I!RefuseReserve, I!Closed, stockVars, I!stockVars
  <2> QED
    BY <2>2 DEF I!Next
<1>8. ASSUME NEW t \in Txns, Conflict(t)
      PROVE  [I!Next]_I!vars
  <2>1. /\ at[t] = "updating" /\ tx[t] # NoTx
        /\ tx' = [tx EXCEPT ![t] = NoTx]
        /\ UNCHANGED stockVars
        /\ \/ tx[t].op = "reserve" /\ tx[t].order \in reservations
           \/ tx[t].op = "release" /\ tx[t].order \notin reservations
    BY <1>8 DEF Conflict, Updated, Closed, Types
  <2>2. tx[t].op = "reserve" => ~ I!Refused(tx[t].order)
    BY <2>1, RefusedAlike DEF Protocol, UpdatesAreChecked
  <2>3. I!ConflictReserve(t) \/ I!ConflictRelease(t)
    BY <2>1, <2>2 DEF I!ConflictReserve, I!ConflictRelease, I!Closed, stockVars, I!stockVars
  <2> QED
    BY <2>3 DEF I!Next
<1>9. ASSUME NEW t \in Txns, DeadlockDetected(t) \/ Abort(t)
      PROVE  [I!Next]_I!vars
  BY <1>9, ClosedIsRollback DEF DeadlockDetected, Abort
<1> QED
  BY <1>2, <1>3, <1>4, <1>5, <1>6, <1>7, <1>8, <1>9, CommitIsStep DEF Next, Step

\* Locks, updates, deadlocks, timeouts, crashes and the seeding: whatever the
\* order of the statements, a transaction changes the stock in one step, as
\* Inventory says, or not at all.
THEOREM TransactionsAreAtomic == Spec => ImplementsInventory
<1>1. Init => I!Init
  BY DEF Init
<1> QED
  BY <1>1, Invariance, StepIsStep, PTL DEF Spec, ImplementsInventory, I!Spec
-----------------------------------------------------------------------------
(* The books, from InventoryProofs *)

LEMMA SameSpec == I!Spec => IP!Spec
<1>1. I!Init => IP!Init
  BY DEF I!Init, IP!Init
<1>2. ASSUME NEW t \in Txns
      PROVE  /\ I!CommitReserve(t) => IP!CommitReserve(t)
             /\ I!CommitRelease(t) => IP!CommitRelease(t)
  BY SameUnits DEF I!CommitReserve, IP!CommitReserve, I!CommitRelease, IP!CommitRelease,
     I!Closed, IP!Closed, I!TakeStock, IP!TakeStock, I!ReturnStock, IP!ReturnStock,
     I!Refused, IP!Refused, I!Unavailable, IP!Unavailable
<1>3. I!Next => IP!Next
  BY <1>2 DEF I!Next, IP!Next, I!BeginReserve, IP!BeginReserve, I!BeginRelease,
     IP!BeginRelease, I!Open, IP!Open, I!RefuseReserve, IP!RefuseReserve, I!ConflictReserve,
     IP!ConflictReserve, I!ConflictRelease, IP!ConflictRelease, I!Rollback, IP!Rollback,
     I!Closed, IP!Closed, I!Refused, IP!Refused, I!Unavailable, IP!Unavailable,
     I!stockVars, IP!stockVars
<1>4. UNCHANGED I!vars => UNCHANGED IP!vars
  BY DEF I!vars, IP!vars, I!stockVars, IP!stockVars
<1> QED
  BY <1>1, <1>3, <1>4, PTL DEF I!Spec, IP!Spec

LEMMA FollowsTheBooks == Spec => IP!Spec
BY TransactionsAreAtomic, SameSpec DEF ImplementsInventory

LEMMA SameHeld ==
  ASSUME NEW s
  PROVE  I!Held(s) = IP!Held(s)
BY SameUnits, SameCounts DEF I!Held, IP!Held, I!UnitsOfAll, IP!UnitsOfAll

\* Among the rest: release() never gives back more than is reserved.
THEOREM TypeCorrect == Spec => []TypeOK
<1> DEFINE Starts == seeded \in BOOLEAN /\ worker \in [Workers -> {"starting", "empty", "up"}]
<1>1. Spec => []IP!TypeOK
  BY FollowsTheBooks, SameAssumption, IP!TypeCorrect
<1>2. Init => Starts
  BY DEF Init
<1>3. Starts /\ [Next]_vars => Starts'
  <2> SUFFICES ASSUME Starts, [Next]_vars
               PROVE  Starts'
    OBVIOUS
  <2>1. ASSUME NEW w \in Workers, Count(w) \/ CreateMany(w) \/ Crash(w)
        PROVE  Starts'
    BY <2>1 DEF Count, CreateMany, Crash
  <2>2. ASSUME NEW t \in Txns, NEW o \in Orders, BeginReserve(t, o) \/ BeginRelease(t, o)
        PROVE  Starts'
    BY <2>2 DEF BeginReserve, BeginRelease, Open, startVars
  <2>3. ASSUME NEW t \in Txns, Step(t) \/ Abort(t)
        PROVE  Starts'
    BY <2>3 DEF Step, Abort, LockRow, Refuse, StartUpdates, UpdateLine, CommitReserve,
       CommitRelease, Commit, Conflict, DeadlockDetected, startVars
  <2> QED
    BY <2>1, <2>2, <2>3 DEF Next, vars, startVars
<1>4. IP!TypeOK /\ Types /\ Starts => TypeOK
  BY DEF Types, TypeOK, I!TypeOK, IP!TypeOK, I!OpenTx, IP!OpenTx
<1> QED
  BY <1>1, <1>2, <1>3, <1>4, Invariance, PTL DEF Spec, IInv

\* No interleaving, deadlock, timeout, crash or restart makes or loses stock.
THEOREM StockIsConserved == Spec => []StockConserved
<1>1. Spec => []IP!StockConserved
  BY FollowsTheBooks, SameAssumption, IP!StockIsConserved
<1>2. IP!StockConserved => StockConserved
  BY DEF StockConserved, I!StockConserved, IP!StockConserved
<1> QED
  BY <1>1, <1>2, PTL

\* The reserved units are those of the orders that have a reservation row.
THEOREM ReservationsBackStock == Spec => []ReservedIsBacked
<1>1. Spec => []IP!ReservedIsBacked
  BY FollowsTheBooks, SameAssumption, IP!ReservationsBackStock
<1>2. IP!ReservedIsBacked => ReservedIsBacked
  BY SameHeld DEF ReservedIsBacked, I!ReservedIsBacked, IP!ReservedIsBacked
<1> QED
  BY <1>1, <1>2, PTL

\* A SKU that no order names twice is never promised beyond its stock.
THEOREM DistinctLinesNeverOversell == Spec => []NoOversellOfDistinctLines
<1>1. Spec => []IP!NoOversellOfDistinctLines
  BY FollowsTheBooks, SameAssumption, IP!DistinctLinesNeverOversell
<1>2. IP!NoOversellOfDistinctLines => NoOversellOfDistinctLines
  BY DEF NoOversellOfDistinctLines, I!NoOversellOfDistinctLines, I!Distinct,
     IP!NoOversellOfDistinctLines, IP!Distinct
<1> QED
  BY <1>1, <1>2, PTL
===============================================================================
