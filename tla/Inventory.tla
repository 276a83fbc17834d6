------------------------------- MODULE Inventory -------------------------------
(***************************************************************************)
(* inventoryRepository: stock per SKU and one reservation row per order.   *)
(*                                                                         *)
(* reserve and release are PostgreSQL transactions at READ COMMITTED.      *)
(* Each first reads inventory_reservations without a lock, then takes FOR  *)
(* UPDATE locks on the rows of its SKUs and keeps them until it commits.   *)
(* Two transactions of one order want the same rows, so everything from    *)
(* the locks to the commit is one step here, while the unlocked read       *)
(* before it is a step of its own: between the two another transaction of  *)
(* the same order may commit.  InventoryRows implements this module lock   *)
(* by lock and update by update; OrderSaga takes its transactions for the  *)
(* workers'.                                                               *)
(***************************************************************************)
EXTENDS Integers, Sequences, FiniteSets

CONSTANTS
  Orders,  \* order ids
  Skus,    \* SKUs with a row in inventory_items
  Seed,    \* [Skus -> Nat], the stock ensureSeeded inserts
  Lines,   \* [Orders -> Seq([sku, quantity])], the items of each order
  Txns,    \* transactions that can be open at once
  NoTx     \* no open transaction

OpenTx == [op : {"reserve", "release"}, order : Orders]

InventoryAssumption ==
  /\ Seed \in [Skus -> Nat]
  /\ \A o \in Orders :
       /\ Len(Lines[o]) \in Nat /\ DOMAIN Lines[o] = 1 .. Len(Lines[o])
       /\ \A i \in DOMAIN Lines[o] : Lines[o][i].quantity \in Nat \ {0}
  /\ NoTx \notin OpenTx

VARIABLES
  available,     \* [Skus -> Int]
  reserved,      \* [Skus -> Nat]
  reservations,  \* orders with a row in inventory_reservations
  tx             \* [Txns -> the open transaction, past its first read]

stockVars == <<available, reserved, reservations>>
vars == <<stockVars, tx>>

TypeOK ==
  /\ available \in [Skus -> Int]
  /\ reserved \in [Skus -> Nat]
  /\ reservations \subseteq Orders
  /\ tx \in [Txns -> OpenTx \union {NoTx}]

Init ==
  /\ available = Seed
  /\ reserved = [s \in Skus |-> 0]
  /\ reservations = {}
  /\ tx = [t \in Txns |-> NoTx]
-----------------------------------------------------------------------------
LinesOf(o, s) == {i \in DOMAIN Lines[o] : Lines[o][i].sku = s}

\* The nth unit that line i of order o asks for is <<i, n>>.
UnitsOfLine(o, i) == {i} \X (1 .. Lines[o][i].quantity)
UnitsOf(o, s) == UNION {UnitsOfLine(o, i) : i \in LinesOf(o, s)}

\* Units of SKU s that the decrements of all lines of order o add up to.
Demand(o, s) == Cardinality(UnitsOf(o, s))

\* A line is checked alone, against the row as it was locked:
\* UnknownSkuError or InsufficientStockError.
Unavailable(line) == line.sku \in Skus => available[line.sku] < line.quantity

Refused(o) == \E i \in DOMAIN Lines[o] : Unavailable(Lines[o][i])

\* The updates of reserve(), committed.
TakeStock(o) ==
  /\ available' = [s \in Skus |-> available[s] - Demand(o, s)]
  /\ reserved'  = [s \in Skus |-> reserved[s] + Demand(o, s)]
  /\ reservations' = reservations \union {o}

\* What release() gives back of SKU s: each line at most the amount that was
\* reserved when the row was locked.
Returned(o, s) == Cardinality({u \in UnitsOf(o, s) : u[2] <= reserved[s]})

\* The updates of release(), committed.
ReturnStock(o) ==
  /\ available' = [s \in Skus |-> available[s] + Returned(o, s)]
  /\ reserved'  = [s \in Skus |-> reserved[s] - Returned(o, s)]
  /\ reservations' = reservations \ {o}
-----------------------------------------------------------------------------
Open(t, op, o) ==
  /\ tx[t] = NoTx
  /\ tx' = [tx EXCEPT ![t] = [op |-> op, order |-> o]]
  /\ UNCHANGED stockVars

Closed(t, op) ==
  /\ tx[t] # NoTx
  /\ tx[t].op = op
  /\ tx' = [tx EXCEPT ![t] = NoTx]

\* reserve(): no reservation row was found, go on to lock the stock.  When a
\* row is found reserve() returns 'already-reserved' and changes nothing.
BeginReserve(t, o) == o \notin reservations /\ Open(t, "reserve", o)

CommitReserve(t) ==
  /\ Closed(t, "reserve")
  /\ ~ Refused(tx[t].order)
  /\ tx[t].order \notin reservations
  /\ TakeStock(tx[t].order)

\* UnknownSkuError or InsufficientStockError: the transaction rolls back and
\* the caller publishes inventory.reservation.failed.
RefuseReserve(t) ==
  /\ Closed(t, "reserve")
  /\ Refused(tx[t].order)
  /\ UNCHANGED stockVars

\* inventoryReservation.create hits the row another transaction inserted
\* meanwhile: unique violation, the decrements roll back, the caller retries.
ConflictReserve(t) ==
  /\ Closed(t, "reserve")
  /\ ~ Refused(tx[t].order)
  /\ tx[t].order \in reservations
  /\ UNCHANGED stockVars

\* release(): a reservation row was found.  Without one release() is a no-op.
BeginRelease(t, o) == o \in reservations /\ Open(t, "release", o)

\* release(): the row is still there.
CommitRelease(t) ==
  /\ Closed(t, "release")
  /\ tx[t].order \in reservations
  /\ ReturnStock(tx[t].order)

\* inventoryReservation.delete finds no row any more: everything rolls back.
ConflictRelease(t) ==
  /\ Closed(t, "release")
  /\ tx[t].order \notin reservations
  /\ UNCHANGED stockVars

\* A database connection died, a transaction timed out, or a process died with
\* all the transactions it had open.
Rollback(T) ==
  /\ \E t \in T : tx[t] # NoTx
  /\ tx' = [t \in Txns |-> IF t \in T THEN NoTx ELSE tx[t]]
  /\ UNCHANGED stockVars

Next ==
  \/ \E t \in Txns, o \in Orders : BeginReserve(t, o) \/ BeginRelease(t, o)
  \/ \E t \in Txns :
       \/ CommitReserve(t)
       \/ RefuseReserve(t)
       \/ ConflictReserve(t)
       \/ CommitRelease(t)
       \/ ConflictRelease(t)
  \/ \E T \in SUBSET Txns : Rollback(T)

Spec == Init /\ [][Next]_vars
-----------------------------------------------------------------------------
\* Units of SKU s that the orders S ask for together.
UnitsOfAll(S, s) == UNION {{o} \X UnitsOf(o, s) : o \in S}

\* Units of SKU s that the reservations on record account for.
Held(s) == Cardinality(UnitsOfAll(reservations, s))

\* Stock is moved between available and reserved, never created or lost, by
\* any interleaving of reserve, release, conflict and rollback.
StockConserved == \A s \in Skus : available[s] + reserved[s] = Seed[s]

\* The reserved units are exactly those of the orders that have a reservation
\* row: no order is counted twice or released twice, and the clipping with
\* Math.min in release() never hides a loss.
ReservedIsBacked == \A s \in Skus : reserved[s] = Held(s)

\* No order names SKU s on two lines.
Distinct(s) ==
  \A o \in Orders : \A i, j \in DOMAIN Lines[o] :
    Lines[o][i].sku = s /\ Lines[o][j].sku = s => i = j

\* "FOR UPDATE so concurrent orders can't oversell": no SKU is promised beyond
\* its stock.
NoOversell == \A s \in Skus : available[s] >= 0

\* What the locks and the per-line check do achieve: a SKU that no order names
\* on two lines is never promised beyond its stock, however its reserves and
\* releases interleave.
NoOversellOfDistinctLines == \A s \in Skus : Distinct(s) => available[s] >= 0
===============================================================================
