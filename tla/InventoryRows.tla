----------------------------- MODULE InventoryRows -----------------------------
(***************************************************************************)
(* inventoryRepository statement by statement: the unlocked read of the    *)
(* reservation, the FOR UPDATE locks taken row by row in whatever order    *)
(* PostgreSQL scans them, the checks, one update per line, the commit;     *)
(* deadlocks, timeouts and crashes of the workers; and the seeding of the  *)
(* table when a worker starts.                                             *)
(*                                                                         *)
(* Inventory takes everything from the first lock to the commit as one     *)
(* step.  That this is right is what ImplementsInventory checks.           *)
(***************************************************************************)
EXTENDS Integers

CONSTANTS
  Orders, Skus, Seed, Lines,  \* see Inventory
  Txns,     \* transactions that can be open at once
  Workers,  \* inventory worker processes
  Host,     \* [Txns -> Workers]
  NoTx,     \* no open transaction
  None      \* no row, no owner

VARIABLES
  \* committed state, see Inventory
  available, reserved, reservations,
  seeded,  \* whether inventory_items has its rows
  worker,  \* [Workers -> "starting", "empty" after counting no rows, "up"]
  owner,   \* [Skus -> transaction that holds the row lock, or None]
  tx,      \* [Txns -> the open transaction]
  at,      \* [Txns -> the statement it has got to]
  next,    \* [Txns -> row its SELECT ... FOR UPDATE comes to next, or None]
  seen,    \* [Txns -> [Skus -> the column it selected, of the rows it locked]]
  line,    \* [Txns -> line of the order to update next]
  moved    \* [Txns -> [Skus -> units its updates moved to reserved]]

stockVars == <<available, reserved, reservations>>
startVars == <<seeded, worker>>
txVars == <<tx, at, next, seen, line, moved>>
vars == <<stockVars, startVars, owner, txVars>>

I == INSTANCE Inventory

ASSUME RowsAssumption ==
  /\ I!InventoryAssumption
  /\ Host \in [Txns -> Workers]
  /\ None \notin Txns \union Skus

NoUnits == [s \in Skus |-> 0]

TypeOK ==
  /\ I!TypeOK
  /\ seeded \in BOOLEAN
  /\ worker \in [Workers -> {"starting", "empty", "up"}]
  /\ owner \in [Skus -> Txns \union {None}]
  /\ at \in [Txns -> {"idle", "locking", "updating"}]
  /\ \A t \in Txns : at[t] = "idle" <=> tx[t] = NoTx
  /\ next \in [Txns -> Skus \union {None}]
  /\ seen \in [Txns -> [Skus -> Int]]
  /\ line \in [Txns -> Nat]
  /\ moved \in [Txns -> [Skus -> Int]]

Init ==
  /\ I!Init
  /\ seeded = FALSE
  /\ worker = [w \in Workers |-> "starting"]
  /\ owner = [s \in Skus |-> None]
  /\ at = [t \in Txns |-> "idle"]
  /\ next = [t \in Txns |-> None]
  /\ seen = [t \in Txns |-> NoUnits]
  /\ line = [t \in Txns |-> 1]
  /\ moved = [t \in Txns |-> NoUnits]
-----------------------------------------------------------------------------
(* Starting a worker *)

\* ensureSeeded: the count; the worker consumes only after ensureSeeded.
Count(w) ==
  /\ worker[w] = "starting"
  /\ worker' = [worker EXCEPT ![w] = IF seeded THEN "up" ELSE "empty"]
  /\ UNCHANGED <<stockVars, seeded, owner, txVars>>

\* Mutant of CreateMany: an upsert in place of the insert.
UpsertMany(w) ==
  /\ worker[w] = "empty"
  /\ seeded' = TRUE
  /\ available' = Seed
  /\ worker' = [worker EXCEPT ![w] = "up"]
  /\ UNCHANGED <<reserved, reservations, owner, txVars>>

\* ensureSeeded: createMany inserts all rows, or hits the primary key when
\* another worker was faster; then the process exits and is started again.
CreateMany(w) ==
  /\ worker[w] = "empty"
  /\ seeded' = TRUE
  /\ worker' = [worker EXCEPT ![w] = IF seeded THEN "starting" ELSE "up"]
  /\ UNCHANGED <<stockVars, owner, txVars>>
-----------------------------------------------------------------------------
(* The transactions *)

LinesIn(t)  == Lines[tx[t].order]
Wanted(t)   == {LinesIn(t)[i].sku : i \in DOMAIN LinesIn(t)} \intersect Skus
Unlocked(t) == {s \in Wanted(t) : owner[s] # t}

\* The next row of a scan over the rows R, in any order: there is no ORDER BY,
\* so neither the sorting of the SKUs nor the parameter's order matters.
NextOf(R) == IF R = {} THEN {None} ELSE R

\* The unlocked read of the reservation let the transaction go on; its SELECT
\* of the stock rows starts.
Open(t) ==
  /\ worker[Host[t]] = "up"
  /\ at' = [at EXCEPT ![t] = "locking"]
  /\ \E s \in NextOf(Wanted(t)') : next' = [next EXCEPT ![t] = s]
  /\ UNCHANGED <<startVars, owner, seen, line, moved>>

BeginReserve(t, o) == I!BeginReserve(t, o) /\ Open(t)
BeginRelease(t, o) == I!BeginRelease(t, o) /\ Open(t)

\* reserve() selects the whole row and uses available, release() reserved.
Column(t) == IF tx[t].op = "reserve" THEN available ELSE reserved

\* Mutant of LockRow: a plain SELECT.
ReadRow(t) ==
  LET s == next[t]
  IN  /\ at[t] = "locking"
      /\ s # None
      /\ owner' = [owner EXCEPT ![s] = t]
      /\ seen' = [seen EXCEPT ![t][s] = Column(t)[s]]
      /\ \E r \in NextOf(Unlocked(t) \ {s}) : next' = [next EXCEPT ![t] = r]
      /\ UNCHANGED <<stockVars, startVars, tx, at, line, moved>>

\* FOR UPDATE on one row: waits for its owner, then sees its latest version.
LockRow(t) ==
  LET s == next[t]
  IN  /\ at[t] = "locking"
      /\ s # None
      /\ owner[s] = None
      /\ owner' = [owner EXCEPT ![s] = t]
      /\ seen' = [seen EXCEPT ![t][s] = Column(t)[s]]
      /\ \E r \in NextOf(Unlocked(t) \ {s}) : next' = [next EXCEPT ![t] = r]
      /\ UNCHANGED <<stockVars, startVars, tx, at, line, moved>>

\* Mutant of Closed: the locks outlive the transaction.
ClosedLocked(T) ==
  /\ tx' = [t \in Txns |-> IF t \in T THEN NoTx ELSE tx[t]]
  /\ at' = [t \in Txns |-> IF t \in T THEN "idle" ELSE at[t]]
  /\ next' = [t \in Txns |-> IF t \in T THEN None ELSE next[t]]
  /\ seen' = [t \in Txns |-> IF t \in T THEN NoUnits ELSE seen[t]]
  /\ line' = [t \in Txns |-> IF t \in T THEN 1 ELSE line[t]]
  /\ moved' = [t \in Txns |-> IF t \in T THEN NoUnits ELSE moved[t]]
  /\ UNCHANGED owner

\* The transactions T end and let go of their rows.
Closed(T) ==
  /\ tx' = [t \in Txns |-> IF t \in T THEN NoTx ELSE tx[t]]
  /\ at' = [t \in Txns |-> IF t \in T THEN "idle" ELSE at[t]]
  /\ next' = [t \in Txns |-> IF t \in T THEN None ELSE next[t]]
  /\ seen' = [t \in Txns |-> IF t \in T THEN NoUnits ELSE seen[t]]
  /\ line' = [t \in Txns |-> IF t \in T THEN 1 ELSE line[t]]
  /\ moved' = [t \in Txns |-> IF t \in T THEN NoUnits ELSE moved[t]]
  /\ owner' = [s \in Skus |-> IF owner[s] \in T THEN None ELSE owner[s]]

Locked(t) == at[t] = "locking" /\ next[t] = None

\* Mutant of Unavailable: only sold-out SKUs are refused.
SoldOut(t, l) == l.sku \in Skus => seen[t][l.sku] <= 0

\* One line alone against its row: UnknownSkuError or InsufficientStockError.
Unavailable(t, l) == l.sku \in Skus => seen[t][l.sku] < l.quantity

Refused(t) == \E i \in DOMAIN LinesIn(t) : Unavailable(t, LinesIn(t)[i])

\* reserve() throws and rolls back.
Refuse(t) ==
  /\ Locked(t)
  /\ tx[t].op = "reserve"
  /\ Refused(t)
  /\ Closed({t})
  /\ UNCHANGED <<stockVars, startVars>>

StartUpdates(t) ==
  /\ Locked(t)
  /\ tx[t].op = "reserve" => ~ Refused(t)
  /\ at' = [at EXCEPT ![t] = "updating"]
  /\ UNCHANGED <<stockVars, startVars, owner, tx, next, seen, line, moved>>

\* What the update of line l moves to reserved.  release() gives back at most
\* what was reserved when it locked the row and skips rows with nothing left.
Units(t, l) ==
  IF tx[t].op = "reserve" THEN l.quantity
  ELSE 0 - (IF l.quantity < seen[t][l.sku] THEN l.quantity
            ELSE IF seen[t][l.sku] > 0 THEN seen[t][l.sku] ELSE 0)

\* Mutant of UpdateLine: the column is set from the row as it was selected.
SetLine(t) ==
  /\ at[t] = "updating"
  /\ line[t] \in DOMAIN LinesIn(t)
  /\ LET l == LinesIn(t)[line[t]]
     IN  moved' = IF l.sku \in Skus THEN [moved EXCEPT ![t][l.sku] = Units(t, l)]
                                    ELSE moved
  /\ line' = [line EXCEPT ![t] = @ + 1]
  /\ UNCHANGED <<stockVars, startVars, owner, tx, at, next, seen>>

\* available and reserved are incremented and decremented in one UPDATE.
UpdateLine(t) ==
  /\ at[t] = "updating"
  /\ line[t] \in DOMAIN LinesIn(t)
  /\ LET l == LinesIn(t)[line[t]]
     IN  moved' = IF l.sku \in Skus THEN [moved EXCEPT ![t][l.sku] = @ + Units(t, l)]
                                    ELSE moved
  /\ line' = [line EXCEPT ![t] = @ + 1]
  /\ UNCHANGED <<stockVars, startVars, owner, tx, at, next, seen>>

Updated(t, op) == at[t] = "updating" /\ line[t] \notin DOMAIN LinesIn(t) /\ tx[t].op = op

Commit(t) ==
  /\ available' = [s \in Skus |-> available[s] - moved[t][s]]
  /\ reserved' = [s \in Skus |-> reserved[s] + moved[t][s]]
  /\ Closed({t})
  /\ UNCHANGED startVars

\* inventoryReservation.create, then the commit.
CommitReserve(t) ==
  /\ Updated(t, "reserve")
  /\ tx[t].order \notin reservations
  /\ reservations' = reservations \union {tx[t].order}
  /\ Commit(t)

\* Mutant of CommitRelease: deleteMany in place of delete.
CommitReleaseAnyway(t) ==
  /\ Updated(t, "release")
  /\ reservations' = reservations \ {tx[t].order}
  /\ Commit(t)

\* inventoryReservation.delete, then the commit.
CommitRelease(t) ==
  /\ Updated(t, "release")
  /\ tx[t].order \in reservations
  /\ reservations' = reservations \ {tx[t].order}
  /\ Commit(t)

\* create hits the primary key, or delete finds no row: all updates roll back.
Conflict(t) ==
  /\ \/ Updated(t, "reserve") /\ tx[t].order \in reservations
     \/ Updated(t, "release") /\ tx[t].order \notin reservations
  /\ Closed({t})
  /\ UNCHANGED <<stockVars, startVars>>

WaitsFor(t, u) ==
  at[t] = "locking" /\ next[t] # None /\ owner[next[t]] = u

\* A cycle of transactions that wait for one another.
Deadlock(T) ==
  /\ T # {}
  /\ \A t \in T : (\E u \in T : WaitsFor(t, u)) /\ (\E u \in T : WaitsFor(u, t))

\* PostgreSQL aborts one transaction of a deadlock.
DeadlockDetected(t) ==
  /\ \E T \in SUBSET Txns : t \in T /\ Deadlock(T)
  /\ Closed({t})
  /\ UNCHANGED <<stockVars, startVars>>

\* The transaction timed out or its connection broke.
Abort(t) ==
  /\ tx[t] # NoTx
  /\ Closed({t})
  /\ UNCHANGED <<stockVars, startVars>>

\* A worker dies with all its transactions and is started again.
Crash(w) ==
  /\ worker[w] # "starting"
  /\ worker' = [worker EXCEPT ![w] = "starting"]
  /\ Closed({t \in Txns : Host[t] = w})
  /\ UNCHANGED <<stockVars, seeded>>

Step(t) ==
  \/ LockRow(t)
  \/ Refuse(t)
  \/ StartUpdates(t)
  \/ UpdateLine(t)
  \/ CommitReserve(t)
  \/ CommitRelease(t)
  \/ Conflict(t)
  \/ DeadlockDetected(t)

Next ==
  \/ \E w \in Workers : Count(w) \/ CreateMany(w) \/ Crash(w)
  \/ \E t \in Txns, o \in Orders : BeginReserve(t, o) \/ BeginRelease(t, o)
  \/ \E t \in Txns : Step(t) \/ Abort(t)

Spec == Init /\ [][Next]_vars

\* Statements run to their end, waiters for a row are served in turn and
\* PostgreSQL looks for deadlocks.  Timeouts and crashes need not happen.
FairSpec == Spec /\ \A t \in Txns : SF_vars(Step(t))
-----------------------------------------------------------------------------
\* Between SELECT ... FOR UPDATE and the commit nobody else changes the rows:
\* the checks and Math.min decide on values that are still current.
LockedIsCurrent ==
  \A s \in Skus :
    owner[s] # None =>
      /\ tx[owner[s]] # NoTx
      /\ seen[owner[s]][s] = Column(owner[s])[s]

StockConserved == I!StockConserved
ReservedIsBacked == I!ReservedIsBacked
NoOversell == I!NoOversell
NoOversellOfDistinctLines == I!NoOversellOfDistinctLines

\* Locks, updates, deadlocks and all, a transaction takes effect as one step.
ImplementsInventory == I!Spec

\* "Lock rows in a stable (sorted) order to avoid deadlocks", but nothing orders
\* the scan.  What holds instead: PostgreSQL resolves what deadlocks there are, and
\* every transaction comes to an end without waiting for its timeout: t is
\* free for the next one again and again.
EveryTransactionEnds == \A t \in Txns : []<>(tx[t] = NoTx)
===============================================================================
