------------------------------ MODULE OutboxRelay ------------------------------
(***************************************************************************)
(* The outbox relay: several replicas, each of which starts publishPending *)
(* every second whether or not the last one has ended.                     *)
(*                                                                         *)
(* A poll claims a batch with SELECT ... FOR UPDATE SKIP LOCKED and then,  *)
(* row by row, publishes and marks it; the marks are visible and the locks *)
(* released when the transaction ends.  Prisma closes an interactive       *)
(* transaction after five seconds, but it cannot stop the callback: a      *)
(* publish that is in flight then may still come through.                  *)
(***************************************************************************)
EXTENDS Naturals, FiniteSets

CONSTANTS
  Rows,       \* rows of the table Outbox, numbered by createdAt
  Limit,      \* rows a poll claims at most (50)
  Polls,      \* polls that can run at once
  Host,       \* [Polls -> relay process that started it]
  MaxFaults   \* bound: failed publishes, timeouts and crashes

ASSUME RelayAssumption ==
  /\ Rows \subseteq Nat /\ IsFiniteSet(Rows)
  /\ Limit \in Nat \ {0}
  /\ IsFiniteSet(Polls)
  /\ MaxFaults \in Nat

VARIABLES
  row,        \* [Rows -> committed state of the row]
  at,         \* [Polls -> what the poll awaits]
  claim,      \* [Polls -> rows its transaction has locked; {} once it ended]
  todo,       \* [Polls -> rows it has still to publish]
  sent,       \* [Rows -> times the broker accepted the event]
  rollbacks,  \* [Rows -> transactions that had claimed it and rolled back]
  faults      \* faults so far

pollVars == <<at, claim, todo>>
vars == <<row, at, claim, todo, sent, rollbacks, faults>>

TypeOK ==
  /\ row \in [Rows -> {"none", "unpublished", "published"}]
  /\ at \in [Polls -> {"idle", "publishing", "confirmed"}]
  /\ claim \in [Polls -> SUBSET Rows]
  /\ todo \in [Polls -> SUBSET Rows]
  /\ \A p \in Polls :
       /\ at[p] = "idle" => claim[p] = {} /\ todo[p] = {}
       /\ claim[p] # {} => todo[p] \subseteq claim[p]
  /\ sent \in [Rows -> Nat]
  /\ rollbacks \in [Rows -> Nat]
  /\ faults \in 0 .. MaxFaults

Init ==
  /\ row = [r \in Rows |-> "none"]
  /\ at = [p \in Polls |-> "idle"]
  /\ claim = [p \in Polls |-> {}]
  /\ todo = [p \in Polls |-> {}]
  /\ sent = [r \in Rows |-> 0]
  /\ rollbacks = [r \in Rows |-> 0]
  /\ faults = 0
-----------------------------------------------------------------------------
Unpublished == {r \in Rows : row[r] = "unpublished"}
Locked == UNION {claim[p] : p \in Polls}

\* Mutant of Claimable: the rows that are locked are not skipped.
UnpublishedRows == Unpublished

\* WHERE published = false ... FOR UPDATE SKIP LOCKED
Claimable == Unpublished \ Locked

\* Mutant of Batch: published rows count against the limit.
BatchOfAll(S) == {r \in S : Cardinality({x \in Rows : x < r}) < Limit}

\* ORDER BY createdAt ASC LIMIT 50
Batch(S) == {r \in S : Cardinality({x \in S : x < r}) < Limit}

\* The row the callback comes to next, as a set: {} when none is left.
Oldest(S) == {r \in S : \A x \in S : r <= x}

\* create() of the postgres store commits an order with its outbox row.
\* Transactions may commit in another order than that of createdAt.
Write(r) ==
  /\ row[r] = "none"
  /\ row' = [row EXCEPT ![r] = "unpublished"]
  /\ UNCHANGED <<pollVars, sent, rollbacks, faults>>

\* publishPending opens a transaction and claims a batch.  When nothing can be
\* claimed it commits and changes nothing.
Begin(p) ==
  /\ at[p] = "idle"
  /\ Claimable # {}
  /\ at' = [at EXCEPT ![p] = "publishing"]
  /\ claim' = [claim EXCEPT ![p] = Batch(Claimable)]
  /\ todo' = [todo EXCEPT ![p] = Batch(Claimable)]
  /\ UNCHANGED <<row, sent, rollbacks, faults>>

\* The broker accepts the next row's event and its confirm arrives.
Publish(p) ==
  /\ at[p] = "publishing"
  /\ \E r \in Oldest(todo[p]) :
       /\ sent' = [sent EXCEPT ![r] = @ + 1]
       /\ todo' = [todo EXCEPT ![p] = @ \ {r}]
  /\ at' = [at EXCEPT ![p] = "confirmed"]
  /\ UNCHANGED <<row, claim, rollbacks, faults>>

\* tx.outbox.update: the mark is invisible to others until the commit.
Mark(p) ==
  /\ at[p] = "confirmed"
  /\ claim[p] # {}
  /\ at' = [at EXCEPT ![p] = "publishing"]
  /\ UNCHANGED <<row, claim, todo, sent, rollbacks, faults>>

\* Mutant of Idle: the rest of the batch is not forgotten.
IdleWithBatch(P) ==
  /\ at' = [p \in Polls |-> IF p \in P THEN "idle" ELSE at[p]]
  /\ claim' = [p \in Polls |-> IF p \in P THEN {} ELSE claim[p]]
  /\ UNCHANGED todo

Idle(P) ==
  /\ at' = [p \in Polls |-> IF p \in P THEN "idle" ELSE at[p]]
  /\ claim' = [p \in Polls |-> IF p \in P THEN {} ELSE claim[p]]
  /\ todo' = [p \in Polls |-> IF p \in P THEN {} ELSE todo[p]]

\* Mutant of Commit: the transaction commits with the first confirmed row.
CommitEarly(p) ==
  /\ at[p] = "publishing"
  /\ claim[p] # {}
  /\ todo[p] # claim[p]
  /\ row' = [r \in Rows |-> IF r \in claim[p] THEN "published" ELSE row[r]]
  /\ Idle({p})
  /\ UNCHANGED <<sent, rollbacks, faults>>

Commit(p) ==
  /\ at[p] = "publishing"
  /\ claim[p] # {}
  /\ todo[p] = {}
  /\ row' = [r \in Rows |-> IF r \in claim[p] THEN "published" ELSE row[r]]
  /\ Idle({p})
  /\ UNCHANGED <<sent, rollbacks, faults>>

\* The transactions of polls P are rolled back, all their marks with them.
RollBack(P) ==
  LET rolled == UNION {claim[p] : p \in P}
  IN  rollbacks' = [r \in Rows |-> IF r \in rolled THEN rollbacks[r] + 1 ELSE rollbacks[r]]

Fault == faults < MaxFaults /\ faults' = faults + 1

\* publishMessage throws: no channel, or a nack, or the connection broke before
\* the confirm, in which case the broker may have the event all the same.
PublishFails(p) ==
  /\ Fault
  /\ claim[p] # {}
  /\ at[p] = "confirmed" \/ todo[p] # {}
  /\ RollBack({p})
  /\ Idle({p})
  /\ UNCHANGED <<row, sent>>

\* Mutant of TransactionTimeout: the callback goes on with the rest of its batch.
TimeoutKeepsBatch(p) ==
  /\ Fault
  /\ claim[p] # {}
  /\ RollBack({p})
  /\ claim' = [claim EXCEPT ![p] = {}]
  /\ todo' = [todo EXCEPT ![p] =
                IF at[p] = "publishing" /\ todo[p] # {} THEN claim[p] ELSE {}]
  /\ UNCHANGED <<row, at, sent>>

\* Prisma closes the transaction five seconds after it began.  The callback
\* still awaits what it awaited, which may be a publish.
TransactionTimeout(p) ==
  /\ Fault
  /\ claim[p] # {}
  /\ RollBack({p})
  /\ claim' = [claim EXCEPT ![p] = {}]
  /\ todo' = [todo EXCEPT ![p] =
                IF at[p] = "publishing" THEN Oldest(@) ELSE {}]
  /\ UNCHANGED <<row, at, sent>>

\* After a timeout the late publish fails too, or tx.outbox.update or the
\* commit finds the transaction closed; main() logs "Outbox relay error".
End(p) ==
  /\ at[p] # "idle"
  /\ claim[p] = {}
  /\ Idle({p})
  /\ UNCHANGED <<row, sent, rollbacks, faults>>

\* A relay process dies, or exits after SIGTERM: PostgreSQL rolls the open
\* transactions of all its polls back.
Crash(x) ==
  LET P == {p \in Polls : Host[p] = x}
  IN  /\ Fault
      /\ \E p \in P : at[p] # "idle"
      /\ RollBack(P)
      /\ Idle(P)
      /\ UNCHANGED <<row, sent>>

PollStep(p) == Begin(p) \/ Publish(p) \/ Mark(p) \/ Commit(p) \/ End(p)

Relays == {Host[p] : p \in Polls}

Next ==
  \/ \E r \in Rows : Write(r)
  \/ \E p \in Polls :
       \/ PollStep(p)
       \/ PublishFails(p)
       \/ TransactionTimeout(p)
  \/ \E x \in Relays : Crash(x)

Spec == Init /\ [][Next]_vars

\* The timer starts a poll every second and a running poll goes on; faults need
\* not happen and nobody need place an order.
FairSpec == Spec /\ \A p \in Polls : WF_vars(PollStep(p))
-----------------------------------------------------------------------------
\* README: "SKIP LOCKED lets concurrent replicas each claim a disjoint batch of
\* rows".  What is claimed is also still unpublished, whichever transactions
\* committed, timed out or died around the claim.
ClaimsAreDisjoint ==
  \A p \in Polls :
    /\ claim[p] \subseteq Unpublished
    /\ \A q \in Polls \ {p} : claim[p] \intersect claim[q] = {}

\* At-least-once: a row is marked only after the broker accepted its event,
\* though the marks of a batch are committed together and long after.
MarkedWasSent == \A r \in Rows : row[r] = "published" => sent[r] > 0

\* "without risking double-publishes" holds up to the faults: every further
\* publish of an event was paid for by a transaction that had claimed its row
\* and rolled back, late publishes of timed out transactions included.
DuplicatesOnlyAfterRollback == \A r \in Rows : sent[r] <= 1 + rollbacks[r]

O == INSTANCE Outbox

\* Batches, replicas and overlapping polls together are one outbox.
ImplementsOutbox == O!Spec

\* Every event is published and its row marked in the end.
EveryEventPublished ==
  \A r \in Rows : row[r] = "unpublished" ~> row[r] = "published"
===============================================================================
