-------------------------------- MODULE Outbox --------------------------------
(***************************************************************************)
(* What the transactional outbox promises, with no batches, replicas or    *)
(* row locks in sight: an event is published as soon as its row is         *)
(* written, at least once, once more at most for every transaction that    *)
(* had claimed its row and rolled back, and its row is marked only after   *)
(* the broker confirmed it.                                                *)
(*                                                                         *)
(* OutboxRelay implements it; OrderSaga takes its steps for the relay's.   *)
(***************************************************************************)
EXTENDS Naturals

CONSTANT Rows  \* rows of the table Outbox, one per event

VARIABLES
  row,       \* [Rows -> {"none", "unpublished", "published"}]
  sent,      \* [Rows -> Nat], times the broker accepted the event
  rollbacks  \* [Rows -> Nat], rolled back transactions that had claimed the row

vars == <<row, sent, rollbacks>>

Unpublished == {r \in Rows : row[r] = "unpublished"}

Init ==
  /\ row = [r \in Rows |-> "none"]
  /\ sent = [r \in Rows |-> 0]
  /\ rollbacks = [r \in Rows |-> 0]

Write(r) ==
  /\ row[r] = "none"
  /\ row' = [row EXCEPT ![r] = "unpublished"]
  /\ UNCHANGED <<sent, rollbacks>>

\* A publish in flight when its transaction is rolled back may come through
\* after another transaction marked the row.
Publish(r) ==
  /\ row[r] # "none"
  /\ sent[r] <= rollbacks[r]
  /\ sent' = [sent EXCEPT ![r] = @ + 1]
  /\ UNCHANGED <<row, rollbacks>>

Mark(R) ==
  /\ \A r \in R : sent[r] > 0
  /\ row' = [r \in Rows |-> IF r \in R THEN "published" ELSE row[r]]
  /\ UNCHANGED <<sent, rollbacks>>

RollBack(R) ==
  /\ rollbacks' = [r \in Rows |-> IF r \in R THEN rollbacks[r] + 1 ELSE rollbacks[r]]
  /\ UNCHANGED <<row, sent>>

Next ==
  \/ \E r \in Rows : Write(r) \/ Publish(r)
  \/ \E R \in (SUBSET Unpublished) \ {{}} : Mark(R) \/ RollBack(R)

Spec == Init /\ [][Next]_vars
===============================================================================
