--------------------------- MODULE OutboxRelayProofs ---------------------------
(***************************************************************************)
(* The outbox relay for any number of rows, replicas and overlapping polls,*)
(* any batch size and any number of faults.                                *)
(***************************************************************************)
EXTENDS OutboxRelay, FiniteSetTheorems, TLAPS

\* Polls that may still publish r, each once: those whose transaction is open
\* and those that were overtaken by a timeout with the publish in flight.
MaySend(r) == {p \in Polls : r \in todo[p]}

\* 1 while the present publish of r is not to be repeated.
Spoken(r) == IF row[r] = "published" \/ r \in Locked THEN 1 ELSE 0

\* A row is only ever claimed when it is written.
TodoIsWritten == \A p \in Polls : \A r \in todo[p] : row[r] # "none"

\* What an open transaction no longer has to publish, the broker has.
DoneWasSent == \A p \in Polls : \A r \in claim[p] \ todo[p] : sent[r] > 0

\* Publishes made and publishes still possible are paid for by rollbacks, but
\* for the claim that holds or has marked the row.
Ledger == \A r \in Rows : sent[r] + Cardinality(MaySend(r)) <= rollbacks[r] + Spoken(r)

IInv ==
  /\ TypeOK
  /\ ClaimsAreDisjoint
  /\ TodoIsWritten
  /\ DoneWasSent
  /\ MarkedWasSent
  /\ Ledger

\* Only finitely many polls can run.
LEMMA MaySendFinite ==
  \A r : IsFiniteSet(MaySend(r)) /\ Cardinality(MaySend(r)) \in Nat
BY RelayAssumption, FS_Subset, FS_CardinalityType DEF MaySend

LEMMA SpokenType == \A r : Spoken(r) \in {0, 1}
BY DEF Spoken

\* The relay's variables keep their types.
LEMMA TypeStep == TypeOK /\ [Next]_vars => TypeOK'
<1> SUFFICES ASSUME TypeOK, [Next]_vars
             PROVE  TypeOK'
  OBVIOUS
<1> USE DEF TypeOK
<1>1. CASE UNCHANGED vars
  BY <1>1 DEF vars, pollVars
<1>2. ASSUME NEW r \in Rows, Write(r)
      PROVE  TypeOK'
  BY <1>2 DEF Write, pollVars
<1>3. ASSUME NEW p \in Polls, Begin(p)
      PROVE  TypeOK'
  <2>1. Batch(Claimable) \subseteq Rows
    BY DEF Batch, Claimable, Unpublished
  <2> QED
    BY <1>3, <2>1 DEF Begin
<1>4. ASSUME NEW p \in Polls, Publish(p)
      PROVE  TypeOK'
  BY <1>4 DEF Publish, Oldest
<1>5. ASSUME NEW p \in Polls, Mark(p)
      PROVE  TypeOK'
  BY <1>5 DEF Mark
<1>6. ASSUME NEW p \in Polls, Commit(p)
      PROVE  TypeOK'
  BY <1>6 DEF Commit, Idle
<1>7. ASSUME NEW p \in Polls, End(p)
      PROVE  TypeOK'
  BY <1>7 DEF End, Idle
<1>8. ASSUME NEW p \in Polls, PublishFails(p)
      PROVE  TypeOK'
  BY <1>8, RelayAssumption DEF PublishFails, Idle, RollBack, Fault
<1>9. ASSUME NEW p \in Polls, TransactionTimeout(p)
      PROVE  TypeOK'
  BY <1>9, RelayAssumption DEF TransactionTimeout, RollBack, Fault, Oldest
<1>10. ASSUME NEW x \in Relays, Crash(x)
       PROVE  TypeOK'
  BY <1>10, RelayAssumption DEF Crash, Idle, RollBack, Fault
<1> QED
  BY <1>1, <1>2, <1>3, <1>4, <1>5, <1>6, <1>7, <1>8, <1>9, <1>10 DEF Next, PollStep

\* Claims stay disjoint and unpublished, and what is marked was sent: a poll
\* claims only what is not locked, and marks only what it claimed.
LEMMA ClaimStep ==
  ASSUME TypeOK, ClaimsAreDisjoint, TodoIsWritten, DoneWasSent, MarkedWasSent, [Next]_vars
  PROVE  ClaimsAreDisjoint' /\ TodoIsWritten' /\ DoneWasSent' /\ MarkedWasSent'
<1> USE DEF TypeOK, ClaimsAreDisjoint, TodoIsWritten, DoneWasSent, MarkedWasSent, Unpublished
<1> DEFINE Goal == ClaimsAreDisjoint' /\ TodoIsWritten' /\ DoneWasSent' /\ MarkedWasSent'
<1>1. CASE UNCHANGED vars
  BY <1>1 DEF vars, pollVars
<1>2. ASSUME NEW r \in Rows, Write(r)
      PROVE  Goal
  BY <1>2 DEF Write, pollVars
<1>3. ASSUME NEW p \in Polls, Begin(p)
      PROVE  Goal
  <2>1. Batch(Claimable) \subseteq Unpublished
    BY DEF Batch, Claimable
  <2>2. \A q \in Polls : Batch(Claimable) \intersect claim[q] = {}
    BY DEF Batch, Claimable, Locked
  <2> QED
    BY <1>3, <2>1, <2>2 DEF Begin
<1>4. ASSUME NEW p \in Polls, Publish(p)
      PROVE  Goal
  BY <1>4 DEF Publish, Oldest
<1>5. ASSUME NEW p \in Polls, Mark(p)
      PROVE  Goal
  BY <1>5 DEF Mark
<1>6. ASSUME NEW p \in Polls, Commit(p)
      PROVE  Goal
  BY <1>6 DEF Commit, Idle
<1>7. ASSUME NEW p \in Polls, End(p)
      PROVE  Goal
  BY <1>7 DEF End, Idle
<1>8. ASSUME NEW p \in Polls, PublishFails(p)
      PROVE  Goal
  BY <1>8 DEF PublishFails, Idle
<1>9. ASSUME NEW p \in Polls, TransactionTimeout(p)
      PROVE  Goal
  BY <1>9 DEF TransactionTimeout, Oldest
<1>10. ASSUME NEW x \in Relays, Crash(x)
       PROVE  Goal
  BY <1>10 DEF Crash, Idle
<1> QED
  BY <1>1, <1>2, <1>3, <1>4, <1>5, <1>6, <1>7, <1>8, <1>9, <1>10 DEF Next, PollStep

\* The ledger is kept for a row whose possible publishes do not grow, whose
\* count of sends stays, and that is not released without a rollback.
LEMMA LedgerKept ==
  ASSUME NEW r, MaySend(r)' \subseteq MaySend(r),
         sent[r] \in Nat, rollbacks[r] \in Nat, rollbacks'[r] \in Nat,
         sent'[r] = sent[r],
         rollbacks[r] + Spoken(r) <= rollbacks'[r] + Spoken(r)',
         sent[r] + Cardinality(MaySend(r)) <= rollbacks[r] + Spoken(r)
  PROVE  (sent[r] + Cardinality(MaySend(r)) <= rollbacks[r] + Spoken(r))'
<1>1. Cardinality(MaySend(r)') <= Cardinality(MaySend(r)) /\ Cardinality(MaySend(r)') \in Nat
  BY MaySendFinite, FS_Subset, FS_CardinalityType
<1>2. Spoken(r) \in {0, 1} /\ Spoken(r)' \in {0, 1}
  BY DEF Spoken
<1> QED
  BY <1>1, <1>2, MaySendFinite

\* A rollback of the polls P pays for every row it releases.
LEMMA RollBackPays ==
  ASSUME TypeOK, ClaimsAreDisjoint, NEW P \in SUBSET Polls, RollBack(P),
         row' = row, claim' = [p \in Polls |-> IF p \in P THEN {} ELSE claim[p]],
         NEW r \in Rows
  PROVE  /\ rollbacks[r] \in Nat /\ rollbacks'[r] \in Nat
         /\ rollbacks[r] + Spoken(r) <= rollbacks'[r] + Spoken(r)'
<1>1. CASE r \in UNION {claim[p] : p \in P}
  BY <1>1, SpokenType DEF TypeOK, RollBack, Spoken
<1>2. CASE r \notin UNION {claim[p] : p \in P}
  <2>1. r \in Locked => r \in Locked'
    BY <1>2 DEF Locked
  <2> QED
    BY <1>2, <2>1 DEF TypeOK, RollBack, Spoken
<1> QED
  BY <1>1, <1>2

\* Claiming a row takes up its next publish; publishing moves one from what may
\* be sent to what was; committing keeps the claim's place; rollbacks pay.
LEMMA LedgerStep ==
  ASSUME IInv, [Next]_vars
  PROVE  Ledger'
<1> SUFFICES ASSUME NEW r \in Rows
             PROVE  (sent[r] + Cardinality(MaySend(r)) <= rollbacks[r] + Spoken(r))'
  BY DEF Ledger
<1> DEFINE Kept == (sent[r] + Cardinality(MaySend(r)) <= rollbacks[r] + Spoken(r))'
<1>0. sent[r] + Cardinality(MaySend(r)) <= rollbacks[r] + Spoken(r)
  BY DEF IInv, Ledger
<1>types. sent[r] \in Nat /\ rollbacks[r] \in Nat
  BY DEF IInv, TypeOK
<1>1. CASE UNCHANGED vars
  <2>1. MaySend(r)' = MaySend(r) /\ Spoken(r)' = Spoken(r)
    BY <1>1 DEF vars, pollVars, MaySend, Spoken, Locked
  <2> QED
    BY <1>0, <1>1, <2>1 DEF vars
<1>2. ASSUME NEW w \in Rows, Write(w)
      PROVE  Kept
  <2>1. MaySend(r)' = MaySend(r)
    BY <1>2 DEF Write, pollVars, MaySend
  <2>2. Spoken(r)' = Spoken(r)
    BY <1>2 DEF Write, pollVars, Spoken, Locked, IInv, TypeOK
  <2> QED
    BY <1>0, <1>2, <2>1, <2>2 DEF Write
<1>3. ASSUME NEW p \in Polls, Begin(p)
      PROVE  Kept
  <2>1. CASE r \in Batch(Claimable)
    <3>1. MaySend(r)' = MaySend(r) \union {p}
      BY <1>3, <2>1 DEF Begin, MaySend, IInv, TypeOK
    <3>2. Spoken(r) = 0
      BY <2>1 DEF Batch, Claimable, Unpublished, Spoken
    <3>3. Spoken(r)' = 1
      BY <1>3, <2>1 DEF Begin, Spoken, Locked, IInv, TypeOK
    <3>4. Cardinality(MaySend(r)') <= Cardinality(MaySend(r)) + 1
          /\ Cardinality(MaySend(r)') \in Nat
      <4>1. IsFiniteSet(MaySend(r)) /\ Cardinality(MaySend(r)) \in Nat
        BY MaySendFinite
      <4>2. Cardinality(MaySend(r) \union {p}) =
              IF p \in MaySend(r) THEN Cardinality(MaySend(r))
                                  ELSE Cardinality(MaySend(r)) + 1
        BY <4>1, FS_AddElement, Zenon
      <4> QED
        BY <3>1, <4>1, <4>2
    <3> QED
      BY <1>0, <1>types, <1>3, <3>2, <3>3, <3>4, MaySendFinite DEF Begin
  <2>2. CASE r \notin Batch(Claimable)
    <3>1. MaySend(r)' \subseteq MaySend(r)
      BY <1>3, <2>2 DEF Begin, MaySend, IInv, TypeOK
    <3>2. Spoken(r)' = Spoken(r)
      BY <1>3, <2>2 DEF Begin, Spoken, Locked, IInv, TypeOK
    <3> QED
      BY <1>0, <1>types, <1>3, <3>1, <3>2, LedgerKept, SpokenType DEF Begin
  <2> QED
    BY <2>1, <2>2
<1>4. ASSUME NEW p \in Polls, Publish(p)
      PROVE  Kept
  <2>1. PICK x \in Oldest(todo[p]) :
          /\ sent' = [sent EXCEPT ![x] = @ + 1]
          /\ todo' = [todo EXCEPT ![p] = @ \ {x}]
    BY <1>4 DEF Publish
  <2>2. x \in todo[p] /\ x \in Rows
    BY <2>1 DEF Oldest, IInv, TypeOK
  <2>3. Spoken(r)' = Spoken(r)
    BY <1>4 DEF Publish, Spoken, Locked
  <2>4. CASE r = x
    <3>1. p \in MaySend(r) /\ MaySend(r)' = MaySend(r) \ {p}
      BY <2>1, <2>2, <2>4 DEF MaySend, IInv, TypeOK
    <3>2. Cardinality(MaySend(r)') = Cardinality(MaySend(r)) - 1
      BY <3>1, MaySendFinite, FS_RemoveElement
    <3>3. sent'[r] = sent[r] + 1
      BY <2>1, <2>2, <2>4 DEF IInv, TypeOK
    <3> QED
      BY <1>0, <1>types, <1>4, <2>3, <3>2, <3>3, MaySendFinite, SpokenType DEF Publish
  <2>5. CASE r # x
    <3>1. MaySend(r)' \subseteq MaySend(r)
      BY <2>1, <2>2, <2>5 DEF MaySend, IInv, TypeOK
    <3>2. sent'[r] = sent[r]
      BY <2>1, <2>2, <2>5 DEF IInv, TypeOK
    <3> QED
      BY <1>0, <1>types, <1>4, <2>3, <3>1, <3>2, LedgerKept, SpokenType DEF Publish
  <2> QED
    BY <2>4, <2>5
<1>5. ASSUME NEW p \in Polls, Mark(p)
      PROVE  Kept
  <2>1. MaySend(r)' = MaySend(r) /\ Spoken(r)' = Spoken(r)
    BY <1>5 DEF Mark, MaySend, Spoken, Locked
  <2> QED
    BY <1>0, <1>5, <2>1 DEF Mark
<1>6. ASSUME NEW p \in Polls, Commit(p)
      PROVE  Kept
  <2>1. MaySend(r)' \subseteq MaySend(r)
    BY <1>6 DEF Commit, Idle, MaySend
  <2>2. CASE r \in claim[p]
    BY <1>0, <1>types, <1>6, <2>1, <2>2, LedgerKept, SpokenType DEF Commit, Spoken
  <2>3. CASE r \notin claim[p]
    <3>1. r \in Locked => r \in Locked'
      BY <1>6, <2>3 DEF Commit, Idle, Locked
    <3>2. row'[r] = row[r]
      BY <1>6, <2>3 DEF Commit
    <3>3. Spoken(r) <= Spoken(r)' /\ Spoken(r) \in {0, 1} /\ Spoken(r)' \in {0, 1}
      BY <3>1, <3>2 DEF Spoken
    <3> QED
      BY <1>0, <1>types, <1>6, <2>1, <3>3, LedgerKept DEF Commit
  <2> QED
    BY <2>2, <2>3
<1>7. ASSUME NEW p \in Polls, End(p)
      PROVE  Kept
  <2>1. MaySend(r)' \subseteq MaySend(r)
    BY <1>7 DEF End, Idle, MaySend
  <2>2. Spoken(r)' = Spoken(r)
    BY <1>7 DEF End, Idle, Spoken, Locked
  <2> QED
    BY <1>0, <1>types, <1>7, <2>1, <2>2, LedgerKept, SpokenType DEF End
<1>8. ASSUME NEW p \in Polls, PublishFails(p)
      PROVE  Kept
  <2>1. MaySend(r)' \subseteq MaySend(r)
    BY <1>8 DEF PublishFails, Idle, MaySend
  <2>2. rollbacks'[r] \in Nat /\ rollbacks[r] + Spoken(r) <= rollbacks'[r] + Spoken(r)'
    BY <1>8, RollBackPays DEF PublishFails, Idle, IInv
  <2> QED
    BY <1>0, <1>types, <1>8, <2>1, <2>2, LedgerKept DEF PublishFails
<1>9. ASSUME NEW p \in Polls, TransactionTimeout(p)
      PROVE  Kept
  <2>1. MaySend(r)' \subseteq MaySend(r)
    BY <1>9 DEF TransactionTimeout, MaySend, Oldest, IInv, TypeOK
  <2>2. claim' = [q \in Polls |-> IF q \in {p} THEN {} ELSE claim[q]]
    BY <1>9 DEF TransactionTimeout, IInv, TypeOK
  <2>3. rollbacks'[r] \in Nat /\ rollbacks[r] + Spoken(r) <= rollbacks'[r] + Spoken(r)'
    BY <1>9, <2>2, RollBackPays DEF TransactionTimeout, IInv
  <2> QED
    BY <1>0, <1>types, <1>9, <2>1, <2>3, LedgerKept DEF TransactionTimeout
<1>10. ASSUME NEW x \in Relays, Crash(x)
       PROVE  Kept
  <2>1. MaySend(r)' \subseteq MaySend(r)
    BY <1>10 DEF Crash, Idle, MaySend
  <2>2. rollbacks'[r] \in Nat /\ rollbacks[r] + Spoken(r) <= rollbacks'[r] + Spoken(r)'
    BY <1>10, RollBackPays DEF Crash, Idle, IInv
  <2> QED
    BY <1>0, <1>types, <1>10, <2>1, <2>2, LedgerKept DEF Crash
<1> QED
  BY <1>1, <1>2, <1>3, <1>4, <1>5, <1>6, <1>7, <1>8, <1>9, <1>10 DEF Next, PollStep

\* The strengthened invariant holds of every reachable state.
LEMMA Invariance == Spec => []IInv
<1>1. Init => IInv
  <2>1. ASSUME Init, NEW r \in Rows
        PROVE  sent[r] = 0 /\ rollbacks[r] = 0 /\ Cardinality(MaySend(r)) = 0
    BY <2>1, FS_EmptySet DEF Init, MaySend
  <2>2. Init => Ledger
    BY <2>1, SpokenType DEF Ledger
  <2>3. Init => TypeOK
    BY RelayAssumption DEF Init, TypeOK
  <2> QED
    BY <2>2, <2>3 DEF Init, IInv, ClaimsAreDisjoint, TodoIsWritten, DoneWasSent,
                      MarkedWasSent, Unpublished
<1>2. IInv /\ [Next]_vars => IInv'
  BY TypeStep, ClaimStep, LedgerStep DEF IInv
<1> QED
  BY <1>1, <1>2, PTL DEF Spec

\* Every variable keeps its type, and an idle poll has nothing claimed.
THEOREM TypeCorrect == Spec => []TypeOK
BY Invariance, PTL DEF IInv

\* No two open transactions hold one row, and none holds a published one.
THEOREM BatchesAreDisjoint == Spec => []ClaimsAreDisjoint
BY Invariance, PTL DEF IInv

\* At-least-once: no row is marked whose event the broker does not have.
THEOREM MarkedRowsWereSent == Spec => []MarkedWasSent
BY Invariance, PTL DEF IInv

\* An event is published at most once more than its claims were rolled back.
THEOREM DuplicatesArePaidFor == Spec => []DuplicatesOnlyAfterRollback
<1>1. IInv => DuplicatesOnlyAfterRollback
  BY MaySendFinite, SpokenType DEF IInv, TypeOK, Ledger, DuplicatesOnlyAfterRollback
<1> QED
  BY <1>1, Invariance, PTL

\* Rolling back open transactions is a rollback of the rows they had claimed,
\* or nothing when they had claimed none.
LEMMA RollBackMaps ==
  ASSUME IInv, NEW P \in SUBSET Polls, RollBack(P), UNCHANGED <<row, sent>>
  PROVE  [O!Next]_O!vars
<1> DEFINE R == UNION {claim[p] : p \in P}
<1>1. R \subseteq O!Unpublished
  BY DEF IInv, ClaimsAreDisjoint, Unpublished, O!Unpublished
<1>2. O!RollBack(R)
  BY DEF RollBack, O!RollBack
<1>3. CASE R = {}
  <2>1. rollbacks' = rollbacks
    BY <1>3 DEF RollBack, IInv, TypeOK
  <2> QED
    BY <2>1 DEF O!vars
<1>4. CASE R # {}
  <2>1. R \in (SUBSET O!Unpublished) \ {{}}
    BY <1>1, <1>4
  <2> QED
    BY <1>2, <2>1 DEF O!Next
<1> QED
  BY <1>3, <1>4

\* Every step of the relay is a step of the outbox or invisible to it.
LEMMA StepMaps ==
  ASSUME IInv, [Next]_vars
  PROVE  [O!Next]_O!vars
<1>1. CASE UNCHANGED vars
  BY <1>1 DEF vars, O!vars
<1>2. ASSUME NEW r \in Rows, Write(r)
      PROVE  O!Next
  BY <1>2 DEF Write, O!Write, O!Next
<1>3. ASSUME NEW p \in Polls, Publish(p)
      PROVE  O!Next
  <2>1. PICK r \in Oldest(todo[p]) : sent' = [sent EXCEPT ![r] = @ + 1]
    BY <1>3 DEF Publish
  <2>2. r \in Rows /\ p \in MaySend(r) /\ row[r] # "none"
    BY <2>1 DEF Oldest, IInv, TypeOK, MaySend, TodoIsWritten
  <2>3. Cardinality(MaySend(r)) # 0
    BY <2>2, MaySendFinite, FS_EmptySet
  <2>4. sent[r] <= rollbacks[r]
    BY <2>2, <2>3, MaySendFinite, SpokenType DEF IInv, TypeOK, Ledger
  <2> QED
    BY <1>3, <2>1, <2>2, <2>4 DEF Publish, O!Publish, O!Next
<1>4. ASSUME NEW p \in Polls, Commit(p)
      PROVE  O!Next
  <2>1. claim[p] \in (SUBSET O!Unpublished) \ {{}}
    BY <1>4 DEF Commit, IInv, ClaimsAreDisjoint, Unpublished, O!Unpublished
  <2>2. O!Mark(claim[p])
    BY <1>4 DEF Commit, O!Mark, IInv, DoneWasSent
  <2> QED
    BY <2>1, <2>2 DEF O!Next
<1>5. ASSUME NEW p \in Polls, Begin(p) \/ Mark(p) \/ End(p)
      PROVE  UNCHANGED O!vars
  BY <1>5 DEF Begin, Mark, End, O!vars
<1>6. ASSUME NEW p \in Polls, PublishFails(p) \/ TransactionTimeout(p)
      PROVE  [O!Next]_O!vars
  BY <1>6, RollBackMaps DEF PublishFails, TransactionTimeout
<1>7. ASSUME NEW x \in Relays, Crash(x)
      PROVE  [O!Next]_O!vars
  BY <1>7, RollBackMaps DEF Crash
<1> QED
  BY <1>1, <1>2, <1>3, <1>4, <1>5, <1>6, <1>7 DEF Next, PollStep

\* Batches, replicas, overlapping polls, timeouts and crashes implement the
\* outbox that OrderSaga is built on.
THEOREM RelayImplementsOutbox == Spec => ImplementsOutbox
<1>1. Init => O!Init
  BY DEF Init, O!Init
<1> QED
  BY <1>1, StepMaps, Invariance, PTL DEF Spec, O!Spec, ImplementsOutbox
===============================================================================
