--------------------------- MODULE ConnectionProofs ---------------------------
(***************************************************************************)
(* The safety of getChannel for any number of callers, connection names    *)
(* and faults.                                                             *)
(***************************************************************************)
EXTENDS Connection, FiniteSetTheorems, FunctionTheorems, TLAPS

\* establishChannel awaits amqp.connect while the socket is being opened.
SetupMatchesLink == \A k \in Conns : setup[k] = "connect" <=> link[k] = "connecting"

\* Nobody starts an attempt while a channel is cached.
NothingCached == Attempts # {} => channel = None

AttemptInv == SetupMatchesLink /\ NothingCached /\ OneAttempt /\ CachedIsUsable

Broken == {k \in Conns : link[k] = "broken"}

\* Nothing is cached, and the attempt under way, if any, has no connection that
\* could be.
Vacant == channel = None /\ \A k \in Attempts : link[k] \notin {"open", "broken"}

\* The connections the process can get to without another fault: those it has,
\* one more for each that it will see disconnect, and one if it has to start
\* over.
Reach == Cardinality(Live) + Cardinality(Broken) + (IF Vacant THEN 1 ELSE 0)

ReachBounded == Reach <= 2 ^ faults
-----------------------------------------------------------------------------
LEMMA TypeStep == TypeOK /\ [Next]_vars => TypeOK'
<1> SUFFICES ASSUME TypeOK, [Next]_vars
             PROVE  TypeOK'
  OBVIOUS
<1> USE ConnectionAssumption DEF TypeOK
<1>1. CASE UNCHANGED vars
  BY <1>1 DEF vars, processVars
<1>2. ASSUME NEW c \in Callers, GetChannel(c)
      PROVE  TypeOK'
  BY <1>2 DEF GetChannel, Free, Progress, Await
<1>3. ASSUME NEW k \in Conns, Connect(k) \/ CreateConfirmChannel(k)
      PROVE  TypeOK'
  BY <1>3 DEF Connect, CreateConfirmChannel, Progress
<1>4. ASSUME NEW k \in Conns, AssertTopology(k) \/ ConnectFails(k)
      PROVE  TypeOK'
  BY <1>4 DEF AssertTopology, ConnectFails, Progress, Settle
<1>5. ASSUME NEW k \in Conns, SetupFails(k) \/ SetupRefused(k)
      PROVE  TypeOK'
  BY <1>5 DEF SetupFails, SetupRefused, Settle, Fault
<1>6. ASSUME NEW k \in Conns, Disconnect(k) \/ Recover(k) \/ Drop(k)
      PROVE  TypeOK'
  BY <1>6 DEF Disconnect, Recover, Drop, Fault
<1>7. CASE Outage
  <2>1. link' \in [Conns -> {"unused", "connecting", "open", "broken", "down"}]
    BY <1>7 DEF Outage
  <2>2. \A k \in Conns : link'[k] = "unused" <=> link[k] = "unused"
    BY <1>7 DEF Outage
  <2>3. faults' \in 0 .. MaxFaults
    BY <1>7 DEF Outage, Fault
  <2>4. broker' \in BOOLEAN
    BY <1>7 DEF Outage
  <2> QED
    BY <1>7, <2>1, <2>2, <2>3, <2>4 DEF Outage
<1>8. CASE BrokerBack
  BY <1>8 DEF BrokerBack, processVars
<1>9. CASE CloseMessaging
  BY <1>9 DEF CloseMessaging, Fault
<1>10. CASE Exit
  BY <1>10 DEF Exit
<1> QED
  BY <1>1, <1>2, <1>3, <1>4, <1>5, <1>6, <1>7, <1>8, <1>9, <1>10 DEF Next, Step

LEMMA AttemptStep ==
  ASSUME TypeOK, AttemptInv, [Next]_vars
  PROVE  AttemptInv'
<1> USE ConnectionAssumption
    DEF TypeOK, AttemptInv, SetupMatchesLink, NothingCached, OneAttempt, CachedIsUsable,
        Attempts
<1>1. CASE UNCHANGED vars
  BY <1>1 DEF vars, processVars
<1>2. ASSUME NEW c \in Callers, GetChannel(c)
      PROVE  AttemptInv'
  BY <1>2 DEF GetChannel, Free, Progress, Await
<1>3. ASSUME NEW k \in Conns, Connect(k) \/ CreateConfirmChannel(k)
      PROVE  AttemptInv'
  BY <1>3 DEF Connect, CreateConfirmChannel, Progress
<1>4. ASSUME NEW k \in Conns, AssertTopology(k) \/ ConnectFails(k)
      PROVE  AttemptInv'
  <2>1. CASE AssertTopology(k)
    BY <2>1 DEF AssertTopology, Progress, Settle
  <2>2. CASE ConnectFails(k)
    BY <2>2 DEF ConnectFails, Progress, Settle
  <2> QED
    BY <1>4, <2>1, <2>2
<1>5. ASSUME NEW k \in Conns, SetupFails(k) \/ SetupRefused(k)
      PROVE  AttemptInv'
  BY <1>5 DEF SetupFails, SetupRefused, Settle, Fault
<1>6. ASSUME NEW k \in Conns, Disconnect(k) \/ Recover(k) \/ Drop(k)
      PROVE  AttemptInv'
  BY <1>6 DEF Disconnect, Recover, Drop, Fault
<1>7. CASE Outage \/ BrokerBack
  BY <1>7 DEF Outage, BrokerBack, Fault, processVars
<1>8. CASE CloseMessaging
  BY <1>8 DEF CloseMessaging, Fault
<1>9. CASE Exit
  BY <1>9 DEF Exit
<1> QED
  BY <1>1, <1>2, <1>3, <1>4, <1>5, <1>6, <1>7, <1>8, <1>9 DEF Next, Step

LEMMA AttemptInvariance == Spec => [](TypeOK /\ AttemptInv)
<1>1. Init => TypeOK /\ AttemptInv
  <2>1. Init => TypeOK
    <3>1. 0 \in 0 .. MaxFaults
      BY ConnectionAssumption
    <3> QED
      BY <3>1 DEF Init, TypeOK
  <2>2. Init => AttemptInv
    BY DEF Init, AttemptInv, SetupMatchesLink, NothingCached, OneAttempt, CachedIsUsable,
           Attempts
  <2> QED
    BY <2>1, <2>2
<1> QED
  BY <1>1, TypeStep, AttemptStep, PTL DEF Spec

\* Init and every step keep the variables in their types.
THEOREM TypeCorrect == Spec => []TypeOK
BY AttemptInvariance, PTL

\* Whatever fails, disconnects, closes or restarts in the middle of an attempt,
\* there is never a second one and nobody waits for another.
THEOREM AttemptsAreShared == Spec => []OneAttempt
BY AttemptInvariance, PTL DEF AttemptInv

\* A cached channel has its topology, and its connection has not been seen to
\* disconnect.
THEOREM CachedChannelsAreUsable == Spec => []CachedIsUsable
BY AttemptInvariance, PTL DEF AttemptInv
-----------------------------------------------------------------------------
\* The powers of two count the subsets of 1 .. n, which is how the finite-set
\* theorems know of them.
LEMMA PowersOfTwo ==
  ASSUME NEW n \in Nat
  PROVE  2 ^ n \in Nat /\ 2 ^ (n + 1) = 2 * 2 ^ n
<1> DEFINE S == 1 .. n
           x == n + 1
           T == {A \union {x} : A \in SUBSET S}
           f == [A \in SUBSET S |-> A \union {x}]
<1>1. IsFiniteSet(S) /\ Cardinality(S) = n
  BY FS_Interval
<1>2. IsFiniteSet(SUBSET S) /\ Cardinality(SUBSET S) = 2 ^ n
  BY <1>1, FS_SUBSET
<1>3. x \notin S
  OBVIOUS
<1>4. Cardinality(SUBSET (S \union {x})) = 2 ^ (n + 1)
  <2>1. IsFiniteSet(S \union {x}) /\ Cardinality(S \union {x}) = n + 1
    BY <1>1, <1>3, FS_AddElement
  <2> QED
    BY <2>1, FS_SUBSET
<1>5. IsFiniteSet(T) /\ Cardinality(T) = 2 ^ n
  <2>1. f \in [SUBSET S -> T]
    OBVIOUS
  <2>2. \A A, B \in SUBSET S : f[A] = f[B] => A = B
    BY <1>3
  <2>3. \A B \in T : \E A \in SUBSET S : f[A] = B
    OBVIOUS
  <2> HIDE DEF f
  <2>4. f \in Bijection(SUBSET S, T)
    BY <2>1, <2>2, <2>3, Fun_IsBij
  <2> QED
    BY <1>2, <2>4, FS_Bijection DEF ExistsBijection
<1>6. SUBSET (S \union {x}) = (SUBSET S) \union T
  <2>1. ASSUME NEW A \in SUBSET (S \union {x}), x \in A
        PROVE  A \in T
    <3>1. A \ {x} \in SUBSET S /\ A = (A \ {x}) \union {x}
      BY <2>1
    <3> QED
      BY <3>1
  <2> QED
    BY <2>1
<1>7. (SUBSET S) \cap T = {}
  BY <1>3
<1> HIDE DEF S, x, T, f
<1>8. Cardinality(SUBSET (S \union {x})) = 2 ^ n + 2 ^ n - 0
  <2>1. Cardinality((SUBSET S) \cap T) = 0
    BY <1>7, FS_EmptySet
  <2> QED
    BY <1>2, <1>5, <1>6, <2>1, FS_Union
<1>9. 2 ^ n \in Nat
  BY <1>2, FS_CardinalityType
<1> QED
  BY <1>4, <1>8, <1>9

LEMMA ReachParts ==
  /\ IsFiniteSet(Live) /\ Cardinality(Live) \in Nat
  /\ IsFiniteSet(Broken) /\ Cardinality(Broken) \in Nat
  /\ Reach \in Nat /\ Reach' \in Nat
<1>1. /\ Live \subseteq Conns /\ Broken \subseteq Conns /\ IsFiniteSet(Conns)
      /\ Live' \subseteq Conns /\ Broken' \subseteq Conns
  BY ConnectionAssumption DEF Live, Broken
<1>2. Cardinality(Live') \in Nat /\ Cardinality(Broken') \in Nat
  BY <1>1, FS_Subset, FS_CardinalityType
<1> QED
  BY <1>1, <1>2, FS_Subset, FS_CardinalityType DEF Reach

\* There is a connection, an attempt at one or room for one.
LEMMA ReachPositive ==
  ASSUME TypeOK, AttemptInv
  PROVE  Reach >= 1
<1>1. CASE Vacant
  BY <1>1, ReachParts DEF Reach
<1>2. CASE ~ Vacant
  <2>1. Live # {}
    BY <1>2 DEF TypeOK, Vacant, Live, AttemptInv, CachedIsUsable, Attempts
  <2>2. Cardinality(Live) # 0
    BY <2>1, ReachParts, FS_EmptySet
  <2> QED
    BY <2>2, ReachParts DEF Reach
<1> QED
  BY <1>1, <1>2

\* A step that opens no connection, breaks none and vacates nothing.
LEMMA ReachShrinks ==
  ASSUME Live' \subseteq Live, Broken' \subseteq Broken, Vacant' => Vacant
  PROVE  Reach' <= Reach
<1>1. Cardinality(Live') <= Cardinality(Live) /\ Cardinality(Live') \in Nat
  BY ReachParts, FS_Subset, FS_CardinalityType
<1>2. Cardinality(Broken') <= Cardinality(Broken) /\ Cardinality(Broken') \in Nat
  BY ReachParts, FS_Subset, FS_CardinalityType
<1> QED
  BY <1>1, <1>2, ReachParts DEF Reach

\* Without a fault the reach does not grow, and a fault at most doubles it.
LEMMA ReachStep ==
  ASSUME TypeOK, AttemptInv, [Next]_vars
  PROVE  Reach' <= Reach \/ (faults' = faults + 1 /\ Reach' <= 2 * Reach)
<1> DEFINE L == Cardinality(Live)
           B == Cardinality(Broken)
           NoGrowth == Live' \subseteq Live /\ Broken' \subseteq Broken /\ (Vacant' => Vacant)
<1>1. L \in Nat /\ B \in Nat /\ Reach \in Nat /\ Reach >= 1
  BY ReachParts, ReachPositive
<1>2. \A k \in Attempts : k = connecting /\ channel = None
  BY DEF AttemptInv, OneAttempt, NothingCached
<1>3. CASE UNCHANGED vars \/ BrokerBack
  <2>1. NoGrowth
    BY <1>3 DEF BrokerBack, vars, processVars, Live, Broken, Vacant, Attempts
  <2> QED
    BY <2>1, ReachShrinks
<1>4. ASSUME NEW c \in Callers, GetChannel(c)
      PROVE  Reach' <= Reach
  <2>1. CASE UNCHANGED <<link, setup, channel>>
    <3>1. NoGrowth
      BY <2>1 DEF Live, Broken, Vacant, Attempts
    <3> QED
      BY <3>1, ReachShrinks
  <2>2. ASSUME NEW k \in Free, connecting = None, channel = None,
               link' = [link EXCEPT ![k] = "connecting"]
        PROVE  Reach' <= Reach
    <3>1. Live' \subseteq Live /\ Broken' \subseteq Broken
      BY <2>2 DEF TypeOK, Live, Broken, Free
    <3>2. Vacant
      BY <1>2, <2>2, ConnectionAssumption DEF Vacant, Attempts
    <3> QED
      BY <3>1, <3>2, ReachShrinks
  <2> QED
    BY <1>4, <2>1, <2>2 DEF GetChannel
<1>5. ASSUME NEW k \in Conns, Connect(k)
      PROVE  Reach' <= Reach
  <2>1. k \in Attempts /\ link[k] = "connecting"
    BY <1>5 DEF Connect, Progress, Attempts, AttemptInv, SetupMatchesLink
  <2>2. Live' = Live \union {k} /\ k \notin Live /\ Broken' = Broken
    BY <1>5, <2>1 DEF Connect, TypeOK, Live, Broken
  <2>3. Vacant
    BY <1>2, <2>1 DEF Vacant
  <2>4. ~ Vacant'
    BY <1>5 DEF Connect, Progress, TypeOK, Vacant, Attempts
  <2>5. Cardinality(Live') = L + 1
    BY <2>2, ReachParts, FS_AddElement
  <2> QED
    BY <1>1, <2>2, <2>3, <2>4, <2>5 DEF Reach
<1>6. ASSUME NEW k \in Conns, CreateConfirmChannel(k) \/ AssertTopology(k)
      PROVE  Reach' <= Reach
  <2>1. link' = link /\ ~ Vacant'
    BY <1>6, ConnectionAssumption
       DEF CreateConfirmChannel, AssertTopology, Progress, TypeOK, Vacant, Attempts
  <2>2. NoGrowth
    BY <2>1 DEF Live, Broken
  <2> QED
    BY <2>2, ReachShrinks
<1>7. ASSUME NEW k \in Conns, ConnectFails(k) \/ SetupFails(k)
      PROVE  Reach' <= Reach
  <2>1. k \in Attempts /\ link[k] \in {"connecting", "down"}
    BY <1>7 DEF ConnectFails, SetupFails, Progress, Attempts, AttemptInv, SetupMatchesLink
  <2>2. Live' \subseteq Live /\ Broken' \subseteq Broken
    BY <1>7, <2>1 DEF ConnectFails, SetupFails, TypeOK, Live, Broken
  <2>3. Vacant
    BY <1>2, <2>1 DEF Vacant
  <2> QED
    BY <2>2, <2>3, ReachShrinks
<1>8. ASSUME NEW k \in Conns, SetupRefused(k)
      PROVE  faults' = faults + 1 /\ Reach' <= 2 * Reach
  <2>1. Live' = Live /\ Broken' = Broken /\ faults' = faults + 1
    BY <1>8 DEF SetupRefused, Fault, Live, Broken
  <2> QED
    BY <1>1, <2>1 DEF Reach
<1>9. CASE Outage
  <2>1. Live' = Live /\ Broken' \subseteq Live /\ faults' = faults + 1
    BY <1>9 DEF Outage, Fault, Live, Broken
  <2>2. Vacant' => Vacant
    BY <1>9 DEF Outage, Vacant, Attempts
  <2>3. Cardinality(Broken') <= L /\ Cardinality(Broken') \in Nat
    BY <2>1, ReachParts, FS_Subset, FS_CardinalityType
  <2> QED
    BY <1>1, <2>1, <2>2, <2>3 DEF Reach
<1>10. ASSUME NEW k \in Conns, Drop(k)
       PROVE  faults' = faults + 1 /\ Reach' <= 2 * Reach
  <2>1. Live' = Live /\ Broken' = Broken \union {k} /\ faults' = faults + 1
    BY <1>10 DEF Drop, Fault, TypeOK, Live, Broken
  <2>2. Vacant' => Vacant
    BY <1>10 DEF Drop, TypeOK, Vacant, Attempts
  <2>3. Cardinality(Broken') = B + 1
    <3>1. k \notin Broken
      BY <1>10 DEF Drop, Broken
    <3> QED
      BY <2>1, <3>1, ReachParts, FS_AddElement
  <2> QED
    BY <1>1, <2>1, <2>2, <2>3 DEF Reach
<1>11. ASSUME NEW k \in Conns, Disconnect(k)
       PROVE  Reach' <= Reach
  <2>1. Live' = Live /\ Broken' = Broken \ {k} /\ k \in Broken
    BY <1>11 DEF Disconnect, TypeOK, Live, Broken
  <2>2. Cardinality(Broken') = B - 1
    BY <2>1, ReachParts, FS_RemoveElement
  <2> QED
    BY <1>1, <2>1, <2>2 DEF Reach
<1>12. ASSUME NEW k \in Conns, Recover(k)
       PROVE  Reach' <= Reach
  <2>1. NoGrowth
    BY <1>12 DEF Recover, TypeOK, Live, Broken, Vacant, Attempts
  <2> QED
    BY <2>1, ReachShrinks
<1>13. CASE CloseMessaging
  <2>1. Live' \subseteq Live /\ Broken' \subseteq Broken /\ faults' = faults + 1
    BY <1>13 DEF CloseMessaging, Fault, Live, Broken
  <2>2. Cardinality(Live') <= L /\ Cardinality(Live') \in Nat
    BY <2>1, ReachParts, FS_Subset, FS_CardinalityType
  <2>3. Cardinality(Broken') <= B /\ Cardinality(Broken') \in Nat
    BY <2>1, ReachParts, FS_Subset, FS_CardinalityType
  <2> QED
    BY <1>1, <2>1, <2>2, <2>3 DEF Reach
<1>14. CASE Exit
  <2>1. Live' = {} /\ Broken' = {}
    BY <1>14 DEF Exit, Live, Broken
  <2>2. Cardinality(Live') = 0 /\ Cardinality(Broken') = 0
    BY <2>1, FS_EmptySet
  <2> QED
    BY <1>1, <2>2 DEF Reach
<1> HIDE DEF L, B, NoGrowth
<1> QED
  BY <1>3, <1>4, <1>5, <1>6, <1>7, <1>8, <1>9, <1>10, <1>11, <1>12, <1>13, <1>14
     DEF Next, Step

LEMMA FaultsGrow ==
  ASSUME TypeOK, [Next]_vars
  PROVE  faults' = faults \/ faults' = faults + 1
BY DEF Next, Step, vars, processVars, GetChannel, Connect, CreateConfirmChannel,
       AssertTopology, ConnectFails, SetupFails, SetupRefused, Outage, Drop, BrokerBack,
       Disconnect, Recover, CloseMessaging, Exit, Fault

LEMMA ReachBoundedStep ==
  ASSUME TypeOK, AttemptInv, ReachBounded, [Next]_vars
  PROVE  ReachBounded'
<1>1. faults \in Nat /\ Reach \in Nat /\ Reach' \in Nat
  <2>1. faults \in Nat
    BY ConnectionAssumption DEF TypeOK
  <2> QED
    BY <2>1, ReachParts
<1>2. 2 ^ faults \in Nat /\ 2 ^ (faults + 1) = 2 * 2 ^ faults
  BY <1>1, PowersOfTwo
<1>3. CASE Reach' <= Reach
  BY <1>1, <1>2, <1>3, FaultsGrow DEF ReachBounded
<1>4. CASE faults' = faults + 1 /\ Reach' <= 2 * Reach
  BY <1>1, <1>2, <1>4 DEF ReachBounded
<1> QED
  BY <1>3, <1>4, ReachStep

\* A process never keeps more than 2 ^ faults connections: each one forgotten
\* may cost it the cached channel once more when it disconnects.
THEOREM ForgottenConnectionsAreBounded == Spec => []ConnectionsBounded
<1>1. Init => ReachBounded
  <2> SUFFICES ASSUME Init
               PROVE  Reach <= 2 ^ faults
    BY DEF ReachBounded
  <2>1. Cardinality(Live) = 0 /\ Cardinality(Broken) = 0
    BY FS_EmptySet DEF Init, Live, Broken
  <2>2. 2 ^ faults \in Nat /\ 2 ^ faults >= 1
    <3>1. IsFiniteSet(SUBSET {}) /\ Cardinality(SUBSET {}) = 2 ^ 0
      BY FS_EmptySet, FS_SUBSET
    <3>2. SUBSET {} = {{}}
      OBVIOUS
    <3>3. 2 ^ 0 = 1
      BY <3>1, <3>2, FS_Singleton
    <3> QED
      BY <3>3 DEF Init
  <2> QED
    BY <2>1, <2>2 DEF Reach
<1>2. ReachBounded /\ TypeOK => ConnectionsBounded
  <2> SUFFICES ASSUME ReachBounded, TypeOK
               PROVE  Cardinality(Live) <= 2 ^ faults
    BY DEF ConnectionsBounded
  <2>1. faults \in Nat /\ 2 ^ faults \in Nat
    BY ConnectionAssumption, PowersOfTwo DEF TypeOK
  <2> QED
    BY <2>1, ReachParts DEF ReachBounded, Reach
<1> QED
  BY <1>1, <1>2, ReachBoundedStep, AttemptInvariance, PTL DEF Spec
===============================================================================
