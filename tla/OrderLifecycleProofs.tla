------------------------- MODULE OrderLifecycleProofs -------------------------
(***************************************************************************)
(* What OrderLifecycle promises, for every set of orders and every stock.  *)
(***************************************************************************)
EXTENDS OrderLifecycle, TLAPS

\* Init and every step of the lifecycle keep the variables in their types.
THEOREM TypeCorrect == Spec => []TypeOK
<1>1. Init => TypeOK
  BY DEF Init, TypeOK
<1>2. TypeOK /\ [Next]_vars => TypeOK'
  BY DEF TypeOK, Next, vars, Place, Advance, Hold, Refuse, Confirm, Reject, Return,
         Announce, Become
<1> QED
  BY <1>1, <1>2, PTL DEF Spec

\* Promise is inductive on its own: stock is only taken where it fits, only
\* failed orders give it back, and a decision follows from what was held or
\* refused.
LEMMA PromiseIsInductive ==
  ASSUME LifecycleAssumption, TypeOK, Promise, [Next]_vars
  PROVE  Promise'
<1>1. CASE UNCHANGED vars
  BY <1>1 DEF Promise, vars
<1>2. ASSUME NEW o \in Orders, Place(o)
      PROVE  Promise'
  BY <1>2 DEF TypeOK, Promise, Place, Become
<1>3. ASSUME NEW o \in Orders, Hold(o)
      PROVE  Promise'
  BY <1>3 DEF TypeOK, Promise, Hold
<1>4. ASSUME NEW o \in Orders, Refuse(o)
      PROVE  Promise'
  BY <1>4 DEF TypeOK, Promise, Refuse
<1>5. ASSUME NEW o \in Orders, Confirm(o) \/ Reject(o)
      PROVE  Promise'
  BY <1>5 DEF TypeOK, Promise, Confirm, Reject, Become
<1>6. ASSUME NEW o \in Orders, Return(o)
      PROVE  Promise'
  <2>1. holding' \in Feasible
    BY <1>6 DEF LifecycleAssumption, Promise, Return
  <2> QED
    BY <1>6, <2>1 DEF TypeOK, Promise, Return
<1>7. ASSUME NEW o \in Orders, Announce(o)
      PROVE  Promise'
  BY <1>7 DEF TypeOK, Promise, Announce
<1> QED
  BY <1>1, <1>2, <1>3, <1>4, <1>5, <1>6, <1>7 DEF Next, Advance

\* A confirmed order holds its stock within what there is, a failed one was
\* refused or is over the limit, and nobody is told before the decision.
THEOREM PromiseKept ==
  ASSUME LifecycleAssumption
  PROVE  Spec => []Promise
<1>1. Init => Promise
  BY DEF LifecycleAssumption, Init, Promise
<1>2. TypeOK /\ Promise /\ [Next]_vars => Promise'
  BY PromiseIsInductive
<1> QED
  BY <1>1, <1>2, TypeCorrect, PTL DEF Spec

\* CONFIRMED and FAILED are never left.
THEOREM DecisionsAreFinal == Spec => DecisionIsFinal
<1> DEFINE Keeps(o) == status[o] \in {"CONFIRMED", "FAILED"} => status'[o] = status[o]
<1>1. ASSUME TypeOK, [Next]_vars
      PROVE  \A o \in Orders : Keeps(o)
  BY <1>1 DEF TypeOK, Next, vars, Place, Advance, Hold, Refuse, Confirm, Reject,
              Return, Announce, Become
<1> QED
  BY <1>1, TypeCorrect, PTL DEF Spec, DecisionIsFinal
===============================================================================
