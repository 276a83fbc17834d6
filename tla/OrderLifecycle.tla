---------------------------- MODULE OrderLifecycle ----------------------------
(***************************************************************************)
(* What the system promises the customer of one order, with no queues,     *)
(* workers or transactions in sight: an order is placed, its stock is held *)
(* or refused, it is confirmed or rejected accordingly, stock held for a   *)
(* rejected order goes back, and the outcome is announced once.            *)
(*                                                                         *)
(* OrderSaga implements it as long as nothing fails (run saga_nominal).    *)
(***************************************************************************)
CONSTANTS
  Orders,
  OverLimit,  \* orders whose total is above MAX_ORDER_AMOUNT
  Feasible    \* sets of orders the stock can serve together

LifecycleAssumption ==
  /\ OverLimit \subseteq Orders
  /\ Feasible \subseteq SUBSET Orders
  /\ {} \in Feasible
  /\ \A S \in Feasible : SUBSET S \subseteq Feasible

VARIABLES
  status,     \* [Orders -> {"none", "PENDING", "CONFIRMED", "FAILED"}]
  holding,    \* orders that hold stock
  refused,    \* orders that were refused stock
  announced   \* orders whose customer was told

vars == <<status, holding, refused, announced>>

TypeOK ==
  /\ status \in [Orders -> {"none", "PENDING", "CONFIRMED", "FAILED"}]
  /\ holding \subseteq Orders
  /\ refused \subseteq Orders
  /\ announced \subseteq Orders

Init ==
  /\ status = [o \in Orders |-> "none"]
  /\ holding = {}
  /\ refused = {}
  /\ announced = {}

Become(o, from, to) ==
  /\ status[o] = from
  /\ status' = [status EXCEPT ![o] = to]

Place(o) == Become(o, "none", "PENDING") /\ UNCHANGED <<holding, refused, announced>>

Hold(o) ==
  /\ status[o] = "PENDING"
  /\ o \notin holding \union refused
  /\ holding \union {o} \in Feasible
  /\ holding' = holding \union {o}
  /\ UNCHANGED <<status, refused, announced>>

Refuse(o) ==
  /\ status[o] = "PENDING"
  /\ o \notin holding
  /\ holding \union {o} \notin Feasible
  /\ refused' = refused \union {o}
  /\ UNCHANGED <<status, holding, announced>>

Confirm(o) ==
  /\ o \in holding \ OverLimit
  /\ Become(o, "PENDING", "CONFIRMED")
  /\ UNCHANGED <<holding, refused, announced>>

Reject(o) ==
  /\ o \in refused \/ o \in holding \intersect OverLimit
  /\ Become(o, "PENDING", "FAILED")
  /\ UNCHANGED <<holding, refused, announced>>

Return(o) ==
  /\ status[o] = "FAILED"
  /\ o \in holding
  /\ holding' = holding \ {o}
  /\ UNCHANGED <<status, refused, announced>>

Announce(o) ==
  /\ status[o] \in {"CONFIRMED", "FAILED"}
  /\ o \notin announced
  /\ announced' = announced \union {o}
  /\ UNCHANGED <<status, holding, refused>>

Advance(o) ==
  Hold(o) \/ Refuse(o) \/ Confirm(o) \/ Reject(o) \/ Return(o) \/ Announce(o)

Next == \E o \in Orders : Place(o) \/ Advance(o)

Spec == Init /\ [][Next]_vars

\* A placed order is carried through; nobody has to place one.
FairSpec == Spec /\ \A o \in Orders : WF_vars(Advance(o))
-----------------------------------------------------------------------------
\* What a reader of README's "journey of an order" takes away: confirmed
\* orders hold their stock, together they fit into it, a failed order was
\* refused or is over the limit, and nobody is told before the decision.
Promise ==
  /\ holding \in Feasible
  /\ \A o \in Orders :
       /\ status[o] = "CONFIRMED" => o \in holding \ OverLimit
       /\ status[o] = "FAILED" => o \in refused \union OverLimit
       /\ o \in announced => status[o] \in {"CONFIRMED", "FAILED"}

\* A decision is final.
DecisionIsFinal ==
  [][\A o \in Orders : status[o] \in {"CONFIRMED", "FAILED"} => status'[o] = status[o]]_vars

\* Every placed order is decided and announced, and a failed one gives its
\* stock back.
EveryOrderSettled ==
  \A o \in Orders :
    status[o] = "PENDING" ~>
      /\ o \in announced
      /\ status[o] = "FAILED" => o \notin holding
===============================================================================
