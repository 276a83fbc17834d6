------------------------------ MODULE MCOrderSaga ------------------------------
(***************************************************************************)
(* Instances of OrderSaga for TLC.  MAX_ORDER_AMOUNT is 1000000 cents in   *)
(* the code and 10 cents here; prices are in tenths of a cent.             *)
(***************************************************************************)
EXTENDS OrderSaga, TLC

CONSTANTS kbd, oMax, oPlain, oOver, oHuge, r1, r2

Line(q, price) == [sku |-> kbd, quantity |-> q, unitPrice |-> price]

\* Two units; each order takes both, so any two orders compete.
Scarce == (kbd :> 2)

\* Enough for an order to be served twice, were it counted twice.
Plenty == (kbd :> 4)

\* oMax rounds down to exactly the limit, oOver up to one cent more; oHuge is
\* always refused.
MCLines ==
  (oMax   :> <<Line(2, 52)>>) @@
  (oPlain :> <<Line(2, 10)>>) @@
  (oOver  :> <<Line(2, 53)>>) @@
  (oHuge  :> <<Line(5, 1)>>)

OneOfEach == [s \in Services |-> {r1}]
OneAtATime == [s \in Services |-> {1}]

\* A connection lost while an order is being processed, which takes 1.5s, leaves
\* the order worker with two invocations.
OrderOverlaps == [OneAtATime EXCEPT !["worker"] = {1, 2}]
TwoInventoryWorkers == [OneOfEach EXCEPT !["inventory-worker"] = {r1, r2}]
===============================================================================
