---------------------------- MODULE MCInventoryRows ----------------------------
(***************************************************************************)
(* Instances of InventoryRows for TLC: two SKUs, orders that cannot all be *)
(* served, two inventory workers.                                          *)
(***************************************************************************)
EXTENDS InventoryRows, TLC

CONSTANTS kbd, mouse, unknown, oA, oB, oC, oD, w1, w2, t1, t2, t3

Line(s, q) == [sku |-> s, quantity |-> q]

MCSkus == {kbd, mouse}
MCSeed == (kbd :> 3) @@ (mouse :> 2)

\* The API's schema accepts all of them: oA names kbd on two lines, oB fits
\* twice, oC takes both SKUs, oD asks for a SKU nobody sells.
MCLines ==
  (oA :> <<Line(kbd, 2), Line(kbd, 2)>>) @@
  (oB :> <<Line(mouse, 1)>>) @@
  (oC :> <<Line(kbd, 1), Line(mouse, 2)>>) @@
  (oD :> <<Line(mouse, 1), Line(unknown, 1)>>)

MCHost == [t \in Txns |-> IF t = t1 THEN w1 ELSE w2]
===============================================================================
