------------------------------ MODULE OrderDomain ------------------------------
(***************************************************************************)
(* Pure business rules (shared/domain/order.ts).  Totals are in cents;     *)
(* unit prices, any positive numbers in the schema, are in tenths of one.  *)
(***************************************************************************)
EXTENDS Integers, SequencesExt

CONSTANTS
  MaxOrderAmount,  \* MAX_ORDER_AMOUNT
  Undefined        \* a field the event does not have

\* Math.round: halves go up.
RoundToCent(tenths) == (tenths + 5) \div 10

\* The sum of quantity * unitPrice over the items.
ExactTotal(items) ==
  FoldLeft(LAMBDA sum, item : sum + item.quantity * item.unitPrice, 0, items)

\* It is rounded once.
CalculateOrderTotal(items) == RoundToCent(ExactTotal(items))

\* Mutant of ResolveOrderStatus: an order of exactly the limit fails.
RejectAtLimit(total) ==
  IF total # Undefined /\ total >= MaxOrderAmount THEN "FAILED" ELSE "CONFIRMED"

\* totalAmount > MAX_ORDER_AMOUNT ? 'FAILED' : 'CONFIRMED'; in JavaScript the
\* comparison is false when the event carries no totalAmount.
ResolveOrderStatus(total) ==
  IF total # Undefined /\ total > MaxOrderAmount THEN "FAILED" ELSE "CONFIRMED"
===============================================================================
