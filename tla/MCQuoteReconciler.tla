------------------------- MODULE MCQuoteReconciler -------------------------
(* QuoteReconciler with pages of one row, so that every queue needs several *)
(* pages and every row may be a page's last.                                *)
EXTENDS QuoteReconciler

MCTake == [x \in QueueNames |-> 1]
=============================================================================
