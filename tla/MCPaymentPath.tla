--------------------------- MODULE MCPaymentPath ---------------------------
(* PaymentPath with one order id per quote.                                 *)
EXTENDS PaymentPath

CONSTANT o1

MCOrderOf  == [q \in Quotes |-> o1]
MCPayloads == {}
=============================================================================
