---------------------------- MODULE MCSettlement ----------------------------
(* Settlement with the order ids of two payments.  The events               *)
(* that can occur are those of EventFor, so Payloads is only their type.    *)
EXTENDS Settlement

CONSTANTS q1, q2, o1, o2

MCOrderOf  == [q \in Quotes |-> IF q = q1 THEN o1 ELSE o2]
MCPayloads == {}
=============================================================================
