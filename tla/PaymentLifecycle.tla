-------------------------- MODULE PaymentLifecycle --------------------------
(***************************************************************************)
(* What the settlement tables promise, without events, rows or operators'  *)
(* requests: a payment is issued once, becomes active, and is settled at   *)
(* most once and for good; its recovery case opens at most once, before or *)
(* at settlement, and a payment that fails has one from that very moment.  *)
(* SwapService implements this specification.                              *)
(***************************************************************************)
CONSTANTS Payments,    \* the payments
          Outcomes     \* the final outcomes, "FAILED" among them

VARIABLES phase,       \* "none", "awaiting", "active" or an outcome
          review       \* the payment's case: "none", "open" or "closed"

lifecycleVars == <<phase, review>>

LifecycleInit == /\ phase = [x \in Payments |-> "none"]
                 /\ review = [x \in Payments |-> "none"]

Unsettled(x) == phase[x] \in {"awaiting", "active"}

Opened(x) == IF review[x] = "none" THEN [review EXCEPT ![x] = "open"] ELSE review

Issue(x) == /\ phase[x] = "none"
            /\ phase' = [phase EXCEPT ![x] = "awaiting"]
            /\ UNCHANGED review

Activate(x) == /\ phase[x] = "awaiting"
               /\ phase' = [phase EXCEPT ![x] = "active"]
               /\ UNCHANGED review

Settle(x, outcome) == /\ Unsettled(x)
                      /\ phase' = [phase EXCEPT ![x] = outcome]
                      /\ review' = IF outcome = "FAILED" THEN Opened(x) ELSE review

Hold(x) == /\ Unsettled(x)
           /\ review' = Opened(x)
           /\ UNCHANGED phase

Close(x) == /\ review[x] = "open"
            /\ review' = [review EXCEPT ![x] = "closed"]
            /\ UNCHANGED phase

LifecycleNext == \E x \in Payments :
                   \/ Issue(x) \/ Activate(x) \/ Hold(x) \/ Close(x)
                   \/ \E outcome \in Outcomes : Settle(x, outcome)

LifecycleSpec == LifecycleInit /\ [][LifecycleNext]_lifecycleVars
=============================================================================
