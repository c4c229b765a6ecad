------------------------- MODULE SwapServiceProofs -------------------------
(***************************************************************************)
(* Proofs about the settlement tables, for every set of quotes, orders,    *)
(* amounts, operators and events.                                          *)
(***************************************************************************)
EXTENDS SwapService, TLAPS

(* The status machine never leaves a terminal status.                       *)
LEMMA TerminalIsSink ==
  ASSUME NEW s \in Terminal, NEW t
  PROVE  Decide(s, t) # "apply"
  BY DEF Decide, ClassifyTransition, AllowedFrom, Terminal

(* Every event maps to a status past PENDING_PAYMENT, and only a failure    *)
(* maps to FAILED.                                                          *)
LEMMA EventMapping ==
  ASSUME NEW e \in StatusEvents
  PROVE  /\ MapEventToStatus(e) \in Statuses
         /\ MapEventToStatus(e) \notin {Absent, "PENDING_PAYMENT"}
         /\ MapEventToStatus(e) = "FAILED" <=> e = "failed"
  BY DEF StatusEvents, MapEventToStatus, Statuses, Terminal, Absent

(* Opening a case keeps the table's type, touches no other case, and leaves *)
(* the payment with one.                                                    *)
LEMMA WithCaseFacts ==
  ASSUME RCTypeOK, NEW q \in Quotes
  PROVE  /\ WithCase(q) \in [Quotes -> CaseStatuses]
         /\ WithCase(q)[q] # "NONE"
         /\ \A r \in Quotes : cases[r] # "NONE" => WithCase(q)[r] = cases[r]
         /\ \A r \in Quotes : r # q => WithCase(q)[r] = cases[r]
  BY DEF RCTypeOK, WithCase, CaseStatuses

-----------------------------------------------------------------------------
(* An absent row is unbound; a request past its check has a case to update. *)
AbsentIsUnbound  == \A q \in Quotes : orders[q].status = Absent
                                      => orders[q].orderId = NoOrder
RequestHasCase   == \A o \in Operators : ops[o] # NoRequest
                                         => cases[ops[o].quote] # "NONE"

(* A status past PENDING_PAYMENT was told by an event for a known order, so *)
(* the row is bound: the reconciler finds it in its active queue.           *)
ProgressIsBound ==
  \A q \in Quotes : orders[q].status \notin {Absent, "PENDING_PAYMENT"}
                    => orders[q].orderId # NoOrder

(* The inductive invariant.                                                 *)
SwapInv == /\ TypeOK
           /\ AbsentIsUnbound
           /\ OrderBoundOnce
           /\ ProgressIsBound
           /\ FailedHasCase
           /\ RequestHasCase

(* A step of the tables under any event at all, or a restart, in which the  *)
(* requests of operators are lost.  What holds of these steps holds of      *)
(* SwapService for every set Payloads, and of the modules built on it.      *)
TablesStep == \/ \E q \in Quotes : InitiateLightningQuote(q)
              \/ \E p \in AllPayloads : /\ ApplyWebhookEvent(p) \/ ApplyThrows(p)
                                        /\ UNCHANGED ops
              \/ OperatorStep /\ UNCHANGED <<orders, seen, processed>>
              \/ UNCHANGED swapVars /\ ops' = [o \in Operators |-> NoRequest]

(* The steps of SwapService are such steps.                                 *)
LEMMA NextIsTablesStep == [Next]_vars => [TablesStep]_vars
  BY SwapAssumption DEF Next, TablesStep, SwapAssumption

(* What one consumed event does to the tables: it rewrites one row, which   *)
(* belonged to the order or to nobody and now belongs to the order; a row   *)
(* that was settled keeps its contents; a status becomes FAILED only with a *)
(* case; a case opens only for that payment, unsettled before.              *)
LEMMA ConsumeEffect ==
  ASSUME SwapInv, SwapAssumption,
         NEW p \in AllPayloads, NEW q \in RowsOf(p), Consume(p, q)
  PROVE  /\ q \in Quotes
         /\ orders[q].status \in Statuses
         /\ orders[q].orderId \in {NoOrder, p.id}
         /\ \A r \in Quotes : r # q => orders[r].orderId # p.id
         /\ \E row \in Rows : /\ orders' = [orders EXCEPT ![q] = row]
                              /\ row.orderId = p.id
                              /\ row.status \in Statuses
                              /\ orders[q].status \in Terminal => row = orders[q]
                              /\ \/ row.status = orders[q].status
                                 \/ row.status # "PENDING_PAYMENT"
                              /\ row.status # orders[q].status =>
                                 cases' = IF row.status = "FAILED"
                                          THEN WithCase(q) ELSE cases
         /\ \/ cases' = cases
            \/ cases' = WithCase(q) /\ orders[q].status \notin Terminal
         /\ Key(p) \notin processed
         /\ seen' = seen \cup {Key(p)}
         /\ processed' = processed \cup {Key(p)}
         /\ Key(p) \in Keys
<1> USE DEF SwapInv, TypeOK
<1>2. /\ p.id \in OrderIds /\ p.event \in Events /\ p.ts \in Timestamps
      /\ p.out \in Amounts \cup {NoAmount}
  BY DEF AllPayloads
<1>3. q \in Quotes /\ orders[q] \in Rows
  BY DEF RowsOf, RowsByOrder, RowsByQuote
<1>4. /\ orders[q].status \in Statuses \cup {Absent}
      /\ orders[q].orderId \in OrderIds \cup {NoOrder}
      /\ orders[q].out \in Amounts \cup {NoAmount}
  BY <1>3 DEF Rows
<1>5. /\ orders[q].status # Absent
      /\ orders[q].orderId \in {NoOrder, p.id}
  BY <1>2, <1>3, <1>4
     DEF RowsOf, RowsByOrder, RowsByQuote, AbsentIsUnbound, SwapAssumption
<1>6. \A r \in Quotes : r # q => orders[r].orderId # p.id
  BY <1>2, <1>3 DEF RowsOf, RowsByOrder, RowsByQuote, OrderBoundOnce, SwapAssumption
<1>7. orders[q].status \in Terminal => orders[q].orderId = p.id
  BY <1>3, <1>5 DEF ProgressIsBound, Terminal, Absent
<1>8. Key(p) \in Keys
  BY <1>2 DEF Key, Keys
<1>9. Bound(p, q) \in Rows
      /\ Bound(p, q).status = orders[q].status
      /\ Bound(p, q).orderId = p.id
      /\ (orders[q].orderId = p.id => Bound(p, q) = orders[q])
  BY <1>2, <1>3, <1>4 DEF Bound, Rows
<1>10. ASSUME HoldForRecovery(p, q) \/ Ignore(p, q)
       PROVE  /\ orders' = [orders EXCEPT ![q] = Bound(p, q)]
              /\ \/ cases' = cases
                 \/ cases' = WithCase(q) /\ orders[q].status \notin Terminal
  BY <1>10 DEF HoldForRecovery, Ignore
<1>11. ASSUME Advance(p, q)
       PROVE  \E row \in Rows : /\ orders' = [orders EXCEPT ![q] = row]
                                /\ row.orderId = p.id
                                /\ row.status = MapEventToStatus(p.event)
  <2> DEFINE row == [status  |-> MapEventToStatus(p.event),
                     orderId |-> p.id,
                     out     |-> IF p.event = "completed" /\ p.out # NoAmount
                                 THEN p.out ELSE orders[q].out]
  <2>1. MapEventToStatus(p.event) \in Statuses
    BY <1>11, EventMapping DEF Advance, AdvancedRow, CasesAfter
  <2>2. row \in Rows
    BY <2>1, <1>2, <1>4 DEF Rows
  <2>3. orders' = [orders EXCEPT ![q] = row]
    BY <1>11 DEF Advance, AdvancedRow, CasesAfter
  <2> QED  BY <2>2, <2>3
<1>12. ASSUME Advance(p, q)
       PROVE  /\ MapEventToStatus(p.event) \in Statuses \ {"PENDING_PAYMENT"}
              /\ orders[q].status \notin Terminal
              /\ cases' = IF MapEventToStatus(p.event) = "FAILED"
                          THEN WithCase(q) ELSE cases
  <2>1. p.event \in StatusEvents /\ DecisionFor(p, q) = "apply"
    BY <1>12 DEF Advance, AdvancedRow, CasesAfter
  <2>2. orders[q].status \notin Terminal
    BY <2>1, TerminalIsSink DEF DecisionFor
  <2>3. MapEventToStatus(p.event) = "FAILED" <=> p.event = "failed"
    BY <2>1, EventMapping
  <2>4. MapEventToStatus(p.event) \in Statuses \ {"PENDING_PAYMENT"}
    BY <2>1, EventMapping
  <2>5. cases' = IF p.event = "failed" THEN WithCase(q) ELSE cases
    BY <1>12 DEF Advance, AdvancedRow, CasesAfter
  <2> QED  BY <2>2, <2>3, <2>4, <2>5
<1>13. HoldForRecovery(p, q) \/ Ignore(p, q) \/ Advance(p, q)
  BY DEF Consume
<1>14. /\ Key(p) \notin processed
       /\ seen' = seen \cup {Key(p)}
       /\ processed' = processed \cup {Key(p)}
  BY DEF Consume
<1>15. orders[q].status \in Statuses
  BY <1>4, <1>5
<1>16. CASE HoldForRecovery(p, q) \/ Ignore(p, q)
  BY <1>3, <1>5, <1>6, <1>7, <1>8, <1>9, <1>10, <1>14, <1>15, <1>16
<1>17. CASE Advance(p, q)
  <2>1. PICK row \in Rows : /\ orders' = [orders EXCEPT ![q] = row]
                            /\ row.orderId = p.id
                            /\ row.status = MapEventToStatus(p.event)
    BY <1>11, <1>17
  <2>2. /\ row.status \in Statuses
        /\ row.status # "PENDING_PAYMENT"
        /\ orders[q].status \notin Terminal
        /\ cases' = IF row.status = "FAILED" THEN WithCase(q) ELSE cases
    BY <2>1, <1>12, <1>17
  <2> QED  BY <2>1, <2>2, <1>3, <1>5, <1>6, <1>8, <1>14, <1>15
<1> QED  BY <1>13, <1>16, <1>17

-----------------------------------------------------------------------------
(* Initially the tables are empty.                                          *)
LEMMA InitSwapInv ==
  ASSUME SwapAssumption, Init
  PROVE  SwapInv
<1>1. TypeOK
  BY DEF Init, RCInit, TypeOK, RCTypeOK, AbsentRow, Rows, Requests, CaseStatuses
<1>2. AbsentIsUnbound /\ OrderBoundOnce /\ ProgressIsBound /\ FailedHasCase
  BY DEF Init, AbsentRow, AbsentIsUnbound, OrderBoundOnce, ProgressIsBound,
         FailedHasCase, Absent
<1>3. RequestHasCase
  BY DEF Init, RCInit, RequestHasCase
<1> QED  BY <1>1, <1>2, <1>3 DEF SwapInv

(* Storing a quote keeps the invariant.                                     *)
LEMMA InitiateKeepsInv ==
  ASSUME SwapInv, SwapAssumption, NEW q \in Quotes, InitiateLightningQuote(q)
  PROVE  SwapInv'
<1> USE DEF SwapInv, TypeOK
<1> DEFINE row == [orders[q] EXCEPT !.status = "PENDING_PAYMENT"]
<1>1. orders' = [orders EXCEPT ![q] = row] /\ UNCHANGED <<seen, processed, cases, ops>>
  BY DEF InitiateLightningQuote
<1>2. orders[q] \in Rows /\ orders[q].orderId = NoOrder
  BY DEF InitiateLightningQuote, AbsentIsUnbound
<1>3. row \in Rows /\ row.status = "PENDING_PAYMENT" /\ row.orderId = NoOrder
  BY <1>2 DEF Rows, Statuses
<1> HIDE DEF row
<1>4. TypeOK'
  BY <1>1, <1>3 DEF RCTypeOK
<1>5. (AbsentIsUnbound /\ OrderBoundOnce /\ ProgressIsBound /\ FailedHasCase)'
  BY <1>1, <1>3 DEF AbsentIsUnbound, OrderBoundOnce, ProgressIsBound, FailedHasCase
<1>6. RequestHasCase'
  BY <1>1 DEF RequestHasCase
<1> QED  BY <1>4, <1>5, <1>6

(* Consuming an event keeps the invariant.                                  *)
LEMMA ConsumeKeepsInv ==
  ASSUME SwapInv, SwapAssumption, NEW p \in AllPayloads, NEW q \in RowsOf(p),
         Consume(p, q), UNCHANGED ops
  PROVE  SwapInv'
<1>1. /\ q \in Quotes
      /\ \A r \in Quotes : r # q => orders[r].orderId # p.id
      /\ cases' = cases \/ cases' = WithCase(q)
      /\ seen' = seen \cup {Key(p)}
      /\ processed' = processed \cup {Key(p)}
      /\ Key(p) \in Keys
  BY ConsumeEffect
<1>2. PICK row \in Rows : /\ orders' = [orders EXCEPT ![q] = row]
                          /\ row.orderId = p.id
                          /\ row.status \in Statuses
                          /\ row.status # orders[q].status =>
                             cases' = IF row.status = "FAILED"
                                      THEN WithCase(q) ELSE cases
  BY ConsumeEffect
<1>3. p.id \in OrderIds /\ p.id # NoOrder
  BY DEF SwapAssumption, AllPayloads
<1>4. RCTypeOK /\ orders \in [Quotes -> Rows] /\ cases \in [Quotes -> CaseStatuses]
  BY DEF SwapInv, TypeOK, RCTypeOK
<1>5. /\ cases' \in [Quotes -> CaseStatuses]
      /\ \A r \in Quotes : cases[r] # "NONE" => cases'[r] # "NONE"
  BY <1>1, <1>4, WithCaseFacts
<1>6. TypeOK'
  BY <1>1, <1>2, <1>5 DEF SwapInv, TypeOK, RCTypeOK
<1>7. AbsentIsUnbound'
  BY <1>1, <1>2, <1>4 DEF SwapInv, AbsentIsUnbound, Statuses, Terminal, Absent
<1>8. OrderBoundOnce'
  BY <1>1, <1>2, <1>4 DEF SwapInv, OrderBoundOnce
<1>9. ProgressIsBound'
  BY <1>1, <1>2, <1>3, <1>4 DEF SwapInv, ProgressIsBound
<1>10. FailedHasCase'
  BY <1>1, <1>2, <1>4, <1>5, WithCaseFacts DEF SwapInv, FailedHasCase
<1>11. RequestHasCase'
  <2>1. \A o \in Operators : ops[o] # NoRequest => ops[o].quote \in Quotes
    BY <1>4 DEF RCTypeOK, Requests
  <2> QED  BY <2>1, <1>5 DEF SwapInv, RequestHasCase
<1> QED  BY <1>6, <1>7, <1>8, <1>9, <1>10, <1>11 DEF SwapInv

(* An operator's step keeps the invariant: it only moves cases that exist.  *)
LEMMA OperatorKeepsInv ==
  ASSUME SwapInv, OperatorStep, UNCHANGED <<orders, seen, processed>>
  PROVE  SwapInv'
<1>1. RCTypeOK
  BY DEF SwapInv, TypeOK
<1>2. \A o \in Operators : ops[o] # NoRequest
                           => ops[o].quote \in Quotes /\ ops[o].to \in Resolutions
  BY <1>1 DEF RCTypeOK, Requests
<1>3. /\ RCTypeOK'
      /\ \A q \in Quotes : cases[q] # "NONE" => cases'[q] # "NONE"
      /\ RequestHasCase'
  <2>1. ASSUME NEW o \in Operators, NEW q \in Quotes, NEW to \in Resolutions,
               MarkRead(o, q, to)
        PROVE  <1>3!1 /\ <1>3!2 /\ <1>3!3
    <3> DEFINE req == [pc |-> "update", quote |-> q, to |-> to]
    <3>1. req \in Requests /\ req.quote = q
      BY DEF Requests
    <3>2. ops' = [ops EXCEPT ![o] = req] /\ cases' = cases /\ cases[q] = "OPEN"
      BY <2>1 DEF MarkRead
    <3> HIDE DEF req
    <3> QED  BY <1>1, <3>1, <3>2 DEF RCTypeOK, RequestHasCase, SwapInv
  <2>2. ASSUME NEW o \in Operators, MarkUpdate(o)
        PROVE  <1>3!1 /\ <1>3!2 /\ <1>3!3
    <3>1. /\ ops[o].quote \in Quotes /\ ops[o].to \in Resolutions
          /\ cases' = [cases EXCEPT ![ops[o].quote] = ops[o].to]
          /\ ops' = [ops EXCEPT ![o] = NoRequest]
      BY <2>2, <1>2 DEF MarkUpdate
    <3>2. RCTypeOK'
      BY <3>1, <1>1 DEF RCTypeOK, CaseStatuses, Resolutions, Requests
    <3>3. \A q \in Quotes : cases[q] # "NONE" => cases'[q] # "NONE"
      BY <3>1, <1>1 DEF RCTypeOK, Resolutions
    <3>4. RequestHasCase'
      BY <3>1, <3>3, <1>1, <1>2 DEF RCTypeOK, RequestHasCase, SwapInv
    <3> QED  BY <3>2, <3>3, <3>4
  <2> QED  BY <2>1, <2>2 DEF OperatorStep, MarkPaid, MarkAbandoned, Resolutions
<1>4. TypeOK'
  BY <1>3 DEF SwapInv, TypeOK
<1>5. (AbsentIsUnbound /\ OrderBoundOnce /\ ProgressIsBound)'
  BY DEF SwapInv, AbsentIsUnbound, OrderBoundOnce, ProgressIsBound
<1>6. FailedHasCase'
  BY <1>3 DEF SwapInv, FailedHasCase
<1> QED  BY <1>3, <1>4, <1>5, <1>6 DEF SwapInv

(* The invariant is inductive.                                              *)
LEMMA TablesKeepInv ==
  ASSUME SwapInv, SwapAssumption, [TablesStep]_vars
  PROVE  SwapInv'
<1>1. ASSUME NEW q \in Quotes, InitiateLightningQuote(q)  PROVE SwapInv'
  BY <1>1, InitiateKeepsInv
<1>2. ASSUME NEW p \in AllPayloads, NEW q \in RowsOf(p), Consume(p, q), UNCHANGED ops
      PROVE  SwapInv'
  BY <1>2, ConsumeKeepsInv
<1>3. ASSUME NEW p \in AllPayloads, UnknownOrder(p), UNCHANGED ops  PROVE SwapInv'
  <2>1. Key(p) \in Keys
    BY DEF SwapAssumption, AllPayloads, Key, Keys
  <2>2. seen' = seen \cup {Key(p)} /\ UNCHANGED <<orders, processed, cases, ops>>
    BY <1>3 DEF UnknownOrder
  <2> QED  BY <2>1, <2>2 DEF SwapInv, TypeOK, RCTypeOK, AbsentIsUnbound,
              OrderBoundOnce, ProgressIsBound, FailedHasCase, RequestHasCase
<1>4. ASSUME OperatorStep, UNCHANGED <<orders, seen, processed>>  PROVE SwapInv'
  BY <1>4, OperatorKeepsInv
<1>5. ASSUME UNCHANGED vars  PROVE SwapInv'
  BY <1>5 DEF vars, SwapInv, TypeOK, RCTypeOK, AbsentIsUnbound, OrderBoundOnce,
              ProgressIsBound, FailedHasCase, RequestHasCase
<1>6. ASSUME NEW p \in AllPayloads, ApplyWebhookEvent(p) \/ ApplyThrows(p), UNCHANGED ops
      PROVE  SwapInv'
  <2>1. CASE Redelivered(p) \/ ApplyThrows(p)
    BY <2>1, <1>5, <1>6 DEF Redelivered, ApplyThrows, swapVars, vars
  <2> QED  BY <2>1, <1>2, <1>3, <1>6 DEF ApplyWebhookEvent
<1>7. ASSUME UNCHANGED swapVars, ops' = [o \in Operators |-> NoRequest]
      PROVE  SwapInv'
  BY <1>7 DEF swapVars, SwapInv, TypeOK, RCTypeOK, Requests, AbsentIsUnbound, OrderBoundOnce,
              ProgressIsBound, FailedHasCase, RequestHasCase
<1> QED  BY <1>1, <1>4, <1>5, <1>6, <1>7 DEF TablesStep

(* Every reachable state of the tables satisfies the invariant.             *)
THEOREM SwapInvariant == Spec => []SwapInv
<1>1. Init => SwapInv
  BY SwapAssumption, InitSwapInv
<1>2. SwapInv /\ [Next]_vars => SwapInv'
  BY SwapAssumption, TablesKeepInv, NextIsTablesStep
<1> QED  BY <1>1, <1>2, PTL DEF Spec

(* Every state has the types the tables declare.                            *)
THEOREM TypeCorrect == Spec => []TypeOK
<1>1. SwapInv => TypeOK
  BY DEF SwapInv
<1> QED  BY <1>1, SwapInvariant, PTL

(* No two payments share an order id.                                       *)
THEOREM BindingUnique == Spec => []OrderBoundOnce
<1>1. SwapInv => OrderBoundOnce
  BY DEF SwapInv
<1> QED  BY <1>1, SwapInvariant, PTL

(* A payment whose status has moved is bound to an order.                   *)
THEOREM ProgressBound == Spec => []ProgressIsBound
<1>1. SwapInv => ProgressIsBound
  BY DEF SwapInv
<1> QED  BY <1>1, SwapInvariant, PTL

(* Every failed payment has a recovery case.                                *)
THEOREM FailureHasCase == Spec => []FailedHasCase
<1>1. SwapInv => FailedHasCase
  BY DEF SwapInv
<1> QED  BY <1>1, SwapInvariant, PTL

-----------------------------------------------------------------------------
(* What any step does to the row and the case of one payment: it is left    *)
(* alone, stored for the first time, told an event, or its case resolved.   *)
LEMMA StepEffect ==
  ASSUME SwapInv, [TablesStep]_vars, NEW q \in Quotes
  PROVE  \/ orders'[q] = orders[q] /\ cases'[q] = cases[q]
         \/ /\ orders[q].status = Absent /\ orders'[q].status = "PENDING_PAYMENT"
            /\ orders'[q].orderId = orders[q].orderId
            /\ cases'[q] = cases[q]
         \/ \E p \in AllPayloads : q \in RowsOf(p) /\ Consume(p, q)
         \/ /\ orders'[q] = orders[q]
            /\ cases[q] # "NONE" /\ cases'[q] \in Resolutions
<1> USE DEF SwapInv, TypeOK, RCTypeOK
<1>1. ASSUME NEW r \in Quotes, InitiateLightningQuote(r)
      PROVE  /\ cases'[q] = cases[q]
             /\ \/ orders'[q] = orders[q]
                \/ /\ orders[q].status = Absent /\ orders'[q].status = "PENDING_PAYMENT"
                   /\ orders'[q].orderId = orders[q].orderId
  <2>1. orders[r] \in Rows
    OBVIOUS
  <2>2. CASE q = r
    BY <1>1, <2>1, <2>2 DEF InitiateLightningQuote, Rows
  <2>3. CASE q # r
    BY <1>1, <2>3 DEF InitiateLightningQuote
  <2> QED  BY <2>2, <2>3
<1>2. ASSUME NEW p \in AllPayloads, NEW r \in RowsOf(p), Consume(p, r), q # r
      PROVE  orders'[q] = orders[q] /\ cases'[q] = cases[q]
  <2>1. r \in Quotes /\ (cases' = cases \/ cases' = WithCase(r))
    BY <1>2, ConsumeEffect, SwapAssumption
  <2>2. PICK row \in Rows : orders' = [orders EXCEPT ![r] = row]
    BY <1>2, ConsumeEffect, SwapAssumption
  <2> QED  BY <1>2, <2>1, <2>2, WithCaseFacts
<1>3. ASSUME NEW o \in Operators, MarkUpdate(o)
      PROVE  \/ cases'[q] = cases[q]
             \/ cases[q] # "NONE" /\ cases'[q] \in Resolutions
  <2>1. /\ ops[o].quote \in Quotes /\ ops[o].to \in Resolutions
        /\ cases[ops[o].quote] # "NONE"
    BY <1>3 DEF Requests, RequestHasCase, MarkUpdate
  <2> QED  BY <1>3, <2>1 DEF MarkUpdate
<1>4. ASSUME OperatorStep, UNCHANGED orders
      PROVE  /\ orders'[q] = orders[q]
             /\ \/ cases'[q] = cases[q]
                \/ cases[q] # "NONE" /\ cases'[q] \in Resolutions
  BY <1>3, <1>4 DEF OperatorStep, MarkPaid, MarkAbandoned, MarkRead
<1>5. ASSUME NEW p \in AllPayloads, ApplyWebhookEvent(p) \/ ApplyThrows(p)
      PROVE  \/ orders'[q] = orders[q] /\ cases'[q] = cases[q]
             \/ q \in RowsOf(p) /\ Consume(p, q)
  BY <1>2, <1>5 DEF ApplyWebhookEvent, ApplyThrows, Redelivered, UnknownOrder, swapVars
<1>6. ASSUME UNCHANGED vars
      PROVE  orders'[q] = orders[q] /\ cases'[q] = cases[q]
  BY <1>6 DEF vars
<1>7. ASSUME UNCHANGED swapVars
      PROVE  orders'[q] = orders[q] /\ cases'[q] = cases[q]
  BY <1>7 DEF swapVars
<1> QED  BY <1>1, <1>4, <1>5, <1>6, <1>7 DEF TablesStep

(* A consumed event, seen from its payment's row.                           *)
LEMMA ConsumeRow ==
  ASSUME SwapInv, NEW p \in AllPayloads, NEW q \in RowsOf(p), Consume(p, q)
  PROVE  /\ orders[q].orderId \in {NoOrder, p.id}
         /\ orders[q].status \in Statuses
         /\ orders'[q].orderId = p.id
         /\ orders'[q].status \in Statuses
         /\ orders[q].status \in Terminal => orders'[q] = orders[q]
         /\ orders'[q].status = orders[q].status \/ orders'[q].status # "PENDING_PAYMENT"
         /\ orders'[q].status # orders[q].status =>
            cases' = IF orders'[q].status = "FAILED" THEN WithCase(q) ELSE cases
         /\ \/ cases' = cases
            \/ cases' = WithCase(q) /\ orders[q].status \notin Terminal
<1>1. q \in Quotes /\ orders \in [Quotes -> Rows]
  BY ConsumeEffect, SwapAssumption DEF SwapInv, TypeOK
<1>2. PICK row \in Rows : /\ orders' = [orders EXCEPT ![q] = row]
                          /\ row.orderId = p.id
                          /\ row.status \in Statuses
                          /\ orders[q].status \in Terminal => row = orders[q]
                          /\ \/ row.status = orders[q].status
                             \/ row.status # "PENDING_PAYMENT"
                          /\ row.status # orders[q].status =>
                             cases' = IF row.status = "FAILED"
                                      THEN WithCase(q) ELSE cases
  BY ConsumeEffect, SwapAssumption
<1>3. orders'[q] = row
  BY <1>1, <1>2
<1>4. /\ orders[q].orderId \in {NoOrder, p.id}
      /\ orders[q].status \in Statuses
      /\ \/ cases' = cases
         \/ cases' = WithCase(q) /\ orders[q].status \notin Terminal
  BY ConsumeEffect, SwapAssumption
<1> QED  BY <1>2, <1>3, <1>4

(* What no step of the tables does: touch the row of a settled payment,     *)
(* open a case for one, or move a bound order to another payment.           *)
LEMMA TablesStepSettled ==
  ASSUME SwapInv, [TablesStep]_vars
  PROVE  \A q \in Quotes : orders[q].status \in Terminal => orders'[q] = orders[q]
  BY StepEffect, ConsumeRow DEF Terminal, Absent

(* A case opens only for a stored payment that is unsettled.                *)
LEMMA TablesStepCase ==
  ASSUME SwapInv, [TablesStep]_vars
  PROVE  \A q \in Quotes : cases[q] = "NONE" /\ cases'[q] # "NONE"
                           => orders[q].status \notin Terminal \cup {Absent}
  BY StepEffect, ConsumeRow DEF Statuses, Terminal, Absent

(* A bound order stays with its payment.                                    *)
LEMMA TablesStepBinding ==
  ASSUME SwapInv, [TablesStep]_vars
  PROVE  \A q \in Quotes : orders[q].orderId # NoOrder
                           => orders'[q].orderId = orders[q].orderId
  BY StepEffect, ConsumeRow

(* A step that changes a stored row or opens a case consumes an event.      *)
LEMMA TablesStepProcessed ==
  ASSUME SwapInv, [TablesStep]_vars
  PROVE  \A q \in Quotes :
           \/ orders[q].status # Absent /\ orders'[q] # orders[q]
           \/ cases[q] = "NONE" /\ cases'[q] # "NONE"
           => \E k \in processed' : k \notin processed
<1>1. ASSUME NEW p \in AllPayloads, NEW q \in RowsOf(p), Consume(p, q)
      PROVE  \E k \in processed' : k \notin processed
  BY <1>1 DEF Consume
<1> QED  BY <1>1, StepEffect

(* Once settled, a payment's row is frozen, whatever events arrive.         *)
THEOREM SettlementFinality == Spec => SettledIsFinal
<1>1. SwapInv /\ [Next]_vars
      => [\A q \in Quotes : orders[q].status \in Terminal => orders'[q] = orders[q]]_vars
  BY NextIsTablesStep, TablesStepSettled
<1> QED  BY <1>1, SwapInvariant, PTL DEF Spec, SettledIsFinal

(* A case opens only for a stored payment that was not settled before.      *)
THEOREM CasesPrecedeSettlement == Spec => NoCaseAfterSettlement
<1>1. SwapInv /\ [Next]_vars
      => [\A q \in Quotes : cases[q] = "NONE" /\ cases'[q] # "NONE"
                            => orders[q].status \notin Terminal \cup {Absent}]_vars
  BY NextIsTablesStep, TablesStepCase
<1> QED  BY <1>1, SwapInvariant, PTL DEF Spec, NoCaseAfterSettlement

(* A bound order stays with its payment.                                    *)
THEOREM BindingPermanence == Spec => BindingIsPermanent
<1>1. SwapInv /\ [Next]_vars
      => [\A q \in Quotes : orders[q].orderId # NoOrder
                            => orders'[q].orderId = orders[q].orderId]_vars
  BY NextIsTablesStep, TablesStepBinding
<1> QED  BY <1>1, SwapInvariant, PTL DEF Spec, BindingIsPermanent

(* applyWebhookEvent acts on a payment only in the step that marks its      *)
(* event processed, and marks an event once.                                *)
THEOREM Idempotence == Spec => EffectIsProcessed
<1>1. SwapInv /\ [Next]_vars
      => [\A q \in Quotes :
            \/ orders[q].status # Absent /\ orders'[q] # orders[q]
            \/ cases[q] = "NONE" /\ cases'[q] # "NONE"
            => \E k \in processed' : k \notin processed]_vars
  BY NextIsTablesStep, TablesStepProcessed
<1> QED  BY <1>1, SwapInvariant, PTL DEF Spec, EffectIsProcessed

-----------------------------------------------------------------------------
(* A terminal status wins from every status that is not terminal.           *)
LEMMA TerminalWins ==
  ASSUME NEW s, s \notin Terminal, NEW t \in Terminal
  PROVE  Decide(s, t) = "apply"
  BY DEF Decide, Terminal

(* Consuming an event that settles settles its row, and consuming a hold    *)
(* leaves a case unless the row is settled.                                 *)
LEMMA ConsumedEffect ==
  ASSUME SwapInv, NEW p \in AllPayloads, NEW q \in RowsOf(p), Consume(p, q)
  PROVE  /\ q \in Quotes /\ orders'[q].orderId = p.id
         /\ p.event \in SettlingEvents => orders'[q].status \in Terminal
         /\ p.event = RecoveryEvent => orders'[q].status \in Terminal \/ cases'[q] # "NONE"
<1>1. q \in Quotes /\ orders \in [Quotes -> Rows] /\ RCTypeOK
  BY ConsumeEffect, SwapAssumption DEF SwapInv, TypeOK
<1>2. orders'[q].orderId = p.id /\ (orders[q].status \in Terminal => orders'[q] = orders[q])
  BY ConsumeRow
<1>3. HoldForRecovery(p, q) \/ Ignore(p, q) \/ Advance(p, q)
  BY DEF Consume
<1>4. ASSUME p.event \in SettlingEvents, orders[q].status \notin Terminal
      PROVE  orders'[q].status \in Terminal
  <2>1. p.event \in StatusEvents /\ MapEventToStatus(p.event) \in Terminal
        /\ p.event # RecoveryEvent
    BY <1>4 DEF SettlingEvents, StatusEvents, RecoveryEvent
  <2>2. DecisionFor(p, q) = "apply"
    BY <1>4, <2>1, TerminalWins DEF DecisionFor
  <2>3. Advance(p, q)
    BY <1>3, <2>1, <2>2 DEF HoldForRecovery, Ignore
  <2>4. orders'[q] = AdvancedRow(p, q)
    BY <1>1, <2>3 DEF Advance
  <2> QED  BY <2>1, <2>4 DEF AdvancedRow
<1>5. ASSUME p.event = RecoveryEvent, orders[q].status \notin Terminal
      PROVE  cases'[q] # "NONE"
  <2>1. HoldForRecovery(p, q)
    BY <1>3, <1>5 DEF Ignore, Advance, StatusEvents, RecoveryEvent
  <2> QED  BY <1>1, <2>1, WithCaseFacts DEF HoldForRecovery
<1> QED  BY <1>1, <1>2, <1>4, <1>5

(* A key is marked processed by consuming its event, and in no other way.   *)
LEMMA MarkedByConsuming ==
  ASSUME [TablesStep]_vars, NEW k \in processed', k \notin processed
  PROVE  \E p \in AllPayloads : \E q \in RowsOf(p) : Consume(p, q) /\ k = Key(p)
  BY DEF TablesStep, vars, swapVars, InitiateLightningQuote, ApplyWebhookEvent, ApplyThrows,
         Redelivered, UnknownOrder, Consume

(* No step of the tables loses the effect of a processed event.             *)
LEMMA TablesStepConsumed ==
  ASSUME SwapInv, ConsumedHadEffect, [TablesStep]_vars
  PROVE  ConsumedHadEffect'
<1> SUFFICES ASSUME NEW k \in processed'
             PROVE  /\ k[2] \in SettlingEvents =>
                         \E q \in Quotes : /\ orders'[q].orderId = k[1]
                                           /\ orders'[q].status \in Terminal
                    /\ k[2] = RecoveryEvent =>
                         \E q \in Quotes : /\ orders'[q].orderId = k[1]
                                           /\ orders'[q].status \in Terminal \/ cases'[q] # "NONE"
  BY DEF ConsumedHadEffect, SettlingEvents
<1>1. CASE k \notin processed
  <2>0. PICK p \in AllPayloads : \E q \in RowsOf(p) : Consume(p, q) /\ k = Key(p)
    BY <1>1, MarkedByConsuming
  <2>1. PICK q \in RowsOf(p) : Consume(p, q) /\ k = Key(p)
    BY <2>0
  <2>2. k[1] = p.id /\ k[2] = p.event
    BY <2>1 DEF Key
  <2> QED  BY <2>1, <2>2, ConsumedEffect
<1>2. CASE k \in processed
  <2>1. k \in Keys /\ k[1] # NoOrder
    BY <1>2, SwapAssumption DEF SwapInv, TypeOK, Keys, SwapAssumption
  <2>2. \A q \in Quotes : /\ orders[q].status \in Terminal => orders'[q] = orders[q]
                          /\ orders[q].orderId # NoOrder => orders'[q].orderId = orders[q].orderId
    BY TablesStepSettled, TablesStepBinding
  <2>3. \A q \in Quotes : cases[q] # "NONE" => cases'[q] # "NONE"
    <3> SUFFICES ASSUME NEW q \in Quotes, cases[q] # "NONE" PROVE cases'[q] # "NONE"
      OBVIOUS
    <3>1. ASSUME NEW p \in AllPayloads, q \in RowsOf(p), Consume(p, q)
          PROVE  cases'[q] # "NONE"
      BY <3>1, ConsumeRow, WithCaseFacts DEF SwapInv, TypeOK
    <3> QED  BY <3>1, StepEffect DEF Resolutions
  <2> QED  BY <1>2, <2>1, <2>2, <2>3 DEF ConsumedHadEffect
<1> QED  BY <1>1, <1>2

(* Whatever arrives in whatever order, an event is marked processed only    *)
(* with its effect: the check of processedAt drops nothing that is needed.  *)
THEOREM ProcessedHadEffect == Spec => []ConsumedHadEffect
<1>1. Init => ConsumedHadEffect
  BY DEF Init, ConsumedHadEffect
<1>2. SwapInv /\ ConsumedHadEffect /\ [Next]_vars => ConsumedHadEffect'
  BY NextIsTablesStep, TablesStepConsumed
<1> QED  BY <1>1, <1>2, SwapInvariant, PTL DEF Spec

-----------------------------------------------------------------------------
(* Where two sentences of the code's comments, which the runs case_race and *)
(* failure_visible refute, do hold.                                         *)

(* The case of a request in flight is still open.                           *)
RequestIsOpen == \A o \in Operators : ops[o] # NoRequest => cases[ops[o].quote] = "OPEN"

(* One operator at a time finds every case as it read it.                   *)
LEMMA TablesStepRequest ==
  ASSUME SwapInv, RequestIsOpen, [TablesStep]_vars,
         \A o, p \in Operators : o = p
  PROVE  RequestIsOpen'
<1> USE DEF RequestIsOpen
<1>1. RCTypeOK /\ \A o \in Operators : ops[o] # NoRequest => ops[o].quote \in Quotes
  BY DEF SwapInv, TypeOK, RCTypeOK, Requests
<1>2. ASSUME NEW p \in AllPayloads, NEW q \in RowsOf(p), Consume(p, q), UNCHANGED ops
      PROVE  RequestIsOpen'
  <2>1. q \in Quotes /\ (cases' = cases \/ cases' = WithCase(q))
    BY <1>2, ConsumeEffect, SwapAssumption
  <2>2. \A r \in Quotes : cases[r] = "OPEN" => cases'[r] = "OPEN"
    BY <1>1, <2>1, WithCaseFacts
  <2> QED  BY <1>1, <1>2, <2>2
<1>3. ASSUME NEW p \in AllPayloads, ApplyWebhookEvent(p) \/ ApplyThrows(p), UNCHANGED ops
      PROVE  RequestIsOpen'
  BY <1>2, <1>3 DEF ApplyWebhookEvent, ApplyThrows, Redelivered, UnknownOrder, swapVars
<1>4. ASSUME NEW o \in Operators, NEW q \in Quotes, NEW to \in Resolutions, MarkRead(o, q, to)
      PROVE  RequestIsOpen'
  BY <1>1, <1>4 DEF MarkRead, RCTypeOK
<1>5. ASSUME NEW o \in Operators, MarkUpdate(o)  PROVE RequestIsOpen'
  BY <1>1, <1>5 DEF MarkUpdate, RCTypeOK
<1>6. ASSUME OperatorStep  PROVE RequestIsOpen'
  BY <1>4, <1>5, <1>6 DEF OperatorStep, MarkPaid, MarkAbandoned, Resolutions
<1>7. ASSUME NEW q \in Quotes, InitiateLightningQuote(q)  PROVE RequestIsOpen'
  BY <1>7 DEF InitiateLightningQuote
<1>8. CASE UNCHANGED vars
  BY <1>8 DEF vars
<1>9. CASE ops' = [o \in Operators |-> NoRequest]
  BY <1>9
<1> QED  BY <1>3, <1>6, <1>7, <1>8, <1>9 DEF TablesStep

(* "Throws BadRequestException when the row is not OPEN" holds of requests  *)
(* that come one at a time: markPaid and markAbandoned never overwrite a    *)
(* resolution, whatever events arrive between their read and their update.  *)
THEOREM ResolutionFinal ==
  ASSUME \A o, p \in Operators : o = p
  PROVE  Spec => ResolvedIsFinal
<1>1. Init => RequestIsOpen
  BY DEF Init, RCInit, RequestIsOpen
<1>2. SwapInv /\ RequestIsOpen /\ [Next]_vars => RequestIsOpen'
  BY NextIsTablesStep, TablesStepRequest
<1>3. SwapInv /\ RequestIsOpen /\ [Next]_vars
      => [\A q \in Quotes : cases[q] \in Resolutions => cases'[q] = cases[q]]_cases
  <2> SUFFICES ASSUME SwapInv, RequestIsOpen, [Next]_vars,
                      NEW q \in Quotes, cases[q] \in Resolutions
               PROVE  cases'[q] = cases[q]
    OBVIOUS
  <2>1. RCTypeOK /\ \A o \in Operators : ops[o] # NoRequest => ops[o].quote \in Quotes
    BY DEF SwapInv, TypeOK, RCTypeOK, Requests
  <2>2. ASSUME NEW p \in AllPayloads, NEW r \in RowsOf(p), Consume(p, r)
        PROVE  cases'[q] = cases[q]
    <3>1. r \in Quotes /\ (cases' = cases \/ cases' = WithCase(r))
      BY <2>2, ConsumeEffect, SwapAssumption
    <3> QED  BY <2>1, <3>1, WithCaseFacts DEF Resolutions
  <2>3. ASSUME NEW p \in AllPayloads, ApplyWebhookEvent(p) \/ ApplyThrows(p)
        PROVE  cases'[q] = cases[q]
    BY <2>2, <2>3 DEF ApplyWebhookEvent, ApplyThrows, Redelivered, UnknownOrder, swapVars
  <2>4. ASSUME NEW o \in Operators, MarkUpdate(o)  PROVE cases'[q] = cases[q]
    BY <2>1, <2>4 DEF MarkUpdate, RCTypeOK, RequestIsOpen, Resolutions
  <2>5. ASSUME OperatorStep  PROVE cases'[q] = cases[q]
    BY <2>4, <2>5 DEF OperatorStep, MarkPaid, MarkAbandoned, MarkRead
  <2>6. ASSUME NEW r \in Quotes, InitiateLightningQuote(r)  PROVE cases'[q] = cases[q]
    BY <2>6 DEF InitiateLightningQuote
  <2> QED  BY <2>3, <2>5, <2>6, NextIsTablesStep DEF TablesStep, vars, swapVars
<1> QED  BY <1>1, <1>2, <1>3, SwapInvariant, PTL DEF Spec, ResolvedIsFinal

(* The step that fails a payment leaves its case in the open queue, unless  *)
(* an operator had already resolved it, and then as it was resolved.        *)
FailureIsQueued ==
  [][\A q \in Quotes : orders[q].status # "FAILED" /\ orders'[q].status = "FAILED"
                       => \/ cases'[q] = "OPEN"
                          \/ cases[q] \in Resolutions /\ cases'[q] = cases[q]]_vars

(* "Failed deliveries and recovery holds open an ops case", up to a case    *)
(* that is closed already: no other interleaving hides a failure.           *)
THEOREM FailureQueued == Spec => FailureIsQueued
<1>1. SwapInv /\ [Next]_vars
      => [\A q \in Quotes : orders[q].status # "FAILED" /\ orders'[q].status = "FAILED"
                            => \/ cases'[q] = "OPEN"
                               \/ cases[q] \in Resolutions /\ cases'[q] = cases[q]]_vars
  <2> SUFFICES ASSUME SwapInv, [Next]_vars, NEW q \in Quotes,
                      orders[q].status # "FAILED", orders'[q].status = "FAILED"
               PROVE  \/ cases'[q] = "OPEN"
                      \/ cases[q] \in Resolutions /\ cases'[q] = cases[q]
    OBVIOUS
  <2>1. cases \in [Quotes -> CaseStatuses]
    BY DEF SwapInv, TypeOK, RCTypeOK
  <2>2. PICK p \in AllPayloads : q \in RowsOf(p) /\ Consume(p, q)
    BY NextIsTablesStep, StepEffect
  <2>3. cases' = WithCase(q)
    BY <2>2, ConsumeRow
  <2> QED  BY <2>1, <2>3 DEF WithCase, CaseStatuses, Resolutions
<1> QED  BY <1>1, SwapInvariant, PTL DEF Spec, FailureIsQueued

-----------------------------------------------------------------------------
(* The refinement mapping, row by row: where each status and case goes.     *)
LEMMA PhaseFacts ==
  ASSUME NEW s \in Statuses \cup {Absent}
  PROVE  /\ PhaseOf(s) = "none" <=> s = Absent
         /\ PhaseOf(s) = "awaiting" <=> s = "PENDING_PAYMENT"
         /\ s \in Terminal => PhaseOf(s) = s
         /\ s \notin Terminal \cup {Absent, "PENDING_PAYMENT"} => PhaseOf(s) = "active"
  BY DEF PhaseOf, Statuses, Terminal, Absent

(* Where each case status is mapped to.                                     *)
LEMMA ReviewFacts ==
  ASSUME NEW c \in CaseStatuses
  PROVE  /\ ReviewOf(c) = "none" <=> c = "NONE"
         /\ ReviewOf(c) = "open" <=> c = "OPEN"
         /\ c \in Resolutions => ReviewOf(c) = "closed"
  BY DEF ReviewOf, CaseStatuses, Resolutions

(* Opening a case in the table opens the review of that payment.            *)
LEMMA OpenedFacts ==
  ASSUME RCTypeOK, NEW q \in Quotes
  PROVE  [r \in Quotes |-> ReviewOf(WithCase(q)[r])] = Lifecycle!Opened(q)
<1>1. ASSUME NEW r \in Quotes PROVE cases[r] \in CaseStatuses
  BY DEF RCTypeOK
<1>2. CASE cases[q] = "NONE"
  <2>1. WithCase(q) = [cases EXCEPT ![q] = "OPEN"]
    BY <1>2 DEF WithCase
  <2>2. ReviewOf("NONE") = "none" /\ ReviewOf("OPEN") = "open"
    BY DEF ReviewOf
  <2>3. Lifecycle!Opened(q)
        = [[r \in Quotes |-> ReviewOf(cases[r])] EXCEPT ![q] = "open"]
    BY <1>2, <2>2 DEF Lifecycle!Opened
  <2> HIDE DEF ReviewOf
  <2> QED  BY <2>1, <2>2, <2>3 DEF RCTypeOK
<1>3. CASE cases[q] # "NONE"
  <2>1. WithCase(q) = cases
    BY <1>3 DEF WithCase
  <2>2. ReviewOf(cases[q]) # "none"
    BY <1>1, <1>3, ReviewFacts
  <2> QED  BY <2>1, <2>2 DEF Lifecycle!Opened
<1> QED  BY <1>2, <1>3

(* The mapped initial state, and the mapped step.                           *)
LEMMA InitLifecycle == Init => Lifecycle!LifecycleInit
<1>1. PhaseOf(Absent) = "none" /\ ReviewOf("NONE") = "none"
  BY PhaseFacts, ReviewFacts DEF CaseStatuses
<1> QED  BY <1>1 DEF Init, RCInit, Lifecycle!LifecycleInit, AbsentRow

(* A step of the tables, mapped, is one of the lifecycle or none.           *)
LEMMA TablesStepLifecycle ==
  ASSUME SwapInv, SwapInv', [TablesStep]_vars
  PROVE  [Lifecycle!LifecycleNext]_(Lifecycle!lifecycleVars)
<1> DEFINE phaseBar  == [r \in Quotes |-> PhaseOf(orders[r].status)]
           reviewBar == [r \in Quotes |-> ReviewOf(cases[r])]
<1>1. /\ RCTypeOK /\ orders \in [Quotes -> Rows] /\ orders' \in [Quotes -> Rows]
      /\ cases \in [Quotes -> CaseStatuses] /\ cases' \in [Quotes -> CaseStatuses]
  BY DEF SwapInv, TypeOK, RCTypeOK
<1>2. \A r \in Quotes : /\ orders[r].status \in Statuses \cup {Absent}
                        /\ orders'[r].status \in Statuses \cup {Absent}
  BY <1>1 DEF Rows
<1>3. ASSUME NEW q \in Quotes, InitiateLightningQuote(q)
      PROVE  Lifecycle!Issue(q)
  <2>1. orders[q].status = Absent /\ cases' = cases
    BY <1>3 DEF InitiateLightningQuote
  <2>2. orders'[q].status = "PENDING_PAYMENT"
    BY <1>1, <1>3 DEF InitiateLightningQuote, Rows
  <2>3. \A r \in Quotes : r # q => orders'[r] = orders[r]
    BY <1>1, <1>3 DEF InitiateLightningQuote
  <2>4. PhaseOf(Absent) = "none" /\ PhaseOf("PENDING_PAYMENT") = "awaiting"
    BY PhaseFacts DEF Statuses
  <2>5. phaseBar[q] = "none" /\ phaseBar' = [phaseBar EXCEPT ![q] = "awaiting"]
    BY <2>1, <2>2, <2>3, <2>4
  <2> QED  BY <2>1, <2>5 DEF Lifecycle!Issue
<1>4. ASSUME NEW p \in AllPayloads, NEW q \in RowsOf(p), Consume(p, q)
      PROVE  [Lifecycle!LifecycleNext]_(Lifecycle!lifecycleVars)
  <2>1. /\ q \in Quotes
        /\ \A r \in Quotes : r # q => orders'[r] = orders[r]
    <3>1. PICK row \in Rows : orders' = [orders EXCEPT ![q] = row]
      BY <1>4, ConsumeEffect, SwapAssumption
    <3>2. q \in Quotes
      BY <1>4, ConsumeEffect, SwapAssumption
    <3> QED  BY <3>1, <3>2, <1>1
  <2> DEFINE s == orders[q].status
             t == orders'[q].status
  <2>2. /\ s \in Statuses /\ t \in Statuses
        /\ s \in Terminal => t = s
        /\ t = s \/ t # "PENDING_PAYMENT"
        /\ t # s => cases' = IF t = "FAILED" THEN WithCase(q) ELSE cases
        /\ cases' = cases \/ (cases' = WithCase(q) /\ s \notin Terminal)
    BY <1>4, ConsumeRow
  <2> HIDE DEF s, t
  <2>3. phaseBar' = [phaseBar EXCEPT ![q] = PhaseOf(t)] /\ phaseBar[q] = PhaseOf(s)
    BY <2>1 DEF s, t
  <2>4. /\ cases' = cases => reviewBar' = reviewBar
        /\ cases' = WithCase(q) => reviewBar' = Lifecycle!Opened(q)
    BY <1>1, <2>1, OpenedFacts
  <2>5. s \notin Terminal => Lifecycle!Unsettled(q)
    BY <2>1, <2>2, PhaseFacts DEF Lifecycle!Unsettled, s, Absent, Statuses, Terminal
  <2>6. CASE PhaseOf(t) = PhaseOf(s) /\ cases' = cases
    BY <2>3, <2>4, <2>6 DEF Lifecycle!lifecycleVars
  <2>7. CASE PhaseOf(t) = PhaseOf(s) /\ cases' = WithCase(q) /\ s \notin Terminal
    <3>1. Lifecycle!Hold(q)
      BY <2>3, <2>4, <2>5, <2>7 DEF Lifecycle!Hold
    <3> QED  BY <2>1, <3>1 DEF Lifecycle!LifecycleNext
  <2>8. CASE PhaseOf(t) # PhaseOf(s) /\ t \in Terminal
    <3>1. s \notin Terminal /\ PhaseOf(t) = t /\ s # t
      BY <2>2, <2>8, PhaseFacts
    <3>2. reviewBar' = IF t = "FAILED" THEN Lifecycle!Opened(q) ELSE reviewBar
      BY <2>2, <2>4, <3>1
    <3>3. Lifecycle!Settle(q, t)
      BY <2>3, <2>5, <3>1, <3>2 DEF Lifecycle!Settle
    <3> QED  BY <2>1, <2>8, <3>3 DEF Lifecycle!LifecycleNext
  <2>9. CASE PhaseOf(t) # PhaseOf(s) /\ t \notin Terminal
    <3>1. t # s /\ s \notin Terminal /\ t # "PENDING_PAYMENT" /\ t # "FAILED"
      BY <2>2, <2>9 DEF Terminal
    <3>2. t # Absent /\ s # Absent
      BY <2>2 DEF Absent, Statuses, Terminal
    <3>3. PhaseOf(t) = "active"
      BY <2>2, <2>9, <3>1, <3>2, PhaseFacts
    <3>4. PhaseOf(s) = "awaiting"
      BY <2>2, <2>9, <3>1, <3>2, <3>3, PhaseFacts
    <3>5. Lifecycle!Activate(q)
      BY <2>2, <2>3, <2>4, <3>1, <3>3, <3>4 DEF Lifecycle!Activate
    <3> QED  BY <2>1, <3>5 DEF Lifecycle!LifecycleNext
  <2> QED  BY <2>2, <2>6, <2>7, <2>8, <2>9
<1>5. ASSUME NEW o \in Operators, MarkUpdate(o), UNCHANGED orders
      PROVE  [Lifecycle!LifecycleNext]_(Lifecycle!lifecycleVars)
  <2> DEFINE q == ops[o].quote
  <2>1. /\ q \in Quotes /\ ops[o].to \in Resolutions
        /\ cases[q] # "NONE"
        /\ cases' = [cases EXCEPT ![q] = ops[o].to]
    BY <1>1, <1>5 DEF RCTypeOK, Requests, RequestHasCase, MarkUpdate, SwapInv
  <2> HIDE DEF q
  <2>2. phaseBar' = phaseBar
    BY <1>5
  <2>3. ReviewOf(ops[o].to) = "closed" /\ ReviewOf(cases[q]) \in {"open", "closed"}
    BY <1>1, <2>1, ReviewFacts DEF CaseStatuses, Resolutions
  <2>4. reviewBar' = [reviewBar EXCEPT ![q] = "closed"] /\ reviewBar[q] = ReviewOf(cases[q])
    BY <1>1, <2>1, <2>3
  <2>5. CASE ReviewOf(cases[q]) = "open"
    BY <2>1, <2>2, <2>4, <2>5 DEF Lifecycle!Close, Lifecycle!LifecycleNext
  <2>6. CASE ReviewOf(cases[q]) = "closed"
    BY <2>2, <2>4, <2>6 DEF Lifecycle!lifecycleVars
  <2> QED  BY <2>3, <2>5, <2>6
<1>6. ASSUME UNCHANGED <<orders, cases>>
      PROVE  UNCHANGED Lifecycle!lifecycleVars
  BY <1>6 DEF Lifecycle!lifecycleVars
<1>7. ASSUME NEW p \in AllPayloads, ApplyWebhookEvent(p) \/ ApplyThrows(p)
      PROVE  [Lifecycle!LifecycleNext]_(Lifecycle!lifecycleVars)
  BY <1>4, <1>6, <1>7
     DEF ApplyWebhookEvent, ApplyThrows, Redelivered, UnknownOrder, swapVars
<1>8. ASSUME OperatorStep, UNCHANGED orders
      PROVE  [Lifecycle!LifecycleNext]_(Lifecycle!lifecycleVars)
  BY <1>5, <1>6, <1>8 DEF OperatorStep, MarkPaid, MarkAbandoned, MarkRead
<1>9. ASSUME UNCHANGED vars
      PROVE  UNCHANGED Lifecycle!lifecycleVars
  BY <1>6, <1>9 DEF vars
<1>10. ASSUME NEW q \in Quotes, InitiateLightningQuote(q)
       PROVE  Lifecycle!LifecycleNext
  BY <1>3, <1>10 DEF Lifecycle!LifecycleNext
<1> QED  BY <1>6, <1>7, <1>8, <1>9, <1>10 DEF TablesStep, swapVars

(* The settlement tables implement the payment lifecycle.                   *)
THEOREM Refinement == Spec => ImplementsLifecycle
<1>1. SwapInv /\ SwapInv' /\ [Next]_vars
      => [Lifecycle!LifecycleNext]_(Lifecycle!lifecycleVars)
  BY NextIsTablesStep, TablesStepLifecycle
<1> QED
  BY <1>1, InitLifecycle, SwapInvariant, PTL
     DEF Spec, ImplementsLifecycle, Lifecycle!LifecycleSpec
=============================================================================
