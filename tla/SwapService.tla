---------------------------- MODULE SwapService ----------------------------
(***************************************************************************)
(* The settlement tables of the service and the two operations that write  *)
(* them, src/swap/swap.service.ts: initiateLightningQuote persists a quote *)
(* and applyWebhookEvent applies one event, told by a webhook or composed  *)
(* by the reconciler from a polled snapshot.  applyWebhookEvent runs in    *)
(* one Serializable transaction, so each of its outcomes is one step; a    *)
(* throw rolls everything back, the event row and the binding included.    *)
(*                                                                         *)
(* Nothing is assumed about which events arrive: Payloads is any set of    *)
(* them, and each may arrive any number of times in any order.  Module     *)
(* Settlement puts a provider behind them.                                 *)
(*                                                                         *)
(* Columns that no decision reads and no property mentions (fees, route,   *)
(* error code and message once stored, amountSats) are left out; what is   *)
(* kept of the provider's error text is whether the columns can hold it.   *)
(***************************************************************************)
EXTENDS OrderStateMachine, RefundCaseService

CONSTANTS OrderIds,     \* the provider's order ids
          NoOrder,      \* orderId IS NULL
          NoQuote,      \* an event whose data carries no quoteId
          Amounts,      \* delivered USDB amounts
          NoAmount,     \* actualOut IS NULL, or no amountOut in the event
          Timestamps,   \* event timestamps
          Payloads      \* the events that may reach applyWebhookEvent

RecoveryEvent == "recovery_required"
UnknownEvent  == "unknown"    \* any name mapEventToStatus has no entry for
Events        == StatusEvents \cup {RecoveryEvent, UnknownEvent}

(* How data.error.message compares with the VARCHAR(191) columns it goes    *)
(* to: "mid" fits errorMessage but not the prefixed reason of a case.       *)
ErrorTexts == {"none", "short", "mid", "long"}

AllPayloads == [event : Events, ts : Timestamps, id : OrderIds,
                quote : Quotes \cup {NoQuote}, out : Amounts \cup {NoAmount},
                text : ErrorTexts]

ASSUME SwapAssumption == /\ NoOrder \notin OrderIds
                         /\ NoQuote \notin Quotes
                         /\ NoAmount \notin Amounts
                         /\ Payloads \subseteq AllPayloads

VARIABLES orders,       \* flashnet_orders, one row per quote
          seen,         \* flashnet_webhook_events, by unique key
          processed     \* the keys whose processedAt is set

swapVars == <<orders, seen, processed, cases>>
vars     == <<orders, seen, processed, cases, ops>>

Absent    == "ABSENT"   \* the quote has not been persisted
Rows      == [status : Statuses \cup {Absent}, orderId : OrderIds \cup {NoOrder},
              out : Amounts \cup {NoAmount}]
AbsentRow == [status |-> Absent, orderId |-> NoOrder, out |-> NoAmount]
Keys      == OrderIds \X Events \X Timestamps

TypeOK == /\ orders \in [Quotes -> Rows]
          /\ seen \in SUBSET Keys
          /\ processed \in SUBSET Keys
          /\ RCTypeOK

Init == /\ orders = [q \in Quotes |-> AbsentRow]
        /\ seen = {}
        /\ processed = {}
        /\ RCInit

-----------------------------------------------------------------------------
(* initiateLightningQuote: the transaction that stores Invoice and order.   *)
(* The provider call before it changes nothing here, and the idempotency    *)
(* key is the invoice id, so a replayed call finds its row and writes none. *)
InitiateLightningQuote(q) ==
  /\ orders[q].status = Absent
  /\ orders' = [orders EXCEPT ![q].status = "PENDING_PAYMENT"]
  /\ UNCHANGED <<seen, processed, cases, ops>>

-----------------------------------------------------------------------------
(* applyWebhookEvent.                                                       *)

Key(p) == <<p.id, p.event, p.ts>>

(* The order lookup: by orderId, else the unbound row of the quote.         *)
RowsByOrder(p) == {q \in Quotes : orders[q].orderId = p.id}

(* Mutant: a bound row of the quote is found too.                           *)
RowsByQuoteBound(p) == {q \in Quotes : q = p.quote /\ orders[q].status # Absent}

RowsByQuote(p) == {q \in Quotes : /\ q = p.quote
                                  /\ orders[q].status # Absent
                                  /\ orders[q].orderId = NoOrder}

(* Mutant: the quote is looked up before the order id.                      *)
RowsQuoteFirst(p) == IF RowsByQuote(p) # {} THEN RowsByQuote(p) ELSE RowsByOrder(p)

RowsOf(p) == IF RowsByOrder(p) # {} THEN RowsByOrder(p) ELSE RowsByQuote(p)

QuoteMismatch(p, q) == p.quote # NoQuote /\ p.quote # q

(* MySQL refuses the row when a text is longer than its column.             *)
TextFits(p) ==
  /\ p.event = "failed" => p.text \in {"none", "short"}
  /\ p.event \in {"refunding", "refunded"} => p.text # "long"

DecisionFor(p, q) == Decide(orders[q].status, MapEventToStatus(p.event))

(* The handler throws: nothing of the transaction remains.                  *)
Throws(p, q) ==
  \/ QuoteMismatch(p, q)
  \/ p.event \notin StatusEvents \cup {RecoveryEvent}
  \/ p.event \in StatusEvents /\ DecisionFor(p, q) = "apply" /\ ~TextFits(p)

(* The first event of an order binds it to its row.                         *)
Bound(p, q) == [orders[q] EXCEPT !.orderId = p.id]

(* Mutant: a hold is taken up after settlement too.                         *)
HoldAlways(p, q) == /\ p.event = RecoveryEvent
                    /\ orders' = [orders EXCEPT ![q] = Bound(p, q)]
                    /\ cases' = WithCase(q)

(* "order.recovery_required" on an order that is not settled: open a case.  *)
HoldForRecovery(p, q) ==
  /\ p.event = RecoveryEvent
  /\ orders[q].status \notin Terminal
  /\ orders' = [orders EXCEPT ![q] = Bound(p, q)]
  /\ cases' = WithCase(q)

(* The event is consumed and the status stays: a recovery event for a       *)
(* settled order, a redelivered status, a stale or illegal one.             *)
Ignore(p, q) ==
  /\ IF p.event = RecoveryEvent THEN orders[q].status \in Terminal
                                ELSE DecisionFor(p, q) # "apply"
  /\ orders' = [orders EXCEPT ![q] = Bound(p, q)]
  /\ UNCHANGED cases

(* Mutant: the delivered amount is not recorded.                            *)
RowWithoutAmount(p, q) == [Bound(p, q) EXCEPT !.status = MapEventToStatus(p.event)]

(* The row after an event that applies; a completed order records its       *)
(* amount.                                                                  *)
AdvancedRow(p, q) ==
  [status  |-> MapEventToStatus(p.event),
   orderId |-> p.id,
   out     |-> IF p.event = "completed" /\ p.out # NoAmount
               THEN p.out ELSE orders[q].out]

(* Mutants: no case for a failed order; a case for every settled one.       *)
NoCaseOnFailure(p, q)  == cases
CaseOnSettlement(p, q) == IF MapEventToStatus(p.event) \in Terminal
                          THEN WithCase(q) ELSE cases

(* A failed order gets its case in the same transaction.                    *)
CasesAfter(p, q) == IF p.event = "failed" THEN WithCase(q) ELSE cases

(* The status moves.                                                        *)
Advance(p, q) ==
  /\ p.event \in StatusEvents
  /\ DecisionFor(p, q) = "apply"
  /\ orders' = [orders EXCEPT ![q] = AdvancedRow(p, q)]
  /\ cases' = CasesAfter(p, q)

(* Mutant: the branch for holds does not set processedAt.                   *)
ConsumeHoldUnmarked(p, q) ==
  /\ Key(p) \notin processed
  /\ ~Throws(p, q)
  /\ HoldForRecovery(p, q) \/ Ignore(p, q) \/ Advance(p, q)
  /\ seen' = seen \cup {Key(p)}
  /\ processed' = IF p.event = RecoveryEvent THEN processed
                                             ELSE processed \cup {Key(p)}

Consume(p, q) ==
  /\ Key(p) \notin processed
  /\ ~Throws(p, q)
  /\ HoldForRecovery(p, q) \/ Ignore(p, q) \/ Advance(p, q)
  /\ seen' = seen \cup {Key(p)}
  /\ processed' = processed \cup {Key(p)}

(* Mutant: an event for an order nobody knows is done with.                 *)
UnknownOrderMarked(p) ==
  /\ Key(p) \notin processed
  /\ RowsOf(p) = {}
  /\ seen' = seen \cup {Key(p)}
  /\ processed' = processed \cup {Key(p)}
  /\ UNCHANGED <<orders, cases>>

(* No row yet: the event stays in the table, unprocessed.                   *)
UnknownOrder(p) ==
  /\ Key(p) \notin processed
  /\ RowsOf(p) = {}
  /\ seen' = seen \cup {Key(p)}
  /\ UNCHANGED <<orders, processed, cases>>

Redelivered(p) == Key(p) \in processed /\ UNCHANGED swapVars

(* applyWebhookEvent returning normally, and the same call throwing.        *)
ApplyWebhookEvent(p) == \/ Redelivered(p)
                        \/ UnknownOrder(p)
                        \/ \E q \in RowsOf(p) : Consume(p, q)

ApplyThrows(p) == /\ Key(p) \notin processed
                  /\ \E q \in RowsOf(p) : Throws(p, q)
                  /\ UNCHANGED swapVars

-----------------------------------------------------------------------------
Next == \/ \E q \in Quotes : InitiateLightningQuote(q)
        \/ \E p \in Payloads : /\ ApplyWebhookEvent(p) \/ ApplyThrows(p)
                               /\ UNCHANGED ops
        \/ OperatorStep /\ UNCHANGED <<orders, seen, processed>>

Spec == Init /\ [][Next]_vars

-----------------------------------------------------------------------------
(* No two payments are ever bound to the same provider order: the lookup by *)
(* orderId never has two rows to choose from, whatever quote ids the events *)
(* carry and in whatever order they bind.                                   *)
OrderBoundOnce ==
  \A q, r \in Quotes : /\ orders[q].orderId = orders[r].orderId
                       /\ orders[q].orderId # NoOrder
                       => q = r

SettlingEvents == {e \in StatusEvents : MapEventToStatus(e) \in Terminal}

(* processedAt is set only with the effect: the order of a processed event  *)
(* that settles is some payment's and that payment is settled, and after a  *)
(* processed hold it has a case or is settled.  An event marked without it  *)
(* would be dropped for good, as redelivery and as polled snapshot alike.   *)
ConsumedHadEffect ==
  \A k \in processed :
    /\ k[2] \in SettlingEvents =>
         \E q \in Quotes : orders[q].orderId = k[1] /\ orders[q].status \in Terminal
    /\ k[2] = RecoveryEvent =>
         \E q \in Quotes : /\ orders[q].orderId = k[1]
                           /\ orders[q].status \in Terminal \/ cases[q] # "NONE"

(* "Any failed payment needs an ops case": a row in FAILED has a case, in   *)
(* whichever order hold, failure and operator decisions interleave.         *)
FailedHasCase ==
  \A q \in Quotes : orders[q].status = "FAILED" => cases[q] # "NONE"

(* "stale events never reopen terminal payments": once a payment is settled *)
(* its whole row is frozen: status, credited amount and binding.            *)
SettledIsFinal ==
  [][\A q \in Quotes : orders[q].status \in Terminal
                       => orders'[q] = orders[q]]_vars

(* "A recovery event cannot open a new case after terminal settlement": a   *)
(* case opens only for a known payment that was not settled before.         *)
NoCaseAfterSettlement ==
  [][\A q \in Quotes : cases[q] = "NONE" /\ cases'[q] # "NONE"
                       => orders[q].status \notin Terminal \cup {Absent}]_vars

(* An order id, once bound to a payment, stays with it; every later event   *)
(* of the order reaches the same payment.                                   *)
BindingIsPermanent ==
  [][\A q \in Quotes : orders[q].orderId # NoOrder
                       => orders'[q].orderId = orders[q].orderId]_vars

(* Idempotence: an event takes effect on a stored payment or opens a case   *)
(* only in the step that marks it processed, so no event acts twice.        *)
EffectIsProcessed ==
  [][\A q \in Quotes :
       \/ orders[q].status # Absent /\ orders'[q] # orders[q]
       \/ cases[q] = "NONE" /\ cases'[q] # "NONE"
       => \E k \in processed' : k \notin processed]_vars

-----------------------------------------------------------------------------
(* The refinement mapping to PaymentLifecycle.                              *)
PhaseOf(s) == CASE s = Absent            -> "none"
                [] s = "PENDING_PAYMENT" -> "awaiting"
                [] s \in Terminal        -> s
                [] OTHER                 -> "active"

ReviewOf(c) == CASE c = "NONE" -> "none"
                 [] c = "OPEN" -> "open"
                 [] OTHER      -> "closed"

Lifecycle == INSTANCE PaymentLifecycle
               WITH Payments <- Quotes,
                    Outcomes <- Terminal,
                    phase    <- [q \in Quotes |-> PhaseOf(orders[q].status)],
                    review   <- [q \in Quotes |-> ReviewOf(cases[q])]

(* The tables, driven by any events in any order and by racing operators,   *)
(* implement the lifecycle of a payment: settled once, case opened once,    *)
(* failure and case in one step.                                            *)
ImplementsLifecycle == Lifecycle!LifecycleSpec

-----------------------------------------------------------------------------
(* "Failed deliveries and recovery holds open an ops case": the step that   *)
(* fails a payment leaves it in the queue of OPEN cases.                    *)
FailureIsVisible ==
  [][\A q \in Quotes : orders[q].status # "FAILED" /\ orders'[q].status = "FAILED"
                       => cases'[q] = "OPEN"]_vars
=============================================================================
