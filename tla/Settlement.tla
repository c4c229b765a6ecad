----------------------------- MODULE Settlement -----------------------------
(***************************************************************************)
(* The settlement of Lightning quotes, end to end: the tables of           *)
(* SwapService, the provider's orders behind them, the webhooks it sends   *)
(* (src/swap/flashnet-webhook.controller.ts), the polling reconciler       *)
(* (src/swap/quote-reconciler.service.ts) and the operators.               *)
(*                                                                         *)
(* A webhook, once sent, stays in net: it may be delivered late, in any    *)
(* order, again and again, or never.  The controller's own refusals (stale *)
(* timestamp, bad signature, unreadable body) leave no trace in the state, *)
(* so they are deliveries that do not happen.  The reconciler works on     *)
(* rows and snapshots it read earlier; everything else may happen between  *)
(* its steps.  A fault is a crash of the process, a failed lookup or an    *)
(* aborted transaction.                                                    *)
(***************************************************************************)
EXTENDS SwapService, Naturals, FiniteSets

CONSTANTS OrderOf,            \* the order id the provider gives each quote
          ProviderStatuses,   \* the statuses its orders take
          Texts,              \* the error texts its orders carry
          Shifts,             \* stamps of a webhook's delivery attempts: its
                              \* snapshot's (0) or their own (MaxVersion)
          MaxVersion,         \* bound: updates of one order
          MaxFaults           \* bound: crashes and failed calls together

ASSUME SettlementAssumption ==
  /\ OrderOf \in [Quotes -> OrderIds]
  /\ \A q, r \in Quotes : OrderOf[q] = OrderOf[r] => q = r
  /\ ProviderStatuses \subseteq Statuses \ {"PENDING_PAYMENT"}
  /\ Texts \subseteq ErrorTexts
  /\ MaxVersion \in Nat /\ MaxFaults \in Nat
  /\ Shifts \subseteq {0, MaxVersion} /\ Shifts # {}
  /\ \A v \in 1..MaxVersion, d \in Shifts \cup {0} : v + d \in Timestamps

VARIABLES provider,   \* the provider's order of each quote, with its version
          net,        \* the webhooks sent
          rec,        \* the reconciler: rows still to visit, snapshot in hand
          faults

settlementVars == <<vars, provider, net, rec, faults>>

Unfunded == [status |-> "UNFUNDED", version |-> 0, hold |-> FALSE, out |-> NoAmount,
             text |-> "none"]
Snapshots == [status : ProviderStatuses, version : 1..MaxVersion, hold : BOOLEAN,
              out : Amounts \cup {NoAmount}, text : Texts]
NoSnapshot == [stage |-> "none"]
Work == {NoSnapshot} \cup [stage : {"status", "recovery"}, quote : Quotes,
                           order : Snapshots]

SettlementTypeOK ==
  /\ TypeOK
  /\ provider \in [Quotes -> Snapshots \cup {Unfunded}]
  /\ net \in SUBSET AllPayloads
  /\ rec \in [todo : SUBSET Quotes, work : Work]
  /\ faults \in 0..MaxFaults

SettlementInit ==
  /\ Init
  /\ provider = [q \in Quotes |-> Unfunded]
  /\ net = {}
  /\ rec = [todo |-> {}, work |-> NoSnapshot]
  /\ faults = 0

(* The event the reconciler composes from snapshot s of q's order: for its  *)
(* status, or for its review hold.  Its data is the snapshot, whose         *)
(* amountOut may be null, on a completed order too.                         *)
EventFor(q, s, event) ==
  [event |-> event, ts |-> s.version, id |-> OrderOf[q], quote |-> q,
   out |-> s.out, text |-> s.text]

(* The webhook about it.                                                    *)
WebhookFor(q, s, event, shift) == [EventFor(q, s, event) EXCEPT !.ts = @ + shift]

(* The webhooks of an update: for the status, and for a hold.               *)
Webhooks(q, s) ==
  {WebhookFor(q, s, EventOf(s.status), d) : d \in Shifts}
  \cup (IF s.hold THEN {WebhookFor(q, s, RecoveryEvent, d) : d \in Shifts} ELSE {})

-----------------------------------------------------------------------------
(* The provider, external: once paid, the order takes any status until a    *)
(* terminal one.  Each update is announced by webhooks, and so is a hold.   *)
(* The stamp of a delivery, the x-flashnet-timestamp header, need not be    *)
(* the updatedAt that the reconciler uses, and a webhook may lack the       *)
(* amount that the order has when polled.                                   *)
OrderMoves(q) ==
  /\ provider[q].status \notin Terminal
  /\ provider[q].version < MaxVersion
  /\ \E s \in Snapshots :
       /\ s.version = provider[q].version + 1
       /\ s.status = provider[q].status => s.hold # provider[q].hold
       /\ s.text # "none" => s.status \in {"FAILED", "REFUNDING", "REFUNDED"}
       /\ s.out # NoAmount => s.status = "DELIVERED"
       /\ provider' = [provider EXCEPT ![q] = s]
       /\ \E told \in {s, [s EXCEPT !.out = NoAmount]} : net' = net \cup Webhooks(q, told)
  /\ UNCHANGED <<vars, rec, faults>>

(* The payer pays the invoice it was shown after the quote was stored; that *)
(* it cannot be paid before is what module PaymentPath shows.               *)
ProviderUpdate(q) == orders[q].status # Absent /\ OrderMoves(q)

-----------------------------------------------------------------------------
(* handleWebhook: a 2xx or a 5xx answer; either way it may come again.      *)
HandleWebhook(p) ==
  /\ p \in net
  /\ ApplyWebhookEvent(p) \/ ApplyThrows(p)
  /\ UNCHANGED <<ops, provider, net, rec, faults>>

-----------------------------------------------------------------------------
(* reconcileBatch.  The three queues together hold every stored row that is *)
(* not settled; module QuoteReconciler is about their pages and cursors, a  *)
(* batch here visits them all.                                              *)
NextRow(q) == [rec EXCEPT !.todo = @ \ {q}, !.work = NoSnapshot]

(* Mutant: only rows that are bound to an order are queried.                *)
RecQueryBound ==
  /\ rec.todo = {} /\ rec.work = NoSnapshot
  /\ rec' = [rec EXCEPT !.todo = {q \in Quotes : /\ orders[q].status \notin Terminal
                                                 /\ orders[q].orderId # NoOrder}]
  /\ UNCHANGED <<vars, provider, net, faults>>

RecQuery ==
  /\ rec.todo = {} /\ rec.work = NoSnapshot
  /\ rec' = [rec EXCEPT !.todo = {q \in Quotes :
                                    orders[q].status \notin Terminal \cup {Absent}}]
  /\ UNCHANGED <<vars, provider, net, faults>>

(* Mutant: the absence of an order is taken for a snapshot.                 *)
RecFetchNull(q) ==
  /\ q \in rec.todo /\ rec.work = NoSnapshot
  /\ rec' = [rec EXCEPT !.work = [stage |-> "status", quote |-> q, order |-> provider[q]]]
  /\ UNCHANGED <<vars, provider, net, faults>>

(* getQuoteOrder: no order yet, or a snapshot.  The provider has one order  *)
(* per quote, so the loop's own id and quote checks on it cannot fail.      *)
RecFetch(q) ==
  /\ q \in rec.todo /\ rec.work = NoSnapshot
  /\ rec' = IF provider[q] = Unfunded THEN NextRow(q)
            ELSE [rec EXCEPT !.work = [stage |-> "status", quote |-> q,
                                       order |-> provider[q]]]
  /\ UNCHANGED <<vars, provider, net, faults>>

(* Mutant: the review status of a snapshot is not looked at.                *)
RecApplyNoHold(q) ==
  /\ rec.work # NoSnapshot /\ rec.work.quote = q /\ rec.work.stage = "status"
  /\ LET p == EventFor(q, rec.work.order, EventOf(rec.work.order.status))
     IN  ApplyWebhookEvent(p) \/ ApplyThrows(p)
  /\ rec' = NextRow(q)
  /\ UNCHANGED <<ops, provider, net, faults>>

(* Apply the snapshot's status; on success its hold is next, and a throw    *)
(* defers the row, hold included.                                           *)
RecApply(q) ==
  /\ rec.work # NoSnapshot /\ rec.work.quote = q /\ rec.work.stage = "status"
  /\ LET s == rec.work.order
         p == EventFor(q, s, EventOf(s.status))
     IN  \/ /\ ApplyWebhookEvent(p)
            /\ rec' = IF s.hold THEN [rec EXCEPT !.work.stage = "recovery"]
                                ELSE NextRow(q)
         \/ ApplyThrows(p) /\ rec' = NextRow(q)
  /\ UNCHANGED <<ops, provider, net, faults>>

RecRecover(q) ==
  /\ rec.work # NoSnapshot /\ rec.work.quote = q /\ rec.work.stage = "recovery"
  /\ ApplyWebhookEvent(EventFor(q, rec.work.order, RecoveryEvent))
  /\ rec' = NextRow(q)
  /\ UNCHANGED <<ops, provider, net, faults>>

(* A failed lookup or an aborted transaction defers the row to a later      *)
(* batch.                                                                   *)
RecDefer(q) ==
  /\ q \in rec.todo /\ faults < MaxFaults
  /\ rec' = NextRow(q)
  /\ faults' = faults + 1
  /\ UNCHANGED <<vars, provider, net>>

(* The process dies and restarts: batch and operator requests in flight are *)
(* gone, the tables remain.                                                 *)
Crash ==
  /\ faults < MaxFaults
  /\ rec' = [todo |-> {}, work |-> NoSnapshot]
  /\ ops' = [o \in Operators |-> NoRequest]
  /\ faults' = faults + 1
  /\ UNCHANGED <<swapVars, provider, net>>

-----------------------------------------------------------------------------
Reconcile(q) == RecFetch(q) \/ RecApply(q) \/ RecRecover(q)

SettlementNext ==
  \/ \E q \in Quotes : /\ InitiateLightningQuote(q)
                       /\ UNCHANGED <<provider, net, rec, faults>>
  \/ \E q \in Quotes : ProviderUpdate(q) \/ Reconcile(q) \/ RecDefer(q)
  \/ \E p \in net : HandleWebhook(p)
  \/ RecQuery
  \/ Crash
  \/ OperatorStep /\ UNCHANGED <<orders, seen, processed, provider, net, rec,
                                 faults>>

SettlementSafety == SettlementInit /\ [][SettlementNext]_settlementVars

(* The reconciler is a loop of its own: run() starts a batch every 30 s and *)
(* a batch visits each of its rows.  Nothing else is assumed to happen: no  *)
(* webhook need ever arrive, no operator act.                               *)
Settlement == /\ SettlementSafety
              /\ WF_settlementVars(RecQuery)
              /\ \A q \in Quotes : WF_settlementVars(Reconcile(q))

-----------------------------------------------------------------------------
(* The amounts, or the lack of one, that the provider has told of q's       *)
(* completed order, in its state and in its webhooks.                       *)
Told(q) == {provider[q].out} \cup {p.out : p \in {w \in net : /\ w.quote = q
                                                           /\ w.event = "completed"}}

(* A settled payment agrees with the provider: same final status, its own   *)
(* order, and of a delivery an amount it told: none only if some message    *)
(* about it told none.  So after any loss, duplication and reordering of    *)
(* webhooks and any staleness of polled snapshots.                          *)
SettlementAgrees ==
  \A q \in Quotes : orders[q].status \in Terminal =>
    /\ provider[q].status = orders[q].status
    /\ orders[q].orderId = OrderOf[q]
    /\ orders[q].out \in IF orders[q].status = "DELIVERED"
                         THEN Told(q) ELSE {NoAmount}

(* A case is opened only for a payment the provider has failed or held: no  *)
(* case is ever opened for a payment on its normal course.                  *)
CaseHasCause ==
  \A q \in Quotes : cases[q] # "NONE" =>
    \E p \in net : p.quote = q /\ p.event \in {"failed", RecoveryEvent}

(* A visit with an order in hand ends in its own time.                      *)
VisitEnds(q) == (RecApply(q) \/ RecRecover(q)) /\ rec'.work = NoSnapshot

(* "Old unpaid invoices still get late-settlement checks": a paid row that  *)
(* stays unsettled is visited to the end again and again, whatever crashes  *)
(* and failed lookups do to the batches.                                    *)
KeepsVisiting ==
  \A q \in Quotes :
    <>[](provider[q] # Unfunded /\ orders[q].status \notin Terminal)
    => []<><<VisitEnds(q)>>_settlementVars

(* With no webhook at all, the reconciler settles every payment that the    *)
(* provider has settled, across crashes and failed lookups.                 *)
EventuallySettled ==
  \A q \in Quotes : provider[q].status \in Terminal
                    ~> orders[q].status = provider[q].status

(* "Any failed payment needs an ops case": a payment the provider reports   *)
(* as failed gets its case.                                                 *)
FailureReachesQueue ==
  \A q \in Quotes : provider[q].status = "FAILED" ~> cases[q] # "NONE"

Held(q) == provider[q].hold /\ provider[q].status \notin Terminal

(* "Polling also detects pending_review / blocked_wallet holds": a hold     *)
(* that lasts reaches the recovery queue.                                   *)
HoldIsDetected ==
  \A q \in Quotes : <>[]Held(q) => <>(cases[q] # "NONE")
=============================================================================
