-------------------------- MODULE SettlementProofs --------------------------
(***************************************************************************)
(* Proofs about the settlement end to end and the payment path in front of *)
(* it, for any number of quotes, order updates, webhook deliveries,        *)
(* crashes and callbacks in flight.  The tables alone do not know what is  *)
(* true; the invariant says of everything that can still reach them, a     *)
(* webhook in the net or a snapshot in the reconciler's hands, however     *)
(* old, that applying it now would still be right.  Liveness is proved     *)
(* from the premise that unsettled rows keep being visited.                *)
(***************************************************************************)
EXTENDS PaymentPath, SwapServiceProofs

(* The provider has announced that q failed or is held.                     *)
Announced(q) == \E p \in net : p.quote = q /\ p.event \in {"failed", RecoveryEvent}

(* An event names its own order, the outcome it tells, if it tells one, is  *)
(* the provider's, and of a completed order it says what the provider told. *)
EventTrue(p) ==
  /\ p \in AllPayloads
  /\ p.quote \in Quotes /\ p.id = OrderOf[p.quote]
  /\ p.event \in StatusEvents \cup {RecoveryEvent}
  /\ p.event = "completed" => p.out \in Told(p.quote)
  /\ p.event \in StatusEvents /\ MapEventToStatus(p.event) \in Terminal
     => provider[p.quote].status = MapEventToStatus(p.event)
  /\ p.event \in {"failed", RecoveryEvent} => Announced(p.quote)

(* A snapshot of q's order, of whatever age: an outcome in it is final,     *)
(* with its amount, and a failure or a hold in it was announced.            *)
SnapshotTrue(q, s) ==
  /\ s.status \in Terminal => provider[q].status = s.status /\ provider[q].out = s.out
  /\ s.status = "FAILED" \/ s.hold => Announced(q)

NetTrue == \A p \in net : EventTrue(p)
ProviderAnnounced == \A q \in Quotes : SnapshotTrue(q, provider[q])
WorkTrue == rec.work # NoSnapshot =>
              /\ SnapshotTrue(rec.work.quote, rec.work.order)
              /\ rec.work.stage = "recovery" => rec.work.order.hold

(* A row is bound to its own order or not yet, and agrees with it if        *)
(* settled.                                                                 *)
RowTrue(q) ==
  /\ orders[q].orderId \in {NoOrder, OrderOf[q]}
  /\ orders[q].status \in Terminal => provider[q].status = orders[q].status
  /\ orders[q].out \in IF orders[q].status = "DELIVERED" THEN Told(q) ELSE {NoAmount}
RowsTrue == \A q \in Quotes : RowTrue(q)

(* The inductive invariant.                                                 *)
SettlementInv == /\ SettlementTypeOK /\ SwapInv
                 /\ NetTrue /\ ProviderAnnounced /\ WorkTrue
                 /\ RowsTrue /\ CaseHasCause

-----------------------------------------------------------------------------
(* EventOf is the inverse of MapEventToStatus.                              *)
LEMMA EventOfFacts ==
  ASSUME NEW s \in Statuses \ {"PENDING_PAYMENT"}
  PROVE  /\ EventOf(s) \in StatusEvents
         /\ MapEventToStatus(EventOf(s)) = s
<1>1. \E e \in StatusEvents : MapEventToStatus(e) = s
  BY DEF Statuses, Terminal, StatusEvents, MapEventToStatus
<1> QED  BY <1>1 DEF EventOf

(* Only a completed event tells of a delivery, and no hold is a status.     *)
LEMMA EventNames ==
  /\ \A e \in StatusEvents : MapEventToStatus(e) = "DELIVERED" <=> e = "completed"
  /\ RecoveryEvent \notin StatusEvents
  /\ StatusEvents \cup {RecoveryEvent} \subseteq Events
  /\ RecoveryEvent \notin {"completed", "failed"}
  BY DEF StatusEvents, MapEventToStatus, RecoveryEvent, Events

(* The fields of a snapshot.                                                *)
LEMMA SnapshotFields ==
  ASSUME NEW s \in Snapshots
  PROVE  /\ s.status \in Statuses \ {"PENDING_PAYMENT"} /\ s.version \in 1..MaxVersion
         /\ s.hold \in BOOLEAN /\ s.text \in ErrorTexts
         /\ s.out \in Amounts \cup {NoAmount}
         /\ s # Unfunded
<1>1. s.version \in 1..MaxVersion /\ MaxVersion \in Nat
  BY SettlementAssumption DEF SettlementAssumption, Snapshots
<1> QED  BY <1>1, SettlementAssumption DEF SettlementAssumption, Snapshots, Unfunded

(* What the reconciler's event from a snapshot, and a webhook about it,     *)
(* carry: p is either, for the status or for the hold.                      *)
Tells(p, q, s) ==
  /\ p \in AllPayloads
  /\ p.quote = q /\ p.id = OrderOf[q]
  /\ \/ p.event \in StatusEvents /\ MapEventToStatus(p.event) = s.status
     \/ p.event = RecoveryEvent /\ s.hold

(* Poll and webhook carry what the snapshot they are about says.            *)
LEMMA EventForTells ==
  ASSUME NEW q \in Quotes, NEW s \in Snapshots,
         NEW e, e = EventOf(s.status) \/ (e = RecoveryEvent /\ s.hold)
  PROVE  /\ Tells(EventFor(q, s, e), q, s)
         /\ \A d \in Shifts : Tells(WebhookFor(q, s, e, d), q, s)
<1>1. /\ s.status \in Statuses \ {"PENDING_PAYMENT"} /\ s.version \in 1..MaxVersion
      /\ s.hold \in BOOLEAN /\ s.text \in ErrorTexts
      /\ s.out \in Amounts \cup {NoAmount}
  BY SnapshotFields
<1>2. /\ EventOf(s.status) \in StatusEvents
      /\ MapEventToStatus(EventOf(s.status)) = s.status
  BY <1>1, EventOfFacts
<1>3. /\ e \in Events
      /\ \/ e \in StatusEvents /\ MapEventToStatus(e) = s.status
         \/ e = RecoveryEvent /\ s.hold
  BY <1>2, EventNames
<1>4. OrderOf[q] \in OrderIds
  BY SettlementAssumption DEF SettlementAssumption
<1>5. \A d \in Shifts \cup {0} : s.version + d \in Timestamps
  BY <1>1, SettlementAssumption DEF SettlementAssumption
<1>6. s.version + 0 = s.version
  BY <1>1, SettlementAssumption DEF SettlementAssumption
<1>7. ASSUME NEW ts \in Timestamps, NEW out \in Amounts \cup {NoAmount},
             NEW p, p = [event |-> e, ts |-> ts, id |-> OrderOf[q], quote |-> q,
                         out |-> out, text |-> s.text]
      PROVE  Tells(p, q, s)
  <2>1. p.event = e /\ p.quote = q /\ p.id = OrderOf[q]
    BY <1>7
  <2>2. p \in AllPayloads
    BY <1>1, <1>3, <1>4, <1>7 DEF AllPayloads
  <2> QED  BY <2>1, <2>2, <1>3 DEF Tells
<1>8. Tells(EventFor(q, s, e), q, s)
  BY <1>1, <1>5, <1>6, <1>7 DEF EventFor
<1>9. ASSUME NEW d \in Shifts PROVE Tells(WebhookFor(q, s, e, d), q, s)
  BY <1>1, <1>5, <1>7 DEF EventFor, WebhookFor
<1> QED  BY <1>8, <1>9

(* What tells of a true snapshot is true.                                   *)
LEMMA TellsTrue ==
  ASSUME NEW q \in Quotes, NEW s, SnapshotTrue(q, s), NEW p, Tells(p, q, s),
         p.out = s.out
  PROVE  EventTrue(p)
<1>1. p.event = "failed" => s.status = "FAILED"
  BY EventMapping, EventNames DEF Tells
<1>2. p.event \in {"failed", RecoveryEvent} => Announced(q)
  BY <1>1, EventNames DEF Tells, SnapshotTrue
<1>3. p.event \in StatusEvents => MapEventToStatus(p.event) = s.status
  BY EventNames DEF Tells
<1>4. p.event = "completed" => s.status = "DELIVERED"
  BY EventMapping, EventNames DEF Tells
<1>5. p.event = "completed" => p.out \in Told(q)
  BY <1>4 DEF SnapshotTrue, Terminal, Told
<1> QED  BY <1>2, <1>3, <1>5 DEF Tells, SnapshotTrue, EventTrue

-----------------------------------------------------------------------------
(* A true event goes to its own payment and leaves its row true; a case it  *)
(* opens has its cause.                                                     *)
LEMMA ConsumeTruth ==
  ASSUME SettlementInv, NEW p, EventTrue(p), NEW q \in RowsOf(p), Consume(p, q),
         UNCHANGED <<provider, net>>
  PROVE  RowsTrue' /\ CaseHasCause'
<1>1. p \in AllPayloads /\ SwapInv
  BY DEF EventTrue, SettlementInv
<1>2. q \in Quotes /\ orders \in [Quotes -> Rows]
  BY <1>1 DEF RowsOf, RowsByOrder, RowsByQuote, SwapInv, TypeOK
<1>3. q = p.quote
  BY SwapAssumption DEF Consume, Throws, QuoteMismatch, EventTrue, SwapAssumption
<1>4. orders[q] \in Rows /\ RowTrue(q)
  BY <1>2 DEF SettlementInv, RowsTrue
<1>5. CASE HoldForRecovery(p, q) \/ Ignore(p, q)
  <2>1. orders' = [orders EXCEPT ![q] = Bound(p, q)]
    BY <1>5 DEF HoldForRecovery, Ignore
  <2>2. /\ orders'[q].orderId = OrderOf[q]
        /\ orders'[q].status = orders[q].status
        /\ orders'[q].out = orders[q].out
    BY <1>2, <1>3, <1>4, <2>1 DEF Bound, Rows, EventTrue
  <2>3. \A r \in Quotes \ {q} : orders'[r] = orders[r]
    BY <1>2, <2>1
  <2>4. RowsTrue'
    BY <1>4, <2>2, <2>3 DEF RowsTrue, RowTrue, SettlementInv, Told
  <2>5. cases' = cases \/ (cases' = WithCase(q) /\ p.event = RecoveryEvent)
    BY <1>5 DEF HoldForRecovery, Ignore
  <2>6. Announced(q) \/ cases' = cases
    BY <1>3, <2>5 DEF EventTrue
  <2>7. \A r \in Quotes \ {q} : cases'[r] = cases[r]
    BY <1>1, <1>2, <2>5, WithCaseFacts DEF SwapInv, TypeOK
  <2>8. CaseHasCause'
    BY <1>2, <2>6, <2>7 DEF CaseHasCause, Announced, SettlementInv
  <2> QED  BY <2>4, <2>8
<1>6. CASE Advance(p, q)
  <2>1. /\ p.event \in StatusEvents
        /\ orders[q].status \notin Terminal
        /\ orders' = [orders EXCEPT ![q] = AdvancedRow(p, q)]
    BY <1>6, TerminalIsSink DEF Advance, DecisionFor
  <2> DEFINE t == MapEventToStatus(p.event)
  <2>2. /\ orders'[q].orderId = OrderOf[q]
        /\ orders'[q].status = t
        /\ orders'[q].out = IF p.event = "completed" /\ p.out # NoAmount
                            THEN p.out ELSE orders[q].out
    BY <1>2, <1>3, <2>1 DEF AdvancedRow, EventTrue
  <2>3. orders[q].out = NoAmount
    BY <1>4, <2>1 DEF RowTrue, Terminal
  <2>4. t = "DELIVERED" <=> p.event = "completed"
    BY <2>1, EventNames
  <2>5. orders'[q].out \in IF t = "DELIVERED" THEN Told(q)' ELSE {NoAmount}
    <3>1. Told(q)' = Told(q)
      BY DEF Told
    <3> QED  BY <1>3, <2>2, <2>3, <2>4, <3>1 DEF EventTrue
  <2>6. t \in Terminal => provider'[q].status = t
    BY <1>3, <2>1 DEF EventTrue
  <2>7. \A r \in Quotes \ {q} : orders'[r] = orders[r]
    BY <1>2, <2>1
  <2>8. RowTrue(q)'
    BY <2>2, <2>5, <2>6 DEF RowTrue
  <2>9. RowsTrue'
    <3> SUFFICES ASSUME NEW r \in Quotes \ {q} PROVE RowTrue(r)'
      BY <2>8 DEF RowsTrue
    <3>1. RowTrue(r) /\ orders'[r] = orders[r] /\ Told(r)' = Told(r)
      BY <2>7 DEF SettlementInv, RowsTrue, Told
    <3> QED  BY <3>1 DEF RowTrue
  <2>10. cases' = cases \/ (cases' = WithCase(q) /\ p.event = "failed")
    BY <1>6 DEF Advance, CasesAfter
  <2>11. Announced(q) \/ cases' = cases
    BY <1>3, <2>10 DEF EventTrue
  <2>12. \A r \in Quotes \ {q} : cases'[r] = cases[r]
    BY <1>1, <1>2, <2>10, WithCaseFacts DEF SwapInv, TypeOK
  <2>13. CaseHasCause'
    BY <1>2, <2>11, <2>12 DEF CaseHasCause, Announced, SettlementInv
  <2> QED  BY <2>9, <2>13
<1> QED  BY <1>5, <1>6 DEF Consume

(* The same of the whole handler, whatever its outcome.                     *)
LEMMA ApplyTruth ==
  ASSUME SettlementInv, NEW p, EventTrue(p), ApplyWebhookEvent(p) \/ ApplyThrows(p),
         UNCHANGED <<ops, provider, net>>
  PROVE  SwapInv' /\ RowsTrue' /\ CaseHasCause'
<1>1. p \in AllPayloads /\ SwapInv
  BY DEF EventTrue, SettlementInv
<1>2. SwapInv'
  BY <1>1, TablesKeepInv, SwapAssumption DEF TablesStep
<1>3. ASSUME UNCHANGED <<orders, cases>> PROVE RowsTrue' /\ CaseHasCause'
  BY <1>3 DEF SettlementInv, RowsTrue, RowTrue, CaseHasCause, Told
<1> QED
  BY <1>2, <1>3, ConsumeTruth
     DEF ApplyWebhookEvent, ApplyThrows, Redelivered, UnknownOrder, swapVars

-----------------------------------------------------------------------------
(* Initially nothing has been said.                                         *)
LEMMA InitSettlementInv ==
  ASSUME SettlementInit
  PROVE  SettlementInv
<1>1. Init /\ SwapInv
  BY InitSwapInv, SwapAssumption DEF SettlementInit
<1>2. SettlementTypeOK
  <2>1. 0 \in 0..MaxFaults
    BY SettlementAssumption DEF SettlementAssumption
  <2> QED  BY <1>1, <2>1 DEF SwapInv, SettlementTypeOK, SettlementInit, Work
<1>3. NetTrue /\ WorkTrue
  BY DEF SettlementInit, NetTrue, WorkTrue
<1>4. ProviderAnnounced
  BY DEF SettlementInit, ProviderAnnounced, SnapshotTrue, Unfunded, Terminal
<1>5. RowsTrue
  BY <1>1 DEF Init, RowsTrue, RowTrue, AbsentRow, Absent, Terminal
<1>6. CaseHasCause
  BY <1>1 DEF Init, RCInit, CaseHasCause
<1> QED  BY <1>1, <1>2, <1>3, <1>4, <1>5, <1>6 DEF SettlementInv

(* The provider's order moves: it was not settled, so nothing said before   *)
(* told its outcome, and all that is new is said of the new state.          *)
LEMMA MovesKeepInv ==
  ASSUME SettlementInv, NEW q \in Quotes, OrderMoves(q)
  PROVE  SettlementInv'
<1>1. PICK s \in Snapshots, told \in Snapshots :
        /\ provider' = [provider EXCEPT ![q] = s]
        /\ net' = net \cup Webhooks(q, told)
        /\ told.status = s.status /\ told.hold = s.hold
  BY DEF OrderMoves, Snapshots
<1>2. provider[q].status \notin Terminal /\ UNCHANGED <<vars, rec, faults>>
  BY DEF OrderMoves
<1>3. provider \in [Quotes -> Snapshots \cup {Unfunded}] /\ net \in SUBSET AllPayloads
  BY DEF SettlementInv, SettlementTypeOK
<1>4. provider'[q] = s /\ \A r \in Quotes \ {q} : provider'[r] = provider[r]
  BY <1>1, <1>3
<1>5. net \subseteq net'
  BY <1>1
<1>6. \A r : Announced(r) => Announced(r)'
  BY <1>5 DEF Announced
<1>7. s.status = "FAILED" \/ s.hold => Announced(q)'
  <2>1. PICK d \in Shifts : TRUE
    BY SettlementAssumption DEF SettlementAssumption
  <2>2. \A e : /\ WebhookFor(q, told, e, d).quote = q
               /\ WebhookFor(q, told, e, d).event = e
    BY DEF WebhookFor, EventFor
  <2>3. CASE s.hold
    BY <1>1, <2>2, <2>3 DEF Announced, Webhooks
  <2>4. CASE s.status = "FAILED"
    <3>1. EventOf(s.status) = "failed"
      BY <2>4, SnapshotFields, EventOfFacts, EventMapping
    <3>2. WebhookFor(q, told, EventOf(s.status), d) \in net'
      BY <1>1 DEF Webhooks
    <3> QED  BY <2>2, <3>1, <3>2 DEF Announced
  <2> QED  BY <2>3, <2>4
<1>8. SnapshotTrue(q, s)'
  BY <1>4, <1>7 DEF SnapshotTrue
<1>9. \A r \in Quotes : \A x : SnapshotTrue(r, x) => SnapshotTrue(r, x)'
  BY <1>2, <1>4, <1>6 DEF SnapshotTrue
<1>10. \A r \in Quotes : provider[r].status \in Terminal => Told(r) \subseteq Told(r)'
  BY <1>2, <1>4, <1>5 DEF Told
<1>11. \A p : EventTrue(p) => EventTrue(p)'
  <2> SUFFICES ASSUME NEW p, EventTrue(p) PROVE EventTrue(p)'
    OBVIOUS
  <2>1. p.event = "completed" => provider[p.quote].status \in Terminal
    BY EventNames DEF EventTrue, StatusEvents, Terminal
  <2>2. p.event = "completed" => p.out \in Told(p.quote)'
    BY <1>10, <2>1 DEF EventTrue
  <2> QED  BY <1>2, <1>4, <1>6, <2>2 DEF EventTrue
<1>12. \A p \in net' \ net : EventTrue(p)'
  <2> SUFFICES ASSUME NEW p \in net' \ net PROVE EventTrue(p)'
    OBVIOUS
  <2>1. Tells(p, q, s)
    <3>1. Tells(p, q, told)
      BY <1>1, EventForTells DEF Webhooks
    <3> QED  BY <1>1, <3>1 DEF Tells
  <2>4. p.event = "completed" => p.out \in Told(q)'
    BY <2>1 DEF Tells, Told
  <2>2. (p.event = "failed" => s.status = "FAILED")
        /\ (p.event \in StatusEvents => MapEventToStatus(p.event) = s.status)
    BY <2>1, EventMapping, EventNames DEF Tells
  <2>3. p.event \in {"failed", RecoveryEvent} => Announced(q)'
    BY <1>7, <2>1, <2>2, EventNames DEF Tells
  <2> QED  BY <1>4, <2>1, <2>2, <2>3, <2>4 DEF Tells, EventTrue
<1>13. NetTrue'
  BY <1>11, <1>12 DEF NetTrue, SettlementInv
<1>14. ProviderAnnounced'
  BY <1>4, <1>8, <1>9 DEF ProviderAnnounced, SettlementInv
<1>15. WorkTrue'
  BY <1>2, <1>9 DEF WorkTrue, Work, SettlementInv, SettlementTypeOK
<1>16. SwapInv' /\ TypeOK'
  BY <1>2, TablesKeepInv, SwapAssumption DEF SettlementInv, SwapInv
<1>17. net' \in SUBSET AllPayloads
  BY <1>13 DEF NetTrue, EventTrue
<1>18. SettlementTypeOK'
  BY <1>1, <1>2, <1>3, <1>16, <1>17 DEF SettlementTypeOK, SettlementInv
<1>19. RowsTrue'
  <2> SUFFICES ASSUME NEW r \in Quotes PROVE RowTrue(r)'
    BY DEF RowsTrue
  <2>1. RowTrue(r) /\ orders' = orders
    BY <1>2 DEF RowsTrue, SettlementInv, vars
  <2>2. orders[r].status \in Terminal => provider[r].status \in Terminal
    BY <2>1 DEF RowTrue
  <2>3. orders[r].status = "DELIVERED" => orders[r].out \in Told(r)'
    BY <1>10, <2>1, <2>2 DEF RowTrue, Terminal
  <2> QED  BY <1>2, <1>4, <2>1, <2>2, <2>3 DEF RowTrue
<1>20. CaseHasCause'
  BY <1>2, <1>5 DEF CaseHasCause, SettlementInv, vars
<1> QED
  BY <1>13, <1>14, <1>15, <1>16, <1>18, <1>19, <1>20 DEF SettlementInv

(* Steps in which the provider says nothing new: what is left to show is    *)
(* about the tables and the reconciler.                                     *)
LEMMA QuietKeepsInv ==
  ASSUME SettlementInv, SwapInv', RowsTrue', CaseHasCause', UNCHANGED <<provider, net>>,
         rec' \in [todo : SUBSET Quotes, work : Work], WorkTrue', faults' \in 0..MaxFaults
  PROVE  SettlementInv'
<1>1. SettlementTypeOK'
  BY DEF SettlementInv, SettlementTypeOK, SwapInv
<1>2. NetTrue' /\ ProviderAnnounced'
  BY DEF SettlementInv, NetTrue, EventTrue, ProviderAnnounced, SnapshotTrue, Announced, Told
<1> QED  BY <1>1, <1>2 DEF SettlementInv

(* Going on to the next row drops the snapshot in hand.                     *)
LEMMA NextRowFacts ==
  ASSUME SettlementInv, NEW q \in Quotes, rec' = NextRow(q)
  PROVE  rec' \in [todo : SUBSET Quotes, work : Work] /\ WorkTrue'
<1>1. rec \in [todo : SUBSET Quotes, work : Work]
  BY DEF SettlementInv, SettlementTypeOK
<1>2. NoSnapshot \in Work
  BY DEF Work
<1>3. rec' = [todo |-> rec.todo \ {q}, work |-> NoSnapshot]
  BY <1>1 DEF NextRow
<1> QED  BY <1>1, <1>2, <1>3 DEF WorkTrue

(* A snapshot in hand is true, so its event is.                             *)
LEMMA WorkFacts ==
  ASSUME SettlementInv, NEW q \in Quotes, rec.work # NoSnapshot, rec.work.quote = q
  PROVE  /\ rec.work.order \in Snapshots
         /\ EventTrue(EventFor(q, rec.work.order, EventOf(rec.work.order.status)))
         /\ rec.work.stage = "recovery"
            => rec.work.order.hold /\ EventTrue(EventFor(q, rec.work.order, RecoveryEvent))
<1>1. rec.work \in [stage : {"status", "recovery"}, quote : Quotes, order : Snapshots]
  BY DEF SettlementInv, SettlementTypeOK, Work
<1>2. PICK s \in Snapshots : s = rec.work.order
  BY <1>1
<1>3. /\ SnapshotTrue(q, s)
      /\ rec.work.stage = "recovery" => s.hold
  BY <1>2 DEF SettlementInv, WorkTrue
<1>4. Tells(EventFor(q, s, EventOf(s.status)), q, s)
  BY EventForTells
<1>5. s.hold => Tells(EventFor(q, s, RecoveryEvent), q, s)
  BY EventForTells
<1>6. \A e : EventFor(q, s, e).out = s.out
  BY DEF EventFor
<1> QED  BY <1>2, <1>3, <1>4, <1>5, <1>6, TellsTrue

(* The reconciler: a fetched snapshot is the provider's own state, and an   *)
(* applied one is true whenever it was fetched.                             *)
LEMMA ReconcileKeepsInv ==
  ASSUME SettlementInv, NEW q \in Quotes, Reconcile(q)
  PROVE  SettlementInv'
<1>1. rec \in [todo : SUBSET Quotes, work : Work] /\ faults \in 0..MaxFaults
  BY DEF SettlementInv, SettlementTypeOK
<1>2. CASE RecFetch(q)
  <2>1. UNCHANGED <<vars, provider, net, faults>>
    BY <1>2 DEF RecFetch
  <2>2. SwapInv' /\ RowsTrue' /\ CaseHasCause'
    BY <2>1, TablesKeepInv, SwapAssumption
       DEF SettlementInv, vars, RowsTrue, RowTrue, CaseHasCause, Told
  <2>3. CASE rec' = NextRow(q)
    BY <1>1, <2>1, <2>2, <2>3, NextRowFacts, QuietKeepsInv
  <2>4. CASE rec' # NextRow(q)
    <3> DEFINE w == [stage |-> "status", quote |-> q, order |-> provider[q]]
    <3>1. provider[q] # Unfunded /\ rec' = [rec EXCEPT !.work = w]
      BY <1>2, <2>4 DEF RecFetch
    <3>2. provider[q] \in Snapshots /\ SnapshotTrue(q, provider[q])
      BY <3>1 DEF SettlementInv, SettlementTypeOK, ProviderAnnounced
    <3>3. w \in Work
      BY <3>2 DEF Work
    <3>4. rec' \in [todo : SUBSET Quotes, work : Work] /\ rec'.work = w
      BY <1>1, <3>1, <3>3
    <3>5. WorkTrue'
      BY <2>1, <3>2, <3>4 DEF WorkTrue, SnapshotTrue, Announced
    <3> QED  BY <1>1, <2>1, <2>2, <3>4, <3>5, QuietKeepsInv
  <2> QED  BY <2>3, <2>4
<1>3. CASE RecApply(q)
  <2>1. /\ rec.work # NoSnapshot /\ rec.work.quote = q
        /\ UNCHANGED <<ops, provider, net, faults>>
    BY <1>3 DEF RecApply
  <2>2. PICK p : /\ EventTrue(p)
                 /\ ApplyWebhookEvent(p) \/ ApplyThrows(p)
    BY <1>3, <2>1, WorkFacts DEF RecApply
  <2>3. SwapInv' /\ RowsTrue' /\ CaseHasCause'
    BY <2>1, <2>2, ApplyTruth
  <2>4. CASE rec' = NextRow(q)
    BY <1>1, <2>1, <2>3, <2>4, NextRowFacts, QuietKeepsInv
  <2>5. CASE rec.work.order.hold /\ rec' = [rec EXCEPT !.work.stage = "recovery"]
    <3> DEFINE w == [rec.work EXCEPT !.stage = "recovery"]
    <3>1. rec.work \in [stage : {"status", "recovery"}, quote : Quotes, order : Snapshots]
      BY <1>1, <2>1 DEF Work
    <3>2. /\ w \in Work /\ w.quote = rec.work.quote
          /\ w.order = rec.work.order /\ w.order.hold
      BY <3>1, <2>5 DEF Work
    <3>3. rec' = [rec EXCEPT !.work = w]
      BY <2>5, <1>1
    <3> HIDE DEF w
    <3>4. rec' \in [todo : SUBSET Quotes, work : Work] /\ rec'.work = w
      BY <1>1, <3>2, <3>3
    <3>5. WorkTrue'
      BY <2>1, <3>2, <3>4 DEF SettlementInv, WorkTrue, SnapshotTrue, Announced
    <3> QED  BY <1>1, <2>1, <2>3, <3>4, <3>5, QuietKeepsInv
  <2> QED  BY <1>3, <2>4, <2>5 DEF RecApply
<1>4. CASE RecRecover(q)
  <2>1. /\ rec.work # NoSnapshot /\ rec.work.quote = q /\ rec.work.stage = "recovery"
        /\ rec' = NextRow(q) /\ UNCHANGED <<ops, provider, net, faults>>
        /\ ApplyWebhookEvent(EventFor(q, rec.work.order, RecoveryEvent))
    BY <1>4 DEF RecRecover
  <2>2. PICK p : EventTrue(p) /\ ApplyWebhookEvent(p)
    BY <2>1, WorkFacts
  <2>3. SwapInv' /\ RowsTrue' /\ CaseHasCause'
    BY <2>1, <2>2, ApplyTruth
  <2> QED  BY <1>1, <2>1, <2>3, NextRowFacts, QuietKeepsInv
<1> QED  BY <1>2, <1>3, <1>4 DEF Reconcile

(* The remaining steps of the process: a delivery, a new batch, a deferred  *)
(* row, a crash, and a quote stored.                                        *)
LEMMA ServiceKeepsInv ==
  ASSUME SettlementInv,
         \/ \E q \in Quotes : InitiateLightningQuote(q) /\ UNCHANGED <<provider, net, rec, faults>>
         \/ \E q \in Quotes : RecDefer(q)
         \/ \E p \in net : HandleWebhook(p)
         \/ RecQuery
         \/ Crash
         \/ OperatorStep /\ UNCHANGED <<orders, seen, processed, provider, net, rec, faults>>
         \/ UNCHANGED settlementVars
  PROVE  SettlementInv'
<1>1. /\ rec \in [todo : SUBSET Quotes, work : Work] /\ faults \in 0..MaxFaults
      /\ WorkTrue /\ RowsTrue /\ CaseHasCause /\ SwapInv
  BY DEF SettlementInv, SettlementTypeOK
<1>2. ASSUME UNCHANGED <<rec, provider, net>>
      PROVE  rec' \in [todo : SUBSET Quotes, work : Work] /\ WorkTrue'
  BY <1>1, <1>2 DEF WorkTrue, SnapshotTrue, Announced
<1>3. ASSUME UNCHANGED <<orders, cases, provider, net>>
      PROVE  RowsTrue' /\ CaseHasCause'
  BY <1>1, <1>3 DEF RowsTrue, RowTrue, CaseHasCause, Told
<1>4. faults < MaxFaults => faults + 1 \in 0..MaxFaults
  BY <1>1, SettlementAssumption DEF SettlementAssumption
<1>5. ASSUME NEW q \in Quotes, InitiateLightningQuote(q),
             UNCHANGED <<provider, net, rec, faults>>
      PROVE  SettlementInv'
  <2>1. SwapInv'
    BY <1>1, <1>5, TablesKeepInv, SwapAssumption DEF TablesStep
  <2>2. CaseHasCause'
    BY <1>1, <1>5 DEF InitiateLightningQuote, CaseHasCause
  <2>3. orders \in [Quotes -> Rows]
    BY <1>1 DEF SwapInv, TypeOK
  <2>4. /\ orders'[q].orderId = orders[q].orderId
        /\ orders'[q].out = orders[q].out
        /\ orders'[q].status = "PENDING_PAYMENT" /\ orders[q].status = Absent
    BY <1>5, <2>3 DEF InitiateLightningQuote, Rows
  <2>5. \A r \in Quotes \ {q} : orders'[r] = orders[r]
    BY <1>5, <2>3 DEF InitiateLightningQuote
  <2>6. RowTrue(q)'
    BY <1>1, <1>5, <2>4 DEF RowsTrue, RowTrue, Absent, Terminal, Told
  <2>7. RowsTrue'
    BY <1>1, <1>5, <2>5, <2>6 DEF RowsTrue, RowTrue, Told
  <2> QED  BY <1>1, <1>2, <1>5, <2>1, <2>2, <2>7, QuietKeepsInv
<1>6. ASSUME NEW q \in Quotes, RecDefer(q)  PROVE SettlementInv'
  <2>1. /\ UNCHANGED <<vars, provider, net>> /\ rec' = NextRow(q)
        /\ faults' \in 0..MaxFaults
    BY <1>4, <1>6 DEF RecDefer
  <2>2. SwapInv'
    BY <1>1, <2>1, TablesKeepInv, SwapAssumption
  <2> QED  BY <1>3, <2>1, <2>2, NextRowFacts, QuietKeepsInv DEF vars
<1>7. ASSUME NEW p \in net, HandleWebhook(p)  PROVE SettlementInv'
  <2>1. EventTrue(p)
    BY DEF SettlementInv, NetTrue
  <2>2. /\ ApplyWebhookEvent(p) \/ ApplyThrows(p)
        /\ UNCHANGED <<ops, provider, net, rec, faults>>
    BY <1>7 DEF HandleWebhook
  <2>3. SwapInv' /\ RowsTrue' /\ CaseHasCause'
    BY <2>1, <2>2, ApplyTruth
  <2> QED  BY <1>1, <1>2, <2>2, <2>3, QuietKeepsInv
<1>8. ASSUME RecQuery  PROVE SettlementInv'
  <2>1. UNCHANGED <<vars, provider, net, faults>> /\ rec.work = NoSnapshot
    BY <1>8 DEF RecQuery
  <2>2. PICK T \in SUBSET Quotes : rec' = [rec EXCEPT !.todo = T]
    BY <1>8 DEF RecQuery
  <2>3. rec' \in [todo : SUBSET Quotes, work : Work] /\ rec'.work = NoSnapshot
    BY <1>1, <2>1, <2>2
  <2>4. SwapInv'
    BY <1>1, <2>1, TablesKeepInv, SwapAssumption
  <2>5. WorkTrue'
    BY <2>3 DEF WorkTrue
  <2> QED  BY <1>1, <1>3, <2>1, <2>3, <2>4, <2>5, QuietKeepsInv DEF vars
<1>9. ASSUME Crash  PROVE SettlementInv'
  <2>1. /\ UNCHANGED <<swapVars, provider, net>> /\ faults' \in 0..MaxFaults
        /\ rec' = [todo |-> {}, work |-> NoSnapshot]
        /\ ops' = [o \in Operators |-> NoRequest]
    BY <1>4, <1>9 DEF Crash
  <2>2. SwapInv'
    BY <1>1, <2>1, TablesKeepInv, SwapAssumption DEF TablesStep
  <2>3. rec' \in [todo : SUBSET Quotes, work : Work] /\ WorkTrue'
    BY <2>1 DEF WorkTrue, Work
  <2> QED  BY <1>3, <2>1, <2>2, <2>3, QuietKeepsInv DEF swapVars
<1>10. ASSUME OperatorStep,
              UNCHANGED <<orders, seen, processed, provider, net, rec, faults>>
       PROVE  SettlementInv'
  <2>1. SwapInv'
    BY <1>1, <1>10, TablesKeepInv, SwapAssumption DEF TablesStep
  <2>2. RowsTrue'
    BY <1>1, <1>10 DEF RowsTrue, RowTrue, Told
  <2>3. \A q \in Quotes : cases'[q] # "NONE" => cases[q] # "NONE"
    <3>1. [TablesStep]_vars
      BY <1>10 DEF TablesStep
    <3> QED  BY <1>1, <1>10, <3>1, TablesStepProcessed
  <2>4. CaseHasCause'
    BY <1>1, <1>10, <2>3 DEF CaseHasCause
  <2> QED  BY <1>1, <1>2, <1>10, <2>1, <2>2, <2>4, QuietKeepsInv
<1>11. ASSUME UNCHANGED settlementVars  PROVE SettlementInv'
  <2>1. UNCHANGED <<vars, provider, net, rec, faults>>
    BY <1>11 DEF settlementVars
  <2>2. SwapInv'
    BY <1>1, <2>1, TablesKeepInv, SwapAssumption
  <2> QED  BY <1>1, <1>2, <1>3, <2>1, <2>2, QuietKeepsInv DEF vars
<1> QED  BY <1>5, <1>6, <1>7, <1>8, <1>9, <1>10, <1>11

(* Every reachable state of the settlement satisfies the invariant.         *)
THEOREM SettlementInvariant == SettlementSafety => []SettlementInv
<1>1. SettlementInv /\ [SettlementNext]_settlementVars => SettlementInv'
  BY MovesKeepInv, ReconcileKeepsInv, ServiceKeepsInv DEF SettlementNext, ProviderUpdate
<1>2. SettlementInit => SettlementInv
  BY InitSettlementInv
<1> QED  BY <1>1, <1>2, PTL DEF SettlementSafety

(* Orders, webhooks, snapshots and tables always have their types.          *)
THEOREM SettlementTyped == SettlementSafety => []SettlementTypeOK
<1>1. SettlementInv => SettlementTypeOK
  BY DEF SettlementInv
<1> QED  BY <1>1, SettlementInvariant, PTL

(* A payment that applyWebhookEvent has settled has the provider's final    *)
(* status, its own order and the amount that order delivered, whatever was  *)
(* lost, repeated, reordered or stale on the way.                           *)
THEOREM SettlementAgreement == SettlementSafety => []SettlementAgrees
<1>1. SettlementInv => SettlementAgrees
  <2>1. SettlementInv => \A q \in Quotes : orders[q].status \in Terminal
                                            => orders[q].orderId # NoOrder
    BY DEF SettlementInv, SwapInv, ProgressIsBound, Terminal, Absent
  <2> QED  BY <2>1 DEF SettlementInv, RowsTrue, RowTrue, SettlementAgrees
<1> QED  BY <1>1, SettlementInvariant, PTL

(* createRefundCase is only reached for a payment that the provider         *)
(* announced as failed or held.                                             *)
THEOREM CasesHaveCause == SettlementSafety => []CaseHasCause
<1>1. SettlementInv => CaseHasCause
  BY DEF SettlementInv
<1> QED  BY <1>1, SettlementInvariant, PTL

-----------------------------------------------------------------------------
(* Provider, reconciler, crashes and operators drive the tables only with   *)
(* events and restarts, so what holds of the tables' own steps holds here.  *)
LEMMA SettlementIsTablesStep ==
  ASSUME SettlementInv, [SettlementNext]_settlementVars
  PROVE  [TablesStep]_vars
<1>1. ASSUME NEW p, EventTrue(p), ApplyWebhookEvent(p) \/ ApplyThrows(p), UNCHANGED ops
      PROVE  TablesStep
  BY <1>1 DEF EventTrue, TablesStep
<1>2. ASSUME NEW q \in Quotes, Reconcile(q)  PROVE [TablesStep]_vars
  <2>1. CASE RecFetch(q)
    BY <2>1 DEF RecFetch
  <2>2. CASE RecApply(q)
    BY <1>1, <2>2, WorkFacts DEF RecApply
  <2>3. CASE RecRecover(q)
    BY <1>1, <2>3, WorkFacts DEF RecRecover
  <2> QED  BY <1>2, <2>1, <2>2, <2>3 DEF Reconcile
<1>3. ASSUME NEW p \in net, HandleWebhook(p)  PROVE TablesStep
  BY <1>1, <1>3 DEF HandleWebhook, SettlementInv, NetTrue
<1>4. ASSUME NEW q \in Quotes, ProviderUpdate(q) \/ RecDefer(q)  PROVE UNCHANGED vars
  BY <1>4 DEF ProviderUpdate, OrderMoves, RecDefer
<1>5. ASSUME NEW q \in Quotes, InitiateLightningQuote(q)  PROVE TablesStep
  BY <1>5 DEF TablesStep
<1>6. Crash => TablesStep
  BY DEF Crash, TablesStep
<1>7. RecQuery \/ UNCHANGED settlementVars => UNCHANGED vars
  BY DEF RecQuery, settlementVars
<1>8. OperatorStep /\ UNCHANGED <<orders, seen, processed>> => TablesStep
  BY DEF TablesStep
<1> QED  BY <1>2, <1>3, <1>4, <1>5, <1>6, <1>7, <1>8 DEF SettlementNext

(* With the provider, the polling reconciler and crashes in place the       *)
(* tables keep what they promise under any events: finality, no late case,  *)
(* permanent bindings and one effect per event.                             *)
THEOREM SettlementKeepsTables ==
  SettlementSafety => /\ SettledIsFinal /\ NoCaseAfterSettlement
                      /\ BindingIsPermanent /\ EffectIsProcessed
<1>1. SettlementInv /\ [SettlementNext]_settlementVars
      => /\ [\A q \in Quotes : orders[q].status \in Terminal => orders'[q] = orders[q]]_vars
         /\ [\A q \in Quotes : cases[q] = "NONE" /\ cases'[q] # "NONE"
                               => orders[q].status \notin Terminal \cup {Absent}]_vars
         /\ [\A q \in Quotes : orders[q].orderId # NoOrder
                               => orders'[q].orderId = orders[q].orderId]_vars
         /\ [\A q \in Quotes :
               \/ orders[q].status # Absent /\ orders'[q] # orders[q]
               \/ cases[q] = "NONE" /\ cases'[q] # "NONE"
               => \E k \in processed' : k \notin processed]_vars
  <2> SUFFICES ASSUME SettlementInv, [SettlementNext]_settlementVars
               PROVE  <1>1!2
    OBVIOUS
  <2>1. SwapInv /\ [TablesStep]_vars
    BY SettlementIsTablesStep DEF SettlementInv
  <2> QED  BY <2>1, TablesStepSettled, TablesStepCase, TablesStepBinding, TablesStepProcessed
<1> QED
  BY <1>1, SettlementInvariant, PTL
     DEF SettlementSafety, SettledIsFinal, NoCaseAfterSettlement, BindingIsPermanent,
         EffectIsProcessed

(* And they implement the lifecycle of a payment.                           *)
THEOREM SettlementRefinesLifecycle == SettlementSafety => ImplementsLifecycle
<1>1. SettlementInv /\ SettlementInv' /\ [SettlementNext]_settlementVars
      => [Lifecycle!LifecycleNext]_(Lifecycle!lifecycleVars)
  BY SettlementIsTablesStep, TablesStepLifecycle DEF SettlementInv
<1>2. SettlementInit => Lifecycle!LifecycleInit
  BY InitLifecycle DEF SettlementInit
<1> QED
  BY <1>1, <1>2, SettlementInvariant, PTL
     DEF SettlementSafety, ImplementsLifecycle, Lifecycle!LifecycleSpec

-----------------------------------------------------------------------------
(* What a visit of the reconciler achieves.  Fairness is beyond this proof  *)
(* system; that visits recur is KeepsVisiting, and here is what they do.    *)

(* Texts that fit their columns; with others applyWebhookEvent throws, see  *)
(* the run long_error.                                                      *)
TextsFit == Texts \subseteq {"none", "short"}

(* A paid quote is stored, a snapshot in hand is of a paid one, and once    *)
(* the visit has gone on to the hold the status in the snapshot has been    *)
(* applied.                                                                 *)
VisitInv ==
  /\ ConsumedHadEffect
  /\ \A q \in Quotes : provider[q] # Unfunded => orders[q].status # Absent
  /\ rec.work # NoSnapshot =>
       /\ provider[rec.work.quote] # Unfunded
       /\ rec.work.stage = "recovery" /\ rec.work.order.status \in Terminal
          => orders[rec.work.quote].status \in Terminal

(* The row that an event of q's order is applied to is q's.                 *)
LEMMA RowFound ==
  ASSUME SettlementInv, NEW q \in Quotes, orders[q].status # Absent,
         NEW p, p.id = OrderOf[q], p.quote = q
  PROVE  RowsOf(p) = {q}
<1>1. \A r \in Quotes : orders[r].orderId = OrderOf[q] => r = q
  BY SettlementAssumption, SwapAssumption
     DEF SettlementInv, RowsTrue, RowTrue, SettlementAssumption, SwapAssumption
<1>2. orders[q].orderId \in {NoOrder, OrderOf[q]}
  BY DEF SettlementInv, RowsTrue, RowTrue
<1> QED  BY <1>1, <1>2 DEF RowsOf, RowsByOrder, RowsByQuote

(* A call of applyWebhookEvent that returns leaves the row settled if its   *)
(* event settles, and with a case or settled if it tells of a hold; that a  *)
(* processed event is skipped makes no difference.                          *)
LEMMA AppliedEffect ==
  ASSUME SettlementInv, ConsumedHadEffect, NEW q \in Quotes, orders[q].status # Absent,
         NEW p \in AllPayloads, p.id = OrderOf[q], p.quote = q, ApplyWebhookEvent(p)
  PROVE  /\ p.event \in SettlingEvents => orders'[q].status \in Terminal
         /\ p.event = RecoveryEvent => orders'[q].status \in Terminal \/ cases'[q] # "NONE"
<1>1. RowsOf(p) = {q}
  BY RowFound
<1>2. CASE Redelivered(p)
  <2>1. Key(p) \in processed /\ orders' = orders /\ cases' = cases
    BY <1>2 DEF Redelivered, swapVars
  <2>2. Key(p)[1] = OrderOf[q] /\ Key(p)[2] = p.event
    BY DEF Key
  <2>3. \A r \in Quotes : orders[r].orderId = OrderOf[q] => r = q
    BY SettlementAssumption, SwapAssumption
       DEF SettlementInv, RowsTrue, RowTrue, SettlementAssumption, SwapAssumption
  <2> QED  BY <2>1, <2>2, <2>3 DEF ConsumedHadEffect
<1>3. CASE Consume(p, q)
  BY <1>1, <1>3, ConsumedEffect DEF SettlementInv
<1> QED  BY <1>1, <1>2, <1>3 DEF ApplyWebhookEvent, UnknownOrder

(* It does not throw for an event of a text that fits.                      *)
LEMMA DoesNotThrow ==
  ASSUME SettlementInv, NEW q \in Quotes, orders[q].status # Absent,
         NEW p, p.id = OrderOf[q], p.quote = q,
         p.event \in StatusEvents \cup {RecoveryEvent}, p.text \in {"none", "short"}
  PROVE  ~ApplyThrows(p)
<1>1. RowsOf(p) = {q}
  BY RowFound
<1>2. ~Throws(p, q)
  BY DEF Throws, QuoteMismatch, TextFits
<1> QED  BY <1>1, <1>2 DEF ApplyThrows

(* The event of the snapshot in hand, for its status.                       *)
LEMMA WorkEvent ==
  ASSUME SettlementInv, NEW q \in Quotes, rec.work # NoSnapshot, rec.work.quote = q
  PROVE  LET s == rec.work.order
             p == EventFor(q, s, EventOf(s.status))
             h == EventFor(q, s, RecoveryEvent)
         IN  /\ s \in Snapshots /\ rec.work.stage \in {"status", "recovery"}
             /\ p \in AllPayloads /\ p.id = OrderOf[q] /\ p.quote = q /\ p.text = s.text
             /\ p.event \in StatusEvents /\ MapEventToStatus(p.event) = s.status
             /\ rec.work.stage = "recovery" =>
                  h \in AllPayloads /\ h.id = OrderOf[q] /\ h.quote = q /\ h.event = RecoveryEvent
<1> DEFINE s == rec.work.order
           p == EventFor(q, s, EventOf(s.status))
           h == EventFor(q, s, RecoveryEvent)
<1>1. s \in Snapshots /\ rec.work.stage \in {"status", "recovery"}
      /\ (rec.work.stage = "recovery" => s.hold)
  BY DEF SettlementInv, SettlementTypeOK, Work, WorkTrue
<1>2. p.event = EventOf(s.status) /\ p.text = s.text /\ h.event = RecoveryEvent
  BY DEF EventFor
<1>3. EventOf(s.status) \in StatusEvents /\ MapEventToStatus(EventOf(s.status)) = s.status
  BY <1>1, SnapshotFields, EventOfFacts
<1>4. Tells(p, q, s) /\ (s.hold => Tells(h, q, s))
  BY <1>1, EventForTells
<1> QED  BY <1>1, <1>2, <1>3, <1>4 DEF Tells

(* A stored order row stays.                                                *)
LEMMA StoredStays ==
  ASSUME SwapInv, [TablesStep]_vars, NEW q \in Quotes, orders[q].status # Absent
  PROVE  orders'[q].status # Absent
  BY StepEffect, ConsumeRow DEF Absent, Statuses, Terminal

(* The four kinds of steps, as seen by the reconciler's memory and by the   *)
(* provider's orders.                                                       *)
LEMMA MemorySteps ==
  ASSUME SettlementInv, [SettlementNext]_settlementVars
  PROVE  \/ provider' = provider /\ (rec'.work = NoSnapshot \/ rec'.work = rec.work)
         \/ \E q \in Quotes : ProviderUpdate(q) /\ rec' = rec
         \/ \E q \in Quotes : /\ RecFetch(q) /\ provider' = provider
                              /\ provider[q] # Unfunded
                              /\ rec'.work = [stage |-> "status", quote |-> q,
                                              order |-> provider[q]]
         \/ \E q \in Quotes : /\ RecApply(q) /\ provider' = provider
                              /\ rec.work # NoSnapshot /\ rec.work.quote = q
                              /\ ApplyWebhookEvent(EventFor(q, rec.work.order,
                                                     EventOf(rec.work.order.status)))
                              /\ rec'.work = [stage |-> "recovery", quote |-> q,
                                              order |-> rec.work.order]
<1>1. rec \in [todo : SUBSET Quotes, work : Work]
  BY DEF SettlementInv, SettlementTypeOK
<1>2. \A q \in Quotes : NextRow(q).work = NoSnapshot
  BY <1>1 DEF NextRow
<1>3. ASSUME NEW q \in Quotes, RecFetch(q)
      PROVE  /\ provider' = provider
             /\ \/ rec'.work = NoSnapshot
                \/ /\ provider[q] # Unfunded
                   /\ rec'.work = [stage |-> "status", quote |-> q, order |-> provider[q]]
  BY <1>1, <1>2, <1>3 DEF RecFetch
<1>4. ASSUME NEW q \in Quotes, RecApply(q), rec'.work # NoSnapshot
      PROVE  /\ provider' = provider /\ rec.work # NoSnapshot /\ rec.work.quote = q
             /\ ApplyWebhookEvent(EventFor(q, rec.work.order, EventOf(rec.work.order.status)))
             /\ rec'.work = [stage |-> "recovery", quote |-> q, order |-> rec.work.order]
  <2>1. /\ provider' = provider /\ rec.work # NoSnapshot /\ rec.work.quote = q
        /\ ApplyWebhookEvent(EventFor(q, rec.work.order, EventOf(rec.work.order.status)))
        /\ rec' = [rec EXCEPT !.work.stage = "recovery"]
    BY <1>2, <1>4 DEF RecApply
  <2>2. rec.work \in [stage : {"status", "recovery"}, quote : Quotes, order : Snapshots]
    BY <1>1, <2>1 DEF Work
  <2>3. rec'.work = [rec.work EXCEPT !.stage = "recovery"]
    BY <1>1, <2>1
  <2> QED  BY <2>1, <2>2, <2>3
<1>5. ASSUME NEW q \in Quotes, RecApply(q) \/ RecRecover(q) \/ RecDefer(q)
      PROVE  provider' = provider
  BY <1>5 DEF RecApply, RecRecover, RecDefer
<1>6. ASSUME NEW q \in Quotes, RecRecover(q) \/ RecDefer(q)
      PROVE  rec'.work = NoSnapshot
  BY <1>2, <1>6 DEF RecRecover, RecDefer
<1>7. RecQuery => provider' = provider /\ rec'.work = rec.work
  BY <1>1 DEF RecQuery
<1>8. Crash => provider' = provider /\ rec'.work = NoSnapshot
  BY DEF Crash
<1>9. UNCHANGED settlementVars => provider' = provider /\ rec' = rec
  BY DEF settlementVars
<1>10. ASSUME NEW q \in Quotes, ProviderUpdate(q)  PROVE rec' = rec
  BY <1>10 DEF ProviderUpdate, OrderMoves
<1>11. ASSUME NEW p \in net, HandleWebhook(p)  PROVE provider' = provider /\ rec' = rec
  BY <1>11 DEF HandleWebhook
<1> QED  BY <1>3, <1>4, <1>5, <1>6, <1>7, <1>8, <1>9, <1>10, <1>11
         DEF SettlementNext, Reconcile

(* An update of an order that is paid, and of one that is settled.          *)
LEMMA ProviderSteps ==
  ASSUME SettlementInv, [SettlementNext]_settlementVars, NEW q \in Quotes
  PROVE  /\ provider[q].status \in Terminal => provider'[q] = provider[q]
         /\ provider[q] # Unfunded => provider'[q] # Unfunded
         /\ provider'[q] # provider[q] => orders[q].status # Absent /\ orders' = orders
<1>1. provider \in [Quotes -> Snapshots \cup {Unfunded}]
  BY DEF SettlementInv, SettlementTypeOK
<1>2. \A s \in Snapshots : s # Unfunded
  BY SnapshotFields
<1>3. ASSUME NEW r \in Quotes, ProviderUpdate(r)
      PROVE  /\ provider[r].status \notin Terminal /\ orders[r].status # Absent
             /\ orders' = orders
             /\ \E s \in Snapshots : provider' = [provider EXCEPT ![r] = s]
  BY <1>3 DEF ProviderUpdate, OrderMoves, vars
<1>4. CASE provider' = provider
  BY <1>4
<1>5. CASE \E r \in Quotes : ProviderUpdate(r)
  BY <1>1, <1>2, <1>3, <1>5
<1> QED  BY <1>4, <1>5, MemorySteps

(* VisitInv is inductive.                                                   *)
LEMMA VisitKept ==
  ASSUME SettlementInv, VisitInv, [SettlementNext]_settlementVars
  PROVE  VisitInv'
<1>1. [TablesStep]_vars /\ SwapInv
  BY SettlementIsTablesStep DEF SettlementInv
<1>2. ConsumedHadEffect'
  BY <1>1, TablesStepConsumed DEF VisitInv
<1>3. \A q \in Quotes : /\ orders[q].status # Absent => orders'[q].status # Absent
                        /\ orders[q].status \in Terminal => orders'[q].status \in Terminal
  BY <1>1, StoredStays, TablesStepSettled
<1>4. \A q \in Quotes : provider'[q] # Unfunded => orders'[q].status # Absent
  BY <1>3, ProviderSteps DEF VisitInv
<1>5. ASSUME rec'.work # NoSnapshot
      PROVE  /\ provider'[rec'.work.quote] # Unfunded
             /\ rec'.work.stage = "recovery" /\ rec'.work.order.status \in Terminal
                => orders'[rec'.work.quote].status \in Terminal
  <2>1. CASE rec'.work = rec.work
    <3>1. rec.work.quote \in Quotes
      BY <1>5, <2>1 DEF SettlementInv, SettlementTypeOK, Work
    <3> QED  BY <1>3, <1>5, <2>1, <3>1, ProviderSteps DEF VisitInv
  <2>2. ASSUME NEW q \in Quotes, provider' = provider, provider[q] # Unfunded,
               rec'.work = [stage |-> "status", quote |-> q, order |-> provider[q]]
        PROVE  <1>5!2
    BY <2>2
  <2>3. ASSUME NEW q \in Quotes, provider' = provider, rec.work # NoSnapshot, rec.work.quote = q,
               ApplyWebhookEvent(EventFor(q, rec.work.order, EventOf(rec.work.order.status))),
               rec'.work = [stage |-> "recovery", quote |-> q, order |-> rec.work.order]
        PROVE  <1>5!2
    <3>1. provider[q] # Unfunded /\ orders[q].status # Absent
      BY <2>3 DEF VisitInv
    <3>2. PICK p : p = EventFor(q, rec.work.order, EventOf(rec.work.order.status))
      OBVIOUS
    <3>3. /\ p \in AllPayloads /\ p.id = OrderOf[q] /\ p.quote = q /\ p.event \in StatusEvents
          /\ MapEventToStatus(p.event) = rec.work.order.status
      BY <2>3, <3>2, WorkEvent
    <3>4. rec.work.order.status \in Terminal => orders'[q].status \in Terminal
      BY <2>3, <3>1, <3>2, <3>3, AppliedEffect DEF VisitInv, SettlingEvents
    <3> QED  BY <2>3, <3>1, <3>4
  <2> QED  BY <1>5, <2>1, <2>2, <2>3, MemorySteps
<1> QED  BY <1>2, <1>4, <1>5 DEF VisitInv

(* Every reachable state.                                                   *)
LEMMA VisitInvariant == SettlementSafety => [](SettlementInv /\ VisitInv)
<1>1. SettlementInit => VisitInv
  BY DEF SettlementInit, Init, VisitInv, ConsumedHadEffect
<1>2. SettlementInv /\ VisitInv /\ [SettlementNext]_settlementVars => VisitInv'
  BY VisitKept
<1> QED  BY <1>1, <1>2, SettlementInvariant, PTL DEF SettlementSafety

ProviderDone(q) == provider[q].status \in Terminal
RowSettled(q)   == orders[q].status \in Terminal
CaseOpened(q)   == cases[q] # "NONE"
Awaited(q)      == provider[q] # Unfunded /\ orders[q].status \notin Terminal

(* The snapshot in hand is not what the provider says, or has missed the    *)
(* hold.                                                                    *)
Outdated(q)   == rec.work # NoSnapshot /\ rec.work.quote = q /\ rec.work.order # provider[q]
MissesHold(q) == rec.work # NoSnapshot /\ rec.work.quote = q /\ ~rec.work.order.hold

(* What no step undoes.                                                     *)
LEMMA StaysDone ==
  ASSUME SettlementInv, [SettlementNext]_settlementVars, NEW q \in Quotes
  PROVE  /\ ProviderDone(q) => ProviderDone(q)'
         /\ RowSettled(q) => RowSettled(q)'
         /\ ProviderDone(q) /\ ~Outdated(q) => ~Outdated(q)'
         /\ Held(q)' /\ ~MissesHold(q) => ~MissesHold(q)'
<1> DEFINE Kept == /\ ProviderDone(q) => ProviderDone(q)'
                   /\ RowSettled(q) => RowSettled(q)'
                   /\ ProviderDone(q) /\ ~Outdated(q) => ~Outdated(q)'
                   /\ Held(q)' /\ ~MissesHold(q) => ~MissesHold(q)'
<1> SUFFICES Kept
  OBVIOUS
<1>1. [TablesStep]_vars /\ SwapInv
  BY SettlementIsTablesStep DEF SettlementInv
<1>2. RowSettled(q) => RowSettled(q)'
  BY <1>1, TablesStepSettled DEF RowSettled
<1>3. ProviderDone(q) => provider'[q] = provider[q]
  BY ProviderSteps DEF ProviderDone
<1>4. CASE rec'.work = NoSnapshot
  BY <1>2, <1>3, <1>4 DEF ProviderDone, Outdated, MissesHold
<1>5. CASE rec'.work = rec.work
  BY <1>2, <1>3, <1>5 DEF ProviderDone, Outdated, MissesHold
<1>6. ASSUME NEW r \in Quotes, provider' = provider,
             rec'.work = [stage |-> "status", quote |-> r, order |-> provider[r]]
      PROVE  Kept
  <2>1. rec'.work.quote = r /\ rec'.work.order = provider[r]
    BY <1>6
  <2>2. ~Outdated(q)'
    BY <1>6, <2>1 DEF Outdated
  <2>3. Held(q)' => ~MissesHold(q)'
    BY <1>6, <2>1 DEF MissesHold, Held
  <2> QED  BY <1>2, <1>3, <2>2, <2>3 DEF ProviderDone
<1>7. ASSUME NEW r \in Quotes, provider' = provider, rec.work # NoSnapshot, rec.work.quote = r,
             rec'.work = [stage |-> "recovery", quote |-> r, order |-> rec.work.order]
      PROVE  Kept
  <2>1. rec'.work.quote = r /\ rec'.work.order = rec.work.order
    BY <1>7
  <2>2. Outdated(q)' => Outdated(q)
    BY <1>7, <2>1 DEF Outdated
  <2>3. MissesHold(q)' => MissesHold(q)
    BY <1>7, <2>1 DEF MissesHold
  <2> QED  BY <1>2, <1>3, <2>2, <2>3 DEF ProviderDone
<1>8. CASE \E r \in Quotes : ProviderUpdate(r) /\ rec' = rec
  BY <1>5, <1>8
<1> HIDE DEF Kept
<1> QED  BY <1>4, <1>5, <1>6, <1>7, <1>8, MemorySteps

(* The end of a visit clears the reconciler's hands; if its snapshot was    *)
(* not outdated, the row is settled now, and if it knew of the hold there   *)
(* is a case.                                                               *)
LEMMA VisitAchieves ==
  ASSUME TextsFit, SettlementInv, SettlementInv', VisitInv, NEW q \in Quotes, VisitEnds(q)
  PROVE  /\ ~Outdated(q)' /\ ~MissesHold(q)'
         /\ ProviderDone(q) /\ ~Outdated(q) => RowSettled(q)'
         /\ Held(q) /\ ~MissesHold(q) => CaseOpened(q)'
<1> DEFINE s == rec.work.order
<1>1. /\ rec.work # NoSnapshot /\ rec.work.quote = q /\ rec'.work = NoSnapshot
      /\ provider' = provider
  BY DEF VisitEnds, RecApply, RecRecover
<1>2. provider[q] # Unfunded /\ orders[q].status # Absent
  BY <1>1 DEF VisitInv
<1>3. PICK p : p = EventFor(q, s, EventOf(s.status))
  OBVIOUS
<1>4. PICK h : h = EventFor(q, s, RecoveryEvent)
  OBVIOUS
<1>5. /\ s \in Snapshots /\ rec.work.stage \in {"status", "recovery"}
      /\ p \in AllPayloads /\ p.id = OrderOf[q] /\ p.quote = q /\ p.text = s.text
      /\ p.event \in StatusEvents /\ MapEventToStatus(p.event) = s.status
  BY <1>1, <1>3, WorkEvent
<1>6. p.text \in {"none", "short"}
  BY <1>5 DEF TextsFit, Snapshots
<1>7. ~ApplyThrows(p)
  BY <1>2, <1>5, <1>6, DoesNotThrow
<1>8. CASE RecApply(q)
  <2>1. ApplyWebhookEvent(p)
    BY <1>3, <1>7, <1>8 DEF RecApply
  <2>2. s.status \in Terminal => RowSettled(q)'
    BY <1>2, <1>5, <2>1, AppliedEffect DEF VisitInv, SettlingEvents, RowSettled
  <2>3. ~s.hold
    <3>1. SUFFICES ASSUME s.hold PROVE FALSE
      OBVIOUS
    <3>2. rec' = [rec EXCEPT !.work.stage = "recovery"]
      BY <1>3, <1>7, <1>8, <3>1 DEF RecApply
    <3>3. rec.work \in [stage : {"status", "recovery"}, quote : Quotes, order : Snapshots]
          /\ rec \in [todo : SUBSET Quotes, work : Work]
      BY <1>1 DEF SettlementInv, SettlementTypeOK, Work
    <3>4. rec'.work.stage = "recovery"
      BY <3>2, <3>3
    <3> QED  BY <1>1, <3>4 DEF NoSnapshot
  <2> QED  BY <1>1, <2>2, <2>3 DEF Outdated, MissesHold, ProviderDone
<1>9. CASE RecRecover(q)
  <2>1. rec.work.stage = "recovery" /\ ApplyWebhookEvent(h)
    BY <1>4, <1>9 DEF RecRecover
  <2>2. h \in AllPayloads /\ h.id = OrderOf[q] /\ h.quote = q /\ h.event = RecoveryEvent
    BY <1>1, <1>4, <2>1, WorkEvent
  <2>3. RowSettled(q)' \/ CaseOpened(q)'
    BY <1>2, <2>1, <2>2, AppliedEffect DEF VisitInv, RowSettled, CaseOpened
  <2>4. RowSettled(q)' => ProviderDone(q)
    BY <1>1 DEF RowSettled, ProviderDone, SettlementInv, RowsTrue, RowTrue
  <2>5. Held(q) => CaseOpened(q)'
    BY <2>3, <2>4 DEF Held, ProviderDone
  <2>6. s.status \in Terminal => RowSettled(q)
    BY <1>1, <2>1 DEF VisitInv, RowSettled
  <2>7. [TablesStep]_vars
    BY <2>1, <2>2, <1>9 DEF TablesStep, RecRecover
  <2>8. RowSettled(q) => RowSettled(q)'
    BY <2>7, TablesStepSettled DEF RowSettled, SettlementInv
  <2> QED  BY <1>1, <2>5, <2>6, <2>8 DEF Outdated, MissesHold, ProviderDone
<1> QED  BY <1>8, <1>9 DEF VisitEnds

(* EventuallySettled for one payment, from its visits.                      *)
LEMMA VisitsSettle ==
  ASSUME TextsFit, NEW q \in Quotes
  PROVE  SettlementSafety /\ (<>[]Awaited(q) => []<><<VisitEnds(q)>>_settlementVars)
         => (ProviderDone(q) ~> RowSettled(q))
<1>1. SettlementInv /\ [SettlementNext]_settlementVars
      => /\ ProviderDone(q) => ProviderDone(q)'
         /\ RowSettled(q) => RowSettled(q)'
         /\ ProviderDone(q) /\ ~Outdated(q) => ~Outdated(q)'
  BY StaysDone
<1>2. SettlementInv /\ SettlementInv' /\ VisitInv /\ <<VisitEnds(q)>>_settlementVars
      => /\ ~Outdated(q)'
         /\ ProviderDone(q) /\ ~Outdated(q) => RowSettled(q)'
  BY VisitAchieves
<1>3. ProviderDone(q) /\ ~RowSettled(q) => Awaited(q)
  BY DEF ProviderDone, RowSettled, Awaited, Unfunded, Terminal
<1> QED  BY <1>1, <1>2, <1>3, VisitInvariant, PTL DEF SettlementSafety

(* HoldIsDetected for one payment, from its visits.                         *)
LEMMA VisitsDetect ==
  ASSUME TextsFit, NEW q \in Quotes
  PROVE  SettlementSafety /\ (<>[]Awaited(q) => []<><<VisitEnds(q)>>_settlementVars)
         => (<>[]Held(q) => <>CaseOpened(q))
<1>1. SettlementInv /\ [SettlementNext]_settlementVars
      => (Held(q)' /\ ~MissesHold(q) => ~MissesHold(q)')
  BY StaysDone
<1>2. SettlementInv /\ SettlementInv' /\ VisitInv /\ <<VisitEnds(q)>>_settlementVars
      => /\ ~MissesHold(q)'
         /\ Held(q) /\ ~MissesHold(q) => CaseOpened(q)'
  BY VisitAchieves
<1>3. SettlementInv /\ Held(q) => Awaited(q)
  BY DEF Held, Awaited, Unfunded, SettlementInv, RowsTrue, RowTrue
<1> QED  BY <1>1, <1>2, <1>3, VisitInvariant, PTL DEF SettlementSafety

(* What liveness rests on.  If rows that stay unsettled keep being visited, *)
(* every payment the provider settled is settled here with the same status, *)
(* and a hold that lasts has a case, though webhooks may all be lost, the   *)
(* snapshot in hand may be outdated and its event may be marked processed.  *)
THEOREM VisitsSuffice ==
  ASSUME TextsFit
  PROVE  SettlementSafety /\ KeepsVisiting => EventuallySettled /\ HoldIsDetected
<1>1. ASSUME NEW q \in Quotes
      PROVE  SettlementSafety /\ (<>[]Awaited(q) => []<><<VisitEnds(q)>>_settlementVars)
             => (ProviderDone(q) ~> orders[q].status = provider[q].status)
  <2>1. SettlementInv => (RowSettled(q) => orders[q].status = provider[q].status)
    BY DEF SettlementInv, RowsTrue, RowTrue, RowSettled
  <2> QED  BY <2>1, VisitsSettle, SettlementInvariant, PTL
<1> QED  BY <1>1, VisitsDetect DEF KeepsVisiting, EventuallySettled, HoldIsDetected,
                                   Awaited, ProviderDone, CaseOpened

ProviderFailed(q) == provider[q].status = "FAILED"

(* "Any failed payment needs an ops case", under the same premise: where    *)
(* the run long_error refutes it, it is the length of a text that does.     *)
THEOREM VisitsQueueFailures ==
  ASSUME TextsFit
  PROVE  SettlementSafety /\ KeepsVisiting => FailureReachesQueue
<1>1. ASSUME NEW q \in Quotes
      PROVE  SettlementSafety /\ (<>[]Awaited(q) => []<><<VisitEnds(q)>>_settlementVars)
             => (ProviderFailed(q) ~> CaseOpened(q))
  <2>1. ProviderFailed(q) => ProviderDone(q)
    BY DEF ProviderFailed, ProviderDone, Terminal
  <2>2. SettlementInv /\ [SettlementNext]_settlementVars
        => (ProviderFailed(q) => ProviderFailed(q)')
    <3> SUFFICES ASSUME SettlementInv, [SettlementNext]_settlementVars, ProviderFailed(q)
                 PROVE  ProviderFailed(q)'
      OBVIOUS
    <3>1. provider'[q] = provider[q]
      BY <2>1, ProviderSteps DEF ProviderDone
    <3> QED  BY <3>1 DEF ProviderFailed
  <2>3. SettlementInv => (RowSettled(q) /\ ProviderFailed(q) => CaseOpened(q))
    BY DEF SettlementInv, SwapInv, FailedHasCase, RowsTrue, RowTrue, RowSettled,
           ProviderFailed, CaseOpened
  <2> QED  BY <2>1, <2>2, <2>3, VisitsSettle, SettlementInvariant, PTL DEF SettlementSafety
<1> QED  BY <1>1 DEF KeepsVisiting, FailureReachesQueue, Awaited, ProviderFailed, CaseOpened

-----------------------------------------------------------------------------
(* The payment path.  Its callbacks are those of LnurlCallback, whose       *)
(* theorems are used through this instance.                                 *)
CP == INSTANCE LnurlCallbackProofs WITH Amounts <- Sats, Invoices <- Quotes \cup SatsInvoices

(* The path starts as the callback does.                                    *)
LEMMA PathIsCallbackInit == PathInit => CP!Init
  BY DEF PathInit, Callback!Init, CP!Init, Callback!Unissued, CP!Unissued,
         Callback!Idle, CP!Idle

(* Seen from the callback, a step of the path is its step or none.          *)
LEMMA PathIsCallbackStep ==
  ASSUME [PathNext]_pathVars
  PROVE  [CP!Next]_(CP!vars)
<1> USE DEF Callback!At, CP!At, Callback!Go, CP!Go, Callback!Stop, CP!Stop,
            Callback!Idle, CP!Idle
<1>1. ASSUME NEW c \in Callbacks, CallbackStep(c)  PROVE CP!Next
  <2>1. ASSUME NEW ask \in Callback!Asked, Callback!HandleLnurlCallback(c, ask)
        PROVE  CP!Next
    BY <2>1 DEF Callback!Asked, CP!Asked, Callback!HandleLnurlCallback,
                CP!HandleLnurlCallback, CP!Next
  <2>2. ASSUME NEW what \in Callback!Issues, NEW i \in Quotes,
               Callback!CreateLightningQuote(c, i, what)
        PROVE  CP!Next
    <3>1. what \in CP!Issues
      BY DEF Callback!Issues, CP!Issues
    <3>2. CP!CreateLightningQuote(c, i, what)
      BY <2>2 DEF Callback!CreateLightningQuote, CP!CreateLightningQuote,
         Callback!NewInvoice, CP!NewInvoice, Callback!Unissued, CP!Unissued,
         Callback!ValidQuote, CP!ValidQuote
    <3> QED  BY <3>1, <3>2 DEF CP!Next
  <2>3. ASSUME NEW what \in Callback!Issues, NEW i \in SatsInvoices,
               Callback!CreateInvoice(c, i, what)
        PROVE  CP!Next
    <3>1. what \in CP!Issues
      BY DEF Callback!Issues, CP!Issues
    <3>2. CP!CreateInvoice(c, i, what)
      BY <2>3 DEF Callback!CreateInvoice, CP!CreateInvoice,
         Callback!NewInvoice, CP!NewInvoice, Callback!Unissued, CP!Unissued
    <3> QED  BY <3>1, <3>2 DEF CP!Next
  <2>4. ASSUME Callback!QuoteFails(c)  PROVE CP!Next
    BY <2>4 DEF Callback!QuoteFails, CP!QuoteFails, CP!Next
  <2>5. ASSUME Callback!StoreInvoice(c)  PROVE CP!Next
    BY <2>5 DEF Callback!StoreInvoice, CP!StoreInvoice, Callback!Row, CP!Row, CP!Next
  <2>6. ASSUME Callback!SatsFails(c)  PROVE CP!Next
    BY <2>6 DEF Callback!SatsFails, CP!SatsFails, CP!Next
  <2>7. ASSUME Callback!Reply(c)  PROVE CP!Next
    BY <2>7 DEF Callback!Reply, CP!Reply, CP!Next
  <2> QED  BY <1>1, <2>1, <2>2, <2>3, <2>4, <2>5, <2>6, <2>7 DEF CallbackStep
<1>2. ASSUME NEW c \in Callbacks, StoreQuote(c)  PROVE CP!Next
  <2>1. Callback!PersistQuote(c) => CP!PersistQuote(c)
    BY DEF Callback!PersistQuote, CP!PersistQuote, Callback!Row, CP!Row
  <2>2. Callback!PersistFails(c) => CP!PersistFails(c)
    BY DEF Callback!PersistFails, CP!PersistFails, Callback!Row, CP!Row
  <2> QED  BY <1>2, <2>1, <2>2 DEF StoreQuote, CP!Next
<1>3. UNCHANGED callbackVars => UNCHANGED CP!vars
  BY DEF callbackVars, CP!vars
<1>4. ASSUME ProcessCrash  PROVE [CP!Next]_(CP!vars)
  BY <1>4 DEF ProcessCrash, CP!Next, CP!Crash, CP!vars
<1> QED
  BY <1>1, <1>2, <1>3, <1>4 DEF PathNext, Pay, SettlementStep, pathVars

(* What the two halves share: who issued which invoice, and a row with an   *)
(* order is in both tables.                                                 *)
PathLink ==
  /\ \A i \in Quotes \cup SatsInvoices : /\ issued[i].by = "flashnet" => i \in Quotes
                                         /\ issued[i].by = "spark" => i \in SatsInvoices
  /\ \A row \in stored : row.order => orders[row.bolt11].status # Absent

(* The invoice that a callback persists is a quote, not yet stored.         *)
LEMMA PersistedIsQuote ==
  ASSUME CP!CallbackInv, PathLink, NEW c \in Callbacks, CP!At(c, "persist")
  PROVE  cb[c].pr \in Quotes
<1>1. cb[c].pr \in Quotes \cup SatsInvoices /\ issued[cb[c].pr].by = "flashnet"
  BY DEF CP!CallbackInv, CP!HeldIssued, CP!Holds, CP!FromIssuer, CP!At
<1> QED  BY <1>1 DEF PathLink

(* A quote the payer holds has its order row.                               *)
LEMMA GivenIsStored ==
  ASSUME CP!CallbackInv, PathLink, NEW q \in Quotes, Given(q)
  PROVE  orders[q].status # Absent
<1>1. PICK r \in revealed : r.pr = q
  BY DEF Given
<1> DEFINE row == [bolt11 |-> r.pr, name |-> r.ask.name, amount |-> r.ask.amount,
                   order |-> issued[r.pr].by = "flashnet"]
<1>2. row \in stored
  BY DEF CP!CallbackInv, CP!HasRow
<1>3. row.bolt11 = q /\ row.order = (issued[q].by = "flashnet")
  BY <1>1
<1>4. issued[q] # CP!Unissued
  BY <1>2, <1>3 DEF CP!CallbackInv, CP!RowsIssued
<1>5. issued[q] \in CP!Issues
  BY <1>4 DEF CP!CallbackInv, CP!TypeOK
<1>6. issued[q].by \in {"flashnet", "spark"}
  BY <1>5 DEF CP!Issues
<1>7. issued[q].by = "flashnet"
  BY <1>6, PathAssumption DEF PathLink, PathAssumption
<1> HIDE DEF row
<1> QED  BY <1>2, <1>3, <1>7 DEF PathLink

(* Every step of the path is one of the settlement, or none: a quote is     *)
(* stored by the step of Settlement that stores it, and the payer pays only *)
(* what is stored.                                                          *)
LEMMA PathIsSettlementStep ==
  ASSUME CP!CallbackInv, PathLink, [PathNext]_pathVars
  PROVE  [SettlementNext]_settlementVars
<1>1. ASSUME NEW c \in Callbacks, StoreQuote(c)  PROVE [SettlementNext]_settlementVars
  <2>1. CASE UNCHANGED settlementVars
    BY <2>1
  <2>2. CASE /\ Callback!PersistQuote(c) \/ Callback!PersistFails(c)
             /\ InitiateLightningQuote(cb[c].pr)
             /\ UNCHANGED settlementOnly
    <3>1. CP!At(c, "persist")
      BY <2>2 DEF Callback!PersistQuote, Callback!PersistFails, Callback!At, CP!At
    <3>2. cb[c].pr \in Quotes
      BY <3>1, PersistedIsQuote
    <3> QED  BY <2>2, <3>2 DEF SettlementNext, settlementOnly
  <2> QED  BY <1>1, <2>1, <2>2 DEF StoreQuote
<1>2. ASSUME NEW q \in Quotes, Pay(q)  PROVE SettlementNext
  BY <1>2, GivenIsStored DEF Pay, ProviderUpdate, SettlementNext
<1>3. ASSUME SettlementStep \/ ProcessCrash  PROVE SettlementNext
  BY <1>3 DEF SettlementStep, ProcessCrash, SettlementNext
<1>4. ASSUME NEW c \in Callbacks, CallbackStep(c)  PROVE UNCHANGED settlementVars
  BY <1>4 DEF CallbackStep
<1>5. UNCHANGED pathVars => UNCHANGED settlementVars
  BY DEF pathVars
<1> QED  BY <1>1, <1>2, <1>3, <1>4, <1>5 DEF PathNext

(* The link holds throughout.                                               *)
LEMMA PathKeepsLink ==
  ASSUME CP!CallbackInv, SettlementInv, PathLink, [PathNext]_pathVars
  PROVE  PathLink'
<1>1. SwapInv /\ [TablesStep]_vars
  BY PathIsSettlementStep, SettlementIsTablesStep DEF SettlementInv
<1>2. \A row \in stored : row.order => row.bolt11 \in Quotes
  <2>1. \A row \in stored : row.bolt11 \in Quotes \cup SatsInvoices
    BY DEF CP!CallbackInv, CP!TypeOK, CP!Rows
  <2> QED  BY <2>1 DEF CP!CallbackInv, CP!OrderIsValidQuote, PathLink
<1>3. \A row \in stored : row.order => orders'[row.bolt11].status # Absent
  BY <1>1, <1>2, StoredStays DEF PathLink
<1>4. orders \in [Quotes -> Rows]
  BY <1>1 DEF SwapInv, TypeOK
<1>5. issued \in [Quotes \cup SatsInvoices -> CP!Issues \cup {CP!Unissued}]
  BY DEF CP!CallbackInv, CP!TypeOK
<1>6. ASSUME UNCHANGED issued, \A row \in stored' \ stored : ~row.order
      PROVE  PathLink'
  BY <1>3, <1>6 DEF PathLink
<1>7. ASSUME NEW c \in Callbacks, StoreQuote(c)  PROVE PathLink'
  <2>1. CASE UNCHANGED stored
    BY <1>6, <1>7, <2>1 DEF StoreQuote, Callback!PersistQuote, Callback!PersistFails
  <2>2. CASE stored' # stored
    <3>1. /\ Callback!PersistQuote(c) \/ Callback!PersistFails(c)
          /\ InitiateLightningQuote(cb[c].pr)
      BY <1>7, <2>2 DEF StoreQuote
    <3>2. /\ CP!At(c, "persist") /\ UNCHANGED issued
          /\ stored' = stored \cup {Callback!Row(c, TRUE)}
      BY <2>2, <3>1 DEF Callback!PersistQuote, Callback!PersistFails, Callback!At, CP!At
    <3>3. Callback!Row(c, TRUE).bolt11 = cb[c].pr
      BY DEF Callback!Row
    <3>4. orders'[cb[c].pr].status = "PENDING_PAYMENT"
      <4>1. cb[c].pr \in Quotes
        BY <3>2, PersistedIsQuote
      <4> QED  BY <1>4, <3>1, <4>1 DEF InitiateLightningQuote, Rows
    <3> QED  BY <1>3, <3>2, <3>3, <3>4 DEF PathLink, Absent
  <2> QED  BY <2>1, <2>2
<1>8. ASSUME NEW c \in Callbacks, CallbackStep(c)  PROVE PathLink'
  <2>1. ASSUME NEW what, NEW i \in Quotes \cup SatsInvoices,
               what.by = IF i \in Quotes THEN "flashnet" ELSE "spark",
               Callback!NewInvoice(i, what), UNCHANGED stored
        PROVE  PathLink'
    <3>1. issued' = [issued EXCEPT ![i] = what]
      BY <2>1 DEF Callback!NewInvoice
    <3> QED  BY <1>3, <1>5, <2>1, <3>1 DEF PathLink
  <2>2. ASSUME NEW what, NEW i \in Quotes, Callback!CreateLightningQuote(c, i, what)
        PROVE  PathLink'
    BY <2>1, <2>2 DEF Callback!CreateLightningQuote
  <2>3. ASSUME NEW what, NEW i \in SatsInvoices, Callback!CreateInvoice(c, i, what)
        PROVE  PathLink'
    BY <2>1, <2>3, PathAssumption DEF Callback!CreateInvoice, PathAssumption
  <2>4. ASSUME Callback!StoreInvoice(c)  PROVE PathLink'
    BY <1>6, <2>4 DEF Callback!StoreInvoice, Callback!Row
  <2>5. ASSUME UNCHANGED <<issued, stored>>  PROVE PathLink'
    BY <1>6, <2>5
  <2> QED  BY <1>8, <2>2, <2>3, <2>4, <2>5
           DEF CallbackStep, Callback!HandleLnurlCallback, Callback!QuoteFails,
               Callback!SatsFails, Callback!Reply
<1>9. ASSUME UNCHANGED <<issued, stored>>  PROVE PathLink'
  BY <1>6, <1>9
<1> QED
  BY <1>7, <1>8, <1>9
     DEF PathNext, Pay, SettlementStep, ProcessCrash, callbackVars, pathVars

-----------------------------------------------------------------------------
(* The callbacks of the path behave as LnurlCallback says.                  *)
LEMMA PathCallback == PathSpec => []CP!CallbackInv
<1>1. CP!CallbackAssumption
  BY PathAssumption DEF PathAssumption, CP!CallbackAssumption
<1>2. PathSpec => CP!Spec
  BY PathIsCallbackInit, PathIsCallbackStep, PTL DEF PathSpec, CP!Spec
<1> QED  BY <1>1, <1>2, CP!CallbackInvariant, PTL

(* In every state of the path both invariants hold, and the link.           *)
THEOREM PathInvariant == PathSpec => [](CP!CallbackInv /\ SettlementInv /\ PathLink)
<1>1. PathInit => SettlementInv /\ PathLink
  BY InitSettlementInv DEF PathInit, PathLink, Callback!Init, Callback!Unissued
<1>2. CP!CallbackInv /\ SettlementInv /\ PathLink /\ [PathNext]_pathVars
      => SettlementInv' /\ PathLink'
  BY PathIsSettlementStep, PathKeepsLink, MovesKeepInv, ReconcileKeepsInv, ServiceKeepsInv
     DEF SettlementNext, ProviderUpdate
<1> QED  BY <1>1, <1>2, PathCallback, PTL DEF PathSpec

(* A payment can be made only once its order row is stored, so the whole    *)
(* path implements the settlement.                                          *)
THEOREM PathRefinesSettlement == PathSpec => ImplementsSettlement
<1>1. CP!CallbackInv /\ SettlementInv /\ PathLink /\ [PathNext]_pathVars
      => [SettlementNext]_settlementVars
  BY PathIsSettlementStep
<1>2. PathInit => SettlementInit
  BY DEF PathInit
<1> QED
  BY <1>1, <1>2, PathInvariant, PTL DEF PathSpec, ImplementsSettlement, SettlementSafety

(* From the payer's request on, whatever fails, falls back or dies, a       *)
(* settled payment agrees with the provider.                                *)
THEOREM PathAgrees == PathSpec => [](SettlementAgrees /\ CaseHasCause)
  BY PathRefinesSettlement, SettlementAgreement, CasesHaveCause, PTL
     DEF ImplementsSettlement

(* The liveness of VisitsSuffice holds of the whole path.                   *)
THEOREM PathSettles ==
  ASSUME TextsFit
  PROVE  PathSpec /\ KeepsVisiting => EventuallySettled /\ HoldIsDetected
  BY PathRefinesSettlement, VisitsSuffice, PTL DEF ImplementsSettlement

-----------------------------------------------------------------------------
(* What a payer was given and can have paid.                                *)
PaidWasGiven == /\ \A q \in Quotes : provider[q] # Unfunded => Given(q)
                /\ \A p \in net : Given(p.quote)

(* Quote q was made for somebody: a payer asked for it and was given it,    *)
(* its one Invoice row has the name and the amount the payer asked for,     *)
(* and its invoice is for that amount.                                      *)
MadeForPayer(q) ==
  \E r \in revealed, row \in stored :
    /\ r.pr = q
    /\ row = [bolt11 |-> q, name |-> r.ask.name, amount |-> r.ask.amount, order |-> TRUE]
    /\ \A other \in stored : other.bolt11 = q => other = row
    /\ issued[q].by = "flashnet" /\ issued[q].amount = r.ask.amount /\ issued[q].sound

(* A settled payment, and one in the recovery queue, is one that was asked  *)
(* for.                                                                     *)
SettledForPayer ==
  \A q \in Quotes : orders[q].status \in Terminal \/ cases[q] # "NONE" => MadeForPayer(q)

(* Answers are not taken back, and nothing but paying reaches the provider. *)
LEMMA PathSteps ==
  ASSUME [PathNext]_pathVars
  PROVE  /\ revealed \subseteq revealed'
         /\ UNCHANGED <<provider, net>> \/ \E q \in Quotes : Pay(q)
<1>1. ASSUME NEW c \in Callbacks, CallbackStep(c)
      PROVE  revealed \subseteq revealed' /\ UNCHANGED <<provider, net>>
  BY <1>1 DEF CallbackStep, Callback!HandleLnurlCallback, Callback!CreateLightningQuote,
              Callback!CreateInvoice, Callback!QuoteFails, Callback!StoreInvoice,
              Callback!SatsFails, Callback!Reply, settlementVars
<1>2. ASSUME NEW c \in Callbacks, StoreQuote(c)
      PROVE  revealed \subseteq revealed' /\ UNCHANGED <<provider, net>>
  BY <1>2 DEF StoreQuote, Callback!PersistQuote, Callback!PersistFails, settlementVars,
              settlementOnly
<1>3. ASSUME SettlementStep
      PROVE  revealed \subseteq revealed' /\ UNCHANGED <<provider, net>>
  BY <1>3 DEF SettlementStep, callbackVars, Reconcile, RecFetch, RecApply, RecRecover,
              RecDefer, HandleWebhook, RecQuery
<1>4. ASSUME ProcessCrash
      PROVE  revealed \subseteq revealed' /\ UNCHANGED <<provider, net>>
  BY <1>4 DEF ProcessCrash, Crash
<1>5. ASSUME NEW q \in Quotes, Pay(q)  PROVE UNCHANGED revealed
  BY <1>5 DEF Pay, callbackVars
<1>6. UNCHANGED pathVars => UNCHANGED <<revealed, provider, net>>
  BY DEF pathVars, callbackVars, settlementVars
<1> QED  BY <1>1, <1>2, <1>3, <1>4, <1>5, <1>6 DEF PathNext

(* PaidWasGiven is inductive.                                               *)
LEMMA GivenKept ==
  ASSUME SettlementInv, PaidWasGiven, [PathNext]_pathVars
  PROVE  PaidWasGiven'
<1>1. \A q : Given(q) => Given(q)'
  BY PathSteps DEF Given
<1>2. CASE UNCHANGED <<provider, net>>
  BY <1>1, <1>2 DEF PaidWasGiven
<1>3. ASSUME NEW q \in Quotes, Pay(q)  PROVE PaidWasGiven'
  <2>1. PICK s \in Snapshots : /\ provider' = [provider EXCEPT ![q] = s]
                               /\ \E told : net' = net \cup Webhooks(q, told)
    BY <1>3 DEF Pay, OrderMoves
  <2>2. \A e, d, told : WebhookFor(q, told, e, d).quote = q
    BY DEF WebhookFor, EventFor
  <2>3. \A p \in net' : p \in net \/ p.quote = q
    BY <2>1, <2>2 DEF Webhooks
  <2>4. Given(q)'
    BY <1>1, <1>3 DEF Pay
  <2>5. provider \in [Quotes -> Snapshots \cup {Unfunded}]
    BY DEF SettlementInv, SettlementTypeOK
  <2>6. \A p \in net' : Given(p.quote)'
    BY <1>1, <2>3, <2>4 DEF PaidWasGiven
  <2>7. \A r \in Quotes : provider'[r] # Unfunded => Given(r)'
    BY <1>1, <2>1, <2>4, <2>5 DEF PaidWasGiven
  <2> QED  BY <2>6, <2>7 DEF PaidWasGiven
<1> QED  BY <1>2, <1>3, PathSteps

(* What a payer was given was made for it.                                  *)
LEMMA GivenWasMade ==
  ASSUME CP!CallbackInv, PathLink, NEW q \in Quotes, Given(q)
  PROVE  MadeForPayer(q)
<1>1. PICK r \in revealed : r.pr = q
  BY DEF Given
<1>2. PICK row \in stored :
        row = [bolt11 |-> r.pr, name |-> r.ask.name, amount |-> r.ask.amount,
               order |-> issued[r.pr].by = "flashnet"]
  BY DEF CP!CallbackInv, CP!HasRow
<1>3. issued[q] \in CP!Issues
  BY <1>1, <1>2 DEF CP!CallbackInv, CP!RowsIssued, CP!TypeOK
<1>4. issued[q].by = "flashnet"
  <2>1. issued[q].by \in {"flashnet", "spark"}
    BY <1>3 DEF CP!Issues
  <2> QED  BY <2>1, PathAssumption DEF PathLink, PathAssumption
<1>5. row.bolt11 = q /\ row.order /\ row.amount = r.ask.amount
  BY <1>1, <1>2, <1>4
<1>6. \A other \in stored : other.bolt11 = q => other = row
  BY <1>5 DEF CP!CallbackInv, CP!RowsUnique
<1>7. CP!ValidQuote(issued[q], row)
  BY <1>5 DEF CP!CallbackInv, CP!OrderIsValidQuote
<1>8. issued[q].amount = r.ask.amount /\ issued[q].sound
  BY <1>5, <1>7 DEF CP!ValidQuote
<1> QED  BY <1>1, <1>2, <1>4, <1>6, <1>8 DEF MadeForPayer

(* Over the whole path, what settles, fails or is held is a payment that    *)
(* its payer asked for, at the name and for the amount on its only row: no  *)
(* quote of a callback that failed, fell back or died on the way can be     *)
(* settled to anybody.                                                      *)
THEOREM SettlementsAttributed == PathSpec => []SettledForPayer
<1>1. PathInit => PaidWasGiven
  BY DEF PathInit, SettlementInit, PaidWasGiven
<1>2. SettlementInv /\ PaidWasGiven /\ [PathNext]_pathVars => PaidWasGiven'
  BY GivenKept
<1>3. CP!CallbackInv /\ SettlementInv /\ PathLink /\ PaidWasGiven => SettledForPayer
  <2> SUFFICES ASSUME CP!CallbackInv, SettlementInv, PathLink, PaidWasGiven,
                      NEW q \in Quotes, orders[q].status \in Terminal \/ cases[q] # "NONE"
               PROVE  Given(q)
    BY GivenWasMade DEF SettledForPayer
  <2>1. CASE orders[q].status \in Terminal
    <3>1. provider[q].status \in Terminal
      BY <2>1 DEF SettlementInv, RowsTrue, RowTrue
    <3> QED  BY <3>1 DEF PaidWasGiven, Unfunded, Terminal
  <2>2. CASE cases[q] # "NONE"
    BY <2>2 DEF SettlementInv, CaseHasCause, PaidWasGiven
  <2> QED  BY <2>1, <2>2
<1> QED  BY <1>1, <1>2, <1>3, PathInvariant, PTL DEF PathSpec
=============================================================================
