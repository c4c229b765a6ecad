-------------------------- MODULE QuoteReconciler --------------------------
(***************************************************************************)
(* How the polling loop of src/swap/quote-reconciler.service.ts gets round *)
(* to every unsettled payment.  A batch goes through three queues: orders  *)
(* that are bound, quotes that are fresh or recently expired, and the      *)
(* archive of old unpaid quotes.  From each it takes one page, in order of *)
(* id, after the queue's cursor; a page that is not full resets the        *)
(* cursor.  Rows move between the queues while pages are being worked off, *)
(* and new rows get ids anywhere in the order (cuids).                     *)
(*                                                                         *)
(* What a visit does to its row is module Settlement; here a visit, like a *)
(* webhook, may bind or settle it or change nothing.                       *)
(***************************************************************************)
EXTENDS Naturals, FiniteSets, FiniteSetsExt

CONSTANTS Ids,         \* order row ids, in their sort order
          Archive,     \* the rows that are old and unpaid from the start
          Take,        \* rows per page, for each queue
          MaxFaults,   \* bound: crashes and failed queries together
          MaxWait      \* bound: where the count of a row's pages stops

QueueNames == {"active", "fresh", "stale"}

(* The pages after which a queue of n rows has been gone through: those of  *)
(* its rows and one that finds no more.                                     *)
SweepLength(n, take) == ((n + take - 1) \div take) + 1

ASSUME ReconcilerAssumption == /\ IsFiniteSet(Ids) /\ Ids \subseteq Nat \ {0}
                               /\ Archive \subseteq Ids
                               /\ Take \in [QueueNames -> Nat \ {0}]
                               /\ MaxFaults \in Nat /\ MaxWait \in Nat
                               /\ MaxWait >= (MaxFaults + 1)
                                    * SweepLength(Cardinality(Ids \ Archive), Take["fresh"])

VARIABLES place,     \* the state of each row
          expired,   \* the rows whose invoice expired six hours ago
          cut,       \* what of it recentExpiry, read at batch start, tells
          cursor,    \* cursors: the last id of the last page, 0 if undefined
          queue,     \* the queue in work, "none" between batches
          page,      \* its rows still to visit
          wait,      \* history: pages of its queue that passed a row over
          faults

vars == <<place, expired, cut, cursor, queue, page, wait, faults>>

Places == {"absent", "unbound", "bound", "settled"}
NoPage == {0}        \* the queue has not been read yet

TypeOK == /\ place \in [Ids -> Places]
          /\ expired \in SUBSET Ids /\ cut \in SUBSET Ids
          /\ cursor \in [QueueNames -> Ids \cup {0}]
          /\ queue \in QueueNames \cup {"none"}
          /\ page \in (SUBSET Ids) \cup {NoPage}
          /\ wait \in [Ids -> 0..MaxWait]
          /\ faults \in 0..MaxFaults

Init == /\ place = [i \in Ids |-> IF i \in Archive THEN "unbound" ELSE "absent"]
        /\ expired = Archive
        /\ cut = {}
        /\ cursor = [x \in QueueNames |-> 0]
        /\ queue = "none"
        /\ page = NoPage
        /\ wait = [i \in Ids |-> 0]
        /\ faults = 0

-----------------------------------------------------------------------------
(* Mutant: one queue for all unpaid quotes.                                 *)
WhereUnpaid(x) == CASE x = "active" -> {i \in Ids : place[i] = "bound"}
                    [] x = "fresh"  -> {i \in Ids : place[i] = "unbound"}
                    [] x = "stale"  -> {}

(* The where clauses of the three queues; settled rows are in none.         *)
Where(x) == CASE x = "active" -> {i \in Ids : place[i] = "bound"}
              [] x = "fresh"  -> {i \in Ids : place[i] = "unbound"} \ cut
              [] x = "stale"  -> {i \in Ids : place[i] = "unbound"} \cap cut

(* Mutant: gte for gt, so the last row of a page is read again.             *)
RowsFromCursor(x) == LET after == {i \in Where(x) : i >= cursor[x]}
                     IN  {i \in after : Cardinality({j \in after : j <= i}) <= Take[x]}

(* findMany after the cursor, with order and take.                          *)
Rows(x) == LET after == {i \in Where(x) : i > cursor[x]}
           IN  {i \in after : Cardinality({j \in after : j <= i}) <= Take[x]}

(* A full page may have more behind it; any other ends the sweep.           *)
NextCursor(x) == IF Cardinality(Rows(x)) = Take[x] THEN Max(Rows(x)) ELSE 0

(* Mutant: the loop runs one queue too far.                                 *)
QueueAfterLast(x) == CASE x = "active" -> "fresh"
                       [] x = "fresh"  -> "stale"
                       [] x = "stale"  -> "undefined"

QueueAfter(x) == CASE x = "active" -> "fresh"
                   [] x = "fresh"  -> "stale"
                   [] x = "stale"  -> "none"

(* Where a row goes: bound by its first event, settled by a later one or at *)
(* once.                                                                    *)
Successors(i) == CASE place[i] = "unbound" -> {"bound", "settled"}
                   [] place[i] = "bound"   -> {"settled"}
                   [] OTHER                -> {}

MoveTo(i, p) == /\ place' = [place EXCEPT ![i] = p]
                /\ wait' = [wait EXCEPT ![i] = 0]

-----------------------------------------------------------------------------
(* initiateLightningQuote stores a row; its invoice has not expired.        *)
Insert(i) == /\ place[i] = "absent"
             /\ MoveTo(i, "unbound")
             /\ UNCHANGED <<expired, cut, cursor, queue, page, faults>>

(* An event for the row from elsewhere.                                     *)
Webhook(i) == /\ \E p \in Successors(i) : MoveTo(i, p)
              /\ UNCHANGED <<expired, cut, cursor, queue, page, faults>>

(* The six hours after the invoice's expiry are over.                       *)
Age(i) == /\ place[i] # "absent" /\ i \notin expired
          /\ expired' = expired \cup {i}
          /\ UNCHANGED <<place, cut, cursor, queue, page, wait, faults>>

-----------------------------------------------------------------------------
(* run starts reconcileBatch, which reads the clock once for the batch.     *)
StartBatch ==
  /\ queue = "none"
  /\ queue' = "active" /\ page' = NoPage
  /\ cut' = expired
  /\ wait' = [i \in Ids |-> IF i \in expired \ cut THEN 0 ELSE wait[i]]
  /\ UNCHANGED <<place, expired, cursor, faults>>

(* Read one page of the queue and move its cursor.                          *)
QueryPage ==
  /\ queue # "none" /\ page = NoPage
  /\ page' = Rows(queue)
  /\ cursor' = [cursor EXCEPT ![queue] = NextCursor(queue)]
  /\ wait' = [i \in Ids |-> IF i \in Rows(queue) THEN 0
                            ELSE IF i \in Where(queue) THEN Min({wait[i] + 1, MaxWait})
                            ELSE wait[i]]
  /\ UNCHANGED <<place, expired, cut, queue, faults>>

(* One row of the page: an order not funded yet, an error and a snapshot    *)
(* that changes nothing all lead on to the next row.                        *)
VisitRow ==
  /\ page # NoPage /\ page # {}
  /\ LET i == Min(page)
     IN  /\ \/ \E p \in Successors(i) : MoveTo(i, p)
            \/ UNCHANGED <<place, wait>>
         /\ page' = page \ {i}
  /\ UNCHANGED <<expired, cut, cursor, queue, faults>>

EndPage ==
  /\ page = {}
  /\ queue' = QueueAfter(queue) /\ page' = NoPage
  /\ UNCHANGED <<place, expired, cut, cursor, wait, faults>>

(* findMany throws: the batch is over, the queues behind it unread.         *)
QueryFails ==
  /\ queue # "none" /\ page = NoPage /\ faults < MaxFaults
  /\ queue' = "none"
  /\ faults' = faults + 1
  /\ UNCHANGED <<place, expired, cut, cursor, page, wait>>

(* The cursors live in memory only.                                         *)
Crash ==
  /\ faults < MaxFaults
  /\ queue' = "none" /\ page' = NoPage
  /\ cursor' = [x \in QueueNames |-> 0]
  /\ faults' = faults + 1
  /\ UNCHANGED <<place, expired, cut, wait>>

ReconcilerStep == StartBatch \/ QueryPage \/ VisitRow \/ EndPage

Next == \/ \E i \in Ids : Insert(i) \/ Webhook(i) \/ Age(i)
        \/ ReconcilerStep
        \/ QueryFails
        \/ Crash

(* run is a loop with a 30 s pause, and every lookup in it has a timeout.   *)
Spec == Init /\ [][Next]_vars /\ WF_vars(ReconcilerStep)

-----------------------------------------------------------------------------
(* "Old unpaid invoices [...] cannot delay a current payment": the pages of *)
(* its queue that pass a current quote over are bounded by the number of    *)
(* current quotes, however large the archive, and whatever rows come and go *)
(* meanwhile; each crash costs at most one more sweep.                      *)
CurrentNotDelayed ==
  \A i \in Ids \ expired :
    place[i] = "unbound" =>
      wait[i] < (faults + 1) * SweepLength(Cardinality(Ids \ Archive), Take["fresh"])

Unsettled(i) == place[i] \in {"unbound", "bound"}

(* "Durable quote lookup covers missed webhooks, restarts, and delayed      *)
(* funding": every payment that stays unsettled is looked at again and      *)
(* again, though rows come, change queue and leave behind the cursors.      *)
EveryRowVisited ==
  \A i \in Ids : []<>(~Unsettled(i) \/ (page \notin {NoPage, {}} /\ Min(page) = i))
=============================================================================
