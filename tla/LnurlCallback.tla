--------------------------- MODULE LnurlCallback ---------------------------
(***************************************************************************)
(* The LNURL-pay callback, from the payer's request to the invoice in the  *)
(* payer's hands: handleLnurlCallback of src/lnurl/lnurl.controller.ts     *)
(* with the quote call it makes (initiateLightningQuote, createLightning-  *)
(* Quote, validateLightningQuote) and the sats invoice it falls back to.   *)
(* Callbacks run concurrently, one step per await; a name may be retired,  *)
(* a preference or the kill switch changed, and the process may die        *)
(* between two steps.                                                      *)
(*                                                                         *)
(* Requests with a malformed amount or an unknown name do not start.  What *)
(* an issuer returns is an invoice for some amount; whether it carries the *)
(* description hash asked for, is signed, unexpired and complete is one    *)
(* flag.                                                                   *)
(***************************************************************************)
EXTENDS FiniteSets

CONSTANTS Callbacks,    \* callback requests in flight at once
          Names, Amounts,
          Invoices,     \* BOLT11 strings, all different, as issuers make them
          NoInvoice

ASSUME CallbackAssumption == NoInvoice \notin Invoices

VARIABLES active,       \* the names that are active
          usdb,         \* the names whose user prefers USDB
          enabled,      \* USDB_ENABLED
          issued,       \* what each invoice says; its issuer knows it
          stored,       \* invoices: the rows, each with its order row or not
          cb,           \* the callbacks in flight
          revealed      \* invoices that reached a payer, and for what request

vars == <<active, usdb, enabled, issued, stored, cb, revealed>>

Issues   == [by : {"flashnet", "spark"}, amount : Amounts, sound : BOOLEAN]
Unissued == [by |-> "nobody"]
Rows     == [bolt11 : Invoices, name : Names, amount : Amounts, order : BOOLEAN]
Asked    == [name : Names, amount : Amounts]
Idle     == [pc |-> "idle"]
Running  == [pc : {"quote", "persist", "sats", "store", "reply"}, ask : Asked,
             pr : Invoices \cup {NoInvoice}]

TypeOK == /\ active \in SUBSET Names /\ usdb \in SUBSET Names
          /\ enabled \in BOOLEAN
          /\ issued \in [Invoices -> Issues \cup {Unissued}]
          /\ stored \in SUBSET Rows
          /\ cb \in [Callbacks -> Running \cup {Idle}]
          /\ revealed \in SUBSET [pr : Invoices, ask : Asked]

Init == /\ active = Names /\ usdb \in SUBSET Names /\ enabled \in BOOLEAN
        /\ issued = [i \in Invoices |-> Unissued]
        /\ stored = {}
        /\ cb = [c \in Callbacks |-> Idle]
        /\ revealed = {}

-----------------------------------------------------------------------------
At(c, pc) == cb[c].pc = pc
Go(c, pc, i) == cb' = [cb EXCEPT ![c] = [pc |-> pc, ask |-> @.ask, pr |-> i]]
Stop(c) == cb' = [cb EXCEPT ![c] = Idle]

(* The issuer makes a new invoice.                                          *)
NewInvoice(i, what) == /\ issued[i] = Unissued
                       /\ issued' = [issued EXCEPT ![i] = what]

(* validateLightningQuote.                                                  *)
ValidQuote(what, ask) == what.amount = ask.amount /\ what.sound

Row(c, order) == [bolt11 |-> cb[c].pr, name |-> cb[c].ask.name,
                  amount |-> cb[c].ask.amount, order |-> order]

-----------------------------------------------------------------------------
(* The lookup of the active name with its user, and the route.              *)
HandleLnurlCallback(c, ask) ==
  /\ cb[c] = Idle
  /\ ask.name \in active
  /\ cb' = [cb EXCEPT ![c] =
              [pc |-> IF enabled /\ ask.name \in usdb THEN "quote" ELSE "sats",
               ask |-> ask, pr |-> NoInvoice]]
  /\ UNCHANGED <<active, usdb, enabled, issued, stored, revealed>>

(* Mutant: the validation is not awaited.                                   *)
QuoteUnvalidated(c, i, what) ==
  /\ At(c, "quote") /\ what.by = "flashnet"
  /\ NewInvoice(i, what)
  /\ Go(c, "persist", i)
  /\ UNCHANGED <<active, usdb, enabled, stored, revealed>>

(* Mutant: a valid quote is answered before it is stored.                   *)
QuoteAnswered(c, i, what) ==
  /\ At(c, "quote") /\ what.by = "flashnet"
  /\ NewInvoice(i, what)
  /\ IF ValidQuote(what, cb[c].ask) THEN Go(c, "reply", i)
                                    ELSE Go(c, "sats", NoInvoice)
  /\ UNCHANGED <<active, usdb, enabled, stored, revealed>>

(* createLightningQuote returns; a quote that does not validate sends the   *)
(* payment to the sats route.                                               *)
CreateLightningQuote(c, i, what) ==
  /\ At(c, "quote") /\ what.by = "flashnet"
  /\ NewInvoice(i, what)
  /\ IF ValidQuote(what, cb[c].ask) THEN Go(c, "persist", i)
                                    ELSE Go(c, "sats", NoInvoice)
  /\ UNCHANGED <<active, usdb, enabled, stored, revealed>>

(* The address does not encode, the provider refuses or is unreachable.     *)
QuoteFails(c) ==
  /\ At(c, "quote")
  /\ Go(c, "sats", NoInvoice)
  /\ UNCHANGED <<active, usdb, enabled, issued, stored, revealed>>

(* The transaction of initiateLightningQuote stores Invoice and             *)
(* FlashnetOrder together.                                                  *)
PersistQuote(c) ==
  /\ At(c, "persist")
  /\ stored' = stored \cup {Row(c, TRUE)}
  /\ Go(c, "reply", cb[c].pr)
  /\ UNCHANGED <<active, usdb, enabled, issued, revealed>>

(* It fails, or it commits and the answer is lost; either way the callback  *)
(* falls back to sats.                                                      *)
PersistFails(c) ==
  /\ At(c, "persist")
  /\ stored' \in {stored, stored \cup {Row(c, TRUE)}}
  /\ Go(c, "sats", NoInvoice)
  /\ UNCHANGED <<active, usdb, enabled, issued, revealed>>

(* Mutants: the row is stored without its invoice; the payer is answered    *)
(* before it is stored.                                                     *)
InvoiceDropped(c, i, what) ==
  /\ At(c, "sats") /\ what.by = "spark" /\ what.amount = cb[c].ask.amount
  /\ NewInvoice(i, what)
  /\ Go(c, "store", NoInvoice)
  /\ UNCHANGED <<active, usdb, enabled, stored, revealed>>
AnswerFirst(c, i, what) ==
  /\ At(c, "sats") /\ what.by = "spark" /\ what.amount = cb[c].ask.amount
  /\ NewInvoice(i, what)
  /\ Go(c, "reply", i)
  /\ UNCHANGED <<active, usdb, enabled, stored, revealed>>

(* issueSatsBolt11: the Spark invoice, used whatever description hash it    *)
(* carries, then its row; it has no order.                                  *)
CreateInvoice(c, i, what) ==
  /\ At(c, "sats") /\ what.by = "spark"
  /\ what.amount = cb[c].ask.amount
  /\ NewInvoice(i, what)
  /\ Go(c, "store", i)
  /\ UNCHANGED <<active, usdb, enabled, stored, revealed>>

StoreInvoice(c) ==
  /\ At(c, "store")
  /\ stored' = stored \cup {Row(c, FALSE)}
  /\ Go(c, "reply", cb[c].pr)
  /\ UNCHANGED <<active, usdb, enabled, issued, revealed>>

(* Either of the two fails: the payer gets an error.                        *)
SatsFails(c) ==
  /\ At(c, "sats") \/ At(c, "store")
  /\ Stop(c)
  /\ UNCHANGED <<active, usdb, enabled, issued, stored, revealed>>

(* { pr, routes: [] } reaches the payer.                                    *)
Reply(c) ==
  /\ At(c, "reply")
  /\ revealed' = revealed \cup {[pr |-> cb[c].pr, ask |-> cb[c].ask]}
  /\ Stop(c)
  /\ UNCHANGED <<active, usdb, enabled, issued, stored>>

Crash ==
  /\ cb # [c \in Callbacks |-> Idle]
  /\ cb' = [c \in Callbacks |-> Idle]
  /\ UNCHANGED <<active, usdb, enabled, issued, stored, revealed>>

(* changeUsername retires and reactivates names; setPreference and the      *)
(* operator's kill switch change the route of later callbacks.              *)
ToggleName(n) == /\ active' = IF n \in active THEN active \ {n} ELSE active \cup {n}
                 /\ UNCHANGED <<usdb, enabled, issued, stored, cb, revealed>>

SetPreference(n) == /\ usdb' = IF n \in usdb THEN usdb \ {n} ELSE usdb \cup {n}
                    /\ UNCHANGED <<active, enabled, issued, stored, cb, revealed>>

KillSwitch == /\ enabled' = ~enabled
              /\ UNCHANGED <<active, usdb, issued, stored, cb, revealed>>

Next ==
  \/ \E c \in Callbacks :
       \/ \E ask \in Asked : HandleLnurlCallback(c, ask)
       \/ \E i \in Invoices, what \in Issues :
            CreateLightningQuote(c, i, what) \/ CreateInvoice(c, i, what)
       \/ QuoteFails(c) \/ PersistQuote(c) \/ PersistFails(c)
       \/ StoreInvoice(c) \/ SatsFails(c) \/ Reply(c)
  \/ \E n \in Names : ToggleName(n) \/ SetPreference(n)
  \/ KillSwitch
  \/ Crash

Spec == Init /\ [][Next]_vars

-----------------------------------------------------------------------------
(* "Persist the invoice, quote ID and receive-request ID atomically": an    *)
(* invoice a payer can pay is on record, once, for the name and amount the  *)
(* payer asked for, and a Flashnet one has the order row by which webhooks  *)
(* and reconciler find it, whatever failed, fell back or died on the way.   *)
RevealedIsTracked ==
  \A r \in revealed : \E row \in stored :
    /\ row = [bolt11 |-> r.pr, name |-> r.ask.name, amount |-> r.ask.amount,
              order |-> issued[r.pr].by = "flashnet"]
    /\ \A other \in stored : other.bolt11 = r.pr => other = row

(* An order row, revealed or not, belongs to a quote that validated: its    *)
(* invoice is for exactly the stored amount and carries the description     *)
(* hash, so no other ever settles an account's payment.                     *)
OrderIsValidQuote ==
  \A row \in stored : row.order =>
    /\ issued[row.bolt11].by = "flashnet"
    /\ ValidQuote(issued[row.bolt11], row)
=============================================================================
