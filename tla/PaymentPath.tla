---------------------------- MODULE PaymentPath ----------------------------
(***************************************************************************)
(* A payment from the payer's request to its settlement: the callbacks of  *)
(* LnurlCallback and the settlement of module Settlement in one process.   *)
(* The invoices of Flashnet are the quotes.  The transaction that stores a *)
(* quote is one step of both, and so is a crash.  Nothing is assumed of    *)
(* the payer but that it can only pay an invoice it was given.  Settings   *)
(* that route callbacks stay as they are, and operators, who only resolve  *)
(* cases, do nothing.                                                      *)
(***************************************************************************)
EXTENDS Settlement

CONSTANTS Callbacks, Names, Sats, SatsInvoices, NoInvoice

ASSUME PathAssumption == SatsInvoices \cap Quotes = {} /\ NoInvoice \notin Quotes \cup SatsInvoices

VARIABLES active, usdb, enabled, issued, stored, cb, revealed

Callback == INSTANCE LnurlCallback WITH Amounts <- Sats, Invoices <- Quotes \cup SatsInvoices

settlementOnly == <<provider, net, rec, faults>>
callbackVars == <<active, usdb, enabled, issued, stored, cb, revealed>>
pathVars == <<settlementVars, callbackVars>>

PathInit == SettlementInit /\ Callback!Init

-----------------------------------------------------------------------------
Given(i) == \E r \in revealed : r.pr = i

(* The transaction of initiateLightningQuote, seen from both sides; it may  *)
(* also fail, or commit and the answer be lost.                             *)
StoreQuote(c) ==
  \/ /\ Callback!PersistQuote(c) \/ Callback!PersistFails(c)
     /\ stored' # stored
     /\ InitiateLightningQuote(cb[c].pr)
     /\ UNCHANGED settlementOnly
  \/ /\ Callback!PersistFails(c) /\ UNCHANGED stored
     /\ UNCHANGED settlementVars

CallbackStep(c) ==
  /\ \/ \E ask \in Callback!Asked : Callback!HandleLnurlCallback(c, ask)
     \/ \E what \in Callback!Issues :
          \/ \E i \in Quotes : Callback!CreateLightningQuote(c, i, what)
          \/ \E i \in SatsInvoices : Callback!CreateInvoice(c, i, what)
     \/ Callback!QuoteFails(c) \/ Callback!StoreInvoice(c) \/ Callback!SatsFails(c)
     \/ Callback!Reply(c)
  /\ UNCHANGED settlementVars

(* The payer pays, and the order goes its way.                              *)
Pay(q) == Given(q) /\ OrderMoves(q) /\ UNCHANGED callbackVars

(* The rest of the settlement does not see the callbacks.                   *)
SettlementStep ==
  /\ \/ \E q \in Quotes : Reconcile(q) \/ RecDefer(q)
     \/ \E p \in net : HandleWebhook(p)
     \/ RecQuery
  /\ UNCHANGED callbackVars

ProcessCrash == Crash /\ cb' = [c \in Callbacks |-> Callback!Idle]
                /\ UNCHANGED <<active, usdb, enabled, issued, stored, revealed>>

PathNext == \/ \E c \in Callbacks : CallbackStep(c) \/ StoreQuote(c)
            \/ \E q \in Quotes : Pay(q)
            \/ SettlementStep
            \/ ProcessCrash

PathSpec == /\ PathInit /\ [][PathNext]_pathVars
            /\ WF_pathVars(RecQuery /\ UNCHANGED callbackVars)
            /\ \A q \in Quotes : WF_pathVars(Reconcile(q) /\ UNCHANGED callbackVars)

-----------------------------------------------------------------------------
(* "Persist the invoice, quote ID and receive-request ID atomically": with  *)
(* callbacks that fail, fall back and die at any step, no payment reaches   *)
(* the settlement before its order row is there; the whole path is a        *)
(* behaviour of module Settlement, whose assumption this was.               *)
ImplementsSettlement == SettlementSafety
=============================================================================
