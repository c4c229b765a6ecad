------------------------ MODULE LnurlCallbackProofs ------------------------
(***************************************************************************)
(* Proofs about the LNURL-pay callback, for any number of callbacks in     *)
(* flight, names, amounts and invoices.  The two properties are about rows *)
(* and answers; the invariant adds what a callback knows of the invoice it *)
(* holds on the way from the issuer to the payer.                          *)
(***************************************************************************)
EXTENDS LnurlCallback, TLAPS

Holds(c) == cb[c].pc \in {"persist", "store", "reply"}

(* An invoice in hand is one the issuer made, and one callback has it.      *)
HeldIssued == \A c \in Callbacks : Holds(c) =>
  cb[c].pr \in Invoices /\ issued[cb[c].pr] # Unissued
HeldOnce == \A c, d \in Callbacks : Holds(c) /\ Holds(d) /\ cb[c].pr = cb[d].pr => c = d

(* Before it is stored there is no row for it; a quote is valid by then.    *)
NotStored == \A c \in Callbacks : cb[c].pc \in {"persist", "store"} =>
  \A row \in stored : row.bolt11 # cb[c].pr
FromIssuer == \A c \in Callbacks :
  /\ At(c, "persist") => /\ issued[cb[c].pr].by = "flashnet"
                         /\ ValidQuote(issued[cb[c].pr], cb[c].ask)
  /\ At(c, "store") => issued[cb[c].pr].by = "spark"

(* Afterwards there is.                                                     *)
IsStored == \A c \in Callbacks : At(c, "reply") =>
  Row(c, issued[cb[c].pr].by = "flashnet") \in stored

RowsIssued == \A row \in stored : issued[row.bolt11] # Unissued
RowsUnique == \A row, other \in stored : row.bolt11 = other.bolt11 => row = other

(* A revealed invoice has its row; that it is the only one is RowsUnique.   *)
HasRow == \A r \in revealed :
  [bolt11 |-> r.pr, name |-> r.ask.name, amount |-> r.ask.amount,
   order |-> issued[r.pr].by = "flashnet"] \in stored

(* The inductive invariant.                                                 *)
CallbackInv == /\ TypeOK
               /\ HeldIssued /\ HeldOnce /\ NotStored /\ FromIssuer /\ IsStored
               /\ RowsIssued /\ RowsUnique /\ HasRow
               /\ OrderIsValidQuote

-----------------------------------------------------------------------------
(* What Go does to the table of callbacks.                                  *)
LEMMA GoEffect ==
  ASSUME TypeOK, NEW c \in Callbacks, cb[c].pc # "idle",
         NEW pc \in {"quote", "persist", "sats", "store", "reply"},
         NEW i \in Invoices \cup {NoInvoice}, Go(c, pc, i)
  PROVE  /\ cb' \in [Callbacks -> Running \cup {Idle}]
         /\ cb'[c] = [pc |-> pc, ask |-> cb[c].ask, pr |-> i]
         /\ cb[c] \in Running
         /\ \A d \in Callbacks \ {c} : cb'[d] = cb[d]
<1>1. cb[c] \in Running /\ cb \in [Callbacks -> Running \cup {Idle}]
  BY DEF TypeOK, Idle
<1>2. [pc |-> pc, ask |-> cb[c].ask, pr |-> i] \in Running
  BY <1>1 DEF Running
<1> QED  BY <1>1, <1>2 DEF Go

(* Callbacks that start, lose their invoice or end, however many at once.   *)
LEMMA ReleaseKeepsInv ==
  ASSUME CallbackInv, UNCHANGED <<issued, stored, revealed>>, TypeOK',
         \A d \in Callbacks : cb'[d] = cb[d] \/ cb'[d].pc \in {"idle", "quote", "sats"}
  PROVE  CallbackInv'
<1>1. \A d \in Callbacks : Holds(d)' => cb'[d] = cb[d]
  BY DEF Holds
<1>2. HeldIssued' /\ HeldOnce'
  BY <1>1 DEF CallbackInv, HeldIssued, HeldOnce, Holds
<1>3. NotStored' /\ FromIssuer'
  BY <1>1 DEF CallbackInv, NotStored, FromIssuer, Holds, At, ValidQuote
<1>4. IsStored'
  BY <1>1 DEF CallbackInv, IsStored, Holds, At, Row
<1>5. RowsIssued' /\ RowsUnique' /\ HasRow' /\ OrderIsValidQuote'
  BY DEF CallbackInv, RowsIssued, RowsUnique, HasRow, OrderIsValidQuote, ValidQuote
<1> QED  BY <1>2, <1>3, <1>4, <1>5 DEF CallbackInv

(* An issuer makes a new invoice; the callback goes on with it or without.  *)
LEMMA IssueKeepsInv ==
  ASSUME CallbackInv, NEW c \in Callbacks, NEW i \in Invoices, NEW what \in Issues,
         cb[c].pc \in {"quote", "sats"}, NewInvoice(i, what),
         UNCHANGED <<active, usdb, enabled, stored, revealed>>,
         \/ Go(c, "persist", i) /\ what.by = "flashnet" /\ ValidQuote(what, cb[c].ask)
         \/ Go(c, "store", i) /\ what.by = "spark"
         \/ Go(c, "sats", NoInvoice)
  PROVE  CallbackInv'
<1>1. TypeOK
  BY DEF CallbackInv
<1>2. PICK pc \in {"persist", "store", "sats"} :
        /\ Go(c, pc, IF pc = "sats" THEN NoInvoice ELSE i)
        /\ pc = "persist" => what.by = "flashnet" /\ ValidQuote(what, cb[c].ask)
        /\ pc = "store" => what.by = "spark"
  OBVIOUS
<1>3. /\ cb' \in [Callbacks -> Running \cup {Idle}]
      /\ cb'[c] = [pc |-> pc, ask |-> cb[c].ask, pr |-> IF pc = "sats" THEN NoInvoice ELSE i]
      /\ \A d \in Callbacks \ {c} : cb'[d] = cb[d]
  BY <1>1, <1>2, GoEffect
<1>4. /\ issued[i] = Unissued /\ issued' \in [Invoices -> Issues \cup {Unissued}]
      /\ issued'[i] = what /\ what # Unissued
      /\ \A j \in Invoices \ {i} : issued'[j] = issued[j]
  BY <1>1 DEF NewInvoice, TypeOK, Issues, Unissued
<1>5. TypeOK'
  BY <1>1, <1>3, <1>4 DEF TypeOK
<1>6. \A d \in Callbacks : Holds(d) => cb[d].pr \in Invoices \ {i}
  BY <1>4 DEF CallbackInv, HeldIssued
<1>7. \A row \in stored : row.bolt11 \in Invoices \ {i}
  BY <1>1, <1>4 DEF CallbackInv, RowsIssued, TypeOK, Rows
<1>8. HeldIssued'
  BY <1>3, <1>4, <1>6 DEF CallbackInv, HeldIssued, Holds
<1>9. HeldOnce'
  BY <1>3, <1>6 DEF CallbackInv, HeldOnce, Holds
<1>10. NotStored'
  BY <1>3, <1>7 DEF CallbackInv, NotStored
<1>11. FromIssuer'
  BY <1>2, <1>3, <1>4, <1>6 DEF CallbackInv, FromIssuer, Holds, At, ValidQuote
<1>12. IsStored'
  BY <1>3, <1>4, <1>6 DEF CallbackInv, IsStored, Holds, At, Row
<1>13. RowsIssued' /\ RowsUnique' /\ OrderIsValidQuote'
  BY <1>4, <1>7 DEF CallbackInv, RowsIssued, RowsUnique, OrderIsValidQuote, ValidQuote
<1>14. HasRow'
  <2>1. \A r \in revealed : r.pr \in Invoices \ {i}
    BY <1>7 DEF CallbackInv, HasRow
  <2> QED  BY <1>4, <2>1 DEF CallbackInv, HasRow
<1> QED
  BY <1>5, <1>8, <1>9, <1>10, <1>11, <1>12, <1>13, <1>14 DEF CallbackInv

(* The row of the invoice in hand is stored; the callback goes on to the    *)
(* answer, or, when the commit went unnoticed, to the sats route.           *)
LEMMA StoreKeepsInv ==
  ASSUME CallbackInv, NEW c \in Callbacks, NEW o \in BOOLEAN,
         \/ o = TRUE /\ At(c, "persist")
         \/ o = FALSE /\ At(c, "store"),
         stored' = stored \cup {Row(c, o)},
         UNCHANGED <<active, usdb, enabled, issued, revealed>>,
         Go(c, "reply", cb[c].pr) \/ Go(c, "sats", NoInvoice)
  PROVE  CallbackInv'
<1>1. TypeOK
  BY DEF CallbackInv
<1>2. PICK i : i = cb[c].pr
  OBVIOUS
<1>3. PICK ask : ask = cb[c].ask
  OBVIOUS
<1>4. Holds(c) /\ i \in Invoices /\ issued[i] # Unissued /\ cb[c].pc # "idle"
  BY <1>2 DEF CallbackInv, HeldIssued, Holds, At
<1>5. PICK pc \in {"reply", "sats"}, j \in Invoices \cup {NoInvoice} :
        Go(c, pc, j) /\ (pc = "reply" => j = i)
  BY <1>2, <1>4
<1>6. /\ cb' \in [Callbacks -> Running \cup {Idle}]
      /\ cb'[c] = [pc |-> pc, ask |-> ask, pr |-> j]
      /\ cb[c] \in Running
      /\ \A d \in Callbacks \ {c} : cb'[d] = cb[d]
  BY <1>1, <1>3, <1>4, <1>5, GoEffect
<1>7. PICK row : /\ row = [bolt11 |-> i, name |-> ask.name, amount |-> ask.amount, order |-> o]
                 /\ row \in Rows
  <2>1. ask \in Asked
    BY <1>3, <1>6 DEF Running
  <2>2. [bolt11 |-> i, name |-> ask.name, amount |-> ask.amount, order |-> o] \in Rows
    BY <1>4, <2>1 DEF Asked, Rows
  <2> QED  BY <2>2
<1>8. stored' = stored \cup {row}
  BY <1>2, <1>3, <1>7 DEF Row
<1>9. TypeOK'
  BY <1>1, <1>6, <1>7, <1>8 DEF TypeOK
<1>10. /\ o = (issued[i].by = "flashnet")
       /\ o => ValidQuote(issued[i], ask)
  BY <1>2, <1>3 DEF CallbackInv, FromIssuer, At
<1>11. \A r \in stored : r.bolt11 # i
  BY <1>2 DEF CallbackInv, NotStored, At
<1>12. \A d \in Callbacks \ {c} : Holds(d) => cb[d].pr # i
  BY <1>2, <1>4 DEF CallbackInv, HeldOnce
<1>13. HeldIssued' /\ HeldOnce'
  BY <1>4, <1>5, <1>6, <1>12 DEF CallbackInv, HeldIssued, HeldOnce, Holds
<1>14. NotStored'
  BY <1>5, <1>6, <1>7, <1>8, <1>12 DEF CallbackInv, NotStored, Holds
<1>15. FromIssuer'
  BY <1>5, <1>6 DEF CallbackInv, FromIssuer, At, ValidQuote
<1>16. IsStored'
  BY <1>5, <1>6, <1>7, <1>8, <1>10 DEF CallbackInv, IsStored, At, Row
<1>17. RowsIssued' /\ RowsUnique'
  BY <1>4, <1>7, <1>8, <1>11 DEF CallbackInv, RowsIssued, RowsUnique
<1>18. HasRow'
  BY <1>8 DEF CallbackInv, HasRow
<1>19. OrderIsValidQuote'
  <2>1. /\ row.order = o /\ row.bolt11 = i /\ row.amount = ask.amount
    BY <1>7
  <2>2. row.order => issued[row.bolt11].by = "flashnet" /\ ValidQuote(issued[row.bolt11], row)
    BY <1>10, <2>1 DEF ValidQuote
  <2> QED  BY <1>8, <2>2 DEF CallbackInv, OrderIsValidQuote, ValidQuote
<1> QED
  BY <1>9, <1>13, <1>14, <1>15, <1>16, <1>17, <1>18, <1>19 DEF CallbackInv

(* The invoice reaches the payer.                                           *)
LEMMA ReplyKeepsInv ==
  ASSUME CallbackInv, NEW c \in Callbacks, Reply(c)
  PROVE  CallbackInv'
<1>1. TypeOK
  BY DEF CallbackInv
<1>2. cb[c] \in Running /\ cb[c].pr \in Invoices
  BY <1>1 DEF Reply, At, TypeOK, Idle, CallbackInv, HeldIssued, Holds
<1>3. PICK r \in [pr : Invoices, ask : Asked] : r = [pr |-> cb[c].pr, ask |-> cb[c].ask]
  BY <1>2 DEF Running
<1>4. revealed' = revealed \cup {r} /\ UNCHANGED <<active, usdb, enabled, issued, stored>>
  BY <1>3 DEF Reply
<1>5. /\ cb' \in [Callbacks -> Running \cup {Idle}] /\ cb'[c].pc = "idle"
      /\ \A d \in Callbacks \ {c} : cb'[d] = cb[d]
  BY <1>1 DEF Reply, Stop, TypeOK, Idle
<1>6. TypeOK'
  BY <1>1, <1>4, <1>5 DEF TypeOK
<1>7. HasRow'
  BY <1>3, <1>4 DEF CallbackInv, HasRow, IsStored, Reply, At, Row
<1>8. HeldIssued' /\ HeldOnce'
  BY <1>4, <1>5 DEF CallbackInv, HeldIssued, HeldOnce, Holds
<1>9. NotStored' /\ FromIssuer'
  BY <1>4, <1>5 DEF CallbackInv, NotStored, FromIssuer, At, ValidQuote
<1>10. IsStored'
  BY <1>4, <1>5 DEF CallbackInv, IsStored, At, Row
<1>11. RowsIssued' /\ RowsUnique' /\ OrderIsValidQuote'
  BY <1>4 DEF CallbackInv, RowsIssued, RowsUnique, OrderIsValidQuote, ValidQuote
<1> QED
  BY <1>6, <1>7, <1>8, <1>9, <1>10, <1>11 DEF CallbackInv

-----------------------------------------------------------------------------
(* Before the first callback nothing is in a hand.                          *)
LEMMA InitCallback == Init => CallbackInv
<1> SUFFICES ASSUME Init PROVE CallbackInv
  OBVIOUS
<1>1. TypeOK
  BY DEF Init, TypeOK
<1>2. \A c \in Callbacks : cb[c].pc = "idle"
  BY DEF Init, Idle
<1> QED
  BY <1>1, <1>2 DEF Init, CallbackInv, HeldIssued, HeldOnce, Holds, NotStored, FromIssuer,
     At, IsStored, RowsIssued, RowsUnique, HasRow, OrderIsValidQuote

(* Every step of a callback keeps the invariant.                            *)
LEMMA NextCallback == CallbackInv /\ [Next]_vars => CallbackInv'
<1> SUFFICES ASSUME CallbackInv, [Next]_vars PROVE CallbackInv'
  OBVIOUS
<1>0. TypeOK
  BY DEF CallbackInv
<1>1. ASSUME NEW c \in Callbacks, NEW ask \in Asked, HandleLnurlCallback(c, ask)
      PROVE  CallbackInv'
  <2>1. PICK pc \in {"quote", "sats"} :
          cb' = [cb EXCEPT ![c] = [pc |-> pc, ask |-> ask, pr |-> NoInvoice]]
    BY <1>1 DEF HandleLnurlCallback
  <2>2. [pc |-> pc, ask |-> ask, pr |-> NoInvoice] \in Running
    BY DEF Running
  <2>3. /\ cb' \in [Callbacks -> Running \cup {Idle}]
        /\ \A d \in Callbacks : cb'[d] = cb[d] \/ cb'[d].pc \in {"idle", "quote", "sats"}
    BY <1>0, <2>1, <2>2 DEF TypeOK
  <2>4. TypeOK'
    BY <1>0, <1>1, <2>3 DEF TypeOK, HandleLnurlCallback
  <2> QED  BY <1>1, <2>3, <2>4, ReleaseKeepsInv DEF HandleLnurlCallback
<1>2. ASSUME NEW c \in Callbacks, NEW i \in Invoices, NEW what \in Issues,
             CreateLightningQuote(c, i, what)
      PROVE  CallbackInv'
  BY <1>2, IssueKeepsInv DEF CreateLightningQuote, At
<1>3. ASSUME NEW c \in Callbacks, NEW i \in Invoices, NEW what \in Issues,
             CreateInvoice(c, i, what)
      PROVE  CallbackInv'
  BY <1>3, IssueKeepsInv DEF CreateInvoice, At
<1>4. ASSUME NEW c \in Callbacks, cb[c].pc # "idle", Go(c, "sats", NoInvoice),
             UNCHANGED <<active, usdb, enabled, issued, stored, revealed>>
      PROVE  CallbackInv'
  <2>1. /\ cb' \in [Callbacks -> Running \cup {Idle}]
        /\ \A d \in Callbacks : cb'[d] = cb[d] \/ cb'[d].pc \in {"idle", "quote", "sats"}
    <3>1. /\ "sats" \in {"quote", "persist", "sats", "store", "reply"}
          /\ NoInvoice \in Invoices \cup {NoInvoice}
      OBVIOUS
    <3>2. /\ cb' \in [Callbacks -> Running \cup {Idle}]
          /\ cb'[c] = [pc |-> "sats", ask |-> cb[c].ask, pr |-> NoInvoice]
          /\ \A d \in Callbacks \ {c} : cb'[d] = cb[d]
      BY <1>0, <1>4, <3>1, GoEffect
    <3> QED  BY <3>2
  <2>2. TypeOK'
    BY <1>0, <1>4, <2>1 DEF TypeOK
  <2> QED  BY <1>4, <2>1, <2>2, ReleaseKeepsInv
<1>5. ASSUME NEW c \in Callbacks, QuoteFails(c) PROVE CallbackInv'
  BY <1>4, <1>5 DEF QuoteFails, At
<1>6. ASSUME NEW c \in Callbacks, PersistQuote(c) PROVE CallbackInv'
  BY <1>6, StoreKeepsInv DEF PersistQuote
<1>7. ASSUME NEW c \in Callbacks, PersistFails(c) PROVE CallbackInv'
  <2>1. CASE stored' = stored
    BY <1>4, <1>7, <2>1 DEF PersistFails, At
  <2>2. CASE stored' = stored \cup {Row(c, TRUE)}
    BY <1>7, <2>2, StoreKeepsInv DEF PersistFails
  <2> QED  BY <1>7, <2>1, <2>2 DEF PersistFails
<1>8. ASSUME NEW c \in Callbacks, StoreInvoice(c) PROVE CallbackInv'
  BY <1>8, StoreKeepsInv DEF StoreInvoice
<1>9. ASSUME NEW c \in Callbacks, SatsFails(c) PROVE CallbackInv'
  <2>1. /\ cb' \in [Callbacks -> Running \cup {Idle}]
        /\ \A d \in Callbacks : cb'[d] = cb[d] \/ cb'[d].pc \in {"idle", "quote", "sats"}
    BY <1>0, <1>9 DEF SatsFails, Stop, TypeOK, Idle
  <2>2. TypeOK'
    BY <1>0, <1>9, <2>1 DEF TypeOK, SatsFails
  <2> QED  BY <1>9, <2>1, <2>2, ReleaseKeepsInv DEF SatsFails
<1>10. ASSUME NEW c \in Callbacks, Reply(c) PROVE CallbackInv'
  BY <1>10, ReplyKeepsInv
<1>11. CASE Crash
  <2>1. /\ cb' \in [Callbacks -> Running \cup {Idle}]
        /\ \A d \in Callbacks : cb'[d].pc = "idle"
    BY <1>11 DEF Crash, Idle
  <2>2. TypeOK'
    BY <1>0, <1>11, <2>1 DEF TypeOK, Crash
  <2> QED  BY <1>11, <2>1, <2>2, ReleaseKeepsInv DEF Crash
<1>12. ASSUME NEW n \in Names, ToggleName(n) \/ SetPreference(n) PROVE CallbackInv'
  <2>1. TypeOK' /\ UNCHANGED <<issued, stored, cb, revealed>>
    BY <1>0, <1>12 DEF TypeOK, ToggleName, SetPreference
  <2> QED  BY <2>1, ReleaseKeepsInv
<1>13. CASE KillSwitch
  <2>1. TypeOK' /\ UNCHANGED <<issued, stored, cb, revealed>>
    BY <1>0, <1>13 DEF TypeOK, KillSwitch
  <2> QED  BY <2>1, ReleaseKeepsInv
<1>14. CASE UNCHANGED vars
  <2>1. TypeOK' /\ UNCHANGED <<issued, stored, cb, revealed>>
    BY <1>0, <1>14 DEF TypeOK, vars
  <2> QED  BY <2>1, ReleaseKeepsInv
<1> QED
  BY <1>1, <1>2, <1>3, <1>5, <1>6, <1>7, <1>8, <1>9, <1>10, <1>11, <1>12, <1>13, <1>14
     DEF Next

-----------------------------------------------------------------------------
(* The invariant above holds in every state of the callback path of         *)
(* lnurl.controller.ts.                                                     *)
THEOREM CallbackInvariant == Spec => []CallbackInv
BY InitCallback, NextCallback, PTL DEF Spec

(* Type correctness of the callbacks, rows and answers.                     *)
THEOREM TypeCorrect == Spec => []TypeOK
<1>1. CallbackInv => TypeOK
  BY DEF CallbackInv
<1> QED  BY <1>1, CallbackInvariant, PTL

(* An invoice handed to a payer by handleLnurlCallback has exactly one row, *)
(* with the order row when Flashnet issued it.                              *)
THEOREM Tracked == Spec => []RevealedIsTracked
<1>1. CallbackInv => RevealedIsTracked
  <2> SUFFICES ASSUME CallbackInv, NEW r \in revealed
               PROVE  \E row \in stored :
                 /\ row = [bolt11 |-> r.pr, name |-> r.ask.name, amount |-> r.ask.amount,
                           order |-> issued[r.pr].by = "flashnet"]
                 /\ \A other \in stored : other.bolt11 = r.pr => other = row
    BY DEF RevealedIsTracked
  <2>1. PICK row \in stored :
          row = [bolt11 |-> r.pr, name |-> r.ask.name, amount |-> r.ask.amount,
                 order |-> issued[r.pr].by = "flashnet"]
    BY DEF CallbackInv, HasRow
  <2> QED  BY <2>1 DEF CallbackInv, RowsUnique
<1> QED  BY <1>1, CallbackInvariant, PTL

(* initiateLightningQuote stores an order only for a quote that validated.  *)
THEOREM ValidOrders == Spec => []OrderIsValidQuote
<1>1. CallbackInv => OrderIsValidQuote
  BY DEF CallbackInv
<1> QED  BY <1>1, CallbackInvariant, PTL
=============================================================================
