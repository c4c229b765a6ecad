------------------------- MODULE RefundCaseService -------------------------
(***************************************************************************)
(* The operations recovery queue, src/refund-case/refund-case.service.ts.  *)
(* There is at most one RefundCase row per invoice (its unique index), and *)
(* the model has one invoice per quote, so a row is cases[q].  markPaid    *)
(* and markAbandoned read the row, await, check, and then update it        *)
(* unconditionally; each operator request is therefore two steps, and      *)
(* ops[o] holds what the request read.                                     *)
(*                                                                         *)
(* Resolution metadata (externalRef, payeeLnAddress, resolvedAt, reason    *)
(* wording) is abstracted away: no decision of the code depends on it.     *)
(***************************************************************************)
CONSTANTS Quotes,      \* quotes, each with its one invoice
          Operators    \* concurrent requests on the operations API

VARIABLES cases,       \* refund_cases: cases[q] is the status of q's row
          ops          \* the operator requests in flight

CaseStatuses == {"NONE", "OPEN", "PAID", "ABANDONED"}   \* NONE: no row
Resolutions  == {"PAID", "ABANDONED"}

NoRequest == [pc |-> "idle"]
Requests  == {NoRequest}
             \cup [pc : {"update"}, quote : Quotes, to : Resolutions]

RCTypeOK == /\ cases \in [Quotes -> CaseStatuses]
            /\ ops \in [Operators -> Requests]

RCInit == /\ cases = [q \in Quotes |-> "NONE"]
          /\ ops = [o \in Operators |-> NoRequest]

(* Mutant: a new hold reopens a resolved case.                              *)
WithCaseReopened(q) == [cases EXCEPT ![q] = "OPEN"]

(* createRefundCase: the rows after it.  A unique violation returns the row *)
(* that is there, in whatever status it has.                                *)
WithCase(q) == IF cases[q] = "NONE" THEN [cases EXCEPT ![q] = "OPEN"] ELSE cases

(* markPaid / markAbandoned up to the await of the update: a missing row    *)
(* (404) or one that is not OPEN (400) ends the request without effect.     *)
MarkRead(o, q, to) ==
  /\ ops[o] = NoRequest
  /\ cases[q] = "OPEN"
  /\ ops' = [ops EXCEPT ![o] = [pc |-> "update", quote |-> q, to |-> to]]
  /\ UNCHANGED cases

(* The update by id, which does not look at the status again.               *)
MarkUpdate(o) ==
  /\ ops[o] # NoRequest
  /\ cases' = [cases EXCEPT ![ops[o].quote] = ops[o].to]
  /\ ops' = [ops EXCEPT ![o] = NoRequest]

MarkPaid(o, q)      == MarkRead(o, q, "PAID")
MarkAbandoned(o, q) == MarkRead(o, q, "ABANDONED")

OperatorStep == \E o \in Operators :
                  \/ \E q \in Quotes : MarkPaid(o, q) \/ MarkAbandoned(o, q)
                  \/ MarkUpdate(o)

-----------------------------------------------------------------------------
(* "Throws BadRequestException when the row is not OPEN": a case resolved   *)
(* one way is not resolved again the other way.                             *)
ResolvedIsFinal ==
  [][\A q \in Quotes : cases[q] \in Resolutions => cases'[q] = cases[q]]_cases
=============================================================================
