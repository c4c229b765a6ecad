------------------------- MODULE OrderStateMachine -------------------------
(***************************************************************************)
(* The FlashnetOrder status machine of src/swap/swap-state-machine.ts: the *)
(* statuses, the table of legal transitions, the classifier the event      *)
(* handler consults, and the mapping from the provider's wire events.      *)
(* Everything here is constant-level; SwapService holds the state.         *)
(***************************************************************************)

Terminal == {"DELIVERED", "REFUNDED", "FAILED", "EXPIRED"}

Statuses ==
  {"PENDING_PAYMENT", "PROCESSING", "CONFIRMING", "BRIDGING", "SWAPPING",
   "AWAITING_APPROVAL", "PAUSED", "REFUNDING", "DELIVERING", "UNFULFILLED"}
  \cup Terminal

(* ALLOWED_TRANSITIONS.  The local status may move from s to any member of  *)
(* AllowedFrom(s); terminal statuses have no successor.                     *)
AllowedFrom(s) ==
  CASE s = "PENDING_PAYMENT"   -> {"PROCESSING"}
    [] s = "PROCESSING"        -> Statuses \ {"PENDING_PAYMENT", "PROCESSING"}
    [] s = "CONFIRMING"        -> {"BRIDGING", "SWAPPING", "REFUNDING", "PAUSED",
                                   "DELIVERING"} \cup Terminal
    [] s = "BRIDGING"          -> {"SWAPPING", "PAUSED", "DELIVERING", "DELIVERED",
                                   "FAILED", "REFUNDED"}
    [] s = "SWAPPING"          -> {"AWAITING_APPROVAL", "PAUSED", "REFUNDING",
                                   "BRIDGING", "DELIVERING", "DELIVERED",
                                   "FAILED", "REFUNDED"}
    [] s = "AWAITING_APPROVAL" -> {"PROCESSING", "CONFIRMING", "SWAPPING",
                                   "REFUNDING", "PAUSED", "FAILED", "REFUNDED"}
    [] s = "PAUSED"            -> {"PROCESSING", "FAILED"}
    [] s = "REFUNDING"         -> {"PAUSED", "REFUNDED", "FAILED"}
    [] s = "DELIVERING"        -> {"CONFIRMING", "PAUSED", "REFUNDING", "DELIVERED",
                                   "FAILED", "REFUNDED"}
    [] s = "UNFULFILLED"       -> {"CONFIRMING", "BRIDGING", "SWAPPING",
                                   "DELIVERING", "DELIVERED"}
    [] OTHER                   -> {}

(* classifyTransition: redelivery, stale or illegal, legal.                 *)
ClassifyTransition(current, next) ==
  IF current = next THEN "noop"
  ELSE IF next \in AllowedFrom(current) THEN "apply" ELSE "skip"

(* The events of mapEventToStatus, without their "order." prefix.           *)
StatusEvents ==
  {"paused", "expired", "processing", "confirming", "bridging", "swapping",
   "awaiting_approval", "refunding", "delivering", "completed", "failed",
   "unfulfilled", "refunded"}

(* mapEventToStatus on a known event; the handler throws on any other.      *)
MapEventToStatus(e) ==
  CASE e = "paused"            -> "PAUSED"
    [] e = "expired"           -> "EXPIRED"
    [] e = "processing"        -> "PROCESSING"
    [] e = "confirming"        -> "CONFIRMING"
    [] e = "bridging"          -> "BRIDGING"
    [] e = "swapping"          -> "SWAPPING"
    [] e = "awaiting_approval" -> "AWAITING_APPROVAL"
    [] e = "refunding"         -> "REFUNDING"
    [] e = "delivering"        -> "DELIVERING"
    [] e = "completed"         -> "DELIVERED"
    [] e = "failed"            -> "FAILED"
    [] e = "unfulfilled"       -> "UNFULFILLED"
    [] e = "refunded"          -> "REFUNDED"

(* The event that announces a status, the inverse of MapEventToStatus.      *)
EventOf(s) == CHOOSE e \in StatusEvents : MapEventToStatus(e) = s

(* Mutants: a terminal event wins from every status, settled ones included; *)
(* and the table alone decides.                                             *)
DecideTerminalWins(s, t) == IF t \in Terminal THEN "apply" ELSE ClassifyTransition(s, t)
DecideByTable(s, t) ==
  ClassifyTransition(IF s = "PENDING_PAYMENT" /\ t # "PROCESSING"
                     THEN "PROCESSING" ELSE s, t)

(* The decision applyWebhookEvent takes for an order in status s told of    *)
(* status t.  A row never seen funded is treated as processing, so that the *)
(* first event to arrive may be any of them, and a terminal status wins     *)
(* from every status that is not terminal, whatever the table says.         *)
Decide(s, t) ==
  LET current == IF s = "PENDING_PAYMENT" /\ t # "PROCESSING"
                 THEN "PROCESSING" ELSE s
  IN  IF current \notin Terminal /\ t \in Terminal
      THEN "apply" ELSE ClassifyTransition(current, t)
=============================================================================
