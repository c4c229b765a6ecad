--------------------------- MODULE MCSwapService ---------------------------
(* SwapService with two payments and two provider orders.  An event may     *)
(* name either order with either quote or none, so conflicting bindings,    *)
(* mismatches and events for unknown orders all occur.  A second completion *)
(* reports another amount, later failures carry a text that does not fit.   *)
EXTENDS SwapService

CONSTANTS q1, q2, o1, o2, a1, a2

Told(es, ts, ids, qs, out, text) ==
  [event : es, ts : {ts}, id : ids, quote : qs, out : {out}, text : {text}]

MCPayloads ==
  Told({"completed"}, 1, OrderIds, Quotes \cup {NoQuote}, a1, "short")
  \cup Told({RecoveryEvent}, 1, {o1}, Quotes, NoAmount, "none")
  \cup Told({"refunding"}, 1, {o2}, Quotes, NoAmount, "short")
  \cup Told({"failed"}, 1, {o1}, {q1}, NoAmount, "short")
  \cup Told({"completed"}, 2, {o1}, {q1}, a2, "none")
  \cup Told({"failed"}, 2, {o2}, {q2}, NoAmount, "mid")
  \cup Told({UnknownEvent}, 1, {o1}, {q2}, NoAmount, "none")
=============================================================================
