--------------------------- MODULE MCReplayGuard ---------------------------
(* ReplayGuard with messages signed before, within and ahead of the clock;  *)
(* g is a read.                                                             *)
EXTENDS ReplayGuard, TLC

CONSTANTS m1, m2, m3, g

MCSignedAt == [m \in Messages |-> IF m = m1 THEN 1 ELSE IF m = m2 THEN 3 ELSE 2]

MCSymmetry == Permutations(Pubkeys) \cup Permutations(Requests)
=============================================================================
