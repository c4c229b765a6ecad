------------------------- MODULE MCUsernameRegistry -------------------------
(* UsernameRegistry where the keys ka and kb are the two encodings of one   *)
(* curve point and kc is a key of its own.                                  *)
EXTENDS UsernameRegistry, TLC

CONSTANTS ka, kb, kc

MCPointOf == [k \in Keys |-> IF k = kc THEN "pointC" ELSE "pointAB"]

(* Accounts, names, nonces and requests are interchangeable; keys are not.  *)
MCSymmetry == Permutations(Users) \cup Permutations(Usernames)
              \cup Permutations(Nonces) \cup Permutations(Requests)
=============================================================================
