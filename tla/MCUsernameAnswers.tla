------------------------- MODULE MCUsernameAnswers -------------------------
(* UsernameAnswers on keys of their own, all of it interchangeable but the  *)
(* keys.                                                                    *)
EXTENDS UsernameAnswers, TLC

MCPointOf  == [k \in Keys |-> k]
MCSymmetry == Permutations(Users) \cup Permutations(Usernames)
              \cup Permutations(Nonces) \cup Permutations(Requests)
=============================================================================
