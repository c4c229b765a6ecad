-------------------------- MODULE MCLnurlCallback --------------------------
(* LnurlCallback with interchangeable callbacks, names and invoices.        *)
EXTENDS LnurlCallback, TLC

MCSymmetry == Permutations(Callbacks) \cup Permutations(Names)
              \cup Permutations(Invoices)
=============================================================================
