SPECIFICATION AnswersSpec
CONSTANTS
  NoUser = NoUser
  NoKey = NoKey
  NoNonce = NoNonce
  PointOf <- MCPointOf
  Users = {u1, u2}
  Usernames = {n1, n2, n3, n4}
  Keys = {ka, kc}
  Nonces = {c1, c2}
  Requests = {r1, r2}
  Allowance = 1
  MaxBonus = 1
SYMMETRY MCSymmetry
INVARIANTS
  AnswersTypeOK
  ExactlyOneActive
  OneAccountPerNonce
  KeyNamesOneAccount
  AnswersAreTrue
  InProgressIsTrue
  QuotaNotOverstated
PROPERTY
  NamesArePermanent
CHECK_DEADLOCK FALSE
