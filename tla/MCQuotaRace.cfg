SPECIFICATION Spec
CONSTANTS
  ka = ka
  kb = kb
  kc = kc
  NoUser = NoUser
  NoKey = NoKey
  NoNonce = NoNonce
  PointOf <- MCPointOf
  Users = {u1}
  Usernames = {n1, n2, n3}
  Keys = {kc}
  Nonces = {c1}
  Requests = {r1, r2}
  Allowance = 1
  MaxBonus = 0
INVARIANT
  QuotaRespected
CHECK_DEADLOCK FALSE
