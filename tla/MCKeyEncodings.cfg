SPECIFICATION Spec
CONSTANTS
  ka = ka
  kb = kb
  kc = kc
  NoUser = NoUser
  NoKey = NoKey
  NoNonce = NoNonce
  PointOf <- MCPointOf
  Users = {u1, u2}
  Usernames = {n1, n2}
  Keys = {ka, kb}
  Nonces = {c1, c2}
  Requests = {r1, r2}
  Allowance = 1
  MaxBonus = 0
INVARIANT
  OneActiveNamePerKey
CHECK_DEADLOCK FALSE
