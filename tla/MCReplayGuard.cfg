SPECIFICATION Spec
CONSTANTS
  m1 = m1
  m2 = m2
  m3 = m3
  g = g
  Pubkeys = {k1, k2}
  Messages = {m1, m2, m3, g}
  Exempt = {g}
  Requests = {r1, r2}
  SignedAt <- MCSignedAt
  Skew = 1
  MaxPerPubkey = 2
  SweepThreshold = 1
  MaxTime = 6
SYMMETRY MCSymmetry
INVARIANTS
  TypeOK
  CacheExact
  BucketBounded
PROPERTY
  NoReplayInWindow
