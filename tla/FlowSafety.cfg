SPECIFICATION Spec
SYMMETRY SymmetricCid
CONSTANTS
  c1 = c1
  c2 = c2
  m1 = m1
  m2 = m2
  s1 = s1
  Cid = {c1, c2}
  Msg = {m1, m2}
  Own = {s1}
  Quiet = {m2}
  MaxDepth = 2
  Receivers = 2
  NoCid = NoCid
INVARIANT TypeOK
INVARIANT NoDuplicates
INVARIANT NothingMissed
PROPERTY ErasedIsHidden
PROPERTY KeepsPromise
PROPERTY DeletedIsErased
