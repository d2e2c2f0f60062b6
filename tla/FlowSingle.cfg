SPECIFICATION FairSpec
CONSTANTS
  c1 = c1
  c2 = c2
  m1 = m1
  m2 = m2
  Cid = {c1, c2}
  Msg = {m1, m2}
  Own = {}
  Quiet = {}
  MaxDepth = 2
  Receivers = 1
  NoCid = NoCid
INVARIANT ListOrder
PROPERTY EventuallyListed
