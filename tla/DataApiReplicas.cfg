SPECIFICATION FairSpec
CONSTANTS
  Contexts = {x1, x2}
  Refs = {d1, d2, a1}
  Keys = {dom, ann}
  None = None
  Generated <- Pool
  Posts <- PairPosts
  Puts <- PairPuts
  Deletes <- PairDeletes
  MaxMishaps = 1
  w1 = w1
  n1 = n1
  d1 = d1
  d2 = d2
  a1 = a1
  a2 = a2
  p1 = p1
  p2 = p2
  gw = gw
  tel = tel
  dom = dom
  ann = ann
  bob = bob
  carl = carl
INVARIANTS
  DanglingIsTransient
PROPERTIES
  ImplementsEntityStore
  RefusalsHaveCause
