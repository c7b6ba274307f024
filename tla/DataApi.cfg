SPECIFICATION Spec
CONSTANTS
  Contexts = {x1}
  Refs = {w1, n1, d1, a1, a2, p1, p2}
  Keys = {gw, tel, dom, ann, bob, carl}
  None = None
  Generated <- Pool
  Posts <- ChainPosts
  Puts <- ChainPuts
  Deletes <- ChainDeletes
  MaxMishaps = 0
  w1 = w1
  n1 = n1
  d1 = d1
  d2 = d2
  a1 = a1
  a2 = a2
  p1 = p1
  p2 = p2
  gw = gw
  tel = tel
  dom = dom
  ann = ann
  bob = bob
  carl = carl
INVARIANTS
  TypeOK
  ReferencesHold
  KeysAreUnique
  Consistency
  ListsMatchKeys
PROPERTIES
  ImplementsResources
