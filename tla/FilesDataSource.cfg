SPECIFICATION FairSpec
CONSTANTS
  Factors = {gw, tel, dom, ann}
  Refs = {r1, r2, r3, r4}
  Hash <- Hashes
  None = None
  Missing = Missing
  Broken = Broken
  Original <- Files
  Drafts <- Edits
  TTL = 2
  MaxEdits = 2
  gw = gw
  tel = tel
  dom = dom
  ann = ann
  r1 = r1
  r2 = r2
  r3 = r3
  r4 = r4
INVARIANTS
  TypeOK
  ReadyIsConsistent
PROPERTIES
  EditsAreSeen
CHECK_DEADLOCK FALSE
