SPECIFICATION Spec
CONSTANTS
  Servers = {s1}
  Domains = {d1}
  Users = {u1}
  Secrets = {x1, x2}
  AgentRefs = {a1}
  PeerRefs = {p1}
  None = None
  TTL = 2
  MaxLookup = 1
  Writers = {w1, w2}
  MaxMishaps = 1
SYMMETRY Interchangeable
INVARIANTS
  TypeOK
  Evidence
  Presence
PROPERTIES
  GrantsAreRecent
  RefusalsAreRecent
  ImplementsDirectory
