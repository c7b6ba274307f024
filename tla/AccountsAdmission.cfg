SPECIFICATION FairSpec
CONSTANTS
  Servers = {s1}
  Domains = {d1, d2}
  Users = {u1}
  Secrets = {x1}
  AgentRefs = {a1}
  PeerRefs = {p1}
  None = None
  TTL = 1
  MaxLookup = 1
  Writers = {w1}
  MaxMishaps = 1
PROPERTIES
  Admission
  LookupsConclude
