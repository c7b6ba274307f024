SPECIFICATION Spec
CONSTANTS
  Servers = {s1, s2}
  Requests <- Traffic
  Vouched = {l1}
  Window = 0
  MaxMishaps = 1
  Users = {u1, u2}
  Hosts = {home}
  Contacts = {c1, c2}
  Unusable = {}
  Login = {l1}
  None = None
  ScaipAuthEnabled = TRUE
  UseToAsAOR = FALSE
  PatchRequestURI = TRUE
  SynthExpires = 1
  u1 = u1
  u2 = u2
  home = home
  c1 = c1
  c2 = c2
  l1 = l1
INVARIANTS
  TypeOK
  PromisesKept
PROPERTIES
  ImplementsLocationService
