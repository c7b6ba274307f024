SPECIFICATION FairSpec
CONSTANTS
  Servers = {s1}
  Requests <- Strangers
  Vouched = {l1}
  Window = 0
  MaxMishaps = 1
  Users = {u1, u2}
  Hosts = {home}
  Contacts = {c1, c2}
  Unusable = {c2}
  Login = {l1}
  None = None
  ScaipAuthEnabled = FALSE
  UseToAsAOR = TRUE
  PatchRequestURI = FALSE
  SynthExpires = 1
  u1 = u1
  u2 = u2
  home = home
  c1 = c1
  c2 = c2
  l1 = l1
PROPERTIES
  ImplementsLocationService
  HandlersFinish
  Registered
