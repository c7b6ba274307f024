SPECIFICATION Spec
CONSTANTS
  Servers = {s1}
  Requests <- Devices
  Vouched = {l1}
  Window = 0
  MaxMishaps = 0
  Users = {u1, u2}
  Hosts = {home}
  Contacts = {c1, c2}
  Unusable = {}
  Login = {l1}
  None = None
  ScaipAuthEnabled = TRUE
  UseToAsAOR = TRUE
  PatchRequestURI = TRUE
  SynthExpires = 1
  u1 = u1
  u2 = u2
  home = home
  c1 = c1
  c2 = c2
  l1 = l1
PROPERTIES
  UnregisterRemoves
