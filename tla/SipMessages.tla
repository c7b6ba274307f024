---------------------------- MODULE SipMessages -----------------------------
(***************************************************************************)
(* What the SIP server reads of a request, and the keys under which it     *)
(* stores and looks for the location of a device.                          *)
(***************************************************************************)
EXTENDS Naturals

CONSTANTS
  Users,             \* user parts of SIP URIs
  Hosts,             \* host parts
  Contacts,          \* where a device is reached: its Contact URI, with the
                     \* address its request was received from
  Unusable,          \* the contacts that aorAsObj cannot take apart: those
                     \* with no user part, and those of sips:
  Login,             \* digest logins
  None,              \* an absent header, user part, binding...
  ScaipAuthEnabled,  \* config.spec.ex_scaipAuthEnabled
  UseToAsAOR,        \* config.spec.useToAsAOR
  PatchRequestURI,   \* config.spec.patchRequestURI
  SynthExpires       \* ticks a synthetic registration lives (30 seconds)

ASSUME ConfigAssumption ==
  /\ ScaipAuthEnabled \in BOOLEAN
  /\ UseToAsAOR \in BOOLEAN
  /\ PatchRequestURI \in BOOLEAN
  /\ SynthExpires \in Nat \ {0}
ASSUME AbsentAssumption == None \notin Contacts \cup Users \cup Login
ASSUME ContactsAssumption == Unusable \subseteq Contacts

\* extra stands for whatever else a URI carries: a port, parameters.
Uri == [user : Users \cup {None}, host : Hosts, extra : BOOLEAN]

(***************************************************************************)
(* The kinds of device that RequestProcessor tells apart: a Climax device  *)
(* is known by the branch of its Via header, an Essence or a Climax V2 one *)
(* by its From tag or branch.  The From of a Climax device is here the one *)
(* the server gives it, with the user from the cid of its payload.         *)
(***************************************************************************)
Kinds == {"plain", "essence", "climax"}

Request ==
  [method : {"REGISTER", "MESSAGE", "other"}, kind : Kinds,
   from : [user : Users, host : Hosts, extra : BOOLEAN], to : Uri, uri : Uri,
   contact : Contacts \cup {None}, expires : Nat, login : Login \cup {None},
   inDialog : BOOLEAN, maxForwards : Nat]

\* aorAsString of a SipURI keeps the user and the host; of a string, everything.
AorAsString(uri) == [uri EXCEPT !.extra = FALSE]

\* The key a registration is stored under: Registrar passes the From URI as a
\* string, SynthRegistrar makes one of the From user and the To host.
StorageKey(q) ==
  IF q.method = "REGISTER" THEN q.from
  ELSE [user |-> q.from.user, host |-> q.to.host, extra |-> FALSE]

\* How long a registration lives.
Lifetime(q) == IF q.method = "REGISTER" THEN q.expires ELSE SynthExpires

\* The request URI, with the user of the To header if it has none of its own.
PatchedUri(q) ==
  IF PatchRequestURI /\ q.uri.user = None
    THEN [q.uri EXCEPT !.user = q.to.user]
    ELSE q.uri

\* The key a request is routed by.
RoutingKey(q) == AorAsString(IF UseToAsAOR THEN q.to ELSE PatchedUri(q))

\* The key an unregister removes.
RemovalKey(q) == AorAsString(q.to)

IsRegister(q)   == q.method = "REGISTER" /\ q.contact # None /\ q.expires > 0
IsUnregister(q) == q.method = "REGISTER" /\ q.contact # None /\ q.expires = 0
IsMessage(q)    == q.method = "MESSAGE"

\* A MESSAGE that also registers the device it comes from.
Registers(q) == IsRegister(q) \/ (IsMessage(q) /\ q.kind # "plain")

\* A request that must show a login before it registers anything.
NeedsLogin(q) ==
  \/ IsRegister(q)
  \/ IsMessage(q) /\ q.kind = "essence" /\ ScaipAuthEnabled
=============================================================================
