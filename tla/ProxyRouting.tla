---------------------------- MODULE ProxyRouting ----------------------------
(***************************************************************************)
(* The headers by which messages find their way: what RequestHandler makes *)
(* of the Via, Route, Record-Route and Max-Forwards of a MESSAGE, and what *)
(* ResponseProcessor makes of the Via of its response.  Several proxies    *)
(* may stand between two agents.                                           *)
(*                                                                         *)
(* Which requests are authorised and what they register is SipServer's     *)
(* matter; here the locator of a proxy is a function.  The agents, and the *)
(* SIP stack below the code (where a message is sent, which responses      *)
(* belong to a transaction), are external: they do what RFC 3261 asks.     *)
(***************************************************************************)
EXTENDS Naturals, SequencesExt

CONSTANTS
  Proxies, Agents,
  Addrs,        \* host and port of a listening point
  Owner,        \* address -> the proxy or agent that listens there
  Uris,         \* the request URIs in use
  Host,         \* URI -> the address its host resolves to
  Contact,      \* agent -> the URI it can be reached by
  Public,       \* the URIs and addresses whose host is in no spec.localnets
  Hidden,       \* the contacts that registered with a sent-by of .invalid
  Local,        \* proxy -> the address it listens at
  Extern,       \* proxy -> its spec.externAddr, or None
  Bound,        \* proxy -> URI -> what its locator returns: a contact or None
  RecordRoute,  \* the proxies with spec.recordRoute
  Openings,     \* what agents send outside dialogs: the URI, and the Routes
                \* of the outbound proxies they are set up with
  MaxForwards,  \* the Max-Forwards of a new request
  MaxRequests,  \* bound: requests the agents send together
  MaxMishaps,   \* bound: messages the network loses or repeats
  None

Hosts == Proxies \cup Agents

ASSUME HostsAssumption == Proxies \cap Agents = {}
ASSUME NoneAssumption  == None \notin Addrs \cup Uris
ASSUME AddressAssumption ==
  /\ Owner \in [Addrs -> Hosts]
  /\ Host \in [Uris -> Addrs]
  /\ Contact \in [Agents -> Uris]
  /\ \A a \in Agents : Owner[Host[Contact[a]]] = a
  /\ Local \in [Proxies -> Addrs]
  /\ Extern \in [Proxies -> Addrs \cup {None}]
  /\ \A p \in Proxies : Owner[Local[p]] = p /\ (Extern[p] # None => Owner[Extern[p]] = p)
ASSUME LocatorAssumption == Bound \in [Proxies -> [Uris -> Uris \cup {None}]]
ASSUME OpeningsAssumption ==
  \A o \in Openings : o.from \in Agents /\ o.uri \in Uris /\ o.route \in Seq(Addrs)
ASSUME BoundsAssumption ==
  MaxForwards \in Nat /\ MaxRequests \in Nat /\ MaxMishaps \in Nat

VARIABLES
  network,    \* messages on their way
  dialog,     \* agent -> the dialog it is in, or None
  sent,       \* how many of the MaxRequests are sent
  delivered,  \* history: requests whose sender was answered
  lost,       \* history: a message was lost
  mishaps     \* how many of the MaxMishaps have happened

vars == <<network, dialog, sent, delivered, lost, mishaps>>

-----------------------------------------------------------------------------
(***************************************************************************)
(* Messages.  The branch of a Via is told by the forwards left where it    *)
(* was added: no two Vias of a request have the same.  "recorded" is       *)
(* history: the proxies among the Routes of a request in a dialog.         *)
(***************************************************************************)
Id  == [from : Agents, n : 1 .. MaxRequests]
Via == [addr : Addrs, branch : 0 .. MaxForwards + 1]

RequestMessage ==
  [type : {"request"}, id : Id, uri : Uris, inDialog : BOOLEAN,
   hops : 0 .. MaxForwards, via : Seq(Via), route : Seq(Addrs),
   recordRoute : Seq(Addrs), recorded : SUBSET Proxies]

\* stack stands for the codes the stack deals with (100, 487), challenge for
\* 401 and 407, unavailable for the 480 of a proxy.
Statuses == {"stack", "challenge", "ok", "unavailable"}

ResponseMessage ==
  [type : {"response"}, id : Id, status : Statuses, via : Seq(Via),
   recordRoute : Seq(Addrs), inDialog : BOOLEAN, contact : Uris \cup {None}]

Message == RequestMessage \cup ResponseMessage

\* Where the stack sends a message: a request to its first Route or else to
\* its request URI, a response to its first Via.
NextHop(m) ==
  IF m.type = "response" THEN Head(m.via).addr
  ELSE IF m.route # <<>> THEN Head(m.route) ELSE Host[m.uri]

ArrivesAt(h, m, type) == m.type = type /\ Owner[NextHop(m)] = h

Dialog == [uri : Uris, route : Seq(Addrs)]

TypeOK ==
  /\ \A m \in network : m \in Message /\ m.via # <<>>
  /\ \A m \in network : m.type = "response" /\ m.status = "ok" => m.contact # None
  /\ DOMAIN dialog = Agents
  /\ \A a \in Agents : dialog[a] # None => dialog[a] \in Dialog
  /\ sent \in 0 .. MaxRequests
  /\ delivered \subseteq Id
  /\ lost \in BOOLEAN
  /\ mishaps \in 0 .. MaxMishaps

\* A host takes m and sends the messages of out; the network may repeat m.
Exchange(m, out) ==
  \/ /\ network' = (network \ {m}) \cup out
     /\ UNCHANGED mishaps
  \/ /\ mishaps < MaxMishaps
     /\ network' = network \cup out
     /\ mishaps' = mishaps + 1

Reply(m, status, contact) ==
  [type |-> "response", id |-> m.id, status |-> status, via |-> m.via,
   recordRoute |-> m.recordRoute, inDialog |-> m.inDialog, contact |-> contact]

-----------------------------------------------------------------------------
(***************************************************************************)
(* RequestHandler.processRoute and request_utils.                          *)
(***************************************************************************)

\* The comment of getAdvertisedAddr warns of the request URI of the first
\* request, which is of a local domain; it is the one taken.
AdvertisedAddr(p, m, contact) ==
  IF Extern[p] # None /\ (contact \in Hidden \/ m.uri \in Public)
    THEN Extern[p] ELSE Local[p]

OwnedAddress(p) == {Local[p], Extern[p]} \ {None}

\* Two Routes go when the first is the proxy's own, whatever the second is.
ConfigureRoute(p, route) ==
  IF route # <<>> /\ Head(route) \in OwnedAddress(p)
    THEN SubSeq(route, 3, Len(route)) ELSE route

\* Mutant: the Via is added behind those there are.
ConfigureViaLast(via, addr, hops) == Append(via, [addr |-> addr, branch |-> hops])

ConfigureVia(via, addr, hops) == <<[addr |-> addr, branch |-> hops]>> \o via

\* Mutant: only the address that faces the next host is added.
ConfigureRecordRouteOnce(p, rr, addr) ==
  IF p \notin RecordRoute THEN rr ELSE <<addr>> \o rr

\* Record-Routes go on top of those there are, in addHeader of the stack too:
\* its own address, and then the external one, only towards a public host.
ConfigureRecordRoute(p, rr, addr) ==
  IF p \notin RecordRoute THEN rr
  ELSE (IF Extern[p] # None /\ addr \in Public THEN <<Extern[p]>> ELSE <<>>)
         \o <<Local[p]>> \o rr

\* Mutant: Max-Forwards is passed on as it came.
ConfigureMaxForwardsKept(hops) == hops

ConfigureMaxForwards(hops) == hops - 1

Forwarded(p, m, contact) ==
  LET addr == AdvertisedAddr(p, m, contact)
      out  == [m EXCEPT !.hops = ConfigureMaxForwards(@),
                        !.route = ConfigureRoute(p, @),
                        !.via = ConfigureVia(@, addr, m.hops)]
  IN IF m.inDialog THEN out
     ELSE [out EXCEPT !.uri = contact,
                      !.recordRoute = ConfigureRecordRoute(p, @, addr)]

\* What becomes of a request: nobody is found, it has no forwards left (the
\* handler throws, and nobody replies), or it goes on.
Unroutable(p, m) == ~m.inDialog /\ Bound[p][m.uri] = None

Refuse(p, m) ==
  /\ ArrivesAt(p, m, "request")
  /\ Unroutable(p, m)
  /\ Exchange(m, {Reply(m, "unavailable", None)})
  /\ UNCHANGED <<dialog, sent, delivered, lost>>

Exhaust(p, m) ==
  /\ ArrivesAt(p, m, "request")
  /\ ~Unroutable(p, m)
  /\ m.hops = 0
  /\ Exchange(m, {})
  /\ UNCHANGED <<dialog, sent, delivered, lost>>

\* Mutant: a request with no forwards left goes on.
RelayAnyway(p, m) ==
  /\ ArrivesAt(p, m, "request")
  /\ ~Unroutable(p, m)
  /\ LET out == Forwarded(p, m, IF m.inDialog THEN None ELSE Bound[p][m.uri])
     IN Exchange(m, {out})
  /\ UNCHANGED <<dialog, sent, delivered, lost>>

Relay(p, m) ==
  /\ ArrivesAt(p, m, "request")
  /\ ~Unroutable(p, m)
  /\ m.hops > 0
  /\ LET out == Forwarded(p, m, IF m.inDialog THEN None ELSE Bound[p][m.uri])
     IN Exchange(m, {out})
  /\ UNCHANGED <<dialog, sent, delivered, lost>>

-----------------------------------------------------------------------------
(***************************************************************************)
(* ResponseProcessor.                                                      *)
(***************************************************************************)
IsStackJob(r)       == r.status = "stack"
MustAuthenticate(r) == r.status = "challenge"

\* A response that goes no further: the stack deals with it; or it challenges
\* a request whose client transaction lives, and the X-Gateway-Ref that nothing
\* adds any more is read of that request, which throws; or no Via is left.
Dropped(r, transactional) ==
  \/ IsStackJob(r)
  \/ MustAuthenticate(r) /\ transactional
  \/ Tail(r.via) = <<>>

\* Mutants: a response keeps the Via of the proxy; one whose transaction has
\* ended is dropped as well.
ProcessResponseUnshifted(p, r) ==
  /\ ArrivesAt(p, r, "response")
  /\ \E transactional \in BOOLEAN :
       Exchange(r, IF Dropped(r, transactional) THEN {} ELSE {r})
  /\ UNCHANGED <<dialog, sent, delivered, lost>>

ProcessResponseInTime(p, r) ==
  /\ ArrivesAt(p, r, "response")
  /\ \E transactional \in BOOLEAN :
       Exchange(r, IF Dropped(r, transactional) \/ ~transactional THEN {}
                   ELSE {[r EXCEPT !.via = Tail(@)]})
  /\ UNCHANGED <<dialog, sent, delivered, lost>>

\* A client transaction ends some time after its final response, or without
\* one; processTimeout and processTransactionTerminated do nothing about it.
ProcessResponse(p, r) ==
  /\ ArrivesAt(p, r, "response")
  /\ \E transactional \in BOOLEAN :
       Exchange(r, IF Dropped(r, transactional) THEN {}
                   ELSE {[r EXCEPT !.via = Tail(@)]})
  /\ UNCHANGED <<dialog, sent, delivered, lost>>

-----------------------------------------------------------------------------
(***************************************************************************)
(* The agents.                                                             *)
(***************************************************************************)
Send(a, uri, route, inDialog) ==
  /\ sent < MaxRequests
  /\ network' = network \cup
       {[type |-> "request", id |-> [from |-> a, n |-> sent + 1], uri |-> uri,
         inDialog |-> inDialog, hops |-> MaxForwards,
         via |-> <<[addr |-> Host[Contact[a]], branch |-> MaxForwards + 1]>>,
         route |-> route, recordRoute |-> <<>>,
         recorded |-> IF inDialog THEN {Owner[x] : x \in ToSet(route)} \cap Proxies
                      ELSE {}]}
  /\ sent' = sent + 1
  /\ UNCHANGED <<dialog, delivered, lost, mishaps>>

Open(a, o) == o.from = a /\ Send(a, o.uri, o.route, FALSE)

Follow(a) == dialog[a] # None /\ Send(a, dialog[a].uri, dialog[a].route, TRUE)

\* The called agent; a dialog follows the Record-Routes as they came.
Answer(a, m, status) ==
  /\ ArrivesAt(a, m, "request")
  /\ Exchange(m, {Reply(m, status, Contact[a])})
  /\ dialog' = IF status = "ok" /\ ~m.inDialog
                 THEN [dialog EXCEPT ![a] = [uri |-> Contact[m.id.from],
                                             route |-> m.recordRoute]]
                 ELSE dialog
  /\ UNCHANGED <<sent, delivered, lost>>

\* The calling agent; it follows them in reverse.
Conclude(a, r) ==
  /\ ArrivesAt(a, r, "response")
  /\ Exchange(r, {})
  /\ delivered' = IF r.id.from = a /\ r.status # "stack"
                    THEN delivered \cup {r.id} ELSE delivered
  /\ dialog' = IF r.status = "ok" /\ ~r.inDialog
                 THEN [dialog EXCEPT ![a] = [uri |-> r.contact,
                                             route |-> Reverse(r.recordRoute)]]
                 ELSE dialog
  /\ UNCHANGED <<sent, lost>>

\* A message is lost, or the next hop cannot be reached (connectionException).
Lose(m) ==
  /\ mishaps < MaxMishaps
  /\ network' = network \ {m}
  /\ lost' = TRUE
  /\ mishaps' = mishaps + 1
  /\ UNCHANGED <<dialog, sent, delivered>>

-----------------------------------------------------------------------------
Init ==
  /\ network = {}
  /\ dialog = [a \in Agents |-> None]
  /\ sent = 0
  /\ delivered = {}
  /\ lost = FALSE
  /\ mishaps = 0

Handle(p) == \E m \in network :
  Refuse(p, m) \/ Exhaust(p, m) \/ Relay(p, m) \/ ProcessResponse(p, m)

React(a) == \E m \in network :
  (\E status \in Statuses \ {"unavailable"} : Answer(a, m, status)) \/ Conclude(a, m)

Next ==
  \/ \E p \in Proxies : Handle(p)
  \/ \E a \in Agents : React(a) \/ Follow(a) \/ (\E o \in Openings : Open(a, o))
  \/ \E m \in network : Lose(m)

Spec == Init /\ [][Next]_vars

\* A host takes what arrives: the listener of a proxy catches every exception.
FairSpec ==
  /\ Spec
  /\ \A p \in Proxies : WF_vars(Handle(p))
  /\ \A a \in Agents : WF_vars(React(a))

-----------------------------------------------------------------------------
(***************************************************************************)
(* A response is on its way to the agent that sent its request, through    *)
(* proxies only, however many proxies the request met and met again.       *)
(***************************************************************************)
LeadsHome(via, a) ==
  /\ via[Len(via)].addr = Host[Contact[a]]
  /\ \A i \in 1 .. Len(via) - 1 : Owner[via[i].addr] \in Proxies

AnswersComeHome == \A m \in network : LeadsHome(m.via, m.id.from)

(***************************************************************************)
(* A request whose agent answers is answered to its sender, if nothing is  *)
(* lost, whether the client transactions of the proxies still live or not. *)
(* A challenge need not be: it is dropped on the way back if they do.      *)
(***************************************************************************)
Answered(i) == \E r \in network :
  r.type = "response" /\ r.id = i /\ r.status \in {"ok", "unavailable"}
AnswersArrive == \A i \in Id : Answered(i) ~> (i \in delivered \/ lost)

(***************************************************************************)
(* On the way, no host drops such an answer but the one that asked.        *)
(***************************************************************************)
AnswersSurvive ==
  [][\A i \in Id : Answered(i) => Answered(i)' \/ i \in delivered' \/ lost']_vars

(***************************************************************************)
(* The network comes to rest: no request goes round for ever, whatever the *)
(* locators bind to whatever, the proxies' own addresses included.         *)
(***************************************************************************)
TrafficCeases == []<>(network = {})

(***************************************************************************)
(* Why it does: a message taken makes way for messages that have fewer     *)
(* hosts left to come by, by Max-Forwards out and by their Vias back.      *)
(***************************************************************************)
HostsLeft(m) ==
  IF m.type = "request" THEN 2 * m.hops + Len(m.via) + 1 ELSE Len(m.via)

TrafficRunsDown ==
  [][sent' = sent /\ mishaps' = mishaps =>
       \E m \in network \ network' :
         \A n \in network' \ network : HostsLeft(n) < HostsLeft(m)]_vars

(***************************************************************************)
(* A proxy that recorded itself is passed by every later request of the    *)
(* dialog (recordRoute: "Stay within the signaling path", .helm/README.md; *)
(* "Could be a BYE due to Record-Route", response_processor.js).           *)
(***************************************************************************)
Passed(m) == {Owner[v.addr] : v \in ToSet(m.via)}
StaysInPath ==
  \A m \in network : \A a \in Agents :
    ArrivesAt(a, m, "request") => m.recorded \subseteq Passed(m)
=============================================================================
