------------------------- MODULE ProxyRoutingProofs -------------------------
(***************************************************************************)
(* Proofs about ProxyRouting: its types, and that every response is on its *)
(* way to the agent that asked, for any proxies, agents and locators.      *)
(***************************************************************************)
EXTENDS ProxyRouting, SequenceTheorems, TLAPS

Inv == TypeOK /\ AnswersComeHome

-----------------------------------------------------------------------------
(* What the sequence operators of the module return.                       *)

\* Reversing a sequence keeps its elements in their set.
LEMMA ReverseType ==
  ASSUME NEW S, NEW s \in Seq(S)
  PROVE  Reverse(s) \in Seq(S)
BY DEF Reverse

\* What is left of a sequence without its first two elements.
LEMMA DropTwoType ==
  ASSUME NEW S, NEW s \in Seq(S)
  PROVE  SubSeq(s, 3, Len(s)) \in Seq(S)
OBVIOUS

\* A Via in front leads home if it is a proxy's and the others do.
LEMMA ViaAdded ==
  ASSUME NEW via \in Seq(Via), via # <<>>, NEW a, LeadsHome(via, a),
         NEW v \in Via, Owner[v.addr] \in Proxies
  PROVE  /\ <<v>> \o via \in Seq(Via)
         /\ <<v>> \o via # <<>>
         /\ LeadsHome(<<v>> \o via, a)
<1> DEFINE t == <<v>> \o via
<1>1. t \in Seq(Via) /\ Len(t) = Len(via) + 1 /\ Len(via) \in Nat \ {0}
  OBVIOUS
<1>2. t[1] = v /\ \A i \in 2 .. Len(t) : t[i] = via[i - 1]
  OBVIOUS
<1>3. t[Len(t)] = via[Len(via)]
  BY <1>1, <1>2
<1>4. \A i \in 1 .. Len(t) - 1 : Owner[t[i].addr] \in Proxies
  <2> SUFFICES ASSUME NEW i \in 1 .. Len(t) - 1 PROVE Owner[t[i].addr] \in Proxies
    OBVIOUS
  <2>1. CASE i = 1
    BY <2>1, <1>2
  <2>2. CASE i # 1
    <3>1. i - 1 \in 1 .. Len(via) - 1 /\ t[i] = via[i - 1]
      BY <2>2, <1>1, <1>2
    <3> QED BY <3>1 DEF LeadsHome
  <2> QED BY <2>1, <2>2
<1> QED BY <1>1, <1>3, <1>4 DEF LeadsHome

\* Taking the first Via away leads home still, if another is left.
LEMMA ViaRemoved ==
  ASSUME NEW via \in Seq(Via), via # <<>>, NEW a, LeadsHome(via, a),
         Tail(via) # <<>>
  PROVE  /\ Tail(via) \in Seq(Via)
         /\ LeadsHome(Tail(via), a)
<1> DEFINE t == Tail(via)
<1>1. t \in Seq(Via) /\ Len(t) = Len(via) - 1 /\ Len(t) \in Nat \ {0}
  <2>1. t \in Seq(Via) /\ Len(t) = Len(via) - 1
    OBVIOUS
  <2>2. Len(t) # 0
    BY <2>1, EmptySeq
  <2> QED BY <2>1, <2>2, LenProperties
<1>2. \A i \in 1 .. Len(t) : t[i] = via[i + 1]
  OBVIOUS
<1>3. t[Len(t)] = via[Len(via)]
  BY <1>1, <1>2
<1>4. \A i \in 1 .. Len(t) - 1 : Owner[t[i].addr] \in Proxies
  BY <1>1, <1>2 DEF LeadsHome
<1> QED BY <1>1, <1>3, <1>4 DEF LeadsHome

-----------------------------------------------------------------------------
(* The messages that hosts send, one lemma for each way of making one.     *)

\* What the invariant says of one message.
Sound(m) ==
  /\ m \in Message /\ m.via # <<>> /\ LeadsHome(m.via, m.id.from)
  /\ m.type = "response" /\ m.status = "ok" => m.contact # None

\* The address a proxy gives as its own is one of its two.
LEMMA AdvertisedIsOwn ==
  ASSUME NEW p \in Proxies, NEW m, NEW contact
  PROVE  /\ AdvertisedAddr(p, m, contact) \in Addrs
         /\ Owner[AdvertisedAddr(p, m, contact)] \in Proxies
BY AddressAssumption DEF AdvertisedAddr

\* Record-Routes are addresses.
LEMMA RecordRouteType ==
  ASSUME NEW p \in Proxies, NEW rr \in Seq(Addrs), NEW addr \in Addrs
  PROVE  ConfigureRecordRoute(p, rr, addr) \in Seq(Addrs)
<1> DEFINE first == IF Extern[p] # None /\ addr \in Public THEN <<Extern[p]>> ELSE <<>>
<1>1. first \in Seq(Addrs)
  BY AddressAssumption
<1>2. <<Local[p]>> \in Seq(Addrs)
  BY AddressAssumption
<1>3. first \o <<Local[p]>> \o rr \in Seq(Addrs)
  BY <1>1, <1>2, ConcatProperties
<1> QED BY <1>3 DEF ConfigureRecordRoute

\* A relayed request is sound.
LEMMA ForwardedSound ==
  ASSUME NEW p \in Proxies, NEW m \in RequestMessage, Sound(m), m.hops > 0,
         ~Unroutable(p, m)
  PROVE  Sound(Forwarded(p, m, IF m.inDialog THEN None ELSE Bound[p][m.uri]))
<1> DEFINE contact == IF m.inDialog THEN None ELSE Bound[p][m.uri]
           addr == AdvertisedAddr(p, m, contact)
           v == [addr |-> addr, branch |-> m.hops]
           f == Forwarded(p, m, contact)
<1>1. addr \in Addrs /\ Owner[addr] \in Proxies
  BY AdvertisedIsOwn
<1>2. v \in Via /\ Owner[v.addr] \in Proxies
  BY <1>1, BoundsAssumption DEF RequestMessage, Via
<1>3. m.via \in Seq(Via) /\ m.via # <<>> /\ LeadsHome(m.via, m.id.from)
  BY DEF Sound, RequestMessage
<1> DEFINE via == <<v>> \o m.via
<1>4. via \in Seq(Via) /\ via # <<>> /\ LeadsHome(via, m.id.from)
  BY <1>2, <1>3, ViaAdded
<1>5. ConfigureMaxForwards(m.hops) \in 0 .. MaxForwards
  BY BoundsAssumption DEF RequestMessage, ConfigureMaxForwards
<1>6. ConfigureRoute(p, m.route) \in Seq(Addrs)
  BY DropTwoType DEF RequestMessage, ConfigureRoute
<1>7. ConfigureRecordRoute(p, m.recordRoute, addr) \in Seq(Addrs)
  BY <1>1, RecordRouteType DEF RequestMessage
<1>8. ~m.inDialog => contact \in Uris
  BY LocatorAssumption DEF Unroutable, RequestMessage
<1> DEFINE out == [m EXCEPT !.hops = ConfigureMaxForwards(@),
                            !.route = ConfigureRoute(p, @), !.via = via]
<1>9. out \in RequestMessage /\ out.via = via /\ out.id = m.id
  BY <1>4, <1>5, <1>6 DEF RequestMessage
<1>10. f = IF m.inDialog THEN out
           ELSE [out EXCEPT !.uri = contact,
                            !.recordRoute = ConfigureRecordRoute(p, @, addr)]
  BY DEF Forwarded, ConfigureVia
<1>11. out.recordRoute = m.recordRoute
  BY DEF RequestMessage
<1>12. f \in RequestMessage /\ f.via = via /\ f.id = m.id
  <2>1. CASE m.inDialog
    BY <2>1, <1>9, <1>10
  <2>2. CASE ~m.inDialog
    <3> DEFINE rr == ConfigureRecordRoute(p, m.recordRoute, addr)
    <3>1. f = [out EXCEPT !.uri = contact, !.recordRoute = rr]
      BY <2>2, <1>10, <1>11
    <3>2. contact \in Uris /\ rr \in Seq(Addrs)
      BY <2>2, <1>7, <1>8
    <3> HIDE DEF rr, contact, out, f, via
    <3> QED BY <3>1, <3>2, <1>9 DEF RequestMessage
  <2> QED BY <2>1, <2>2
<1>13. Sound(f)
  <2> HIDE DEF f, via
  <2> QED BY <1>4, <1>12 DEF Sound, Message, RequestMessage
<1> QED BY <1>13

\* A reply takes the Vias of its request.
LEMMA ReplySound ==
  ASSUME NEW m \in RequestMessage, Sound(m), NEW status \in Statuses,
         NEW contact \in Uris \cup {None}, status = "ok" => contact # None
  PROVE  Sound(Reply(m, status, contact))
<1>1. Reply(m, status, contact) \in ResponseMessage
  BY DEF RequestMessage, ResponseMessage, Reply
<1> QED BY <1>1 DEF Sound, Message, Reply

\* A relayed response is sound.
LEMMA ShiftedSound ==
  ASSUME NEW r \in ResponseMessage, Sound(r), Tail(r.via) # <<>>
  PROVE  Sound([r EXCEPT !.via = Tail(@)])
<1>1. r.via \in Seq(Via) /\ LeadsHome(r.via, r.id.from) /\ r.via # <<>>
  BY DEF Sound, ResponseMessage
<1> DEFINE t == Tail(r.via)
<1>2. t \in Seq(Via) /\ t # <<>> /\ LeadsHome(t, r.id.from)
  BY <1>1, ViaRemoved
<1> DEFINE s == [r EXCEPT !.via = t]
<1>3. /\ s \in ResponseMessage /\ s.via = t /\ s.id = r.id
      /\ s.status = r.status /\ s.contact = r.contact
  BY <1>2 DEF ResponseMessage
<1> HIDE DEF s, t
<1>4. Sound(s)
  BY <1>2, <1>3 DEF Sound, Message, ResponseMessage
<1> QED BY <1>4 DEF s, t

\* A host that takes a message and sends sound ones leaves a sound network.
LEMMA ExchangeSound ==
  ASSUME NEW m, NEW out, Exchange(m, out), mishaps \in 0 .. MaxMishaps,
         \A n \in network : Sound(n), \A n \in out : Sound(n)
  PROVE  /\ \A n \in network' : Sound(n)
         /\ mishaps' \in 0 .. MaxMishaps
BY BoundsAssumption DEF Exchange
-----------------------------------------------------------------------------
(* The theorems.                                                           *)

\* The invariant holds at first.
LEMMA InvInit == Init => Inv
<1> SUFFICES ASSUME Init PROVE Inv
  OBVIOUS
<1>1. network = {} /\ mishaps \in 0 .. MaxMishaps /\ sent \in 0 .. MaxRequests
  BY BoundsAssumption DEF Init
<1>2. DOMAIN dialog = Agents /\ \A a \in Agents : dialog[a] = None
  BY DEF Init
<1>3. delivered \subseteq Id /\ lost \in BOOLEAN
  BY Zenon DEF Init
<1> QED BY <1>1, <1>2, <1>3 DEF Inv, TypeOK, AnswersComeHome

\* The part of the invariant that is about the agents.
Rest == /\ DOMAIN dialog = Agents
        /\ \A a \in Agents : dialog[a] # None => dialog[a] \in Dialog
        /\ sent \in 0 .. MaxRequests
        /\ delivered \subseteq Id
        /\ lost \in BOOLEAN

\* The invariant, message by message.
LEMMA InvParts ==
  Inv <=> /\ \A m \in network : Sound(m)
          /\ Rest
          /\ mishaps \in 0 .. MaxMishaps
BY DEF Inv, TypeOK, AnswersComeHome, Sound, Rest

LEMMA InvPartsNext ==
  Inv' <=> /\ \A m \in network' : Sound(m)
           /\ Rest'
           /\ mishaps' \in 0 .. MaxMishaps
BY DEF Inv, TypeOK, AnswersComeHome, Sound, Rest

\* Each step of a proxy keeps the invariant.
LEMMA InvHandle ==
  ASSUME Inv, NEW p \in Proxies, Handle(p)
  PROVE  Inv'
<1>1. /\ \A m \in network : Sound(m)
      /\ Rest
      /\ mishaps \in 0 .. MaxMishaps
  BY InvParts
<1>2. UNCHANGED <<dialog, sent, delivered, lost>>
  BY DEF Handle, Refuse, Exhaust, Relay, ProcessResponse
<1>3. Rest'
  BY <1>1, <1>2 DEF Rest
<1>4. PICK m \in network :
        Refuse(p, m) \/ Exhaust(p, m) \/ Relay(p, m) \/ ProcessResponse(p, m)
  BY DEF Handle
<1>5. Sound(m) /\ m \in Message
  BY <1>1 DEF Sound
<1>6. m.type = "request" => m \in RequestMessage
  BY <1>5 DEF Message, ResponseMessage
<1>7. m.type = "response" => m \in ResponseMessage
  BY <1>5 DEF Message, RequestMessage
<1>8. \E out : Exchange(m, out) /\ \A n \in out : Sound(n)
  <2>1. CASE Refuse(p, m)
    <3>1. Sound(Reply(m, "unavailable", None))
      BY <2>1, <1>5, <1>6, ReplySound DEF Refuse, ArrivesAt, Statuses
    <3> QED BY <2>1, <3>1 DEF Refuse
  <2>2. CASE Exhaust(p, m)
    BY <2>2 DEF Exhaust
  <2>3. CASE Relay(p, m)
    <3> DEFINE f == Forwarded(p, m, IF m.inDialog THEN None ELSE Bound[p][m.uri])
    <3>1. m \in RequestMessage /\ m.hops > 0 /\ ~Unroutable(p, m) /\ Exchange(m, {f})
      BY <2>3, <1>6 DEF Relay, ArrivesAt
    <3>2. Sound(f)
      BY <3>1, <1>5, ForwardedSound
    <3> QED BY <3>1, <3>2
  <2>4. CASE ProcessResponse(p, m)
    <3>1. PICK transactional \in BOOLEAN :
            Exchange(m, IF Dropped(m, transactional) THEN {}
                        ELSE {[m EXCEPT !.via = Tail(@)]})
      BY <2>4 DEF ProcessResponse
    <3>2. m \in ResponseMessage
      BY <2>4, <1>7 DEF ProcessResponse, ArrivesAt
    <3>3. ~Dropped(m, transactional) => Sound([m EXCEPT !.via = Tail(@)])
      BY <3>2, <1>5, ShiftedSound DEF Dropped
    <3>4. CASE Dropped(m, transactional)
      BY <3>1, <3>4
    <3>5. CASE ~Dropped(m, transactional)
      <4> DEFINE r == [m EXCEPT !.via = Tail(@)]
      <4>1. Exchange(m, {r})
        BY <3>1, <3>5
      <4>2. \A n \in {r} : Sound(n)
        BY <3>3, <3>5
      <4>3. Exchange(m, {r}) /\ \A n \in {r} : Sound(n)
        BY <4>1, <4>2
      <4> HIDE DEF r
      <4> WITNESS {r}
      <4> QED BY <4>3
    <3> QED BY <3>4, <3>5
  <2> QED BY <1>4, <2>1, <2>2, <2>3, <2>4
<1>9. (\A n \in network' : Sound(n)) /\ mishaps' \in 0 .. MaxMishaps
  BY <1>1, <1>8, ExchangeSound
<1> QED BY <1>3, <1>9, InvPartsNext

\* Each step of an agent keeps the invariant.
LEMMA InvReact ==
  ASSUME Inv, NEW a \in Agents, React(a)
  PROVE  Inv'
<1>1. /\ \A m \in network : Sound(m)
      /\ Rest
      /\ mishaps \in 0 .. MaxMishaps
  BY InvParts
<1>2. PICK m \in network :
        \/ \E status \in Statuses \ {"unavailable"} : Answer(a, m, status)
        \/ Conclude(a, m)
  BY DEF React
<1>3. Sound(m) /\ m \in Message
  BY <1>1 DEF Sound
<1>4. Contact \in [Agents -> Uris]
  BY AddressAssumption
<1>5. /\ \E out : Exchange(m, out) /\ \A n \in out : Sound(n)
      /\ Rest'
  <2>1. CASE \E status \in Statuses \ {"unavailable"} : Answer(a, m, status)
    <3>1. PICK status \in Statuses : Answer(a, m, status)
      BY <2>1
    <3>2. m \in RequestMessage
      BY <3>1, <1>3 DEF Answer, ArrivesAt, Message, ResponseMessage
    <3>3. Sound(Reply(m, status, Contact[a]))
      BY <3>2, <1>3, <1>4, NoneAssumption, ReplySound
    <3>4. Exchange(m, {Reply(m, status, Contact[a])})
      BY <3>1 DEF Answer
    <3> DEFINE d == [uri |-> Contact[m.id.from], route |-> m.recordRoute]
    <3>5. d \in Dialog
      BY <3>2, <1>4 DEF RequestMessage, Id, Dialog
    <3>6. dialog' = dialog \/ dialog' = [dialog EXCEPT ![a] = d]
      BY <3>1 DEF Answer
    <3>7. \A b \in Agents : dialog'[b] # None => dialog'[b] \in Dialog
      <4> HIDE DEF d
      <4> QED BY <1>1, <3>5, <3>6 DEF Rest
    <3>10. DOMAIN dialog' = Agents
      BY <1>1, <3>6 DEF Rest
    <3>8. UNCHANGED <<sent, delivered, lost>>
      BY <3>1 DEF Answer
    <3>9. Rest'
      BY <3>7, <3>8, <3>10, <1>1 DEF Rest
    <3> QED BY <3>3, <3>4, <3>9
  <2>2. CASE Conclude(a, m)
    <3>1. m \in ResponseMessage
      BY <2>2, <1>3 DEF Conclude, ArrivesAt, Message, RequestMessage
    <3>2. Exchange(m, {})
      BY <2>2 DEF Conclude
    <3>3. delivered' \subseteq Id
      BY <2>2, <3>1, <1>1 DEF Conclude, ResponseMessage, Rest
    <3> DEFINE d == [uri |-> m.contact, route |-> Reverse(m.recordRoute)]
    <3>4. m.status = "ok" => d \in Dialog
      BY <3>1, <1>3, ReverseType DEF Sound, ResponseMessage, Dialog
    <3>5. dialog' = dialog \/ (m.status = "ok" /\ dialog' = [dialog EXCEPT ![a] = d])
      BY <2>2 DEF Conclude
    <3>6. \A b \in Agents : dialog'[b] # None => dialog'[b] \in Dialog
      <4> HIDE DEF d
      <4> QED BY <1>1, <3>4, <3>5 DEF Rest
    <3>10. DOMAIN dialog' = Agents
      BY <1>1, <3>5 DEF Rest
    <3>7. UNCHANGED <<sent, lost>>
      BY <2>2 DEF Conclude
    <3>8. Rest'
      BY <3>3, <3>6, <3>7, <3>10, <1>1 DEF Rest
    <3> QED BY <3>2, <3>8
  <2> QED BY <1>2, <2>1, <2>2
<1>6. (\A n \in network' : Sound(n)) /\ mishaps' \in 0 .. MaxMishaps
  BY <1>1, <1>5, ExchangeSound
<1> QED BY <1>5, <1>6, InvPartsNext

\* Every step of the specification keeps the invariant.
LEMMA InvStep == Inv /\ [Next]_vars => Inv'
<1> SUFFICES ASSUME Inv, [Next]_vars PROVE Inv'
  OBVIOUS
<1>1. /\ \A m \in network : Sound(m)
      /\ Rest
      /\ mishaps \in 0 .. MaxMishaps
  BY InvParts
<1>2. CASE \E p \in Proxies : Handle(p)
  BY <1>2, InvHandle
<1>3. CASE \E a \in Agents : React(a)
  BY <1>3, InvReact
<1>4. CASE \E a \in Agents : Follow(a) \/ \E o \in Openings : Open(a, o)
  <2>1. PICK a \in Agents, uri \in Uris, route \in Seq(Addrs), inDialog \in BOOLEAN :
          Send(a, uri, route, inDialog)
    BY <1>1, <1>4, OpeningsAssumption DEF Follow, Open, Rest, Dialog
  <2> DEFINE m == [type |-> "request", id |-> [from |-> a, n |-> sent + 1], uri |-> uri,
                   inDialog |-> inDialog, hops |-> MaxForwards,
                   via |-> <<[addr |-> Host[Contact[a]], branch |-> MaxForwards + 1]>>,
                   route |-> route, recordRoute |-> <<>>,
                   recorded |-> IF inDialog
                     THEN {Owner[x] : x \in ToSet(route)} \cap Proxies ELSE {}]
             v == [addr |-> Host[Contact[a]], branch |-> MaxForwards + 1]
  <2>2. network' = network \cup {m} /\ sent < MaxRequests /\ sent' = sent + 1
    BY <2>1 DEF Send
  <2>3. UNCHANGED <<dialog, delivered, lost, mishaps>>
    BY <2>1 DEF Send
  <2>4. sent + 1 \in 1 .. MaxRequests /\ sent' \in 0 .. MaxRequests
    BY <1>1, <2>2, BoundsAssumption DEF Rest
  <2>5. v \in Via
    BY AddressAssumption, BoundsAssumption DEF Via
  <2>6. <<v>> \in Seq(Via) /\ Len(<<v>>) = 1 /\ <<v>>[1] = v /\ <<v>> # <<>>
    BY <2>5
  <2>7. LeadsHome(<<v>>, a)
    BY <2>6 DEF LeadsHome
  <2>8. m \in RequestMessage
    <3>1. [from |-> a, n |-> sent + 1] \in Id
      BY <2>4 DEF Id
    <3>2. MaxForwards \in 0 .. MaxForwards
      BY BoundsAssumption
    <3>3. (IF inDialog THEN {Owner[x] : x \in ToSet(route)} \cap Proxies ELSE {})
            \in SUBSET Proxies
      OBVIOUS
    <3> QED BY <2>6, <3>1, <3>2, <3>3 DEF RequestMessage
  <2>9. Sound(m)
    BY <2>6, <2>7, <2>8 DEF Sound, Message
  <2>10. \A n \in network' : Sound(n)
    <3> HIDE DEF m
    <3> QED BY <1>1, <2>2, <2>9
  <2>11. Rest'
    BY <1>1, <2>3, <2>4 DEF Rest
  <2> QED BY <1>1, <2>3, <2>10, <2>11, InvPartsNext
<1>5. CASE \E m \in network : Lose(m)
  <2>1. PICK m \in network : Lose(m)
    BY <1>5
  <2>2. \A n \in network' : Sound(n)
    BY <1>1, <2>1 DEF Lose
  <2>3. mishaps' \in 0 .. MaxMishaps
    BY <1>1, <2>1, BoundsAssumption DEF Lose
  <2>4. UNCHANGED <<dialog, sent, delivered>> /\ lost' = TRUE
    BY <2>1 DEF Lose
  <2>5. Rest'
    BY <1>1, <2>4 DEF Rest
  <2> QED BY <2>2, <2>3, <2>5, InvPartsNext
<1>6. CASE UNCHANGED vars
  <2>1. Rest'
    BY <1>1, <1>6 DEF Rest, vars
  <2> QED BY <1>1, <1>6, <2>1, InvPartsNext DEF vars
<1> QED BY <1>2, <1>3, <1>4, <1>5, <1>6 DEF Next

LEMMA InvAlways == Spec => []Inv
BY InvInit, InvStep, PTL DEF Spec

(***************************************************************************)
(* The variables stay in their types: no request goes on with no forwards  *)
(* left, and none loses its last Via.                                      *)
(***************************************************************************)
THEOREM TypeCorrect == Spec => []TypeOK
<1>1. Inv => TypeOK
  BY DEF Inv
<1> QED BY <1>1, InvAlways, PTL

(***************************************************************************)
(* Responses retrace the way of their requests: processRoute adds the      *)
(* proxy's Via in front, ResponseProcessor takes it off, and nothing else  *)
(* touches the Vias.                                                       *)
(***************************************************************************)
THEOREM ResponsesRetrace == Spec => []AnswersComeHome
<1>1. Inv => AnswersComeHome
  BY DEF Inv
<1> QED BY <1>1, InvAlways, PTL

-----------------------------------------------------------------------------
(***************************************************************************)
(* A dialog stays in the path, if every proxy that records itself always   *)
(* records both of its addresses: it has an external one, and is taken for *)
(* one that faces public hosts whichever of the two it gives.              *)
(***************************************************************************)
TwoAddresses ==
  \A p \in RecordRoute \cap Proxies : Extern[p] # None /\ OwnedAddress(p) \subseteq Public

\* Every other Route is looked at: ConfigureRoute takes two.
Odd(i) == i % 2 = 1
Stops(route) == {Owner[route[i]] : i \in {j \in 1 .. Len(route) : Odd(j)}}

\* Every address recorded is one that its proxy knows as its own, and the two
\* of a proxy stand side by side: of each pair, the first is a stop.
Recorders(rr) ==
  \A i \in 1 .. Len(rr) : Owner[rr[i]] \in Proxies /\ rr[i] \in OwnedAddress(Owner[rr[i]])
Paired(rr) ==
  /\ Recorders(rr)
  /\ Len(rr) % 2 = 0
  /\ \A i \in 1 .. Len(rr) : Odd(i) => Owner[rr[i + 1]] = Owner[rr[i]]

\* A request of a dialog has passed its recorded proxies, or stops there still.
PassedBy(via) == {Owner[v.addr] : v \in ToSet(via)}
Path(m) ==
  /\ Paired(m.recordRoute)
  /\ m.type = "request" /\ ~m.inDialog => m.recorded = {}
  /\ m.type = "request" /\ m.inDialog =>
       /\ Recorders(m.route)
       /\ m.recorded \subseteq PassedBy(m.via) \cup Stops(m.route)

Paths ==
  /\ \A m \in network : Path(m)
  /\ \A a \in Agents : dialog[a] # None => Paired(dialog[a].route)

\* Nobody is recorded at first.
LEMMA PairedEmpty == Paired(<<>>)
BY DEF Paired, Recorders

\* A proxy records its pair in front.
LEMMA PairedInFront ==
  ASSUME NEW p \in Proxies, Extern[p] # None, NEW rr \in Seq(Addrs), Paired(rr)
  PROVE  Paired(<<Extern[p]>> \o <<Local[p]>> \o rr)
<1> DEFINE n == Len(rr)
           t == <<Extern[p]>> \o <<Local[p]>> \o rr
<1>1. /\ n \in Nat /\ Len(t) = n + 2
      /\ t[1] = Extern[p] /\ t[2] = Local[p]
      /\ \A i \in 3 .. n + 2 : t[i] = rr[i - 2]
  OBVIOUS
<1>2. /\ Owner[Extern[p]] = p /\ Owner[Local[p]] = p
      /\ Extern[p] \in OwnedAddress(p) /\ Local[p] \in OwnedAddress(p)
  BY AddressAssumption, NoneAssumption DEF OwnedAddress
<1> HIDE DEF t
<1>3. Recorders(t)
  <2> SUFFICES ASSUME NEW i \in 1 .. n + 2
               PROVE  Owner[t[i]] \in Proxies /\ t[i] \in OwnedAddress(Owner[t[i]])
    BY <1>1 DEF Recorders
  <2>1. CASE i \in {1, 2}
    BY <1>1, <1>2, <2>1
  <2>2. CASE i \notin {1, 2}
    <3>1. i - 2 \in 1 .. n /\ t[i] = rr[i - 2]
      BY <1>1, <2>2
    <3> QED BY <3>1 DEF Paired, Recorders
  <2> QED BY <2>1, <2>2
<1>4. Len(t) % 2 = 0
  BY <1>1 DEF Paired
<1>5. ASSUME NEW i \in 1 .. n + 2, Odd(i) PROVE Owner[t[i + 1]] = Owner[t[i]]
  <2>1. CASE i = 1
    BY <1>1, <1>2, <2>1
  <2>2. CASE i # 1
    <3>1. i >= 3 /\ i + 1 <= n + 2 /\ Odd(i - 2)
      BY <1>1, <1>4, <1>5, <2>2 DEF Odd
    <3>2. i - 2 \in 1 .. n /\ t[i] = rr[i - 2] /\ t[i + 1] = rr[(i - 2) + 1]
      <4>1. \A j \in 3 .. n + 2 : t[j] = rr[j - 2]
        BY <1>1
      <4>2. i \in 3 .. n + 2 /\ i + 1 \in 3 .. n + 2 /\ (i + 1) - 2 = (i - 2) + 1
        BY <1>1, <3>1
      <4> QED BY <1>1, <3>1, <4>1, <4>2
    <3> QED BY <3>1, <3>2 DEF Paired
  <2> QED BY <2>1, <2>2
<1> QED BY <1>1, <1>3, <1>4, <1>5 DEF Paired, t

\* In a list of even length an odd place is odd from behind too, but for one.
LEMMA OddFromBehind ==
  ASSUME NEW n \in Nat, n % 2 = 0, NEW i \in 1 .. n, Odd(i)
  PROVE  n - i \in 1 .. n /\ Odd(n - i)
<1>1. PICK a \in Nat : n = a + a
  <2>1. n \div 2 \in Nat /\ n = (n \div 2) + (n \div 2)
    OBVIOUS
  <2> QED BY <2>1
<1>2. PICK b \in Nat : i = b + b + 1
  <2>1. i \div 2 \in Nat /\ i = (i \div 2) + (i \div 2) + 1
    BY DEF Odd
  <2> QED BY <2>1
<1>3. n - i = 2 * (a - b - 1) + 1 /\ a - b - 1 \in Nat
  BY <1>1, <1>2
<1>4. (n - i) % 2 = 1
  BY <1>3
<1> QED BY <1>1, <1>2, <1>3, <1>4 DEF Odd

\* Read backwards, the pairs are the same.
LEMMA PairedReverse ==
  ASSUME NEW rr \in Seq(Addrs), Paired(rr)
  PROVE  Paired(Reverse(rr))
<1> DEFINE n == Len(rr)
           t == Reverse(rr)
<1>1. n \in Nat /\ Len(t) = n /\ \A i \in 1 .. n : t[i] = rr[n + 1 - i]
  BY DEF Reverse
<1> HIDE DEF t
<1>2. \A i \in 1 .. n : n + 1 - i \in 1 .. n
  BY <1>1
<1>3. Recorders(t)
  BY <1>1, <1>2 DEF Paired, Recorders
<1>4. ASSUME NEW i \in 1 .. n, Odd(i) PROVE Owner[t[i + 1]] = Owner[t[i]]
  <2> DEFINE j == n - i
  <2>1. n % 2 = 0
    BY DEF Paired
  <2>2. j \in 1 .. n /\ Odd(j)
    BY <1>1, <1>4, <2>1, OddFromBehind
  <2>3. i + 1 \in 1 .. n /\ n + 1 - (i + 1) = j /\ n + 1 - i = j + 1
    BY <1>1, <2>2
  <2>4. t[i + 1] = rr[j] /\ t[i] = rr[j + 1]
    BY <1>1, <2>3
  <2> HIDE DEF j
  <2> QED BY <2>2, <2>4 DEF Paired
<1> QED BY <1>1, <1>3, <1>4 DEF Paired, t

\* Each pair has a stop.
LEMMA PairedStops ==
  ASSUME NEW route \in Seq(Addrs), Paired(route)
  PROVE  {Owner[x] : x \in ToSet(route)} \subseteq Stops(route)
<1> SUFFICES ASSUME NEW i \in 1 .. Len(route) PROVE Owner[route[i]] \in Stops(route)
  BY DEF ToSet
<1>1. CASE Odd(i)
  BY <1>1 DEF Stops
<1>2. CASE ~Odd(i)
  <2> DEFINE j == i - 1
  <2>1. j \in 1 .. Len(route) /\ Odd(j) /\ j + 1 = i
    BY <1>2 DEF Odd
  <2>2. Owner[route[i]] = Owner[route[j]]
    BY <2>1 DEF Paired
  <2> HIDE DEF j
  <2> QED BY <2>1, <2>2 DEF Stops
<1> QED BY <1>1, <1>2

\* A proxy takes two Routes off: of the stops, only its own.
LEMMA StopTaken ==
  ASSUME NEW route \in Seq(Addrs), route # <<>>, Recorders(route)
  PROVE  /\ Recorders(SubSeq(route, 3, Len(route)))
         /\ Stops(route) \subseteq {Owner[Head(route)]} \cup Stops(SubSeq(route, 3, Len(route)))
<1> DEFINE t == SubSeq(route, 3, Len(route))
           n == Len(route)
<1>1. n \in Nat /\ n > 0 /\ Head(route) = route[1]
  BY EmptySeq
<1>2. /\ Len(t) = IF n >= 2 THEN n - 2 ELSE 0
      /\ \A i \in 1 .. Len(t) : t[i] = route[i + 2]
  BY <1>1
<1> HIDE DEF t
<1>3. Recorders(t)
  BY <1>1, <1>2 DEF Recorders
<1>4. ASSUME NEW i \in 1 .. n, Odd(i) PROVE i = 1 \/ Owner[route[i]] \in Stops(t)
  <2> SUFFICES ASSUME i # 1 PROVE Owner[route[i]] \in Stops(t)
    OBVIOUS
  <2>1. i >= 3 /\ n >= 3 /\ Odd(i - 2)
    BY <1>1, <1>4 DEF Odd
  <2>2. i - 2 \in 1 .. Len(t) /\ t[i - 2] = route[i]
    BY <1>1, <1>2, <2>1
  <2> QED BY <2>1, <2>2 DEF Stops
<1>5. Stops(route) \subseteq {Owner[route[1]]} \cup Stops(t)
  BY <1>4 DEF Stops
<1> QED BY <1>1, <1>3, <1>5 DEF t

\* A Via in front is a proxy passed.
LEMMA PassedAdded ==
  ASSUME NEW via \in Seq(Via), NEW v \in Via
  PROVE  PassedBy(<<v>> \o via) = {Owner[v.addr]} \cup PassedBy(via)
<1> DEFINE t == <<v>> \o via
<1>1. t \in Seq(Via) /\ Len(t) = Len(via) + 1 /\ t[1] = v /\ \A i \in 1 .. Len(via) : t[i + 1] = via[i]
  OBVIOUS
<1>2. Len(via) \in Nat /\ DOMAIN via = 1 .. Len(via)
  OBVIOUS
<1> HIDE DEF t
<1>3. DOMAIN t = 1 .. Len(via) + 1
  BY <1>1
<1>4. ToSet(t) \subseteq {v} \cup ToSet(via)
  <2> SUFFICES ASSUME NEW i \in 1 .. Len(via) + 1, i # 1 PROVE t[i] \in ToSet(via)
    BY <1>1, <1>3 DEF ToSet
  <2>1. i - 1 \in 1 .. Len(via) /\ (i - 1) + 1 = i
    BY <1>2
  <2>2. t[i] = via[i - 1]
    BY <1>1, <2>1
  <2> QED BY <1>2, <2>1, <2>2 DEF ToSet
<1>5. {v} \cup ToSet(via) \subseteq ToSet(t)
  <2>1. v \in ToSet(t)
    BY <1>1, <1>2, <1>3 DEF ToSet
  <2>2. ASSUME NEW i \in 1 .. Len(via) PROVE via[i] \in ToSet(t)
    <3>1. i + 1 \in 1 .. Len(via) + 1 /\ t[i + 1] = via[i]
      BY <1>1, <1>2
    <3> QED BY <1>3, <3>1 DEF ToSet
  <2> QED BY <1>2, <2>1, <2>2 DEF ToSet
<1> QED BY <1>4, <1>5 DEF PassedBy, t

\* A relayed request is on its path still.
LEMMA ForwardedPath ==
  ASSUME TwoAddresses, NEW p \in Proxies, NEW m \in RequestMessage, Path(m),
         ArrivesAt(p, m, "request"), m.hops > 0
  PROVE  Path(Forwarded(p, m, IF m.inDialog THEN None ELSE Bound[p][m.uri]))
<1> DEFINE contact == IF m.inDialog THEN None ELSE Bound[p][m.uri]
           addr == AdvertisedAddr(p, m, contact)
           v == [addr |-> addr, branch |-> m.hops]
           via == <<v>> \o m.via
           route == ConfigureRoute(p, m.route)
           rr == ConfigureRecordRoute(p, m.recordRoute, addr)
           f == Forwarded(p, m, contact)
<1>1. addr \in OwnedAddress(p) /\ addr \in Addrs /\ Owner[addr] = p
  BY AddressAssumption, NoneAssumption DEF AdvertisedAddr, OwnedAddress
<1>2. v \in Via /\ Owner[v.addr] = p
  BY <1>1, BoundsAssumption DEF RequestMessage, Via
<1>3. m.via \in Seq(Via) /\ m.route \in Seq(Addrs) /\ m.recordRoute \in Seq(Addrs)
      /\ m.type = "request" /\ m.inDialog \in BOOLEAN
  BY DEF RequestMessage
<1>4. PassedBy(via) = {p} \cup PassedBy(m.via)
  BY <1>2, <1>3, PassedAdded
<1>5. /\ f.type = "request" /\ f.inDialog = m.inDialog /\ f.via = via /\ f.route = route
      /\ f.recorded = m.recorded
      /\ f.recordRoute = IF m.inDialog THEN m.recordRoute ELSE rr
  BY DEF Forwarded, ConfigureVia, RequestMessage
<1> HIDE DEF f, via, v
<1>6. CASE m.inDialog
  <2>1. /\ Recorders(m.route) /\ m.recorded \subseteq PassedBy(m.via) \cup Stops(m.route)
        /\ Paired(m.recordRoute)
    BY <1>3, <1>6 DEF Path
  <2>2. Recorders(route) /\ Stops(m.route) \subseteq {p} \cup Stops(route)
    <3>1. CASE m.route = <<>>
      BY <2>1, <3>1 DEF ConfigureRoute
    <3>2. CASE m.route # <<>>
      <4>1. Owner[Head(m.route)] = p
        BY <1>3, <3>2 DEF ArrivesAt, NextHop
      <4>2. Head(m.route) = m.route[1] /\ 1 \in 1 .. Len(m.route)
        BY <1>3, <3>2, EmptySeq
      <4>3. Head(m.route) \in OwnedAddress(p)
        BY <2>1, <4>1, <4>2 DEF Recorders
      <4>4. route = SubSeq(m.route, 3, Len(m.route))
        BY <3>2, <4>3 DEF ConfigureRoute
      <4> HIDE DEF route
      <4> QED BY <1>3, <2>1, <3>2, <4>1, <4>4, StopTaken
    <3> QED BY <3>1, <3>2
  <2> HIDE DEF route
  <2>3. m.recorded \subseteq PassedBy(via) \cup Stops(route)
    BY <1>4, <2>1, <2>2
  <2> QED BY <1>3, <1>5, <1>6, <2>1, <2>2, <2>3 DEF Path, f
<1>7. CASE ~m.inDialog
  <2>1. Paired(m.recordRoute) /\ m.recorded = {}
    BY <1>3, <1>7 DEF Path
  <2>2. Paired(rr)
    <3>1. CASE p \notin RecordRoute
      BY <2>1, <3>1 DEF ConfigureRecordRoute
    <3>2. CASE p \in RecordRoute
      <4>1. Extern[p] # None /\ addr \in Public
        BY <1>1, <3>2 DEF TwoAddresses
      <4>2. rr = <<Extern[p]>> \o <<Local[p]>> \o m.recordRoute
        BY <3>2, <4>1 DEF ConfigureRecordRoute
      <4> HIDE DEF rr
      <4> QED BY <1>3, <2>1, <4>1, <4>2, PairedInFront
    <3> QED BY <3>1, <3>2
  <2> HIDE DEF rr
  <2> QED BY <1>3, <1>5, <1>7, <2>1, <2>2 DEF Path, f
<1> QED BY <1>6, <1>7

\* A reply has the Record-Routes of its request.
LEMMA ReplyPath ==
  ASSUME NEW m, Path(m), NEW status, NEW contact
  PROVE  Path(Reply(m, status, contact))
BY DEF Path, Reply

\* A response passed on has them too.
LEMMA ShiftedPath ==
  ASSUME NEW r \in ResponseMessage, Path(r)
  PROVE  Path([r EXCEPT !.via = Tail(@)])
<1> DEFINE s == [r EXCEPT !.via = Tail(@)]
<1>1. s.type = "response" /\ s.recordRoute = r.recordRoute
  BY DEF ResponseMessage
<1> QED BY <1>1 DEF Path

\* What a host has to show of what it sends.
LEMMA ExchangePath ==
  ASSUME NEW m, NEW out, Exchange(m, out), \A n \in network : Path(n), \A n \in out : Path(n)
  PROVE  \A n \in network' : Path(n)
BY DEF Exchange

\* Each step of a proxy keeps the paths.
LEMMA PathsHandle ==
  ASSUME TwoAddresses, Inv, Paths, NEW p \in Proxies, Handle(p)
  PROVE  Paths'
<1>1. PICK m \in network :
        Refuse(p, m) \/ Exhaust(p, m) \/ Relay(p, m) \/ ProcessResponse(p, m)
  BY DEF Handle
<1>2. UNCHANGED dialog
  BY DEF Handle, Refuse, Exhaust, Relay, ProcessResponse
<1>3. Path(m) /\ m \in Message
  BY InvParts DEF Paths, Sound
<1>4. \E out : Exchange(m, out) /\ \A n \in out : Path(n)
  <2>1. CASE Refuse(p, m)
    <3> DEFINE r == Reply(m, "unavailable", None)
    <3>1. Exchange(m, {r}) /\ \A n \in {r} : Path(n)
      BY <1>3, <2>1, ReplyPath DEF Refuse
    <3> HIDE DEF r
    <3> QED BY <3>1
  <2>2. CASE Exhaust(p, m)
    BY <2>2 DEF Exhaust
  <2>3. CASE Relay(p, m)
    <3> DEFINE f == Forwarded(p, m, IF m.inDialog THEN None ELSE Bound[p][m.uri])
    <3>1. m \in RequestMessage /\ m.hops > 0 /\ ArrivesAt(p, m, "request") /\ Exchange(m, {f})
      BY <1>3, <2>3 DEF Relay, ArrivesAt, Message, ResponseMessage
    <3>2. Path(f)
      BY <1>3, <3>1, ForwardedPath
    <3> HIDE DEF f
    <3> QED BY <3>1, <3>2
  <2>4. CASE ProcessResponse(p, m)
    <3> DEFINE s == [m EXCEPT !.via = Tail(@)]
    <3>1. m \in ResponseMessage
      BY <1>3, <2>4 DEF ProcessResponse, ArrivesAt, Message, RequestMessage
    <3>2. Path(s)
      BY <1>3, <3>1, ShiftedPath
    <3>3. Exchange(m, {}) \/ Exchange(m, {s})
      BY <2>4 DEF ProcessResponse
    <3> HIDE DEF s
    <3> QED BY <3>2, <3>3
  <2> QED BY <1>1, <2>1, <2>2, <2>3, <2>4
<1>5. \A n \in network' : Path(n)
  BY <1>4, ExchangePath DEF Paths
<1> QED BY <1>2, <1>5 DEF Paths

\* Each step of an agent keeps them.
LEMMA PathsReact ==
  ASSUME Inv, Paths, NEW a \in Agents, React(a)
  PROVE  Paths'
<1>1. PICK m \in network :
        \/ \E status \in Statuses \ {"unavailable"} : Answer(a, m, status)
        \/ Conclude(a, m)
  BY DEF React
<1>2. Path(m) /\ m \in Message /\ Paired(m.recordRoute) /\ DOMAIN dialog = Agents
  BY InvParts DEF Paths, Path, Sound, Rest
<1>3. CASE \E status \in Statuses : Answer(a, m, status)
  <2>1. PICK status \in Statuses : Answer(a, m, status)
    BY <1>3
  <2> DEFINE r == Reply(m, status, Contact[a])
             d == [uri |-> Contact[m.id.from], route |-> m.recordRoute]
  <2>2. Exchange(m, {r}) /\ \A n \in {r} : Path(n)
    BY <1>2, <2>1, ReplyPath DEF Answer
  <2>3. \A n \in network' : Path(n)
    BY <2>2, ExchangePath DEF Paths
  <2>4. dialog' = dialog \/ dialog' = [dialog EXCEPT ![a] = d]
    BY <2>1 DEF Answer
  <2>5. d.route = m.recordRoute
    OBVIOUS
  <2> HIDE DEF d
  <2> QED BY <1>2, <2>3, <2>4, <2>5 DEF Paths
<1>4. CASE Conclude(a, m)
  <2> DEFINE d == [uri |-> m.contact, route |-> Reverse(m.recordRoute)]
  <2>1. m.recordRoute \in Seq(Addrs)
    BY <1>2 DEF Message, RequestMessage, ResponseMessage
  <2>2. Paired(Reverse(m.recordRoute))
    BY <1>2, <2>1, PairedReverse
  <2>3. \A n \in network' : Path(n)
    BY <1>4, ExchangePath DEF Conclude, Paths
  <2>4. dialog' = dialog \/ dialog' = [dialog EXCEPT ![a] = d]
    BY <1>4 DEF Conclude
  <2>5. d.route = Reverse(m.recordRoute)
    OBVIOUS
  <2> HIDE DEF d
  <2> QED BY <1>2, <2>2, <2>3, <2>4, <2>5 DEF Paths
<1> QED BY <1>1, <1>3, <1>4

\* So does a new request: in a dialog it stops at every recorded proxy.
LEMMA PathsSend ==
  ASSUME Inv, Paths, NEW a \in Agents, Follow(a) \/ \E o \in Openings : Open(a, o)
  PROVE  Paths'
<1>1. PICK uri \in Uris, route \in Seq(Addrs), inDialog \in BOOLEAN :
        /\ Send(a, uri, route, inDialog)
        /\ inDialog => Paired(route)
  <2>1. CASE Follow(a)
    BY <2>1, InvParts DEF Follow, Rest, Dialog, Paths
  <2>2. CASE \E o \in Openings : Open(a, o)
    BY <2>2, OpeningsAssumption DEF Open
  <2> QED BY <2>1, <2>2
<1> DEFINE m == [type |-> "request", id |-> [from |-> a, n |-> sent + 1], uri |-> uri,
                 inDialog |-> inDialog, hops |-> MaxForwards,
                 via |-> <<[addr |-> Host[Contact[a]], branch |-> MaxForwards + 1]>>,
                 route |-> route, recordRoute |-> <<>>,
                 recorded |-> IF inDialog
                   THEN {Owner[x] : x \in ToSet(route)} \cap Proxies ELSE {}]
<1>2. network' = network \cup {m} /\ dialog' = dialog
  BY <1>1 DEF Send
<1>3. /\ m.type = "request" /\ m.inDialog = inDialog /\ m.route = route /\ m.recordRoute = <<>>
      /\ m.recorded = IF inDialog THEN {Owner[x] : x \in ToSet(route)} \cap Proxies ELSE {}
  OBVIOUS
<1> HIDE DEF m
<1>4. inDialog => Recorders(route) /\ {Owner[x] : x \in ToSet(route)} \subseteq Stops(route)
  BY <1>1, PairedStops DEF Paired
<1>5. Path(m)
  BY <1>3, <1>4, PairedEmpty DEF Path
<1> QED BY <1>2, <1>5 DEF Paths

\* Every step keeps the paths.
LEMMA PathsStep == TwoAddresses /\ Inv /\ Paths /\ [Next]_vars => Paths'
<1> SUFFICES ASSUME TwoAddresses, Inv, Paths, [Next]_vars PROVE Paths'
  OBVIOUS
<1>1. ASSUME NEW m \in network, Lose(m) PROVE Paths'
  BY <1>1 DEF Lose, Paths
<1>2. CASE UNCHANGED vars
  BY <1>2 DEF vars, Paths
<1> QED BY <1>1, <1>2, PathsHandle, PathsReact, PathsSend DEF Next

(***************************************************************************)
(* The two addresses of each recorded proxy stand side by side, in every   *)
(* message and in what each agent remembers of its dialog; and a request   *)
(* of a dialog has passed, or has yet to stop at, all of the proxies that  *)
(* were recorded for it.                                                   *)
(***************************************************************************)
THEOREM PathsHold == ASSUME TwoAddresses PROVE Spec => []Paths
<1>1. Init => Paths
  BY DEF Init, Paths
<1>2. Inv /\ Paths /\ [Next]_vars => Paths'
  BY PathsStep
<1> QED BY <1>1, <1>2, InvAlways, PTL DEF Spec

(***************************************************************************)
(* If the proxies that record themselves record two addresses each time,   *)
(* every later request of a dialog passes all of them, in whatever order   *)
(* and however often the first request came by them: each appears at both  *)
(* ends of the Record-Routes, and although a proxy takes two Routes off,   *)
(* its own and the next proxy's, one of its two is looked at.              *)
(***************************************************************************)
THEOREM DialogStaysInPath == ASSUME TwoAddresses PROVE Spec => []StaysInPath
<1>1. Inv /\ Paths => StaysInPath
  <2> SUFFICES ASSUME Inv, Paths, NEW m \in network, NEW a \in Agents, ArrivesAt(a, m, "request")
               PROVE  m.recorded \subseteq Passed(m)
    BY DEF StaysInPath
  <2>1. Path(m) /\ m \in RequestMessage /\ m.type = "request"
    BY InvParts DEF Paths, Sound, ArrivesAt, Message, ResponseMessage
  <2>2. CASE ~m.inDialog
    BY <2>1, <2>2 DEF Path
  <2>3. CASE m.inDialog
    <3>1. Recorders(m.route) /\ m.recorded \subseteq PassedBy(m.via) \cup Stops(m.route)
      BY <2>1, <2>3 DEF Path
    <3>2. m.route = <<>>
      <4> SUFFICES ASSUME m.route # <<>> PROVE FALSE
        OBVIOUS
      <4>1. Owner[Head(m.route)] = a
        BY <2>1 DEF ArrivesAt, NextHop
      <4>2. m.route \in Seq(Addrs)
        BY <2>1 DEF RequestMessage
      <4>3. Head(m.route) = m.route[1] /\ 1 \in 1 .. Len(m.route)
        BY <4>2, EmptySeq
      <4>4. a \in Proxies
        BY <3>1, <4>1, <4>3 DEF Recorders
      <4> QED BY <4>4, HostsAssumption
    <3>3. Stops(m.route) = {}
      BY <3>2 DEF Stops
    <3> QED BY <3>1, <3>3 DEF Passed, PassedBy
  <2> QED BY <2>1, <2>2, <2>3 DEF RequestMessage
<1> QED BY <1>1, InvAlways, PathsHold, PTL

-----------------------------------------------------------------------------
(* Answers on their way.                                                   *)

\* A response that a proxy gets has another Via.
LEMMA ViaLeft ==
  ASSUME NEW via \in Seq(Via), via # <<>>, NEW a \in Agents, LeadsHome(via, a),
         Owner[Head(via).addr] \in Proxies
  PROVE  Tail(via) # <<>>
<1> SUFFICES ASSUME Tail(via) = <<>> PROVE FALSE
  OBVIOUS
<1>1. Len(via) = 1 /\ Head(via) = via[1]
  <2>1. /\ Len(via) \in Nat /\ Head(via) = via[1]
        /\ Tail(via) \in Seq(Via) /\ Len(Tail(via)) = Len(via) - 1
    BY EmptySeq
  <2>2. Len(Tail(via)) = 0
    BY <2>1, EmptySeq
  <2> QED BY <2>1, <2>2
<1>2. Owner[Host[Contact[a]]] \in Proxies
  BY <1>1 DEF LeadsHome
<1> QED BY <1>2, AddressAssumption, HostsAssumption

\* A response that an agent gets is of a request of its own.
LEMMA AtHome ==
  ASSUME NEW via \in Seq(Via), via # <<>>, NEW a \in Agents, LeadsHome(via, a),
         NEW b \in Agents, Owner[Head(via).addr] = b
  PROVE  b = a
<1>1. Len(via) \in Nat \ {0} /\ Head(via) = via[1]
  BY EmptySeq
<1>2. CASE Len(via) = 1
  BY <1>1, <1>2, AddressAssumption DEF LeadsHome
<1>3. CASE Len(via) # 1
  <2> DEFINE n == Len(via)
  <2>1. 1 \in 1 .. n - 1
    <3>1. n \in Nat \ {0} /\ n # 1
      BY <1>1, <1>3
    <3> HIDE DEF n
    <3> QED BY <3>1
  <2>2. b \in Proxies
    BY <1>1, <2>1 DEF LeadsHome
  <2> QED BY <2>2, HostsAssumption
<1> QED BY <1>2, <1>3

\* The answers among the responses.
Answers(r, i) == r.type = "response" /\ r.id = i /\ r.status \in {"ok", "unavailable"}

\* An exchange keeps the answers, but for those it takes.
LEMMA ExchangeKeeps ==
  ASSUME NEW m, NEW out, Exchange(m, out), NEW n \in network, n # m \/ n \in out
  PROVE  n \in network'
BY DEF Exchange

\* A proxy passes an answer on.
LEMMA SurvivesHandle ==
  ASSUME Inv, NEW p \in Proxies, Handle(p), NEW i, NEW r \in network, Answers(r, i)
  PROVE  \E s \in network' : Answers(s, i)
<1>1. PICK m \in network :
        Refuse(p, m) \/ Exhaust(p, m) \/ Relay(p, m) \/ ProcessResponse(p, m)
  BY DEF Handle
<1>2. \E out : Exchange(m, out)
  BY <1>1 DEF Refuse, Exhaust, Relay, ProcessResponse
<1>3. CASE m # r
  BY <1>2, <1>3, ExchangeKeeps
<1>4. CASE m = r
  <2>1. m.type = "response" /\ ProcessResponse(p, m) /\ Owner[Head(m.via).addr] = p
    BY <1>1, <1>4 DEF Answers, Refuse, Exhaust, Relay, ProcessResponse, ArrivesAt, NextHop
  <2>2. Sound(m) /\ m \in ResponseMessage
    BY <2>1, InvParts DEF Sound, Message, RequestMessage
  <2>3. Tail(m.via) # <<>>
    BY <2>1, <2>2, ViaLeft DEF Sound, ResponseMessage, Id
  <2>4. ~IsStackJob(m) /\ ~MustAuthenticate(m)
    BY <1>4 DEF Answers, IsStackJob, MustAuthenticate
  <2> DEFINE s == [m EXCEPT !.via = Tail(@)]
  <2>5. Exchange(m, {s})
    BY <2>1, <2>3, <2>4 DEF ProcessResponse, Dropped
  <2>6. Answers(s, i)
    BY <1>4, <2>2 DEF Answers, ResponseMessage
  <2> HIDE DEF s
  <2>7. s \in network'
    BY <2>5 DEF Exchange
  <2> QED BY <2>6, <2>7
<1> QED BY <1>3, <1>4

\* An agent takes those of its own requests.
LEMMA SurvivesReact ==
  ASSUME Inv, NEW a \in Agents, React(a), NEW i, NEW r \in network, Answers(r, i)
  PROVE  (\E s \in network' : Answers(s, i)) \/ i \in delivered'
<1>1. PICK m \in network : (\E status \in Statuses : Answer(a, m, status)) \/ Conclude(a, m)
  BY DEF React
<1>2. \E out : Exchange(m, out)
  BY <1>1 DEF Answer, Conclude
<1>3. CASE m # r
  BY <1>2, <1>3, ExchangeKeeps
<1>4. CASE m = r
  <2>1. m.type = "response" /\ Conclude(a, m) /\ Owner[Head(m.via).addr] = a
    BY <1>1, <1>4 DEF Answers, Answer, Conclude, ArrivesAt, NextHop
  <2>2. Sound(m) /\ m \in ResponseMessage
    BY <2>1, InvParts DEF Sound, Message, RequestMessage
  <2>3. m.id.from = a
    BY <2>1, <2>2, AtHome DEF Sound, ResponseMessage, Id
  <2> QED BY <1>4, <2>1, <2>3 DEF Conclude, Answers
<1> QED BY <1>3, <1>4

(***************************************************************************)
(* No answer is dropped on its way: a proxy that gets one, whether its     *)
(* transaction lives or not, has a Via left to send it to, and the agent   *)
(* that gets it is the one that asked.                                     *)
(***************************************************************************)
THEOREM AnswersNotDropped == Spec => AnswersSurvive
<1>1. Inv /\ [Next]_vars =>
        [\A i \in Id : Answered(i) => Answered(i)' \/ i \in delivered' \/ lost']_vars
  <2> SUFFICES ASSUME Inv, Next, NEW i \in Id, Answered(i)
               PROVE  Answered(i)' \/ i \in delivered' \/ lost'
    OBVIOUS
  <2>1. PICK r \in network : Answers(r, i)
    BY DEF Answered, Answers
  <2>2. ASSUME NEW s \in network', Answers(s, i) PROVE Answered(i)'
    BY <2>2 DEF Answered, Answers
  <2>3. CASE \E p \in Proxies : Handle(p)
    BY <2>1, <2>2, <2>3, SurvivesHandle
  <2>4. CASE \E a \in Agents : React(a)
    BY <2>1, <2>2, <2>4, SurvivesReact
  <2>5. CASE \E a \in Agents : Follow(a) \/ \E o \in Openings : Open(a, o)
    <3>1. r \in network'
      BY <2>5 DEF Follow, Open, Send
    <3> QED BY <2>1, <2>2, <3>1
  <2>6. CASE \E m \in network : Lose(m)
    BY <2>6 DEF Lose
  <2> QED BY <2>3, <2>4, <2>5, <2>6 DEF Next
<1> QED BY <1>1, InvAlways, PTL DEF Spec, AnswersSurvive

-----------------------------------------------------------------------------
(* The traffic runs down.                                                  *)

LEMMA HostsLeftNat ==
  ASSUME NEW m, Sound(m)
  PROVE  /\ HostsLeft(m) \in Nat \ {0}
         /\ Len(m.via) \in Nat \ {0}
         /\ m.type = "request" => m.hops \in Nat /\ HostsLeft(m) = 2 * m.hops + Len(m.via) + 1
         /\ m.type = "response" => HostsLeft(m) = Len(m.via)
<1>1. m \in Message /\ m.via # <<>> /\ m.via \in Seq(Via)
  BY DEF Sound, Message, RequestMessage, ResponseMessage
<1>2. Len(m.via) \in Nat \ {0}
  BY <1>1, EmptySeq
<1>3. CASE m.type = "request"
  <2>1. m.hops \in Nat
    BY <1>1, <1>3, BoundsAssumption DEF Message, RequestMessage, ResponseMessage
  <2> QED BY <1>2, <1>3, <2>1 DEF HostsLeft
<1>4. CASE m.type # "request"
  BY <1>2, <1>4 DEF HostsLeft
<1> QED BY <1>2, <1>3, <1>4

\* A message makes way for others that have fewer hosts left.
LEMMA ExchangeRuns ==
  ASSUME Inv, NEW m \in network, NEW out, Exchange(m, out), mishaps' = mishaps,
         \A n \in out : HostsLeft(n) < HostsLeft(m)
  PROVE  \E g \in network \ network' : \A n \in network' \ network : HostsLeft(n) < HostsLeft(g)
<1>1. Sound(m) /\ mishaps \in Nat
  BY InvParts, BoundsAssumption
<1>2. HostsLeft(m) \in Nat
  BY <1>1, HostsLeftNat
<1>3. m \notin out
  BY <1>2
<1>4. network' = (network \ {m}) \cup out
  BY <1>1 DEF Exchange
<1>5. m \in network \ network' /\ \A n \in network' \ network : n \in out
  BY <1>3, <1>4
<1> QED BY <1>5

\* A response has the Vias of its request, and no hops.
LEMMA ReplyRuns ==
  ASSUME NEW m, Sound(m), m.type = "request", NEW status, NEW contact
  PROVE  HostsLeft(Reply(m, status, contact)) < HostsLeft(m)
<1>1. HostsLeft(Reply(m, status, contact)) = Len(m.via)
  BY DEF Reply, HostsLeft
<1> QED BY <1>1, HostsLeftNat

\* A request that goes on has one forward less and one Via more.
LEMMA ForwardRuns ==
  ASSUME NEW p \in Proxies, NEW m, Sound(m), m.type = "request", m.hops > 0, NEW contact
  PROVE  HostsLeft(Forwarded(p, m, contact)) < HostsLeft(m)
<1> DEFINE addr == AdvertisedAddr(p, m, contact)
           v == [addr |-> addr, branch |-> m.hops]
           via == <<v>> \o m.via
           f == Forwarded(p, m, contact)
<1>1. m \in RequestMessage
  BY DEF Sound, Message, ResponseMessage
<1>2. f.type = "request" /\ f.hops = m.hops - 1 /\ f.via = via
  BY <1>1 DEF Forwarded, ConfigureVia, ConfigureMaxForwards, RequestMessage
<1>3. Len(via) = Len(m.via) + 1
  <2>1. addr \in Addrs
    BY AddressAssumption, NoneAssumption DEF AdvertisedAddr
  <2>2. v \in Via /\ m.via \in Seq(Via)
    BY <1>1, <2>1, BoundsAssumption DEF RequestMessage, Via
  <2> HIDE DEF v
  <2> QED BY <2>2
<1> HIDE DEF f, via
<1>4. HostsLeft(f) = 2 * (m.hops - 1) + (Len(m.via) + 1) + 1
  BY <1>2, <1>3 DEF HostsLeft
<1> QED BY <1>4, HostsLeftNat DEF f

\* A response that is passed on has one Via less.
LEMMA ShiftRuns ==
  ASSUME NEW r, Sound(r), r.type = "response"
  PROVE  HostsLeft([r EXCEPT !.via = Tail(@)]) < HostsLeft(r)
<1> DEFINE s == [r EXCEPT !.via = Tail(@)]
<1>1. r \in ResponseMessage /\ r.via \in Seq(Via) /\ r.via # <<>>
  BY DEF Sound, Message, RequestMessage, ResponseMessage
<1>2. s.type = "response" /\ s.via = Tail(r.via)
  BY <1>1 DEF ResponseMessage
<1>3. Len(Tail(r.via)) = Len(r.via) - 1
  BY <1>1, EmptySeq
<1> HIDE DEF s
<1>4. HostsLeft(s) = Len(r.via) - 1
  BY <1>2, <1>3 DEF HostsLeft
<1> QED BY <1>4, HostsLeftNat DEF s

\* A proxy takes a message.
LEMMA HandleRuns ==
  ASSUME Inv, NEW p \in Proxies, Handle(p), mishaps' = mishaps
  PROVE  \E g \in network \ network' : \A n \in network' \ network : HostsLeft(n) < HostsLeft(g)
<1>1. PICK m \in network :
        Refuse(p, m) \/ Exhaust(p, m) \/ Relay(p, m) \/ ProcessResponse(p, m)
  BY DEF Handle
<1>2. Sound(m)
  BY InvParts
<1>3. CASE Refuse(p, m)
  BY <1>2, <1>3, ReplyRuns, ExchangeRuns DEF Refuse, ArrivesAt
<1>4. CASE Exhaust(p, m)
  BY <1>4, ExchangeRuns DEF Exhaust
<1>5. CASE Relay(p, m)
  <2> DEFINE f == Forwarded(p, m, IF m.inDialog THEN None ELSE Bound[p][m.uri])
  <2>1. Exchange(m, {f}) /\ m.type = "request" /\ m.hops > 0
    BY <1>5 DEF Relay, ArrivesAt
  <2>2. HostsLeft(f) < HostsLeft(m)
    BY <1>2, <2>1, ForwardRuns
  <2> HIDE DEF f
  <2> QED BY <2>1, <2>2, ExchangeRuns
<1>6. CASE ProcessResponse(p, m)
  <2> DEFINE s == [m EXCEPT !.via = Tail(@)]
  <2>1. m.type = "response" /\ (Exchange(m, {}) \/ Exchange(m, {s}))
    BY <1>6 DEF ProcessResponse, ArrivesAt
  <2>2. HostsLeft(s) < HostsLeft(m)
    BY <1>2, <2>1, ShiftRuns
  <2> HIDE DEF s
  <2> QED BY <2>1, <2>2, ExchangeRuns
<1> QED BY <1>1, <1>3, <1>4, <1>5, <1>6

\* An agent takes one.
LEMMA ReactRuns ==
  ASSUME Inv, NEW a \in Agents, React(a), mishaps' = mishaps
  PROVE  \E g \in network \ network' : \A n \in network' \ network : HostsLeft(n) < HostsLeft(g)
<1>1. PICK m \in network : (\E status \in Statuses : Answer(a, m, status)) \/ Conclude(a, m)
  BY DEF React
<1>2. Sound(m)
  BY InvParts
<1>3. ASSUME NEW status \in Statuses, Answer(a, m, status)
      PROVE  \E g \in network \ network' :
               \A n \in network' \ network : HostsLeft(n) < HostsLeft(g)
  <2>1. Exchange(m, {Reply(m, status, Contact[a])}) /\ m.type = "request"
    BY <1>3 DEF Answer, ArrivesAt
  <2>2. HostsLeft(Reply(m, status, Contact[a])) < HostsLeft(m)
    BY <1>2, <2>1, ReplyRuns
  <2> QED BY <2>1, <2>2, ExchangeRuns
<1>4. CASE Conclude(a, m)
  BY <1>4, ExchangeRuns DEF Conclude
<1> QED BY <1>1, <1>3, <1>4

(***************************************************************************)
(* Whatever the locators bind to whatever and wherever the Routes lead, a  *)
(* message that is taken makes way for messages with fewer hosts left to   *)
(* come by: one forward less and one Via more, no forwards any more, or    *)
(* one Via less.  So requests and responses run out, between two requests  *)
(* that agents send and two mishaps of the network.                        *)
(***************************************************************************)
THEOREM TrafficRuns == Spec => TrafficRunsDown
<1>1. Inv /\ [Next]_vars =>
        [sent' = sent /\ mishaps' = mishaps =>
           \E m \in network \ network' :
             \A n \in network' \ network : HostsLeft(n) < HostsLeft(m)]_vars
  <2> SUFFICES ASSUME Inv, Next, sent' = sent, mishaps' = mishaps
               PROVE  \E m \in network \ network' :
                        \A n \in network' \ network : HostsLeft(n) < HostsLeft(m)
    OBVIOUS
  <2>1. sent \in Nat /\ mishaps \in Nat
    BY InvParts, BoundsAssumption DEF Rest
  <2>2. ~\E a \in Agents : Follow(a) \/ \E o \in Openings : Open(a, o)
    BY <2>1 DEF Follow, Open, Send
  <2>3. ~\E m \in network : Lose(m)
    BY <2>1 DEF Lose
  <2> QED BY <2>2, <2>3, HandleRuns, ReactRuns DEF Next
<1> QED BY <1>1, InvAlways, PTL DEF Spec, TrafficRunsDown
=============================================================================
