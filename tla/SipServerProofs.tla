--------------------------- MODULE SipServerProofs ---------------------------
(***************************************************************************)
(* Proofs about SipServer, for every set of replicas and of requests,      *)
(* every configuration and every bound.                                    *)
(***************************************************************************)
EXTENDS SipServer, TLAPS

USE ConfigAssumption, AbsentAssumption, ContactsAssumption, RequestsAssumption,
    MishapsAssumption, RouteAssumption

(***************************************************************************)
(* The keys of a request.                                                  *)
(***************************************************************************)
LEMMA Keys ==
  ASSUME NEW q \in Requests
  PROVE  /\ q \in Request
         /\ StorageKey(q) \in Uri
         /\ RemovalKey(q) \in Uri
         /\ RoutingKey(q) \in Uri
         /\ PatchedUri(q) \in Uri
<1>1. q \in Request
  OBVIOUS
<1>2. q.to \in Uri /\ q.uri \in Uri /\ q.from \in Uri
      /\ q.from.user \in Users /\ q.to.host \in Hosts
  BY <1>1 DEF Request, Uri
<1>3. \A u \in Uri : AorAsString(u) \in Uri
  BY DEF AorAsString, Uri
<1>4. PatchedUri(q) \in Uri
  BY <1>2 DEF PatchedUri, Uri
<1>5. StorageKey(q) \in Uri
  BY <1>2 DEF StorageKey, Uri
<1> QED
  BY <1>1, <1>2, <1>3, <1>4, <1>5 DEF RoutingKey, RemovalKey

(***************************************************************************)
(* How a handler moves: no other changes, and it keeps its request.        *)
(***************************************************************************)
Pcs == {"free"} \cup Outcomes \cup Steps
Targets == Contacts \cup Uri \cup {None}

LEMMA GotoEffect ==
  ASSUME handler \in [Servers -> Handler], NEW s \in Servers, NEW pc \in Pcs,
         Goto(s, pc)
  PROVE  /\ handler' \in [Servers -> Handler]
         /\ handler'[s].pc = pc
         /\ handler'[s].req = handler[s].req
         /\ handler'[s].target = handler[s].target
         /\ \A t \in Servers \ {s} : handler'[t] = handler[t]
  BY DEF Goto, Handler, Pcs

LEMMA AimEffect ==
  ASSUME handler \in [Servers -> Handler], NEW s \in Servers, NEW pc \in Pcs,
         NEW target \in Targets, Aim(s, pc, target)
  PROVE  /\ handler' \in [Servers -> Handler]
         /\ handler'[s].pc = pc
         /\ handler'[s].req = handler[s].req
         /\ handler'[s].target = target
         /\ \A t \in Servers \ {s} : handler'[t] = handler[t]
  BY DEF Aim, Handler, Pcs, Targets

LEMMA DeliverEffect ==
  ASSUME handler \in [Servers -> Handler], NEW s \in Servers,
         NEW q \in Requests, Deliver(s, q)
  PROVE  /\ handler' \in [Servers -> Handler]
         /\ handler'[s].pc = FirstStep(q)
         /\ handler'[s].req = q
         /\ FirstStep(q) = "forward" => handler'[s].target = PatchedUri(q)
         /\ \A t \in Servers \ {s} : handler'[t] = handler[t]
<1>1. FirstStep(q) \in Pcs
  BY DEF FirstStep, RouteStep, Pcs, Outcomes, Steps
<1>2. FirstStep(q) = "forward" => q.inDialog
  BY DEF FirstStep, RouteStep
<1>3. InitialTarget(q) \in Targets
  BY Keys DEF InitialTarget, Targets
<1> DEFINE h == [pc |-> FirstStep(q), req |-> q,
                 target |-> IF FirstStep(q) = "forward" THEN InitialTarget(q)
                                                        ELSE None]
<1>4. h \in Handler
  BY <1>1, <1>3 DEF Handler, Pcs, Targets
<1>5. handler' = [handler EXCEPT ![s] = h]
  BY DEF Deliver
<1>6. h.pc = FirstStep(q) /\ h.req = q
      /\ (FirstStep(q) = "forward" => h.target = PatchedUri(q))
  BY <1>2 DEF InitialTarget
<1> HIDE DEF h
<1> QED
  BY <1>4, <1>5, <1>6

(***************************************************************************)
(* The inductive invariant.  A handler is where its request takes it, a    *)
(* question is under way only for the handler that asked it, and a         *)
(* registration that is about to be acknowledged is in the store.          *)
(***************************************************************************)
OnTrack(s) ==
  LET pc == handler[s].pc
      q == Req(s)
  IN /\ pc \in {"authorise", "digest"} => NeedsLogin(q)
     /\ pc = "digest" => q.login # None
     /\ pc = "put" => Registers(q)
     /\ pc = "remove" => IsUnregister(q)
     /\ pc = "reply" => IsRegister(q) \/ IsUnregister(q)
     /\ pc = "find" => IsMessage(q) /\ ~q.inDialog
     /\ pc = "forward" => IsMessage(q)
     /\ pc = "forward" /\ q.inDialog => handler[s].target = PatchedUri(q)

AskedByHandler(s) ==
  answer[s].phase # "idle" =>
    /\ handler[s].pc = "authorise"
    /\ Req(s).login # None
    /\ answer[s].login = Req(s).login

AboutToPromise(s) ==
  handler[s].pc = "reply" /\ IsRegister(Req(s))
    => location[StorageKey(Req(s))] # None

IInv ==
  /\ TypeOK
  /\ PromisesKept
  /\ \A s \in Servers : OnTrack(s) /\ AskedByHandler(s) /\ AboutToPromise(s)

LEMMA DirectoryType ==
  ASSUME Dir!TypeOK, NEW s \in Servers
  PROVE  /\ (\E l \in Login : Dir!Ask(s, l)) \/ Dir!Pursue(s) \/ Dir!Leave(s)
              => Dir!TypeOK' /\ \A t \in Servers \ {s} : answer'[t] = answer[t]
         /\ Dir!Leave(s) => answer'[s].phase = "idle"
         /\ \A l \in Login : Dir!Ask(s, l) => answer'[s].login = l
         /\ Dir!Pursue(s) => answer'[s].login = answer[s].login
                             /\ answer[s].phase = "asking"
<1> USE DEF Dir!TypeOK, Dir!Verdicts, Dir!Reach, Dir!Unsettle
<1>1. \A l \in Login : Dir!Ask(s, l) =>
        /\ Dir!TypeOK'
        /\ answer'[s].login = l
        /\ \A t \in Servers \ {s} : answer'[t] = answer[t]
  BY DEF Dir!Ask
<1>2. Dir!Pursue(s) =>
        /\ Dir!TypeOK'
        /\ answer'[s].login = answer[s].login
        /\ answer[s].phase = "asking"
        /\ \A t \in Servers \ {s} : answer'[t] = answer[t]
  <2> SUFFICES ASSUME Dir!Pursue(s)
               PROVE  /\ Dir!TypeOK'
                      /\ answer'[s].login = answer[s].login
                      /\ \A t \in Servers \ {s} : answer'[t] = answer[t]
    BY DEF Dir!Pursue
  <2>1. gone' \in [Login -> Dir!Ages] /\ steady' \in [Login -> Dir!Ages]
    BY WindowAssumption DEF Dir!Pursue, Dir!Ages
  <2>2. PICK phase \in Dir!Verdicts \cup {"asking"} :
          answer' = [answer EXCEPT ![s] = [phase |-> phase, login |-> answer[s].login]]
    BY DEF Dir!Pursue
  <2> QED
    BY <2>1, <2>2
<1>3. Dir!Leave(s) =>
        /\ Dir!TypeOK'
        /\ answer'[s].phase = "idle"
        /\ \A t \in Servers \ {s} : answer'[t] = answer[t]
  BY DEF Dir!Leave
<1> QED
  BY <1>1, <1>2, <1>3

\* What is left to show of the step of one replica.
LEMMA OthersKeep ==
  ASSUME IInv, TypeOK', NEW s \in Servers,
         \A t \in Servers \ {s} : handler'[t] = handler[t] /\ answer'[t] = answer[t],
         \A k \in Uri : location[k] # None => location'[k] # None,
         \A k \in promised' : k \in promised \/ location'[k] # None,
         OnTrack(s)', AskedByHandler(s)', AboutToPromise(s)'
  PROVE  IInv'
<1>1. PromisesKept'
  BY DEF IInv, PromisesKept, TypeOK
<1>2. ASSUME NEW t \in Servers \ {s}
      PROVE  OnTrack(t)' /\ AskedByHandler(t)' /\ AboutToPromise(t)'
  <2>1. OnTrack(t) /\ AskedByHandler(t) /\ AboutToPromise(t)
        /\ handler'[t] = handler[t] /\ answer'[t] = answer[t]
    BY DEF IInv
  <2>2. OnTrack(t)'
    BY <2>1 DEF OnTrack, Req
  <2>3. AskedByHandler(t)'
    BY <2>1 DEF AskedByHandler, Req
  <2>4. handler[t].pc = "reply" => Req(t) \in Requests
    BY DEF IInv, TypeOK
  <2>5. AboutToPromise(t)'
    BY <2>1, <2>4, Keys DEF AboutToPromise, Req
  <2> QED
    BY <2>2, <2>3, <2>5
<1> QED
  BY <1>1, <1>2 DEF IInv

LEMMA InvInit == Init => IInv
<1> SUFFICES ASSUME Init PROVE IInv
  OBVIOUS
<1>1. Dir!TypeOK
  BY WindowAssumption DEF Init, Dir!Init, Dir!TypeOK, Dir!Ages, Dir!Verdicts
<1>2. handler \in [Servers -> Handler]
  BY DEF Init, Handler
<1>3. TypeOK
  BY <1>1, <1>2 DEF Init, TypeOK
<1>4. \A s \in Servers : handler[s].pc = "free" /\ answer[s].phase = "idle"
  BY DEF Init, Dir!Init
<1> QED
  BY <1>3, <1>4 DEF Init, IInv, PromisesKept, OnTrack, AskedByHandler,
                    AboutToPromise

LEMMA InvDeliver ==
  ASSUME IInv, NEW s \in Servers, NEW q \in Requests, Deliver(s, q)
  PROVE  IInv'
<1>1. /\ handler' \in [Servers -> Handler]
      /\ handler'[s].pc = FirstStep(q)
      /\ handler'[s].req = q
      /\ FirstStep(q) = "forward" => handler'[s].target = PatchedUri(q)
      /\ \A t \in Servers \ {s} : handler'[t] = handler[t]
  BY DeliverEffect DEF IInv, TypeOK
<1>2. UNCHANGED <<location, answer, gone, steady, promised, mishaps>>
  BY DEF Deliver, dirVars
<1>3. answer[s].phase = "idle"
  BY DEF Deliver, Closed, IInv, AskedByHandler, Outcomes
<1>4. TypeOK'
  BY <1>1, <1>2 DEF IInv, TypeOK, Req, Dir!TypeOK
<1>5. OnTrack(s)'
  BY <1>1, Keys DEF OnTrack, Req, FirstStep, RouteStep, NeedsLogin, Registers,
                    IsMessage, IsRegister, IsUnregister
<1>6. FirstStep(q) # "reply"
  BY DEF FirstStep, RouteStep
<1> QED
  BY <1>1, <1>2, <1>3, <1>4, <1>5, <1>6, OthersKeep DEF AskedByHandler,
     AboutToPromise

\* The steps that ask whether a login is authorised.
LEMMA InvAuthorise ==
  ASSUME IInv, NEW s \in Servers,
         NoCredentials(s) \/ AskDirectory(s) \/ AwaitDirectory(s)
           \/ TakeVerdict(s) \/ CheckAuthorization(s)
  PROVE  IInv'
<1> USE DEF Pcs, Outcomes, Steps
<1>0. /\ handler \in [Servers -> Handler]
      /\ Dir!TypeOK
      /\ handler[s].pc # "free" => Req(s) \in Requests
      /\ OnTrack(s) /\ AskedByHandler(s)
  BY DEF IInv, TypeOK
<1>1. CASE NoCredentials(s)
  <2>1. handler'[s].pc = "unauthorized" /\ handler'[s].req = handler[s].req
        /\ handler' \in [Servers -> Handler]
        /\ \A t \in Servers \ {s} : handler'[t] = handler[t]
    BY <1>0, <1>1, GotoEffect DEF NoCredentials
  <2>2. UNCHANGED <<location, answer, gone, steady, promised, mishaps>>
    BY <1>1 DEF NoCredentials, dirVars
  <2>3. answer[s].phase = "idle"
    BY <1>0, <1>1 DEF NoCredentials, AskedByHandler
  <2>4. TypeOK'
    BY <1>1, <2>1, <2>2 DEF IInv, TypeOK, Req, Dir!TypeOK, NoCredentials
  <2> QED
    BY <2>1, <2>2, <2>3, <2>4, OthersKeep DEF AskedByHandler, AboutToPromise, OnTrack
<1>2. CASE AskDirectory(s)
  <2>1. Req(s).login \in Login /\ handler[s].pc = "authorise"
        /\ Dir!Ask(s, Req(s).login)
    BY <1>0, <1>2, Keys DEF AskDirectory, Request
  <2>2. Dir!TypeOK' /\ answer'[s].login = Req(s).login
        /\ \A t \in Servers \ {s} : answer'[t] = answer[t]
    BY <1>0, <2>1, DirectoryType
  <2>3. UNCHANGED <<handler, location, promised, mishaps>>
    BY <1>2 DEF AskDirectory
  <2>4. TypeOK'
    BY <2>2, <2>3 DEF IInv, TypeOK, Req
  <2>5. OnTrack(s)' /\ AskedByHandler(s)' /\ AboutToPromise(s)'
    BY <1>0, <1>2, <2>1, <2>2, <2>3
       DEF AskDirectory, AskedByHandler, AboutToPromise, OnTrack, Req
  <2> QED
    BY <2>2, <2>3, <2>4, <2>5, OthersKeep
<1>3. CASE AwaitDirectory(s)
  <2>1. Dir!TypeOK' /\ answer'[s].login = answer[s].login
        /\ answer[s].phase = "asking"
        /\ \A t \in Servers \ {s} : answer'[t] = answer[t]
    BY <1>0, <1>3, DirectoryType DEF AwaitDirectory
  <2>2. UNCHANGED <<handler, location, promised, mishaps>>
    BY <1>3 DEF AwaitDirectory
  <2>3. TypeOK'
    BY <2>1, <2>2 DEF IInv, TypeOK, Req
  <2>4. OnTrack(s)' /\ AskedByHandler(s)' /\ AboutToPromise(s)'
    BY <1>0, <2>1, <2>2 DEF AskedByHandler, AboutToPromise, OnTrack, Req
  <2> QED
    BY <2>1, <2>2, <2>3, <2>4, OthersKeep
<1>4. CASE TakeVerdict(s)
  <2>1. PICK pc \in {"put", "digest", "dropped"} : Goto(s, pc)
    BY <1>4 DEF TakeVerdict, Dir!Verdicts
  <2>2. handler'[s].pc = pc /\ handler'[s].req = handler[s].req
        /\ handler' \in [Servers -> Handler]
        /\ \A t \in Servers \ {s} : handler'[t] = handler[t]
    BY <1>0, <2>1, GotoEffect
  <2>3. Dir!TypeOK' /\ answer'[s].phase = "idle"
        /\ \A t \in Servers \ {s} : answer'[t] = answer[t]
    BY <1>0, <1>4, DirectoryType DEF TakeVerdict
  <2>4. UNCHANGED <<location, promised, mishaps>>
    BY <1>4 DEF TakeVerdict
  <2>5. handler[s].pc = "authorise" /\ answer[s].phase # "idle"
    BY <1>4 DEF TakeVerdict, Dir!Verdicts
  <2>6. TypeOK'
    BY <2>2, <2>3, <2>4, <2>5 DEF IInv, TypeOK, Req
  <2>7. OnTrack(s)'
    BY <1>0, <2>2, <2>5 DEF OnTrack, AskedByHandler, Req, NeedsLogin, Registers
  <2> QED
    BY <2>2, <2>3, <2>4, <2>6, <2>7, OthersKeep DEF AskedByHandler, AboutToPromise
<1>5. CASE CheckAuthorization(s)
  <2>1. PICK pc \in {"put", "unauthorized"} : Goto(s, pc)
    BY <1>5 DEF CheckAuthorization
  <2>2. handler'[s].pc = pc /\ handler'[s].req = handler[s].req
        /\ handler' \in [Servers -> Handler]
        /\ \A t \in Servers \ {s} : handler'[t] = handler[t]
    BY <1>0, <2>1, GotoEffect
  <2>3. UNCHANGED <<location, answer, gone, steady, promised, mishaps>>
        /\ handler[s].pc = "digest"
    BY <1>5 DEF CheckAuthorization, dirVars
  <2>4. answer[s].phase = "idle"
    BY <1>0, <2>3 DEF AskedByHandler
  <2>5. TypeOK'
    BY <2>2, <2>3 DEF IInv, TypeOK, Req, Dir!TypeOK
  <2>6. OnTrack(s)'
    BY <1>0, <2>2, <2>3 DEF OnTrack, Req, NeedsLogin, Registers
  <2> QED
    BY <2>2, <2>3, <2>4, <2>5, <2>6, OthersKeep DEF AskedByHandler, AboutToPromise
<1> QED
  BY <1>1, <1>2, <1>3, <1>4, <1>5

\* The steps that write to the location store.
LEMMA InvStore ==
  ASSUME IInv, NEW s \in Servers, AddEndpoint(s) \/ RemoveEndpoint(s)
  PROVE  IInv'
<1> USE DEF Pcs, Outcomes, Steps
<1> DEFINE q == Req(s)
<1>0. /\ handler \in [Servers -> Handler]
      /\ Dir!TypeOK
      /\ handler[s].pc # "free" => q \in Requests
      /\ OnTrack(s) /\ AskedByHandler(s)
      /\ location \in [Uri -> Route \cup {None}]
  BY DEF IInv, TypeOK
<1>1. CASE AddEndpoint(s)
  <2> DEFINE route == [contact |-> q.contact, left |-> Lifetime(q)]
  <2>1. q \in Requests /\ Registers(q) /\ handler[s].pc = "put"
    BY <1>0, <1>1 DEF AddEndpoint, OnTrack
  <2>2. route \in Route
    BY <2>1, Keys DEF Route, Lifetime, Request
  <2>3. location' = [location EXCEPT ![StorageKey(q)] = route]
    BY <1>1 DEF AddEndpoint
  <2>4. StorageKey(q) \in Uri
    BY <2>1, Keys
  <2>5. /\ location' \in [Uri -> Route \cup {None}]
        /\ location'[StorageKey(q)] # None
        /\ \A k \in Uri : location[k] # None => location'[k] # None
    <3> HIDE DEF route
    <3> QED
      BY <1>0, <2>2, <2>3, <2>4
  <2>6. /\ handler' \in [Servers -> Handler]
        /\ handler'[s].pc = IF IsRegister(q) THEN "reply" ELSE RouteStep(q)
        /\ handler'[s].req = q
        /\ ~IsRegister(q) => handler'[s].target = InitialTarget(q)
        /\ \A t \in Servers \ {s} : handler'[t] = handler[t]
    <3>1. CASE IsRegister(q)
      BY <1>0, <1>1, <3>1, GotoEffect DEF AddEndpoint, Req
    <3>2. CASE ~IsRegister(q)
      <4>1. InitialTarget(q) \in Targets /\ RouteStep(q) \in Pcs
        BY <2>1, Keys DEF InitialTarget, RouteStep, Targets
      <4> QED
        BY <1>0, <1>1, <3>2, <4>1, AimEffect DEF AddEndpoint, Req
    <3> QED
      BY <3>1, <3>2
  <2>7. UNCHANGED <<answer, gone, steady, promised, mishaps>>
    BY <1>1 DEF AddEndpoint, dirVars
  <2>8. answer[s].phase = "idle"
    BY <1>0, <2>1 DEF AskedByHandler
  <2>9. TypeOK'
    BY <2>1, <2>5, <2>6, <2>7 DEF IInv, TypeOK, Req, Dir!TypeOK
  <2>10. OnTrack(s)'
    BY <2>1, <2>6 DEF OnTrack, Req, RouteStep, InitialTarget, Registers, IsRegister
  <2>11. AboutToPromise(s)' /\ AskedByHandler(s)'
    BY <2>5, <2>6, <2>7, <2>8 DEF AboutToPromise, AskedByHandler, Req
  <2> QED
    BY <2>5, <2>6, <2>7, <2>9, <2>10, <2>11, OthersKeep
<1>2. CASE RemoveEndpoint(s)
  <2>1. PICK pc \in {"reply", "dropped"} : Goto(s, pc)
    BY <1>2 DEF RemoveEndpoint
  <2>2. handler'[s].pc = pc /\ handler'[s].req = handler[s].req
        /\ handler' \in [Servers -> Handler]
        /\ \A t \in Servers \ {s} : handler'[t] = handler[t]
    BY <1>0, <2>1, GotoEffect
  <2>3. UNCHANGED <<location, answer, gone, steady, mishaps>>
        /\ handler[s].pc = "remove" /\ promised' \subseteq promised
    BY <1>2 DEF RemoveEndpoint, dirVars
  <2>4. answer[s].phase = "idle"
    BY <1>0, <2>3 DEF AskedByHandler
  <2>5. TypeOK'
    BY <2>2, <2>3 DEF IInv, TypeOK, Req, Dir!TypeOK
  <2>6. OnTrack(s)' /\ AboutToPromise(s)'
    BY <1>0, <2>2, <2>3 DEF OnTrack, AboutToPromise, Req, IsUnregister, IsRegister
  <2> QED
    BY <2>2, <2>3, <2>4, <2>5, <2>6, OthersKeep DEF AskedByHandler
<1> QED
  BY <1>1, <1>2

\* The other steps of a handler.
LEMMA InvConclude ==
  ASSUME IInv, NEW s \in Servers,
         FindEndpoint(s) \/ SendOk(s) \/ Forward(s) \/ Fail(s)
  PROVE  IInv'
<1> USE DEF Pcs, Outcomes, Steps
<1> DEFINE q == Req(s)
<1>0. /\ handler \in [Servers -> Handler]
      /\ Dir!TypeOK
      /\ handler[s].pc # "free" => q \in Requests
      /\ OnTrack(s) /\ AskedByHandler(s) /\ AboutToPromise(s)
      /\ location \in [Uri -> Route \cup {None}]
      /\ mishaps \in 0 .. MaxMishaps
  BY DEF IInv, TypeOK
<1>1. CASE FindEndpoint(s)
  <2> DEFINE route == location[RoutingKey(q)]
  <2>1. q \in Requests /\ handler[s].pc = "find" /\ ~q.inDialog /\ IsMessage(q)
    BY <1>0, <1>1 DEF FindEndpoint, OnTrack
  <2>2. route # None => route.contact \in Targets
    BY <1>0, <2>1, Keys DEF Route, Targets
  <2>3. /\ handler' \in [Servers -> Handler]
        /\ handler'[s].pc \in {"unavailable", "forward"}
        /\ handler'[s].req = q
        /\ \A t \in Servers \ {s} : handler'[t] = handler[t]
    <3>1. CASE route = None
      BY <1>0, <1>1, <3>1, GotoEffect DEF FindEndpoint, Req
    <3>2. CASE route # None
      BY <1>0, <1>1, <2>2, <3>2, AimEffect DEF FindEndpoint, Req
    <3> QED
      BY <3>1, <3>2
  <2>4. UNCHANGED <<location, answer, gone, steady, promised, mishaps>>
    BY <1>1 DEF FindEndpoint, dirVars
  <2>5. answer[s].phase = "idle"
    BY <1>0, <2>1 DEF AskedByHandler
  <2>6. TypeOK'
    BY <2>1, <2>3, <2>4 DEF IInv, TypeOK, Req, Dir!TypeOK
  <2>7. OnTrack(s)' /\ AskedByHandler(s)' /\ AboutToPromise(s)'
    BY <2>1, <2>3, <2>4, <2>5 DEF OnTrack, AskedByHandler, AboutToPromise, Req
  <2> QED
    BY <2>3, <2>4, <2>6, <2>7, OthersKeep
<1>2. CASE SendOk(s)
  <2>1. handler'[s].pc = "ok" /\ handler'[s].req = q
        /\ handler' \in [Servers -> Handler]
        /\ \A t \in Servers \ {s} : handler'[t] = handler[t]
    BY <1>0, <1>2, GotoEffect DEF SendOk, Req
  <2>2. UNCHANGED <<location, answer, gone, steady, mishaps>>
        /\ handler[s].pc = "reply"
    BY <1>2 DEF SendOk, dirVars
  <2>3. \A k \in promised' : k \in promised \/ (k = StorageKey(q) /\ IsRegister(q))
    BY <1>2 DEF SendOk
  <2>4. \A k \in promised' : k \in promised \/ location'[k] # None
    BY <1>0, <2>2, <2>3 DEF AboutToPromise
  <2>5. promised' \subseteq Uri
    BY <1>0, <2>2, <2>3, Keys DEF IInv, TypeOK
  <2>6. answer[s].phase = "idle"
    BY <1>0, <2>2 DEF AskedByHandler
  <2>7. TypeOK'
    BY <1>0, <2>1, <2>2, <2>5 DEF IInv, TypeOK, Req, Dir!TypeOK
  <2> QED
    BY <2>1, <2>2, <2>4, <2>6, <2>7, OthersKeep
       DEF OnTrack, AskedByHandler, AboutToPromise
<1>3. CASE Forward(s)
  <2>1. PICK pc \in {"forwarded", "dropped"} : Goto(s, pc)
    BY <1>3 DEF Forward
  <2>2. handler'[s].pc = pc /\ handler'[s].req = q
        /\ handler' \in [Servers -> Handler]
        /\ \A t \in Servers \ {s} : handler'[t] = handler[t]
    BY <1>0, <2>1, GotoEffect DEF Req
  <2>3. UNCHANGED <<location, answer, gone, steady, promised, mishaps>>
        /\ handler[s].pc = "forward"
    BY <1>3 DEF Forward, dirVars
  <2>4. answer[s].phase = "idle"
    BY <1>0, <2>3 DEF AskedByHandler
  <2>5. TypeOK'
    BY <1>0, <2>2, <2>3 DEF IInv, TypeOK, Req, Dir!TypeOK
  <2> QED
    BY <2>2, <2>3, <2>4, <2>5, OthersKeep
       DEF OnTrack, AskedByHandler, AboutToPromise
<1>4. CASE Fail(s)
  <2>1. handler'[s].pc = "dropped" /\ handler'[s].req = q
        /\ handler' \in [Servers -> Handler]
        /\ \A t \in Servers \ {s} : handler'[t] = handler[t]
    BY <1>0, <1>4, GotoEffect DEF Fail, Req
  <2>2. Dir!TypeOK' /\ answer'[s].phase = "idle"
        /\ \A t \in Servers \ {s} : answer'[t] = answer[t]
    BY <1>0, <1>4, DirectoryType DEF Fail
  <2>3. UNCHANGED <<location, promised>> /\ handler[s].pc # "free"
        /\ mishaps' \in 0 .. MaxMishaps
    BY <1>0, <1>4 DEF Fail, Closed
  <2>4. TypeOK'
    BY <1>0, <2>1, <2>2, <2>3 DEF IInv, TypeOK, Req
  <2> QED
    BY <2>1, <2>2, <2>3, <2>4, OthersKeep
       DEF OnTrack, AskedByHandler, AboutToPromise
<1> QED
  BY <1>1, <1>2, <1>3, <1>4

\* Time and the administrators change nothing that a handler holds.
LEMMA InvWorld ==
  ASSUME IInv, Tick \/ Administer
  PROVE  IInv'
<1>1. CASE Tick
  <2>1. \A k \in Uri :
          /\ location'[k] \in Route \cup {None}
          /\ location[k] # None => location'[k] # None
    <3> SUFFICES ASSUME NEW k \in Uri
                 PROVE  /\ location'[k] \in Route \cup {None}
                        /\ location[k] # None => location'[k] # None
      OBVIOUS
    <3>1. location[k] \in Route \cup {None}
      BY DEF IInv, TypeOK
    <3>2. location'[k] = IF location[k] = None \/ location[k].left = 0
                           THEN location[k]
                           ELSE [location[k] EXCEPT !.left = @ - 1]
      BY <1>1 DEF Tick
    <3>3. CASE location[k] = None \/ location[k].left = 0
      BY <3>1, <3>2, <3>3
    <3>4. CASE ~(location[k] = None \/ location[k].left = 0)
      <4>1. location'[k] \in Route
        BY <3>1, <3>2, <3>4 DEF Route
      <4> QED
        BY <4>1
    <3> QED
      BY <3>3, <3>4
  <2>2. UNCHANGED <<handler, answer, gone, steady, promised, mishaps>>
        /\ location' = [k \in Uri |-> location'[k]]
    BY <1>1 DEF Tick, dirVars
  <2>3. location' \in [Uri -> Route \cup {None}]
    BY <2>1, <2>2
  <2>4. TypeOK'
    BY <2>2, <2>3 DEF IInv, TypeOK, Req, Dir!TypeOK
  <2>5. PromisesKept'
    BY <2>1, <2>2 DEF IInv, TypeOK, PromisesKept
  <2>6. ASSUME NEW s \in Servers
        PROVE  OnTrack(s)' /\ AskedByHandler(s)' /\ AboutToPromise(s)'
    <3>1. OnTrack(s) /\ AskedByHandler(s) /\ AboutToPromise(s)
          /\ (handler[s].pc = "reply" => StorageKey(Req(s)) \in Uri)
      BY Keys DEF IInv, TypeOK
    <3>2. OnTrack(s)' /\ AskedByHandler(s)'
      BY <2>2, <3>1 DEF OnTrack, AskedByHandler, Req
    <3>3. AboutToPromise(s)'
      BY <2>1, <2>2, <3>1 DEF AboutToPromise, Req
    <3> QED
      BY <3>2, <3>3
  <2> QED
    BY <2>4, <2>5, <2>6 DEF IInv
<1>2. CASE Administer
  <2>1. UNCHANGED <<handler, location, answer, promised, mishaps>>
        /\ gone' \in [Login -> Dir!Ages] /\ steady' \in [Login -> Dir!Ages]
    BY <1>2 DEF Administer, Dir!Environment
  <2>2. TypeOK'
    BY <2>1 DEF IInv, TypeOK, Req, Dir!TypeOK
  <2> QED
    BY <2>1, <2>2 DEF IInv, PromisesKept, OnTrack, AskedByHandler,
                      AboutToPromise, Req
<1> QED
  BY <1>1, <1>2

LEMMA InvNext == IInv /\ [Next]_vars => IInv'
<1> SUFFICES ASSUME IInv, [Next]_vars PROVE IInv'
  OBVIOUS
<1>1. CASE UNCHANGED vars
  BY <1>1 DEF IInv, TypeOK, Dir!TypeOK, PromisesKept, OnTrack, AskedByHandler,
              AboutToPromise, Req, vars
<1>2. ASSUME NEW s \in Servers, NEW q \in Requests, Deliver(s, q) PROVE IInv'
  BY <1>2, InvDeliver
<1>3. ASSUME NEW s \in Servers, Proceed(s) \/ AwaitDirectory(s) \/ Fail(s)
      PROVE  IInv'
  BY <1>3, InvAuthorise, InvStore, InvConclude DEF Proceed
<1>4. CASE Tick \/ Administer
  BY <1>4, InvWorld
<1> QED
  BY <1>1, <1>2, <1>3, <1>4 DEF Next

LEMMA Invariant == Spec => []IInv
<1> QED
  BY InvInit, InvNext, PTL DEF Spec

(***************************************************************************)
(* The handlers, the store and the directory stay well-formed.             *)
(***************************************************************************)
THEOREM TypeCorrect == Spec => []TypeOK
<1>1. IInv => TypeOK
  BY DEF IInv
<1> QED
  BY <1>1, Invariant, PTL

(***************************************************************************)
(* A device that was told it is registered is bound until it unregisters,  *)
(* for any number of replicas and whatever requests they are sent.         *)
(***************************************************************************)
THEOREM PromisesHold == Spec => []PromisesKept
<1>1. IInv => PromisesKept
  BY DEF IInv
<1> QED
  BY <1>1, Invariant, PTL

-----------------------------------------------------------------------------
(***************************************************************************)
(* SipServer implements LocationService, which reads requests as it does.  *)
(***************************************************************************)
LEMMA SameMessages ==
  /\ Promise!Uri = Uri
  /\ \A q : /\ Promise!StorageKey(q) = StorageKey(q)
            /\ Promise!RoutingKey(q) = RoutingKey(q)
            /\ Promise!RemovalKey(q) = RemovalKey(q)
            /\ Promise!PatchedUri(q) = PatchedUri(q)
            /\ Promise!IsRegister(q) = IsRegister(q)
            /\ Promise!IsUnregister(q) = IsUnregister(q)
            /\ Promise!IsMessage(q) = IsMessage(q)
            /\ Promise!Registers(q) = Registers(q)
            /\ Promise!NeedsLogin(q) = NeedsLogin(q)
  BY DEF Uri, StorageKey, RoutingKey, RemovalKey, PatchedUri, IsRegister,
     IsUnregister, IsMessage, Registers, NeedsLogin, AorAsString,
     Promise!Uri, Promise!StorageKey, Promise!RoutingKey, Promise!RemovalKey,
     Promise!PatchedUri, Promise!IsRegister, Promise!IsUnregister,
     Promise!IsMessage, Promise!Registers, Promise!NeedsLogin,
     Promise!AorAsString

LEMMA Stages ==
  ASSUME NEW q, NEW phase
  PROVE  /\ \A pc \in {"free"} \cup Outcomes : StageOf(pc, q, phase) = pc
         /\ StageOf("authorise", q, "granted") = "trusted"
         /\ StageOf("authorise", q, "refused") = "suspected"
         /\ phase \notin {"granted", "refused"} =>
              StageOf("authorise", q, phase) = "open"
         /\ StageOf("digest", q, phase) = "suspected"
         /\ StageOf("put", q, phase) = IF NeedsLogin(q) THEN "trusted" ELSE "open"
         /\ StageOf("remove", q, phase) = "open"
         /\ StageOf("reply", q, phase) = IF IsRegister(q) THEN "bound" ELSE "unbound"
         /\ ~q.inDialog => StageOf("forward", q, phase) = "located"
         /\ q.inDialog => StageOf("forward", q, phase) =
                            IF Registers(q) THEN "bound" ELSE "open"
         /\ StageOf("find", q, phase) = IF Registers(q) THEN "bound" ELSE "open"
  BY DEF StageOf, Outcomes

CallOf(h, phase) ==
  [stage |-> StageOf(h.pc, h.req, phase), req |-> h.req,
   target |-> IF StageOf(h.pc, h.req, phase) \in {"located", "forwarded"}
                THEN h.target ELSE None]

LEMMA CallsAre == Calls = [s \in Servers |-> CallOf(handler[s], answer[s].phase)]
  BY DEF Calls, CallOf, Stage, Req

LEMMA CallsBecome ==
  Calls' = [s \in Servers |-> CallOf(handler'[s], answer'[s].phase)]
  BY DEF Calls, CallOf, Stage, Req

\* A step of one replica that leaves its call alone.
LEMMA CallStays ==
  ASSUME NEW s \in Servers,
         \A t \in Servers \ {s} : handler'[t] = handler[t] /\ answer'[t] = answer[t],
         CallOf(handler'[s], answer'[s].phase) = CallOf(handler[s], answer[s].phase)
  PROVE  Calls' = Calls
  BY CallsAre, CallsBecome

\* A step of one replica that moves its call.
LEMMA CallMoves ==
  ASSUME NEW s \in Servers, NEW stage, NEW target,
         \A t \in Servers \ {s} : handler'[t] = handler[t] /\ answer'[t] = answer[t],
         handler'[s].req = handler[s].req,
         StageOf(handler'[s].pc, handler'[s].req, answer'[s].phase) = stage,
         target = IF stage \in {"located", "forwarded"} THEN handler'[s].target
                                                        ELSE None
  PROVE  Promise!Move(s, stage, target)
<1>1. CallOf(handler'[s], answer'[s].phase) =
        [stage |-> stage, req |-> handler[s].req, target |-> target]
  BY DEF CallOf
<1>2. Calls' = [Calls EXCEPT ![s] = CallOf(handler'[s], answer'[s].phase)]
  BY CallsAre, CallsBecome
<1>3. Calls[s].req = handler[s].req
  BY CallsAre DEF CallOf
<1> QED
  BY <1>1, <1>2, <1>3 DEF Promise!Move

LEMMA CallIs ==
  ASSUME NEW s \in Servers
  PROVE  /\ Calls[s].stage = StageOf(handler[s].pc, Req(s), answer[s].phase)
         /\ Calls[s].req = Req(s)
         /\ Calls[s].target =
              IF Calls[s].stage \in {"located", "forwarded"} THEN handler[s].target
                                                             ELSE None
  BY DEF Calls, Stage, Req

LEMMA BindingsStay == UNCHANGED location => UNCHANGED Bindings
  BY DEF Bindings

Refines == [Promise!Next]_<<Bindings, Calls>>

LEMMA RefinesInit == Init => Promise!Init
<1> SUFFICES ASSUME Init PROVE Promise!Init
  OBVIOUS
<1>1. \A s \in Servers : handler[s] = [pc |-> "free", req |-> None, target |-> None]
  BY DEF Init
<1>2. Calls = [s \in Servers |-> [stage |-> "free", req |-> None, target |-> None]]
  <2>1. \A phase : StageOf("free", None, phase) = "free"
    BY DEF StageOf, Outcomes
  <2>2. \A s \in Servers : CallOf(handler[s], answer[s].phase) =
                            [stage |-> "free", req |-> None, target |-> None]
    BY <1>1, <2>1 DEF CallOf
  <2> QED
    BY <2>2, CallsAre
<1>3. Bindings = [k \in Uri |-> None]
  BY DEF Init, Bindings
<1> QED
  BY <1>2, <1>3, SameMessages DEF Promise!Init

LEMMA RefinesDeliver ==
  ASSUME IInv, NEW s \in Servers, NEW q \in Requests, Deliver(s, q)
  PROVE  Refines
<1> DEFINE stage == StageOf(FirstStep(q), q, answer'[s].phase)
<1>1. /\ handler'[s].pc = FirstStep(q)
      /\ handler'[s].req = q
      /\ \A t \in Servers \ {s} : handler'[t] = handler[t]
  BY DeliverEffect DEF IInv, TypeOK
<1>2. UNCHANGED <<location, answer>>
  BY DEF Deliver, dirVars
<1>3. answer'[s].phase = "idle"
  BY <1>2 DEF Deliver, Closed, IInv, AskedByHandler, Outcomes
<1>4. /\ FirstStep(q) \in {"authorise", "remove", "dropped", "put", "find",
                           "forward", "notAllowed"}
      /\ FirstStep(q) = "put" => ~NeedsLogin(q)
      /\ FirstStep(q) \in {"find", "forward"} => ~Registers(q)
      /\ FirstStep(q) = "forward" => q.inDialog
      /\ FirstStep(q) = "notAllowed" => q.method = "other"
  BY Keys DEF FirstStep, RouteStep, NeedsLogin, Registers, IsRegister,
     IsUnregister, IsMessage, Request
<1>5. stage \in {"open", "dropped", "notAllowed"}
      /\ (stage = "notAllowed" => q.method = "other")
  BY <1>3, <1>4, Stages DEF Outcomes
<1>6. Calls' = [Calls EXCEPT ![s] = [stage |-> stage, req |-> q, target |-> None]]
  <2>1. CallOf(handler'[s], answer'[s].phase) =
          [stage |-> stage, req |-> q, target |-> None]
    BY <1>1, <1>5 DEF CallOf
  <2>2. \A t \in Servers \ {s} : CallOf(handler'[t], answer'[t].phase) =
                                 CallOf(handler[t], answer[t].phase)
    BY <1>1, <1>2
  <2> HIDE DEF stage
  <2> QED
    BY <2>1, <2>2, CallsAre, CallsBecome
<1>7. Calls[s].stage \in Promise!Closed
  BY CallIs, Stages DEF Deliver, Closed, Promise!Closed, Outcomes
<1>8. Promise!Accept(s, q)
  BY <1>2, <1>5, <1>6, <1>7, BindingsStay DEF Promise!Accept
<1> QED
  BY <1>8 DEF Refines, Promise!Next

\* A question under way, or just answered, moves the call of its handler.
LEMMA RefinesQuestion ==
  ASSUME IInv, NEW s \in Servers, AskDirectory(s) \/ AwaitDirectory(s)
  PROVE  Refines
<1> DEFINE l == Req(s).login
<1>1. /\ answer[s].phase \in {"idle", "asking"}
      /\ handler[s].pc = "authorise" /\ l # None /\ NeedsLogin(Req(s))
      /\ UNCHANGED <<handler, location>>
  BY DEF AskDirectory, AwaitDirectory, Dir!Ask, Dir!Pursue, IInv,
         AskedByHandler, OnTrack
<1>2. PICK phase \in Dir!Verdicts \cup {"asking"} : Dir!Reach(s, l, phase)
  BY DEF AskDirectory, AwaitDirectory, Dir!Ask, Dir!Pursue, IInv,
         AskedByHandler
<1>3. answer \in [Servers -> [phase : Dir!Verdicts \cup {"idle", "asking"},
                             login : Login \cup {None}]]
  BY DEF IInv, TypeOK, Dir!TypeOK
<1>4. answer'[s].phase = phase /\ \A t \in Servers \ {s} : answer'[t] = answer[t]
  BY <1>2, <1>3 DEF Dir!Reach
<1>5. Calls[s].stage = "open" /\ Calls[s].req = Req(s)
  BY <1>1, CallIs, Stages
<1>6. UNCHANGED Bindings
  BY <1>1, BindingsStay
<1>7. CASE phase = "granted"
  <2>1. gone[l] <= Window
    BY <1>2, <1>7 DEF Dir!Reach, Dir!Justified, Dir!Verdicts
  <2>2. Promise!Move(s, "trusted", None)
    BY <1>1, <1>4, <1>7, Stages, CallMoves
  <2>3. Promise!Trust(s)
    BY <1>1, <1>5, <1>6, <2>1, <2>2 DEF Promise!Trust
  <2> QED
    BY <2>3 DEF Refines, Promise!Next
<1>8. CASE phase = "refused"
  <2>1. steady'[l] <= Window
    BY <1>2, <1>8 DEF Dir!Reach, Dir!Justified, Dir!Verdicts
  <2>2. Promise!Move(s, "suspected", None)
    BY <1>1, <1>4, <1>8, Stages, CallMoves
  <2>3. Promise!Suspect(s)
    BY <1>1, <1>5, <1>6, <2>1, <2>2, SameMessages DEF Promise!Suspect
  <2> QED
    BY <2>3 DEF Refines, Promise!Next
<1>9. CASE phase \notin {"granted", "refused"}
  <2>1. StageOf("authorise", Req(s), phase) = "open"
        /\ StageOf("authorise", Req(s), answer[s].phase) = "open"
    BY <1>1, <1>9, Stages
  <2>2. CallOf(handler'[s], answer'[s].phase) = CallOf(handler[s], answer[s].phase)
    BY <1>1, <1>4, <2>1 DEF CallOf, Req
  <2>3. Calls' = Calls
    BY <1>1, <1>4, <2>2, CallStays
  <2> QED
    BY <1>6, <2>3 DEF Refines
<1> QED
  BY <1>7, <1>8, <1>9

LEMMA RefinesAuthorise ==
  ASSUME IInv, NEW s \in Servers,
         NoCredentials(s) \/ TakeVerdict(s) \/ CheckAuthorization(s)
  PROVE  Refines
<1> USE DEF Pcs, Outcomes, Steps
<1> DEFINE q == Req(s)
<1>0. /\ handler \in [Servers -> Handler] /\ Dir!TypeOK
      /\ OnTrack(s) /\ AskedByHandler(s)
      /\ Calls[s].req = q
      /\ Calls[s].stage = StageOf(handler[s].pc, q, answer[s].phase)
  BY CallIs DEF IInv, TypeOK
<1>1. CASE NoCredentials(s)
  <2>1. handler[s].pc = "authorise" /\ q.login = None /\ UNCHANGED <<answer, location>>
    BY <1>1 DEF NoCredentials, dirVars
  <2>2. handler'[s].pc = "unauthorized" /\ handler'[s].req = handler[s].req
        /\ \A t \in Servers \ {s} : handler'[t] = handler[t]
    BY <1>0, <1>1, GotoEffect DEF NoCredentials
  <2>3. answer[s].phase = "idle"
    BY <1>0, <2>1 DEF AskedByHandler
  <2>4. Calls[s].stage = "open" /\ NeedsLogin(q)
    BY <1>0, <2>1, <2>3, Stages DEF OnTrack
  <2>5. Promise!Move(s, "unauthorized", None)
    BY <2>1, <2>2, Stages, CallMoves
  <2>6. Promise!Answer(s)
    BY <1>0, <2>1, <2>4, <2>5, SameMessages, BindingsStay DEF Promise!Answer
  <2> QED
    BY <2>6 DEF Refines, Promise!Next
<1>2. CASE TakeVerdict(s)
  <2>1. /\ handler[s].pc = "authorise" /\ NeedsLogin(q)
        /\ UNCHANGED location
        /\ answer'[s].phase = "idle"
        /\ \A t \in Servers \ {s} : answer'[t] = answer[t]
    BY <1>0, <1>2, DirectoryType DEF TakeVerdict, OnTrack
  <2>2. CASE answer[s].phase = "granted"
    <3>1. handler'[s].pc = "put" /\ handler'[s].req = handler[s].req
          /\ \A t \in Servers \ {s} : handler'[t] = handler[t]
      BY <1>0, <1>2, <2>2, GotoEffect DEF TakeVerdict
    <3>2. CallOf(handler'[s], answer'[s].phase) = CallOf(handler[s], answer[s].phase)
      <4>1. StageOf("put", q, "idle") = "trusted"
            /\ StageOf("authorise", q, "granted") = "trusted"
        BY <2>1, Stages
      <4> QED
        BY <2>1, <2>2, <3>1, <4>1 DEF CallOf, Req
    <3>3. Calls' = Calls
      BY <2>1, <3>1, <3>2, CallStays
    <3> QED
      BY <2>1, <3>3, BindingsStay DEF Refines
  <2>3. CASE answer[s].phase = "refused"
    <3>1. handler'[s].pc = "digest" /\ handler'[s].req = handler[s].req
          /\ \A t \in Servers \ {s} : handler'[t] = handler[t]
      BY <1>0, <1>2, <2>3, GotoEffect DEF TakeVerdict
    <3>2. CallOf(handler'[s], answer'[s].phase) = CallOf(handler[s], answer[s].phase)
      <4>1. StageOf("digest", q, "idle") = "suspected"
            /\ StageOf("authorise", q, "refused") = "suspected"
        BY Stages
      <4> QED
        BY <2>1, <2>3, <3>1, <4>1 DEF CallOf, Req
    <3>3. Calls' = Calls
      BY <2>1, <3>1, <3>2, CallStays
    <3> QED
      BY <2>1, <3>3, BindingsStay DEF Refines
  <2>4. CASE answer[s].phase \notin {"granted", "refused"}
    <3>1. handler'[s].pc = "dropped" /\ handler'[s].req = handler[s].req
          /\ \A t \in Servers \ {s} : handler'[t] = handler[t]
      BY <1>0, <1>2, <2>4, GotoEffect DEF TakeVerdict
    <3>2. Promise!Move(s, "dropped", None)
      BY <2>1, <3>1, Stages, CallMoves
    <3> QED
      BY <2>1, <3>2, BindingsStay DEF Refines, Promise!Next, Promise!Drop
  <2> QED
    BY <2>2, <2>3, <2>4
<1>3. CASE CheckAuthorization(s)
  <2>1. /\ handler[s].pc = "digest" /\ NeedsLogin(q) /\ q.login # None
        /\ UNCHANGED <<location, answer>>
    BY <1>0, <1>3 DEF CheckAuthorization, OnTrack, dirVars
  <2>2. Calls[s].stage = "suspected"
    BY <1>0, <2>1, Stages
  <2>3. CASE q.login \in Vouched /\ Goto(s, "put")
    <3>1. handler'[s].pc = "put" /\ handler'[s].req = handler[s].req
          /\ \A t \in Servers \ {s} : handler'[t] = handler[t]
      BY <1>0, <2>3, GotoEffect
    <3>2. Promise!Move(s, "trusted", None)
      <4>1. StageOf(handler'[s].pc, handler'[s].req, answer'[s].phase) = "trusted"
        BY <2>1, <3>1, Stages DEF Req
      <4> QED
        BY <2>1, <3>1, <4>1, CallMoves
    <3>3. Promise!Trust(s)
      BY <1>0, <2>1, <2>2, <2>3, <3>2, BindingsStay DEF Promise!Trust
    <3> QED
      BY <3>3 DEF Refines, Promise!Next
  <2>4. CASE Goto(s, "unauthorized")
    <3>1. handler'[s].pc = "unauthorized" /\ handler'[s].req = handler[s].req
          /\ \A t \in Servers \ {s} : handler'[t] = handler[t]
      BY <1>0, <2>4, GotoEffect
    <3>2. Promise!Move(s, "unauthorized", None)
      BY <2>1, <3>1, Stages, CallMoves
    <3>3. Promise!Answer(s)
      BY <2>1, <2>2, <3>2, BindingsStay DEF Promise!Answer
    <3> QED
      BY <3>3 DEF Refines, Promise!Next
  <2> QED
    BY <1>3, <2>3, <2>4 DEF CheckAuthorization
<1> QED
  BY <1>1, <1>2, <1>3

LEMMA RefinesStore ==
  ASSUME IInv, NEW s \in Servers, AddEndpoint(s) \/ RemoveEndpoint(s)
  PROVE  Refines
<1> USE DEF Pcs, Outcomes, Steps
<1> DEFINE q == Req(s)
<1>0. /\ handler \in [Servers -> Handler]
      /\ handler[s].pc # "free" => q \in Requests
      /\ OnTrack(s) /\ AskedByHandler(s)
      /\ location \in [Uri -> Route \cup {None}]
      /\ Calls[s].req = q
      /\ Calls[s].stage = StageOf(handler[s].pc, q, answer[s].phase)
  BY CallIs DEF IInv, TypeOK
<1>1. CASE AddEndpoint(s)
  <2> DEFINE route == [contact |-> q.contact, left |-> Lifetime(q)]
  <2>1. q \in Requests /\ Registers(q) /\ handler[s].pc = "put"
        /\ UNCHANGED answer
    BY <1>0, <1>1 DEF AddEndpoint, OnTrack, dirVars
  <2>2. route \in Route /\ route.contact = q.contact /\ q.contact # None
    BY <2>1, Keys DEF Route, Lifetime, Request
  <2>3. location' = [location EXCEPT ![StorageKey(q)] = route]
    BY <1>1 DEF AddEndpoint
  <2>4. StorageKey(q) \in Uri
    BY <2>1, Keys
  <2>5. Bindings' = [Bindings EXCEPT ![StorageKey(q)] = q.contact]
    <3> HIDE DEF route
    <3>1. \A k \in Uri : Bindings'[k] = IF k = StorageKey(q) THEN q.contact
                                                            ELSE Bindings[k]
      BY <1>0, <2>2, <2>3, <2>4 DEF Bindings
    <3> QED
      BY <3>1 DEF Bindings
  <2>6. Calls[s].stage = IF NeedsLogin(q) THEN "trusted" ELSE "open"
    BY <1>0, <2>1, Stages
  <2>7. Promise!Move(s, "bound", None)
    <3>1. CASE IsRegister(q)
      <4>1. handler'[s].pc = "reply" /\ handler'[s].req = handler[s].req
            /\ \A t \in Servers \ {s} : handler'[t] = handler[t]
        BY <1>0, <1>1, <3>1, GotoEffect DEF AddEndpoint
      <4>2. StageOf(handler'[s].pc, handler'[s].req, answer'[s].phase) = "bound"
        BY <3>1, <4>1, Stages DEF Req
      <4> QED
        BY <2>1, <4>1, <4>2, CallMoves
    <3>2. CASE ~IsRegister(q)
      <4>1. InitialTarget(q) \in Targets /\ RouteStep(q) \in Pcs
        BY <2>1, Keys DEF InitialTarget, RouteStep, Targets
      <4>2. handler'[s].pc = RouteStep(q) /\ handler'[s].req = handler[s].req
            /\ \A t \in Servers \ {s} : handler'[t] = handler[t]
        BY <1>0, <1>1, <3>2, <4>1, AimEffect DEF AddEndpoint
      <4>3. StageOf(handler'[s].pc, handler'[s].req, answer'[s].phase) = "bound"
        BY <2>1, <4>2, Stages DEF RouteStep, Req
      <4> QED
        BY <2>1, <4>2, <4>3, CallMoves
    <3> QED
      BY <3>1, <3>2
  <2>8. Promise!Bind(s)
    BY <1>0, <2>1, <2>5, <2>6, <2>7, SameMessages DEF Promise!Bind
  <2> QED
    BY <2>8 DEF Refines, Promise!Next
<1>2. CASE RemoveEndpoint(s)
  <2>1. /\ handler[s].pc = "remove" /\ IsUnregister(q) /\ q \in Requests
        /\ UNCHANGED <<location, answer>>
    BY <1>0, <1>2 DEF RemoveEndpoint, OnTrack, dirVars
  <2>2. Calls[s].stage = "open"
    BY <1>0, <2>1, Stages
  <2>3. CASE location[RemovalKey(q)] = None
    <3>1. handler'[s].pc = "reply" /\ handler'[s].req = handler[s].req
          /\ \A t \in Servers \ {s} : handler'[t] = handler[t]
      BY <1>0, <1>2, <2>3, GotoEffect DEF RemoveEndpoint
    <3>2. StageOf(handler'[s].pc, handler'[s].req, answer'[s].phase) = "unbound"
      BY <2>1, <3>1, Stages DEF Req, IsRegister, IsUnregister
    <3>3. Promise!Move(s, "unbound", None)
      BY <2>1, <3>1, <3>2, CallMoves
    <3>4. Bindings' = [Bindings EXCEPT ![RemovalKey(q)] = None]
      BY <2>1, <2>3, Keys DEF Bindings
    <3>5. Promise!Unbind(s)
      BY <1>0, <2>1, <2>2, <3>3, <3>4, SameMessages DEF Promise!Unbind
    <3> QED
      BY <3>5 DEF Refines, Promise!Next
  <2>4. CASE location[RemovalKey(q)] # None
    <3>1. handler'[s].pc = "dropped" /\ handler'[s].req = handler[s].req
          /\ \A t \in Servers \ {s} : handler'[t] = handler[t]
      BY <1>0, <1>2, <2>4, GotoEffect DEF RemoveEndpoint
    <3>2. Promise!Move(s, "dropped", None)
      BY <2>1, <3>1, Stages, CallMoves
    <3> QED
      BY <2>1, <3>2, BindingsStay DEF Refines, Promise!Next, Promise!Drop
  <2> QED
    BY <2>3, <2>4
<1> QED
  BY <1>1, <1>2

LEMMA RefinesConclude ==
  ASSUME IInv, NEW s \in Servers,
         FindEndpoint(s) \/ SendOk(s) \/ Forward(s) \/ Fail(s)
  PROVE  Refines
<1> USE DEF Pcs, Outcomes, Steps
<1> DEFINE q == Req(s)
<1>0. /\ handler \in [Servers -> Handler] /\ Dir!TypeOK
      /\ handler[s].pc # "free" => q \in Requests
      /\ OnTrack(s) /\ AskedByHandler(s)
      /\ location \in [Uri -> Route \cup {None}]
      /\ Calls[s].req = q
      /\ Calls[s].stage = StageOf(handler[s].pc, q, answer[s].phase)
      /\ Calls[s].target = IF Calls[s].stage \in {"located", "forwarded"}
                             THEN handler[s].target ELSE None
  BY CallIs DEF IInv, TypeOK
<1>1. CASE FindEndpoint(s)
  <2> DEFINE route == location[RoutingKey(q)]
  <2>1. /\ q \in Requests /\ handler[s].pc = "find" /\ ~q.inDialog /\ IsMessage(q)
        /\ UNCHANGED <<location, answer>>
    BY <1>0, <1>1 DEF FindEndpoint, OnTrack, dirVars
  <2>2. RoutingKey(q) \in Uri /\ (route # None => route \in Route)
    BY <1>0, <2>1, Keys
  <2>3. Promise!Routable(s)
    BY <1>0, <2>1, Stages, SameMessages DEF Promise!Routable
  <2>4. CASE route = None
    <3>1. handler'[s].pc = "unavailable" /\ handler'[s].req = handler[s].req
          /\ \A t \in Servers \ {s} : handler'[t] = handler[t]
      BY <1>0, <1>1, <2>4, GotoEffect DEF FindEndpoint
    <3>2. Promise!Move(s, "unavailable", None)
      BY <2>1, <3>1, Stages, CallMoves
    <3>3. Bindings[RoutingKey(q)] = None
      BY <2>2, <2>4 DEF Bindings
    <3>4. Promise!Locate(s)
      BY <1>0, <2>1, <2>3, <3>2, <3>3, SameMessages, BindingsStay DEF Promise!Locate
    <3> QED
      BY <3>4 DEF Refines, Promise!Next
  <2>5. CASE route # None
    <3>0. route.contact \in Contacts /\ route.contact \in Targets
      BY <2>2, <2>5 DEF Route, Targets
    <3>1. handler'[s].pc = "forward" /\ handler'[s].req = handler[s].req
          /\ handler'[s].target = route.contact
          /\ \A t \in Servers \ {s} : handler'[t] = handler[t]
      BY <1>0, <1>1, <2>5, <3>0, AimEffect DEF FindEndpoint
    <3>2. StageOf(handler'[s].pc, handler'[s].req, answer'[s].phase) = "located"
      BY <2>1, <3>1, Stages DEF Req
    <3>3. Promise!Move(s, "located", route.contact)
      BY <2>1, <3>1, <3>2, CallMoves
    <3>4. Bindings[RoutingKey(q)] = route.contact /\ route.contact # None
      BY <2>2, <2>5, <3>0 DEF Bindings
    <3>5. Promise!Locate(s)
      BY <1>0, <2>1, <2>3, <3>3, <3>4, SameMessages, BindingsStay DEF Promise!Locate
    <3> QED
      BY <3>5 DEF Refines, Promise!Next
  <2> QED
    BY <2>4, <2>5
<1>2. CASE SendOk(s)
  <2>1. /\ handler[s].pc = "reply" /\ UNCHANGED <<location, answer>>
        /\ handler'[s].pc = "ok" /\ handler'[s].req = handler[s].req
        /\ \A t \in Servers \ {s} : handler'[t] = handler[t]
    BY <1>0, <1>2, GotoEffect DEF SendOk, dirVars
  <2>2. Promise!Move(s, "ok", None)
    BY <2>1, Stages, CallMoves
  <2>3. Calls[s].stage = IF IsRegister(q) THEN "bound" ELSE "unbound"
    BY <1>0, <2>1, Stages
  <2>4. Promise!Answer(s)
    BY <1>0, <2>1, <2>2, <2>3, SameMessages, BindingsStay DEF Promise!Answer
  <2> QED
    BY <2>4 DEF Refines, Promise!Next
<1>3. CASE Forward(s)
  <2>1. /\ q \in Requests /\ handler[s].pc = "forward" /\ IsMessage(q)
        /\ q.inDialog => handler[s].target = PatchedUri(q)
        /\ q.maxForwards \in Nat
        /\ UNCHANGED <<location, answer>>
    BY <1>0, <1>3, Keys DEF Forward, OnTrack, dirVars, Request
  <2>2. PICK pc \in {"forwarded", "dropped"} :
          Goto(s, pc) /\ (pc = "forwarded" => q.maxForwards # 0)
    BY <1>3 DEF Forward
  <2>3. handler'[s].pc = pc /\ handler'[s].req = handler[s].req
        /\ handler'[s].target = handler[s].target
        /\ \A t \in Servers \ {s} : handler'[t] = handler[t]
    BY <1>0, <2>2, GotoEffect
  <2>4. CASE pc = "dropped"
    <3>1. Promise!Move(s, "dropped", None)
      BY <2>1, <2>3, <2>4, Stages, CallMoves
    <3> QED
      BY <2>1, <3>1, BindingsStay DEF Refines, Promise!Next, Promise!Drop
  <2>5. CASE pc = "forwarded"
    <3>1. Promise!Move(s, "forwarded", handler[s].target)
      BY <2>1, <2>3, <2>5, Stages, CallMoves
    <3>2. q.maxForwards > 0
      BY <2>1, <2>2, <2>5
    <3>3. CASE q.inDialog
      <4>1. Promise!Routable(s)
        BY <1>0, <2>1, <3>3, Stages, SameMessages DEF Promise!Routable
      <4>2. Promise!Forward(s)
        BY <1>0, <2>1, <3>1, <3>2, <3>3, <4>1, SameMessages, BindingsStay
           DEF Promise!Forward
      <4> QED
        BY <4>2 DEF Refines, Promise!Next
    <3>4. CASE ~q.inDialog
      <4>1. Calls[s].stage = "located" /\ Calls[s].target = handler[s].target
        BY <1>0, <2>1, <3>4, Stages
      <4>2. Promise!Forward(s)
        BY <1>0, <2>1, <3>1, <3>2, <4>1, BindingsStay DEF Promise!Forward
      <4> QED
        BY <4>2 DEF Refines, Promise!Next
    <3> QED
      BY <3>3, <3>4
  <2> QED
    BY <2>4, <2>5
<1>4. CASE Fail(s)
  <2>1. handler'[s].pc = "dropped" /\ handler'[s].req = handler[s].req
        /\ \A t \in Servers \ {s} : handler'[t] = handler[t]
    BY <1>0, <1>4, GotoEffect DEF Fail
  <2>2. UNCHANGED location /\ \A t \in Servers \ {s} : answer'[t] = answer[t]
    BY <1>0, <1>4, DirectoryType DEF Fail
  <2>3. Promise!Move(s, "dropped", None)
    BY <2>1, <2>2, Stages, CallMoves
  <2> QED
    BY <2>2, <2>3, BindingsStay DEF Refines, Promise!Next, Promise!Drop
<1> QED
  BY <1>1, <1>2, <1>3, <1>4

LEMMA RefinesWorld ==
  ASSUME IInv, Tick \/ Administer \/ UNCHANGED vars
  PROVE  Refines
<1>1. UNCHANGED <<handler, answer>>
  BY DEF Tick, Administer, Dir!Environment, dirVars, vars
<1>2. UNCHANGED Calls
  BY <1>1 DEF Calls, Stage, Req
<1>3. UNCHANGED Bindings
  <2>1. CASE Tick
    <3>1. ASSUME NEW k \in Uri
          PROVE  /\ location'[k] = None <=> location[k] = None
                 /\ location[k] # None => location'[k].contact = location[k].contact
      <4>1. location[k] \in Route \cup {None}
        BY DEF IInv, TypeOK
      <4>2. location'[k] = IF location[k] = None \/ location[k].left = 0
                             THEN location[k]
                             ELSE [location[k] EXCEPT !.left = @ - 1]
        BY <2>1 DEF Tick
      <4>3. location[k] # None /\ location[k].left # 0 =>
              /\ location'[k] \in Route
              /\ location'[k].contact = location[k].contact
        BY <4>1, <4>2 DEF Route
      <4> QED
        BY <4>2, <4>3
    <3> QED
      BY <3>1 DEF Bindings
  <2>2. CASE UNCHANGED location
    BY <2>2, BindingsStay
  <2> QED
    BY <2>1, <2>2 DEF Administer, vars
<1> QED
  BY <1>2, <1>3 DEF Refines

(***************************************************************************)
(* The replicas together keep the promises of LocationService, for any     *)
(* number of them, any requests, and any window of trust.                  *)
(***************************************************************************)
THEOREM LocationServiceImplemented == Spec => ImplementsLocationService
<1>1. IInv /\ [Next]_vars => Refines
  <2> SUFFICES ASSUME IInv, [Next]_vars PROVE Refines
    OBVIOUS
  <2>1. ASSUME NEW s \in Servers, NEW q \in Requests, Deliver(s, q) PROVE Refines
    BY <2>1, RefinesDeliver
  <2>2. ASSUME NEW s \in Servers, Proceed(s) \/ AwaitDirectory(s) \/ Fail(s)
        PROVE  Refines
    BY <2>2, RefinesQuestion, RefinesAuthorise, RefinesStore, RefinesConclude
       DEF Proceed
  <2>3. CASE Tick \/ Administer \/ UNCHANGED vars
    BY <2>3, RefinesWorld
  <2> QED
    BY <2>1, <2>2, <2>3 DEF Next
<1> QED
  BY <1>1, RefinesInit, Invariant, PTL
     DEF Spec, Refines, ImplementsLocationService, Promise!Spec
=============================================================================
