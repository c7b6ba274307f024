------------------------------ MODULE SipServer ------------------------------
(***************************************************************************)
(* The SIP side of scaipproxy: one or several replicas that take requests  *)
(* from devices (RequestProcessor), register them (RegisterHandler,        *)
(* SynthRegistrar) and route messages between them (RequestHandler), by    *)
(* way of a location store that the replicas share and that outlives them. *)
(*                                                                         *)
(* A replica runs one handler at a time.  Handlers of different replicas   *)
(* interleave at every command to the store, every question to the data    *)
(* source and every call to the digest service.  The network may lose,     *)
(* repeat and reorder requests: a free replica takes any request at all.   *)
(* Accounts are those of module Directory, which Accounts implements.      *)
(***************************************************************************)
EXTENDS SipMessages, Integers

CONSTANTS
  Servers,    \* replicas
  Requests,   \* requests that devices send
  Vouched,    \* logins the external digest service accepts
  Window,     \* see Directory
  MaxMishaps  \* bound: handlers given up because of a failure outside

ASSUME RequestsAssumption ==
  /\ Requests \subseteq Request
  /\ None \notin Requests
  /\ \A q \in Requests : Registers(q) => q.contact # None
ASSUME WindowAssumption == Window \in Nat
ASSUME MishapsAssumption == MaxMishaps \in Nat

VARIABLES
  handler,   \* server -> what it does, with which request
  location,  \* the store: address of record -> route, or None
  answer, gone, steady,  \* see Directory
  promised,  \* history: keys a device was told are registered
  mishaps    \* how many of the MaxMishaps have happened

Dir == INSTANCE Directory

dirVars == <<answer, gone, steady>>
vars == <<handler, location, answer, gone, steady, promised, mishaps>>

-----------------------------------------------------------------------------
Outcomes == {"ok", "unauthorized", "notAllowed", "unavailable", "forwarded",
             "dropped"}
Steps == {"authorise", "digest", "put", "remove", "find", "forward", "reply"}
Handler == [pc : {"free"} \cup Outcomes \cup Steps,
            req : Requests \cup {None},
            target : Contacts \cup Uri \cup {None}]

\* What is used of a route: where it leads and the ticks until it expires.
Route == [contact : Contacts, left : Nat]
ASSUME RouteAssumption == None \notin Route

Closed(s) == handler[s].pc \in {"free"} \cup Outcomes
Req(s)    == handler[s].req

TypeOK ==
  /\ handler \in [Servers -> Handler]
  /\ \A s \in Servers : handler[s].pc # "free" => Req(s) \in Requests
  /\ location \in [Uri -> Route \cup {None}]
  /\ Dir!TypeOK
  /\ promised \subseteq Uri
  /\ mishaps \in 0 .. MaxMishaps

Goto(s, pc) == handler' = [handler EXCEPT ![s].pc = pc]
Aim(s, pc, target) ==
  handler' = [handler EXCEPT ![s] = [@ EXCEPT !.pc = pc, !.target = target]]

\* A message in a dialog goes where its request URI says, another is looked up.
RouteStep(q) == IF q.inDialog THEN "forward" ELSE "find"
InitialTarget(q) == IF q.inDialog THEN PatchedUri(q) ELSE None

(***************************************************************************)
(* What RequestProcessor and RegisterHandler do first with a request.  A   *)
(* REGISTER with no Contact makes getExpires throw, and nobody replies.    *)
(***************************************************************************)
FirstStep(q) ==
  CASE NeedsLogin(q)                             -> "authorise"
    [] IsUnregister(q)                           -> "remove"
    [] q.method = "REGISTER" /\ q.contact = None -> "dropped"
    [] Registers(q) /\ ~NeedsLogin(q)            -> "put"
    [] IsMessage(q) /\ ~Registers(q)             -> RouteStep(q)
    [] OTHER                                     -> "notAllowed"

Deliver(s, q) ==
  /\ Closed(s)
  /\ handler' = [handler EXCEPT ![s] =
       [pc |-> FirstStep(q), req |-> q,
        target |-> IF FirstStep(q) = "forward" THEN InitialTarget(q) ELSE None]]
  /\ UNCHANGED <<location, dirVars, promised, mishaps>>

-----------------------------------------------------------------------------
(***************************************************************************)
(* isAuthorized(request) || checkAuthorization(request).                   *)
(***************************************************************************)

\* Without an Authorization header both say no.
NoCredentials(s) ==
  /\ handler[s].pc = "authorise"
  /\ Req(s).login = None
  /\ Goto(s, "unauthorized")
  /\ UNCHANGED <<location, dirVars, promised, mishaps>>

AskDirectory(s) ==
  /\ handler[s].pc = "authorise"
  /\ Req(s).login # None
  /\ Dir!Ask(s, Req(s).login)
  /\ UNCHANGED <<handler, location, promised, mishaps>>

AwaitDirectory(s) ==
  /\ Dir!Pursue(s)
  /\ UNCHANGED <<handler, location, promised, mishaps>>

\* Mutant: a lookup that throws lets the request through.
TakeVerdictOpen(s) ==
  LET verdict == answer[s].phase
  IN /\ handler[s].pc = "authorise"
     /\ verdict \in Dir!Verdicts
     /\ Goto(s, IF verdict = "refused" THEN "digest" ELSE "put")
     /\ Dir!Leave(s)
     /\ UNCHANGED <<location, promised, mishaps>>

\* When isAuthorized throws, the listener logs it and nobody replies.
TakeVerdict(s) ==
  LET verdict == answer[s].phase
  IN /\ handler[s].pc = "authorise"
     /\ verdict \in Dir!Verdicts
     /\ Goto(s, CASE verdict = "granted" -> "put"
                  [] verdict = "refused" -> "digest"
                  [] OTHER               -> "dropped")
     /\ Dir!Leave(s)
     /\ UNCHANGED <<location, promised, mishaps>>

\* The blocking call of the digest service; an error counts as a no.
CheckAuthorization(s) ==
  /\ handler[s].pc = "digest"
  /\ \/ Req(s).login \in Vouched /\ Goto(s, "put")
     \/ Goto(s, "unauthorized")
  /\ UNCHANGED <<location, dirVars, promised, mishaps>>

-----------------------------------------------------------------------------
(***************************************************************************)
(* The location store.                                                     *)
(***************************************************************************)

\* Mutants: the route is stored under the To header, or only once.
AddEndpointOfTo(s) ==
  LET q == Req(s)
  IN /\ handler[s].pc = "put"
     /\ location' = [location EXCEPT ![RemovalKey(q)] =
                       [contact |-> q.contact, left |-> Lifetime(q)]]
     /\ IF IsRegister(q)
          THEN Goto(s, "reply")
          ELSE Aim(s, RouteStep(q), InitialTarget(q))
     /\ UNCHANGED <<dirVars, promised, mishaps>>

AddEndpointOnce(s) ==
  LET q == Req(s)
  IN /\ handler[s].pc = "put"
     /\ IF location[StorageKey(q)] # None
          THEN Goto(s, "dropped") /\ UNCHANGED location
          ELSE /\ location' = [location EXCEPT ![StorageKey(q)] =
                                 [contact |-> q.contact, left |-> Lifetime(q)]]
               /\ IF IsRegister(q)
                    THEN Goto(s, "reply")
                    ELSE Aim(s, RouteStep(q), InitialTarget(q))
     /\ UNCHANGED <<dirVars, promised, mishaps>>

\* Locator.addEndpoint: one HSET, over whatever route was there.
AddEndpoint(s) ==
  LET q == Req(s)
  IN /\ handler[s].pc = "put"
     /\ location' = [location EXCEPT ![StorageKey(q)] =
                       [contact |-> q.contact, left |-> Lifetime(q)]]
     /\ IF IsRegister(q)
          THEN Goto(s, "reply")
          ELSE Aim(s, RouteStep(q), InitialTarget(q))
     /\ UNCHANGED <<dirVars, promised, mishaps>>

\* Mutant: whatever is stored is removed, whoever stored it since.
RemoveEndpointBlindly(s) ==
  /\ handler[s].pc = "remove"
  /\ location' = [location EXCEPT ![RemovalKey(Req(s))] = None]
  /\ Goto(s, "reply")
  /\ promised' = promised \ {RemovalKey(Req(s))}
  /\ UNCHANGED <<dirVars, mishaps>>

\* Locator.removeEndpoint: it calls filter on the one route the store holds,
\* which is no array, and throws before it can remove anything.
RemoveEndpoint(s) ==
  /\ handler[s].pc = "remove"
  /\ Goto(s, IF location[RemovalKey(Req(s))] = None THEN "reply" ELSE "dropped")
  /\ promised' = promised \ {RemovalKey(Req(s))}
  /\ UNCHANGED <<location, dirVars, mishaps>>

\* Mutant: the message waits for a device that is not there.
FindEndpointWaiting(s) ==
  LET route == location[RoutingKey(Req(s))]
  IN /\ handler[s].pc = "find"
     /\ route # None
     /\ Aim(s, "forward", route.contact)
     /\ UNCHANGED <<location, dirVars, promised, mishaps>>

\* Locator.findEndpoint, which takes an expired route for as good as any.
FindEndpoint(s) ==
  LET route == location[RoutingKey(Req(s))]
  IN /\ handler[s].pc = "find"
     /\ IF route = None THEN Goto(s, "unavailable")
                        ELSE Aim(s, "forward", route.contact)
     /\ UNCHANGED <<location, dirVars, promised, mishaps>>

\* sendOk of RegisterHandler.
SendOk(s) ==
  LET q == Req(s)
  IN /\ handler[s].pc = "reply"
     /\ Goto(s, "ok")
     /\ promised' = IF IsRegister(q) THEN promised \cup {StorageKey(q)} ELSE promised
     /\ UNCHANGED <<location, dirVars, mishaps>>

\* processRoute: it throws on a Max-Forwards of zero, and on a contact that
\* aorAsObj cannot take apart; nobody replies then.
Forward(s) ==
  /\ handler[s].pc = "forward"
  /\ Goto(s, IF Req(s).maxForwards = 0 \/ handler[s].target \in Unusable
               THEN "dropped" ELSE "forwarded")
  /\ UNCHANGED <<location, dirVars, promised, mishaps>>

\* A command of the store fails, the next hop cannot be reached or the replica
\* is restarted: the request is given up, and nobody replies.
Fail(s) ==
  /\ mishaps < MaxMishaps
  /\ ~Closed(s)
  /\ mishaps' = mishaps + 1
  /\ Goto(s, "dropped")
  /\ Dir!Leave(s)
  /\ UNCHANGED <<location, promised>>

-----------------------------------------------------------------------------
\* Mutant: routes go on ageing past their expiry.
TickPastExpiry ==
  /\ location' = [k \in Uri |->
       IF location[k] = None THEN None
       ELSE [location[k] EXCEPT !.left = @ - 1]]
  /\ UNCHANGED <<handler, dirVars, promised, mishaps>>

\* Time passes for the routes.  Nothing removes those that have expired.
Tick ==
  /\ location' = [k \in Uri |->
       IF location[k] = None \/ location[k].left = 0 THEN location[k]
       ELSE [location[k] EXCEPT !.left = @ - 1]]
  /\ UNCHANGED <<handler, dirVars, promised, mishaps>>

\* Administrators change the accounts, and time passes for them.
Administer ==
  /\ Dir!Environment
  /\ UNCHANGED <<handler, location, promised, mishaps>>

Init ==
  /\ handler = [s \in Servers |-> [pc |-> "free", req |-> None, target |-> None]]
  /\ location = [k \in Uri |-> None]
  /\ Dir!Init
  /\ promised = {}
  /\ mishaps = 0

Proceed(s) ==
  \/ NoCredentials(s) \/ AskDirectory(s) \/ TakeVerdict(s)
  \/ CheckAuthorization(s)
  \/ AddEndpoint(s) \/ RemoveEndpoint(s) \/ FindEndpoint(s)
  \/ SendOk(s) \/ Forward(s)

Next ==
  \/ \E s \in Servers :
       \/ \E q \in Requests : Deliver(s, q)
       \/ Proceed(s) \/ AwaitDirectory(s) \/ Fail(s)
  \/ Tick \/ Administer

Spec == Init /\ [][Next]_vars

(***************************************************************************)
(* Fairness.  A handler goes on; that includes the digest service, which   *)
(* is called with no deadline and is assumed to answer.  A question to the *)
(* data source ends, as every lookup does in Accounts.  A device sends its *)
(* request again until it is answered, and now and then it is taken.       *)
(***************************************************************************)
Settle(s) == AwaitDirectory(s) /\ answer'[s].phase \in Dir!Verdicts

Progress == \A s \in Servers : WF_vars(Proceed(s)) /\ WF_vars(Settle(s))
Resent   == \A s \in Servers, q \in Requests : SF_vars(Deliver(s, q))

FairSpec == Spec /\ Progress /\ Resent

-----------------------------------------------------------------------------
(***************************************************************************)
(* The replicas together keep the promises of LocationService: no address  *)
(* is bound for a login nobody vouched for, a message goes where its key   *)
(* was bound while it was handled, and an answer tells what was done.      *)
(***************************************************************************)
StageOf(pc, q, phase) ==
  CASE pc \in {"free"} \cup Outcomes -> pc
    [] pc = "authorise" -> IF phase = "granted" THEN "trusted"
                           ELSE IF phase = "refused" THEN "suspected" ELSE "open"
    [] pc = "digest" -> "suspected"
    [] pc = "put" -> IF NeedsLogin(q) THEN "trusted" ELSE "open"
    [] pc = "remove" -> "open"
    [] pc = "reply" -> IF IsRegister(q) THEN "bound" ELSE "unbound"
    [] pc = "forward" /\ ~q.inDialog -> "located"
    [] OTHER -> IF Registers(q) THEN "bound" ELSE "open"

Stage(s) == StageOf(handler[s].pc, Req(s), answer[s].phase)

Bindings == [k \in Uri |-> IF location[k] = None THEN None ELSE location[k].contact]
Calls == [s \in Servers |->
  [stage |-> Stage(s), req |-> Req(s),
   target |-> IF Stage(s) \in {"located", "forwarded"} THEN handler[s].target
                                                       ELSE None]]

Promise == INSTANCE LocationService WITH bindings <- Bindings, calls <- Calls
ImplementsLocationService == Promise!Spec

(***************************************************************************)
(* What a device was told stays true until it unregisters: its key leads   *)
(* somewhere, whatever other replicas, duplicates and failures do between  *)
(* the HSET of its registration and the answer to it, and ever after.      *)
(***************************************************************************)
PromisesKept == \A k \in promised : location[k] # None

(***************************************************************************)
(* No handler keeps its replica forever: every request taken is finished   *)
(* with, though not always answered.                                       *)
(***************************************************************************)
HandlersFinish == \A s \in Servers : ~Closed(s) ~> Closed(s)

(***************************************************************************)
(* A device whose login can no longer be missed, and that goes on sending  *)
(* its REGISTER, is told time and again that it is registered.             *)
(***************************************************************************)
Registered ==
  \A s \in Servers, q \in Requests :
    IsRegister(q) /\ q.login # None =>
      (<>[](steady[q.login] > Window)
         => []<>(handler[s].pc = "ok" /\ Req(s) = q))

-----------------------------------------------------------------------------
(***************************************************************************)
(* What a test of the repository says of the locator.                      *)
(***************************************************************************)

\* An unregister that no failure disturbs leaves nothing bound under its key
\* (test "Add/remove local endpoint" of mod/location/test.js).
UnregisterRemoves ==
  [][\A s \in Servers :
       handler[s].pc = "remove" /\ handler'[s].pc # "remove" /\ mishaps' = mishaps
         => location'[RemovalKey(Req(s))] = None]_vars
=============================================================================
