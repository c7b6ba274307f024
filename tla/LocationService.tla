--------------------------- MODULE LocationService --------------------------
(***************************************************************************)
(* What the server promises the devices.  It handles one request at a time *)
(* (each replica, that is); a request may bind an address of record to the *)
(* place its device is reached at, once it is trusted if it must be; it is *)
(* routed to the place its address of record was bound to at some moment   *)
(* of its handling; and what a device is told is what was done.  A request *)
(* may be dropped, with no answer, at any moment.                          *)
(*                                                                         *)
(* Trust rests on the recent past of the login, which administrators make: *)
(* the ages of module Directory, which this one reads and leaves free.     *)
(***************************************************************************)
EXTENDS SipMessages

CONSTANTS
  Servers, Requests,
  Vouched,  \* logins the external digest service accepts
  Window    \* ticks after which the past no longer justifies a verdict

VARIABLES
  bindings,     \* address of record -> contact, or None
  calls,        \* server -> [stage, req, target]
  gone, steady  \* inputs: the ages of the logins

Closed == {"free", "ok", "unauthorized", "notAllowed", "unavailable",
           "forwarded", "dropped"}

Init ==
  /\ bindings = [k \in Uri |-> None]
  /\ calls = [s \in Servers |-> [stage |-> "free", req |-> None, target |-> None]]

Move(s, stage, target) ==
  calls' = [calls EXCEPT ![s] =
              [stage |-> stage, req |-> @.req, target |-> target]]

\* A request no device should send is turned away, or dropped, at once.
Accept(s, q) ==
  /\ calls[s].stage \in Closed
  /\ \E stage \in {"open", "dropped", "notAllowed"} :
       /\ stage = "notAllowed" => q.method = "other"
       /\ calls' = [calls EXCEPT ![s] = [stage |-> stage, req |-> q, target |-> None]]
  /\ UNCHANGED bindings

\* An entity held the login within the window, or the digest service vouches.
Trust(s) ==
  LET l == calls[s].req.login
  IN /\ calls[s].stage \in {"open", "suspected"}
     /\ l # None
     /\ IF calls[s].stage = "open" THEN gone[l] <= Window ELSE l \in Vouched
     /\ Move(s, "trusted", None)
     /\ UNCHANGED bindings

\* A login is suspected only if it could have been missed within the window.
Suspect(s) ==
  LET l == calls[s].req.login
  IN /\ calls[s].stage = "open"
     /\ NeedsLogin(calls[s].req)
     /\ l # None
     /\ steady'[l] <= Window
     /\ Move(s, "suspected", None)
     /\ UNCHANGED bindings

Bind(s) ==
  LET q == calls[s].req
  IN /\ calls[s].stage \in {"open", "trusted"}
     /\ Registers(q)
     /\ NeedsLogin(q) => calls[s].stage = "trusted"
     /\ bindings' = [bindings EXCEPT ![StorageKey(q)] = q.contact]
     /\ Move(s, "bound", None)

\* An unregister: afterwards nothing is bound.
Unbind(s) ==
  LET q == calls[s].req
  IN /\ calls[s].stage = "open"
     /\ IsUnregister(q)
     /\ bindings' = [bindings EXCEPT ![RemovalKey(q)] = None]
     /\ Move(s, "unbound", None)

\* A message is routed after it has registered its device, if it does.
Routable(s) ==
  LET q == calls[s].req
  IN /\ calls[s].stage \in {"open", "bound"}
     /\ IsMessage(q)
     /\ Registers(q) => calls[s].stage = "bound"

Locate(s) ==
  LET target == bindings[RoutingKey(calls[s].req)]
  IN /\ Routable(s)
     /\ ~calls[s].req.inDialog
     /\ Move(s, IF target = None THEN "unavailable" ELSE "located", target)
     /\ UNCHANGED bindings

Forward(s) ==
  LET q == calls[s].req
  IN /\ \/ Routable(s) /\ q.inDialog /\ Move(s, "forwarded", PatchedUri(q))
        \/ calls[s].stage = "located" /\ Move(s, "forwarded", calls[s].target)
     /\ q.maxForwards > 0
     /\ UNCHANGED bindings

\* A login that is asked for and absent needs no judgement.
Answer(s) ==
  LET q == calls[s].req
      stage == calls[s].stage
  IN /\ \/ stage = "bound" /\ IsRegister(q) /\ Move(s, "ok", None)
        \/ stage = "unbound" /\ Move(s, "ok", None)
        \/ stage = "suspected" /\ Move(s, "unauthorized", None)
        \/ /\ stage = "open"
           /\ NeedsLogin(q) /\ q.login = None
           /\ Move(s, "unauthorized", None)
     /\ UNCHANGED bindings

Drop(s) ==
  /\ Move(s, "dropped", None)
  /\ UNCHANGED bindings

Next ==
  \E s \in Servers :
    \/ \E q \in Requests : Accept(s, q)
    \/ Trust(s) \/ Suspect(s)
    \/ Bind(s) \/ Unbind(s)
    \/ Locate(s) \/ Forward(s)
    \/ Answer(s) \/ Drop(s)

Spec == Init /\ [][Next]_<<bindings, calls>>
=============================================================================
