----------------------------- MODULE Resources -----------------------------
(***************************************************************************)
(* What the REST API promises an administrator: a call that succeeds does  *)
(* what it is for at one moment, of an entity of the kind it was sent to,  *)
(* and at that moment its key was free, what it needs was there, and what  *)
(* it removed was needed by nothing; a call that is refused did nothing.   *)
(* One context of DataApi implements this module.                          *)
(***************************************************************************)
CONSTANTS Contexts, Refs, Keys, None

Kinds == {"gateways", "numbers", "domains", "agents", "peers"}
Entity == [kind : Kinds, key : Keys, needs : SUBSET (Keys \cup Refs)]
Calls == [verb : {"POST", "PUT", "DELETE", "none"}, kind : Kinds \cup {None},
          outcome : {"none", "pending", "refused", "made", "done"}]

VARIABLES
  stored,    \* ref -> entity, or None
  call       \* context -> the call it handles, or handled last

TypeOK ==
  /\ stored \in [Refs -> Entity \cup {None}]
  /\ call \in [Contexts -> Calls]

Init ==
  /\ stored = [r \in Refs |-> None]
  /\ call = [x \in Contexts |-> [verb |-> "none", kind |-> None, outcome |-> "none"]]

There == {r \in Refs : stored[r] # None}

\* What is told apart by its key, agents within a domain.
Same(e, f) ==
  /\ e.kind = f.kind /\ e.key = f.key
  /\ e.kind = "agents" => e.needs \cap f.needs # {}

\* An agent names its domains by their URI, everything else what it needs by ref.
Means(e, n, r) ==
  IF e.kind = "agents" THEN stored[r].kind = "domains" /\ stored[r].key = n ELSE r = n

Taken(e, r)   == \E q \in There \ {r} : Same(stored[q], e)
Provided(e)   == \A n \in e.needs : \E r \in There : Means(e, n, r)
Needed(r)     == \E q \in There : \E n \in stored[q].needs : Means(stored[q], n, r)

-----------------------------------------------------------------------------
\* A call arrives; it may be refused on the spot.
Request(x) ==
  /\ call[x].outcome \in {"none", "refused", "done"}
  /\ \E verb \in {"POST", "PUT", "DELETE"}, kind \in Kinds, outcome \in {"pending", "refused"} :
       call' = [call EXCEPT ![x] = [verb |-> verb, kind |-> kind, outcome |-> outcome]]
  /\ UNCHANGED stored

Settle(x, outcome) ==
  /\ call[x].outcome = "pending"
  /\ call' = [call EXCEPT ![x].outcome = outcome]

Refuse(x) == Settle(x, "refused") /\ UNCHANGED stored

\* What is made is answered at once, or later; but it is never refused.
Make(x) == Settle(x, "made") \/ Settle(x, "done")

Answer(x) ==
  /\ call[x].outcome = "made"
  /\ call' = [call EXCEPT ![x].outcome = "done"]
  /\ UNCHANGED stored

\* Some entity of the kind of the call takes the place at r.
Place(x, r) ==
  /\ stored'[r] \in Entity
  /\ stored'[r].kind = call[x].kind
  /\ stored' = [stored EXCEPT ![r] = stored'[r]]
  /\ ~Taken(stored'[r], r)
  /\ Provided(stored'[r])

Create(x, r) ==
  /\ call[x].verb = "POST" /\ Make(x)
  /\ r \notin There
  /\ Place(x, r)

\* A new name must not take away the one that others know the entity by.
Update(x, r) ==
  /\ call[x].verb = "PUT" /\ Make(x)
  /\ r \in There /\ stored[r].kind = call[x].kind
  /\ Place(x, r)
  /\ stored[r].kind = "domains" => stored'[r].key = stored[r].key

Delete(x, r) ==
  /\ call[x].verb = "DELETE" /\ Make(x)
  /\ r \in There /\ stored[r].kind = call[x].kind
  /\ ~Needed(r)
  /\ stored' = [stored EXCEPT ![r] = None]

Next == \E x \in Contexts :
  \/ Request(x) \/ Refuse(x) \/ Answer(x)
  \/ \E r \in Refs : Create(x, r) \/ Update(x, r) \/ Delete(x, r)

Spec == Init /\ [][Next]_<<stored, call>>
=============================================================================
