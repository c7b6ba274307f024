----------------------------- MODULE MCLifecycle -----------------------------
(***************************************************************************)
(* Two replicas of one Redis.  p1 retries for ever, p2 once.               *)
(***************************************************************************)
EXTENDS Lifecycle, TLC

CONSTANTS p1, p2, bind, record, own1, own2, any, yes

C(b, r) == (bind :> b) @@ (record :> r)

\* The file asks for record routing and the environment says false.
Deploy == {[file |-> C(None, yes), env |-> C(None, False)]}
Own == (p1 :> own1) @@ (p2 :> own2)
Defaults == [p \in Processes |-> C(Own[p], False)]
Retries == [p \in Processes |-> IF p = p1 THEN -1 ELSE 1]
CanBind == [p \in Processes |-> {Own[p], any}]
Modules == <<"config", "source">>
Boots == [p \in Processes |-> IF p = p1 THEN 2 ELSE 1]
Asks == (p1 :> {"restart-server-now"}) @@ (p2 :> {"stop-server", "evict-all"})
AskGracefully == p1 :> Graceful
Wanted == {C(any, False)}
=============================================================================
