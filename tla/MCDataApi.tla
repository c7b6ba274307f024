----------------------------- MODULE MCDataApi ------------------------------
(***************************************************************************)
(* Instances of DataApi for TLC: a chain from an agent to a gateway, and   *)
(* two peers.                                                              *)
(***************************************************************************)
EXTENDS DataApi

CONSTANTS w1, n1, d1, d2, a1, a2, p1, p2,     \* refs
          gw, tel, dom, ann, bob, carl        \* keys

E(kind, key, needs) == [kind |-> kind, key |-> key, needs |-> needs]

Gateway == E("gateways", gw, {})
Number  == E("numbers", tel, {w1})
Plain   == E("domains", dom, {})
Linked  == E("domains", dom, {n1})
Agent   == E("agents", ann, {dom})
Peer    == E("peers", bob, {})
RenamedPeer == E("peers", carl, {})

Pool == [k \in Kinds |->
  (CASE k = "gateways" -> {w1} [] k = "numbers" -> {n1} [] k = "domains" -> {d1, d2}
     [] k = "agents" -> {a1, a2} [] k = "peers" -> {p1, p2}) \cap Refs]

New(bodies) == {<<e, None>> : e \in bodies}
Own(kinds)  == UNION {{k} \X Pool[k] : k \in kinds}

\* The whole chain, and peers, by one replica.
ChainPosts   == New({Gateway, Number, Linked, Agent, Peer})
ChainPuts    == {<<Linked, d1>>, <<RenamedPeer, p1>>}
ChainDeletes == Own(Kinds)

\* Domains and their agents, by two replicas.
PairPosts   == New({Plain, Agent})
PairPuts    == {<<Plain, d1>>}
PairDeletes == Own({"domains", "agents"})
=============================================================================
