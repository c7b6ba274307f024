--------------------------- MODULE DirectoryProofs ---------------------------
(***************************************************************************)
(* Proofs that Accounts implements Directory, and of what that takes       *)
(* beyond AccountsProofs: a login that could not be missed is not refused. *)
(***************************************************************************)
EXTENDS AccountsProofs

USE RefsAssumption, NoneAssumption, TimeAssumption, BoundsAssumption

PInv == Inv /\ Presence

LEMMA Ages ==
  ASSUME Inv
  PROVE  /\ \A l \in Login : /\ steady[l] \in 0 .. (Window + 1)
                             /\ steady[l] \in Nat
         /\ \A s \in Servers : registrar[s].age \in Nat
                               /\ registrar[s].age <= MaxLookup
         /\ \A s \in Servers, l \in Login :
              /\ agentCache[s][<<l.domain, l.user>>] \in Entry \cup {None}
              /\ peerCache[s][l.user] \in Entry \cup {None}
<1>1. ASSUME NEW l \in Login PROVE l.user \in Users /\ l.domain \in Domains
  BY DEF Login
<1>2. \A l \in Login : steady[l] \in 0 .. (Window + 1)
  BY DEF Inv, TypeOK
<1>3. \A s \in Servers : registrar[s].age \in 0 .. MaxLookup
  BY DEF Inv, TypeOK, Lookup
<1>4. ASSUME NEW s \in Servers, NEW l \in Login
      PROVE  /\ agentCache[s][<<l.domain, l.user>>] \in Entry \cup {None}
             /\ peerCache[s][l.user] \in Entry \cup {None}
  BY <1>1 DEF Inv, TypeOK
<1> QED
  BY <1>2, <1>3, <1>4, WindowType

LEMMA EntryAge ==
  ASSUME NEW entry \in Entry
  PROVE  entry.age \in Nat /\ entry.age + MaxLookup \in Nat
         /\ entry.age + MaxLookup <= Window
  BY WindowType DEF Entry, Window

\* Where no login is steady there is nothing to be kept.
Unsettled == \A l \in Login : steady[l] = 0

LEMMA NothingSteady == Inv /\ Unsettled => Presence
<1> SUFFICES ASSUME Inv, \A l \in Login : steady[l] = 0
             PROVE  Presence
  BY DEF Unsettled
<1>1. SteadyNow
  BY DEF SteadyNow
<1>2. LookupsMeet
  BY Ages DEF LookupsMeet
<1>3. ASSUME NEW entry \in Entry \cup {None}, NEW l \in Login
      PROVE  Tells(entry, l)
  BY <1>3, EntryAge DEF Tells
<1>4. CachesTell
  BY <1>3, Ages DEF CachesTell
<1> QED
  BY <1>1, <1>2, <1>4 DEF Presence

LEMMA PresenceInit == Init => Presence
<1> SUFFICES ASSUME Init PROVE Presence
  OBVIOUS
<1>1. Inv
  BY TypeInit, EvidenceInit DEF Inv
<1> QED
  BY <1>1, NothingSteady DEF Init, Unsettled

\* A supplier is an agent or a peer with a reference in its own collection.
LEMMA SuppliersListed ==
  ASSUME NEW l \in Login
  PROVE  /\ AgentSuppliers(l) \subseteq sets["agents"]
         /\ PeerSuppliers(l) \subseteq sets["peers"]
         /\ Suppliers(l) = AgentSuppliers(l) \cup PeerSuppliers(l)
  BY DEF Suppliers, AgentSuppliers, PeerSuppliers, Refs, Collection

-----------------------------------------------------------------------------
(***************************************************************************)
(* The REST API.  What a login rested on before, it still rests on, or it  *)
(* is no longer steady.                                                    *)
(***************************************************************************)
Rests(l) ==
  \/ steady'[l] = 0
  \/ /\ steady'[l] = steady[l]
     /\ Unmissable(l)'
     /\ Suppliers(l) \subseteq Suppliers(l)'
     /\ \A c \in Collections : sets[c] \subseteq sets'[c]

LEMMA RestKeepsPresence ==
  ASSUME PInv, UNCHANGED <<agentCache, peerCache, registrar>>,
         \A l \in Login : Rests(l)
  PROVE  Presence'
<1>1. SteadyNow'
  BY DEF SteadyNow, Rests, PInv, Presence
<1>2. ASSUME NEW l \in Login PROVE steady'[l] \in Nat /\ steady'[l] <= steady[l]
  BY Ages DEF Rests, PInv
<1>3. ASSUME NEW entry \in Entry \cup {None}, NEW l \in Login, Tells(entry, l)
      PROVE  Tells(entry, l)'
  <2> SUFFICES ASSUME entry # None, entry.secret # l.secret
               PROVE  steady'[l] <= entry.age + MaxLookup
    BY DEF Tells
  <2>1. steady[l] <= entry.age + MaxLookup
    BY <1>3 DEF Tells
  <2> QED
    BY <1>2, <2>1, EntryAge, Ages DEF PInv
<1>4. ASSUME NEW l \in Login, steady'[l] # 0
      PROVE  /\ Suppliers(l) \subseteq Suppliers(l)'
             /\ PeerSuppliers(l) \subseteq PeerSuppliers(l)'
             /\ AgentSuppliers(l) \subseteq AgentSuppliers(l)'
             /\ \A c \in Collections : sets[c] \subseteq sets'[c]
             /\ steady'[l] = steady[l]
  BY <1>4 DEF Rests, PeerSuppliers, AgentSuppliers
<1>5. LookupsMeet'
  <2> SUFFICES ASSUME NEW s \in Servers, NEW l \in Login, Busy(s)',
                      Concerns(registrar[s], l)', steady'[l] > registrar'[s].age
               PROVE  Meets(s, registrar[s], l)'
    BY DEF LookupsMeet
  <2> DEFINE g == registrar[s]
  <2>1. g.age \in Nat /\ registrar' = registrar
    BY Ages DEF PInv
  <2>2. steady'[l] # 0 /\ steady[l] > g.age
    BY <1>2, <1>4, <2>1
  <2>3. Meets(s, g, l) /\ g.phase \in Collections
    BY <2>1, <2>2 DEF PInv, Presence, LookupsMeet, Busy, Concerns
  <2>4. Tells(peerCache[s][l.user], l) => Tells(peerCache[s][l.user], l)'
    BY <1>3, Ages DEF PInv
  <2>5. peerCache' = peerCache
    OBVIOUS
  <2>6. Suppliers(l)' = Suppliers(l)' /\ g.todo \subseteq sets'[g.phase]
    BY <1>4, <2>2, <2>3 DEF Meets
  <2>7. \/ g.hit = l.secret
        \/ g.todo \cap Suppliers(l)' # {}
        \/ g.phase = "agents" /\ PeerSuppliers(l)' # {} /\ Tells(peerCache[s][l.user], l)'
        \/ g.phase = "peers" /\ l # g.login /\ AgentSuppliers(l)' # {}
    BY <1>4, <2>2, <2>3, <2>4 DEF Meets
  <2> QED
    BY <2>1, <2>3, <2>5, <2>6, <2>7 DEF Meets
<1>6. CachesTell'
  <2> SUFFICES ASSUME NEW s \in Servers, NEW l \in Login
               PROVE  /\ Tells(agentCache[s][<<l.domain, l.user>>], l)'
                      /\ AgentSuppliers(l)' # {} \/ Tells(peerCache[s][l.user], l)'
    BY DEF CachesTell
  <2>1. /\ Tells(agentCache[s][<<l.domain, l.user>>], l)
        /\ AgentSuppliers(l) # {} \/ Tells(peerCache[s][l.user], l)
    BY DEF PInv, Presence, CachesTell
  <2>2. /\ agentCache[s][<<l.domain, l.user>>] \in Entry \cup {None}
        /\ peerCache[s][l.user] \in Entry \cup {None}
    BY Ages DEF PInv
  <2>3. Tells(agentCache[s][<<l.domain, l.user>>], l)'
    BY <1>3, <2>1, <2>2
  <2>4. CASE steady'[l] = 0
    BY <2>2, <2>3, <2>4, EntryAge DEF Tells
  <2>5. CASE steady'[l] # 0
    BY <1>3, <1>4, <2>1, <2>2, <2>3, <2>5
  <2> QED
    BY <2>4, <2>5
<1> QED
  BY <1>1, <1>5, <1>6 DEF Presence

LEMMA PresenceRest ==
  ASSUME PInv, Writing
  PROVE  Presence'
<1>1. UNCHANGED <<agentCache, peerCache, registrar>> /\ Observe
  BY WritingKeeps
<1>2. ASSUME NEW l \in Login
      PROVE  \/ steady'[l] = 0
             \/ /\ steady'[l] = steady[l]
                /\ Unmissable(l)'
                /\ Suppliers(l) \subseteq Suppliers(l)'
  BY <1>1 DEF Observe
<1>3. PICK w \in Writers : Store!Write(w) \/ Store!Break(w)
  BY WritingStore
<1>4. ASSUME NEW l \in Login, UNCHANGED sets PROVE Rests(l)
  BY <1>2, <1>4 DEF Rests
<1>5. ASSUME Store!Finish(w), NEW l \in Login PROVE Rests(l)
  <2>1. CASE Store!Awaits(w, {"SREM"})
    <3>1. steady[l] = 0
      BY <2>1, Ages DEF PInv, Presence, SteadyNow, Unmissable, Removing
    <3> QED
      BY <1>2, <3>1 DEF Rests
  <2>2. CASE ~Store!Awaits(w, {"SREM"})
    <3>1. PICK r \in Refs : sets' = [sets EXCEPT ![Collection(r)] = @ \cup {r}]
      BY <1>5, <2>2, StoreFinishes DEF PInv, Inv
    <3>2. \A c \in Collections : sets[c] \subseteq sets'[c]
      BY <3>1 DEF PInv, Inv, TypeOK
    <3> QED
      BY <1>2, <3>2 DEF Rests
  <2> QED
    BY <2>1, <2>2
<1>6. \A l \in Login : Rests(l)
  BY <1>3, <1>4, <1>5, StoreWrites DEF PInv, Inv
<1> QED
  BY <1>1, <1>6, RestKeepsPresence

-----------------------------------------------------------------------------
(***************************************************************************)
(* The Registrars.                                                         *)
(***************************************************************************)

\* One Registrar goes on; what it goes on with must meet the steady logins.
LEMMA OneMoves ==
  ASSUME PInv, NEW s \in Servers, NEW v,
         UNCHANGED <<strings, sets, pending, steady>>,
         registrar' = [registrar EXCEPT ![s] = v],
         \A t \in Servers : t # s => peerCache'[t] = peerCache[t],
         v.phase \in Collections =>
           /\ peerCache' = peerCache
           /\ \A l \in Login : Concerns(v, l) /\ steady[l] > v.age => Meets(s, v, l)
  PROVE  SteadyNow' /\ LookupsMeet'
<1>1. \A l \in Login : Suppliers(l)' = Suppliers(l)
  BY DEF Suppliers
<1>2. SteadyNow'
  BY <1>1 DEF PInv, Presence, SteadyNow, Unmissable, Dangling, Removing, Store!Awaits
<1>3. LookupsMeet'
  <2> SUFFICES ASSUME NEW t \in Servers, NEW l \in Login, Busy(t)',
                      Concerns(registrar[t], l)', steady'[l] > registrar'[t].age
               PROVE  Meets(t, registrar[t], l)'
    BY DEF LookupsMeet
  <2>1. registrar'[t] = IF t = s THEN v ELSE registrar[t]
    BY DEF PInv, Inv, TypeOK
  <2>2. peerCache'[t] = peerCache[t]
    BY <2>1 DEF Busy
  <2>3. Meets(t, registrar'[t], l)
    BY <2>1 DEF PInv, Presence, LookupsMeet, Busy, Concerns
  <2> QED
    BY <1>1, <2>2, <2>3 DEF Meets, Tells, PeerSuppliers, AgentSuppliers
<1> QED
  BY <1>2, <1>3

LEMMA CachesKept ==
  ASSUME PInv, UNCHANGED <<strings, sets, steady, agentCache, peerCache>>
  PROVE  CachesTell'
  BY DEF PInv, Presence, CachesTell, Tells, AgentSuppliers, Suppliers

LEMMA SteadySupplied ==
  ASSUME PInv, NEW l \in Login, NEW age \in Nat, steady[l] > age
  PROVE  /\ ~Dangling
         /\ AgentSuppliers(l) # {} \/ PeerSuppliers(l) # {}
         /\ \A r \in Suppliers(l) : strings[r].secret = l.secret
<1>1. Unmissable(l)
  BY Ages DEF PInv, Presence, SteadyNow
<1> QED
  BY <1>1, SuppliersListed DEF Unmissable

LEMMA PresenceStartLookup ==
  ASSUME PInv, NEW s \in Servers, NEW l \in Login, StartLookup(s, l)
  PROVE  Presence'
<1> DEFINE v == Search(l, "agents", 0)
<1>1. UNCHANGED <<strings, sets, pending, agentCache, peerCache, steady>>
  BY DEF StartLookup, history
<1>2. /\ v.phase = "agents" /\ v.login = l /\ v.todo = sets["agents"]
      /\ v.hit = None /\ v.broken = FALSE /\ v.age = 0
  BY DEF Search
<1>3. ASSUME NEW k \in Login, Concerns(v, k), steady[k] > v.age
      PROVE  Meets(s, v, k)
  <2>1. AgentSuppliers(k) # {} \/ PeerSuppliers(k) # {}
    BY <1>2, <1>3, SteadySupplied
  <2>2. AgentSuppliers(k) # {} => v.todo \cap Suppliers(k) # {}
    BY <1>2, SuppliersListed
  <2>3. AgentSuppliers(k) # {} \/ Tells(peerCache[s][k.user], k)
    BY DEF PInv, Presence, CachesTell
  <2> HIDE DEF v
  <2> QED
    BY <1>2, <2>1, <2>2, <2>3 DEF Meets
<1>4. \/ registrar' = [registrar EXCEPT ![s] = v]
      \/ \E secret : registrar' = [registrar EXCEPT ![s] = Judge(l, secret)]
  BY DEF StartLookup
<1> HIDE DEF v
<1>5. \A secret : Judge(l, secret).phase \notin Collections
  BY DEF Judge, Verdict, Collections
<1>6. SteadyNow' /\ LookupsMeet'
  BY <1>1, <1>3, <1>4, <1>5, OneMoves
<1> QED
  BY <1>1, <1>6, CachesKept DEF Presence

LEMMA PresenceGetEntity ==
  ASSUME PInv, NEW s \in Servers, NEW r \in Refs, GetEntity(s, r)
  PROVE  Presence'
<1> DEFINE g == registrar[s]
           e == strings[r]
           found == ~g.broken /\ e # None /\ Matches(g.phase, e, g.login)
           v == registrar'[s]
<1>1. UNCHANGED <<strings, sets, pending, agentCache, peerCache, steady>>
  BY DEF GetEntity, history
<1>2. /\ g.phase \in Collections /\ r \in g.todo
      /\ v.phase = g.phase /\ v.login = g.login /\ v.age = g.age
      /\ v.todo = g.todo \ {r}
      /\ v.broken = (g.broken \/ e = None)
      /\ v.hit = IF found THEN e.secret ELSE g.hit
      /\ registrar' = [registrar EXCEPT ![s] = v]
  BY DEF GetEntity, PInv, Inv, TypeOK, Lookup, Busy
<1>3. Collection(r) = g.phase
  BY <1>2 DEF PInv, Inv, Evidence, OwnRefs, Busy
<1> HIDE DEF found, v
<1>4. ASSUME NEW k \in Login, Concerns(v, k), steady[k] > v.age
      PROVE  Meets(s, v, k)
  <2>1. Meets(s, g, k)
    BY <1>2, <1>4 DEF PInv, Presence, LookupsMeet, Busy, Concerns
  <2>2. g.age \in Nat /\ steady[k] > g.age
    BY <1>2, <1>4, Ages DEF PInv
  <2>3. ~Dangling /\ \A q \in Suppliers(k) : strings[q].secret = k.secret
    BY <2>2, SteadySupplied
  <2>4. r \in sets[g.phase] /\ e # None /\ ~g.broken
    BY <1>2, <2>1, <2>3 DEF Meets, Dangling
  <2>5. found <=> r \in Suppliers(k)
    <3>1. Matches(g.phase, e, g.login) <=> Matches(g.phase, e, k)
      BY <1>2, <1>4 DEF Concerns, Matches
    <3> QED
      BY <1>3, <2>4, <3>1 DEF found, Suppliers
  <2>6. CASE found
    BY <1>2, <2>1, <2>3, <2>4, <2>5, <2>6 DEF Meets
  <2>7. CASE ~found
    <3>1. v.todo \cap Suppliers(k) = g.todo \cap Suppliers(k)
      BY <1>2, <2>5, <2>7
    <3> QED
      BY <1>2, <2>1, <2>4, <2>7, <3>1 DEF Meets
  <2> QED
    BY <2>6, <2>7
<1>5. SteadyNow' /\ LookupsMeet'
  <2>1. \E w : /\ registrar' = [registrar EXCEPT ![s] = w]
               /\ \A k \in Login : Concerns(w, k) /\ steady[k] > w.age => Meets(s, w, k)
    BY <1>2, <1>4
  <2> QED
    BY <1>1, <2>1, OneMoves
<1> QED
  BY <1>1, <1>5, CachesKept DEF Presence

\* The search among the peers begins, or their cache answers.
LEMMA PresenceAskPeers ==
  ASSUME PInv, NEW s \in Servers, NEW l \in Login, NEW age \in Nat,
         AskPeers(s, l, age), UNCHANGED <<strings, sets, pending, peerCache, steady>>,
         steady[l] > age => PeerSuppliers(l) # {}
  PROVE  SteadyNow' /\ LookupsMeet'
<1> DEFINE v == Search(l, "peers", age)
<1>1. /\ v.phase = "peers" /\ v.login = l /\ v.todo = sets["peers"]
      /\ v.hit = None /\ v.broken = FALSE /\ v.age = age
  BY DEF Search
<1>2. \/ registrar' = [registrar EXCEPT ![s] = v]
      \/ \E secret : registrar' = [registrar EXCEPT ![s] = Judge(l, secret)]
  BY DEF AskPeers
<1> HIDE DEF v
<1>3. ASSUME NEW k \in Login, Concerns(v, k), steady[k] > v.age
      PROVE  Meets(s, v, k)
  <2>1. AgentSuppliers(k) # {} \/ PeerSuppliers(k) # {}
    BY <1>1, <1>3, SteadySupplied
  <2>2. PeerSuppliers(k) # {} => v.todo \cap Suppliers(k) # {}
    BY <1>1, SuppliersListed
  <2>3. k = l => PeerSuppliers(k) # {}
    BY <1>1, <1>3
  <2> QED
    BY <1>1, <2>1, <2>2, <2>3 DEF Meets
<1>4. \A secret : Judge(l, secret).phase \notin Collections
  BY DEF Judge, Verdict, Collections
<1> QED
  BY <1>2, <1>3, <1>4, OneMoves

\* A verdict meets whatever is steady: there is nothing left to be read.
LEMMA PresenceVerdict ==
  ASSUME PInv, NEW s \in Servers, NEW v, v.phase \notin Collections,
         registrar' = [registrar EXCEPT ![s] = v],
         UNCHANGED <<strings, sets, pending, steady>>,
         \A t \in Servers : t # s => peerCache'[t] = peerCache[t]
  PROVE  SteadyNow' /\ LookupsMeet'
  BY OneMoves

LEMMA PresenceConcludeAgents ==
  ASSUME PInv, NEW s \in Servers, ConcludeAgents(s)
  PROVE  Presence'
<1> DEFINE g == registrar[s]
           key == <<g.login.domain, g.login.user>>
<1>1. /\ g.phase = "agents" /\ Busy(s) /\ g.todo = {}
      /\ g.login \in Login /\ g.age \in Nat /\ g.age <= MaxLookup
      /\ UNCHANGED <<strings, sets, pending, peerCache, steady>>
  BY Ages DEF ConcludeAgents, PInv, Inv, TypeOK, Busy, Collections, history
<1>2. ASSUME NEW k \in Login, k.user = g.login.user, k.domain = g.login.domain,
             steady[k] > g.age
      PROVE  /\ g.hit = k.secret \/ (g.hit = None /\ PeerSuppliers(k) # {})
             /\ ~g.broken
  BY <1>1, <1>2 DEF PInv, Presence, LookupsMeet, Concerns, Meets
<1>3. SteadyNow' /\ LookupsMeet'
  <2>1. CASE g.broken /\ registrar' = [registrar EXCEPT ![s] = Verdict(g.login, "failed")]
    <3>1. Verdict(g.login, "failed").phase \notin Collections
      BY DEF Verdict, Collections
    <3> QED
      BY <1>1, <2>1, <3>1, PresenceVerdict
  <2>2. CASE registrar' = [registrar EXCEPT ![s] = Judge(g.login, g.hit)]
    <3>1. Judge(g.login, g.hit).phase \notin Collections
      BY DEF Judge, Verdict, Collections
    <3> QED
      BY <1>1, <2>2, <3>1, PresenceVerdict
  <2>3. CASE ~g.broken /\ g.hit = None /\ AskPeers(s, g.login, g.age)
    <3>1. steady[g.login] > g.age => PeerSuppliers(g.login) # {}
      BY <1>1, <1>2, <2>3 DEF Login
    <3> QED
      BY <1>1, <2>3, <3>1, PresenceAskPeers
  <2> QED
    BY <2>1, <2>2, <2>3 DEF ConcludeAgents
<1>4. CachesTell'
  <2>1. \A l \in Login : AgentSuppliers(l)' = AgentSuppliers(l)
    BY <1>1 DEF AgentSuppliers, Suppliers
  <2> SUFFICES ASSUME NEW t \in Servers, NEW l \in Login
               PROVE  Tells(agentCache'[t][<<l.domain, l.user>>], l)
    BY <1>1, <2>1 DEF PInv, Presence, CachesTell, Tells
  <2>2. CASE agentCache'[t][<<l.domain, l.user>>] = agentCache[t][<<l.domain, l.user>>]
    BY <2>2 DEF PInv, Presence, CachesTell
  <2>3. CASE agentCache'[t][<<l.domain, l.user>>] # agentCache[t][<<l.domain, l.user>>]
    <3>1. agentCache' = [agentCache EXCEPT ![s][key] = [secret |-> g.hit, age |-> 0]]
          /\ g.hit # None
      BY <2>3 DEF ConcludeAgents
    <3>2. /\ t = s /\ <<l.domain, l.user>> = key
          /\ agentCache'[t][<<l.domain, l.user>>] = [secret |-> g.hit, age |-> 0]
      BY <2>3, <3>1 DEF PInv, Inv, TypeOK, Login
    <3>3. steady[l] > g.age => g.hit = l.secret
      BY <1>2, <3>1, <3>2
    <3>4. g.hit # l.secret => steady[l] <= MaxLookup
      BY <1>1, <3>3, Ages, WindowType DEF PInv
    <3> QED
      BY <3>2, <3>4, WindowType DEF Tells
  <2> QED
    BY <2>2, <2>3
<1> QED
  BY <1>3, <1>4 DEF Presence

LEMMA PresenceConcludePeers ==
  ASSUME PInv, NEW s \in Servers, ConcludePeers(s)
  PROVE  Presence'
<1> DEFINE g == registrar[s]
<1>1. /\ g.phase = "peers" /\ Busy(s) /\ g.todo = {}
      /\ g.login \in Login /\ g.age \in Nat /\ g.age <= MaxLookup
      /\ UNCHANGED <<strings, sets, pending, agentCache, steady>>
  BY Ages DEF ConcludePeers, PInv, Inv, TypeOK, Busy, Collections, history
<1>2. ASSUME NEW k \in Login, k.user = g.login.user, steady[k] > g.age
      PROVE  g.hit = k.secret \/ AgentSuppliers(k) # {}
  BY <1>1, <1>2 DEF PInv, Presence, LookupsMeet, Concerns, Meets
<1>3. \/ UNCHANGED peerCache
      \/ peerCache' = [peerCache EXCEPT ![s][g.login.user] =
                         [secret |-> g.hit, age |-> 0]]
  BY DEF ConcludePeers
<1>4. \A t \in Servers : t # s => peerCache'[t] = peerCache[t]
  BY <1>3 DEF PInv, Inv, TypeOK
<1>5. SteadyNow' /\ LookupsMeet'
  <2>1. \E v : v.phase \notin Collections /\ registrar' = [registrar EXCEPT ![s] = v]
    BY DEF ConcludePeers, Judge, Verdict, Collections
  <2> QED
    BY <1>1, <1>4, <2>1, PresenceVerdict
<1>6. CachesTell'
  <2>1. \A l \in Login : AgentSuppliers(l)' = AgentSuppliers(l)
    BY <1>1 DEF AgentSuppliers, Suppliers
  <2> SUFFICES ASSUME NEW t \in Servers, NEW l \in Login, AgentSuppliers(l) = {}
               PROVE  Tells(peerCache'[t][l.user], l)
    BY <1>1, <2>1 DEF PInv, Presence, CachesTell, Tells
  <2>2. CASE peerCache'[t][l.user] = peerCache[t][l.user]
    BY <2>2 DEF PInv, Presence, CachesTell
  <2>3. CASE peerCache'[t][l.user] # peerCache[t][l.user]
    <3>1. /\ t = s /\ l.user = g.login.user
          /\ peerCache'[t][l.user] = [secret |-> g.hit, age |-> 0]
      BY <1>3, <2>3 DEF PInv, Inv, TypeOK, Login
    <3>2. g.hit # l.secret => steady[l] <= MaxLookup
      BY <1>1, <1>2, <3>1, Ages, WindowType DEF PInv
    <3> QED
      BY <3>1, <3>2, WindowType DEF Tells
  <2> QED
    BY <2>2, <2>3
<1> QED
  BY <1>5, <1>6 DEF Presence

LEMMA PresenceReturn ==
  ASSUME PInv, NEW s \in Servers, Return(s)
  PROVE  Presence'
<1>1. UNCHANGED <<strings, sets, pending, agentCache, peerCache, steady>>
  BY DEF Return, history
<1>2. registrar' = [registrar EXCEPT ![s] = Idle] /\ Idle.phase \notin Collections
  BY DEF Return, Idle, Verdict, Collections
<1> QED
  BY <1>1, <1>2, PresenceVerdict, CachesKept DEF Presence

LEMMA PresenceMishap ==
  ASSUME PInv, NEW s \in Servers, FindFails(s) \/ Restart(s)
  PROVE  Presence'
<1>1. CASE FindFails(s)
  <2>1. TypeOK' /\ Evidence'
    BY <1>1, TypeMishap, EvidenceMishap DEF PInv, Inv
  <2>2. Unsettled'
    BY <1>1 DEF FindFails, Unsettled
  <2>3. Inv'
    BY <2>1 DEF Inv
  <2> QED
    BY <2>2, <2>3, NothingSteady, PTL
<1>2. CASE Restart(s)
  <2>1. UNCHANGED <<strings, sets, pending, steady>>
    BY <1>2 DEF Restart, history
  <2>2. registrar' = [registrar EXCEPT ![s] = Idle] /\ Idle.phase \notin Collections
    BY <1>2 DEF Restart, Idle, Verdict, Collections
  <2>3. /\ \A t \in Servers : t # s => agentCache'[t] = agentCache[t]
                                       /\ peerCache'[t] = peerCache[t]
        /\ \A l \in Login : agentCache'[s][<<l.domain, l.user>>] = None
                            /\ peerCache'[s][l.user] = None
    <3>1. \A l \in Login : l.user \in Users /\ <<l.domain, l.user>> \in Domains \X Users
      BY DEF Login
    <3> QED
      BY <1>2, <3>1 DEF Restart, PInv, Inv, TypeOK
  <2>4. SteadyNow' /\ LookupsMeet'
    BY <2>1, <2>2, <2>3, PresenceVerdict
  <2>5. CachesTell'
    BY <2>1, <2>3 DEF PInv, Presence, CachesTell, Tells, AgentSuppliers, Suppliers
  <2> QED
    BY <2>4, <2>5 DEF Presence
<1> QED
  BY <1>1, <1>2

\* A tick ages a steady login, the lookups and the cache entries alike.
LEMMA PresenceTick ==
  ASSUME PInv, Tick
  PROVE  Presence'
<1>1. UNCHANGED <<strings, sets, pending>>
  BY DEF Tick
<1>2. \A l \in Login : /\ Suppliers(l)' = Suppliers(l)
                       /\ Unmissable(l)' = Unmissable(l)
                       /\ PeerSuppliers(l)' = PeerSuppliers(l)
                       /\ AgentSuppliers(l)' = AgentSuppliers(l)
  BY <1>1 DEF Suppliers, Unmissable, Dangling, Removing, Store!Awaits, PeerSuppliers, AgentSuppliers
<1>3. SteadyNow'
  BY <1>2, WindowType DEF SteadyNow, Tick
<1>4. ASSUME NEW l \in Login
      PROVE  steady'[l] \in Nat /\ steady[l] \in Nat /\ steady'[l] <= steady[l] + 1
  <2>1. steady[l] \in 0 .. (Window + 1) /\ steady[l] \in Nat
    BY Ages DEF PInv
  <2>2. steady'[l] = 0 \/ steady'[l] = Older(steady[l])
    BY DEF Tick
  <2> QED
    BY <2>1, <2>2, OlderType, WindowType
<1>5. ASSUME NEW l \in Login, NEW entry \in Entry \cup {None}, Tells(entry, l),
             Expire(entry) # None, Expire(entry).secret # l.secret
      PROVE  steady'[l] <= Expire(entry).age + MaxLookup
  <2>1. entry \in Entry /\ Expire(entry) = [entry EXCEPT !.age = @ + 1] /\ entry # None
    BY <1>5 DEF Expire
  <2>2. Expire(entry).age = entry.age + 1 /\ Expire(entry).secret = entry.secret
    BY <2>1 DEF Entry
  <2>3. steady[l] <= entry.age + MaxLookup
    BY <1>5, <2>1, <2>2 DEF Tells
  <2>4. entry.age \in Nat
    BY <2>1, EntryAge
  <2> QED
    BY <1>4, <2>2, <2>3, <2>4, WindowType
<1>6. ASSUME NEW s \in Servers, NEW l \in Login
      PROVE  /\ Tells(agentCache[s][<<l.domain, l.user>>], l)
                  => Tells(agentCache[s][<<l.domain, l.user>>], l)'
             /\ Tells(peerCache[s][l.user], l) => Tells(peerCache[s][l.user], l)'
  <2>1. l.user \in Users /\ <<l.domain, l.user>> \in Domains \X Users
    BY DEF Login
  <2>2. agentCache'[s][<<l.domain, l.user>>] = Expire(agentCache[s][<<l.domain, l.user>>])
    BY <2>1, SMT DEF Tick
  <2>3. peerCache'[s][l.user] = Expire(peerCache[s][l.user])
    BY <2>1, SMT DEF Tick
  <2>4. /\ agentCache[s][<<l.domain, l.user>>] \in Entry \cup {None}
        /\ peerCache[s][l.user] \in Entry \cup {None}
    BY Ages DEF PInv
  <2>5. Tells(agentCache[s][<<l.domain, l.user>>], l)
          => Tells(agentCache[s][<<l.domain, l.user>>], l)'
    <3> SUFFICES ASSUME Tells(agentCache[s][<<l.domain, l.user>>], l),
                        agentCache'[s][<<l.domain, l.user>>] # None,
                        agentCache'[s][<<l.domain, l.user>>].secret # l.secret
                 PROVE  steady'[l] <= agentCache'[s][<<l.domain, l.user>>].age + MaxLookup
      BY DEF Tells
    <3> QED
      BY <1>5, <2>2, <2>4
  <2>6. Tells(peerCache[s][l.user], l) => Tells(peerCache[s][l.user], l)'
    <3> SUFFICES ASSUME Tells(peerCache[s][l.user], l), peerCache'[s][l.user] # None,
                        peerCache'[s][l.user].secret # l.secret
                 PROVE  steady'[l] <= peerCache'[s][l.user].age + MaxLookup
      BY DEF Tells
    <3> QED
      BY <1>5, <2>3, <2>4
  <2> QED
    BY <2>5, <2>6
<1>7. CachesTell'
  BY <1>2, <1>6 DEF PInv, Presence, CachesTell
<1>8. LookupsMeet'
  <2> SUFFICES ASSUME NEW s \in Servers, NEW l \in Login, Busy(s)',
                      Concerns(registrar[s], l)', steady'[l] > registrar'[s].age
               PROVE  Meets(s, registrar[s], l)'
    BY DEF LookupsMeet
  <2>1. registrar'[s] = IF Busy(s) THEN [registrar[s] EXCEPT !.age = @ + 1]
                                   ELSE registrar[s]
    BY DEF Tick
  <2>2. registrar[s] \in Lookup
    BY DEF PInv, Inv, TypeOK
  <2>3. Busy(s)
    BY <2>1 DEF Busy
  <2>4. /\ registrar'[s].todo = registrar[s].todo
        /\ registrar'[s].phase = registrar[s].phase
        /\ registrar'[s].login = registrar[s].login
        /\ registrar'[s].hit = registrar[s].hit
        /\ registrar'[s].broken = registrar[s].broken
        /\ registrar'[s].age = registrar[s].age + 1
    BY <2>1, <2>2, <2>3 DEF Lookup
  <2>5. registrar[s].age \in Nat
    BY Ages DEF PInv
  <2>6. steady[l] > registrar[s].age
    BY <1>4, <2>4, <2>5
  <2>7. Meets(s, registrar[s], l)
    BY <2>3, <2>4, <2>6 DEF PInv, Presence, LookupsMeet, Concerns
  <2> QED
    BY <1>1, <1>2, <1>6, <2>4, <2>7 DEF Meets
<1> QED
  BY <1>3, <1>7, <1>8 DEF Presence

LEMMA PInvNext == PInv /\ [Next]_vars => PInv'
<1> SUFFICES ASSUME PInv, [Next]_vars PROVE Presence'
  BY InvNext DEF PInv
<1>1. CASE UNCHANGED vars
  <2>1. \A l \in Login : Rests(l)
    <3> SUFFICES ASSUME NEW l \in Login PROVE Rests(l)
      OBVIOUS
    <3>1. Suppliers(l)' = Suppliers(l) /\ Unmissable(l)' = Unmissable(l)
      BY <1>1 DEF vars, Suppliers, Unmissable, Dangling, Removing, Store!Awaits
    <3>2. steady[l] = 0 \/ Unmissable(l)
      BY Ages DEF PInv, Presence, SteadyNow
    <3> QED
      BY <1>1, <3>1, <3>2 DEF vars, Rests
  <2> QED
    BY <1>1, <2>1, RestKeepsPresence DEF vars
<1>2. ASSUME NEW s \in Servers, Work(s) PROVE Presence'
  BY <1>2, PresenceGetEntity, PresenceConcludeAgents, PresenceConcludePeers,
     PresenceReturn DEF Work
<1> QED
  BY <1>1, <1>2, PresenceRest, PresenceStartLookup, PresenceMishap, PresenceTick DEF Next, Writing

LEMMA PInvAlways == Spec => []PInv
<1>1. Init => PInv
  BY TypeInit, EvidenceInit, PresenceInit DEF Inv, PInv
<1> QED
  BY <1>1, PInvNext, PTL DEF Spec

(***************************************************************************)
(* A lookup for a login that could not be missed since before it began is  *)
(* on the way to its secret, and what the caches could refuse it for is    *)
(* older than that, however many entities are being edited.                *)
(***************************************************************************)
THEOREM PresenceHolds == Spec => []Presence
<1>1. PInv => Presence
  BY DEF PInv
<1> QED
  BY <1>1, PInvAlways, PTL

-----------------------------------------------------------------------------
(***************************************************************************)
(* Refusals.                                                               *)
(***************************************************************************)
Refuses(s) == Decides(s, "refused") \/ Decides(s, "failed")

LEMMA JudgeRefuses ==
  ASSUME NEW l \in Login, NEW secret
  PROVE  /\ Judge(l, secret).phase \in {"granted", "refused"}
         /\ Judge(l, secret).phase = "refused" => secret # l.secret
         /\ Judge(l, secret).login = l
  BY DEF Judge, Verdict

LEMMA CacheRefuses ==
  ASSUME PInv, NEW l \in Login, NEW entry \in Entry, Tells(entry, l),
         entry # None, entry.secret # l.secret
  PROVE  steady[l] <= Window
<1>1. steady[l] <= entry.age + MaxLookup
  BY DEF Tells
<1> QED
  BY <1>1, EntryAge, Ages, WindowType DEF PInv

\* A lookup that missed a login, or broke off, outlasts what was steady.
LEMMA MissRefuses ==
  ASSUME PInv, NEW s \in Servers, Busy(s), registrar[s].todo = {},
         \/ registrar[s].broken
         \/ /\ registrar[s].hit # registrar[s].login.secret
            /\ registrar[s].hit # None \/ registrar[s].phase = "peers"
  PROVE  steady[registrar[s].login] <= Window
<1> DEFINE g == registrar[s]
<1>1. g.login \in Login /\ g.age \in Nat /\ g.age <= MaxLookup
  BY Ages DEF PInv, Inv, TypeOK
<1>2. steady[g.login] > g.age => Meets(s, g, g.login)
  BY <1>1 DEF PInv, Presence, LookupsMeet, Concerns
<1>3. ~Meets(s, g, g.login)
  BY DEF Meets
<1>4. steady[g.login] <= g.age
  BY <1>1, <1>2, <1>3, Ages DEF PInv
<1> QED
  BY <1>1, <1>4, Ages, WindowType DEF PInv, Window

LEMMA AskPeersRefuses ==
  ASSUME PInv, NEW s \in Servers, NEW l \in Login, NEW age, AskPeers(s, l, age),
         registrar'[s].phase \in {"refused", "failed"},
         Tells(peerCache[s][l.user], l)
  PROVE  registrar'[s].login = l /\ steady[l] <= Window
<1> DEFINE entry == peerCache[s][l.user]
<1>1. entry # None /\ registrar'[s] = Judge(l, entry.secret)
  <2>1. registrar'[s] = IF entry = None THEN Search(l, "peers", age)
                                        ELSE Judge(l, entry.secret)
    BY DEF AskPeers, PInv, Inv, TypeOK
  <2>2. Search(l, "peers", age).phase = "peers"
    BY DEF Search
  <2> QED
    BY <2>1, <2>2
<1>2. entry.secret # l.secret /\ registrar'[s].login = l
  BY <1>1, JudgeRefuses
<1>3. entry \in Entry \cup {None}
  BY Ages DEF PInv
<1> QED
  BY <1>1, <1>2, <1>3, CacheRefuses

\* Only the steps of a lookup end it: they alone change the phase to a verdict.
LEMMA Deciding ==
  ASSUME PInv, Next, NEW s \in Servers, registrar'[s].phase # registrar[s].phase,
         registrar'[s].phase \in {"granted", "refused", "failed"}
  PROVE  \/ \E l \in Login : StartLookup(s, l)
         \/ ConcludeAgents(s)
         \/ ConcludePeers(s)
         \/ FindFails(s)
<1>1. ASSUME NEW r \in Refs, GetEntity(s, r) PROVE FALSE
  BY <1>1 DEF GetEntity, PInv, Inv, TypeOK, Lookup
<1>2. ASSUME Return(s) \/ Restart(s) PROVE FALSE
  <2>1. registrar'[s] = Idle
    BY <1>2 DEF Return, Restart, PInv, Inv, TypeOK
  <2> QED
    BY <2>1 DEF Idle, Verdict
<1>3. ASSUME Tick PROVE FALSE
  BY <1>3 DEF Tick, PInv, Inv, TypeOK, Lookup
<1>4. ASSUME NEW t \in Servers, t # s,
             (\E l \in Login : StartLookup(t, l)) \/ Work(t) \/ FindFails(t) \/ Restart(t)
      PROVE  FALSE
  <2>1. registrar'[s] = registrar[s]
    BY <1>4 DEF StartLookup, Work, GetEntity, ConcludeAgents, ConcludePeers, Return,
                FindFails, Restart, AskPeers, PInv, Inv, TypeOK
  <2> QED
    BY <2>1
<1>5. ASSUME Writing PROVE FALSE
  BY <1>5, WritingKeeps
<1> QED
  BY <1>1, <1>2, <1>3, <1>4, <1>5 DEF Next, Work, Writing

LEMMA RefusalStep ==
  ASSUME PInv, Next, NEW s \in Servers, Refuses(s)
  PROVE  steady'[registrar'[s].login] <= Window
<1> DEFINE g == registrar[s]
<1>1. registrar'[s].phase # g.phase /\ registrar'[s].phase \in {"refused", "failed"}
  BY DEF Refuses, Decides
<1>2. ASSUME NEW l \in Login, StartLookup(s, l)
      PROVE  steady'[registrar'[s].login] <= Window
  <2> DEFINE entry == agentCache[s][<<l.domain, l.user>>]
  <2>1. steady' = steady /\ registrar'[s] = IF entry = None THEN Search(l, "agents", 0)
                                                           ELSE Judge(l, entry.secret)
    BY <1>2 DEF StartLookup, PInv, Inv, TypeOK, history
  <2>2. Search(l, "agents", 0).phase = "agents"
    BY DEF Search
  <2>3. entry # None /\ registrar'[s] = Judge(l, entry.secret)
    BY <1>1, <2>1, <2>2
  <2>4. entry.secret # l.secret /\ registrar'[s].login = l
    BY <1>1, <2>3, JudgeRefuses
  <2>5. entry \in Entry \cup {None} /\ Tells(entry, l)
    BY Ages DEF PInv, Presence, CachesTell
  <2> QED
    BY <2>1, <2>3, <2>4, <2>5, CacheRefuses
<1>3. CASE ConcludeAgents(s)
  <2>1. /\ Busy(s) /\ g.login \in Login /\ steady' = steady /\ g.todo = {}
        /\ g.phase = "agents" /\ g.age \in Nat /\ g.age <= MaxLookup
    BY <1>3, Ages DEF ConcludeAgents, Busy, Collections, PInv, Inv, TypeOK, history
  <2>2. CASE g.broken /\ registrar' = [registrar EXCEPT ![s] = Verdict(g.login, "failed")]
    <3>1. registrar'[s].login = g.login
      BY <2>2 DEF Verdict, PInv, Inv, TypeOK
    <3> QED
      BY <2>1, <2>2, <3>1, MissRefuses
  <2>3. CASE g.hit # None /\ registrar' = [registrar EXCEPT ![s] = Judge(g.login, g.hit)]
    <3>1. registrar'[s] = Judge(g.login, g.hit)
      BY <2>3 DEF PInv, Inv, TypeOK
    <3>2. g.hit # g.login.secret /\ registrar'[s].login = g.login
      BY <1>1, <2>1, <3>1, JudgeRefuses
    <3> QED
      BY <2>1, <2>3, <3>2, MissRefuses
  <2>4. CASE g.hit = None /\ AskPeers(s, g.login, g.age)
    <3>1. CASE steady[g.login] > g.age
      <4>1. Meets(s, g, g.login) /\ g.login.secret # None
        BY <2>1, <3>1 DEF PInv, Presence, LookupsMeet, Concerns, Login
      <4>2. Tells(peerCache[s][g.login.user], g.login)
        BY <2>1, <2>4, <4>1 DEF Meets
      <4> QED
        BY <1>1, <2>1, <2>4, <4>2, AskPeersRefuses
    <3>2. CASE ~(steady[g.login] > g.age)
      <4>1. steady[g.login] <= g.age /\ steady[g.login] \in Nat
        BY <2>1, <3>2, Ages DEF PInv
      <4>2. steady[g.login] <= Window
        BY <2>1, <4>1, WindowType DEF Window
      <4>3. registrar'[s].login = g.login
        BY <2>1, <2>4 DEF AskPeers, Search, Judge, Verdict, PInv, Inv, TypeOK
      <4> QED
        BY <2>1, <4>2, <4>3
    <3> QED
      BY <3>1, <3>2
  <2> QED
    BY <1>3, <2>2, <2>3, <2>4 DEF ConcludeAgents
<1>4. CASE ConcludePeers(s)
  <2>1. /\ Busy(s) /\ g.login \in Login /\ steady' = steady /\ g.todo = {}
        /\ g.phase = "peers"
    BY <1>4 DEF ConcludePeers, Busy, Collections, PInv, Inv, TypeOK, history
  <2>2. CASE g.broken /\ registrar' = [registrar EXCEPT ![s] = Verdict(g.login, "failed")]
    <3>1. registrar'[s].login = g.login
      BY <2>2 DEF Verdict, PInv, Inv, TypeOK
    <3> QED
      BY <2>1, <2>2, <3>1, MissRefuses
  <2>3. CASE registrar' = [registrar EXCEPT ![s] = Judge(g.login, g.hit)]
    <3>1. registrar'[s] = Judge(g.login, g.hit)
      BY <2>3 DEF PInv, Inv, TypeOK
    <3>2. g.hit # g.login.secret /\ registrar'[s].login = g.login
      BY <1>1, <2>1, <3>1, JudgeRefuses
    <3> QED
      BY <2>1, <3>2, MissRefuses
  <2> QED
    BY <1>4, <2>2, <2>3 DEF ConcludePeers
<1>5. CASE FindFails(s)
  <2>1. g.login \in Login /\ steady' = [l \in Login |-> 0]
    BY <1>5 DEF FindFails, PInv, Inv, TypeOK
  <2>2. registrar'[s].login = g.login
    BY <1>5 DEF FindFails, AskPeers, Search, Judge, Verdict, PInv, Inv, TypeOK
  <2> QED
    BY <2>1, <2>2, WindowType
<1> QED
  BY <1>1, <1>2, <1>3, <1>4, <1>5, Deciding

(***************************************************************************)
(* However many servers, users and entities there are, a login that no     *)
(* lookup could have missed for the time to live of a cache entry and the  *)
(* time of one lookup is not refused, and its lookup does not fail.        *)
(***************************************************************************)
THEOREM RefusalsRecent == Spec => RefusalsAreRecent
<1> DEFINE Recent == \A s \in Servers : Decides(s, "refused") \/ Decides(s, "failed") =>
                        steady'[registrar'[s].login] <= Window
<1>1. PInv /\ [Next]_vars => [Recent]_vars
  BY RefusalStep DEF Refuses
<1>2. RefusalsAreRecent <=> [][Recent]_vars
  BY PTL DEF RefusalsAreRecent
<1> QED
  BY <1>1, <1>2, PInvAlways, PTL DEF Spec

-----------------------------------------------------------------------------
(***************************************************************************)
(* The refinement.                                                         *)
(***************************************************************************)
Stage(s) == IF Busy(s) THEN "asking" ELSE registrar[s].phase

LEMMA AnswerIs ==
  /\ Answer = [s \in Servers |-> [phase |-> Stage(s), login |-> registrar[s].login]]
  /\ Answer' = [s \in Servers |-> [phase |-> Stage(s)', login |-> registrar'[s].login]]
  BY DEF Answer, Stage

LEMMA Stages ==
  ASSUME Inv, NEW s \in Servers
  PROVE  /\ Busy(s) => Stage(s) = "asking"
         /\ ~Busy(s) => Stage(s) = registrar[s].phase
         /\ Stage(s) \in Abstract!Verdicts \cup {"idle", "asking"}
         /\ Stage(s) \in Abstract!Verdicts => ~Busy(s) /\ Stage(s) = registrar[s].phase
  BY DEF Inv, TypeOK, Stage, Busy, Collections, Lookup, Phases, Abstract!Verdicts

LEMMA AnswersInit == Init => Abstract!Init
<1> SUFFICES ASSUME Init PROVE Abstract!Init
  OBVIOUS
<1>1. \A s \in Servers : Stage(s) = "idle" /\ registrar[s].login = None
  BY DEF Init, Idle, Verdict, Stage, Busy, Collections
<1> QED
  BY <1>1, AnswerIs DEF Init, Abstract!Init

\* One call moves on: what the others are at is untouched.
LEMMA CallMoves ==
  ASSUME PInv, PInv', NEW s \in Servers, NEW v, NEW phase,
         registrar' = [registrar EXCEPT ![s] = v],
         phase = IF v.phase \in Collections THEN "asking" ELSE v.phase
  PROVE  /\ Answer' = [Answer EXCEPT ![s] = [phase |-> phase, login |-> v.login]]
         /\ Stage(s)' = phase
         /\ registrar'[s] = v
<1>1. \A t \in Servers : registrar'[t] = IF t = s THEN v ELSE registrar[t]
  BY DEF PInv, Inv, TypeOK
<1>2. \A t \in Servers : Stage(t)' = IF t = s THEN phase ELSE Stage(t)
  BY <1>1 DEF Stage, Busy
<1> QED
  BY <1>1, <1>2, AnswerIs

\* A verdict that a step of the code reaches, the last Window ticks justify.
LEMMA VerdictJustified ==
  ASSUME PInv, PInv', Next, NEW s \in Servers,
         registrar[s].phase \notin Abstract!Verdicts, gone' = gone,
         Stage(s)' \in Abstract!Verdicts
  PROVE  Abstract!Justified(registrar'[s].login, Stage(s)')
<1>1. Stage(s)' = registrar'[s].phase
  BY DEF Stage, Busy, Collections, Abstract!Verdicts
<1>2. CASE Stage(s)' = "granted"
  <2>1. Decides(s, "granted")
    BY <1>1, <1>2 DEF Decides, Abstract!Verdicts
  <2> QED
    BY <1>2, <2>1, GrantStep DEF PInv, Abstract!Justified
<1>3. CASE Stage(s)' # "granted"
  <2>1. Refuses(s)
    BY <1>1, <1>3 DEF Refuses, Decides, Abstract!Verdicts
  <2> QED
    BY <1>3, <2>1, RefusalStep DEF Abstract!Justified
<1> QED
  BY <1>2, <1>3

LEMMA Replies ==
  ASSUME NEW l
  PROVE  /\ \A c, age : Search(l, c, age).login = l /\ Search(l, c, age).phase = c
         /\ \A secret : Judge(l, secret).login = l /\ Judge(l, secret).phase # "idle"
         /\ \A phase : Verdict(l, phase).login = l /\ Verdict(l, phase).phase = phase
  BY DEF Search, Judge, Verdict

\* What a Registrar goes on with after a step of a lookup for l.
Replied(s, l) ==
  \E v : /\ registrar' = [registrar EXCEPT ![s] = v]
         /\ v.login = l
         /\ v.phase # "idle"

LEMMA OneReplies ==
  ASSUME NEW s, NEW l, NEW v, registrar' = [registrar EXCEPT ![s] = v],
         v.login = l, v.phase # "idle"
  PROVE  Replied(s, l)
  BY DEF Replied

LEMMA Reply ==
  ASSUME NEW s, NEW l,
         \/ \E c \in Collections : \E age : registrar' = [registrar EXCEPT ![s] = Search(l, c, age)]
         \/ \E secret : registrar' = [registrar EXCEPT ![s] = Judge(l, secret)]
         \/ \E phase : phase # "idle" /\ registrar' = [registrar EXCEPT ![s] = Verdict(l, phase)]
  PROVE  Replied(s, l)
<1>1. ASSUME NEW c \in Collections, NEW age,
             registrar' = [registrar EXCEPT ![s] = Search(l, c, age)]
      PROVE  Replied(s, l)
  <2> DEFINE v == Search(l, c, age)
  <2>1. v.login = l /\ v.phase # "idle"
    BY Replies DEF Collections
  <2>2. registrar' = [registrar EXCEPT ![s] = v]
    BY <1>1
  <2> HIDE DEF v
  <2> QED
    BY <2>1, <2>2, OneReplies
<1>2. ASSUME NEW secret, registrar' = [registrar EXCEPT ![s] = Judge(l, secret)]
      PROVE  Replied(s, l)
  <2> DEFINE v == Judge(l, secret)
  <2>1. v.login = l /\ v.phase # "idle"
    BY Replies
  <2>2. registrar' = [registrar EXCEPT ![s] = v]
    BY <1>2
  <2> HIDE DEF v
  <2> QED
    BY <2>1, <2>2, OneReplies
<1>3. ASSUME NEW phase, phase # "idle",
             registrar' = [registrar EXCEPT ![s] = Verdict(l, phase)]
      PROVE  Replied(s, l)
  <2> DEFINE v == Verdict(l, phase)
  <2>1. v.login = l /\ v.phase # "idle"
    BY <1>3, Replies
  <2>2. registrar' = [registrar EXCEPT ![s] = v]
    BY <1>3
  <2> HIDE DEF v
  <2> QED
    BY <2>1, <2>2, OneReplies
<1> QED
  BY <1>1, <1>2, <1>3

LEMMA RefinesStartLookup ==
  ASSUME PInv, PInv', Next, NEW s \in Servers, NEW l \in Login, StartLookup(s, l)
  PROVE  Abstract!Ask(s, l)
<1>1. PICK v : registrar' = [registrar EXCEPT ![s] = v] /\ v.login = l
  <2>1. Replied(s, l)
    BY Reply DEF StartLookup, Collections
  <2> QED
    BY <2>1 DEF Replied
<1> DEFINE phase == IF v.phase \in Collections THEN "asking" ELSE v.phase
<1>2. /\ Answer' = [Answer EXCEPT ![s] = [phase |-> phase, login |-> l]]
      /\ Stage(s)' = phase
      /\ registrar'[s] = v
  BY <1>1, CallMoves
<1>3. registrar[s].phase = "idle" /\ UNCHANGED <<gone, steady>>
  BY DEF StartLookup, history
<1>4. Answer[s].phase = "idle"
  BY <1>3, AnswerIs DEF Stage, Busy, Collections
<1>5. phase \in Abstract!Verdicts \cup {"asking"}
  <2>1. v.phase \in {"agents", "granted", "refused"}
    <3>1. \/ registrar'[s] = Search(l, "agents", 0)
          \/ registrar'[s] = Judge(l, agentCache[s][<<l.domain, l.user>>].secret)
      BY DEF StartLookup, PInv, Inv, TypeOK
    <3> QED
      BY <1>2, <3>1 DEF Search, Judge, Verdict
  <2> QED
    BY <2>1 DEF Collections, Abstract!Verdicts
<1>6. phase \in Abstract!Verdicts => Abstract!Justified(l, phase)
  BY <1>1, <1>2, <1>3, VerdictJustified DEF Abstract!Verdicts
<1> HIDE DEF phase
<1>7. Abstract!Reach(s, l, phase)
  BY <1>2, <1>6 DEF Abstract!Reach
<1> QED
  BY <1>3, <1>4, <1>5, <1>7 DEF Abstract!Ask

\* A step that ends a lookup, or sends it from the agents to the peers.
LEMMA RefinesPursue ==
  ASSUME PInv, PInv', Next, NEW s \in Servers, Busy(s), NEW v,
         registrar' = [registrar EXCEPT ![s] = v],
         v.login = registrar[s].login, v.phase # "idle",
         gone' = gone, steady' = steady \/ steady' = [l \in Login |-> 0]
  PROVE  Abstract!Pursue(s)
<1> DEFINE l     == registrar[s].login
           phase == IF v.phase \in Collections THEN "asking" ELSE v.phase
<1>1. /\ Answer' = [Answer EXCEPT ![s] = [phase |-> phase, login |-> l]]
      /\ Stage(s)' = phase
      /\ registrar'[s] = v
  BY CallMoves
<1>2. Answer[s].phase = "asking" /\ Answer[s].login = l
  BY AnswerIs DEF Stage
<1>3. phase \in Abstract!Verdicts \cup {"asking"}
  <2>1. v.phase \in Phases
    BY <1>1 DEF PInv, Inv, TypeOK, Lookup
  <2> QED
    BY <2>1 DEF Phases, Collections, Abstract!Verdicts
<1>4. phase \in Abstract!Verdicts => Abstract!Justified(l, phase)
  <2>1. registrar[s].phase \notin Abstract!Verdicts
    BY DEF Busy, Collections, Abstract!Verdicts
  <2> QED
    BY <1>1, <2>1, VerdictJustified
<1> HIDE DEF phase, l
<1>5. Abstract!Reach(s, l, phase)
  BY <1>1, <1>4 DEF Abstract!Reach
<1> QED
  BY <1>2, <1>3, <1>5 DEF Abstract!Pursue, Abstract!Unsettle

LEMMA RefinesLookup ==
  ASSUME PInv, PInv', Next, NEW s \in Servers,
         ConcludeAgents(s) \/ ConcludePeers(s) \/ FindFails(s)
  PROVE  Abstract!Pursue(s)
<1> DEFINE g == registrar[s]
<1>1. Busy(s) /\ gone' = gone /\ (steady' = steady \/ steady' = [l \in Login |-> 0])
  BY DEF ConcludeAgents, ConcludePeers, FindFails, Busy, Collections, history
<1>2. Replied(s, g.login)
  <2>1. CASE AskPeers(s, g.login, g.age)
    BY <2>1, Reply DEF AskPeers, Collections
  <2>2. CASE registrar' = [registrar EXCEPT ![s] = Judge(g.login, g.hit)]
    BY <2>2, Reply
  <2>3. ASSUME NEW phase \in {"failed", "refused"},
               registrar' = [registrar EXCEPT ![s] = Verdict(g.login, phase)]
        PROVE  Replied(s, g.login)
    BY <2>3, Reply
  <2> QED
    BY <2>1, <2>2, <2>3 DEF ConcludeAgents, ConcludePeers, FindFails
<1> QED
  BY <1>1, <1>2, RefinesPursue DEF Replied

LEMMA RefinesGetEntity ==
  ASSUME PInv, NEW s \in Servers, NEW r \in Refs, GetEntity(s, r)
  PROVE  UNCHANGED <<Answer, gone, steady>>
<1>1. \A t \in Servers : /\ registrar'[t].phase = registrar[t].phase
                         /\ registrar'[t].login = registrar[t].login
  BY DEF GetEntity, PInv, Inv, TypeOK, Lookup
<1>2. \A t \in Servers : Stage(t)' = Stage(t)
  BY <1>1 DEF Stage, Busy
<1> QED
  BY <1>1, <1>2, AnswerIs DEF GetEntity, history

LEMMA RefinesLeave ==
  ASSUME PInv, PInv', NEW s \in Servers, Return(s) \/ Restart(s)
  PROVE  Abstract!Leave(s)
<1>1. registrar' = [registrar EXCEPT ![s] = Idle] /\ UNCHANGED <<gone, steady>>
  BY DEF Return, Restart, history
<1>2. Idle.phase = "idle" /\ Idle.login = None
  BY DEF Idle, Verdict
<1>3. PICK v : v = Idle /\ registrar' = [registrar EXCEPT ![s] = v]
  BY <1>1
<1>4. Answer' = [Answer EXCEPT ![s] = [phase |-> "idle", login |-> None]]
  BY <1>2, <1>3, CallMoves DEF Collections
<1> QED
  BY <1>1, <1>4 DEF Abstract!Leave

\* Whatever changes the accounts or lets time pass is the environment.
LEMMA RefinesWorld ==
  ASSUME PInv, PInv', Writing \/ Tick
  PROVE  Abstract!Environment \/ UNCHANGED <<Answer, gone, steady>>
<1>1. Answer' = Answer
  <2>1. \A s \in Servers : /\ registrar'[s].phase = registrar[s].phase
                           /\ registrar'[s].login = registrar[s].login
    <3>1. CASE Writing
      BY <3>1, WritingKeeps
    <3>2. CASE Tick
      BY <3>2 DEF Tick, PInv, Inv, TypeOK, Lookup
    <3> QED
      BY <3>1, <3>2
  <2>2. \A s \in Servers : Stage(s)' = Stage(s)
    BY <2>1 DEF Stage, Busy
  <2> QED
    BY <2>1, <2>2, AnswerIs
<1>2. \A l \in Login : steady'[l] > 0 => gone'[l] = 0
  <2> SUFFICES ASSUME NEW l \in Login, steady'[l] > 0 PROVE gone'[l] = 0
    OBVIOUS
  <2>1. Unmissable(l)'
    BY DEF PInv, Presence, SteadyNow
  <2>2. Known(l)'
    BY <2>1, Zenon DEF Unmissable, Suppliers, Known
  <2> QED
    BY <2>2 DEF PInv, Inv, Evidence, HeldNow
<1>3. \A l \in Login : /\ gone'[l] \in {0, gone[l], Abstract!Older(gone[l])}
                       /\ steady'[l] \in {0, steady[l], Abstract!Older(steady[l])}
  <2>1. \A age : Abstract!Older(age) = Older(age)
    BY DEF Older, Abstract!Older
  <2>2. CASE Observe
    BY <2>2 DEF Observe
  <2>3. CASE Tick
    BY <2>1, <2>3 DEF Tick
  <2> QED
    BY <2>2, <2>3, WritingKeeps
<1>4. gone' \in [Login -> Abstract!Ages] /\ steady' \in [Login -> Abstract!Ages]
  BY DEF PInv, Inv, TypeOK, Abstract!Ages
<1> QED
  BY <1>1, <1>2, <1>3, <1>4 DEF Abstract!Environment

LEMMA RefinesNext ==
  PInv /\ PInv' /\ [Next]_vars => [Abstract!Next]_<<Answer, gone, steady>>
<1> SUFFICES ASSUME PInv, PInv', [Next]_vars
             PROVE  Abstract!Next \/ UNCHANGED <<Answer, gone, steady>>
  OBVIOUS
<1>1. CASE UNCHANGED vars
  BY <1>1 DEF vars, Answer, Busy
<1>2. CASE Writing \/ Tick
  BY <1>2, RefinesWorld DEF Abstract!Next
<1>3. ASSUME NEW s \in Servers, Next,
             \/ \E l \in Login : StartLookup(s, l)
             \/ Work(s)
             \/ FindFails(s)
             \/ Restart(s)
      PROVE  Abstract!Next \/ UNCHANGED <<Answer, gone, steady>>
  <2>1. ASSUME NEW l \in Login, StartLookup(s, l) PROVE Abstract!Next
    BY <1>3, <2>1, RefinesStartLookup DEF Abstract!Next
  <2>2. CASE ConcludeAgents(s) \/ ConcludePeers(s) \/ FindFails(s)
    BY <1>3, <2>2, RefinesLookup DEF Abstract!Next
  <2>3. CASE Return(s) \/ Restart(s)
    BY <2>3, RefinesLeave DEF Abstract!Next
  <2>4. ASSUME NEW r \in Refs, GetEntity(s, r) PROVE UNCHANGED <<Answer, gone, steady>>
    BY <2>4, RefinesGetEntity
  <2> QED
    BY <1>3, <2>1, <2>2, <2>3, <2>4 DEF Work
<1> QED
  BY <1>1, <1>2, <1>3 DEF Next, Writing

(***************************************************************************)
(* isAuthorized, with its caches and its reads of a changing data source,  *)
(* is the directory that module Directory promises its callers.            *)
(***************************************************************************)
THEOREM DirectoryImplemented == Spec => ImplementsDirectory
<1> QED
  BY AnswersInit, RefinesNext, PInvAlways, PTL
     DEF Spec, ImplementsDirectory, Abstract!Spec
=============================================================================
