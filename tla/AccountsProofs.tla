--------------------------- MODULE AccountsProofs ---------------------------
(***************************************************************************)
(* Proofs about Accounts, for every set of servers, domains, users,        *)
(* secrets and references, every time to live and every bound.             *)
(***************************************************************************)
EXTENDS Accounts, TLAPS

USE RefsAssumption, NoneAssumption, TimeAssumption, BoundsAssumption

LEMMA WindowType == Window \in Nat /\ TTL - 1 \in Nat /\ MaxLookup \in Nat
  BY DEF Window

LEMMA OlderType ==
  ASSUME NEW age \in 0 .. (Window + 1)
  PROVE  /\ Older(age) \in 0 .. (Window + 1)
         /\ \A k \in Nat : age <= k => Older(age) <= k + 1
  BY WindowType DEF Older

LEMMA LookupTypes ==
  ASSUME TypeOK, NEW l \in Login, NEW c \in Collections,
         NEW age \in 0 .. MaxLookup, NEW secret
  PROVE  /\ Search(l, c, age) \in Lookup
         /\ Judge(l, secret) \in Lookup
         /\ \A phase \in Phases : Verdict(l, phase) \in Lookup
         /\ Idle \in Lookup
  BY WindowType DEF TypeOK, Search, Judge, Verdict, Idle, Lookup, Phases,
                    Collections

LEMMA TypeInit == Init => TypeOK
<1> SUFFICES ASSUME Init PROVE TypeOK
  OBVIOUS
<1>1. registrar \in [Servers -> Lookup]
  BY WindowType DEF Init, Idle, Verdict, Lookup, Phases
<1>2. \A s \in Servers : ~Busy(s)
  BY DEF Init, Idle, Verdict, Busy, Collections
<1>3. gone \in [Login -> 0 .. (Window + 1)] /\ steady \in [Login -> 0 .. (Window + 1)]
  BY WindowType DEF Init
<1> QED
  BY <1>1, <1>2, <1>3 DEF Init, Store!Init, TypeOK, Collections

LEMMA ObserveType ==
  ASSUME TypeOK, Observe
  PROVE  /\ gone' \in [Login -> 0 .. (Window + 1)]
         /\ steady' \in [Login -> 0 .. (Window + 1)]
  BY WindowType DEF TypeOK, Observe

-----------------------------------------------------------------------------
(* The steps of the data source.                                           *)
Writing == \E w \in Writers : Rest(w) \/ Interrupt(w)

LEMMA StoreTypes ==
  ASSUME NEW r \in Refs
  PROVE  Fits[r] \subseteq Entity /\ Home[r] = Collection(r)
  BY DEF Fits, Home

\* Each command writes one key, or one reference of one collection.
LEMMA StoreWrites ==
  ASSUME TypeOK, NEW w \in Writers, Store!Write(w) \/ Store!Break(w)
  PROVE  \/ /\ UNCHANGED sets
            /\ \/ UNCHANGED strings
               \/ \E r \in Refs : \E e \in Entity \cup {None} :
                    strings' = [strings EXCEPT ![r] = e]
         \/ Store!Finish(w)
<1>1. ASSUME NEW r \in Refs, Store!Read(w, r) PROVE UNCHANGED <<strings, sets>>
  BY <1>1 DEF Store!Read
<1>2. ASSUME NEW r \in Refs, Store!Insert(w, r) \/ Store!Remove(w, r) \/ Store!Half(w, r)
      PROVE  /\ UNCHANGED sets
             /\ \E e \in Entity \cup {None} : strings' = [strings EXCEPT ![r] = e]
  BY <1>2, StoreTypes DEF Store!Insert, Store!Remove, Store!Half, Store!Put
<1>3. ASSUME Store!Update(w)
      PROVE  /\ UNCHANGED sets
             /\ \E r \in Refs : \E e \in Entity : strings' = [strings EXCEPT ![r] = e]
  BY <1>3, StoreTypes DEF Store!Update, Store!Awaits, Store!Put
<1>4. ASSUME Store!Lose(w) PROVE UNCHANGED <<strings, sets>>
  BY <1>4 DEF Store!Lose
<1> QED
  BY <1>1, <1>2, <1>3, <1>4 DEF Store!Write, Store!Break

\* SADD and SREM are of a reference in its own collection.
LEMMA StoreFinishes ==
  ASSUME TypeOK, NEW w \in Writers, Store!Finish(w)
  PROVE  \E r \in Refs :
           /\ Collection(r) \in Collections
           /\ UNCHANGED strings
           /\ \/ /\ Store!Awaits(w, {"SADD"})
                 /\ sets' = [sets EXCEPT ![Collection(r)] = @ \cup {r}]
              \/ /\ Store!Awaits(w, {"SREM"})
                 /\ sets' = [sets EXCEPT ![Collection(r)] = @ \ {r}]
<1> DEFINE r == pending[w].ref
<1>1. r \in Refs /\ pending[w].cmd \in {"SADD", "SREM"}
  BY DEF Store!Finish, Store!Awaits
<1>2. Home[r] = Collection(r) /\ Collection(r) \in Collections
  BY <1>1, StoreTypes DEF Collection, Collections
<1>3. CASE pending[w].cmd = "SADD"
  <2>1. Store!Awaits(w, {"SADD"})
    BY <1>3 DEF Store!Finish, Store!Awaits
  <2>2. UNCHANGED strings /\ sets' = [sets EXCEPT ![Collection(r)] = @ \cup {r}]
    BY <1>2, <1>3 DEF Store!Finish
  <2> QED
    BY <1>1, <1>2, <2>1, <2>2
<1>4. CASE pending[w].cmd = "SREM"
  <2>1. Store!Awaits(w, {"SREM"})
    BY <1>4 DEF Store!Finish, Store!Awaits
  <2>2. UNCHANGED strings /\ sets' = [sets EXCEPT ![Collection(r)] = @ \ {r}]
    BY <1>2, <1>4 DEF Store!Finish
  <2> QED
    BY <1>1, <1>2, <2>1, <2>2
<1> QED
  BY <1>1, <1>3, <1>4

LEMMA StorePending ==
  ASSUME TypeOK, NEW w \in Writers, Store!Write(w) \/ Store!Break(w)
  PROVE  pending' \in [Writers -> Store!Command \cup {None}]
<1>1. ASSUME NEW cmd \in {"SADD", "SREM", "SET"}, NEW r \in Refs, Store!Await(w, cmd, r)
      PROVE  pending' \in [Writers -> Store!Command \cup {None}]
  <2>1. [cmd |-> cmd, ref |-> r] \in Store!Command
    BY DEF Store!Command
  <2> QED
    BY <1>1, <2>1 DEF TypeOK, Store!Await
<1>2. ASSUME Store!Settle(w) PROVE pending' \in [Writers -> Store!Command \cup {None}]
  BY <1>2 DEF TypeOK, Store!Settle
<1>3. ASSUME Store!Write(w)
      PROVE  \/ \E cmd \in {"SADD", "SREM", "SET"}, r \in Refs : Store!Await(w, cmd, r)
             \/ Store!Settle(w)
  BY <1>3 DEF Store!Write, Store!Insert, Store!Read, Store!Remove, Store!Update, Store!Finish
<1>4. ASSUME Store!Break(w) PROVE UNCHANGED pending \/ Store!Settle(w)
  BY <1>4 DEF Store!Break, Store!Lose, Store!Half
<1> QED
  BY <1>1, <1>2, <1>3, <1>4 DEF TypeOK

\* They change nothing that a Registrar holds.
LEMMA WritingKeeps ==
  ASSUME Writing
  PROVE  UNCHANGED <<agentCache, peerCache, registrar>> /\ Observe
  BY DEF Writing, Rest, Interrupt

LEMMA WritingStore ==
  ASSUME Writing
  PROVE  \E w \in Writers : Store!Write(w) \/ Store!Break(w)
  BY DEF Writing, Rest, Interrupt

LEMMA TypeRest == TypeOK /\ Writing => TypeOK'
<1> SUFFICES ASSUME TypeOK, Writing PROVE TypeOK'
  OBVIOUS
<1>1. PICK w \in Writers : Store!Write(w) \/ Store!Break(w)
  BY WritingStore
<1>2. strings' \in [Refs -> Entity \cup {None}]
  BY <1>1, StoreWrites, StoreFinishes DEF TypeOK
<1>3. sets' \in [Collections -> SUBSET Refs]
  <2>1. ASSUME Store!Finish(w) PROVE sets' \in [Collections -> SUBSET Refs]
    <3>1. PICK r \in Refs :
            \/ sets' = [sets EXCEPT ![Collection(r)] = @ \cup {r}]
            \/ sets' = [sets EXCEPT ![Collection(r)] = @ \ {r}]
      BY <2>1, StoreFinishes
    <3>2. \A c \in Collections : sets'[c] \subseteq sets[c] \cup {r}
      BY <3>1 DEF TypeOK
    <3>3. sets' = [c \in Collections |-> sets'[c]]
      BY <3>1 DEF TypeOK
    <3> QED
      BY <3>2, <3>3 DEF TypeOK
  <2> QED
    BY <1>1, <2>1, StoreWrites DEF TypeOK
<1>4. pending' \in [Writers -> Store!Command \cup {None}]
  BY <1>1, StorePending
<1>5. mishaps' \in 0 .. MaxMishaps
  BY DEF Writing, Rest, Interrupt, TypeOK
<1> QED
  BY <1>2, <1>3, <1>4, <1>5, WritingKeeps, ObserveType DEF TypeOK, Busy

-----------------------------------------------------------------------------
LEMMA TypeStartLookup ==
  ASSUME TypeOK, NEW s \in Servers, NEW l \in Login, StartLookup(s, l)
  PROVE  TypeOK'
<1> DEFINE entry == agentCache[s][<<l.domain, l.user>>]
<1>1. registrar'[s] \in {Search(l, "agents", 0), Judge(l, entry.secret)}
      /\ registrar' = [registrar EXCEPT ![s] = registrar'[s]]
  BY DEF StartLookup, TypeOK
<1>2. Search(l, "agents", 0) \in Lookup /\ Judge(l, entry.secret) \in Lookup
  BY LookupTypes, WindowType DEF Collections
<1>3. Search(l, "agents", 0).login = l /\ Judge(l, entry.secret).login = l
  BY DEF Search, Judge, Verdict
<1> HIDE DEF entry
<1> QED
  BY <1>1, <1>2, <1>3 DEF TypeOK, StartLookup, history, Busy

LEMMA TypeAskPeers ==
  ASSUME TypeOK, NEW s \in Servers, NEW l \in Login, NEW age \in 0 .. MaxLookup,
         AskPeers(s, l, age)
  PROVE  /\ registrar' \in [Servers -> Lookup]
         /\ \A t \in Servers : Busy(t)' => registrar'[t].login \in Login
<1> DEFINE entry == peerCache[s][l.user]
<1>1. registrar'[s] \in {Search(l, "peers", age), Judge(l, entry.secret)}
      /\ registrar' = [registrar EXCEPT ![s] = registrar'[s]]
  BY DEF AskPeers, TypeOK
<1>2. Search(l, "peers", age) \in Lookup /\ Judge(l, entry.secret) \in Lookup
  BY LookupTypes DEF Collections
<1>3. Search(l, "peers", age).login = l /\ Judge(l, entry.secret).login = l
  BY DEF Search, Judge, Verdict
<1> HIDE DEF entry
<1> QED
  BY <1>1, <1>2, <1>3 DEF TypeOK, Busy

LEMMA TypeWork ==
  ASSUME TypeOK, NEW s \in Servers, Work(s)
  PROVE  TypeOK'
<1> DEFINE g == registrar[s]
<1>0. g \in Lookup
  BY DEF TypeOK
<1>1. ASSUME NEW r \in Refs, GetEntity(s, r) PROVE TypeOK'
  <2>1. strings[r] # None => strings[r].secret \in Secrets
    BY DEF TypeOK, Entity
  <2>2. registrar'[s] \in Lookup /\ registrar'[s].login = g.login
        /\ registrar' = [registrar EXCEPT ![s] = registrar'[s]]
    BY <1>0, <1>1, <2>1 DEF GetEntity, TypeOK, Lookup
  <2> QED
    BY <1>1, <2>2 DEF GetEntity, TypeOK, Busy, history
<1>2. CASE ConcludeAgents(s)
  <2>1. g.login \in Login /\ g.age \in 0 .. MaxLookup /\ g.hit \in Secrets \cup {None}
    BY <1>0, <1>2 DEF TypeOK, ConcludeAgents, Busy, Collections, Lookup
  <2>2. agentCache' \in [Servers -> [Domains \X Users -> Entry \cup {None}]]
    <3>1. g.hit # None => [secret |-> g.hit, age |-> 0] \in Entry
      BY <2>1, WindowType DEF Entry
    <3> QED
      BY <1>2, <2>1, <3>1 DEF ConcludeAgents, TypeOK
  <2>3. /\ registrar' \in [Servers -> Lookup]
        /\ \A t \in Servers : Busy(t)' => registrar'[t].login \in Login
    <3>1. CASE g.broken /\ registrar' = [registrar EXCEPT ![s] = Verdict(g.login, "failed")]
      <4>1. Verdict(g.login, "failed") \in Lookup /\ Verdict(g.login, "failed").login = g.login
        BY <2>1, LookupTypes DEF Collections, Phases, Verdict
      <4> QED
        BY <2>1, <3>1, <4>1 DEF TypeOK, Busy
    <3>2. CASE registrar' = [registrar EXCEPT ![s] = Judge(g.login, g.hit)]
      <4>1. Judge(g.login, g.hit) \in Lookup /\ Judge(g.login, g.hit).login = g.login
        BY <2>1, LookupTypes DEF Collections, Judge, Verdict
      <4> QED
        BY <2>1, <3>2, <4>1 DEF TypeOK, Busy
    <3>3. CASE AskPeers(s, g.login, g.age)
      BY <2>1, <3>3, TypeAskPeers
    <3> QED
      BY <1>2, <3>1, <3>2, <3>3 DEF ConcludeAgents
  <2> QED
    BY <1>2, <2>2, <2>3 DEF ConcludeAgents, TypeOK, history
<1>3. CASE ConcludePeers(s)
  <2>1. g.login \in Login /\ g.hit \in Secrets \cup {None}
    BY <1>0, <1>3 DEF TypeOK, ConcludePeers, Busy, Collections, Lookup
  <2>2. [secret |-> g.hit, age |-> 0] \in Entry
    BY <2>1, WindowType DEF Entry
  <2>3. \A phase \in Phases : Verdict(g.login, phase) \in Lookup
                              /\ Verdict(g.login, phase).login = g.login
    BY <2>1, <1>0, LookupTypes DEF Lookup, Collections, Verdict
  <2>4. Judge(g.login, g.hit) \in Lookup /\ Judge(g.login, g.hit).login = g.login
    BY <2>3 DEF Judge, Phases
  <2>5. peerCache' \in [Servers -> [Users -> Entry \cup {None}]]
    <3>1. CASE UNCHANGED peerCache
      BY <3>1 DEF TypeOK
    <3>2. CASE peerCache' = [peerCache EXCEPT ![s][g.login.user] =
                               [secret |-> g.hit, age |-> 0]]
      BY <2>1, <2>2, <3>2 DEF TypeOK
    <3> QED
      BY <1>3, <3>1, <3>2 DEF ConcludePeers
  <2>6. \E v \in Lookup : v.login = g.login /\ registrar' = [registrar EXCEPT ![s] = v]
    BY <1>3, <2>3, <2>4 DEF ConcludePeers, Phases
  <2>7. /\ registrar' \in [Servers -> Lookup]
        /\ \A t \in Servers : Busy(t)' => registrar'[t].login \in Login
    BY <2>1, <2>6 DEF TypeOK, Busy
  <2> QED
    BY <1>3, <2>5, <2>7 DEF ConcludePeers, TypeOK, history
<1>4. CASE Return(s)
  <2>1. Idle \in Lookup /\ Idle.phase \notin Collections
    BY <1>0, WindowType DEF Idle, Verdict, Lookup, Phases, Collections
  <2> QED
    BY <1>4, <2>1 DEF Return, TypeOK, Busy, history
<1> QED
  BY <1>1, <1>2, <1>3, <1>4 DEF Work

LEMMA TypeMishap ==
  ASSUME TypeOK, NEW s \in Servers, FindFails(s) \/ Restart(s)
  PROVE  TypeOK'
<1> DEFINE g == registrar[s]
<1>1. mishaps' \in 0 .. MaxMishaps
  BY DEF TypeOK, FindFails, Restart
<1>2. CASE FindFails(s)
  <2>1. /\ g.login \in Login
        /\ g.age \in 0 .. MaxLookup
        /\ steady' \in [Login -> 0 .. (Window + 1)]
    BY <1>2, WindowType DEF FindFails, TypeOK, Lookup
  <2>2. CASE g.phase = "agents" /\ AskPeers(s, g.login, g.age) /\ UNCHANGED peerCache
    BY <1>1, <1>2, <2>1, <2>2, TypeAskPeers DEF FindFails, TypeOK
  <2>3. CASE registrar' = [registrar EXCEPT ![s] = Verdict(g.login, "refused")]
             /\ peerCache' = [peerCache EXCEPT ![s][g.login.user] =
                                [secret |-> None, age |-> 0]]
    <3>1. [secret |-> None, age |-> 0] \in Entry
      BY WindowType DEF Entry
    <3>2. Verdict(g.login, "refused") \in Lookup /\ Verdict(g.login, "refused").login = g.login
      BY <2>1, LookupTypes DEF Collections, Phases, Verdict
    <3> QED
      BY <1>1, <1>2, <2>1, <2>3, <3>1, <3>2 DEF FindFails, TypeOK, Busy
  <2> QED
    BY <1>2, <2>2, <2>3 DEF FindFails
<1>3. CASE Restart(s)
  <2>1. Idle \in Lookup /\ Idle.phase \notin Collections
    BY WindowType DEF Idle, Verdict, Lookup, Phases, Collections
  <2> QED
    BY <1>1, <1>3, <2>1 DEF Restart, TypeOK, Busy, history
<1> QED
  BY <1>2, <1>3

LEMMA ExpireType ==
  ASSUME NEW entry \in Entry \cup {None}
  PROVE  Expire(entry) \in Entry \cup {None}
  BY WindowType DEF Expire, Entry

LEMMA TypeTick == TypeOK /\ Tick => TypeOK'
<1> SUFFICES ASSUME TypeOK, Tick PROVE TypeOK'
  OBVIOUS
<1>1. agentCache' \in [Servers -> [Domains \X Users -> Entry \cup {None}]]
  BY ExpireType DEF TypeOK, Tick
<1>2. peerCache' \in [Servers -> [Users -> Entry \cup {None}]]
  BY ExpireType DEF TypeOK, Tick
<1>3. ASSUME NEW s \in Servers
      PROVE  registrar'[s] \in Lookup /\ (Busy(s)' => registrar'[s].login \in Login)
  <2>1. CASE Busy(s)
    <3>1. registrar[s] \in Lookup /\ registrar[s].age + 1 \in 0 .. MaxLookup
      BY <2>1, WindowType DEF TypeOK, Tick, Lookup
    <3>2. registrar'[s] = [registrar[s] EXCEPT !.age = @ + 1]
      BY <2>1 DEF Tick
    <3> QED
      BY <2>1, <3>1, <3>2 DEF TypeOK, Lookup
  <2>2. CASE ~Busy(s)
    BY <2>2 DEF TypeOK, Tick, Busy
  <2> QED
    BY <2>1, <2>2
<1>4. gone' \in [Login -> 0 .. (Window + 1)] /\ steady' \in [Login -> 0 .. (Window + 1)]
  BY OlderType, WindowType DEF TypeOK, Tick
<1>5. registrar' \in [Servers -> Lookup]
  BY <1>3 DEF Tick
<1> QED
  BY <1>1, <1>2, <1>3, <1>4, <1>5 DEF TypeOK, Tick

LEMMA TypeNext == TypeOK /\ [Next]_vars => TypeOK'
<1> SUFFICES ASSUME TypeOK, [Next]_vars PROVE TypeOK'
  OBVIOUS
<1>1. CASE UNCHANGED vars
  BY <1>1 DEF vars, TypeOK, Busy
<1> QED
  BY <1>1, TypeRest, TypeStartLookup, TypeWork, TypeMishap, TypeTick DEF Next, Writing

(***************************************************************************)
(* Every behaviour of Accounts is well typed; in particular no cache entry *)
(* outlives its time to live and no lookup its bound.                      *)
(***************************************************************************)
THEOREM TypeCorrect == Spec => []TypeOK
<1> QED
  BY TypeInit, TypeNext, PTL DEF Spec

-----------------------------------------------------------------------------
(***************************************************************************)
(* Evidence: what a Registrar holds was read recently.                     *)
(***************************************************************************)
Inv == TypeOK /\ Evidence

LEMMA EvidenceInit == Init => Evidence
<1> SUFFICES ASSUME Init PROVE Evidence
  OBVIOUS
<1>1. HeldNow
  BY DEF Init, Store!Init, HeldNow, Known
<1>2. \A s \in Servers : ~Busy(s)
  BY DEF Init, Idle, Verdict, Busy, Collections
<1>3. OwnRefs
  BY <1>2 DEF Init, Store!Init, OwnRefs
<1>4. ReadRecently
  BY <1>2 DEF ReadRecently
<1>5. CachedRecently
  BY DEF Init, CachedRecently, Login
<1> QED
  BY <1>1, <1>3, <1>4, <1>5 DEF Evidence

\* A login an entity now holds has age 0, and no age grows but by a tick.
LEMMA ObserveEvidence ==
  ASSUME Inv, Observe
  PROVE  HeldNow' /\ \A l \in Login : gone'[l] \in Nat /\ gone'[l] <= gone[l]
  BY WindowType DEF Inv, TypeOK, HeldNow, Observe

\* What was read stays recent while nothing is read and no age grows.
LEMMA Undisturbed ==
  ASSUME Inv, UNCHANGED <<agentCache, peerCache, registrar>>,
         \A l \in Login : gone'[l] \in Nat /\ gone'[l] <= gone[l]
  PROVE  ReadRecently' /\ CachedRecently'
<1>1. \A l \in Login : gone[l] \in Nat
  BY WindowType DEF Inv, TypeOK
<1>2. ASSUME NEW s \in Servers, Busy(s) PROVE registrar[s].age \in Nat
  BY WindowType DEF Inv, TypeOK, Lookup
<1>3. ReadRecently'
  <2> SUFFICES ASSUME NEW s \in Servers, NEW l \in Login, Busy(s),
                      registrar[s].login.user = l.user,
                      registrar[s].phase = "agents"
                        => registrar[s].login.domain = l.domain,
                      registrar[s].hit = l.secret
               PROVE  gone'[l] <= registrar[s].age
    BY DEF ReadRecently, Busy
  <2>1. gone[l] <= registrar[s].age
    BY DEF Inv, Evidence, ReadRecently
  <2> QED
    BY <1>1, <1>2, <2>1
<1>4. CachedRecently'
  <2> SUFFICES ASSUME NEW s \in Servers, NEW l \in Login,
                      NEW entry \in {agentCache[s][<<l.domain, l.user>>],
                                     peerCache[s][l.user]},
                      entry # None, entry.secret = l.secret
               PROVE  gone'[l] <= entry.age + MaxLookup
    BY DEF CachedRecently
  <2>1. gone[l] <= entry.age + MaxLookup
    BY DEF Inv, Evidence, CachedRecently
  <2>2. entry.age \in Nat
    BY WindowType DEF Inv, TypeOK, Entry, Login
  <2> QED
    BY <1>1, <2>1, <2>2, WindowType
<1> QED
  BY <1>3, <1>4

LEMMA EvidenceRest ==
  ASSUME Inv, Writing
  PROVE  Evidence'
<1>1. OwnRefs'
  <2>1. PICK w \in Writers : Store!Write(w) \/ Store!Break(w)
    BY WritingStore
  <2>2. ASSUME Store!Finish(w) PROVE OwnRefs'
    <3>1. \A c \in Collections : \A r \in sets'[c] : r \in sets[c] \/ Collection(r) = c
      <4>1. PICK r \in Refs :
              \/ sets' = [sets EXCEPT ![Collection(r)] = @ \cup {r}]
              \/ sets' = [sets EXCEPT ![Collection(r)] = @ \ {r}]
        BY <2>2, StoreFinishes DEF Inv
      <4> QED
        BY <4>1 DEF Inv, TypeOK
    <3> QED
      BY <3>1, WritingKeeps DEF Inv, Evidence, OwnRefs, Busy
  <2>3. CASE UNCHANGED <<sets, registrar>>
    BY <2>3 DEF Inv, Evidence, OwnRefs, Busy
  <2> QED
    BY <2>1, <2>2, <2>3, StoreWrites, WritingKeeps DEF Inv
<1>2. HeldNow' /\ \A l \in Login : gone'[l] \in Nat /\ gone'[l] <= gone[l]
  BY WritingKeeps, ObserveEvidence
<1> QED
  BY <1>1, <1>2, WritingKeeps, Undisturbed DEF Evidence

\* A search that begins, a verdict and an idle Registrar hold no secret.
Forgetful(v) ==
  v.phase \in Collections => v.hit = None /\ v.todo = sets[v.phase]

LEMMA NothingHeld ==
  ASSUME NEW l, NEW age, NEW secret
  PROVE  /\ \A c \in Collections : Forgetful(Search(l, c, age))
         /\ Forgetful(Judge(l, secret))
         /\ \A phase : phase \notin Collections => Forgetful(Verdict(l, phase))
         /\ Forgetful(Idle)
<1>1. \A c \in Collections : Forgetful(Search(l, c, age))
  BY DEF Forgetful, Search
<1>2. \A phase : phase \notin Collections => Forgetful(Verdict(l, phase))
  BY DEF Forgetful, Verdict
<1>3. Forgetful(Idle)
  BY DEF Forgetful, Idle, Verdict, Collections
<1>4. Forgetful(Judge(l, secret))
  BY <1>2 DEF Judge, Collections
<1> QED
  BY <1>1, <1>2, <1>3, <1>4

\* A step that leaves one Registrar with nothing held keeps what the others hold.
LEMMA OneForgets ==
  ASSUME Inv, NEW s \in Servers, UNCHANGED <<sets, gone>>, NEW v,
         registrar' = [registrar EXCEPT ![s] = v],
         Forgetful(v)
  PROVE  OwnRefs' /\ ReadRecently'
<1>1. ASSUME NEW t \in Servers PROVE registrar'[t] = IF t = s THEN v ELSE registrar[t]
  BY DEF Inv, TypeOK
<1>2. OwnRefs'
  BY <1>1 DEF Inv, Evidence, OwnRefs, Busy, Forgetful
<1>3. ReadRecently'
  <2> SUFFICES ASSUME NEW t \in Servers, NEW l \in Login, Busy(t)',
                      registrar'[t].login.user = l.user,
                      registrar'[t].phase = "agents"
                        => registrar'[t].login.domain = l.domain,
                      registrar'[t].hit = l.secret
               PROVE  gone[l] <= registrar'[t].age
    BY DEF ReadRecently
  <2>1. l.secret \in Secrets
    BY DEF Login
  <2>2. t # s
    BY <1>1, <2>1 DEF Busy, Forgetful
  <2> QED
    BY <1>1, <2>2 DEF Inv, Evidence, ReadRecently, Busy
<1> QED
  BY <1>2, <1>3

LEMMA HeldNowKept ==
  ASSUME Inv, UNCHANGED <<strings, gone>>
  PROVE  HeldNow'
  BY DEF Inv, Evidence, HeldNow, Known

LEMMA CachedKept ==
  ASSUME Inv, UNCHANGED <<agentCache, peerCache, gone>>
  PROVE  CachedRecently'
  BY DEF Inv, Evidence, CachedRecently

LEMMA EvidenceAskPeers ==
  ASSUME Inv, NEW s \in Servers, NEW l \in Login, NEW age, AskPeers(s, l, age),
         UNCHANGED <<sets, gone>>
  PROVE  OwnRefs' /\ ReadRecently'
<1>1. \E v : Forgetful(v) /\ registrar' = [registrar EXCEPT ![s] = v]
  BY NothingHeld DEF AskPeers, Collections
<1> QED
  BY <1>1, OneForgets

LEMMA EvidenceStartLookup ==
  ASSUME Inv, NEW s \in Servers, NEW l \in Login, StartLookup(s, l)
  PROVE  Evidence'
<1>1. HeldNow' /\ CachedRecently'
  BY HeldNowKept, CachedKept DEF StartLookup, history
<1>2. UNCHANGED <<sets, gone>>
  BY DEF StartLookup, history
<1>3. \E v : Forgetful(v) /\ registrar' = [registrar EXCEPT ![s] = v]
  BY NothingHeld DEF StartLookup, Collections
<1> QED
  BY <1>1, <1>2, <1>3, OneForgets DEF Evidence

LEMMA EvidenceGetEntity ==
  ASSUME Inv, NEW s \in Servers, NEW r \in Refs, GetEntity(s, r)
  PROVE  Evidence'
<1> DEFINE g == registrar[s]
           e == strings[r]
           found == ~g.broken /\ e # None /\ Matches(g.phase, e, g.login)
<1>1. HeldNow' /\ CachedRecently'
  BY HeldNowKept, CachedKept DEF GetEntity, history
<1>2. /\ g \in Lookup
      /\ g.phase \in Collections
      /\ r \in g.todo
      /\ \A t \in Servers : t # s => registrar'[t] = registrar[t]
      /\ registrar'[s].todo = g.todo \ {r}
      /\ registrar'[s].phase = g.phase
      /\ registrar'[s].login = g.login
      /\ registrar'[s].age = g.age
      /\ registrar'[s].hit = IF found THEN e.secret ELSE g.hit
      /\ UNCHANGED <<sets, gone>>
  BY DEF GetEntity, Inv, TypeOK, Lookup, Busy, history
<1> HIDE DEF found
<1>3. OwnRefs'
  BY <1>2 DEF Inv, Evidence, OwnRefs, Busy
<1>4. ReadRecently'
  <2> SUFFICES ASSUME NEW t \in Servers, NEW l \in Login, Busy(t)',
                      registrar'[t].login.user = l.user,
                      registrar'[t].phase = "agents"
                        => registrar'[t].login.domain = l.domain,
                      registrar'[t].hit = l.secret
               PROVE  gone[l] <= registrar'[t].age
    BY <1>2 DEF ReadRecently
  <2>1. CASE t # s \/ ~found
    BY <1>2, <2>1 DEF Inv, Evidence, ReadRecently, Busy
  <2>2. CASE t = s /\ found
    <3>1. e # None /\ e.secret = l.secret /\ Matches(g.phase, e, g.login)
      BY <1>2, <2>2 DEF found
    <3>2. Collection(r) = g.phase
      BY <1>2 DEF Inv, Evidence, OwnRefs, Busy
    <3>3. Matches(Collection(r), e, l)
      BY <1>2, <2>2, <3>1, <3>2 DEF Matches
    <3>4. gone[l] = 0
      BY <3>1, <3>3 DEF Inv, Evidence, HeldNow, Known
    <3> QED
      BY <1>2, <2>2, <3>4, WindowType DEF Lookup
  <2> QED
    BY <2>1, <2>2
<1> QED
  BY <1>1, <1>3, <1>4 DEF Evidence

LEMMA EvidenceConcludeAgents ==
  ASSUME Inv, NEW s \in Servers, ConcludeAgents(s)
  PROVE  Evidence'
<1> DEFINE g == registrar[s]
           key == <<g.login.domain, g.login.user>>
<1>1. /\ g \in Lookup
      /\ g.login \in Login
      /\ g.phase = "agents"
      /\ Busy(s)
      /\ UNCHANGED <<strings, sets, gone, peerCache>>
  BY DEF ConcludeAgents, Inv, TypeOK, Busy, Collections, history
<1>2. HeldNow'
  BY <1>1, HeldNowKept
<1>3. OwnRefs' /\ ReadRecently'
  <2>1. CASE \E v : Forgetful(v) /\ registrar' = [registrar EXCEPT ![s] = v]
    BY <1>1, <2>1, OneForgets
  <2>2. CASE AskPeers(s, g.login, g.age)
    BY <1>1, <2>2, EvidenceAskPeers
  <2> QED
    BY <2>1, <2>2, NothingHeld DEF ConcludeAgents, Collections
<1>4. CachedRecently'
  <2> SUFFICES ASSUME NEW t \in Servers, NEW l \in Login,
                      NEW entry \in {agentCache'[t][<<l.domain, l.user>>],
                                     peerCache'[t][l.user]},
                      entry # None, entry.secret = l.secret
               PROVE  gone[l] <= entry.age + MaxLookup
    BY <1>1 DEF CachedRecently
  <2>1. CASE entry \in {agentCache[t][<<l.domain, l.user>>], peerCache[t][l.user]}
    BY <2>1 DEF Inv, Evidence, CachedRecently
  <2>2. CASE entry \notin {agentCache[t][<<l.domain, l.user>>], peerCache[t][l.user]}
    <3>1. agentCache' = [agentCache EXCEPT ![s][key] = [secret |-> g.hit, age |-> 0]]
      BY <1>1, <2>2 DEF ConcludeAgents
    <3>2. t = s /\ <<l.domain, l.user>> = key /\ entry = [secret |-> g.hit, age |-> 0]
      BY <1>1, <2>2, <3>1 DEF Inv, TypeOK, Login
    <3>3. gone[l] <= g.age
      BY <1>1, <3>2 DEF Inv, Evidence, ReadRecently
    <3> QED
      BY <1>1, <3>2, <3>3, WindowType DEF Inv, TypeOK, Lookup
  <2> QED
    BY <2>1, <2>2
<1> QED
  BY <1>2, <1>3, <1>4 DEF Evidence

LEMMA EvidenceConcludePeers ==
  ASSUME Inv, NEW s \in Servers, ConcludePeers(s)
  PROVE  Evidence'
<1> DEFINE g == registrar[s]
<1>1. /\ g \in Lookup
      /\ g.login \in Login
      /\ g.phase = "peers"
      /\ Busy(s)
      /\ UNCHANGED <<strings, sets, gone, agentCache>>
  BY DEF ConcludePeers, Inv, TypeOK, Busy, Collections, history
<1>2. HeldNow'
  BY <1>1, HeldNowKept
<1>3. OwnRefs' /\ ReadRecently'
  <2>1. \E v : Forgetful(v) /\ registrar' = [registrar EXCEPT ![s] = v]
    BY NothingHeld DEF ConcludePeers, Collections
  <2> QED
    BY <1>1, <2>1, OneForgets
<1>4. CachedRecently'
  <2> SUFFICES ASSUME NEW t \in Servers, NEW l \in Login,
                      NEW entry \in {agentCache'[t][<<l.domain, l.user>>],
                                     peerCache'[t][l.user]},
                      entry # None, entry.secret = l.secret
               PROVE  gone[l] <= entry.age + MaxLookup
    BY <1>1 DEF CachedRecently
  <2>1. CASE entry \in {agentCache[t][<<l.domain, l.user>>], peerCache[t][l.user]}
    BY <2>1 DEF Inv, Evidence, CachedRecently
  <2>2. CASE entry \notin {agentCache[t][<<l.domain, l.user>>], peerCache[t][l.user]}
    <3>1. peerCache' = [peerCache EXCEPT ![s][g.login.user] = [secret |-> g.hit, age |-> 0]]
      BY <1>1, <2>2 DEF ConcludePeers
    <3>2. t = s /\ l.user = g.login.user /\ entry = [secret |-> g.hit, age |-> 0]
      BY <1>1, <2>2, <3>1 DEF Inv, TypeOK, Login
    <3>3. gone[l] <= g.age
      BY <1>1, <3>2 DEF Inv, Evidence, ReadRecently
    <3> QED
      BY <1>1, <3>2, <3>3, WindowType DEF Inv, TypeOK, Lookup
  <2> QED
    BY <2>1, <2>2
<1> QED
  BY <1>2, <1>3, <1>4 DEF Evidence

LEMMA EvidenceReturn ==
  ASSUME Inv, NEW s \in Servers, Return(s)
  PROVE  Evidence'
<1>1. HeldNow' /\ CachedRecently'
  BY HeldNowKept, CachedKept DEF Return, history
<1>2. OwnRefs' /\ ReadRecently'
  BY NothingHeld, OneForgets DEF Return, history
<1> QED
  BY <1>1, <1>2 DEF Evidence

LEMMA EvidenceMishap ==
  ASSUME Inv, NEW s \in Servers, FindFails(s) \/ Restart(s)
  PROVE  Evidence'
<1> DEFINE g == registrar[s]
<1>1. UNCHANGED <<strings, sets, gone>>
  BY DEF FindFails, Restart, history
<1>2. HeldNow'
  BY <1>1, HeldNowKept
<1>3. OwnRefs' /\ ReadRecently'
  <2>1. CASE \E v : Forgetful(v) /\ registrar' = [registrar EXCEPT ![s] = v]
    BY <1>1, <2>1, OneForgets
  <2>2. CASE FindFails(s) /\ AskPeers(s, g.login, g.age)
    <3>1. g.login \in Login
      BY <2>2 DEF FindFails, Inv, TypeOK
    <3> QED
      BY <1>1, <2>2, <3>1, EvidenceAskPeers
  <2> QED
    BY <2>1, <2>2, NothingHeld DEF FindFails, Restart, Collections
<1>4. CachedRecently'
  <2> SUFFICES ASSUME NEW t \in Servers, NEW l \in Login,
                      NEW entry \in {agentCache'[t][<<l.domain, l.user>>],
                                     peerCache'[t][l.user]},
                      entry # None, entry.secret = l.secret
               PROVE  gone[l] <= entry.age + MaxLookup
    BY <1>1 DEF CachedRecently
  <2>1. \/ entry \in {agentCache[t][<<l.domain, l.user>>], peerCache[t][l.user]}
        \/ entry = None
        \/ entry.secret = None
    <3>1. CASE Restart(s)
      BY <3>1 DEF Restart, Inv, TypeOK, Login
    <3>2. CASE FindFails(s)
      BY <3>2 DEF FindFails, Inv, TypeOK, Login
    <3> QED
      BY <3>1, <3>2
  <2>2. l.secret # None
    BY DEF Login
  <2> QED
    BY <2>1, <2>2 DEF Inv, Evidence, CachedRecently
<1> QED
  BY <1>2, <1>3, <1>4 DEF Evidence

\* A tick ages what was read and the time since it was held alike.
LEMMA EvidenceTick ==
  ASSUME Inv, Tick
  PROVE  Evidence'
<1>1. ASSUME NEW l \in Login
      PROVE  /\ gone[l] \in 0 .. (Window + 1)
             /\ gone'[l] \in Nat
             /\ \A k \in Nat : gone[l] <= k => gone'[l] <= k + 1
  <2>1. gone[l] \in 0 .. (Window + 1)
    BY DEF Inv, TypeOK
  <2>2. gone'[l] \in {0, Older(gone[l])}
    BY DEF Tick
  <2> QED
    BY <2>1, <2>2, OlderType, WindowType
<1>2. HeldNow'
  BY DEF Inv, Evidence, HeldNow, Known, Tick
<1>3. ASSUME NEW s \in Servers
      PROVE  /\ registrar'[s] = IF Busy(s) THEN [registrar[s] EXCEPT !.age = @ + 1]
                                           ELSE registrar[s]
             /\ registrar[s] \in Lookup
  BY DEF Tick, Inv, TypeOK
<1>4. ASSUME NEW s \in Servers, Busy(s)'
      PROVE  /\ Busy(s)
             /\ registrar'[s].todo = registrar[s].todo
             /\ registrar'[s].phase = registrar[s].phase
             /\ registrar'[s].login = registrar[s].login
             /\ registrar'[s].hit = registrar[s].hit
             /\ registrar'[s].age = registrar[s].age + 1
             /\ registrar[s].age \in Nat
  <2>1. Busy(s)
    BY <1>3, <1>4 DEF Busy
  <2>2. registrar'[s] = [registrar[s] EXCEPT !.age = @ + 1] /\ registrar[s] \in Lookup
    BY <1>3, <2>1
  <2> QED
    BY <2>1, <2>2, WindowType DEF Lookup
<1>5. OwnRefs'
  <2>1. sets' = sets
    BY DEF Tick
  <2> QED
    BY <1>4, <2>1 DEF Inv, Evidence, OwnRefs
<1>6. ReadRecently'
  <2> SUFFICES ASSUME NEW s \in Servers, NEW l \in Login, Busy(s)',
                      registrar'[s].login.user = l.user,
                      registrar'[s].phase = "agents"
                        => registrar'[s].login.domain = l.domain,
                      registrar'[s].hit = l.secret
               PROVE  gone'[l] <= registrar'[s].age
    BY DEF ReadRecently
  <2>1. gone[l] <= registrar[s].age
    BY <1>4 DEF Inv, Evidence, ReadRecently
  <2> QED
    BY <1>1, <1>4, <2>1
<1>7. CachedRecently'
  <2> SUFFICES ASSUME NEW s \in Servers, NEW l \in Login,
                      NEW entry \in {agentCache[s][<<l.domain, l.user>>],
                                     peerCache[s][l.user]},
                      Expire(entry) # None, Expire(entry).secret = l.secret
               PROVE  gone'[l] <= Expire(entry).age + MaxLookup
    <3>1. \A s \in Servers, l \in Login :
            /\ agentCache'[s][<<l.domain, l.user>>]
                 = Expire(agentCache[s][<<l.domain, l.user>>])
            /\ peerCache'[s][l.user] = Expire(peerCache[s][l.user])
      <4> SUFFICES ASSUME NEW s \in Servers, NEW l \in Login
                   PROVE  /\ agentCache'[s][<<l.domain, l.user>>]
                               = Expire(agentCache[s][<<l.domain, l.user>>])
                          /\ peerCache'[s][l.user] = Expire(peerCache[s][l.user])
        OBVIOUS
      <4>1. l.user \in Users /\ <<l.domain, l.user>> \in Domains \X Users
        BY DEF Login
      <4> QED
        BY <4>1, SMT DEF Tick
    <3> QED
      BY <3>1 DEF CachedRecently
  <2>1. entry \in Entry /\ Expire(entry) = [entry EXCEPT !.age = @ + 1]
    BY DEF Expire, Inv, TypeOK, Login
  <2>2. /\ entry # None
        /\ Expire(entry).secret = entry.secret
        /\ Expire(entry).age = entry.age + 1
        /\ entry.age + MaxLookup \in Nat
        /\ entry.age \in Nat
    BY <2>1, WindowType DEF Entry, Expire
  <2>3. gone[l] <= entry.age + MaxLookup
    BY <2>2 DEF Inv, Evidence, CachedRecently
  <2> QED
    BY <1>1, <2>2, <2>3, WindowType
<1> QED
  BY <1>2, <1>5, <1>6, <1>7 DEF Evidence

LEMMA InvNext == Inv /\ [Next]_vars => Inv'
<1> SUFFICES ASSUME Inv, [Next]_vars PROVE Evidence'
  BY TypeNext DEF Inv
<1>1. CASE UNCHANGED vars
  BY <1>1 DEF vars, Inv, Evidence, HeldNow, Known, OwnRefs, ReadRecently,
              CachedRecently, Busy
<1>2. ASSUME NEW s \in Servers, Work(s) PROVE Evidence'
  BY <1>2, EvidenceGetEntity, EvidenceConcludeAgents, EvidenceConcludePeers,
     EvidenceReturn DEF Work
<1> QED
  BY <1>1, <1>2, EvidenceRest, EvidenceStartLookup, EvidenceMishap, EvidenceTick
     DEF Next, Writing

(***************************************************************************)
(* What lookups and caches hold was in the data source recently enough.    *)
(***************************************************************************)
THEOREM EvidenceHolds == Spec => []Evidence
<1>1. Init => Inv
  BY TypeInit, EvidenceInit DEF Inv
<1>2. Inv => Evidence
  BY DEF Inv
<1> QED
  BY <1>1, <1>2, InvNext, PTL DEF Spec

-----------------------------------------------------------------------------
(***************************************************************************)
(* Grants.                                                                 *)
(***************************************************************************)
LEMMA JudgeGrants ==
  ASSUME NEW l \in Login, NEW secret, Judge(l, secret).phase = "granted"
  PROVE  secret = l.secret /\ Judge(l, secret).login = l
  BY DEF Judge, Verdict

\* A cached secret is held recently enough by the time it is compared.
LEMMA CacheGrants ==
  ASSUME Inv, NEW s \in Servers, NEW l \in Login,
         NEW entry \in {agentCache[s][<<l.domain, l.user>>], peerCache[s][l.user]},
         entry # None, entry.secret = l.secret
  PROVE  gone[l] <= Window
<1>1. gone[l] <= entry.age + MaxLookup
  BY DEF Inv, Evidence, CachedRecently
<1>2. entry.age \in 0 .. (TTL - 1)
  BY DEF Inv, TypeOK, Entry, Login
<1>3. gone[l] \in Nat
  BY WindowType DEF Inv, TypeOK
<1> QED
  BY <1>1, <1>2, <1>3, WindowType DEF Window

LEMMA HitGrants ==
  ASSUME Inv, NEW s \in Servers, Busy(s), registrar[s].hit = registrar[s].login.secret
  PROVE  gone[registrar[s].login] <= Window
<1> DEFINE l == registrar[s].login
<1>1. l \in Login /\ registrar[s].age \in 0 .. MaxLookup
  BY DEF Inv, TypeOK, Lookup
<1>2. gone[l] <= registrar[s].age /\ gone[l] \in Nat
  BY <1>1, WindowType DEF Inv, TypeOK, Evidence, ReadRecently
<1> QED
  BY <1>1, <1>2, WindowType DEF Window

LEMMA AskPeersGrants ==
  ASSUME Inv, NEW s \in Servers, NEW l \in Login, NEW age, AskPeers(s, l, age),
         registrar'[s].phase = "granted"
  PROVE  registrar'[s].login = l /\ gone[l] <= Window
<1> DEFINE entry == peerCache[s][l.user]
<1>1. CASE entry = None
  <2>1. registrar'[s] = Search(l, "peers", age)
    BY <1>1 DEF AskPeers, Inv, TypeOK
  <2> QED
    BY <2>1 DEF Search
<1>2. CASE entry # None
  <2>1. registrar'[s] = Judge(l, entry.secret)
    BY <1>2 DEF AskPeers, Inv, TypeOK
  <2>2. entry.secret = l.secret /\ registrar'[s].login = l
    BY <2>1, JudgeGrants
  <2> QED
    BY <1>2, <2>2, CacheGrants
<1> QED
  BY <1>1, <1>2

LEMMA GrantStep ==
  ASSUME Inv, Next, NEW s \in Servers, Decides(s, "granted")
  PROVE  gone'[registrar'[s].login] <= Window
<1> DEFINE g == registrar[s]
<1>1. registrar'[s] # registrar[s] /\ registrar'[s].phase = "granted"
  BY DEF Decides
<1>2. ASSUME NEW l \in Login, StartLookup(s, l)
      PROVE  gone'[registrar'[s].login] <= Window
  <2> DEFINE entry == agentCache[s][<<l.domain, l.user>>]
  <2>1. CASE entry = None
    <3>1. registrar'[s] = Search(l, "agents", 0)
      BY <1>2, <2>1 DEF StartLookup, Inv, TypeOK
    <3> QED
      BY <1>1, <3>1 DEF Search
  <2>2. CASE entry # None
    <3>1. registrar'[s] = Judge(l, entry.secret) /\ gone' = gone
      BY <1>2, <2>2 DEF StartLookup, Inv, TypeOK, history
    <3>2. entry.secret = l.secret /\ registrar'[s].login = l
      BY <1>1, <3>1, JudgeGrants
    <3> QED
      BY <2>2, <3>1, <3>2, CacheGrants
  <2> QED
    BY <2>1, <2>2
<1>3. ASSUME ConcludeAgents(s) \/ ConcludePeers(s)
      PROVE  gone'[registrar'[s].login] <= Window
  <2>1. Busy(s) /\ g.login \in Login /\ gone' = gone
    BY <1>3 DEF ConcludeAgents, ConcludePeers, Busy, Collections, Inv, TypeOK, history
  <2>2. CASE AskPeers(s, g.login, g.age)
    BY <1>1, <2>1, <2>2, AskPeersGrants
  <2>3. CASE registrar' = [registrar EXCEPT ![s] = Judge(g.login, g.hit)]
    <3>1. registrar'[s] = Judge(g.login, g.hit)
      BY <2>3 DEF Inv, TypeOK
    <3>2. g.hit = g.login.secret /\ registrar'[s].login = g.login
      BY <1>1, <2>1, <3>1, JudgeGrants
    <3> QED
      BY <2>1, <3>2, HitGrants
  <2>4. CASE registrar' = [registrar EXCEPT ![s] = Verdict(g.login, "failed")]
    BY <1>1, <2>4 DEF Verdict, Inv, TypeOK
  <2> QED
    BY <1>3, <2>2, <2>3, <2>4 DEF ConcludeAgents, ConcludePeers
<1>4. CASE FindFails(s)
  <2>1. g.login \in Login /\ gone' = gone
    BY <1>4 DEF FindFails, Inv, TypeOK
  <2>2. CASE AskPeers(s, g.login, g.age)
    BY <1>1, <2>1, <2>2, AskPeersGrants
  <2>3. CASE registrar' = [registrar EXCEPT ![s] = Verdict(g.login, "refused")]
    BY <1>1, <2>3 DEF Verdict, Inv, TypeOK
  <2> QED
    BY <1>4, <2>2, <2>3 DEF FindFails
<1>5. ASSUME NEW r \in Refs, GetEntity(s, r) PROVE FALSE
  <2>1. registrar'[s].phase = g.phase
    BY <1>5 DEF GetEntity, Inv, TypeOK, Lookup
  <2> QED
    BY <2>1 DEF Decides
<1>6. CASE Return(s) \/ Restart(s)
  <2>1. registrar'[s] = Idle
    BY <1>6 DEF Return, Restart, Inv, TypeOK
  <2> QED
    BY <1>1, <2>1 DEF Idle, Verdict
<1>7. CASE Tick
  <2>1. registrar'[s].phase = g.phase
    BY <1>7 DEF Tick, Inv, TypeOK, Lookup
  <2> QED
    BY <2>1 DEF Decides
<1>8. ASSUME NEW t \in Servers, t # s,
             (\E l \in Login : StartLookup(t, l)) \/ Work(t) \/ FindFails(t) \/ Restart(t)
      PROVE  FALSE
  <2>1. registrar'[s] = registrar[s]
    BY <1>8 DEF StartLookup, Work, GetEntity, ConcludeAgents, ConcludePeers, Return,
                FindFails, Restart, AskPeers, Inv, TypeOK
  <2> QED
    BY <1>1, <2>1
<1>9. CASE Writing
  <2>1. UNCHANGED registrar
    BY <1>9, WritingKeeps
  <2> QED
    BY <1>1, <2>1
<1> QED
  BY <1>2, <1>3, <1>4, <1>5, <1>6, <1>7, <1>8, <1>9 DEF Next, Work, Writing

(***************************************************************************)
(* However many servers, users and entities there are, and whatever the    *)
(* administrators do, a login is granted only when some entity held it     *)
(* within the time to live of a cache entry and the time of one lookup.    *)
(***************************************************************************)
THEOREM GrantsRecent == Spec => GrantsAreRecent
<1> DEFINE Recent == \A s \in Servers : Decides(s, "granted") =>
                        gone'[registrar'[s].login] <= Window
<1>1. Init => Inv
  BY TypeInit, EvidenceInit DEF Inv
<1>2. Inv /\ [Next]_vars => [Recent]_vars
  BY GrantStep
<1>3. GrantsAreRecent <=> [][Recent]_vars
  BY PTL DEF GrantsAreRecent
<1> QED
  BY <1>1, <1>2, <1>3, InvNext, PTL DEF Spec
=============================================================================
